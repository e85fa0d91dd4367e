--------------------------- MODULE InteractiveServer ---------------------------
(***************************************************************************)
(* The interactive server (webserver/core/interactive_server.cpp), through *)
(* which openplc.py starts and stops the protocol servers, and the threads *)
(* it starts: the accepting threads of the Modbus/TCP and EtherNet/IP      *)
(* servers with the detached handlers they create (server.cpp), and the    *)
(* DNP3 updater (dnp3.cpp).  A thread is stopped by clearing its run flag, *)
(* which it polls, and joining it.                                         *)
(*                                                                         *)
(* Handlers of operator connections share the line they put their commands *)
(* together in and the flag that is to let one command in at a time.  What *)
(* a command does is a script of steps on flags and threads; the thread    *)
(* that accepts operators runs one as well when the runtime is told to     *)
(* quit.  A line is copied in one step, and a line that is copied behind   *)
(* another one is ignored, since commands are recognised by their prefix.  *)
(*                                                                         *)
(* start_pstorage() and stop_pstorage() are in PersistentStorage.  The     *)
(* creation of a thread does not fail, and a handler gets the descriptor   *)
(* it was created for.                                                     *)
(***************************************************************************)
EXTENDS Naturals, Sequences

CONSTANTS
    Operators,  \* operator connections
    Sends,      \* Sends[o]: the commands operator o may send
    Hasty,      \* whether a line may come while another is being put together
    Teardown,   \* the thread of startInteractiveServer()
    Ids,        \* what a pthread_t can be; used again once joined
    Clients,    \* connections to the Modbus and EtherNet/IP servers
    Null        \* a pthread_t before it is assigned

Servers == {"modbus", "dnp3", "enip"}
Listening == {"modbus", "enip"}
Workers   == Operators \cup {Teardown}

VARIABLES
    run,         \* run_modbus, run_dnp3, run_enip
    runPlc,      \* run_openplc
    handle,      \* modbus_thread, dnp3_thread, enip_thread
    serves,      \* the server each thread was created for
    at,          \* where each thread is
    conn,        \* where the handler of each client connection is
    of,          \* the server that accepted each client
    line,        \* server_command
    copied,      \* whether command_index is past 0
    processing,  \* processing_command
    pc,          \* where each operator's handler and the tear-down are
    got,         \* the command each operator has sent
    todo,        \* the steps a worker has left
    process      \* the process: up, exited or crashed

threads == <<handle, serves, at>>
shared  == <<line, copied, processing>>
vars    == <<run, runPlc, threads, conn, of, shared, pc, got, todo, process>>

\* Faulty: whether a server runs is not asked.
StopAlways(s) == <<<<"off", s>>, <<"join", s>>>>

\* if (run_x) { run_x = 0; pthread_join(x_thread, NULL); }
Stop(s) == <<<<"clear", s>>, <<"join", s>>>>

\* run_x = 1; pthread_create(&x_thread, ...);
Start(s) == <<<<"set", s>>, <<"create", s>>>>

\* quit() stops two of the three servers.
Quit == Stop("modbus") \o Stop("dnp3") \o <<<<"halt", "modbus">>>>

\* A line that is just answered: runtime_logs(), exec_time(), or no command.
Ask == <<"ask", "modbus">>

Commands == ({"start", "stop"} \X Servers) \cup {<<"quit", "modbus">>, Ask}

ASSUME ThreadsAssumption ==
    /\ Teardown \notin Operators /\ Null \notin Ids
    /\ Sends \in [Operators -> SUBSET Commands]
    /\ Hasty \in BOOLEAN

\* What processCommand() does for a command.
Script(c) ==
    CASE c[1] = "start" -> Stop(c[2]) \o Start(c[2])
      [] c[1] = "stop"  -> Stop(c[2])
      [] c[1] = "quit"  -> Quit
      [] c[1] = "ask"   -> <<>>

\* Faulty: one server is left to itself.
TearDownTwo ==
    <<<<"off", "modbus">>, <<"off", "dnp3">>,
      <<"join", "modbus">>, <<"join", "dnp3">>>>

\* Faulty: one flag is left as it is.
TearDownBlind ==
    <<<<"off", "modbus">>, <<"off", "dnp3">>,
      <<"join", "modbus">>, <<"join", "dnp3">>, <<"join", "enip">>>>

\* The end of startInteractiveServer().
TearDownAll ==
    <<<<"off", "modbus">>, <<"off", "dnp3">>, <<"off", "enip">>,
      <<"join", "modbus">>, <<"join", "dnp3">>, <<"join", "enip">>>>

Init ==
    /\ run = [s \in Servers |-> FALSE]
    /\ runPlc = TRUE
    /\ handle = [s \in Servers |-> Null]
    /\ serves = [i \in Ids |-> "modbus"]
    /\ at = [i \in Ids |-> "free"]
    /\ conn = [c \in Clients |-> "none"]
    /\ of = [c \in Clients |-> "modbus"]
    /\ line = Ask
    /\ copied = FALSE
    /\ processing = FALSE
    /\ pc = [w \in Workers |-> "check"]
    /\ got = [o \in Operators |-> Ask]
    /\ todo = [w \in Workers |-> <<>>]
    /\ process = "up"

-----------------------------------------------------------------------------
\* The handler of an operator connection.

Up == process = "up"

Goto(w, from, to) == Up /\ pc[w] = from /\ pc' = [pc EXCEPT ![w] = to]

\* while (run_openplc); a handler that leaves closes its connection.
CheckRun(o) ==
    /\ Goto(o, "check", IF runPlc THEN "read" ELSE "gone")
    /\ UNCHANGED <<run, runPlc, threads, conn, of, shared, got, todo, process>>

\* A command arrives.
Receive(o) ==
    /\ Goto(o, "read", "copy")
    /\ Hasty \/ \A p \in Operators : pc[p] \notin {"copy", "ask", "begin"}
    /\ \E c \in Sends[o] : got' = [got EXCEPT ![o] = c]
    /\ UNCHANGED <<run, runPlc, threads, conn, of, shared, todo, process>>

\* processMessage_interactive() appends it to the line.
CopyLine(o) ==
    /\ Goto(o, "copy", "ask")
    /\ line' = IF copied THEN line ELSE got[o]
    /\ copied' = TRUE
    /\ got' = [got EXCEPT ![o] = Ask]
    /\ UNCHANGED <<run, runPlc, threads, conn, of, processing, todo, process>>

\* "Processing command...": another handler is at it.  The answer is put
\* together in server_command, where it is no command.
AnswerBusy(o) ==
    /\ processing
    /\ Goto(o, "ask", "check")
    /\ line' = Ask
    /\ copied' = FALSE
    /\ UNCHANGED <<run, runPlc, threads, conn, of, processing, got, todo, process>>

SeeIdle(o) ==
    /\ ~processing
    /\ Goto(o, "ask", "begin")
    /\ UNCHANGED <<run, runPlc, threads, conn, of, shared, got, todo, process>>

BeginCommand(o) ==
    /\ Goto(o, "begin", "work")
    /\ processing' = TRUE
    /\ todo' = [todo EXCEPT ![o] = Script(line)]
    /\ UNCHANGED <<run, runPlc, threads, conn, of, line, copied, got, process>>

EndCommand(o) ==
    /\ todo[o] = <<>>
    /\ Goto(o, "work", "answer")
    /\ processing' = FALSE
    /\ UNCHANGED <<run, runPlc, threads, conn, of, line, copied, got, todo, process>>

\* "OK" is put together in server_command and sent, and the next line starts.
Answer(o) ==
    /\ Goto(o, "answer", "check")
    /\ line' = Ask
    /\ copied' = FALSE
    /\ UNCHANGED <<run, runPlc, threads, conn, of, processing, got, todo, process>>

-----------------------------------------------------------------------------
\* The steps of a script.

At(w, what) == Up /\ pc[w] = "work" /\ todo[w] # <<>> /\ Head(todo[w])[1] = what

Server(w) == Head(todo[w])[2]

Done(w) == todo' = [todo EXCEPT ![w] = Tail(@)]

\* if (run_x) run_x = 0; the join is under the same condition.
Clear(w) ==
    /\ At(w, "clear")
    /\ IF run[Server(w)] THEN Done(w)
       ELSE todo' = [todo EXCEPT ![w] = Tail(Tail(@))]
    /\ run' = [run EXCEPT ![Server(w)] = FALSE]
    /\ UNCHANGED <<runPlc, threads, conn, of, shared, pc, got, process>>

\* run_x = 0, run_x = 1.
SetFlag(w) ==
    /\ At(w, "off") \/ At(w, "set")
    /\ run' = [run EXCEPT ![Server(w)] = At(w, "set")]
    /\ Done(w)
    /\ UNCHANGED <<runPlc, threads, conn, of, shared, pc, got, process>>

\* Faulty: a thread of the server is not waited for.
JoinNot(w) ==
    /\ At(w, "join")
    /\ handle[Server(w)] # Null
    /\ Done(w)
    /\ UNCHANGED <<run, runPlc, threads, conn, of, shared, pc, got, process>>

\* pthread_join() of a thread: it waits for its end.
Join(w) ==
    /\ At(w, "join")
    /\ LET i == handle[Server(w)]
       IN  /\ i # Null /\ at[i] = "ended"
           /\ at' = [at EXCEPT ![i] = "free"]
           /\ serves' = [serves EXCEPT ![i] = "modbus"]
    /\ Done(w)
    /\ UNCHANGED <<run, runPlc, handle, conn, of, shared, pc, got, process>>

\* pthread_join() of a thread that was joined before is undefined: it may
\* return or crash.  That of a pthread_t never assigned crashes.
JoinUndefined(w) ==
    /\ At(w, "join")
    /\ LET i == handle[Server(w)]
       IN  \/ i # Null /\ at[i] = "free" /\ Done(w) /\ UNCHANGED process
           \/ (i # Null => at[i] = "free") /\ process' = "crashed" /\ UNCHANGED todo
    /\ UNCHANGED <<run, runPlc, threads, conn, of, shared, pc, got>>

\* pthread_create() takes some free identifier; which one does not matter.
Create(w) ==
    /\ At(w, "create")
    /\ \E i \in Ids :
          /\ at[i] = "free"
          /\ i = CHOOSE j \in Ids : at[j] = "free"
          /\ at' = [at EXCEPT ![i] = "test"]
          /\ serves' = [serves EXCEPT ![i] = Server(w)]
          /\ handle' = [handle EXCEPT ![Server(w)] = i]
    /\ Done(w)
    /\ UNCHANGED <<run, runPlc, conn, of, shared, pc, got, process>>

Halt(w) ==
    /\ At(w, "halt")
    /\ runPlc' = FALSE
    /\ Done(w)
    /\ UNCHANGED <<run, threads, conn, of, shared, pc, got, process>>

ScriptStep(w) ==
    \/ Clear(w) \/ SetFlag(w) \/ Join(w) \/ JoinUndefined(w) \/ Create(w) \/ Halt(w)

OperatorStep(o) ==
    \/ CheckRun(o) \/ CopyLine(o) \/ AnswerBusy(o) \/ SeeIdle(o)
    \/ BeginCommand(o) \/ EndCommand(o) \/ Answer(o) \/ ScriptStep(o)

\* startInteractiveServer() leaves its loop.
BeginTeardown ==
    /\ ~runPlc
    /\ Goto(Teardown, "check", "work")
    /\ todo' = [todo EXCEPT ![Teardown] = TearDownAll]
    /\ UNCHANGED <<run, runPlc, threads, conn, of, shared, got, process>>

\* main() has joined it, disables the outputs and exits.
Exit ==
    /\ Up /\ pc[Teardown] = "work" /\ todo[Teardown] = <<>>
    /\ process' = "exited"
    /\ UNCHANGED <<run, runPlc, threads, conn, of, shared, pc, got, todo>>

-----------------------------------------------------------------------------
\* The threads of the servers.

Flag(i) == run[serves[i]]

Move(i, from, to) == Up /\ at[i] = from /\ at' = [at EXCEPT ![i] = to]

\* Faulty: the thread goes on whatever the flag says.
GoRound(i) ==
    /\ Move(i, "test", IF serves[i] \in Listening THEN "accept" ELSE "test")
    /\ UNCHANGED <<run, runPlc, handle, serves, conn, of, shared, pc, got, todo, process>>

\* Faulty: a DNP3 updater goes where a listening server does.
TestAnyFlag(i) ==
    /\ Move(i, "test", IF Flag(i) THEN "accept" ELSE "ended")
    /\ UNCHANGED <<run, runPlc, handle, serves, conn, of, shared, pc, got, todo, process>>

\* while (*run_server): the DNP3 updater goes round, the others go to accept.
TestFlag(i) ==
    /\ Move(i, "test", IF ~Flag(i) THEN "ended"
                       ELSE IF serves[i] \in Listening THEN "accept" ELSE "test")
    /\ UNCHANGED <<run, runPlc, handle, serves, conn, of, shared, pc, got, todo, process>>

\* waitForClient() sees the flag cleared and returns no client.
StopWaiting(i) ==
    /\ ~Flag(i)
    /\ Move(i, "accept", "test")
    /\ UNCHANGED <<run, runPlc, handle, serves, conn, of, shared, pc, got, todo, process>>

\* accept() returns a client.
Accept(i) ==
    /\ Flag(i)
    /\ Move(i, "accept", "spawn")
    /\ \E c \in Clients :
          /\ conn[c] = "none"
          /\ conn' = [conn EXCEPT ![c] = "accepted"]
          /\ of' = [of EXCEPT ![c] = serves[i]]
    /\ UNCHANGED <<run, runPlc, handle, serves, shared, pc, got, todo, process>>

\* Its handler is created, and detached.
Spawn(i) ==
    /\ Move(i, "spawn", "test")
    /\ \E c \in Clients :
          /\ conn[c] = "accepted" /\ of[c] = serves[i]
          /\ conn' = [conn EXCEPT ![c] = "check"]
    /\ UNCHANGED <<run, runPlc, handle, serves, of, shared, pc, got, todo, process>>

\* handleConnections(): a handler looks at the flag before each read only.
HandlerChecks(c) ==
    /\ Up /\ conn[c] = "check"
    /\ conn' = [conn EXCEPT ![c] = IF run[of[c]] THEN "read" ELSE "none"]
    /\ UNCHANGED <<run, runPlc, threads, of, shared, pc, got, todo, process>>

\* A request is served, or the client has closed the connection.
HandlerReads(c) ==
    /\ Up /\ conn[c] = "read"
    /\ \E next \in {"check", "none"} : conn' = [conn EXCEPT ![c] = next]
    /\ UNCHANGED <<run, runPlc, threads, of, shared, pc, got, todo, process>>

ServerStep(i) == TestFlag(i) \/ StopWaiting(i) \/ Spawn(i)

Next ==
    \/ \E o \in Operators : Receive(o) \/ OperatorStep(o)
    \/ BeginTeardown \/ ScriptStep(Teardown) \/ Exit
    \/ \E i \in Ids : ServerStep(i) \/ Accept(i)
    \/ \E c \in Clients : HandlerChecks(c) \/ HandlerReads(c)

Spec == Init /\ [][Next]_vars

\* Threads run on; operators and clients do what they like.
FairSpec ==
    /\ Spec
    /\ \A o \in Operators : WF_vars(OperatorStep(o))
    /\ WF_vars(BeginTeardown \/ ScriptStep(Teardown) \/ Exit)
    /\ \A i \in Ids : WF_vars(ServerStep(i))
-----------------------------------------------------------------------------
\* Properties.

\* Type invariant: every variable holds what its declaration says.
TypeOK ==
    /\ run \in [Servers -> BOOLEAN]
    /\ runPlc \in BOOLEAN
    /\ handle \in [Servers -> Ids \cup {Null}]
    /\ serves \in [Ids -> Servers]
    /\ at \in [Ids -> {"free", "test", "accept", "spawn", "ended"}]
    /\ conn \in [Clients -> {"none", "accepted", "check", "read"}]
    /\ of \in [Clients -> Listening]
    /\ line \in Commands
    /\ copied \in BOOLEAN /\ processing \in BOOLEAN
    /\ pc \in [Workers -> {"check", "read", "copy", "ask", "begin", "work", "answer", "gone"}]
    /\ got \in [Operators -> Commands]
    /\ \A w \in Workers : Len(todo[w]) <= 6
    /\ process \in {"up", "exited", "crashed"}

Live(i) == at[i] \in {"test", "accept", "spawn"}

\* However servers are restarted, stopped and shut down, no two threads run
\* one server: they would compete for its port.
OneServer ==
    \A i, j \in Ids : Live(i) /\ Live(j) /\ serves[i] = serves[j] => i = j

\* A command joins a thread that was created for that server and that nobody
\* has joined: pthread_join() of any other is undefined.
JoinsSound ==
    \A o \in Operators :
        At(o, "join") =>
            /\ handle[Server(o)] # Null
            /\ at[handle[Server(o)]] # "free"
            /\ serves[handle[Server(o)]] = Server(o)

\* None of the threads that accept clients or update DNP3's points is left when
\* main() disables the outputs and exits, though quit() says nothing to
\* EtherNet/IP.  Threads that handle a client are detached, and may be left.
ExitIsQuiet == process = "exited" => \A i \in Ids : ~Live(i)

\* When the operator has been told that a server is stopped, it takes no new
\* client: a client accepted as the flag was cleared has its handler by then.
StoppedTakesNone ==
    [][\A c \in Clients :
         (conn[c] = "accepted" /\ conn'[c] = "check") =>
             (run[of[c]] \/ \E w \in Workers : At(w, "join"))]_vars

\* A command is answered: whatever a join waits for ends.
CommandAnswered ==
    \A o \in Operators : pc[o] = "copy" ~> (pc[o] = "check" \/ ~Up)

\* Once told to quit, the process ends.
QuitEnds == ~runPlc ~> ~Up

\* "SHUTTING DOWN OPENPLC RUNTIME", "Disabling outputs" (main.cpp): after
\* quit() main() comes to disable the outputs and exits.
QuitDisablesOutputs == ~runPlc ~> process = "exited"
=============================================================================
