--------------------------- MODULE RuntimeController ---------------------------
(***************************************************************************)
(* The web server's hold on the runtime (webserver/openplc.py and the pages*)
(* of webserver/webserver.py that start, stop and compile).                *)
(*                                                                         *)
(* The web server knows of the runtime what runtime_status says, and every *)
(* remote call to it corrects that: one that is answered sets "Running",   *)
(* one that fails sets "Stopped", and while it is "Stopped" no call is     *)
(* made.  A process that has just been started does not listen yet, and    *)
(* one that is executing a command drops the others.  The pages are served *)
(* by threads of their own.                                                *)
(***************************************************************************)
EXTENDS Integers, FiniteSets

CONSTANTS
    Pages,   \* threads that serve pages
    Procs    \* processes ./core/openplc there may be at a time

VARIABLES
    runtime_status,
    theprocess,     \* the process that was started last
    end_of_stream,  \* whether the compile script has ended
    proc,           \* what each process does
    processing_command, \* whether the one that listens executes a command
    op,             \* which page each thread serves
    where,          \* where it is in it
    call,           \* the remote call it has under way
    orderly,        \* whether calls, pages and starts have kept out of each
                    \* other's way so far: see Properties
    dropped         \* whether a quit() was answered but not executed

ctlVars == <<runtime_status, theprocess, end_of_stream, proc, processing_command,
             op, where, call, orderly, dropped>>

runtime == <<theprocess, end_of_stream, proc, processing_command>>
ctlGhosts  == <<orderly, dropped>>

CtlInit ==
    /\ runtime_status = "Stopped"
    /\ theprocess = CHOOSE p \in Procs : TRUE
    /\ end_of_stream = TRUE
    /\ proc = [p \in Procs |-> "gone"]
    /\ op = [g \in Pages |-> "view"]
    /\ where = [g \in Pages |-> "idle"]
    /\ call = [g \in Pages |-> "none"]
    /\ processing_command = FALSE
    /\ orderly = TRUE /\ dropped = FALSE

PageMoves(g, from, to) == where[g] = from /\ where' = [where EXCEPT ![g] = to]

Some(state) == \E p \in Procs : proc[p] = state

-----------------------------------------------------------------------------
\* The process: it opens its port, answers until it is told to quit, and ends.

\* createSocket_interactive(): there is one port; who cannot bind it exits.
OpenPort(p) ==
    /\ proc[p] = "starting"
    /\ proc' = [proc EXCEPT ![p] = IF Some("up") \/ Some("ending") THEN "gone" ELSE "up"]
    /\ UNCHANGED <<runtime_status, theprocess, end_of_stream, processing_command,
                   op, where, call, ctlGhosts>>

\* It ends, having been told to or for a reason of its own.
EndProcess(p) ==
    /\ proc[p] # "gone"
    /\ proc' = [proc EXCEPT ![p] = "gone"]
    /\ processing_command' = (processing_command /\ proc[p] # "up")
    /\ UNCHANGED <<runtime_status, theprocess, end_of_stream, op, where, call, ctlGhosts>>

\* processing_command = false, after the answer has been written.
CommandDone ==
    /\ processing_command
    /\ processing_command' = FALSE
    /\ UNCHANGED <<runtime_status, theprocess, end_of_stream, proc, op, where, call,
                   ctlGhosts>>

\* _populateQueue() reads the last line.
ScriptEnds ==
    /\ end_of_stream' = TRUE
    /\ ~end_of_stream
    /\ UNCHANGED <<runtime_status, theprocess, proc, processing_command, op, where,
                   call, ctlGhosts>>

-----------------------------------------------------------------------------
\* _rpc()

Asks == {"page", "program", "stop", "configure", "quit"}

\* Only while the runtime is believed to run.
Connect(g) ==
    /\ where[g] \in Asks /\ call[g] = "none"
    /\ runtime_status = "Running"
    /\ where[g] \in {"page", "program", "stop"} => end_of_stream
    /\ call' = [call EXCEPT ![g] = "asked"]
    /\ UNCHANGED <<runtime_status, runtime, op, where, ctlGhosts>>

\* A process that listens answers, and quit() makes it end.  While it executes
\* a command, a status that another page has asked for too, the answer to any
\* other is "Processing command..." and that is all that happens.
CallAnswered(g) ==
    /\ call[g] = "asked"
    /\ \E p \in Procs :
          /\ proc[p] = "up"
          /\ proc' = IF where[g] = "quit" /\ ~processing_command
                     THEN [proc EXCEPT ![p] = "ending"] ELSE proc
    /\ processing_command' = (processing_command \/ where[g] # "quit")
    /\ dropped' = (dropped \/ (where[g] = "quit" /\ processing_command))
    /\ call' = [call EXCEPT ![g] = "answered"]
    /\ UNCHANGED <<runtime_status, theprocess, end_of_stream, op, where, orderly>>

\* Nobody listens, or not any more.
CallRefused(g) ==
    /\ call[g] = "asked"
    /\ ~Some("up")
    /\ call' = [call EXCEPT ![g] = "refused"]
    /\ orderly' = (orderly /\ ~Some("starting"))
    /\ UNCHANGED <<runtime_status, runtime, op, where, dropped>>

Ended(g) == call[g] \in {"answered", "refused"}
StatusOf(g) == IF call[g] = "answered" THEN "Running" ELSE "Stopped"

-----------------------------------------------------------------------------
\* The pages.

Changes(o) == o \in {"start", "stop", "compile"}

\* A request comes in: start_plc(), stop_plc(), compile_program(), and all
\* others, which only show the status.
Request(g) ==
    \E o \in {"view", "start", "stop", "compile"} :
        /\ PageMoves(g, "idle", IF o = "stop" THEN "stop" ELSE "page")
        /\ op' = [op EXCEPT ![g] = o]
        /\ orderly' = (orderly /\ ~(Changes(o) /\ \E h \in Pages :
                                        where[h] # "idle" /\ Changes(op[h])))
        /\ UNCHANGED <<runtime_status, runtime, call, dropped>>

\* Faulty: start_runtime() does not ask.
AfterStartAnyway(g, status) ==
    CASE op[g] = "view"  -> "idle"
      [] op[g] = "start" -> "popen"
      [] op[g] = "stop"  -> IF status = "Running" THEN "quit" ELSE "idle"
      [] op[g] = "compile" ->
            CASE where[g] = "page"    -> IF status = "Compiling" THEN "idle" ELSE "program"
              [] where[g] = "program" -> IF status = "Running" THEN "stop" ELSE "script"
              [] where[g] = "stop"    -> IF status = "Running" THEN "quit" ELSE "script"

\* Where a page goes with what status() returned.
After(g, status) ==
    CASE op[g] = "view"  -> "idle"
      [] op[g] = "start" -> IF status = "Stopped" THEN "popen" ELSE "configure"
      [] op[g] = "stop"  -> IF status = "Running" THEN "quit" ELSE "idle"
      [] op[g] = "compile" ->
            CASE where[g] = "page"    -> IF status = "Compiling" THEN "idle" ELSE "program"
              [] where[g] = "program" -> IF status = "Running" THEN "stop" ELSE "script"
              [] where[g] = "stop"    -> IF status = "Running" THEN "quit" ELSE "script"

\* status() without a call: the script runs, or the runtime is stopped.
StatusKnown(g) ==
    /\ where[g] \in {"page", "program", "stop"} /\ call[g] = "none"
    /\ \/ ~end_of_stream /\ where' = [where EXCEPT ![g] = After(g, "Compiling")]
                         /\ UNCHANGED runtime_status
       \/ /\ end_of_stream /\ runtime_status = "Stopped"
          /\ where' = [where EXCEPT ![g] = After(g, "Stopped")]
          /\ UNCHANGED runtime_status
    /\ UNCHANGED <<runtime, op, call, ctlGhosts>>

\* status() with one.
StatusCalled(g) ==
    /\ where[g] \in {"page", "program", "stop"} /\ Ended(g)
    /\ runtime_status' = StatusOf(g)
    /\ where' = [where EXCEPT ![g] = After(g, StatusOf(g))]
    /\ call' = [call EXCEPT ![g] = "none"]
    /\ UNCHANGED <<runtime, op, ctlGhosts>>

\* Faulty: the status is left to the next call.
StartQuietly(g) ==
    /\ PageMoves(g, "popen", "configure")
    /\ \E p \in Procs :
          /\ proc[p] = "gone" /\ p = CHOOSE q \in Procs : proc[q] = "gone"
          /\ proc' = [proc EXCEPT ![p] = "starting"]
          /\ theprocess' = p
    /\ orderly' = (orderly /\ \A h \in Pages \ {g} : call[h] # "refused")
    /\ UNCHANGED <<runtime_status, end_of_stream, processing_command, op, call, dropped>>

\* theprocess = subprocess.Popen(['./core/openplc']); which it is does not
\* matter.
StartRuntime(g) ==
    /\ PageMoves(g, "popen", "configure")
    /\ \E p \in Procs :
          /\ proc[p] = "gone" /\ p = CHOOSE q \in Procs : proc[q] = "gone"
          /\ proc' = [proc EXCEPT ![p] = "starting"]
          /\ theprocess' = p
    /\ runtime_status' = "Running"
    /\ orderly' = (orderly /\ \A h \in Pages \ {g} : call[h] # "refused")
    /\ UNCHANGED <<end_of_stream, processing_command, op, call, dropped>>

\* configure_runtime(), its calls taken for one.
ConfigureRuntime(g) ==
    /\ where[g] = "configure"
    /\ \/ Ended(g) /\ runtime_status' = StatusOf(g)
       \/ call[g] = "none" /\ runtime_status = "Stopped" /\ UNCHANGED runtime_status
    /\ where' = [where EXCEPT ![g] = "idle"]
    /\ call' = [call EXCEPT ![g] = "none"]
    /\ UNCHANGED <<runtime, op, ctlGhosts>>

\* Faulty: the status is set before the call, which is then not made.
QuitTooLate(g) ==
    /\ where[g] = "quit"
    /\ runtime_status' = "Stopped"
    /\ where' = [where EXCEPT ![g] = "poll"]
    /\ call' = [call EXCEPT ![g] = "none"]
    /\ UNCHANGED <<runtime, op, ctlGhosts>>

\* stop_runtime(): quit() has been called, or was not because another page
\* has found the runtime stopped.
Quit(g) ==
    /\ where[g] = "quit"
    /\ Ended(g) \/ (call[g] = "none" /\ runtime_status = "Stopped")
    /\ runtime_status' = "Stopped"
    /\ where' = [where EXCEPT ![g] = "poll"]
    /\ call' = [call EXCEPT ![g] = "none"]
    /\ UNCHANGED <<runtime, op, ctlGhosts>>

\* Faulty: the process is not waited for.
PollOnce(g) ==
    /\ PageMoves(g, "poll", IF op[g] = "compile" THEN "script" ELSE "idle")
    /\ UNCHANGED <<runtime_status, runtime, op, call, ctlGhosts>>

\* while self.theprocess.poll() is None
Poll(g) ==
    /\ proc[theprocess] = "gone"
    /\ PageMoves(g, "poll", IF op[g] = "compile" THEN "script" ELSE "idle")
    /\ UNCHANGED <<runtime_status, runtime, op, call, ctlGhosts>>

\* compile_program(): the script is started.
Compile(g) ==
    /\ PageMoves(g, "script", "idle")
    /\ end_of_stream' = FALSE
    /\ UNCHANGED <<runtime_status, theprocess, proc, processing_command, op, call,
                   ctlGhosts>>

PageRuns(g) ==
    \/ Connect(g) \/ CallAnswered(g) \/ CallRefused(g)
    \/ StatusKnown(g) \/ StatusCalled(g) \/ StartRuntime(g) \/ ConfigureRuntime(g)
    \/ Quit(g) \/ Poll(g) \/ Compile(g)

CtlNext ==
    \/ \E p \in Procs : OpenPort(p) \/ EndProcess(p)
    \/ ScriptEnds \/ CommandDone
    \/ \E g \in Pages : Request(g) \/ PageRuns(g)

\* Pages are served; a process opens its port, comes to the end of the commands
\* it executes, and ends when it was told to quit.
CtlFairness ==
    /\ \A g \in Pages : WF_ctlVars(PageRuns(g))
    /\ \A p \in Procs : WF_ctlVars(OpenPort(p))
                        /\ WF_ctlVars(proc[p] = "ending" /\ EndProcess(p))
    /\ WF_ctlVars(CommandDone)

CtlSpec == CtlInit /\ [][CtlNext]_ctlVars /\ CtlFairness
-----------------------------------------------------------------------------
\* Properties.  orderly: no page has called a process that was about to open
\* its port; no two pages, of those that start and stop the runtime or compile,
\* have been served at a time; and no process was started while the refusal of
\* another page's call had not been noted, by which that page then takes the new
\* process for stopped.

Alive == {p \in Procs : proc[p] # "gone"}

\* Starting twice does not make two processes, whatever has ended by itself in
\* between and whatever calls of pages that show the status are under way,
\* refused ones at a start excepted; and no process runs while the compile
\* script replaces the runtime's files.
CtlOneProcess ==
    orderly => Cardinality(Alive) =< (IF end_of_stream THEN 1 ELSE 0)

\* A process that runs can be reached: it is the one that is polled, and the
\* web server does not believe that it is stopped, except while a page that has
\* told it to quit, or tried to, waits for its end.
CtlReachable ==
    orderly => \A p \in Procs : proc[p] \in {"starting", "up"} =>
        /\ p = theprocess
        /\ runtime_status = "Running" \/ \E g \in Pages : where[g] = "poll"

\* A page that stops the runtime is answered, unless its quit() was dropped:
\* then it waits for a process that nobody has told to end.
CtlStopReturns ==
    []<>(orderly /\ ~dropped => \A g \in Pages : where[g] \notin {"quit", "poll"})
=============================================================================
