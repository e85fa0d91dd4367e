------------------------------ MODULE ScanCycle ------------------------------
(***************************************************************************)
(* The shared image table of the OpenPLC runtime and the threads that work *)
(* on it: the scan cycle of main() (webserver/core/main.cpp), the handler  *)
(* threads of the Modbus/TCP and EtherNet/IP (PCCC) servers, the DNP3      *)
(* command callbacks and updater, and the Modbus master's poller.          *)
(*                                                                         *)
(* The image table is bool_input, bool_output, int_input, int_output and   *)
(* the %M memories taken together.  bufferLock protects it; ioLock         *)
(* protects the buffers the scan shares with the poller.  Every loop over  *)
(* the table is taken one register at a time, so that whatever the locks   *)
(* do not exclude is interleaved.                                          *)
(*                                                                         *)
(* Registers are numbered in one address space.  A bit, a 16-bit register  *)
(* and one word of a 32- or 64-bit register are all "a register" here.     *)
(***************************************************************************)
EXTENDS Naturals

CONSTANTS
    LocalIn,    \* inputs fed by the hardware layer (updateBuffersIn)
    SlaveIn,    \* inputs fed by Modbus slaves (index 100 and up)
    LocalOut,   \* outputs driven by the hardware layer (updateBuffersOut)
    SlaveOut,   \* outputs sent to Modbus slaves (index 100 and up)
    Memory,     \* %M registers
    Values,     \* what a register can hold; 0 is its initial value
    Driven,     \* the registers the PLC program assigns
    Program,    \* the PLC program: from an image to values for Driven
    Modbus,     \* handler threads of the Modbus/TCP server
    Pccc,       \* handler threads of the EtherNet/IP server
    Dnp3,       \* the DNP3 stack's callback thread, if DNP3 is enabled
    Updater,    \* the DNP3 updater thread, if DNP3 is enabled
    Poller,     \* the Modbus master's thread, if slaves are configured (or {})
    Requests,   \* what a Modbus or PCCC client may ask
    Commands,   \* what a DNP3 master may command
    MayQuit,    \* whether the operator may issue quit()
    Main,       \* the scan thread
    Free        \* the owner of a lock that nobody holds

Inputs   == LocalIn \cup SlaveIn
Holding  == LocalOut \cup SlaveOut \cup Memory
Addr     == Inputs \cup Holding
Clients  == Modbus \cup Pccc \cup Dnp3 \cup Updater
Threads  == Clients \cup Poller \cup {Main}
Image    == [Addr -> Values]

\* A request names a run of registers, some of which may not exist, and the
\* value a write means for each of them.
NoRequest == [op |-> "read", regs |-> {}, data |-> [a \in Addr |-> 0]]

\* update_vals() reads the whole table.
ReadAll == [op |-> "read", regs |-> Addr, data |-> [a \in Addr |-> 0]]

\* The registers an operation accepts: any may be read, inputs are not written.
Valid(r) == IF r.op = "read" THEN Addr ELSE Holding

\* Loops over the table go up from the lowest index.
Least(S) == CHOOSE a \in S : \A b \in S : a <= b

ASSUME AddrAssumption ==
    /\ Addr \subseteq Nat
    /\ Driven \subseteq Holding
    /\ Inputs \cap Holding = {}
    /\ LocalIn \cap SlaveIn = {}
    /\ LocalOut \cap SlaveOut = {}
    /\ LocalOut \cap Memory = {}
    /\ SlaveOut \cap Memory = {}

ASSUME ValuesAssumption ==
    /\ 0 \in Values
    /\ Program \in [Image -> [Driven -> Values]]

ASSUME ThreadsAssumption ==
    /\ Main \notin Clients \cup Poller
    /\ Modbus \cap (Pccc \cup Dnp3 \cup Updater) = {}
    /\ Pccc \cap (Dnp3 \cup Updater) = {}
    /\ Dnp3 \cap Updater = {}
    /\ Poller \cap Clients = {}
    /\ Free \notin Threads
    /\ MayQuit \in BOOLEAN

ASSUME OnePoller == \A p, q \in Poller : p = q

ASSUME RequestsAssumption ==
    \A r \in Requests \cup Commands :
        /\ r.op \in {"read", "write"}
        /\ r.regs \subseteq Nat
        /\ \A a \in r.regs \cap Holding : r.data[a] \in Values

VARIABLES
    image,      \* the image table
    bufferLock, \* the thread holding bufferLock, or Free
    ioLock,     \* the thread holding ioLock, or Free
    pc,         \* where each thread is
    todo,       \* the registers left in the loop each thread is in
    seen,       \* what the PLC program has read in this scan
    hwOut,      \* what the output pins show
    inBuf,      \* bool_input_buf and int_input_buf of the Modbus master
    outBuf,     \* bool_output_buf and int_output_buf of the Modbus master
    resp,       \* the poller's tempBuff, as received from a slave
    frame,      \* the poller's tempBuff, as sent to a slave
    req,        \* the request each client thread is serving
    reply,      \* the registers each client thread has copied to its reply
    running,    \* run_modbus, run_dnp3 and run_enip
    runPlc      \* run_openplc

locks   == <<bufferLock, ioLock>>
mbVars  == <<inBuf, outBuf, resp, frame>>
cliVars == <<req, reply>>
flags   == <<running, runPlc>>
vars    == <<image, locks, pc, todo, seen, hwOut, mbVars, cliVars, flags>>

Blank == [a \in Addr |-> 0]

Init ==
    /\ image = Blank
    /\ bufferLock = Free
    /\ ioLock = Free
    /\ pc = [t \in Threads |-> IF t = Main THEN "top"
                               ELSE IF t \in Poller THEN "poll"
                               ELSE IF t \in Dnp3 THEN "reading" ELSE "check"]
    /\ todo = [t \in Threads |-> {}]
    /\ seen = Blank
    /\ hwOut = [a \in LocalOut |-> 0]
    /\ inBuf = [a \in SlaveIn |-> 0]
    /\ outBuf = [a \in SlaveOut |-> 0]
    /\ resp = [a \in SlaveIn |-> 0]
    /\ frame = [a \in SlaveOut |-> 0]
    /\ req = [c \in Clients |-> NoRequest]
    /\ reply = [c \in Clients |-> Blank]
    /\ running = TRUE
    /\ runPlc = TRUE

-----------------------------------------------------------------------------
\* Steps shared by the threads' loops.

Goto(t, from, to) == pc[t] = from /\ pc' = [pc EXCEPT ![t] = to]

Begin(t, S) == todo' = [todo EXCEPT ![t] = S]

\* Faulty: the lock is entered without waiting for its owner.
LockBufferNoWait(t, from, to, S) ==
    Goto(t, from, to) /\ bufferLock' = t /\ Begin(t, S) /\ UNCHANGED ioLock

\* pthread_mutex_lock(&bufferLock), then the loop over S.
LockBuffer(t, from, to, S) ==
    /\ Goto(t, from, to)
    /\ bufferLock = Free
    /\ bufferLock' = t
    /\ Begin(t, S)
    /\ UNCHANGED ioLock

\* pthread_mutex_unlock(&bufferLock).  The mutex is a default one: it does
\* not check that the caller is the thread that locked it.
UnlockBuffer == bufferLock' = Free /\ UNCHANGED ioLock

LockIo(t, from, to, S) ==
    /\ Goto(t, from, to)
    /\ ioLock = Free
    /\ ioLock' = t
    /\ Begin(t, S)
    /\ UNCHANGED bufferLock

UnlockIo == ioLock' = Free /\ UNCHANGED bufferLock

\* Faulty: the loop's index is not advanced.
IterateForEver(t, l, a) ==
    pc[t] = l /\ todo[t] # {} /\ a = Least(todo[t]) /\ UNCHANGED <<pc, todo>>

\* One pass of the loop that thread t runs at label l, on register a.
Iterate(t, l, a) ==
    /\ pc[t] = l
    /\ todo[t] # {}
    /\ a = Least(todo[t])
    /\ todo' = [todo EXCEPT ![t] = @ \ {a}]
    /\ UNCHANGED pc

\* The loop that thread t runs at label l is over.
LoopEnds(t, l, to) == todo[t] = {} /\ Goto(t, l, to) /\ UNCHANGED todo

-----------------------------------------------------------------------------
\* The scan cycle: main()'s loop.

\* sleep_until() has returned and while(run_openplc) is tested.
StartScan ==
    /\ runPlc
    /\ Goto(Main, "top", "inlock")
    /\ UNCHANGED <<image, locks, todo, seen, hwOut, mbVars, cliVars, flags>>

LeaveLoop ==
    /\ ~runPlc
    /\ Goto(Main, "top", "join")
    /\ UNCHANGED <<image, locks, todo, seen, hwOut, mbVars, cliVars, flags>>

\* updateBuffersIn(): read the pins under bufferLock.
LockForInput ==
    /\ LockBuffer(Main, "inlock", "in", LocalIn)
    /\ UNCHANGED <<image, seen, hwOut, mbVars, cliVars, flags>>

\* Faulty: the raw level of the pin is stored.
ReadPinRaw ==
    \E a \in LocalIn, v \in Values :
        /\ Iterate(Main, "in", a)
        /\ image' = [image EXCEPT ![a] = v + 1]
        /\ UNCHANGED <<locks, seen, hwOut, mbVars, cliVars, flags>>

ReadPin ==
    \E a \in LocalIn, v \in Values :
        /\ Iterate(Main, "in", a)
        /\ image' = [image EXCEPT ![a] = v]
        /\ UNCHANGED <<locks, seen, hwOut, mbVars, cliVars, flags>>

UnlockAfterInput ==
    /\ LoopEnds(Main, "in", "lock")
    /\ UnlockBuffer
    /\ UNCHANGED <<image, seen, hwOut, mbVars, cliVars, flags>>

\* Faulty: the scan does not take bufferLock.
RunUnlocked ==
    /\ Goto(Main, "lock", "mbinlock")
    /\ Begin(Main, {})
    /\ UNCHANGED <<image, locks, seen, hwOut, mbVars, cliVars, flags>>

\* pthread_mutex_lock(&bufferLock) of the main loop.
LockForProgram ==
    /\ LockBuffer(Main, "lock", "mbinlock", {})
    /\ UNCHANGED <<image, seen, hwOut, mbVars, cliVars, flags>>

\* updateBuffersIn_MB(): copy what the slaves answered, under ioLock.
LockForSlaveInput ==
    /\ LockIo(Main, "mbinlock", "mbin", SlaveIn)
    /\ UNCHANGED <<image, seen, hwOut, mbVars, cliVars, flags>>

CopySlaveInput ==
    \E a \in SlaveIn :
        /\ Iterate(Main, "mbin", a)
        /\ image' = [image EXCEPT ![a] = inBuf[a]]
        /\ UNCHANGED <<locks, seen, hwOut, mbVars, cliVars, flags>>

UnlockAfterSlaveInput ==
    /\ todo[Main] = {}
    /\ Goto(Main, "mbin", "run")
    /\ Begin(Main, Addr)
    /\ UnlockIo
    /\ UNCHANGED <<image, seen, hwOut, mbVars, cliVars, flags>>

\* config_run__(): the program reads its located variables ...
ProgramReads ==
    \E a \in Addr :
        /\ Iterate(Main, "run", a)
        /\ seen' = [seen EXCEPT ![a] = image[a]]
        /\ UNCHANGED <<image, locks, hwOut, mbVars, cliVars, flags>>

ProgramComputes ==
    /\ todo[Main] = {}
    /\ Goto(Main, "run", "drive")
    /\ Begin(Main, Driven)
    /\ UNCHANGED <<image, locks, seen, hwOut, mbVars, cliVars, flags>>

\* ... and assigns the ones it drives.
ProgramWrites ==
    \E a \in Driven :
        /\ Iterate(Main, "drive", a)
        /\ image' = [image EXCEPT ![a] = Program[seen][a]]
        /\ UNCHANGED <<locks, seen, hwOut, mbVars, cliVars, flags>>

ProgramEnds ==
    /\ LoopEnds(Main, "drive", "mboutlock")
    /\ UNCHANGED <<image, locks, seen, hwOut, mbVars, cliVars, flags>>

\* Faulty: the outputs are published without ioLock.
PublishUnlocked ==
    /\ Goto(Main, "mboutlock", "mbout")
    /\ Begin(Main, SlaveOut)
    /\ UNCHANGED <<image, locks, seen, hwOut, mbVars, cliVars, flags>>

\* updateBuffersOut_MB(): publish the outputs of this scan to the poller.
LockForSlaveOutput ==
    /\ LockIo(Main, "mboutlock", "mbout", SlaveOut)
    /\ UNCHANGED <<image, seen, hwOut, mbVars, cliVars, flags>>

CopySlaveOutput ==
    \E a \in SlaveOut :
        /\ Iterate(Main, "mbout", a)
        /\ outBuf' = [outBuf EXCEPT ![a] = image[a]]
        /\ UNCHANGED <<image, locks, seen, hwOut, inBuf, resp, frame, cliVars, flags>>

UnlockAfterSlaveOutput ==
    /\ LoopEnds(Main, "mbout", "unlock")
    /\ UnlockIo
    /\ UNCHANGED <<image, seen, hwOut, mbVars, cliVars, flags>>

\* pthread_mutex_unlock(&bufferLock) of the main loop; the program's own
\* copies of its inputs are dead from here on.
UnlockAfterProgram ==
    /\ Goto(Main, "unlock", "outlock")
    /\ UnlockBuffer
    /\ seen' = Blank
    /\ UNCHANGED <<image, todo, hwOut, mbVars, cliVars, flags>>

\* updateBuffersOut(): write the pins under bufferLock, in the loop ("out")
\* and once more during shutdown ("lastout").
LockForOutput ==
    /\ \/ LockBuffer(Main, "outlock", "out", LocalOut)
       \/ LockBuffer(Main, "lastoutlock", "lastout", LocalOut)
    /\ UNCHANGED <<image, seen, hwOut, mbVars, cliVars, flags>>

WritePin ==
    \E a \in LocalOut :
        /\ Iterate(Main, "out", a) \/ Iterate(Main, "lastout", a)
        /\ hwOut' = [hwOut EXCEPT ![a] = image[a]]
        /\ UNCHANGED <<image, locks, seen, mbVars, cliVars, flags>>

UnlockAfterOutput ==
    /\ LoopEnds(Main, "out", "top") \/ LoopEnds(Main, "lastout", "exit")
    /\ UnlockBuffer
    /\ UNCHANGED <<image, seen, hwOut, mbVars, cliVars, flags>>

\* Faulty: the pins are written before the outputs are disabled.
JoinAndWritePins ==
    /\ Goto(Main, "join", "lastoutlock")
    /\ UNCHANGED <<image, locks, todo, seen, hwOut, mbVars, cliVars, flags>>

\* pthread_join(interactive_thread): it ends once run_openplc is 0 and the
\* servers' own threads have been joined.  All three servers count as started
\* and joined once here; InteractiveServer has the joins that are undefined.
JoinInteractive ==
    /\ Goto(Main, "join", "disable")
    /\ Begin(Main, LocalOut \cup SlaveOut)
    /\ UNCHANGED <<image, locks, seen, hwOut, mbVars, cliVars, flags>>

\* disableOutputs() clears every output and takes no lock.
DisableOutput ==
    \E a \in LocalOut \cup SlaveOut :
        /\ Iterate(Main, "disable", a)
        /\ image' = [image EXCEPT ![a] = 0]
        /\ UNCHANGED <<locks, seen, hwOut, mbVars, cliVars, flags>>

OutputsDisabled ==
    /\ LoopEnds(Main, "disable", "lastoutlock")
    /\ UNCHANGED <<image, locks, seen, hwOut, mbVars, cliVars, flags>>

-----------------------------------------------------------------------------
\* Client threads: handleConnections() of the Modbus and EtherNet/IP servers,
\* the DNP3 callbacks, and the loop of dnp3StartServer().

\* Faulty: the run flag is not looked at.
NeverStop(c) ==
    /\ c \in Modbus \cup Pccc \cup Updater
    /\ Goto(c, "check", "reading")
    /\ UNCHANGED <<image, locks, todo, seen, hwOut, mbVars, cliVars, flags>>

\* while (*run_server), while (run_dnp3).
CheckRunning(c) ==
    /\ c \in Modbus \cup Pccc \cup Updater
    /\ Goto(c, "check", IF running THEN "reading" ELSE "closed")
    /\ UNCHANGED <<image, locks, todo, seen, hwOut, mbVars, cliVars, flags>>

Accepts(c) ==
    IF c \in Updater THEN {ReadAll} ELSE IF c \in Dnp3 THEN Commands ELSE Requests

\* read() returns a request.  A handler blocked in read() when its server is
\* told to stop still serves the request that wakes it.
Receive(c) ==
    \E r \in Accepts(c) :
        /\ Goto(c, "reading", "waiting")
        /\ req' = [req EXCEPT ![c] = r]
        /\ reply' = [reply EXCEPT ![c] = Blank]
        /\ UNCHANGED <<image, locks, todo, seen, hwOut, mbVars, flags>>

\* A request that is too short, or whose address is refused before the lock
\* is taken, is answered with an error at once; so is one that is about no
\* register, such as the session commands of EtherNet/IP.
Refuse(c) ==
    /\ c \in Modbus \cup Pccc
    /\ Goto(c, "reading", "check")
    /\ UNCHANGED <<image, locks, todo, seen, hwOut, mbVars, cliVars, flags>>

\* read() returns 0 or an error: the handler closes the connection.
Disconnect(c) ==
    /\ c \in Modbus \cup Pccc
    /\ Goto(c, "reading", "closed")
    /\ UNCHANGED <<image, locks, todo, seen, hwOut, mbVars, cliVars, flags>>

\* channel->Shutdown() ends the DNP3 stack once the updater has left its loop.
Dnp3Shutdown(c) ==
    /\ c \in Dnp3
    /\ \A u \in Updater : pc[u] = "closed"
    /\ Goto(c, "reading", "closed")
    /\ UNCHANGED <<image, locks, todo, seen, hwOut, mbVars, cliVars, flags>>

\* Faulty: the request is served without bufferLock.
ServeUnlocked(c) ==
    /\ Goto(c, "waiting", "serving")
    /\ Begin(c, req[c].regs)
    /\ UNCHANGED <<image, locks, seen, hwOut, mbVars, cliVars, flags>>

LockForRequest(c) ==
    /\ LockBuffer(c, "waiting", "serving", req[c].regs)
    /\ UNCHANGED <<image, seen, hwOut, mbVars, cliVars, flags>>

\* Read one register into the reply; a register that does not exist makes
\* the reply an error and does not stop the loop.
ReadWord(c) ==
    \E a \in req[c].regs :
        /\ req[c].op = "read"
        /\ Iterate(c, "serving", a)
        /\ reply' = IF a \in Valid(req[c]) THEN [reply EXCEPT ![c][a] = image[a]]
                    ELSE reply
        /\ UNCHANGED <<image, locks, seen, hwOut, mbVars, req, flags>>

\* Store one register, likewise.
StoreWord(c) ==
    \E a \in req[c].regs :
        /\ req[c].op = "write"
        /\ Iterate(c, "serving", a)
        /\ image' = IF a \in Valid(req[c]) THEN [image EXCEPT ![a] = req[c].data[a]]
                    ELSE image
        /\ UNCHANGED <<seen, hwOut, mbVars, cliVars, flags>>

\* Faulty: bufferLock is released after each register.
UnlockEachWord(c) == c \notin Pccc /\ StoreWord(c) /\ UnlockBuffer

WriteWord(c) == c \notin Pccc /\ StoreWord(c) /\ UNCHANGED locks

\* Pccc_WriteRegister() unlocks bufferLock inside its loop.
PcccWriteWord(c) == c \in Pccc /\ StoreWord(c) /\ UnlockBuffer

\* Faulty: a request that meets a register which does not exist is retried.
ReplyOrRetry(c) ==
    /\ ~ (c \in Pccc /\ req[c].op = "write")
    /\ ~ (c \in Dnp3 /\ ~ req[c].regs \subseteq Holding)
    /\ LoopEnds(c, "serving", IF ~ req[c].regs \subseteq Valid(req[c]) THEN "waiting"
                             ELSE IF c \in Dnp3 THEN "reading" ELSE "check")
    /\ UnlockBuffer
    /\ UNCHANGED <<image, seen, hwOut, mbVars, cliVars, flags>>

\* The request is served: unlock, answer, and go back to the loop's head.
Reply(c) ==
    /\ ~ (c \in Pccc /\ req[c].op = "write")
    /\ ~ (c \in Dnp3 /\ ~ req[c].regs \subseteq Holding)
    /\ LoopEnds(c, "serving", IF c \in Dnp3 THEN "reading" ELSE "check")
    /\ UnlockBuffer
    /\ UNCHANGED <<image, seen, hwOut, mbVars, cliVars, flags>>

\* The end of Pccc_WriteRegister() does not unlock.
PcccWriteReply(c) ==
    /\ c \in Pccc /\ req[c].op = "write"
    /\ LoopEnds(c, "serving", "check")
    /\ UNCHANGED <<image, locks, seen, hwOut, mbVars, cliVars, flags>>

\* Operate(AnalogOutputInt16) returns OUT_OF_RANGE with bufferLock held.
OperateOutOfRange(c) ==
    /\ c \in Dnp3 /\ ~ req[c].regs \subseteq Holding
    /\ LoopEnds(c, "serving", "reading")
    /\ UNCHANGED <<image, locks, seen, hwOut, mbVars, cliVars, flags>>

-----------------------------------------------------------------------------
\* The Modbus master's thread, querySlaveDevices(), with one block of inputs
\* and one block of outputs; ModbusMaster has the devices and their blocks.

\* modbus_read_*() succeeds, with any response, or fails and the block is
\* skipped; the thread ends with run_openplc.
PollRead(p) ==
    /\ \/ runPlc /\ Goto(p, "poll", "storelock") /\ resp' \in [SlaveIn -> Values]
       \/ runPlc /\ Goto(p, "poll", "fetchlock") /\ UNCHANGED resp
       \/ ~runPlc /\ Goto(p, "poll", "closed") /\ UNCHANGED resp
    /\ UNCHANGED <<image, locks, todo, seen, hwOut, inBuf, outBuf, frame, cliVars, flags>>

LockForStore(p) ==
    /\ LockIo(p, "storelock", "store", SlaveIn)
    /\ UNCHANGED <<image, seen, hwOut, mbVars, cliVars, flags>>

StoreResponse(p) ==
    \E a \in SlaveIn :
        /\ Iterate(p, "store", a)
        /\ inBuf' = [inBuf EXCEPT ![a] = resp[a]]
        /\ UNCHANGED <<image, locks, seen, hwOut, outBuf, resp, frame, cliVars, flags>>

UnlockAfterStore(p) ==
    /\ LoopEnds(p, "store", "fetchlock")
    /\ UnlockIo
    /\ resp' = [a \in SlaveIn |-> 0]
    /\ UNCHANGED <<image, seen, hwOut, inBuf, outBuf, frame, cliVars, flags>>

\* Faulty: the outputs are fetched without ioLock.
FetchUnlocked(p) ==
    /\ Goto(p, "fetchlock", "fetch")
    /\ Begin(p, SlaveOut)
    /\ UNCHANGED <<image, locks, seen, hwOut, mbVars, cliVars, flags>>

LockForFetch(p) ==
    /\ LockIo(p, "fetchlock", "fetch", SlaveOut)
    /\ UNCHANGED <<image, seen, hwOut, mbVars, cliVars, flags>>

FetchOutput(p) ==
    \E a \in SlaveOut :
        /\ Iterate(p, "fetch", a)
        /\ frame' = [frame EXCEPT ![a] = outBuf[a]]
        /\ UNCHANGED <<image, locks, seen, hwOut, inBuf, outBuf, resp, cliVars, flags>>

\* The frame is complete and modbus_write_*() sends it (or fails to).
UnlockAfterFetch(p) ==
    /\ LoopEnds(p, "fetch", "poll")
    /\ UnlockIo
    /\ UNCHANGED <<image, seen, hwOut, mbVars, cliVars, flags>>

-----------------------------------------------------------------------------
\* quit(): processCommand() clears the servers' run flags and joins the
\* threads it can join, then clears run_openplc.  Handler threads are
\* detached: nobody waits for them.
StopServers ==
    /\ MayQuit /\ running
    /\ running' = FALSE
    /\ UNCHANGED <<image, locks, pc, todo, seen, hwOut, mbVars, cliVars, runPlc>>

StopPlc ==
    /\ ~running /\ runPlc
    /\ \A t \in Dnp3 \cup Updater : pc[t] = "closed"
    /\ runPlc' = FALSE
    /\ UNCHANGED <<image, locks, pc, todo, seen, hwOut, mbVars, cliVars, running>>

-----------------------------------------------------------------------------
MainStep ==
    \/ StartScan \/ LeaveLoop
    \/ LockForInput \/ ReadPin \/ UnlockAfterInput
    \/ LockForProgram
    \/ LockForSlaveInput \/ CopySlaveInput \/ UnlockAfterSlaveInput
    \/ ProgramReads \/ ProgramComputes \/ ProgramWrites \/ ProgramEnds
    \/ LockForSlaveOutput \/ CopySlaveOutput \/ UnlockAfterSlaveOutput
    \/ UnlockAfterProgram
    \/ LockForOutput \/ WritePin \/ UnlockAfterOutput
    \/ JoinInteractive \/ DisableOutput \/ OutputsDisabled

Serve(c) ==
    \/ LockForRequest(c)
    \/ ReadWord(c) \/ WriteWord(c) \/ PcccWriteWord(c)
    \/ Reply(c) \/ PcccWriteReply(c) \/ OperateOutOfRange(c)

ClientStep(c) ==
    \/ CheckRunning(c) \/ Receive(c) \/ Refuse(c) \/ Disconnect(c) \/ Dnp3Shutdown(c)
    \/ Serve(c)

PollerStep(p) ==
    \/ PollRead(p)
    \/ LockForStore(p) \/ StoreResponse(p) \/ UnlockAfterStore(p)
    \/ LockForFetch(p) \/ FetchOutput(p) \/ UnlockAfterFetch(p)

\* exit(0) ends every thread.
Exited == pc[Main] = "exit"

Running ==
    /\ ~Exited
    /\ \/ MainStep
       \/ \E c \in Clients : ClientStep(c)
       \/ \E p \in Poller : PollerStep(p)
       \/ StopServers
       \/ StopPlc

Terminated == Exited /\ UNCHANGED vars

Next == Running \/ Terminated

Spec == Init /\ [][Next]_vars

(***************************************************************************)
(* Fairness.  A thread that can run does run, and one that waits for a     *)
(* mutex gets it if the mutex keeps coming free: holders never block while *)
(* they hold it, every thread sleeps or waits for its peer between two     *)
(* uses of it (sleep_until, read, sleepms), and unlock wakes a waiter.     *)
(* channel->Shutdown() is queued behind the callbacks that are under way,  *)
(* so that a master which keeps sending commands cannot put it off.        *)
(* Nothing is assumed of peers and operators: a client may never ask       *)
(* anything (Receive, Disconnect), nobody need ever type quit().           *)
(***************************************************************************)
Fairness ==
    /\ SF_vars(~Exited /\ MainStep)
    /\ \A c \in Clients :
          /\ WF_vars(~Exited /\ CheckRunning(c))
          /\ SF_vars(~Exited /\ Dnp3Shutdown(c))
          /\ SF_vars(~Exited /\ Serve(c))
          /\ c \in Updater => WF_vars(~Exited /\ Receive(c))
    /\ \A p \in Poller : SF_vars(~Exited /\ PollerStep(p))
    /\ WF_vars(~Exited /\ StopPlc)

FairSpec == Spec /\ Fairness

-----------------------------------------------------------------------------
\* Properties.

MainLabels ==
    {"top", "inlock", "in", "lock", "mbinlock", "mbin", "run", "drive", "mboutlock",
     "mbout", "unlock", "outlock", "out", "join", "disable", "lastoutlock", "lastout", "exit"}
ClientLabels == {"check", "reading", "waiting", "serving", "closed"}
PollerLabels == {"poll", "storelock", "store", "fetchlock", "fetch", "closed"}

\* Type invariant: every variable holds what its declaration says.
TypeOK ==
    /\ image \in Image
    /\ bufferLock \in Threads \cup {Free}
    /\ ioLock \in Threads \cup {Free}
    /\ pc \in [Threads -> MainLabels \cup ClientLabels \cup PollerLabels]
    /\ pc[Main] \in MainLabels
    /\ \A c \in Clients : pc[c] \in ClientLabels
    /\ \A p \in Poller : pc[p] \in PollerLabels
    /\ todo \in [Threads -> SUBSET Nat]
    /\ seen \in Image
    /\ hwOut \in [LocalOut -> Values]
    /\ inBuf \in [SlaveIn -> Values]
    /\ outBuf \in [SlaveOut -> Values]
    /\ resp \in [SlaveIn -> Values]
    /\ frame \in [SlaveOut -> Values]
    /\ req \in [Clients -> Requests \cup Commands \cup {ReadAll, NoRequest}]
    /\ reply \in [Clients -> Image]
    /\ running \in BOOLEAN
    /\ runPlc \in BOOLEAN

\* The labels between a lock and its unlock.  A PCCC write is past its unlock
\* when its loop is over.
InBufferSection(t) ==
    \/ t = Main /\ pc[t] \in {"in", "mbinlock", "mbin", "run", "drive", "mboutlock",
                              "mbout", "unlock", "out", "lastout"}
    \/ /\ t \in Clients /\ pc[t] = "serving"
       /\ ~ (t \in Pccc /\ req[t].op = "write" /\ todo[t] = {})

InIoSection(t) ==
    \/ t = Main /\ pc[t] \in {"mbin", "mbout"}
    \/ t \in Poller /\ pc[t] \in {"store", "fetch"}

\* Whoever is between the lock and the unlock of a mutex owns that mutex, so
\* that two threads are never both there.
LockOwnership ==
    \A t \in Threads :
        /\ InBufferSection(t) => bufferLock = t
        /\ InIoSection(t) => ioLock = t

\* The program computes from one state of the image table: whatever it has
\* read in this scan is still there until it starts to write.
ScanSnapshot ==
    pc[Main] = "run" => \A a \in Addr \ todo[Main] : seen[a] = image[a]

\* A request is served at one instant.  The registers a reply has collected
\* are all in the table together, and so are the registers a multiple write
\* has stored.
RequestAtomic ==
    \A c \in Clients :
        InBufferSection(c) =>
            \A a \in (req[c].regs \cap Valid(req[c])) \ todo[c] :
                image[a] = IF req[c].op = "read" THEN reply[c][a] ELSE req[c].data[a]

\* The blocks exchanged with a slave are whole: inputs come from one response
\* and an output frame is made from one scan's outputs.
SlaveBlockAtomic ==
    /\ pc[Main] = "mbin" => \A a \in SlaveIn \ todo[Main] : image[a] = inBuf[a]
    /\ pc[Main] = "mbout" => \A a \in SlaveOut \ todo[Main] : outBuf[a] = image[a]
    /\ \A p \in Poller :
          /\ pc[p] = "store" => \A a \in SlaveIn \ todo[p] : inBuf[a] = resp[a]
          /\ pc[p] = "fetch" => \A a \in SlaveOut \ todo[p] : frame[a] = outBuf[a]

\* When the runtime exits, every output pin has been switched off: "Disables
\* all outputs ... effectively disabling them" (utils.cpp).
OutputsOffAtExit == Exited => \A a \in LocalOut : hwOut[a] = 0

\* updateBuffersIn() "is called by the OpenPLC in a loop" (raspberrypi.cpp):
\* the scan comes round again for ever, until the runtime exits.
ScanProgress == []<>(pc[Main] = "top" \/ Exited)

\* A request that has been received is answered, unless the runtime exits.
RequestServed ==
    \A c \in Clients : pc[c] = "waiting" ~> (pc[c] \in {"check", "reading"} \/ Exited)

\* quit() ends in the runtime's exit, whatever the clients do.
QuitCompletes == ~running ~> Exited
=============================================================================
