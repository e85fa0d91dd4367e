---------------------------- MODULE WebServer_proof ----------------------------
(***************************************************************************)
(* The web server's components, for any number of pages, threads, workers, *)
(* processes and interfaces.                                               *)
(*                                                                         *)
(* The monitor: only a step of a thread that reads can leave a monitor     *)
(* without a reader, and only one of a worker a capture without a worker;  *)
(* these steps hand on, fail or find the flag clear.                       *)
(*                                                                         *)
(* The runtime: what runtime_status and the calls under way say of the     *)
(* process is true (Believed, Answers), only the page that stops it sees   *)
(* it ending (Ending), and what a page has found out before it starts a    *)
(* process or a script still holds when it does (Ready).                   *)
(*                                                                         *)
(* Packet captures: at each step of a page, what it has read covers all    *)
(* that are captured (Known), and what it will start is not (Fresh).       *)
(***************************************************************************)
EXTENDS Monitoring, RuntimeController, PacketCapture, FiniteSetTheorems, TLAPS

\* A set in which any two members are the same has at most one.
LEMMA AtMostOne ==
    ASSUME NEW S, \A x, y \in S : x = y
    PROVE  Cardinality(S) \in Nat /\ Cardinality(S) =< 1 /\ (S = {} => Cardinality(S) = 0)
<1>1. CASE S = {}
  <2>1. Cardinality({}) = 0
    BY FS_EmptySet
  <2> QED
    BY <1>1, <2>1
<1>2. CASE S # {}
  <2>1. PICK x \in S : TRUE
    BY <1>2
  <2>2. S = {x}
    BY <2>1
  <2>3. Cardinality({x}) = 1
    BY FS_Singleton
  <2> QED
    BY <1>2, <2>2, <2>3
<1> QED
  BY <1>1, <1>2

-----------------------------------------------------------------------------
\* The monitor and the capture of variables.

MonTyped ==
    /\ DOMAIN at = MonThreads
    /\ DOMAIN worker = Workers

MonInv == MonTyped /\ MonAlive

LEMMA MonInitially == MonInit => MonInv
BY DEF MonInit, MonInv, MonTyped, MonAlive

\* A step of a thread that is not reading keeps the readers, and one that
\* keeps the workers keeps the captures.
LEMMA MonSame ==
    ASSUME MonInv, NEW x \in MonThreads, NEW to, at[x] # "read",
           at' = [at EXCEPT ![x] = to],
           monitor_active' => monitor_active, failed' = failed,
           active_capture' => active_capture,
           DOMAIN worker' = Workers, Capturing' = Capturing
    PROVE  MonInv'
<1>1. DOMAIN at' = MonThreads /\ \A y \in MonThreads \ {x} : at'[y] = at[y]
  BY DEF MonInv, MonTyped
<1>2. (\E y \in MonThreads : at[y] = "read") => (\E y \in MonThreads : at'[y] = "read")
  BY <1>1
<1> QED
  BY <1>1, <1>2 DEF MonInv, MonTyped, MonAlive

\* start_monitor(), from a page of a browser or of a worker; stop_monitor().
LEMMA StartStopKeeps ==
    ASSUME MonInv, NEW x \in MonThreads, NEW from \in {"idle", "update", "dashboard"},
           CallsStart(x, from) \/ CallsStop(x, from) \/ ClearActive(x)
    PROVE  MonInv'
<1>1. /\ at[x] # "read"
      /\ \E to : at' = [at EXCEPT ![x] = to]
      /\ monitor_active' => monitor_active
      /\ UNCHANGED <<failed, active_capture, worker>>
  BY DEF CallsStart, CallsStop, ClearActive, MonStep, captureVars, monitor
<1>2. Capturing' = Capturing /\ DOMAIN worker' = Workers
  BY <1>1 DEF Capturing, MonInv, MonTyped
<1> QED
  BY <1>1, <1>2, MonSame

\* A round of modbus_monitor(): the page that begins it, and each timer.
LEMMA ReaderKeeps ==
    ASSUME MonInv, NEW x \in MonThreads, SetActive(x) \/ NextRound(x) \/ ReadFails(x)
    PROVE  MonInv'
<1>0. MonTyped /\ MonAlive
  BY DEF MonInv
<1>1. UNCHANGED <<active_capture, worker>>
  BY DEF SetActive, NextRound, ReadFails, captureVars, monitor
<1>2. (active_capture' => Capturing' # {}) /\ DOMAIN worker' = Workers
  BY <1>0, <1>1 DEF Capturing, MonTyped, MonAlive
<1>3. ASSUME DOMAIN at' = MonThreads,
             monitor_active' /\ ~failed' => \E y \in MonThreads : at'[y] = "read"
      PROVE  MonInv'
  BY <1>2, <1>3 DEF MonInv, MonTyped, MonAlive
<1>4. CASE SetActive(x)
  <2>1. at[x] = "found" /\ at' = [at EXCEPT ![x] = "read"]
    BY <1>4 DEF SetActive, MonStep
  <2>2. at'[x] = "read" /\ DOMAIN at' = MonThreads
    BY <1>0, <2>1 DEF MonTyped
  <2> QED
    BY <1>3, <2>2
<1>5. CASE ReadFails(x)
  <2>1. at' = [at EXCEPT ![x] = "idle"] /\ failed'
    BY <1>5 DEF ReadFails, MonStep
  <2>2. DOMAIN at' = MonThreads
    BY <1>0, <2>1 DEF MonTyped
  <2> QED
    BY <1>3, <2>1, <2>2
<1>6. CASE NextRound(x) /\ ~monitor_active
  <2>1. at' = [at EXCEPT ![x] = "idle"] /\ ~monitor_active'
    BY <1>6 DEF NextRound, monitor
  <2>2. DOMAIN at' = MonThreads
    BY <1>0, <2>1 DEF MonTyped
  <2> QED
    BY <1>3, <2>1, <2>2
<1>7. CASE NextRound(x) /\ monitor_active
  <2>1. PICK t \in Timers : at' = [at EXCEPT ![x] = "idle", ![t] = "read"]
    BY <1>7 DEF NextRound
  <2>2. t \in MonThreads /\ DOMAIN at' = MonThreads /\ at'[t] = "read"
    BY <1>0, <2>1 DEF MonTyped, MonThreads
  <2> QED
    BY <1>3, <2>2
<1> QED
  BY <1>4, <1>5, <1>6, <1>7

\* start_capture() and stop_capture().
LEMMA CaptureKeeps ==
    ASSUME MonInv, NEW b \in Browsers,
           \/ CallsStartCapture(b) \/ LaunchWorker(b)
           \/ CallsStopCapture(b) \/ EndCapture(b)
    PROVE  MonInv'
<1>0. MonTyped /\ MonAlive /\ b \in MonThreads
  BY DEF MonInv, MonThreads
<1>1. /\ UNCHANGED <<monitor_active, failed>>
      /\ at[b] # "read" /\ \E to : at' = [at EXCEPT ![b] = to]
  BY DEF CallsStartCapture, LaunchWorker, CallsStopCapture, EndCapture, monitor,
         captureVars, MonStep
<1>2. CASE CallsStartCapture(b) \/ CallsStopCapture(b) \/ EndCapture(b)
  <2>1. (active_capture' => active_capture) /\ UNCHANGED worker
    BY <1>2 DEF CallsStartCapture, CallsStopCapture, EndCapture, captureVars
  <2>2. Capturing' = Capturing /\ DOMAIN worker' = Workers
    BY <1>0, <2>1 DEF Capturing, MonTyped
  <2> QED
    BY <1>0, <1>1, <2>1, <2>2, MonSame
<1>3. CASE LaunchWorker(b)
  <2>1. PICK w \in Workers : worker' = [worker EXCEPT ![w] = "login"]
    BY <1>3 DEF LaunchWorker
  <2>2. w \in Capturing' /\ DOMAIN worker' = Workers
    BY <1>0, <2>1 DEF Capturing, MonTyped
  <2>3. DOMAIN at' = MonThreads /\ \A y \in MonThreads \ {b} : at'[y] = at[y]
    BY <1>0, <1>1 DEF MonTyped
  <2>4. (\E y \in MonThreads : at[y] = "read") => (\E y \in MonThreads : at'[y] = "read")
    BY <1>1, <2>3
  <2> QED
    BY <1>0, <1>1, <2>2, <2>3, <2>4 DEF MonInv, MonTyped, MonAlive
<1> QED
  BY <1>2, <1>3

\* A worker moves between two places of capture_process_variables().
LEMMA WorkerKeeps ==
    ASSUME MonInv, NEW w \in Workers, WorkerRuns(w) \/ LoginFails(w)
    PROVE  MonInv'
<1>0. MonTyped /\ MonAlive /\ w \in MonThreads
  BY DEF MonInv, MonThreads
<1>1. UNCHANGED <<monitor_active, failed>>
  BY DEF WorkerRuns, LogsIn, WrongPassword, TestCapture, Answered, Finally, LoginFails, TimesOut,
         monitor
<1>2. ASSUME NEW to, to # "none", worker[w] # "none", worker' = [worker EXCEPT ![w] = to]
      PROVE  Capturing' = Capturing /\ DOMAIN worker' = Workers
  BY <1>0, <1>2 DEF Capturing, MonTyped
<1>3. ASSUME UNCHANGED <<at, active_capture>>, Capturing' = Capturing, DOMAIN worker' = Workers
      PROVE  MonInv'
  BY <1>0, <1>1, <1>3 DEF MonInv, MonTyped, MonAlive
<1>4. CASE LogsIn(w)
  <2>1. /\ at[w] = "idle" /\ at' = [at EXCEPT ![w] = "dashboard"] /\ UNCHANGED active_capture
        /\ worker[w] = "login" /\ worker' = [worker EXCEPT ![w] = "wait"]
    BY <1>4 DEF LogsIn, Work
  <2>2. Capturing' = Capturing /\ DOMAIN worker' = Workers
    BY <1>2, <2>1
  <2> QED
    BY <1>0, <1>1, <2>1, <2>2, MonSame
<1>5. CASE WrongPassword(w) \/ Answered(w) \/ TimesOut(w) \/ LoginFails(w)
  <2>1. /\ worker[w] # "none" /\ UNCHANGED <<at, active_capture>>
        /\ worker' = [worker EXCEPT ![w] = "loop"] \/ worker' = [worker EXCEPT ![w] = "finally"]
    BY <1>5 DEF WrongPassword, Answered, TimesOut, LoginFails, Work
  <2> QED
    BY <1>2, <1>3, <2>1
<1>6. CASE TestCapture(w)
  <2>1. worker[w] = "loop" /\ UNCHANGED active_capture
    BY <1>6 DEF TestCapture
  <2>2. CASE worker' = [worker EXCEPT ![w] = "finally"] /\ UNCHANGED at
    BY <1>2, <1>3, <2>1, <2>2
  <2>3. CASE UNCHANGED <<worker, at>>
    <3>1. Capturing' = Capturing /\ DOMAIN worker' = Workers
      BY <1>0, <2>3 DEF Capturing, MonTyped
    <3> QED
      BY <1>3, <2>1, <2>3, <3>1
  <2>4. CASE /\ at[w] = "idle" /\ at' = [at EXCEPT ![w] = "update"]
             /\ worker' = [worker EXCEPT ![w] = "wait"]
    <3>1. Capturing' = Capturing /\ DOMAIN worker' = Workers
      BY <1>2, <2>1, <2>4
    <3> QED
      BY <1>0, <1>1, <2>1, <2>4, <3>1, MonSame
  <2> QED
    BY <1>6, <2>2, <2>3, <2>4 DEF TestCapture, Work
<1>7. CASE Finally(w)
  <2>1. /\ worker' = [worker EXCEPT ![w] = "none"] /\ ~active_capture' /\ UNCHANGED at
    BY <1>7 DEF Finally, Work
  <2>2. DOMAIN worker' = Workers
    BY <1>0, <2>1 DEF MonTyped
  <2> QED
    BY <1>0, <1>1, <2>1, <2>2 DEF MonInv, MonTyped, MonAlive
<1> QED
  BY <1>4, <1>5, <1>6, <1>7 DEF WorkerRuns

LEMMA MonKeeps == ASSUME MonInv, [MonNext]_monVars PROVE MonInv'
<1>1. ASSUME NEW b \in Browsers, UserActs(b) PROVE MonInv'
  <2>1. b \in MonThreads
    BY DEF MonThreads
  <2> QED
    BY <1>1, <2>1, StartStopKeeps, CaptureKeeps DEF UserActs
<1>2. ASSUME NEW x \in MonThreads, ThreadRuns(x) \/ ReadFails(x) PROVE MonInv'
  BY <1>2, StartStopKeeps, CaptureKeeps, ReaderKeeps DEF ThreadRuns
<1>3. ASSUME NEW w \in Workers, WorkerRuns(w) \/ LoginFails(w) PROVE MonInv'
  BY <1>3, WorkerKeeps
<1>4. CASE UNCHANGED monVars
  BY <1>4 DEF monVars, MonInv, MonTyped, MonAlive, Capturing
<1> QED
  BY <1>1, <1>2, <1>3, <1>4 DEF MonNext

\* A monitor that is on has a thread that reads, unless reading has failed, and
\* a capture that is shown as running has a worker: for any number of browsers,
\* workers and timers and every interleaving of their tests and assignments.
THEOREM MonitorAlive == MonSpec => []MonAlive
<1>1. MonInv => MonAlive
  BY DEF MonInv
<1> QED
  BY MonInitially, MonKeeps, <1>1, PTL DEF MonSpec

-----------------------------------------------------------------------------
\* The runtime and its pages.

Places == {"idle", "page", "program", "stop", "quit", "poll", "popen", "configure", "script"}

\* The places of a page, and where it may have a call under way.
CtlTyped ==
    /\ where \in [Pages -> Places]
    /\ call \in [Pages -> {"none", "asked", "answered", "refused"}]
    /\ proc \in [Procs -> {"gone", "starting", "up", "ending"}]
    /\ DOMAIN op = Pages
    /\ \A g \in Pages :
          /\ where[g] \in {"popen", "configure"} => op[g] = "start"
          /\ where[g] \in {"program", "script"} => op[g] = "compile"
          /\ where[g] \in {"stop", "quit", "poll"} => op[g] \in {"stop", "compile"}
          /\ where[g] = "page" => op[g] \in {"view", "start", "compile"}
          /\ where[g] \in {"idle", "poll", "popen", "script"} => call[g] = "none"

Busy(g)     == where[g] # "idle" /\ Changes(op[g])
Down        == \A p \in Procs : proc[p] \notin {"starting", "up"}
Gone        == \A p \in Procs : proc[p] = "gone"
Told(g)     == where[g] = "quit" /\ call[g] = "answered"
Stopping(g) == where[g] = "poll" \/ Told(g)
Asking(g)   == op[g] = "start" /\ where[g] = "page" /\ call[g] # "none"

\* One page changes the runtime, and the process that is not gone is the last
\* one that was started.
OneChanger  == \A g, h \in Pages : Busy(g) /\ Busy(h) => g = h
LastStarted == \A p \in Procs : proc[p] # "gone" => p = theprocess

\* The runtime is down when a call was refused, and when the web server takes
\* it for stopped, unless a page waits for its end, which may be in vain; it ends in the hands of the page that stops it.
Believed == runtime_status # "Running" => Down \/ \E g \in Pages : where[g] = "poll"
Answers  == \A g \in Pages : call[g] = "refused" => Down
Ending   == \A p \in Procs : proc[p] = "ending" => \E g \in Pages : Stopping(g)

\* What a page has found out before it starts a process or a script still
\* holds when it does.
Ready    == \A g \in Pages : where[g] \in {"popen", "script"} => Gone
Finished == \A g \in Pages : where[g] = "popen" \/ Asking(g) => end_of_stream
Replaced == ~end_of_stream => Gone

CtlHeld ==
    /\ OneChanger /\ LastStarted
    /\ Believed /\ Answers /\ Ending
    /\ Ready /\ Finished /\ Replaced

CtlInv == CtlTyped /\ (orderly => CtlHeld)

LEMMA CtlInitially == CtlInit => CtlInv
BY DEF CtlInit, CtlInv, CtlTyped, CtlHeld, Busy, Down, Gone, Told, Stopping, Asking, Places,
       OneChanger, LastStarted, Believed, Answers, Ending, Ready, Finished, Replaced

\* Where status() sends a page.
LEMMA AfterTyped ==
    ASSUME CtlTyped, NEW g \in Pages, where[g] \in {"page", "program", "stop"},
           NEW status \in {"Running", "Stopped", "Compiling"}
    PROVE  /\ After(g, status) \in Places \ {"page", "poll"}
           /\ After(g, status) \in {"popen", "configure"} <=> op[g] = "start"
           /\ After(g, status) \in {"program", "script"} => op[g] = "compile"
           /\ After(g, status) \in {"stop", "quit"} => op[g] \in {"stop", "compile"}
           /\ After(g, status) = "popen" => status = "Stopped"
           /\ After(g, status) = "script" => status # "Running"
<1>1. op[g] \in {"view", "start", "stop", "compile"}
  BY DEF CtlTyped
<1>2. op[g] = "view" => After(g, status) = "idle"
  BY DEF After
<1>3. op[g] = "start" => After(g, status) = IF status = "Stopped" THEN "popen" ELSE "configure"
  BY DEF After
<1>4. op[g] = "stop" => After(g, status) = IF status = "Running" THEN "quit" ELSE "idle"
  BY DEF After
<1>5. ASSUME op[g] = "compile", where[g] = "page"
      PROVE After(g, status) = IF status = "Compiling" THEN "idle" ELSE "program"
  BY <1>5 DEF After
<1>6. ASSUME op[g] = "compile", where[g] = "program"
      PROVE After(g, status) = IF status = "Running" THEN "stop" ELSE "script"
  BY <1>6 DEF After
<1>7. ASSUME op[g] = "compile", where[g] = "stop"
      PROVE After(g, status) = IF status = "Running" THEN "quit" ELSE "script"
  BY <1>7 DEF After
<1> QED
  BY <1>1, <1>2, <1>3, <1>4, <1>5, <1>6, <1>7 DEF Places

\* A page that is at one place goes to another, and its call ends.
LEMMA PageTyped ==
    ASSUME CtlTyped, NEW g \in Pages, NEW to \in Places, where[g] # "idle",
           where' = [where EXCEPT ![g] = to], call' = [call EXCEPT ![g] = "none"],
           UNCHANGED op, proc' \in [Procs -> {"gone", "starting", "up", "ending"}],
           to \in {"popen", "configure"} => op[g] = "start",
           to \in {"program", "script"} => op[g] = "compile",
           to \in {"stop", "quit", "poll"} => op[g] \in {"stop", "compile"},
           to # "page"
    PROVE  CtlTyped'
BY DEF CtlTyped

\* Every action moves one page to a place where it may be.
LEMMA CtlTypedStep ==
    ASSUME CtlTyped, [CtlNext]_ctlVars
    PROVE  CtlTyped'
<1>1. ASSUME NEW p \in Procs, OpenPort(p) \/ EndProcess(p) PROVE CtlTyped'
  <2>1. /\ UNCHANGED <<where, call, op>>
        /\ \/ proc' = [proc EXCEPT ![p] = "gone"] \/ proc' = [proc EXCEPT ![p] = "up"]
    BY <1>1 DEF OpenPort, EndProcess
  <2> QED
    BY <2>1 DEF CtlTyped
<1>2. CASE ScriptEnds \/ CommandDone \/ UNCHANGED ctlVars
  BY <1>2 DEF ScriptEnds, CommandDone, ctlVars, CtlTyped
<1>3. ASSUME NEW g \in Pages, Request(g) PROVE CtlTyped'
  <2>1. PICK o \in {"view", "start", "stop", "compile"} :
           /\ where[g] = "idle"
           /\ where' = [where EXCEPT ![g] = IF o = "stop" THEN "stop" ELSE "page"]
           /\ op' = [op EXCEPT ![g] = o]
    BY <1>3 DEF Request, PageMoves
  <2>2. UNCHANGED <<call, proc>>
    BY <1>3 DEF Request, runtime
  <2> QED
    BY <2>1, <2>2 DEF CtlTyped, Places
<1>4. ASSUME NEW g \in Pages, Connect(g) \/ CallRefused(g) PROVE CtlTyped'
  <2>1. /\ UNCHANGED <<where, op, proc>> /\ where[g] \notin {"idle", "poll", "popen", "script"}
        /\ call' = [call EXCEPT ![g] = "asked"] \/ call' = [call EXCEPT ![g] = "refused"]
    BY <1>4 DEF Connect, CallRefused, Asks, runtime, CtlTyped
  <2> QED
    BY <2>1 DEF CtlTyped
<1>5. ASSUME NEW g \in Pages, CallAnswered(g) PROVE CtlTyped'
  <2>1. /\ UNCHANGED <<where, op>> /\ call[g] = "asked"
        /\ call' = [call EXCEPT ![g] = "answered"]
    BY <1>5 DEF CallAnswered
  <2>2. \E p \in Procs : proc' \in {proc, [proc EXCEPT ![p] = "ending"]}
    BY <1>5 DEF CallAnswered
  <2>3. proc' \in [Procs -> {"gone", "starting", "up", "ending"}]
    BY <2>2 DEF CtlTyped
  <2> QED
    BY <2>1, <2>3 DEF CtlTyped
<1>6. ASSUME NEW g \in Pages, StatusKnown(g) \/ StatusCalled(g) PROVE CtlTyped'
  <2>1. PICK status \in {"Running", "Stopped", "Compiling"} :
           where' = [where EXCEPT ![g] = After(g, status)]
    BY <1>6 DEF StatusKnown, StatusCalled, StatusOf
  <2>2. where[g] \in {"page", "program", "stop"} /\ UNCHANGED <<op, proc>>
        /\ call' = [call EXCEPT ![g] = "none"]
    BY <1>6 DEF StatusKnown, StatusCalled, CtlTyped, runtime
  <2>3. proc' \in [Procs -> {"gone", "starting", "up", "ending"}]
    BY <2>2 DEF CtlTyped
  <2> DEFINE to == After(g, status)
  <2>4. /\ to \in Places \ {"page", "poll"}
        /\ to \in {"popen", "configure"} => op[g] = "start"
        /\ to \in {"program", "script"} => op[g] = "compile"
        /\ to \in {"stop", "quit"} => op[g] \in {"stop", "compile"}
    BY <2>2, AfterTyped
  <2>5. where' = [where EXCEPT ![g] = to]
    BY <2>1
  <2> HIDE DEF to
  <2> QED
    BY <2>2, <2>3, <2>4, <2>5, PageTyped
<1>7. ASSUME NEW g \in Pages, StartRuntime(g) PROVE CtlTyped'
  <2>1. /\ where[g] = "popen" /\ where' = [where EXCEPT ![g] = "configure"]
        /\ UNCHANGED <<op, call>>
        /\ \E p \in Procs : proc' = [proc EXCEPT ![p] = "starting"]
    BY <1>7 DEF StartRuntime, PageMoves
  <2>2. call' = [call EXCEPT ![g] = "none"] /\ op[g] = "start"
    BY <2>1 DEF CtlTyped
  <2>3. proc' \in [Procs -> {"gone", "starting", "up", "ending"}]
    BY <2>1 DEF CtlTyped
  <2>4. "configure" \in Places
    BY DEF Places
  <2> QED
    BY <2>1, <2>2, <2>3, <2>4, PageTyped
<1>8. ASSUME NEW g \in Pages, ConfigureRuntime(g) \/ Quit(g) PROVE CtlTyped'
  <2>1. /\ where[g] \in {"configure", "quit"} /\ UNCHANGED <<op, proc>>
        /\ call' = [call EXCEPT ![g] = "none"]
        /\ \/ where' = [where EXCEPT ![g] = "idle"]
           \/ where' = [where EXCEPT ![g] = "poll"] /\ where[g] = "quit"
    BY <1>8 DEF ConfigureRuntime, Quit, runtime
  <2>2. proc' \in [Procs -> {"gone", "starting", "up", "ending"}]
    BY <2>1 DEF CtlTyped
  <2>3. where[g] = "quit" => op[g] \in {"stop", "compile"}
    BY DEF CtlTyped
  <2>4. "idle" \in Places /\ "poll" \in Places
    BY DEF Places
  <2> QED
    BY <2>1, <2>2, <2>3, <2>4, PageTyped
<1>9. ASSUME NEW g \in Pages, Poll(g) \/ Compile(g) PROVE CtlTyped'
  <2>1. /\ where[g] \in {"poll", "script"} /\ UNCHANGED <<op, proc, call>>
        /\ \/ where' = [where EXCEPT ![g] = "idle"]
           \/ where' = [where EXCEPT ![g] = "script"] /\ op[g] = "compile"
    BY <1>9 DEF Poll, Compile, PageMoves, runtime
  <2>2. call' = [call EXCEPT ![g] = "none"]
    BY <2>1 DEF CtlTyped
  <2>3. proc' \in [Procs -> {"gone", "starting", "up", "ending"}]
    BY <2>1 DEF CtlTyped
  <2>4. "idle" \in Places /\ "script" \in Places
    BY DEF Places
  <2> QED
    BY <2>1, <2>2, <2>3, <2>4, PageTyped
<1> QED
  BY <1>1, <1>2, <1>3, <1>4, <1>5, <1>6, <1>7, <1>8, <1>9 DEF CtlNext, PageRuns

\* Once it is over, it stays over.
LEMMA OrderlyBefore ==
    ASSUME [CtlNext]_ctlVars, orderly'
    PROVE  orderly
<1>1. CASE UNCHANGED orderly
  BY <1>1
<1>2. ASSUME NEW X, orderly' = (orderly /\ X) PROVE orderly
  BY <1>2, Zenon
<1>3. ASSUME NEW p \in Procs, OpenPort(p) \/ EndProcess(p) PROVE UNCHANGED orderly
  BY <1>3 DEF OpenPort, EndProcess, ctlGhosts
<1>4. CASE ScriptEnds \/ CommandDone \/ UNCHANGED ctlVars
  BY <1>1, <1>4 DEF ScriptEnds, CommandDone, ctlGhosts, ctlVars
<1>5. ASSUME NEW g \in Pages, Request(g) \/ CallRefused(g) \/ StartRuntime(g)
      PROVE  \E X : orderly' = (orderly /\ X)
  BY <1>5 DEF Request, CallRefused, StartRuntime
<1>6. ASSUME NEW g \in Pages,
             \/ Connect(g) \/ CallAnswered(g) \/ StatusKnown(g) \/ StatusCalled(g)
             \/ ConfigureRuntime(g) \/ Quit(g) \/ Poll(g) \/ Compile(g)
      PROVE  UNCHANGED orderly
  BY <1>6 DEF Connect, CallAnswered, StatusKnown, StatusCalled, ConfigureRuntime, Quit, Poll,
              Compile, ctlGhosts
<1> QED
  BY <1>1, <1>2, <1>3, <1>4, <1>5, <1>6 DEF CtlNext, PageRuns

-----------------------------------------------------------------------------
\* Each action keeps CtlHeld as long as the pages are in order.

\* Nothing ends but in the hands of a page that changes the runtime.
LEMMA GoneWhenDown ==
    ASSUME CtlTyped, CtlHeld, Down, NEW g \in Pages, Busy(g), ~Stopping(g)
    PROVE  Gone
<1>1. \A h \in Pages : Stopping(h) => Busy(h)
  BY DEF CtlTyped, Stopping, Told, Busy, Changes
<1>2. \A h \in Pages : ~Stopping(h)
  BY <1>1 DEF CtlHeld, OneChanger
<1>3. \A p \in Procs : proc[p] # "ending"
  BY <1>2 DEF CtlHeld, Ending
<1> QED
  BY <1>3 DEF Down, Gone, CtlTyped

\* A process opens its port or ends.
LEMMA ProcHeld ==
    ASSUME CtlTyped, CtlHeld, NEW p \in Procs, OpenPort(p) \/ EndProcess(p)
    PROVE  CtlHeld'
<1>1. UNCHANGED <<runtime_status, theprocess, end_of_stream, op, where, call>>
  BY DEF OpenPort, EndProcess
<1>2. \A q \in Procs : \/ proc'[q] = proc[q] \/ proc'[q] = "gone"
                       \/ proc[q] = "starting" /\ proc'[q] = "up"
  BY DEF OpenPort, EndProcess, CtlTyped
<1>3. (Down => Down') /\ (Gone => Gone')
  BY <1>2 DEF Down, Gone
<1>4. OneChanger' /\ LastStarted'
  BY <1>1, <1>2 DEF CtlHeld, OneChanger, LastStarted, Busy
<1>5. Believed' /\ Answers'
  BY <1>1, <1>3 DEF CtlHeld, Believed, Answers
<1>6. Ending'
  BY <1>1, <1>2 DEF CtlHeld, Ending, Stopping, Told
<1>7. Ready' /\ Finished' /\ Replaced'
  BY <1>1, <1>3 DEF CtlHeld, Ready, Finished, Replaced, Asking
<1> QED
  BY <1>4, <1>5, <1>6, <1>7 DEF CtlHeld

\* The script ends, or a command does.
LEMMA DoneHeld == ASSUME CtlHeld, ScriptEnds \/ CommandDone PROVE CtlHeld'
BY DEF ScriptEnds, CommandDone, CtlHeld, OneChanger, LastStarted, Believed, Answers, Ending, Ready, Finished,
       Replaced, Busy, Down, Gone, Told, Stopping, Asking

LEMMA RequestHeld ==
    ASSUME CtlTyped, CtlHeld, NEW g \in Pages, Request(g), orderly'
    PROVE  CtlHeld'
<1>1. PICK o \in {"view", "start", "stop", "compile"} :
         /\ where[g] = "idle"
         /\ where' = [where EXCEPT ![g] = IF o = "stop" THEN "stop" ELSE "page"]
         /\ op' = [op EXCEPT ![g] = o]
         /\ orderly' = (orderly /\ ~(Changes(o) /\ \E h \in Pages :
                                         where[h] # "idle" /\ Changes(op[h])))
  BY DEF Request, PageMoves
<1>2. UNCHANGED <<runtime_status, theprocess, end_of_stream, proc, call>>
  BY DEF Request, runtime
<1>3. /\ where'[g] \in {"stop", "page"} /\ op'[g] = o /\ call[g] = "none"
      /\ \A h \in Pages \ {g} : where'[h] = where[h] /\ op'[h] = op[h]
  BY <1>1 DEF CtlTyped
<1>4. Changes(o) => \A h \in Pages : ~Busy(h)
  BY <1>1, Zenon DEF Busy
<1>5. OneChanger'
  BY <1>3, <1>4 DEF CtlHeld, OneChanger, Busy
<1>6. LastStarted' /\ Replaced' /\ Answers'
  BY <1>2 DEF CtlHeld, LastStarted, Replaced, Answers, Down, Gone
<1>7. Believed'
  BY <1>1, <1>2, <1>3 DEF CtlHeld, Believed, Down
<1>8. Ending'
  BY <1>1, <1>2, <1>3 DEF CtlHeld, Ending, Stopping, Told
<1>9. Ready' /\ Finished'
  BY <1>2, <1>3 DEF CtlHeld, Ready, Finished, Gone, Asking
<1> QED
  BY <1>5, <1>6, <1>7, <1>8, <1>9 DEF CtlHeld

LEMMA ConnectHeld ==
    ASSUME CtlTyped, CtlHeld, NEW g \in Pages, Connect(g)
    PROVE  CtlHeld'
<1>1. /\ UNCHANGED <<runtime_status, theprocess, end_of_stream, proc, op, where>>
      /\ call[g] = "none" /\ call' = [call EXCEPT ![g] = "asked"]
      /\ where[g] = "page" => end_of_stream
  BY DEF Connect, runtime
<1>2. call'[g] = "asked" /\ \A h \in Pages \ {g} : call'[h] = call[h]
  BY <1>1 DEF CtlTyped
<1>3. OneChanger' /\ LastStarted' /\ Believed' /\ Ready' /\ Replaced'
  BY <1>1 DEF CtlHeld, OneChanger, LastStarted, Believed, Ready, Replaced, Busy, Down, Gone
<1>4. Answers'
  BY <1>1, <1>2 DEF CtlHeld, Answers, Down
<1>5. Ending'
  BY <1>1, <1>2 DEF CtlHeld, Ending, Stopping, Told
<1>6. Finished'
  BY <1>1, <1>2 DEF CtlHeld, Finished, Asking
<1> QED
  BY <1>3, <1>4, <1>5, <1>6 DEF CtlHeld

LEMMA AnsweredHeld ==
    ASSUME CtlTyped, CtlHeld, NEW g \in Pages, CallAnswered(g)
    PROVE  CtlHeld'
<1>1. /\ UNCHANGED <<runtime_status, theprocess, end_of_stream, op, where>>
      /\ call[g] = "asked" /\ call' = [call EXCEPT ![g] = "answered"]
  BY DEF CallAnswered
<1>2. PICK p \in Procs :
         /\ proc[p] = "up"
         /\ UNCHANGED proc \/ (where[g] = "quit" /\ proc' = [proc EXCEPT ![p] = "ending"])
  BY DEF CallAnswered
<1>3. call'[g] = "answered" /\ \A h \in Pages \ {g} : call'[h] = call[h]
  BY <1>1 DEF CtlTyped
<1>4. end_of_stream /\ \A h \in Pages : where[h] \notin {"popen", "script"} /\ call[h] # "refused"
  BY <1>2 DEF CtlHeld, Replaced, Ready, Answers, Down, Gone
<1>5. OneChanger' /\ Answers' /\ Ready' /\ Finished' /\ Replaced'
  BY <1>1, <1>3, <1>4 DEF CtlHeld, OneChanger, Busy, Answers, Ready, Finished, Replaced
<1>6. CASE UNCHANGED proc
  <2>1. LastStarted' /\ Believed'
    BY <1>1, <1>6 DEF CtlHeld, LastStarted, Believed, Down
  <2>2. Ending'
    BY <1>1, <1>3, <1>6 DEF CtlHeld, Ending, Stopping, Told
  <2> QED
    BY <1>5, <2>1, <2>2 DEF CtlHeld
<1>7. CASE where[g] = "quit" /\ proc' = [proc EXCEPT ![p] = "ending"]
  <2>1. \A q \in Procs \ {p} : proc[q] = "gone"
    BY <1>2 DEF CtlHeld, LastStarted
  <2>2. p = theprocess /\ proc'[p] = "ending" /\ \A q \in Procs \ {p} : proc'[q] = "gone"
    BY <1>2, <1>7, <2>1 DEF CtlTyped, CtlHeld, LastStarted
  <2>3. LastStarted' /\ Down' /\ Stopping(g)'
    BY <1>1, <1>3, <1>7, <2>2 DEF LastStarted, Down, Stopping, Told
  <2> QED
    BY <1>5, <2>3 DEF CtlHeld, Believed, Ending
<1> QED
  BY <1>2, <1>6, <1>7

LEMMA RefusedHeld ==
    ASSUME CtlTyped, CtlHeld, NEW g \in Pages, CallRefused(g), orderly'
    PROVE  CtlHeld'
<1>1. /\ UNCHANGED <<runtime_status, theprocess, end_of_stream, proc, op, where>>
      /\ call[g] = "asked" /\ call' = [call EXCEPT ![g] = "refused"]
  BY DEF CallRefused, runtime
<1>2. call'[g] = "refused" /\ \A h \in Pages \ {g} : call'[h] = call[h]
  BY <1>1 DEF CtlTyped
<1>3. orderly' = (orderly /\ ~Some("starting")) /\ ~Some("up")
  BY DEF CallRefused
<1>4. ~Some("starting") /\ ~Some("up")
  BY <1>3, Zenon
<1>5. Down /\ Down'
  BY <1>1, <1>4 DEF Some, Down
<1>6. OneChanger' /\ LastStarted' /\ Believed' /\ Answers' /\ Ready' /\ Replaced'
  BY <1>1, <1>5 DEF CtlHeld, OneChanger, LastStarted, Believed, Answers, Ready, Replaced, Busy, Gone
<1>7. Ending' /\ Finished'
  BY <1>1, <1>2 DEF CtlHeld, Ending, Stopping, Told, Finished, Asking
<1> QED
  BY <1>6, <1>7 DEF CtlHeld

\* status() has returned, and the page goes on.
LEMMA StatusHeld ==
    ASSUME CtlTyped, CtlHeld, NEW g \in Pages, StatusKnown(g) \/ StatusCalled(g)
    PROVE  CtlHeld'
<1>1. PICK status \in {"Running", "Stopped", "Compiling"} :
         /\ where' = [where EXCEPT ![g] = After(g, status)]
         /\ status = "Stopped" => Down \/ \E h \in Pages : where[h] = "poll"
         /\ status = "Stopped" /\ op[g] = "start" => end_of_stream
         /\ status = "Compiling" => Gone
         /\ runtime_status' # "Running" => Down \/ \E h \in Pages : where[h] = "poll"
  <2>1. CASE StatusKnown(g)
    BY <2>1 DEF StatusKnown, CtlHeld, Believed, Replaced, Down, Gone
  <2>2. CASE StatusCalled(g)
    <3>1. /\ where' = [where EXCEPT ![g] = After(g, StatusOf(g))]
          /\ runtime_status' = StatusOf(g) /\ Ended(g)
          /\ where[g] \in {"page", "program", "stop"}
      BY <2>2 DEF StatusCalled
    <3>2. StatusOf(g) # "Running" => StatusOf(g) = "Stopped" /\ Down
      BY <3>1 DEF StatusOf, Ended, CtlHeld, Answers
    <3>3. op[g] = "start" => Asking(g)
      BY <3>1 DEF CtlTyped, Asking, Ended
    <3>4. op[g] = "start" => end_of_stream
      BY <3>3 DEF CtlHeld, Finished
    <3>5. StatusOf(g) \in {"Running", "Stopped", "Compiling"}
      BY DEF StatusOf
    <3> QED
      BY <3>1, <3>2, <3>4, <3>5
  <2> QED
    BY <2>1, <2>2
<1>2. /\ where[g] \in {"page", "program", "stop"}
      /\ UNCHANGED <<theprocess, end_of_stream, proc, op>>
      /\ call' = [call EXCEPT ![g] = "none"]
  BY DEF StatusKnown, StatusCalled, runtime, CtlTyped
<1> DEFINE to == After(g, status)
<1>3. /\ to \in Places \ {"page", "poll"}
      /\ to = "popen" => op[g] = "start" /\ status = "Stopped"
      /\ to = "script" => op[g] = "compile" /\ status # "Running"
  BY <1>2, AfterTyped
<1>4. where' = [where EXCEPT ![g] = to]
  BY <1>1
<1> HIDE DEF to
<1>5. /\ where'[g] = to /\ call'[g] = "none"
      /\ \A h \in Pages \ {g} : where'[h] = where[h] /\ call'[h] = call[h]
  BY <1>2, <1>4 DEF CtlTyped
<1>6. to \in {"popen", "script"} => Gone
  <2>1. to \in {"popen", "script"} => Busy(g)
    BY <1>2, <1>3 DEF Busy, Changes
  <2>2. ~Stopping(g)
    BY <1>2 DEF Stopping, Told
  <2>3. to \in {"popen", "script"} => \A h \in Pages : where[h] # "poll"
    BY <1>2, <2>1 DEF CtlHeld, CtlTyped, OneChanger, Busy, Changes
  <2> QED
    BY <1>1, <1>3, <2>1, <2>2, <2>3, GoneWhenDown
<1>7. OneChanger'
  BY <1>2, <1>5 DEF CtlHeld, OneChanger, Busy
<1>8. LastStarted' /\ Replaced'
  BY <1>2 DEF CtlHeld, LastStarted, Replaced, Gone
<1>9. Believed' /\ Answers'
  BY <1>1, <1>2, <1>5 DEF CtlHeld, Believed, Answers, Down
<1>10. Ending'
  BY <1>2, <1>5 DEF CtlHeld, Ending, Stopping, Told
<1>11. Ready'
  BY <1>2, <1>5, <1>6 DEF CtlHeld, Ready, Gone
<1>12. Finished'
  BY <1>1, <1>2, <1>3, <1>5 DEF CtlHeld, Finished, Asking
<1> QED
  BY <1>7, <1>8, <1>9, <1>10, <1>11, <1>12 DEF CtlHeld

LEMMA StartHeld ==
    ASSUME CtlTyped, CtlHeld, NEW g \in Pages, StartRuntime(g), orderly'
    PROVE  CtlHeld'
<1>1. /\ where[g] = "popen" /\ where' = [where EXCEPT ![g] = "configure"]
      /\ UNCHANGED <<end_of_stream, op, call>> /\ runtime_status' = "Running"
      /\ orderly' = (orderly /\ \A h \in Pages \ {g} : call[h] # "refused")
  BY DEF StartRuntime, PageMoves
<1>2. PICK p \in Procs : proc' = [proc EXCEPT ![p] = "starting"] /\ theprocess' = p
  BY DEF StartRuntime
<1>3. \A h \in Pages : call[h] # "refused"
  <2>1. \A h \in Pages \ {g} : call[h] # "refused"
    BY <1>1, Zenon
  <2>2. call[g] = "none"
    BY <1>1 DEF CtlTyped
  <2> QED
    BY <2>1, <2>2
<1>4. Gone /\ end_of_stream
  BY <1>1 DEF CtlHeld, Ready, Finished
<1>5. /\ where'[g] = "configure" /\ \A h \in Pages \ {g} : where'[h] = where[h]
      /\ proc'[p] = "starting" /\ \A q \in Procs \ {p} : proc'[q] = "gone"
  BY <1>1, <1>2, <1>4 DEF CtlTyped, Gone
<1>6. \A h \in Pages \ {g} : where[h] \notin {"popen", "script"}
  BY <1>1 DEF CtlHeld, OneChanger, Busy, Changes, CtlTyped
<1>7. OneChanger'
  BY <1>1, <1>5 DEF CtlHeld, OneChanger, Busy
<1>8. LastStarted' /\ Believed' /\ Answers' /\ Ending'
  BY <1>1, <1>2, <1>3, <1>5 DEF LastStarted, Believed, Answers, Ending
<1>9. Ready' /\ Finished' /\ Replaced'
  BY <1>1, <1>4, <1>5, <1>6 DEF Ready, Finished, Replaced
<1> QED
  BY <1>7, <1>8, <1>9 DEF CtlHeld

\* configure_runtime() returns, or quit() has been called.
LEMMA CallEndsHeld ==
    ASSUME CtlTyped, CtlHeld, NEW g \in Pages, ConfigureRuntime(g) \/ Quit(g)
    PROVE  CtlHeld'
<1>1. /\ UNCHANGED <<theprocess, end_of_stream, proc, op>>
      /\ call' = [call EXCEPT ![g] = "none"]
      /\ \/ where[g] = "configure" /\ where' = [where EXCEPT ![g] = "idle"]
         \/ where[g] = "quit" /\ where' = [where EXCEPT ![g] = "poll"]
  BY DEF ConfigureRuntime, Quit, runtime
<1>2. \/ where[g] = "quit"
      \/ runtime_status' # "Running" => Down \/ \E h \in Pages : where[h] = "poll"
  BY DEF ConfigureRuntime, Quit, StatusOf, Ended, CtlHeld, Answers, Believed
<1>3. /\ call'[g] = "none" /\ where'[g] \in {"idle", "poll"}
      /\ where[g] = "quit" => where'[g] = "poll"
      /\ \A h \in Pages \ {g} : where'[h] = where[h] /\ call'[h] = call[h]
  BY <1>1 DEF CtlTyped
<1>4. OneChanger'
  BY <1>1, <1>3 DEF CtlHeld, OneChanger, Busy
<1>5. LastStarted' /\ Replaced'
  BY <1>1 DEF CtlHeld, LastStarted, Replaced, Gone
<1>6. Believed' /\ Answers'
  BY <1>1, <1>2, <1>3 DEF CtlHeld, Believed, Answers, Down
<1>7. Ending'
  BY <1>1, <1>3 DEF CtlHeld, Ending, Stopping, Told
<1>8. Ready' /\ Finished'
  BY <1>1, <1>3 DEF CtlHeld, Ready, Finished, Asking, Gone
<1> QED
  BY <1>4, <1>5, <1>6, <1>7, <1>8 DEF CtlHeld

\* The process has ended, or the script is started.
LEMMA LastHeld ==
    ASSUME CtlTyped, CtlHeld, NEW g \in Pages, Poll(g) \/ Compile(g)
    PROVE  CtlHeld'
<1>1. /\ UNCHANGED <<runtime_status, theprocess, proc, op, call>>
      /\ where[g] \in {"poll", "script"}
      /\ \/ where' = [where EXCEPT ![g] = "idle"] \/ where' = [where EXCEPT ![g] = "script"]
  BY DEF Poll, Compile, PageMoves, runtime
<1>2. /\ where'[g] \in {"idle", "script"}
      /\ \A h \in Pages \ {g} : where'[h] = where[h]
  BY <1>1 DEF CtlTyped
<1>3. Gone /\ Gone'
  BY <1>1 DEF Poll, Compile, PageMoves, CtlHeld, LastStarted, Ready, Gone
<1>4. Busy(g)
  BY <1>1 DEF CtlTyped, Busy, Changes
<1>5. \A h \in Pages : where'[h] = "popen" \/ Asking(h)' => h # g /\ Busy(h)
  BY <1>1, <1>2 DEF CtlTyped, Busy, Changes, Asking
<1>6. OneChanger'
  BY <1>1, <1>2 DEF CtlHeld, OneChanger, Busy
<1>7. Finished'
  BY <1>4, <1>5 DEF CtlHeld, OneChanger, Finished
<1>8. LastStarted' /\ Believed' /\ Answers' /\ Ending' /\ Ready' /\ Replaced'
  BY <1>3 DEF LastStarted, Believed, Answers, Ending, Ready, Replaced, Down, Gone
<1> QED
  BY <1>6, <1>7, <1>8 DEF CtlHeld

LEMMA CtlKeeps == ASSUME CtlInv, [CtlNext]_ctlVars PROVE CtlInv'
<1>1. CtlTyped /\ CtlTyped'
  BY CtlTypedStep DEF CtlInv
<1>2. ASSUME orderly' PROVE CtlHeld'
  <2>1. orderly /\ CtlHeld
    BY <1>2, OrderlyBefore DEF CtlInv
  <2>2. ASSUME NEW p \in Procs, OpenPort(p) \/ EndProcess(p) PROVE CtlHeld'
    BY <1>1, <2>1, <2>2, ProcHeld
  <2>3. CASE ScriptEnds \/ CommandDone
    BY <2>1, <2>3, DoneHeld
  <2>4. ASSUME NEW g \in Pages, Request(g) PROVE CtlHeld'
    BY <1>1, <1>2, <2>1, <2>4, RequestHeld
  <2>5. ASSUME NEW g \in Pages, PageRuns(g) PROVE CtlHeld'
    BY <1>1, <1>2, <2>1, <2>5, ConnectHeld, AnsweredHeld, RefusedHeld, StatusHeld, StartHeld,
       CallEndsHeld, LastHeld DEF PageRuns
  <2>6. CASE UNCHANGED ctlVars
    BY <2>1, <2>6 DEF ctlVars, CtlHeld, OneChanger, LastStarted, Believed, Answers, Ending,
       Ready, Finished, Replaced, Busy, Down, Gone, Told, Stopping, Asking
  <2> QED
    BY <2>2, <2>3, <2>4, <2>5, <2>6 DEF CtlNext
<1> QED
  BY <1>1, <1>2 DEF CtlInv

\* There is one process at most, and none while the script runs, whenever the
\* process ends and whatever pages show the status, as long as one page at a
\* time starts, stops or compiles, none calls a process that is about to listen,
\* and none is started before another page has noted the refusal of its call.
THEOREM OneRuntime == CtlSpec => []CtlOneProcess
<1>1. CtlInv => CtlOneProcess
  <2>1. ASSUME CtlHeld PROVE Cardinality(Alive) =< (IF end_of_stream THEN 1 ELSE 0)
    <3>1. \A p, q \in Alive : p = q
      BY <2>1 DEF Alive, CtlHeld, LastStarted
    <3>2. ~end_of_stream => Alive = {}
      BY <2>1 DEF Alive, CtlHeld, Replaced, Gone
    <3> QED
      BY <3>1, <3>2, AtMostOne
  <2> QED
    BY <2>1 DEF CtlInv, CtlOneProcess
<1> QED
  BY CtlInitially, CtlKeeps, <1>1, PTL DEF CtlSpec

\* Under the same conditions the process that runs is the one that is polled,
\* and it is believed to run, or a page waits for its end.
THEOREM RuntimeReachable == CtlSpec => []CtlReachable
<1>1. CtlInv => CtlReachable
  BY DEF CtlInv, CtlHeld, CtlReachable, LastStarted, Believed, Down
<1> QED
  BY CtlInitially, CtlKeeps, <1>1, PTL DEF CtlSpec

-----------------------------------------------------------------------------
\* The packet captures.

PktTyped ==
    /\ pid_file = NoFile \/ pid_file \in SUBSET Pids
    /\ DOMAIN capture = Pids /\ DOMAIN interface = Pids
    /\ DOMAIN step = Visitors /\ DOMAIN todo = Visitors
    /\ pids \in [Visitors -> SUBSET Pids]
    /\ children \in [Visitors -> SUBSET Pids]

\* One page is at it.  No interface is captured twice, and those that a page
\* will start are not captured.
OneVisitor == \A g, h \in Visitors : step[g] # "idle" /\ step[h] # "idle" => g = h
Distinct   == \A p, q \in Capturers : interface[p] = interface[q] => p = q
Fresh      == \A g \in Visitors : step[g] \in {"read", "spawn"} =>
                  \A p \in Capturers : interface[p] \notin todo[g]

\* Unless a capture was stopped too soon, all that go on are in the file or
\* will be; and a page that stops them knows them all, finds the tcpdump of
\* each, and has none left when it removes the file.
Listed == \A p \in Capturers :
              p \in InFile \/ \E g \in Visitors : step[g] = "spawn" /\ p \in pids[g]
Known  == \A g \in Visitors : \A p \in Capturers :
              /\ step[g] \in {"spawn", "stop", "status"} => p \in pids[g]
              /\ step[g] = "kill" => p \in children[g] /\ capture[p] = "runs"
              /\ step[g] # "remove"

PktHeld == OneVisitor /\ Distinct /\ Fresh /\ (~hasty => Listed /\ Known)

PktInv == PktTyped /\ (PktOrderly => PktHeld)

LEMMA PktInitially == PktInit => PktInv
<1> SUFFICES ASSUME PktInit PROVE PktTyped /\ PktHeld
  BY DEF PktInv
<1>1. Capturers = {} /\ \A g \in Visitors : step[g] = "idle"
  BY DEF PktInit, Capturers
<1>2. PktHeld
  BY <1>1 DEF PktHeld, OneVisitor, Distinct, Fresh, Listed, Known
<1>3. PktTyped
  BY DEF PktInit, PktTyped
<1> QED
  BY <1>2, <1>3

LEMMA FileTyped ==
    ASSUME PktAssumption, PktTyped
    PROVE  /\ pid_file # NoFile => pid_file \in SUBSET Pids /\ InFile = pid_file
           /\ InFile \in SUBSET Pids
BY DEF PktAssumption, PktTyped, InFile

LEMMA ReturnsTyped ==
    ASSUME PktTyped, NEW g \in Visitors, NEW from, Returns(g, from)
    PROVE  /\ step[g] = from /\ step'[g] = "idle" /\ \A h \in Visitors \ {g} : step'[h] = step[h]
           /\ DOMAIN step' = Visitors /\ DOMAIN todo' = Visitors
           /\ pids' \in [Visitors -> SUBSET Pids] /\ children' \in [Visitors -> SUBSET Pids]
           /\ \A h \in Visitors \ {g} : /\ todo'[h] = todo[h] /\ pids'[h] = pids[h]
                                        /\ children'[h] = children[h]
BY DEF Returns, VisitMoves, PktTyped

\* Every action leaves the variables their types.
LEMMA PktTypedStep ==
    ASSUME PktAssumption, PktTyped, [PktNext]_pktVars
    PROVE  PktTyped'
<1>1. ASSUME NEW p \in Pids, TcpdumpStarts(p) \/ CaptureEnds(p) PROVE PktTyped'
  <2>1. /\ UNCHANGED <<pid_file, step, pids, children, todo>>
        /\ DOMAIN capture' = Pids /\ DOMAIN interface' = Pids
    BY <1>1 DEF TcpdumpStarts, CaptureEnds, PktTyped
  <2> QED
    BY <2>1 DEF PktTyped
<1>2. ASSUME NEW g \in Visitors,
             CallsStartPackets(g) \/ ReadPids(g) \/ CallsStopPackets(g) \/ CallsStatus(g)
      PROVE  PktTyped'
  <2>1. /\ UNCHANGED <<pid_file, capture, interface, children>>
        /\ DOMAIN step' = Visitors /\ DOMAIN todo' = Visitors
    BY <1>2 DEF CallsStartPackets, ReadPids, CallsStopPackets, CallsStatus, VisitMoves, system,
                PktTyped
  <2>2. \/ UNCHANGED pids
        \/ \E s \in SUBSET Pids : pids' = [pids EXCEPT ![g] = s]
    BY <1>2, FileTyped DEF CallsStartPackets, ReadPids, CallsStopPackets, CallsStatus
  <2> QED
    BY <2>1, <2>2 DEF PktTyped
<1>3. ASSUME NEW g \in Visitors, ListActive(g) PROVE PktTyped'
  <2>1. UNCHANGED <<pid_file, capture, interface>>
    BY <1>3 DEF ListActive, system
  <2>2. CASE Returns(g, "start")
    BY <2>1, <2>2, ReturnsTyped DEF PktTyped
  <2>3. CASE /\ VisitMoves(g, "start", "read") /\ UNCHANGED <<pids, children>>
             /\ \E s : todo' = [todo EXCEPT ![g] = s]
    BY <2>1, <2>3 DEF PktTyped, VisitMoves
  <2> QED
    BY <1>3, <2>2, <2>3 DEF ListActive
<1>4. ASSUME NEW g \in Visitors, Spawn(g) PROVE PktTyped'
  <2>1. UNCHANGED <<pid_file, step, children>>
    BY <1>4 DEF Spawn
  <2>2. PICK i \in todo[g], p \in Pids :
           /\ capture' = [capture EXCEPT ![p] = "sudo"]
           /\ interface' = [interface EXCEPT ![p] = i]
           /\ pids' = [pids EXCEPT ![g] = @ \cup {p}]
           /\ todo' = [todo EXCEPT ![g] = @ \ {i}]
    BY <1>4 DEF Spawn
  <2> QED
    BY <2>1, <2>2 DEF PktTyped
<1>5. ASSUME NEW g \in Visitors, SpawnFails(g) \/ WritePids(g) \/ ClearIfGone(g) PROVE PktTyped'
  <2>1. PICK from \in {"spawn", "status"} : Returns(g, from)
    BY <1>5 DEF SpawnFails, WritePids, ClearIfGone
  <2>2. UNCHANGED <<capture, interface>> /\ pid_file' \in {pid_file, pids[g], NoFile}
    BY <1>5 DEF SpawnFails, WritePids, ClearIfGone, system
  <2> QED
    BY <2>1, <2>2, ReturnsTyped DEF PktTyped
<1>6. ASSUME NEW g \in Visitors, FindChildren(g) PROVE PktTyped'
  <2>1. /\ UNCHANGED <<pid_file, capture, interface, pids>>
        /\ DOMAIN step' = Visitors
        /\ children' = [children EXCEPT ![g] = {p \in pids[g] : capture[p] = "runs"}]
    BY <1>6 DEF FindChildren, VisitMoves, system, PktTyped
  <2>2. DOMAIN todo' = Visitors
    BY <1>6 DEF FindChildren, PktTyped
  <2>3. {p \in pids[g] : capture[p] = "runs"} \in SUBSET Pids
    BY DEF PktTyped
  <2> DEFINE C == {p \in pids[g] : capture[p] = "runs"}
  <2>4. children' = [children EXCEPT ![g] = C] /\ C \in SUBSET Pids
    BY <2>1, <2>3
  <2> HIDE DEF C
  <2> QED
    BY <2>1, <2>2, <2>4 DEF PktTyped
<1>7. ASSUME NEW g \in Visitors, Kill(g) PROVE PktTyped'
  <2>1. /\ UNCHANGED <<pid_file, interface, pids, children, todo>>
        /\ DOMAIN step' = Visitors
    BY <1>7 DEF Kill, VisitMoves, PktTyped
  <2>2. DOMAIN capture' = Pids
    BY <1>7 DEF Kill
  <2> QED
    BY <2>1, <2>2 DEF PktTyped
<1>8. ASSUME NEW g \in Visitors, RemoveFile(g) PROVE PktTyped'
  <2>1. pid_file' = NoFile /\ UNCHANGED <<capture, interface>>
    BY <1>8 DEF RemoveFile, system
  <2>2. CASE Returns(g, "remove")
    BY <2>1, <2>2, ReturnsTyped DEF PktTyped
  <2>3. CASE VisitMoves(g, "remove", "start") /\ UNCHANGED <<pids, children, todo>>
    BY <2>1, <2>3 DEF PktTyped, VisitMoves
  <2> QED
    BY <1>8, <2>2, <2>3 DEF RemoveFile
<1>9. CASE Restart
  BY <1>9 DEF Restart, system, PktTyped
<1>10. CASE UNCHANGED pktVars
  BY <1>10 DEF pktVars, PktTyped
<1> QED
  BY <1>1, <1>2, <1>3, <1>4, <1>5, <1>6, <1>7, <1>8, <1>9, <1>10 DEF PktNext

\* Two pages that have met, and a page that has left processes, stay so.
LEMMA PktOrderlyBefore ==
    ASSUME [PktNext]_pktVars, PktOrderly'
    PROVE  PktOrderly
<1>1. ASSUME UNCHANGED <<stray, met>> PROVE PktOrderly
  BY <1>1 DEF PktOrderly
<1>2. ASSUME NEW p \in Pids, TcpdumpStarts(p) \/ CaptureEnds(p) PROVE UNCHANGED <<stray, met>>
  BY <1>2 DEF TcpdumpStarts, CaptureEnds, pktGhosts
<1>3. ASSUME NEW g \in Visitors,
             CallsStartPackets(g) \/ CallsStopPackets(g) \/ CallsStatus(g)
      PROVE  PktOrderly
  <2>1. UNCHANGED stray /\ Meets(g)
    BY <1>3 DEF CallsStartPackets, CallsStopPackets, CallsStatus
  <2>2. ~stray' /\ ~met'
    BY DEF PktOrderly
  <2> QED
    BY <2>1, <2>2, Zenon DEF PktOrderly, Meets
<1>4. ASSUME NEW g \in Visitors, SpawnFails(g) PROVE PktOrderly
  BY <1>4 DEF SpawnFails, PktOrderly
<1>5. CASE Restart
  <2>1. UNCHANGED met /\ stray' = (stray \/ \E g \in Visitors : step[g] = "spawn")
    BY <1>5 DEF Restart
  <2>2. ~stray' /\ ~met'
    BY DEF PktOrderly
  <2> QED
    BY <2>1, <2>2, Zenon DEF PktOrderly
<1>6. ASSUME NEW g \in Visitors,
             \/ ListActive(g) \/ ReadPids(g) \/ Spawn(g) \/ WritePids(g) \/ FindChildren(g)
             \/ Kill(g) \/ RemoveFile(g) \/ ClearIfGone(g)
      PROVE  UNCHANGED <<stray, met>>
  BY <1>6 DEF ListActive, ReadPids, Spawn, WritePids, FindChildren, Kill, RemoveFile, ClearIfGone,
              pktGhosts
<1>7. CASE UNCHANGED pktVars
  BY <1>1, <1>7 DEF pktVars
<1> QED
  BY <1>1, <1>2, <1>3, <1>4, <1>5, <1>6, <1>7 DEF PktNext

\* A page begins, and no other is at it.
LEMMA BeginsAlone ==
    ASSUME PktTyped, OneVisitor, PktOrderly', NEW g \in Visitors, Meets(g),
           step[g] = "idle", NEW to, step' = [step EXCEPT ![g] = to]
    PROVE  /\ OneVisitor' /\ step'[g] = to
           /\ \A h \in Visitors : step[h] = "idle"
           /\ \A h \in Visitors \ {g} : step'[h] = "idle"
<1>1. met' = (met \/ \E h \in Visitors \ {g} : step[h] # "idle") /\ ~met'
  BY DEF Meets, PktOrderly
<1>2. \A h \in Visitors \ {g} : step[h] = "idle"
  BY <1>1, Zenon
<1> QED
  BY <1>2 DEF PktTyped, OneVisitor

\* Captures that go on are as they were, or fewer.
Fewer == /\ Capturers' \subseteq Capturers
         /\ \A p \in Capturers' : /\ interface'[p] = interface[p]
                                  /\ capture[p] = "runs" => capture'[p] = "runs"

LEMMA FewerDistinct == ASSUME Distinct, Fewer PROVE Distinct'
BY DEF Distinct, Fewer

LEMMA CapturesHeld ==
    ASSUME PktTyped, PktHeld, NEW p \in Pids, TcpdumpStarts(p) \/ CaptureEnds(p)
    PROVE  PktHeld'
<1>1. UNCHANGED <<pid_file, step, pids, children, todo, hasty>>
  BY DEF TcpdumpStarts, CaptureEnds, pktGhosts
<1>2. Fewer
  BY DEF TcpdumpStarts, CaptureEnds, Fewer, Capturers, PktTyped
<1>3. OneVisitor' /\ Distinct' /\ Fresh'
  BY <1>1, <1>2, FewerDistinct DEF PktHeld, OneVisitor, Fresh, Fewer
<1>4. (Listed => Listed') /\ (Known => Known')
  BY <1>1, <1>2 DEF Listed, Known, Fewer, InFile
<1> QED
  BY <1>1, <1>3, <1>4 DEF PktHeld

LEMMA CallsHeld ==
    ASSUME PktAssumption, PktTyped, PktHeld, PktOrderly', NEW g \in Visitors,
           CallsStartPackets(g) \/ CallsStopPackets(g) \/ CallsStatus(g)
    PROVE  PktHeld'
<1>1. PICK to \in {"start", "stop", "status"} :
         /\ step[g] = "idle" /\ step' = [step EXCEPT ![g] = to] /\ Meets(g)
         /\ to # "start" => pid_file # NoFile /\ pids' = [pids EXCEPT ![g] = pid_file]
  BY DEF CallsStartPackets, CallsStopPackets, CallsStatus, VisitMoves
<1>2. UNCHANGED <<pid_file, capture, interface, children, hasty>>
  BY DEF CallsStartPackets, CallsStopPackets, CallsStatus, system
<1>3. /\ OneVisitor' /\ step'[g] = to
      /\ \A h \in Visitors : step[h] = "idle"
      /\ \A h \in Visitors \ {g} : step'[h] = "idle"
  BY <1>1, BeginsAlone DEF PktHeld
<1>4. Capturers' = Capturers /\ InFile' = InFile
  BY <1>2 DEF Capturers, InFile
<1>5. Distinct' /\ Fresh'
  BY <1>2, <1>3, <1>4 DEF PktHeld, Distinct, Fresh
<1>6. Listed => Capturers \subseteq InFile
  BY <1>3 DEF Listed
<1>7. Listed => Listed'
  BY <1>4, <1>6 DEF Listed
<1>8. to # "start" => pids'[g] = InFile
  BY <1>1, FileTyped DEF PktTyped
<1>9. Listed => Known'
  BY <1>3, <1>4, <1>6, <1>8 DEF Known
<1> QED
  BY <1>2, <1>3, <1>5, <1>7, <1>9 DEF PktHeld

\* A page goes on, and keeps what it has read and what the others know.
LEMMA SameCaptures ==
    ASSUME PktTyped, PktHeld, NEW g \in Visitors, step[g] # "idle",
           NEW to, step' = [step EXCEPT ![g] = to]
    PROVE  /\ OneVisitor' /\ step'[g] = to
           /\ \A h \in Visitors \ {g} : step[h] = "idle" /\ step'[h] = "idle"
BY DEF PktTyped, PktHeld, OneVisitor

\* A page returns or goes on to look for what is captured.
LEMMA ToRestHeld ==
    ASSUME PktTyped, PktHeld, NEW g \in Visitors, step[g] # "idle",
           NEW to \in {"idle", "start"}, step' = [step EXCEPT ![g] = to],
           UNCHANGED <<capture, interface, hasty>>,
           ~hasty => Capturers \subseteq InFile'
    PROVE  PktHeld'
<1>1. /\ OneVisitor' /\ step'[g] = to
      /\ \A h \in Visitors \ {g} : step[h] = "idle" /\ step'[h] = "idle"
  BY SameCaptures
<1>2. Capturers' = Capturers
  BY DEF Capturers
<1>3. Distinct' /\ Fresh'
  BY <1>1, <1>2 DEF PktHeld, Distinct, Fresh
<1>4. ~hasty => Listed' /\ Known'
  BY <1>1, <1>2 DEF Listed, Known
<1> QED
  BY <1>1, <1>3, <1>4 DEF PktHeld

\* As long as no page is about to start processes, all are in the file.
LEMMA AllInFile ==
    ASSUME PktHeld, NEW g \in Visitors, step[g] \notin {"idle", "spawn"}
    PROVE  ~hasty => Capturers \subseteq InFile
BY DEF PktHeld, OneVisitor, Listed

LEMMA ListHeld ==
    ASSUME PktTyped, PktHeld, NEW g \in Visitors, ListActive(g)
    PROVE  PktHeld'
<1>1. UNCHANGED <<pid_file, capture, interface, hasty>> /\ InFile' = InFile
  BY DEF ListActive, system, pktGhosts, InFile
<1>2. step[g] = "start"
  BY DEF ListActive, Returns, VisitMoves
<1>3. CASE Returns(g, "start")
  <2>1. step' = [step EXCEPT ![g] = "idle"]
    BY <1>3 DEF Returns, VisitMoves
  <2> QED
    BY <1>1, <1>2, <2>1, AllInFile, ToRestHeld
<1>4. ASSUME NEW active \in Active, VisitMoves(g, "start", "read"),
             todo' = [todo EXCEPT ![g] = @ \ active], UNCHANGED <<pids, children>>
      PROVE  PktHeld'
  <2>1. /\ OneVisitor' /\ step'[g] = "read"
        /\ \A h \in Visitors \ {g} : step[h] = "idle" /\ step'[h] = "idle"
    BY <1>2, <1>4, SameCaptures DEF VisitMoves
  <2>2. Capturers' = Capturers
    BY <1>1 DEF Capturers
  <2>3. \A p \in Capturers : p \in Existing /\ interface[p] \in Captured
    BY DEF Capturers, Captured, Existing
  <2>4. \A p \in Capturers : interface[p] \in active
    BY <1>4, <2>3 DEF Active
  <2>5. todo'[g] = todo[g] \ active
    BY <1>4 DEF PktTyped
  <2>6. Distinct' /\ Fresh'
    BY <1>1, <2>1, <2>2, <2>4, <2>5 DEF PktHeld, Distinct, Fresh
  <2>7. ~hasty => Listed' /\ Known'
    BY <1>1, <1>2, <2>1, <2>2, AllInFile DEF Listed, Known
  <2> QED
    BY <1>1, <2>1, <2>6, <2>7 DEF PktHeld
<1> QED
  BY <1>3, <1>4 DEF ListActive

LEMMA ReadHeld ==
    ASSUME PktTyped, PktHeld, NEW g \in Visitors, ReadPids(g)
    PROVE  PktHeld'
<1>1. /\ step[g] = "read" /\ step' = [step EXCEPT ![g] = "spawn"]
      /\ pids' = [pids EXCEPT ![g] = InFile]
      /\ UNCHANGED <<pid_file, capture, interface, children, todo, hasty>>
  BY DEF ReadPids, VisitMoves, system, pktGhosts
<1>2. /\ OneVisitor' /\ step'[g] = "spawn"
      /\ \A h \in Visitors \ {g} : step[h] = "idle" /\ step'[h] = "idle"
  BY <1>1, SameCaptures
<1>3. Capturers' = Capturers /\ pids'[g] = InFile /\ InFile' = InFile
  BY <1>1 DEF Capturers, PktTyped, InFile
<1>4. Distinct' /\ Fresh'
  BY <1>1, <1>2, <1>3 DEF PktHeld, Distinct, Fresh
<1>5. ~hasty => Listed' /\ Known'
  BY <1>1, <1>2, <1>3, AllInFile DEF Listed, Known
<1> QED
  BY <1>1, <1>2, <1>4, <1>5 DEF PktHeld

LEMMA SpawnHeld ==
    ASSUME PktTyped, PktHeld, NEW g \in Visitors, Spawn(g)
    PROVE  PktHeld'
<1>1. step[g] = "spawn" /\ UNCHANGED <<pid_file, step, children, hasty>>
  BY DEF Spawn, pktGhosts
<1>2. PICK i \in todo[g], p \in Pids :
         /\ capture[p] = "gone" /\ capture' = [capture EXCEPT ![p] = "sudo"]
         /\ interface' = [interface EXCEPT ![p] = i]
         /\ pids' = [pids EXCEPT ![g] = @ \cup {p}]
         /\ todo' = [todo EXCEPT ![g] = @ \ {i}]
  BY DEF Spawn
<1>3. /\ Capturers' = Capturers \cup {p} /\ p \notin Capturers /\ interface'[p] = i
      /\ \A q \in Capturers : interface'[q] = interface[q]
  BY <1>2 DEF PktTyped, Capturers
<1>4. /\ pids'[g] = pids[g] \cup {p} /\ todo'[g] = todo[g] \ {i}
      /\ \A h \in Visitors \ {g} : step[h] = "idle"
  BY <1>1, <1>2 DEF PktTyped, PktHeld, OneVisitor
<1>5. \A q \in Capturers : interface[q] \notin todo[g]
  BY <1>1 DEF PktHeld, Fresh
<1>6. OneVisitor' /\ Distinct' /\ Fresh'
  BY <1>1, <1>2, <1>3, <1>4, <1>5 DEF PktHeld, OneVisitor, Distinct, Fresh
<1>7. ~hasty => \A q \in Capturers' : q \in pids'[g]
  BY <1>1, <1>3, <1>4 DEF PktHeld, Known
<1>8. ~hasty => Listed' /\ Known'
  BY <1>1, <1>4, <1>7 DEF Listed, Known
<1> QED
  BY <1>1, <1>6, <1>8 DEF PktHeld

\* The file is written, cleared or removed, and the page returns, or begins
\* again with what it has to start.
LEMMA FileHeld ==
    ASSUME PktAssumption, PktTyped, PktHeld, NEW g \in Visitors,
           WritePids(g) \/ ClearIfGone(g) \/ RemoveFile(g)
    PROVE  PktHeld'
<1>1. UNCHANGED <<capture, interface, hasty>>
  BY DEF WritePids, ClearIfGone, RemoveFile, system, pktGhosts
<1>2. PICK to \in {"idle", "start"} :
         step[g] \in {"spawn", "status", "remove"} /\ step' = [step EXCEPT ![g] = to]
  BY DEF WritePids, ClearIfGone, RemoveFile, Returns, VisitMoves
<1>3. ~hasty => Capturers \subseteq InFile'
  <2>1. CASE WritePids(g)
    <3>1. step[g] = "spawn" /\ pid_file' = pids[g]
      BY <2>1 DEF WritePids, Returns, VisitMoves
    <3>2. InFile' = pids[g]
      BY <3>1 DEF InFile, PktAssumption, PktTyped
    <3> QED
      BY <3>1, <3>2 DEF PktHeld, Known
  <2>2. CASE ClearIfGone(g)
    <3>1. /\ step[g] = "status"
          /\ pid_file' = IF pids[g] \cap Existing # {} THEN pid_file ELSE NoFile
      BY <2>2 DEF ClearIfGone, Returns, VisitMoves
    <3>2. Capturers \subseteq Existing
      BY DEF Capturers, Existing
    <3>3. ~hasty => Capturers \subseteq pids[g] /\ Capturers \subseteq InFile
      BY <3>1, AllInFile DEF PktHeld, Known
    <3>4. CASE pids[g] \cap Existing # {}
      BY <3>1, <3>3, <3>4 DEF InFile
    <3>5. CASE pids[g] \cap Existing = {}
      BY <3>2, <3>3, <3>5
    <3> QED
      BY <3>4, <3>5
  <2>3. CASE RemoveFile(g)
    <3>1. step[g] = "remove"
      BY <2>3 DEF RemoveFile, Returns, VisitMoves
    <3> QED
      BY <3>1 DEF PktHeld, Known
  <2> QED
    BY <2>1, <2>2, <2>3
<1> QED
  BY <1>1, <1>2, <1>3, ToRestHeld

LEMMA FindHeld ==
    ASSUME PktTyped, PktHeld, NEW g \in Visitors, FindChildren(g)
    PROVE  PktHeld'
<1>1. /\ step[g] = "stop" /\ step' = [step EXCEPT ![g] = "kill"]
      /\ UNCHANGED <<pid_file, capture, interface, pids>>
      /\ children' = [children EXCEPT ![g] = {p \in pids[g] : capture[p] = "runs"}]
  BY DEF FindChildren, VisitMoves, system
<1>2. hasty' = (hasty \/ \E p \in pids[g] : capture[p] = "sudo")
  BY DEF FindChildren
<1>3. /\ OneVisitor' /\ step'[g] = "kill"
      /\ \A h \in Visitors \ {g} : step[h] = "idle" /\ step'[h] = "idle"
  BY <1>1, SameCaptures
<1>4. Capturers' = Capturers /\ InFile' = InFile
      /\ children'[g] = {p \in pids[g] : capture[p] = "runs"}
  BY <1>1 DEF Capturers, PktTyped, InFile
<1>5. Distinct' /\ Fresh'
  BY <1>1, <1>3, <1>4 DEF PktHeld, Distinct, Fresh
<1>6. ~hasty' => ~hasty /\ \A p \in pids[g] : capture[p] # "sudo"
  BY <1>2, Zenon
<1>7. ~hasty' => Capturers \subseteq InFile /\ Capturers \subseteq pids[g]
  BY <1>1, <1>6, AllInFile DEF PktHeld, Known
<1>8. ~hasty' => \A p \in Capturers : p \in children'[g] /\ capture'[p] = "runs"
  BY <1>1, <1>4, <1>6, <1>7 DEF Capturers
<1>9. ~hasty' => Listed' /\ Known'
  BY <1>3, <1>4, <1>7, <1>8 DEF Listed, Known
<1> QED
  BY <1>3, <1>5, <1>9 DEF PktHeld

LEMMA KillHeld ==
    ASSUME PktTyped, PktHeld, NEW g \in Visitors, Kill(g)
    PROVE  PktHeld'
<1>1. /\ step[g] = "kill" /\ step' = [step EXCEPT ![g] = "remove"]
      /\ UNCHANGED <<pid_file, interface, pids, children, hasty>>
  BY DEF Kill, VisitMoves, pktGhosts
<1>2. PICK signalled \in {{}, pids[g]} :
         capture' = [p \in Pids |->
                       IF (p \in children[g] /\ capture[p] = "runs")
                          \/ (p \in signalled /\ capture[p] \in {"sudo", "runs"})
                       THEN "dying" ELSE capture[p]]
  BY DEF Kill
<1>3. \A p \in Pids : /\ capture'[p] \in {"dying", capture[p]}
                      /\ p \in children[g] /\ capture[p] = "runs" => capture'[p] = "dying"
  BY <1>2
<1>4. Fewer
  BY <1>1, <1>3 DEF Fewer, Capturers
<1>5. /\ OneVisitor' /\ step'[g] = "remove"
      /\ \A h \in Visitors \ {g} : step[h] = "idle" /\ step'[h] = "idle"
  BY <1>1, SameCaptures
<1>6. Distinct' /\ Fresh'
  BY <1>4, <1>5, FewerDistinct DEF PktHeld, Fresh
<1>7. ~hasty => Capturers' = {}
  BY <1>1, <1>3 DEF PktHeld, Known, Capturers
<1>8. ~hasty => Listed' /\ Known'
  BY <1>7 DEF Listed, Known
<1> QED
  BY <1>1, <1>5, <1>6, <1>8 DEF PktHeld

LEMMA RestartHeld ==
    ASSUME PktTyped, PktHeld, Restart, PktOrderly'
    PROVE  PktHeld'
<1>1. /\ step' = [g \in Visitors |-> "idle"]
      /\ stray' = (stray \/ \E g \in Visitors : step[g] = "spawn") /\ ~stray'
      /\ UNCHANGED <<pid_file, capture, interface, hasty>>
  BY DEF Restart, system, PktOrderly
<1>2. \A g \in Visitors : step[g] # "spawn"
  BY <1>1, Zenon
<1>3. Capturers' = Capturers /\ InFile' = InFile
  BY <1>1 DEF Capturers, InFile
<1>4. OneVisitor' /\ Distinct' /\ Fresh'
  BY <1>1, <1>3 DEF PktHeld, OneVisitor, Distinct, Fresh
<1>5. ~hasty => Listed' /\ Known'
  BY <1>1, <1>2, <1>3 DEF PktHeld, Listed, Known
<1> QED
  BY <1>1, <1>4, <1>5 DEF PktHeld

LEMMA PktKeeps ==
    ASSUME PktAssumption, PktInv, [PktNext]_pktVars
    PROVE  PktInv'
<1>1. PktTyped /\ PktTyped'
  BY PktTypedStep DEF PktInv
<1>2. ASSUME PktOrderly' PROVE PktHeld'
  <2>1. PktOrderly /\ PktHeld
    BY <1>2, PktOrderlyBefore DEF PktInv
  <2>2. ASSUME NEW p \in Pids, TcpdumpStarts(p) \/ CaptureEnds(p) PROVE PktHeld'
    BY <1>1, <2>1, <2>2, CapturesHeld
  <2>3. ASSUME NEW g \in Visitors,
               CallsStartPackets(g) \/ CallsStopPackets(g) \/ CallsStatus(g)
        PROVE  PktHeld'
    BY <1>1, <1>2, <2>1, <2>3, CallsHeld
  <2>4. ASSUME NEW g \in Visitors, ListActive(g) \/ ReadPids(g) \/ Spawn(g) PROVE PktHeld'
    BY <1>1, <2>1, <2>4, ListHeld, ReadHeld, SpawnHeld
  <2>5. ASSUME NEW g \in Visitors, SpawnFails(g) PROVE PktHeld'
    BY <1>2, <2>5 DEF SpawnFails, PktOrderly
  <2>6. ASSUME NEW g \in Visitors, WritePids(g) \/ ClearIfGone(g) \/ RemoveFile(g)
        PROVE  PktHeld'
    BY <1>1, <2>1, <2>6, FileHeld
  <2>7. ASSUME NEW g \in Visitors, FindChildren(g) \/ Kill(g) PROVE PktHeld'
    BY <1>1, <2>1, <2>7, FindHeld, KillHeld
  <2>8. CASE Restart
    BY <1>1, <1>2, <2>1, <2>8, RestartHeld
  <2>9. CASE UNCHANGED pktVars
    BY <2>1, <2>9 DEF pktVars, PktHeld, OneVisitor, Distinct, Fresh, Listed, Known, Capturers,
       InFile
  <2> QED
    BY <2>2, <2>3, <2>4, <2>5, <2>6, <2>7, <2>8, <2>9 DEF PktNext
<1> QED
  BY <1>1, <1>2 DEF PktInv

\* A capture that goes on can be stopped and no interface is captured twice,
\* for any number of interfaces and processes, whenever a capture ends and the
\* web server restarts, as long as one page at a time is at it.
THEOREM CapturesListed == ASSUME PktAssumption PROVE PktSpec => []PktListed
<1>1. PktInv => PktListed
  BY DEF PktInv, PktHeld, PktListed, Listed, Distinct
<1>2. PktInv /\ [PktNext]_pktVars => PktInv'
  BY PktKeeps
<1> QED
  BY PktInitially, <1>1, <1>2, PTL DEF PktSpec
=============================================================================
