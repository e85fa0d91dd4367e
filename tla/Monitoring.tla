------------------------------ MODULE Monitoring ------------------------------
(***************************************************************************)
(* The monitor of the web server (webserver/monitoring.py) and the capture *)
(* of process variables (webserver/pv_capture.py).                         *)
(*                                                                         *)
(* start_monitor() sets a flag and reads all variables over Modbus in the  *)
(* thread of the page that called it; at its end modbus_monitor() creates  *)
(* a timer that calls it again, as long as the flag is set.                *)
(*                                                                         *)
(* A capture is a worker thread that fetches the page /monitor-update from *)
(* its own web server and writes what it shows to a file.  Pages are       *)
(* served by threads of their own (app.run(threaded=True)), and each of    *)
(* these threads may be interrupted between reading and writing a flag.    *)
(***************************************************************************)
EXTENDS Integers, FiniteSets

CONSTANTS
    Browsers,  \* threads that serve the pages of a user, one page at a time
    Workers,   \* capture threads; one request of each is served at a time
    Timers     \* timer threads there may be at a time

MonThreads == Browsers \cup Workers \cup Timers

VARIABLES
    monitor_active,
    active_capture,
    at,        \* where each thread is in the functions of monitoring.py and
               \* pv_capture.py; of a worker: the thread that serves its page
    worker,    \* where each worker is in capture_process_variables()
    signedIn,  \* whether the web server accepted its password
    failed     \* whether reading the variables has ever raised an exception

monVars == <<monitor_active, active_capture, at, worker, signedIn, failed>>

captureVars == <<active_capture, worker, signedIn>>
monitor == <<monitor_active, failed>>

MonInit ==
    /\ monitor_active = FALSE /\ active_capture = FALSE
    /\ at = [x \in MonThreads |-> "idle"]
    /\ worker = [w \in Workers |-> "none"]
    /\ signedIn = [w \in Workers |-> FALSE]
    /\ failed = FALSE

\* The threads that are in modbus_monitor() or will be.
Reading == {x \in MonThreads : at[x] \in {"found", "read"}}
Capturing == {w \in Workers : worker[w] # "none"}

MonStep(x, from, to) == at[x] = from /\ at' = [at EXCEPT ![x] = to]

-----------------------------------------------------------------------------
\* start_monitor(), modbus_monitor(), stop_monitor()

\* A page calls start_monitor(); a thread that has found the flag clear goes
\* on to set it.  There is a timer thread for each of these pages.
CallsStart(x, from) ==
    /\ at[x] = from
    /\ monitor_active \/ Cardinality(Reading) < Cardinality(Timers)
    /\ at' = [at EXCEPT ![x] = IF monitor_active THEN "idle" ELSE "found"]
    /\ UNCHANGED <<monitor_active, failed, captureVars>>

\* Faulty: the client is created, the flag is left.
SetForgotten(x) ==
    /\ MonStep(x, "found", "read")
    /\ UNCHANGED <<monitor, captureVars>>

\* The flag is set, the client is created, and the first round begins.
SetActive(x) ==
    /\ MonStep(x, "found", "read")
    /\ monitor_active' = TRUE
    /\ UNCHANGED <<failed, captureVars>>

\* The client raises an exception, or its answer is an error and has no value.
ReadFails(x) ==
    /\ MonStep(x, "read", "idle")
    /\ failed' = TRUE
    /\ UNCHANGED <<monitor_active, captureVars>>

\* Faulty: a timer calls modbus_monitor() once and creates no other.
NextOnce(x) ==
    /\ at[x] = "read"
    /\ IF ~monitor_active \/ x \in Timers THEN at' = [at EXCEPT ![x] = "idle"]
       ELSE \E t \in Timers :
               /\ at[t] = "idle" /\ t = CHOOSE u \in Timers : at[u] = "idle"
               /\ at' = [at EXCEPT ![x] = "idle", ![t] = "read"]
    /\ UNCHANGED <<monitor, captureVars>>

\* Faulty: the next round is started without the test of the flag.
NextRegardless(x) ==
    /\ at[x] = "read"
    /\ \E t \in Timers :
          /\ IF x \in Timers THEN t = x
             ELSE at[t] = "idle" /\ t = CHOOSE u \in Timers : at[u] = "idle"
          /\ at' = [at EXCEPT ![x] = "idle", ![t] = "read"]
    /\ UNCHANGED <<monitor, captureVars>>

\* The variables are read.  if (monitor_active == True):
\* threading.Timer(0.5, modbus_monitor).start(): the timer waits, then reads.
NextRound(x) ==
    /\ at[x] = "read"
    /\ IF ~monitor_active THEN at' = [at EXCEPT ![x] = "idle"]
       ELSE \E t \in Timers :
               /\ IF x \in Timers THEN t = x
                  ELSE at[t] = "idle" /\ t = CHOOSE u \in Timers : at[u] = "idle"
               /\ at' = [at EXCEPT ![x] = "idle", ![t] = "read"]
    /\ UNCHANGED <<monitor, captureVars>>

\* The other pages call stop_monitor(): the test, then the assignment.
CallsStop(x, from) ==
    /\ at[x] = from
    /\ at' = [at EXCEPT ![x] = IF monitor_active THEN "stop" ELSE "idle"]
    /\ UNCHANGED <<monitor, captureVars>>

ClearActive(x) ==
    /\ MonStep(x, "stop", "idle")
    /\ monitor_active' = FALSE
    /\ UNCHANGED <<failed, captureVars>>

-----------------------------------------------------------------------------
\* start_capture(), stop_capture()

CallsStartCapture(b) ==
    /\ at[b] = "idle"
    /\ Capturing # Workers
    /\ at' = [at EXCEPT ![b] = IF active_capture THEN "idle" ELSE "launch"]
    /\ UNCHANGED <<monitor, captureVars>>

\* The flag is set, then the thread is started; what the flag is set to in
\* between comes to the same as right after.
LaunchWorker(b) ==
    /\ MonStep(b, "launch", "idle")
    /\ active_capture' = TRUE
    /\ \E w \in Workers :
          /\ worker[w] = "none" /\ w = CHOOSE v \in Workers : worker[v] = "none"
          /\ worker' = [worker EXCEPT ![w] = "login"]
    /\ UNCHANGED <<signedIn, monitor>>

CallsStopCapture(b) ==
    /\ at[b] = "idle"
    /\ at' = [at EXCEPT ![b] = IF active_capture THEN "end" ELSE "idle"]
    /\ UNCHANGED <<monitor, captureVars>>

EndCapture(b) ==
    /\ MonStep(b, "end", "idle")
    /\ active_capture' = FALSE
    /\ UNCHANGED <<worker, signedIn, monitor>>

-----------------------------------------------------------------------------
\* capture_process_variables()

Work(w, from, to) == worker[w] = from /\ worker' = [worker EXCEPT ![w] = to]

\* The login sends the session on to the dashboard, which stops the monitor.
LogsIn(w) ==
    /\ Work(w, "login", "wait")
    /\ at[w] = "idle"
    /\ at' = [at EXCEPT ![w] = "dashboard"]
    /\ signedIn' = [signedIn EXCEPT ![w] = TRUE]
    /\ UNCHANGED <<active_capture, monitor>>

\* A wrong password is answered with a page, too.
WrongPassword(w) ==
    /\ Work(w, "login", "loop")
    /\ signedIn' = [signedIn EXCEPT ![w] = FALSE]
    /\ UNCHANGED <<active_capture, at, monitor>>

\* The web server cannot be reached or takes too long.
LoginFails(w) ==
    /\ worker[w] = "login" \/ (worker[w] = "wait" /\ at[w] \in {"dashboard", "stop"})
    /\ worker' = [worker EXCEPT ![w] = "finally"]
    /\ UNCHANGED <<active_capture, signedIn, at, monitor>>

\* Faulty: the capture goes on whatever the flag is.
CaptureOn(w) ==
    /\ worker[w] = "loop"
    /\ IF ~signedIn[w] THEN UNCHANGED <<worker, at>>
       ELSE /\ at[w] = "idle"
            /\ Work(w, "loop", "wait")
            /\ at' = [at EXCEPT ![w] = "update"]
    /\ UNCHANGED <<active_capture, signedIn, monitor>>

\* while active_capture: session.get(monitor_url)
TestCapture(w) ==
    /\ worker[w] = "loop"
    /\ IF ~active_capture THEN Work(w, "loop", "finally") /\ UNCHANGED at
       ELSE IF ~signedIn[w] THEN UNCHANGED <<worker, at>>
       ELSE /\ at[w] = "idle"
            /\ Work(w, "loop", "wait")
            /\ at' = [at EXCEPT ![w] = "update"]
    /\ UNCHANGED <<active_capture, signedIn, monitor>>

\* The page is served, and a line is written if it could be.
Answered(w) ==
    /\ Work(w, "wait", "loop")
    /\ at[w] = "idle"
    /\ UNCHANGED <<active_capture, signedIn, at, monitor>>

\* It takes longer than the timeout; its thread goes on.
TimesOut(w) ==
    /\ Work(w, "wait", "loop")
    /\ at[w] \in {"update", "found", "read"}
    /\ UNCHANGED <<active_capture, signedIn, at, monitor>>

\* Faulty: the flag is left as it is.
FinallyKept(w) ==
    /\ Work(w, "finally", "none")
    /\ UNCHANGED <<active_capture, signedIn, at, monitor>>

\* finally: active_capture = False
Finally(w) ==
    /\ Work(w, "finally", "none")
    /\ active_capture' = FALSE
    /\ UNCHANGED <<signedIn, at, monitor>>

-----------------------------------------------------------------------------
\* What a user does, and what the threads do by themselves.
UserActs(b) ==
    \/ CallsStart(b, "idle") \/ CallsStop(b, "idle")
    \/ CallsStartCapture(b) \/ CallsStopCapture(b)

\* x is in a page, or a timer.
ThreadRuns(x) ==
    \/ CallsStart(x, "update") \/ SetActive(x) \/ NextRound(x)
    \/ CallsStop(x, "dashboard") \/ ClearActive(x)
    \/ x \in Browsers /\ (LaunchWorker(x) \/ EndCapture(x))

WorkerRuns(w) ==
    \/ LogsIn(w) \/ WrongPassword(w) \/ TestCapture(w)
    \/ Answered(w) \/ TimesOut(w) \/ Finally(w)

MonNext ==
    \/ \E b \in Browsers : UserActs(b)
    \/ \E x \in MonThreads : ThreadRuns(x) \/ ReadFails(x)
    \/ \E w \in Workers : WorkerRuns(w) \/ LoginFails(w)

\* Threads and timers run; reads and requests end, in a timeout if need be.
MonFairness ==
    /\ \A x \in MonThreads : WF_monVars(ThreadRuns(x))
    /\ \A w \in Workers : WF_monVars(WorkerRuns(w))

MonSpec == MonInit /\ [][MonNext]_monVars /\ MonFairness
-----------------------------------------------------------------------------
\* Properties.

\* Unless reading has failed, a monitor that is on is read by somebody: the
\* page that turned it on or a timer.  And a capture that is shown as running
\* has a worker, although the end of one capture clears the flag of the next.
MonAlive ==
    /\ monitor_active /\ ~failed => \E x \in MonThreads : at[x] = "read"
    /\ active_capture => Capturing # {}

\* Neither flag is tested and set in one step, and neither is tested by the
\* thread that waited meanwhile: a quick restart leaves a second chain of
\* timers behind, and two pages that find a flag clear start two chains or two
\* workers.  However many there are, all of them end once the monitor or the
\* capture stays off: none goes on with a flag of its own.
MonEnds ==
    /\ []<>(monitor_active \/ Reading = {})
    /\ []<>(active_capture \/ Capturing = {})

\* A capture that was let in turns the monitor on again and again, whichever
\* pages have stopped it, as long as no capture ends.
CapMonitors ==
    []<>(\/ monitor_active
         \/ \E w \in Workers : worker[w] = "finally"
         \/ \A w \in Workers : ~(signedIn[w] /\ worker[w] \in {"wait", "loop"}))
=============================================================================
