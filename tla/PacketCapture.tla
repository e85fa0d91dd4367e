----------------------------- MODULE PacketCapture -----------------------------
(***************************************************************************)
(* The packet captures of the web server (webserver/packet_capture.py).    *)
(* A capture is a process "sudo tcpdump -i interface", which starts the    *)
(* tcpdump proper as its child and goes on when the web server ends.  Only *)
(* a file with the numbers of the sudo processes tells the web server what *)
(* to stop; which interfaces are captured it reads from the list of all    *)
(* processes.  The file is read and written by pages with threads of their *)
(* own, without a lock.                                                    *)
(***************************************************************************)
EXTENDS Integers, FiniteSets

CONSTANTS
    Visitors,       \* threads that serve the page
    Pids,        \* processes there may be at a time
    Interfaces,
    NoFile

PktAssumption == \A s \in SUBSET Pids : NoFile # s

VARIABLES
    pid_file,   \* CAPTURE_PID_FILE: the numbers in it, or NoFile
    capture,    \* what each process does: "sudo" until it has its tcpdump,
                \* "runs", "dying" when that has been killed, "defunct"
    interface,  \* what it captures, if it exists
    step,       \* where each page is
    pids,       \* the numbers it has read or will write
    children,   \* of stop_capture(): those whose tcpdump it has found
    todo,       \* the interfaces it has yet to start, or to start again
    stray,      \* whether a page failed, or ended, before it wrote the file
    met,    \* whether two pages were at it at the same time
    hasty       \* whether a capture was stopped before it had its tcpdump

pktVars == <<pid_file, capture, interface, step, pids, children, todo,
             stray, met, hasty>>

system == <<capture, interface>>
pktGhosts == <<stray, met, hasty>>

PktInit ==
    /\ pid_file = NoFile
    /\ capture = [p \in Pids |-> "gone"]
    /\ interface = [p \in Pids |-> CHOOSE i \in Interfaces : TRUE]
    /\ step = [g \in Visitors |-> "idle"]
    /\ pids = [g \in Visitors |-> {}] /\ children = [g \in Visitors |-> {}]
    /\ todo = [g \in Visitors |-> {}]
    /\ stray = FALSE /\ met = FALSE /\ hasty = FALSE

Existing == {p \in Pids : capture[p] # "gone"}
InFile == IF pid_file = NoFile THEN {} ELSE pid_file

\* What get_active_interfaces() may return: the interfaces in the list of all
\* processes; or if there are none and a process of the file is left, those of
\* the capture files that are new enough.
Captured == {interface[p] : p \in {q \in Existing : capture[q] # "defunct"}}
Active == IF Captured = {} /\ InFile \cap Existing # {} THEN SUBSET Interfaces
          ELSE {Captured}

VisitMoves(g, from, to) == step[g] = from /\ step' = [step EXCEPT ![g] = to]

\* The page is left, and its variables with it.
Returns(g, from) ==
    /\ VisitMoves(g, from, "idle")
    /\ pids' = [pids EXCEPT ![g] = {}]
    /\ children' = [children EXCEPT ![g] = {}]
    /\ todo' = [todo EXCEPT ![g] = {}]

Meets(g) == met' = (met \/ \E h \in Visitors \ {g} : step[h] # "idle")

-----------------------------------------------------------------------------
\* The processes.

TcpdumpStarts(p) ==
    /\ capture[p] = "sudo"
    /\ capture' = [capture EXCEPT ![p] = "runs"]
    /\ UNCHANGED <<pid_file, interface, step, pids, children, todo, pktGhosts>>

\* It has been killed, or ends by itself.  A child of the web server is left
\* in the list of processes until the web server asks for it, which it does
\* when it starts another process.
CaptureEnds(p) ==
    /\ capture[p] # "gone"
    /\ \E end \in {"defunct", "gone"} :
          /\ capture[p] = "defunct" => end = "gone"
          /\ capture' = [capture EXCEPT ![p] = end]
    /\ interface' = [interface EXCEPT ![p] = CHOOSE i \in Interfaces : TRUE]
    /\ UNCHANGED <<pid_file, step, pids, children, todo, pktGhosts>>

-----------------------------------------------------------------------------
\* start_capture()

CallsStartPackets(g) ==
    /\ VisitMoves(g, "idle", "start")
    /\ \E s \in SUBSET Interfaces : s # {} /\ todo' = [todo EXCEPT ![g] = s]
    /\ Meets(g)
    /\ UNCHANGED <<pid_file, system, pids, children, stray, hasty>>

\* Faulty: what is captured already is started once more.
ListAll(g) ==
    /\ VisitMoves(g, "start", "read")
    /\ UNCHANGED <<pid_file, system, pids, children, todo, pktGhosts>>

\* Those interfaces that are not captured already.
ListActive(g) ==
    /\ \E active \in Active :
          IF todo[g] \subseteq active THEN Returns(g, "start")
          ELSE /\ VisitMoves(g, "start", "read")
               /\ todo' = [todo EXCEPT ![g] = @ \ active]
               /\ UNCHANGED <<pids, children>>
    /\ UNCHANGED <<pid_file, system, pktGhosts>>

ReadPids(g) ==
    /\ VisitMoves(g, "read", "spawn")
    /\ pids' = [pids EXCEPT ![g] = InFile]
    /\ UNCHANGED <<pid_file, system, children, todo, pktGhosts>>

\* subprocess.Popen(cmd, start_new_session=True); numbers come round again.
Spawn(g) ==
    /\ step[g] = "spawn"
    /\ \E i \in todo[g], p \in Pids :
          /\ capture[p] = "gone" /\ \A q \in Pids : capture[q] = "gone" => p =< q
          /\ capture' = [capture EXCEPT ![p] = "sudo"]
          /\ interface' = [interface EXCEPT ![p] = i]
          /\ pids' = [pids EXCEPT ![g] = @ \cup {p}]
          /\ todo' = [todo EXCEPT ![g] = @ \ {i}]
    /\ UNCHANGED <<pid_file, step, children, pktGhosts>>

\* It raises an exception: the page returns without writing the file.
SpawnFails(g) ==
    /\ todo[g] # {}
    /\ Returns(g, "spawn")
    /\ stray' = TRUE
    /\ UNCHANGED <<pid_file, system, met, hasty>>

WritePids(g) ==
    /\ todo[g] = {}
    /\ Returns(g, "spawn")
    /\ pid_file' = pids[g]
    /\ UNCHANGED <<system, pktGhosts>>

-----------------------------------------------------------------------------
\* stop_capture(), of all interfaces or of some

\* Without a file there is nothing to stop.
CallsStopPackets(g) ==
    /\ VisitMoves(g, "idle", "stop")
    /\ pid_file # NoFile
    /\ pids' = [pids EXCEPT ![g] = pid_file]
    /\ \E s \in SUBSET Interfaces : todo' = [todo EXCEPT ![g] = s]
    /\ Meets(g)
    /\ UNCHANGED <<pid_file, system, children, stray, hasty>>

\* ps --ppid; some interfaces are to be stopped, or all.
FindChildren(g) ==
    /\ VisitMoves(g, "stop", "kill")
    /\ children' = [children EXCEPT ![g] = {p \in pids[g] : capture[p] = "runs"}]
    /\ \E active \in Active : todo' = [todo EXCEPT ![g] = @ \cap active]
    /\ hasty' = (hasty \/ \E p \in pids[g] : capture[p] = "sudo")
    /\ UNCHANGED <<pid_file, system, pids, stray, met>>

\* The tcpdump processes are killed with sudo, and their parents end with them;
\* the signal to the sudo processes is refused unless root runs the web server.
Kill(g) ==
    /\ VisitMoves(g, "kill", "remove")
    /\ \E signalled \in {{}, pids[g]} :
          capture' = [p \in Pids |->
                        IF (p \in children[g] /\ capture[p] = "runs")
                           \/ (p \in signalled /\ capture[p] \in {"sudo", "runs"})
                        THEN "dying" ELSE capture[p]]
    /\ UNCHANGED <<pid_file, interface, pids, children, todo, pktGhosts>>

\* os.remove(CAPTURE_PID_FILE); the interfaces to keep are started again.  It
\* raises an exception if another page has removed the file.
RemoveFile(g) ==
    /\ pid_file' = NoFile
    /\ IF pid_file = NoFile \/ todo[g] = {} THEN Returns(g, "remove")
       ELSE VisitMoves(g, "remove", "start") /\ UNCHANGED <<pids, children, todo>>
    /\ UNCHANGED <<system, pktGhosts>>

-----------------------------------------------------------------------------
\* get_capture_status()

CallsStatus(g) ==
    /\ pid_file # NoFile
    /\ VisitMoves(g, "idle", "status")
    /\ pids' = [pids EXCEPT ![g] = pid_file]
    /\ Meets(g)
    /\ UNCHANGED <<pid_file, system, children, todo, stray, hasty>>

\* Faulty: one process that is gone is enough.
ClearIfOneGone(g) ==
    /\ Returns(g, "status")
    /\ pid_file' = IF pids[g] \subseteq Existing THEN pid_file ELSE NoFile
    /\ UNCHANGED <<system, pktGhosts>>

\* The file is removed if none of its processes exists.
ClearIfGone(g) ==
    /\ Returns(g, "status")
    /\ pid_file' = IF pids[g] \cap Existing # {} THEN pid_file ELSE NoFile
    /\ UNCHANGED <<system, pktGhosts>>

\* The web server ends and is started again: the captures and the file stay.
Restart ==
    /\ \E g \in Visitors : step[g] # "idle"
    /\ step' = [g \in Visitors |-> "idle"]
    /\ pids' = [g \in Visitors |-> {}] /\ children' = [g \in Visitors |-> {}]
    /\ todo' = [g \in Visitors |-> {}]
    /\ stray' = (stray \/ \E g \in Visitors : step[g] = "spawn")
    /\ UNCHANGED <<pid_file, system, met, hasty>>

PktNext ==
    \/ \E p \in Pids : TcpdumpStarts(p) \/ CaptureEnds(p)
    \/ \E g \in Visitors :
          \/ CallsStartPackets(g) \/ ListActive(g) \/ ReadPids(g) \/ Spawn(g)
          \/ SpawnFails(g) \/ WritePids(g)
          \/ CallsStopPackets(g) \/ FindChildren(g) \/ Kill(g) \/ RemoveFile(g)
          \/ CallsStatus(g) \/ ClearIfGone(g)
    \/ Restart

PktSpec == PktInit /\ [][PktNext]_pktVars
-----------------------------------------------------------------------------
\* Properties.
PktOrderly == ~stray /\ ~met

Capturers == {p \in Pids : capture[p] \in {"sudo", "runs"}}

\* A capture that goes on can be stopped: its number is in the file, or in the
\* hands of a page that will write it there.  And no interface is captured
\* twice.
PktListed ==
    PktOrderly => \A p \in Capturers :
        /\ hasty \/ p \in InFile \/ \E g \in Visitors : step[g] = "spawn" /\ p \in pids[g]
        /\ \A q \in Capturers : interface[p] = interface[q] => p = q
=============================================================================
