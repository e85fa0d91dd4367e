--------------------------- MODULE ScanCycle_proof ---------------------------
(***************************************************************************)
(* Proofs about ScanCycle, for every set of registers, values, threads and *)
(* requests.                                                               *)
(***************************************************************************)
EXTENDS ScanCycleRefinement, WellFoundedInduction, TLAPS

USE DEF Clients, Threads, Image, Inputs, Holding, Addr

\* Any request a client thread may hold brings data that registers can take.
LEMMA DataFits ==
    ASSUME TypeOK, NEW c \in Clients, NEW a \in req[c].regs,
           req[c].op = "write", a \in Valid(req[c])
    PROVE  a \in Addr /\ req[c].data[a] \in Values
<1>1. a \in Holding
  BY DEF Valid
<1>2. req[c] \in Requests \cup Commands \cup {ReadAll, NoRequest}
  BY DEF TypeOK
<1>3. req[c] \in Requests \cup Commands
  BY <1>2 DEF ReadAll, NoRequest
<1> QED
  BY <1>1, <1>3, RequestsAssumption

LEMMA InitTypeOK == Init => TypeOK
  BY AddrAssumption, ValuesAssumption, ThreadsAssumption
     DEF Init, TypeOK, Blank, MainLabels, ClientLabels, PollerLabels

\* The steps of the scan keep every variable in its type.
LEMMA MainTypeOK == TypeOK /\ MainStep => TypeOK'
<1> SUFFICES ASSUME TypeOK, MainStep PROVE TypeOK'
  OBVIOUS
<1> USE AddrAssumption, ValuesAssumption, ThreadsAssumption
    DEF TypeOK, locks, mbVars, cliVars, flags, MainLabels, ClientLabels, PollerLabels,
        Goto, Begin, LockBuffer, LockIo, UnlockBuffer, UnlockIo, Iterate, LoopEnds, Blank
<1>1. CASE StartScan
  BY <1>1 DEF StartScan
<1>2. CASE LeaveLoop
  BY <1>2 DEF LeaveLoop
<1>3. CASE LockForInput
  BY <1>3 DEF LockForInput
<1>4. CASE ReadPin
  BY <1>4 DEF ReadPin
<1>5. CASE UnlockAfterInput
  BY <1>5 DEF UnlockAfterInput
<1>6. CASE LockForProgram
  BY <1>6 DEF LockForProgram
<1>7. CASE LockForSlaveInput
  BY <1>7 DEF LockForSlaveInput
<1>8. CASE CopySlaveInput
  BY <1>8 DEF CopySlaveInput
<1>9. CASE UnlockAfterSlaveInput
  BY <1>9 DEF UnlockAfterSlaveInput
<1>10. CASE ProgramReads
  BY <1>10 DEF ProgramReads
<1>11. CASE ProgramComputes
  BY <1>11 DEF ProgramComputes
<1>12. CASE ProgramWrites
  <2>1. PICK a \in Driven : image' = [image EXCEPT ![a] = Program[seen][a]]
    BY <1>12 DEF ProgramWrites
  <2>2. Program[seen] \in [Driven -> Values]
    BY ONLY ValuesAssumption, seen \in Image
  <2>3. image' \in Image
    BY <2>1, <2>2 DEF Image
  <2> QED
    BY <1>12, <2>3 DEF ProgramWrites
<1>13. CASE ProgramEnds
  BY <1>13 DEF ProgramEnds
<1>14. CASE LockForSlaveOutput
  BY <1>14 DEF LockForSlaveOutput
<1>15. CASE CopySlaveOutput
  BY <1>15 DEF CopySlaveOutput
<1>16. CASE UnlockAfterSlaveOutput
  BY <1>16 DEF UnlockAfterSlaveOutput
<1>17. CASE UnlockAfterProgram
  BY <1>17 DEF UnlockAfterProgram
<1>18. CASE LockForOutput
  BY <1>18 DEF LockForOutput
<1>19. CASE WritePin
  BY <1>19, SMTT(20) DEF WritePin
<1>20. CASE UnlockAfterOutput
  BY <1>20, SMTT(20) DEF UnlockAfterOutput
<1>21. CASE JoinInteractive
  BY <1>21 DEF JoinInteractive
<1>22. CASE DisableOutput
  BY <1>22 DEF DisableOutput
<1>23. CASE OutputsDisabled
  BY <1>23 DEF OutputsDisabled
<1> QED
  BY <1>1, <1>2, <1>3, <1>4, <1>5, <1>6, <1>7, <1>8, <1>9, <1>10, <1>11, <1>12, <1>13, <1>14, <1>15, <1>16, <1>17, <1>18, <1>19, <1>20, <1>21, <1>22, <1>23 DEF MainStep

\* So do the steps of a client thread ...
LEMMA ClientTypeOK == ASSUME NEW c \in Clients, TypeOK, ClientStep(c) PROVE TypeOK'
<1> USE AddrAssumption, ValuesAssumption, ThreadsAssumption
    DEF TypeOK, locks, mbVars, cliVars, flags, MainLabels, ClientLabels, PollerLabels,
        Goto, Begin, LockBuffer, LockIo, UnlockBuffer, UnlockIo, Iterate, LoopEnds, Blank
<1>1. CASE CheckRunning(c)
  BY <1>1 DEF CheckRunning
<1>2. CASE Receive(c)
  BY <1>2 DEF Receive, Accepts
<1>3. CASE Refuse(c)
  BY <1>3 DEF Refuse
<1>4. CASE Disconnect(c)
  BY <1>4 DEF Disconnect
<1>5. CASE Dnp3Shutdown(c)
  BY <1>5 DEF Dnp3Shutdown
<1>6. CASE LockForRequest(c)
  <2>1. req[c].regs \subseteq Nat
    BY RequestsAssumption DEF ReadAll, NoRequest
  <2> QED
    BY <1>6, <2>1 DEF LockForRequest
<1>7. CASE ReadWord(c)
  <2>1. PICK a \in req[c].regs :
           reply' = IF a \in Valid(req[c]) THEN [reply EXCEPT ![c][a] = image[a]] ELSE reply
    BY <1>7 DEF ReadWord
  <2>2. a \in Valid(req[c]) => image[a] \in Values
    BY DEF Valid
  <2>3. reply' \in [Clients -> Image]
    BY <2>1, <2>2
  <2>4. todo' \in [Threads -> SUBSET Nat]
    BY <1>7 DEF ReadWord
  <2>5. UNCHANGED <<image, locks, pc, seen, hwOut, mbVars, req, flags>>
    BY <1>7 DEF ReadWord
  <2> QED
    BY <2>3, <2>4, <2>5
<1>8. CASE StoreWord(c) /\ (UNCHANGED locks \/ UnlockBuffer)
  <2>1. PICK a \in req[c].regs :
           /\ req[c].op = "write"
           /\ image' = IF a \in Valid(req[c]) THEN [image EXCEPT ![a] = req[c].data[a]]
                       ELSE image
    BY <1>8 DEF StoreWord
  <2>2. image' \in Image
    BY <2>1, DataFits
  <2> QED
    BY <1>8, <2>2 DEF StoreWord
<1>9. CASE Reply(c)
  BY <1>9 DEF Reply
<1>10. CASE PcccWriteReply(c)
  BY <1>10 DEF PcccWriteReply
<1>11. CASE OperateOutOfRange(c)
  BY <1>11 DEF OperateOutOfRange
<1> QED
  BY <1>1, <1>2, <1>3, <1>4, <1>5, <1>6, <1>7, <1>8, <1>9, <1>10, <1>11
     DEF ClientStep, Serve, WriteWord, PcccWriteWord

\* ... and of the poller.
LEMMA PollerTypeOK == ASSUME NEW p \in Poller, TypeOK, PollerStep(p) PROVE TypeOK'
<1> USE AddrAssumption, ValuesAssumption, ThreadsAssumption
    DEF TypeOK, locks, mbVars, cliVars, flags, MainLabels, ClientLabels, PollerLabels,
        Goto, Begin, LockBuffer, LockIo, UnlockBuffer, UnlockIo, Iterate, LoopEnds, Blank
<1>1. CASE PollRead(p)
  BY <1>1 DEF PollRead
<1>2. CASE LockForStore(p)
  BY <1>2 DEF LockForStore
<1>3. CASE StoreResponse(p)
  BY <1>3 DEF StoreResponse
<1>4. CASE UnlockAfterStore(p)
  BY <1>4 DEF UnlockAfterStore
<1>5. CASE LockForFetch(p)
  BY <1>5 DEF LockForFetch
<1>6. CASE FetchOutput(p)
  BY <1>6 DEF FetchOutput
<1>7. CASE UnlockAfterFetch(p)
  BY <1>7 DEF UnlockAfterFetch
<1> QED
  BY <1>1, <1>2, <1>3, <1>4, <1>5, <1>6, <1>7 DEF PollerStep

LEMMA NextTypeOK == TypeOK /\ [Next]_vars => TypeOK'
<1> SUFFICES ASSUME TypeOK, [Next]_vars PROVE TypeOK'
  OBVIOUS
<1>1. CASE MainStep
  BY <1>1, MainTypeOK
<1>2. CASE \E c \in Clients : ClientStep(c)
  BY <1>2, ClientTypeOK
<1>3. CASE \E p \in Poller : PollerStep(p)
  BY <1>3, PollerTypeOK
<1>4. CASE StopServers \/ StopPlc
  BY <1>4 DEF StopServers, StopPlc, TypeOK, locks, mbVars, cliVars
<1>5. CASE UNCHANGED vars
  BY <1>5 DEF vars, TypeOK, locks, mbVars, cliVars, flags
<1> QED
  BY <1>1, <1>2, <1>3, <1>4, <1>5 DEF Next, Running, Terminated

\* Every variable keeps its type, whatever the threads, registers and
\* requests are.
THEOREM TypeCorrect == Spec => []TypeOK
  BY InitTypeOK, NextTypeOK, PTL DEF Spec

-----------------------------------------------------------------------------
(***************************************************************************)
(* Frames: what a step of each kind of thread leaves alone.                *)
(***************************************************************************)
SteppedOnly(t) ==
    \A u \in Threads \ {t} : pc'[u] = pc[u] /\ todo'[u] = todo[u]

LEMMA MainFrame ==
    ASSUME TypeOK, MainStep
    PROVE  /\ SteppedOnly(Main)
           /\ UNCHANGED <<inBuf, resp, frame, cliVars, flags>>
           /\ image' # image => pc[Main] \in {"in", "mbin", "drive", "disable"}
           /\ outBuf' # outBuf => pc[Main] = "mbout"
<1> USE ThreadsAssumption DEF TypeOK, SteppedOnly, locks, mbVars, cliVars, flags,
    Goto, Begin, LockBuffer, LockIo, UnlockBuffer, UnlockIo, Iterate, LoopEnds
<1>1. CASE StartScan
  BY <1>1 DEF StartScan
<1>2. CASE LeaveLoop
  BY <1>2 DEF LeaveLoop
<1>3. CASE LockForInput
  BY <1>3 DEF LockForInput
<1>4. CASE ReadPin
  BY <1>4 DEF ReadPin
<1>5. CASE UnlockAfterInput
  BY <1>5 DEF UnlockAfterInput
<1>6. CASE LockForProgram
  BY <1>6 DEF LockForProgram
<1>7. CASE LockForSlaveInput
  BY <1>7 DEF LockForSlaveInput
<1>8. CASE CopySlaveInput
  BY <1>8 DEF CopySlaveInput
<1>9. CASE UnlockAfterSlaveInput
  BY <1>9 DEF UnlockAfterSlaveInput
<1>10. CASE ProgramReads
  BY <1>10 DEF ProgramReads
<1>11. CASE ProgramComputes
  BY <1>11 DEF ProgramComputes
<1>12. CASE ProgramWrites
  BY <1>12 DEF ProgramWrites
<1>13. CASE ProgramEnds
  BY <1>13 DEF ProgramEnds
<1>14. CASE LockForSlaveOutput
  BY <1>14 DEF LockForSlaveOutput
<1>15. CASE CopySlaveOutput
  BY <1>15 DEF CopySlaveOutput
<1>16. CASE UnlockAfterSlaveOutput
  BY <1>16 DEF UnlockAfterSlaveOutput
<1>17. CASE UnlockAfterProgram
  BY <1>17 DEF UnlockAfterProgram
<1>18. CASE LockForOutput
  BY <1>18 DEF LockForOutput
<1>19. CASE WritePin
  BY <1>19 DEF WritePin
<1>20. CASE UnlockAfterOutput
  BY <1>20 DEF UnlockAfterOutput
<1>21. CASE JoinInteractive
  BY <1>21 DEF JoinInteractive
<1>22. CASE DisableOutput
  BY <1>22 DEF DisableOutput
<1>23. CASE OutputsDisabled
  BY <1>23 DEF OutputsDisabled
<1> QED
  BY <1>1, <1>2, <1>3, <1>4, <1>5, <1>6, <1>7, <1>8, <1>9, <1>10, <1>11, <1>12, <1>13, <1>14, <1>15, <1>16, <1>17, <1>18, <1>19, <1>20, <1>21, <1>22, <1>23 DEF MainStep

LEMMA ClientFrame ==
    ASSUME NEW c \in Clients, TypeOK, ClientStep(c)
    PROVE  /\ SteppedOnly(c)
           /\ UNCHANGED <<seen, hwOut, mbVars, flags>>
           /\ \A d \in Clients \ {c} : req'[d] = req[d] /\ reply'[d] = reply[d]
           /\ image' # image => pc[c] = "serving"
<1> USE ThreadsAssumption DEF TypeOK, SteppedOnly, locks, mbVars, cliVars, flags,
    Goto, Begin, LockBuffer, LockIo, UnlockBuffer, UnlockIo, Iterate, LoopEnds
<1>1. CASE CheckRunning(c)
  BY <1>1 DEF CheckRunning
<1>2. CASE Receive(c)
  BY <1>2 DEF Receive
<1>3. CASE Refuse(c)
  BY <1>3 DEF Refuse
<1>4. CASE Disconnect(c)
  BY <1>4 DEF Disconnect
<1>5. CASE Dnp3Shutdown(c)
  BY <1>5 DEF Dnp3Shutdown
<1>6. CASE LockForRequest(c)
  BY <1>6 DEF LockForRequest
<1>7. CASE ReadWord(c)
  BY <1>7 DEF ReadWord
<1>8. CASE WriteWord(c)
  BY <1>8 DEF WriteWord, StoreWord
<1>9. CASE PcccWriteWord(c)
  BY <1>9 DEF PcccWriteWord, StoreWord
<1>10. CASE Reply(c)
  BY <1>10 DEF Reply
<1>11. CASE PcccWriteReply(c)
  BY <1>11 DEF PcccWriteReply
<1>12. CASE OperateOutOfRange(c)
  BY <1>12 DEF OperateOutOfRange
<1> QED
  BY <1>1, <1>2, <1>3, <1>4, <1>5, <1>6, <1>7, <1>8, <1>9, <1>10, <1>11, <1>12 DEF ClientStep, Serve

\* Who stores a register has not unlocked.
LEMMA ClientHolds ==
    ASSUME NEW c \in Clients, TypeOK, ClientStep(c), image' # image
    PROVE  InBufferSection(c) /\ todo[c] # {}
<1>1. StoreWord(c)
  BY DEF ClientStep, Serve, CheckRunning, Receive, Refuse, Disconnect, Dnp3Shutdown,
         LockForRequest, ReadWord, WriteWord, PcccWriteWord, Reply, PcccWriteReply,
         OperateOutOfRange
<1> QED
  BY <1>1 DEF StoreWord, Iterate, InBufferSection

LEMMA PollerFrame ==
    ASSUME NEW p \in Poller, TypeOK, PollerStep(p)
    PROVE  /\ SteppedOnly(p)
           /\ UNCHANGED <<image, seen, hwOut, outBuf, cliVars, flags>>
           /\ inBuf' # inBuf => pc[p] = "store"
<1> USE ThreadsAssumption DEF TypeOK, SteppedOnly, locks, mbVars, cliVars, flags,
    Goto, Begin, LockBuffer, LockIo, UnlockBuffer, UnlockIo, Iterate, LoopEnds
<1>1. CASE PollRead(p)
  BY <1>1 DEF PollRead
<1>2. CASE LockForStore(p)
  BY <1>2 DEF LockForStore
<1>3. CASE StoreResponse(p)
  BY <1>3 DEF StoreResponse
<1>4. CASE UnlockAfterStore(p)
  BY <1>4 DEF UnlockAfterStore
<1>5. CASE LockForFetch(p)
  BY <1>5 DEF LockForFetch
<1>6. CASE FetchOutput(p)
  BY <1>6 DEF FetchOutput
<1>7. CASE UnlockAfterFetch(p)
  BY <1>7 DEF UnlockAfterFetch
<1> QED
  BY <1>1, <1>2, <1>3, <1>4, <1>5, <1>6, <1>7 DEF PollerStep

-----------------------------------------------------------------------------
(***************************************************************************)
(* Mutual exclusion.  Pccc_WriteRegister() unlocks in its loop, so what    *)
(* follows is proved for runtimes whose EtherNet/IP clients write one      *)
(* word at a time.                                                         *)
(***************************************************************************)
Short(r) == r.op = "write" => \E a : r.regs \subseteq {a}

PcccShortWrites == Pccc = {} \/ \A r \in Requests : Short(r)

\* A PCCC handler then holds a short request, and every handler's loop is over
\* registers that its request names.
Requested ==
    /\ \A c \in Pccc : Short(req[c])
    /\ \A c \in Clients : pc[c] = "serving" => todo[c] \subseteq req[c].regs

LEMMA RequestedStep ==
    ASSUME PcccShortWrites, TypeOK, Requested, [Next]_vars
    PROVE  Requested'
<1> USE ThreadsAssumption
<1>1. CASE MainStep
  BY <1>1, MainFrame DEF Requested, SteppedOnly, cliVars
<1>2. CASE \E c \in Clients : ClientStep(c)
  <2> PICK c \in Clients : ClientStep(c)
    BY <1>2
  <2>1. \A d \in Clients \ {c} : pc'[d] = pc[d] /\ todo'[d] = todo[d] /\ req'[d] = req[d]
    BY ClientFrame DEF SteppedOnly
  <2>2. c \in Pccc => Short(req'[c])
    <3>1. CASE Receive(c)
      <4>1. PICK r \in Accepts(c) : req' = [req EXCEPT ![c] = r]
        BY <3>1 DEF Receive
      <4>2. c \in Pccc => r \in Requests
        BY <4>1 DEF Accepts
      <4> QED
        BY <4>1, <4>2 DEF PcccShortWrites, TypeOK
    <3>2. CASE ~Receive(c)
      <4>1. req' = req
        BY <3>2 DEF ClientStep, Serve, cliVars, StoreWord, PcccWriteWord, PcccWriteReply,
           CheckRunning, Refuse, Disconnect, Dnp3Shutdown, LockForRequest, ReadWord,
           WriteWord, Reply, OperateOutOfRange
      <4> QED
        BY <4>1 DEF Requested
    <3> QED
      BY <3>1, <3>2
  <2>3. pc'[c] = "serving" => todo'[c] \subseteq req'[c].regs
    <3> USE DEF TypeOK, Goto, Begin, LockBuffer, LockIo, Iterate, LoopEnds, cliVars, Requested
    <3>1. CASE LockForRequest(c)
      BY <3>1 DEF LockForRequest
    <3>2. CASE ReadWord(c)
      BY <3>2 DEF ReadWord
    <3>3. CASE StoreWord(c)
      BY <3>3 DEF StoreWord
    <3>4. pc'[c] = "serving" => LockForRequest(c) \/ ReadWord(c) \/ StoreWord(c)
      BY DEF ClientStep, Serve, CheckRunning, Receive, Refuse, Disconnect, Dnp3Shutdown,
             WriteWord, PcccWriteWord, Reply, PcccWriteReply, OperateOutOfRange
    <3> QED
      BY <3>1, <3>2, <3>3, <3>4
  <2> QED
    BY <2>1, <2>2, <2>3 DEF Requested
<1>3. CASE \E p \in Poller : PollerStep(p)
  BY <1>3, PollerFrame DEF Requested, SteppedOnly, cliVars
<1>4. CASE StopServers \/ StopPlc \/ UNCHANGED vars
  BY <1>4 DEF StopServers, StopPlc, vars, cliVars, Requested
<1> QED
  BY <1>1, <1>2, <1>3, <1>4 DEF Next, Running, Terminated

\* The one word of a PCCC write is stored with the lock, and unlocks.
LEMMA PcccLastWord ==
    ASSUME TypeOK, Requested, NEW c \in Clients, PcccWriteWord(c)
    PROVE  InBufferSection(c) /\ todo'[c] = {} /\ ~InBufferSection(c)'
<1>1. PICK a \in req[c].regs :
         /\ pc[c] = "serving" /\ req[c].op = "write" /\ todo[c] # {}
         /\ todo' = [todo EXCEPT ![c] = @ \ {a}]
         /\ UNCHANGED <<pc, req>>
  BY DEF PcccWriteWord, StoreWord, Iterate, cliVars
<1>2. todo'[c] = {}
  <2>1. PICK b : req[c].regs \subseteq {b}
    BY <1>1 DEF PcccWriteWord, Requested, Short
  <2>2. todo[c] \subseteq {a}
    BY <1>1, <2>1 DEF Requested
  <2> QED
    BY <1>1, <2>2 DEF TypeOK
<1> QED
  BY <1>1, <1>2, ThreadsAssumption DEF PcccWriteWord, InBufferSection

\* A step of any thread leaves every critical section to its lock's owner.
LEMMA LockOwnershipStep ==
    ASSUME TypeOK, Requested, LockOwnership, [Next]_vars
    PROVE  LockOwnership'
<1> USE ThreadsAssumption
    DEF LockOwnership, InBufferSection, InIoSection, TypeOK, Requested, locks, cliVars,
        Goto, Begin, LockBuffer, LockIo, UnlockBuffer, UnlockIo, Iterate, LoopEnds
<1>1. CASE MainStep
  <2>1. CASE StartScan
    BY <2>1 DEF StartScan
  <2>2. CASE LeaveLoop
    BY <2>2 DEF LeaveLoop
  <2>3. CASE LockForInput
    BY <2>3 DEF LockForInput
  <2>4. CASE ReadPin
    BY <2>4 DEF ReadPin
  <2>5. CASE UnlockAfterInput
    BY <2>5 DEF UnlockAfterInput
  <2>6. CASE LockForProgram
    BY <2>6 DEF LockForProgram
  <2>7. CASE LockForSlaveInput
    BY <2>7 DEF LockForSlaveInput
  <2>8. CASE CopySlaveInput
    BY <2>8 DEF CopySlaveInput
  <2>9. CASE UnlockAfterSlaveInput
    BY <2>9 DEF UnlockAfterSlaveInput
  <2>10. CASE ProgramReads
    BY <2>10 DEF ProgramReads
  <2>11. CASE ProgramComputes
    BY <2>11 DEF ProgramComputes
  <2>12. CASE ProgramWrites
    BY <2>12 DEF ProgramWrites
  <2>13. CASE ProgramEnds
    BY <2>13 DEF ProgramEnds
  <2>14. CASE LockForSlaveOutput
    BY <2>14 DEF LockForSlaveOutput
  <2>15. CASE CopySlaveOutput
    BY <2>15 DEF CopySlaveOutput
  <2>16. CASE UnlockAfterSlaveOutput
    BY <2>16 DEF UnlockAfterSlaveOutput
  <2>17. CASE UnlockAfterProgram
    BY <2>17 DEF UnlockAfterProgram
  <2>18. CASE LockForOutput
    BY <2>18 DEF LockForOutput
  <2>19. CASE WritePin
    BY <2>19 DEF WritePin
  <2>20. CASE UnlockAfterOutput
    BY <2>20 DEF UnlockAfterOutput
  <2>21. CASE JoinInteractive
    BY <2>21 DEF JoinInteractive
  <2>22. CASE DisableOutput
    BY <2>22 DEF DisableOutput
  <2>23. CASE OutputsDisabled
    BY <2>23 DEF OutputsDisabled
  <2> QED
    BY <1>1, <2>1, <2>2, <2>3, <2>4, <2>5, <2>6, <2>7, <2>8, <2>9, <2>10, <2>11, <2>12, <2>13, <2>14, <2>15, <2>16, <2>17, <2>18, <2>19, <2>20, <2>21, <2>22, <2>23 DEF MainStep
<1>2. CASE \E c \in Clients : ClientStep(c)
  <2> PICK c \in Clients : ClientStep(c)
    BY <1>2
  <2>1. CASE CheckRunning(c)
    BY <2>1 DEF CheckRunning
  <2>2. CASE Receive(c)
    BY <2>2 DEF Receive
  <2>3. CASE Refuse(c)
    BY <2>3 DEF Refuse
  <2>4. CASE Disconnect(c)
    BY <2>4 DEF Disconnect
  <2>5. CASE Dnp3Shutdown(c)
    BY <2>5 DEF Dnp3Shutdown
  <2>6. CASE LockForRequest(c)
    BY <2>6 DEF LockForRequest
  <2>7. CASE ReadWord(c)
    BY <2>7 DEF ReadWord
  <2>8. CASE WriteWord(c)
    BY <2>8 DEF WriteWord, StoreWord
  <2>9. CASE Reply(c)
    BY <2>9 DEF Reply
  <2>10. CASE OperateOutOfRange(c)
    BY <2>10 DEF OperateOutOfRange
  <2>11. CASE PcccWriteReply(c)
    BY <2>11 DEF PcccWriteReply
  <2>12. CASE PcccWriteWord(c)
    <3>1. todo'[c] = {} /\ bufferLock = c
      BY <2>12, PcccLastWord DEF LockOwnership
    <3> QED
      BY <2>12, <3>1 DEF PcccWriteWord, StoreWord
  <2> QED
    BY <2>1, <2>2, <2>3, <2>4, <2>5, <2>6, <2>7, <2>8, <2>9, <2>10, <2>11, <2>12 DEF ClientStep, Serve
<1>3. CASE \E p \in Poller : PollerStep(p)
  <2> PICK p \in Poller : PollerStep(p)
    BY <1>3
  <2>1. CASE PollRead(p)
    BY <2>1 DEF PollRead
  <2>2. CASE LockForStore(p)
    BY <2>2 DEF LockForStore
  <2>3. CASE StoreResponse(p)
    BY <2>3 DEF StoreResponse
  <2>4. CASE UnlockAfterStore(p)
    BY <2>4 DEF UnlockAfterStore
  <2>5. CASE LockForFetch(p)
    BY <2>5 DEF LockForFetch
  <2>6. CASE FetchOutput(p)
    BY <2>6 DEF FetchOutput
  <2>7. CASE UnlockAfterFetch(p)
    BY <2>7 DEF UnlockAfterFetch
  <2> QED
    BY <2>1, <2>2, <2>3, <2>4, <2>5, <2>6, <2>7 DEF PollerStep
<1>4. CASE StopServers \/ StopPlc \/ UNCHANGED vars
  BY <1>4 DEF StopServers, StopPlc, vars
<1> QED
  BY <1>1, <1>2, <1>3, <1>4 DEF Next, Running, Terminated

\* Whoever is between the lock and the unlock of a mutex owns it: no two
\* threads are ever both in the image table, or both in the slave buffers.
THEOREM MutualExclusion == ASSUME PcccShortWrites PROVE Spec => []LockOwnership
<1>1. Init => TypeOK /\ Requested /\ LockOwnership
  BY InitTypeOK, ThreadsAssumption
     DEF Init, Requested, Short, NoRequest, LockOwnership, InBufferSection, InIoSection
<1>2. TypeOK /\ Requested /\ LockOwnership /\ [Next]_vars
        => (TypeOK /\ Requested /\ LockOwnership)'
  BY NextTypeOK, RequestedStep, LockOwnershipStep
<1> QED
  BY <1>1, <1>2, PTL DEF Spec

-----------------------------------------------------------------------------
(***************************************************************************)
(* Isolation.                                                              *)
(***************************************************************************)
\* Few actions of the scan lead to the labels at which it must see one image, or
\* one set of slave buffers.
LEMMA MainArrives ==
    ASSUME TypeOK, MainStep
    PROVE  /\ pc'[Main] = "run" => UnlockAfterSlaveInput \/ ProgramReads
           /\ pc'[Main] = "mbin" => LockForSlaveInput \/ CopySlaveInput
           /\ pc'[Main] = "mbout" => LockForSlaveOutput \/ CopySlaveOutput
           /\ pc'[Main] = "drive" => ProgramComputes \/ ProgramWrites
           /\ pc'[Main] = "mboutlock" => ProgramEnds
<1>0. Main \in Threads /\ pc = [t \in Threads |-> pc[t]]
  BY DEF TypeOK, Threads
<1>1. CASE StartScan \/ LeaveLoop \/ LockForInput \/ ReadPin \/ UnlockAfterInput \/ LockForProgram
  BY <1>0, <1>1 DEF Goto, Begin, LockBuffer, LockIo, Iterate, LoopEnds, StartScan,
       LeaveLoop, LockForInput, ReadPin, UnlockAfterInput, LockForProgram
<1>2. CASE LockForSlaveInput \/ CopySlaveInput \/ UnlockAfterSlaveInput
  BY <1>0, <1>2 DEF Goto, Begin, LockBuffer, LockIo, Iterate, LoopEnds, LockForSlaveInput,
       CopySlaveInput, UnlockAfterSlaveInput
<1>3. CASE ProgramReads \/ ProgramComputes \/ ProgramWrites \/ ProgramEnds
  BY <1>0, <1>3 DEF Goto, Begin, LockBuffer, LockIo, Iterate, LoopEnds, ProgramReads,
       ProgramComputes, ProgramWrites, ProgramEnds
<1>4. CASE LockForSlaveOutput \/ CopySlaveOutput \/ UnlockAfterSlaveOutput \/ UnlockAfterProgram
  BY <1>0, <1>4 DEF Goto, Begin, LockBuffer, LockIo, Iterate, LoopEnds,
       LockForSlaveOutput, CopySlaveOutput, UnlockAfterSlaveOutput, UnlockAfterProgram
<1>5. CASE LockForOutput \/ WritePin \/ UnlockAfterOutput
  BY <1>0, <1>5 DEF Goto, Begin, LockBuffer, LockIo, Iterate, LoopEnds, LockForOutput,
       WritePin, UnlockAfterOutput
<1>6. CASE JoinInteractive \/ DisableOutput \/ OutputsDisabled
  BY <1>0, <1>6 DEF Goto, Begin, LockBuffer, LockIo, Iterate, LoopEnds, JoinInteractive,
       DisableOutput, OutputsDisabled
<1> QED
  BY <1>1, <1>2, <1>3, <1>4, <1>5, <1>6 DEF MainStep

LEMMA ScanSnapshotStep ==
    ASSUME TypeOK, LockOwnership, ScanSnapshot, [Next]_vars
    PROVE  ScanSnapshot'
<1> SUFFICES ASSUME pc'[Main] = "run", NEW a \in Addr \ todo'[Main]
             PROVE  seen'[a] = image'[a]
  BY DEF ScanSnapshot
<1>1. CASE MainStep
  <2>1. CASE UnlockAfterSlaveInput
    BY <2>1 DEF UnlockAfterSlaveInput, Begin, TypeOK
  <2>2. CASE ProgramReads
    BY <2>2 DEF ProgramReads, Iterate, TypeOK, ScanSnapshot
  <2> QED
    BY <1>1, <2>1, <2>2, MainArrives
<1>2. CASE \E c \in Clients : ClientStep(c)
  <2> PICK c \in Clients : ClientStep(c)
    BY <1>2
  <2>1. pc[Main] = "run" /\ todo'[Main] = todo[Main] /\ seen' = seen
    BY ClientFrame, ThreadsAssumption DEF SteppedOnly
  <2>2. ~InBufferSection(c)
    BY <2>1, ThreadsAssumption DEF LockOwnership, InBufferSection
  <2> QED
    BY <2>1, <2>2, ClientHolds DEF ScanSnapshot
<1>3. CASE \E p \in Poller : PollerStep(p)
  BY <1>3, PollerFrame, ThreadsAssumption DEF SteppedOnly, ScanSnapshot
<1>4. CASE StopServers \/ StopPlc \/ UNCHANGED vars
  BY <1>4 DEF StopServers, StopPlc, vars, ScanSnapshot
<1> QED
  BY <1>1, <1>2, <1>3, <1>4 DEF Next, Running, Terminated

\* The program computes from one state of the image table, whatever the
\* clients write meanwhile.
THEOREM ScanIsolation == ASSUME PcccShortWrites PROVE Spec => []ScanSnapshot
<1>1. Init => ScanSnapshot
  BY ThreadsAssumption DEF Init, ScanSnapshot
<1>2. TypeOK /\ LockOwnership /\ ScanSnapshot /\ [Next]_vars => ScanSnapshot'
  BY ScanSnapshotStep
<1> QED
  BY <1>1, <1>2, TypeCorrect, MutualExclusion, PTL DEF Spec

-----------------------------------------------------------------------------
LEMMA SlaveBlockStep ==
    ASSUME TypeOK, LockOwnership, SlaveBlockAtomic, [Next]_vars
    PROVE  SlaveBlockAtomic'
<1> USE ThreadsAssumption DEF SlaveBlockAtomic
<1>1. CASE MainStep
  <2>1. ASSUME pc'[Main] = "mbin", NEW a \in SlaveIn \ todo'[Main]
        PROVE  image'[a] = inBuf'[a]
    <3>1. CASE LockForSlaveInput
      BY <2>1, <3>1 DEF LockForSlaveInput, LockIo, Begin, TypeOK
    <3>2. CASE CopySlaveInput
      BY <2>1, <3>2 DEF CopySlaveInput, Iterate, TypeOK, mbVars
    <3> QED
      BY <1>1, <2>1, <3>1, <3>2, MainArrives
  <2>2. ASSUME pc'[Main] = "mbout", NEW a \in SlaveOut \ todo'[Main]
        PROVE  outBuf'[a] = image'[a]
    <3>1. CASE LockForSlaveOutput
      BY <2>2, <3>1 DEF LockForSlaveOutput, LockIo, Begin, TypeOK
    <3>2. CASE CopySlaveOutput
      BY <2>2, <3>2 DEF CopySlaveOutput, Iterate, TypeOK
    <3> QED
      BY <1>1, <2>2, <3>1, <3>2, MainArrives
  <2>3. ASSUME NEW p \in Poller
        PROVE  /\ pc'[p] = "store" => \A a \in SlaveIn \ todo'[p] : inBuf'[a] = resp'[a]
               /\ pc'[p] = "fetch" => \A a \in SlaveOut \ todo'[p] : frame'[a] = outBuf'[a]
    <3>1. pc'[p] = pc[p] /\ todo'[p] = todo[p] /\ UNCHANGED <<inBuf, resp, frame>>
      BY <1>1, MainFrame DEF SteppedOnly
    <3>2. pc[p] = "fetch" => outBuf' = outBuf
      BY <1>1, MainFrame DEF LockOwnership, InIoSection
    <3> QED
      BY <3>1, <3>2
  <2> QED
    BY <2>1, <2>2, <2>3
<1>2. CASE \E c \in Clients : ClientStep(c)
  <2> PICK c \in Clients : ClientStep(c)
    BY <1>2
  <2>1. /\ pc'[Main] = pc[Main] /\ todo'[Main] = todo[Main]
        /\ \A p \in Poller : pc'[p] = pc[p] /\ todo'[p] = todo[p]
        /\ UNCHANGED <<inBuf, outBuf, resp, frame>>
    BY ClientFrame DEF SteppedOnly, mbVars
  <2>2. pc[Main] \in {"mbin", "mbout"} => image' = image
    BY ClientHolds DEF LockOwnership, InBufferSection
  <2> QED
    BY <2>1, <2>2
<1>3. CASE \E p \in Poller : PollerStep(p)
  <2> PICK p \in Poller : PollerStep(p)
    BY <1>3
  <2>1. pc'[Main] = pc[Main] /\ todo'[Main] = todo[Main] /\ UNCHANGED <<image, outBuf>>
    BY PollerFrame DEF SteppedOnly
  <2>2. pc[Main] = "mbin" => inBuf' = inBuf
    BY PollerFrame DEF LockOwnership, InIoSection
  <2>3. pc'[p] = "store" => \A a \in SlaveIn \ todo'[p] : inBuf'[a] = resp'[a]
    BY DEF PollerStep, PollRead, LockForStore, StoreResponse, UnlockAfterStore, LockForFetch,
           FetchOutput, UnlockAfterFetch, LockIo, Goto, Begin, Iterate, LoopEnds, TypeOK
  <2>4. pc'[p] = "fetch" => \A a \in SlaveOut \ todo'[p] : frame'[a] = outBuf'[a]
    BY DEF PollerStep, PollRead, LockForStore, StoreResponse, UnlockAfterStore, LockForFetch,
           FetchOutput, UnlockAfterFetch, LockIo, Goto, Begin, Iterate, LoopEnds, TypeOK
  <2> QED
    BY <2>1, <2>2, <2>3, <2>4, OnePoller
<1>4. CASE StopServers \/ StopPlc \/ UNCHANGED vars
  BY <1>4 DEF StopServers, StopPlc, vars, mbVars
<1> QED
  BY <1>1, <1>2, <1>3, <1>4 DEF Next, Running, Terminated

\* What is exchanged with the slaves is whole: one response in, the outputs of
\* one scan out.
THEOREM SlaveBlocksWhole == ASSUME PcccShortWrites PROVE Spec => []SlaveBlockAtomic
<1>1. Init => SlaveBlockAtomic
  BY ThreadsAssumption DEF Init, SlaveBlockAtomic
<1>2. TypeOK /\ LockOwnership /\ SlaveBlockAtomic /\ [Next]_vars => SlaveBlockAtomic'
  BY SlaveBlockStep
<1> QED
  BY <1>1, <1>2, TypeCorrect, MutualExclusion, PTL DEF Spec

-----------------------------------------------------------------------------
(***************************************************************************)
(* Atomicity of requests.  disableOutputs() takes no lock, so this is for  *)
(* a runtime that has not been told to quit.                               *)
(***************************************************************************)
NotQuitting ==
    /\ running /\ runPlc
    /\ pc[Main] \notin {"join", "disable", "lastoutlock", "lastout", "exit"}

LEMMA NotQuittingStep ==
    ASSUME ~MayQuit, TypeOK, NotQuitting, [Next]_vars
    PROVE  NotQuitting'
<1> USE ThreadsAssumption DEF NotQuitting
<1>1. CASE MainStep
  <2>1. UNCHANGED flags
    BY <1>1, MainFrame
  <2>2. ~LeaveLoop /\ ~JoinInteractive /\ ~DisableOutput /\ ~OutputsDisabled
    BY DEF LeaveLoop, JoinInteractive, DisableOutput, OutputsDisabled, Goto, Iterate, LoopEnds
  <2> USE DEF TypeOK, Goto, LockBuffer, LockIo, Iterate, LoopEnds
  <2>3. CASE LockForOutput \/ WritePin \/ UnlockAfterOutput
    BY <2>1, <2>3 DEF LockForOutput, WritePin, UnlockAfterOutput, flags
  <2>4. CASE StartScan \/ LockForInput \/ ReadPin \/ UnlockAfterInput \/ LockForProgram
    BY <2>1, <2>4 DEF StartScan, LockForInput, ReadPin, UnlockAfterInput, LockForProgram, flags
  <2>5. CASE LockForSlaveInput \/ CopySlaveInput \/ UnlockAfterSlaveInput \/ ProgramReads
               \/ ProgramComputes \/ ProgramWrites \/ ProgramEnds
    BY <2>1, <2>5 DEF LockForSlaveInput, CopySlaveInput, UnlockAfterSlaveInput, ProgramReads,
         ProgramComputes, ProgramWrites, ProgramEnds, flags
  <2>6. CASE LockForSlaveOutput \/ CopySlaveOutput \/ UnlockAfterSlaveOutput
               \/ UnlockAfterProgram
    BY <2>1, <2>6 DEF LockForSlaveOutput, CopySlaveOutput, UnlockAfterSlaveOutput,
         UnlockAfterProgram, flags
  <2> QED
    BY <1>1, <2>2, <2>3, <2>4, <2>5, <2>6 DEF MainStep
<1>2. CASE \E c \in Clients : ClientStep(c)
  BY <1>2, ClientFrame DEF SteppedOnly, flags
<1>3. CASE \E p \in Poller : PollerStep(p)
  BY <1>3, PollerFrame DEF SteppedOnly, flags
<1> QED
  BY <1>1, <1>2, <1>3 DEF Next, Running, Terminated, StopServers, StopPlc, vars, flags

\* A client at work on a request, seen from its own steps.
LEMMA ServingStep ==
    ASSUME TypeOK, Requested, NEW c \in Clients, ClientStep(c), RequestAtomic,
           InBufferSection(c)',
           NEW a \in (req'[c].regs \cap Valid(req'[c])) \ todo'[c]
    PROVE  image'[a] = IF req'[c].op = "read" THEN reply'[c][a] ELSE req'[c].data[a]
<1> USE DEF TypeOK, Goto, Begin, LockBuffer, LockIo, Iterate, LoopEnds
<1>1. LockForRequest(c) \/ ReadWord(c) \/ WriteWord(c)
  <2>1. pc'[c] = "serving" /\ ~PcccWriteWord(c)
    BY PcccLastWord, ThreadsAssumption DEF InBufferSection
  <2> QED
    BY <2>1 DEF ClientStep, Serve, CheckRunning, Receive, Refuse, Disconnect, Dnp3Shutdown,
         StoreWord, Reply, PcccWriteReply, OperateOutOfRange
<1>2. CASE LockForRequest(c)
  BY <1>2 DEF LockForRequest, cliVars
<1>3. CASE ReadWord(c)
  <2>0. InBufferSection(c)
    BY <1>3 DEF ReadWord, InBufferSection
  <2>1. PICK b \in req[c].regs :
           /\ pc[c] = "serving" /\ req[c].op = "read"
           /\ todo' = [todo EXCEPT ![c] = @ \ {b}]
           /\ reply' = IF b \in Valid(req[c]) THEN [reply EXCEPT ![c][b] = image[b]]
                       ELSE reply
    BY <1>3 DEF ReadWord
  <2>2. UNCHANGED <<image, req>>
    BY <1>3 DEF ReadWord
  <2>3. a \in Addr
    BY <2>1, <2>2 DEF Valid
  <2>4. CASE a = b
    BY <2>1, <2>2, <2>3, <2>4
  <2>5. CASE a # b
    <3>1. a \notin todo[c]
      BY <2>1, <2>5
    <3>2. reply'[c][a] = reply[c][a]
      BY <2>1, <2>3, <2>5
    <3> QED
      BY <2>0, <2>1, <2>2, <3>1, <3>2 DEF RequestAtomic
  <2> QED
    BY <2>4, <2>5
<1>4. CASE WriteWord(c)
  <2>0. InBufferSection(c)
    BY <1>4 DEF WriteWord, StoreWord, InBufferSection
  <2>1. PICK b \in req[c].regs :
           /\ pc[c] = "serving" /\ req[c].op = "write"
           /\ todo' = [todo EXCEPT ![c] = @ \ {b}]
           /\ image' = IF b \in Valid(req[c]) THEN [image EXCEPT ![b] = req[c].data[b]]
                       ELSE image
    BY <1>4 DEF WriteWord, StoreWord
  <2>2. UNCHANGED <<reply, req>>
    BY <1>4 DEF WriteWord, StoreWord, cliVars
  <2>3. a \in Addr
    BY <2>1, <2>2 DEF Valid
  <2>4. CASE a = b
    BY <2>1, <2>2, <2>3, <2>4
  <2>5. CASE a # b
    <3>1. a \notin todo[c]
      BY <2>1, <2>5
    <3>2. image'[a] = image[a]
      BY <2>1, <2>3, <2>5
    <3> QED
      BY <2>0, <2>1, <2>2, <3>1, <3>2 DEF RequestAtomic
  <2> QED
    BY <2>4, <2>5
<1> QED
  BY <1>1, <1>2, <1>3, <1>4

LEMMA RequestAtomicStep ==
    ASSUME TypeOK, Requested, LockOwnership, NotQuitting, RequestAtomic, [Next]_vars
    PROVE  RequestAtomic'
<1> USE ThreadsAssumption
<1>1. CASE MainStep
  <2>1. UNCHANGED <<req, reply>> /\ SteppedOnly(Main)
    BY <1>1, MainFrame DEF cliVars
  <2>2. \A c \in Clients : InBufferSection(c) => image' = image
    BY <1>1, MainFrame DEF LockOwnership, InBufferSection, NotQuitting
  <2>3. \A c \in Clients : InBufferSection(c)' = InBufferSection(c) /\ todo'[c] = todo[c]
    BY <2>1 DEF SteppedOnly, InBufferSection
  <2> QED
    BY <2>1, <2>2, <2>3 DEF RequestAtomic, Valid
<1>2. CASE \E c \in Clients : ClientStep(c)
  <2> PICK c \in Clients : ClientStep(c)
    BY <1>2
  <2> SUFFICES ASSUME NEW d \in Clients, InBufferSection(d)',
                      NEW a \in (req'[d].regs \cap Valid(req'[d])) \ todo'[d]
               PROVE  image'[a] = IF req'[d].op = "read" THEN reply'[d][a]
                                  ELSE req'[d].data[a]
    BY DEF RequestAtomic, Valid
  <2>1. CASE d = c
    BY <2>1, ServingStep
  <2>2. CASE d # c
    <3>1. /\ pc'[d] = pc[d] /\ todo'[d] = todo[d]
          /\ req'[d] = req[d] /\ reply'[d] = reply[d]
      BY <2>2, ClientFrame DEF SteppedOnly
    <3>2. InBufferSection(d)
      BY <3>1 DEF InBufferSection
    <3>3. image' = image
      BY <2>2, <3>2, ClientHolds DEF LockOwnership
    <3> QED
      BY <3>1, <3>2, <3>3 DEF RequestAtomic, Valid
  <2> QED
    BY <2>1, <2>2
<1>3. CASE \E p \in Poller : PollerStep(p)
  BY <1>3, PollerFrame DEF SteppedOnly, cliVars, RequestAtomic, Valid, InBufferSection
<1>4. CASE StopServers \/ StopPlc \/ UNCHANGED vars
  BY <1>4 DEF StopServers, StopPlc, vars, cliVars, RequestAtomic, Valid, InBufferSection
<1> QED
  BY <1>1, <1>2, <1>3, <1>4 DEF Next, Running, Terminated

\* Until the operator asks the runtime to quit, every reply shows registers
\* that were in the table together and every multiple write is stored whole.
THEOREM RequestsAtomic ==
    ASSUME PcccShortWrites, ~MayQuit PROVE Spec => []RequestAtomic
<1>1. Init => NotQuitting /\ RequestAtomic
  BY ThreadsAssumption DEF Init, NotQuitting, RequestAtomic, InBufferSection
<1>2. Init => Requested
  BY ThreadsAssumption DEF Init, Requested, Short, NoRequest
<1>3. TypeOK /\ Requested /\ [Next]_vars => Requested'
  BY RequestedStep
<1>4. TypeOK /\ NotQuitting /\ [Next]_vars => NotQuitting'
  BY NotQuittingStep
<1>5. TypeOK /\ Requested /\ LockOwnership /\ NotQuitting /\ RequestAtomic /\ [Next]_vars
        => RequestAtomic'
  BY RequestAtomicStep
<1> QED
  BY <1>1, <1>2, <1>3, <1>4, <1>5, TypeCorrect, MutualExclusion, PTL DEF Spec
-----------------------------------------------------------------------------
(***************************************************************************)
(* Exit.  Detached handlers are not waited for, so this is for clients     *)
(* that write no local output.                                             *)
(***************************************************************************)
NoOutputWriter ==
    \A r \in Requests \cup Commands : r.op = "write" => r.regs \cap LocalOut = {}

\* What disableOutputs() has come past is off, then the pins are.
Disabling ==
    /\ pc[Main] = "disable" => \A a \in LocalOut \ todo[Main] : image[a] = 0
    /\ pc[Main] \in {"lastoutlock", "lastout"} => \A a \in LocalOut : image[a] = 0
    /\ pc[Main] = "lastout" => \A a \in LocalOut \ todo[Main] : hwOut[a] = 0
    /\ OutputsOffAtExit

\* A client leaves the local outputs as they are.
LEMMA ClientsLeaveOutputs ==
    ASSUME NoOutputWriter, TypeOK, NEW c \in Clients, ClientStep(c)
    PROVE  /\ \A a \in LocalOut : image'[a] = image[a]
           /\ UNCHANGED hwOut
           /\ pc'[Main] = pc[Main] /\ todo'[Main] = todo[Main]
<1>1. pc'[Main] = pc[Main] /\ todo'[Main] = todo[Main]
  BY ClientFrame, ThreadsAssumption DEF SteppedOnly
<1>2. UNCHANGED hwOut
  BY ClientFrame
<1>3. CASE StoreWord(c)
  <2>1. PICK b \in req[c].regs :
           /\ req[c].op = "write"
           /\ image' = IF b \in Valid(req[c]) THEN [image EXCEPT ![b] = req[c].data[b]]
                       ELSE image
    BY <1>3 DEF StoreWord
  <2>2. req[c] \in Requests \cup Commands
    BY <2>1 DEF TypeOK, ReadAll, NoRequest
  <2>3. b \notin LocalOut
    BY <2>1, <2>2 DEF NoOutputWriter
  <2> QED
    BY <1>1, <1>2, <2>1, <2>3 DEF TypeOK
<1>4. CASE ~StoreWord(c)
  <2>1. UNCHANGED image
    BY <1>4 DEF ClientStep, Serve, PcccWriteWord, PcccWriteReply, CheckRunning, Receive,
         Refuse, Disconnect, Dnp3Shutdown, LockForRequest, ReadWord, WriteWord, Reply,
         OperateOutOfRange
  <2> QED
    BY <1>1, <1>2, <2>1
<1> QED
  BY <1>3, <1>4

LEMMA DisablingStep ==
    ASSUME NoOutputWriter, TypeOK, Disabling, [Next]_vars
    PROVE  Disabling'
<1> USE ThreadsAssumption DEF Disabling, OutputsOffAtExit, Exited
<1>1. CASE MainStep
  <2> USE DEF TypeOK, Goto, Begin, LockBuffer, LockIo, Iterate, LoopEnds
  <2>1. CASE JoinInteractive
    BY <2>1 DEF JoinInteractive
  <2>2. CASE DisableOutput
    BY <2>2 DEF DisableOutput
  <2>3. CASE OutputsDisabled
    BY <2>3 DEF OutputsDisabled
  <2>4. CASE LockForOutput
    BY <2>4 DEF LockForOutput
  <2>5. CASE WritePin
    BY <2>5 DEF WritePin
  <2>6. CASE UnlockAfterOutput
    BY <2>6 DEF UnlockAfterOutput
  <2>7. CASE ~ (JoinInteractive \/ DisableOutput \/ OutputsDisabled \/ LockForOutput
                \/ WritePin \/ UnlockAfterOutput)
    <3>1. pc'[Main] \notin {"disable", "lastoutlock", "lastout", "exit"}
      BY <1>1, <2>7 DEF MainStep,
       StartScan, LeaveLoop, LockForInput, ReadPin, UnlockAfterInput, LockForProgram,
       LockForSlaveInput, CopySlaveInput, UnlockAfterSlaveInput, ProgramReads,
       ProgramComputes, ProgramWrites, ProgramEnds, LockForSlaveOutput, CopySlaveOutput,
       UnlockAfterSlaveOutput, UnlockAfterProgram
    <3> QED
      BY <3>1
  <2> QED
    BY <2>1, <2>2, <2>3, <2>4, <2>5, <2>6, <2>7
<1>2. CASE \E c \in Clients : ClientStep(c)
  BY <1>2, ClientsLeaveOutputs
<1>3. CASE \E p \in Poller : PollerStep(p)
  <2> PICK p \in Poller : PollerStep(p)
    BY <1>3
  <2>1. pc'[Main] = pc[Main] /\ todo'[Main] = todo[Main] /\ UNCHANGED <<image, hwOut>>
    BY PollerFrame DEF SteppedOnly
  <2> QED
    BY <2>1
<1>4. CASE StopServers \/ StopPlc \/ UNCHANGED vars
  BY <1>4 DEF StopServers, StopPlc, vars
<1> QED
  BY <1>1, <1>2, <1>3, <1>4 DEF Next, Running, Terminated

\* However the last scan, the poller and the clients are interleaved with the
\* end of main(), the pins are off when the process exits, unless a client is
\* still writing outputs.
THEOREM PinsOffAtExit == ASSUME NoOutputWriter PROVE Spec => []OutputsOffAtExit
<1>1. Init => Disabling
  BY ThreadsAssumption DEF Init, Disabling, OutputsOffAtExit, Exited
<1>2. TypeOK /\ Disabling /\ [Next]_vars => Disabling'
  BY DisablingStep
<1>3. Disabling => OutputsOffAtExit
  BY DEF Disabling
<1> QED
  BY <1>1, <1>2, <1>3, TypeCorrect, PTL DEF Spec
-----------------------------------------------------------------------------
(***************************************************************************)
(* The refinement.  The overlay of ScanCycleRefinement moves the effect of *)
(* a critical section to the step that takes its lock: of each thread, the *)
(* steps that lock for a request, the slave inputs, the program's outputs, *)
(* the pins or a slave's block map to an action of AtomicImage, and what   *)
(* the loops do afterwards is shown to change nothing.                     *)
(***************************************************************************)
\* A loop is at a register that it has left.
LEMMA LeastIsLeft ==
    ASSUME NEW S, S \subseteq Nat, S # {}
    PROVE  Least(S) \in S
<1> DEFINE Less == OpToRel(<, Nat)
<1>1. IsWellFoundedOn(Less, Nat)
  BY NatLessThanWellFounded
<1>2. \A m, n \in Nat : m < n => <<m, n>> \in Less
  BY DEF OpToRel
<1> HIDE DEF Less
<1>3. PICK x \in S : \A y \in S : ~(<<y, x>> \in Less)
  BY <1>1, WFMin
<1>4. ASSUME NEW y \in S PROVE x <= y
  <2>1. x \in Nat /\ y \in Nat
    OBVIOUS
  <2>2. ~(y < x)
    BY <1>2, <1>3, <2>1
  <2> QED
    BY <2>1, <2>2
<1>5. \E a \in S : \A b \in S : a <= b
  BY <1>4
<1> QED
  BY <1>5 DEF Least

LEMMA IterateLeft ==
    \A t \in Threads : \A l, a : TypeOK /\ Iterate(t, l, a) => a \in todo[t]
  BY LeastIsLeft DEF TypeOK, Iterate

\* What the mapping needs besides: nothing has been copied to the reply of a
\* request that waits, and what the program has assigned so far is what it
\* computes from the image it read.
Overlay ==
    /\ \A c \in Clients : pc[c] = "waiting" => reply[c] = Blank
    /\ pc[Main] = "drive" =>
          /\ todo[Main] \subseteq Driven
          /\ \A a \in Addr : image[a] = IF a \in Driven \ todo[Main]
                                        THEN Program[seen][a] ELSE seen[a]
    /\ pc[Main] = "mboutlock" =>
          \A a \in Addr : image[a] = IF a \in Driven THEN Program[seen][a] ELSE seen[a]

\* The invariant under which every step maps.
Faithful ==
    TypeOK /\ Requested /\ LockOwnership /\ ScanSnapshot /\ NotQuitting /\ Overlay

LEMMA InitOverlay == Init => Overlay
  BY ThreadsAssumption DEF Init, Overlay

LEMMA MainOverlay == Faithful /\ MainStep => Overlay'
<1> SUFFICES ASSUME Faithful, MainStep PROVE Overlay'
  OBVIOUS
<1> USE ThreadsAssumption, AddrAssumption DEF Faithful
<1>1. \A c \in Clients : pc'[c] = "waiting" => reply'[c] = Blank
  BY MainFrame DEF Overlay, SteppedOnly, cliVars
<1> USE DEF TypeOK, Goto, Begin, LockBuffer, LockIo, Iterate, LoopEnds
<1>2. pc'[Main] = "drive" => ProgramComputes \/ ProgramWrites
  BY MainArrives
<1>3. pc'[Main] = "mboutlock" => ProgramEnds
  BY MainArrives
<1>4. CASE ProgramComputes
  BY <1>1, <1>4 DEF ProgramComputes, Overlay, ScanSnapshot
<1>5. CASE ProgramWrites
  <2>1. PICK b \in Driven : /\ todo' = [todo EXCEPT ![Main] = @ \ {b}]
                            /\ image' = [image EXCEPT ![b] = Program[seen][b]]
                            /\ pc[Main] = "drive" /\ UNCHANGED <<pc, seen>>
    BY <1>5 DEF ProgramWrites
  <2> QED
    BY <1>1, <2>1 DEF Overlay
<1>6. CASE ProgramEnds
  BY <1>1, <1>6 DEF ProgramEnds, Overlay
<1> QED
  BY <1>1, <1>2, <1>3, <1>4, <1>5, <1>6 DEF Overlay

LEMMA OverlayStep == Faithful /\ [Next]_vars => Overlay'
<1> SUFFICES ASSUME Faithful, [Next]_vars PROVE Overlay'
  OBVIOUS
<1> USE ThreadsAssumption DEF Faithful
<1>1. CASE MainStep
  BY <1>1, MainOverlay
<1>2. CASE \E c \in Clients : ClientStep(c)
  <2> PICK c \in Clients : ClientStep(c)
    BY <1>2
  <2>1. pc'[Main] = pc[Main] /\ todo'[Main] = todo[Main] /\ seen' = seen
    BY ClientFrame DEF SteppedOnly
  <2>2. pc[Main] \in {"drive", "mboutlock"} => image' = image
    BY ClientHolds DEF LockOwnership, InBufferSection
  <2>3. \A d \in Clients \ {c} : pc'[d] = "waiting" => reply'[d] = Blank
    BY ClientFrame DEF Overlay, SteppedOnly
  <2>4. pc'[c] = "waiting" => reply'[c] = Blank
    <3>1. pc'[c] = "waiting" => Receive(c)
      BY DEF TypeOK, Goto, LockBuffer, Iterate, LoopEnds, ClientStep, Serve, CheckRunning,
           Receive, Refuse, Disconnect, Dnp3Shutdown, LockForRequest, ReadWord, StoreWord,
           WriteWord, PcccWriteWord, Reply, PcccWriteReply, OperateOutOfRange
    <3> QED
      BY <3>1 DEF Receive, TypeOK
  <2> QED
    BY <2>1, <2>2, <2>3, <2>4 DEF Overlay
<1>3. CASE \E p \in Poller : PollerStep(p)
  BY <1>3, PollerFrame DEF SteppedOnly, cliVars, Overlay
<1>4. CASE StopServers \/ StopPlc \/ UNCHANGED vars
  BY <1>4 DEF StopServers, StopPlc, vars, cliVars, Overlay
<1> QED
  BY <1>1, <1>2, <1>3, <1>4 DEF Next, Running, Terminated

-----------------------------------------------------------------------------
\* The overlay, where it is empty and where it is not.

Outside == \A c \in Clients : ~InBufferSection(c)

LEMMA ImageQuiet ==
    TypeOK /\ Outside /\ pc[Main] \notin {"mbin", "drive", "mboutlock"} => AbsImage = image
  BY DEF AbsImage, StoringNext, Outside, InBufferSection, TypeOK

LEMMA ImageTaking ==
    TypeOK /\ Outside /\ pc[Main] = "mbin" =>
        AbsImage = [a \in Addr |-> IF a \in todo[Main] THEN inBuf[a] ELSE image[a]]
  BY DEF AbsImage, StoringNext, Outside, InBufferSection, TypeOK

LEMMA ImageScanning ==
    pc[Main] \in {"drive", "mboutlock"} => AbsImage = seen
  BY DEF AbsImage

StoredBy ==
    \A c \in Clients :
        /\ TypeOK
        /\ pc[Main] \notin {"mbin", "drive", "mboutlock"}
        /\ \A d \in Clients \ {c} : ~InBufferSection(d)
        => AbsImage = [a \in Addr |-> IF StoringNext(c, a) THEN req[c].data[a] ELSE image[a]]

LEMMA ImageStoring == StoredBy
<1> SUFFICES ASSUME NEW c \in Clients, TypeOK, pc[Main] \notin {"mbin", "drive", "mboutlock"},
                    \A d \in Clients \ {c} : ~InBufferSection(d)
             PROVE  AbsImage = [a \in Addr |-> IF StoringNext(c, a) THEN req[c].data[a]
                                               ELSE image[a]]
  BY DEF StoredBy
<1>1. ASSUME NEW a, NEW d \in Clients, StoringNext(d, a) PROVE d = c
  BY <1>1 DEF StoringNext, InBufferSection
<1>2. ASSUME NEW a, StoringNext(c, a) PROVE (CHOOSE d \in Clients : StoringNext(d, a)) = c
  <2> HIDE DEF StoringNext
  <2> QED
    BY <1>1, <1>2
<1>3. \A a \in Addr : (\E d \in Clients : StoringNext(d, a)) <=> StoringNext(c, a)
  BY <1>1
<1> HIDE DEF StoringNext
<1> QED
  BY <1>2, <1>3 DEF AbsImage

LEMMA AnswerQuiet == TypeOK /\ Outside => AbsAnswer = reply
  BY DEF AbsAnswer, Outside, InBufferSection, TypeOK

-----------------------------------------------------------------------------
LEMMA InitMaps == Init => Abstract!Init
<1> SUFFICES ASSUME Init PROVE Abstract!Init
  OBVIOUS
<1> USE ThreadsAssumption DEF Init
<1>1. TypeOK /\ Outside /\ pc[Main] = "top"
  BY InitTypeOK DEF Outside, InBufferSection
<1>2. AbsImage = Blank /\ AbsAnswer = reply
  BY <1>1, ImageQuiet, AnswerQuiet
<1>3. /\ AbsPins = [a \in LocalOut |-> 0] /\ AbsPublished = [a \in SlaveOut |-> 0]
      /\ AbsSlaveIn = [a \in SlaveIn |-> 0] /\ AbsSent = [a \in SlaveOut |-> 0]
  BY DEF AbsPins, AbsPublished, AbsSlaveIn, AbsSent
<1>4. {c \in Clients : pc[c] = "waiting"} = {}
  OBVIOUS
<1>5. Abstract!Blank = Blank
  BY DEF Abstract!Blank, Abstract!Addr, Abstract!Holding, Blank
<1> QED
  BY <1>2, <1>3, <1>4, <1>5 DEF Abstract!Init

\* The scan leaves the clients' and the poller's part of the abstract state ...
LEMMA MainKeeps ==
    ASSUME Faithful, MainStep
    PROVE  /\ AbsSlaveIn' = AbsSlaveIn /\ AbsSent' = AbsSent /\ AbsAnswer' = AbsAnswer
           /\ req' = req
           /\ {c \in Clients : pc[c] = "waiting"}' = {c \in Clients : pc[c] = "waiting"}
<1> USE ThreadsAssumption DEF Faithful
<1>1. /\ \A t \in Clients \cup Poller : pc'[t] = pc[t] /\ todo'[t] = todo[t]
      /\ UNCHANGED <<inBuf, resp, frame, req, reply>>
  BY MainFrame DEF SteppedOnly, cliVars
<1>2. AbsSlaveIn' = AbsSlaveIn
  BY <1>1 DEF AbsSlaveIn
<1>3. (\E p \in Poller : pc[p] = "fetch") => outBuf' = outBuf
  BY MainFrame DEF LockOwnership, InIoSection
<1>4. AbsSent' = AbsSent
  BY <1>1, <1>3 DEF AbsSent
<1>5. image' # image => pc[Main] \in {"in", "mbin", "drive"}
  BY MainFrame DEF NotQuitting
<1>6. image' # image => \A c \in Clients : ~(pc[c] = "serving" /\ req[c].op = "read")
  BY <1>5 DEF LockOwnership, InBufferSection
<1>7. AbsAnswer' = AbsAnswer
  BY <1>1, <1>6 DEF AbsAnswer
<1> QED
  BY <1>1, <1>2, <1>4, <1>7

\* ... a client leaves the pins and the slaves' part ...
LEMMA ClientKeeps ==
    ASSUME Faithful, NEW c \in Clients, ClientStep(c)
    PROVE  /\ AbsPins' = AbsPins /\ AbsSlaveIn' = AbsSlaveIn
           /\ AbsPublished' = AbsPublished /\ AbsSent' = AbsSent
<1> USE ThreadsAssumption DEF Faithful
<1>1. /\ \A t \in Poller \cup {Main} : pc'[t] = pc[t] /\ todo'[t] = todo[t]
      /\ UNCHANGED <<hwOut, inBuf, outBuf, resp, frame>>
  BY ClientFrame DEF SteppedOnly, mbVars
<1>2. pc[Main] \in {"out", "lastout", "mbout"} => image' = image
  BY ClientHolds DEF LockOwnership, InBufferSection
<1> QED
  BY <1>1, <1>2 DEF AbsPins, AbsSlaveIn, AbsPublished, AbsSent

\* ... and the poller leaves the table, the pins and the clients' part.
LEMMA PollerKeeps ==
    ASSUME Faithful, NEW p \in Poller, PollerStep(p)
    PROVE  /\ AbsImage' = AbsImage /\ AbsPins' = AbsPins /\ AbsPublished' = AbsPublished
           /\ AbsAnswer' = AbsAnswer /\ req' = req
           /\ {c \in Clients : pc[c] = "waiting"}' = {c \in Clients : pc[c] = "waiting"}
<1> USE ThreadsAssumption DEF Faithful
<1>1. /\ \A t \in Clients \cup {Main} : pc'[t] = pc[t] /\ todo'[t] = todo[t]
      /\ UNCHANGED <<image, seen, outBuf, req, reply>>
  BY PollerFrame DEF SteppedOnly, cliVars
<1>2. hwOut' = hwOut
  BY DEF PollerStep, PollRead, LockForStore, StoreResponse, UnlockAfterStore, LockForFetch,
     FetchOutput, UnlockAfterFetch
<1>3. pc[Main] = "mbin" => inBuf' = inBuf
  BY PollerFrame DEF LockOwnership, InIoSection
<1>4. \A c \in Clients, a \in Addr : StoringNext(c, a)' <=> StoringNext(c, a)
  BY <1>1 DEF StoringNext
<1>5. AbsImage' = AbsImage
  BY <1>1, <1>3, <1>4 DEF AbsImage
<1> QED
  BY <1>1, <1>2, <1>5 DEF AbsPins, AbsPublished, AbsAnswer

LEMMA PinsQuiet == TypeOK /\ pc[Main] \notin {"out", "lastout"} => AbsPins = hwOut
  BY DEF AbsPins, TypeOK

LEMMA PublishedQuiet == TypeOK /\ pc[Main] # "mbout" => AbsPublished = outBuf
  BY DEF AbsPublished, TypeOK

\* Every step of a scan but its first is taken with no client in the table.
LEMMA MainAlone ==
    ASSUME Faithful, MainStep, ~StartScan
    PROVE  Outside /\ Outside'
<1> USE ThreadsAssumption DEF Faithful
<1>1. \/ bufferLock = Free
      \/ InBufferSection(Main)
  <2>1. CASE LeaveLoop \/ LockForInput \/ ReadPin \/ UnlockAfterInput \/ LockForProgram
    BY <2>1 DEF NotQuitting, InBufferSection, TypeOK, Goto, Begin, LockBuffer, LockIo,
         Iterate, LoopEnds, LeaveLoop, LockForInput, ReadPin, UnlockAfterInput,
         LockForProgram
  <2>2. CASE LockForSlaveInput \/ CopySlaveInput \/ UnlockAfterSlaveInput
    BY <2>2 DEF NotQuitting, InBufferSection, TypeOK, Goto, Begin, LockBuffer, LockIo,
         Iterate, LoopEnds, LockForSlaveInput, CopySlaveInput, UnlockAfterSlaveInput
  <2>3. CASE ProgramReads \/ ProgramComputes \/ ProgramWrites \/ ProgramEnds
    BY <2>3 DEF NotQuitting, InBufferSection, TypeOK, Goto, Begin, LockBuffer, LockIo,
         Iterate, LoopEnds, ProgramReads, ProgramComputes, ProgramWrites, ProgramEnds
  <2>4. CASE LockForSlaveOutput \/ CopySlaveOutput \/ UnlockAfterSlaveOutput \/ UnlockAfterProgram
    BY <2>4 DEF NotQuitting, InBufferSection, TypeOK, Goto, Begin, LockBuffer, LockIo,
         Iterate, LoopEnds, LockForSlaveOutput, CopySlaveOutput, UnlockAfterSlaveOutput,
         UnlockAfterProgram
  <2>5. CASE LockForOutput \/ WritePin \/ UnlockAfterOutput
    BY <2>5 DEF NotQuitting, InBufferSection, TypeOK, Goto, Begin, LockBuffer, LockIo,
         Iterate, LoopEnds, LockForOutput, WritePin, UnlockAfterOutput
  <2>6. CASE JoinInteractive \/ DisableOutput \/ OutputsDisabled
    BY <2>6 DEF NotQuitting, InBufferSection, TypeOK, Goto, Begin, LockBuffer, LockIo,
         Iterate, LoopEnds, JoinInteractive, DisableOutput, OutputsDisabled
  <2> QED
    BY <2>1, <2>2, <2>3, <2>4, <2>5, <2>6 DEF MainStep
<1>2. Outside
  BY <1>1 DEF Outside, LockOwnership
<1>3. \A c \in Clients : InBufferSection(c)' <=> InBufferSection(c)
  BY MainFrame DEF InBufferSection, SteppedOnly, cliVars
<1> QED
  BY <1>2, <1>3 DEF Outside

LEMMA MainMaps == ASSUME Faithful, Faithful', MainStep PROVE [Abstract!Next]_(Abstract!vars)
<1> USE ThreadsAssumption, AddrAssumption DEF Faithful
<1>keep. /\ AbsSlaveIn' = AbsSlaveIn /\ AbsSent' = AbsSent /\ AbsAnswer' = AbsAnswer
         /\ req' = req
         /\ {c \in Clients : pc[c] = "waiting"}' = {c \in Clients : pc[c] = "waiting"}
  BY MainKeeps
<1>image. ~StartScan =>
            /\ pc[Main] \notin {"mbin", "drive", "mboutlock"} => AbsImage = image
            /\ pc'[Main] \notin {"mbin", "drive", "mboutlock"} => AbsImage' = image'
            /\ pc[Main] = "mbin" =>
                 AbsImage = [a \in Addr |-> IF a \in todo[Main] THEN inBuf[a] ELSE image[a]]
            /\ pc'[Main] = "mbin" =>
                 AbsImage' = [a \in Addr |-> IF a \in todo'[Main] THEN inBuf'[a] ELSE image'[a]]
            /\ pc[Main] \in {"drive", "mboutlock"} => AbsImage = seen
            /\ pc'[Main] \in {"drive", "mboutlock"} => AbsImage' = seen'
  <2> HAVE ~StartScan
  <2>1. (TypeOK /\ Outside)' /\ TypeOK /\ Outside
    BY MainAlone
  <2>2. (TypeOK /\ Outside /\ pc[Main] \notin {"mbin", "drive", "mboutlock"}
            => AbsImage = image)'
    BY ImageQuiet, PTL
  <2>3. (TypeOK /\ Outside /\ pc[Main] = "mbin" =>
           AbsImage = [a \in Addr |-> IF a \in todo[Main] THEN inBuf[a] ELSE image[a]])'
    BY ImageTaking, PTL
  <2>4. (pc[Main] \in {"drive", "mboutlock"} => AbsImage = seen)'
    BY ImageScanning, PTL
  <2> QED
    BY <2>1, <2>2, <2>3, <2>4, ImageQuiet, ImageTaking, ImageScanning
<1>pins. /\ pc[Main] \notin {"out", "lastout"} => AbsPins = hwOut
         /\ pc'[Main] \notin {"out", "lastout"} => AbsPins' = hwOut'
  <2>1. (TypeOK /\ pc[Main] \notin {"out", "lastout"} => AbsPins = hwOut)'
    BY PinsQuiet, PTL
  <2> QED
    BY <2>1, PinsQuiet
<1>pub. /\ pc[Main] # "mbout" => AbsPublished = outBuf
        /\ pc'[Main] # "mbout" => AbsPublished' = outBuf'
  <2>1. (TypeOK /\ pc[Main] # "mbout" => AbsPublished = outBuf)'
    BY PublishedQuiet, PTL
  <2> QED
    BY <2>1, PublishedQuiet
<1> DEFINE Same == AbsImage' = AbsImage /\ AbsPins' = AbsPins /\ AbsPublished' = AbsPublished
<1>same. Same => UNCHANGED Abstract!vars
  BY <1>keep DEF Abstract!vars
<1> USE DEF Goto, Begin, LockBuffer, LockIo, Iterate, LoopEnds
<1>1. CASE StartScan
  <2>1. pc[Main] = "top" /\ pc' = [pc EXCEPT ![Main] = "inlock"]
        /\ UNCHANGED <<image, todo, seen, hwOut, inBuf, outBuf, req>>
    BY <1>1 DEF StartScan, mbVars, cliVars
  <2>2. \A c \in Clients, a \in Addr : StoringNext(c, a)' <=> StoringNext(c, a)
    BY <2>1 DEF StoringNext, TypeOK
  <2>3. pc'[Main] = "inlock"
    BY <2>1 DEF TypeOK
  <2>4. AbsImage' = AbsImage
    BY <2>1, <2>2, <2>3 DEF AbsImage
  <2> QED
    BY <2>1, <2>3, <2>4, <1>pins, <1>pub, <1>same
<1>2. CASE LockForInput \/ UnlockAfterInput \/ LockForProgram \/ ProgramReads
             \/ UnlockAfterProgram
  <2>1. /\ pc[Main] \in {"inlock", "in", "lock", "run", "unlock"}
        /\ pc'[Main] \in {"in", "lock", "mbinlock", "run", "outlock"}
        /\ UNCHANGED <<image, hwOut, outBuf>>
    BY <1>2 DEF LockForInput, UnlockAfterInput, LockForProgram, ProgramReads,
         UnlockAfterProgram, mbVars, TypeOK
  <2> QED
    BY <2>1, <1>image, <1>pins, <1>pub, <1>same DEF StartScan
<1>3. CASE ReadPin
  <2>1. PICK a \in LocalIn, v \in Values :
           /\ pc[Main] = "in" /\ pc' = pc
           /\ image' = [image EXCEPT ![a] = v]
           /\ UNCHANGED <<hwOut, outBuf>>
    BY <1>3 DEF ReadPin, mbVars
  <2>2. /\ AbsImage' = [AbsImage EXCEPT ![a] = v]
        /\ AbsPins' = AbsPins /\ AbsPublished' = AbsPublished
    BY <2>1, <1>image, <1>pins, <1>pub DEF StartScan
  <2>3. Abstract!Sense
    BY <2>2, <1>keep DEF Abstract!Sense
  <2> QED
    BY <2>3 DEF Abstract!Next
<1>4. CASE LockForSlaveInput
  <2>1. /\ pc[Main] = "mbinlock" /\ pc'[Main] = "mbin" /\ ioLock = Free
        /\ todo'[Main] = SlaveIn
        /\ UNCHANGED <<image, hwOut, inBuf, outBuf>>
    BY <1>4 DEF LockForSlaveInput, mbVars, TypeOK
  <2>2. AbsSlaveIn = inBuf
    BY <2>1 DEF AbsSlaveIn, LockOwnership, InIoSection, TypeOK
  <2>3. AbsImage' = [a \in Addr |-> IF a \in SlaveIn THEN AbsSlaveIn[a] ELSE AbsImage[a]]
    BY <2>1, <2>2, <1>image DEF StartScan
  <2>4. AbsPins' = AbsPins /\ AbsPublished' = AbsPublished
    BY <2>1, <1>pins, <1>pub
  <2>5. Abstract!TakeSlaveInputs
    BY <2>3, <2>4, <1>keep DEF Abstract!TakeSlaveInputs, Abstract!Addr, Abstract!Holding
  <2> QED
    BY <2>5 DEF Abstract!Next
<1>5. CASE CopySlaveInput
  <2>1. PICK a \in SlaveIn :
           /\ pc[Main] = "mbin" /\ pc' = pc
           /\ a \in todo[Main] /\ todo'[Main] = todo[Main] \ {a}
           /\ image' = [image EXCEPT ![a] = inBuf[a]]
           /\ UNCHANGED <<hwOut, inBuf, outBuf>>
    BY <1>5, IterateLeft DEF CopySlaveInput, mbVars, TypeOK
  <2>2. \A b \in Addr : (IF b \in todo'[Main] THEN inBuf[b] ELSE image'[b])
                       = (IF b \in todo[Main] THEN inBuf[b] ELSE image[b])
    BY <2>1 DEF TypeOK
  <2>3. /\ AbsImage = [b \in Addr |-> IF b \in todo[Main] THEN inBuf[b] ELSE image[b]]
        /\ AbsImage' = [b \in Addr |-> IF b \in todo'[Main] THEN inBuf[b] ELSE image'[b]]
    BY <2>1, <1>image DEF StartScan
  <2>4. AbsImage' = AbsImage
    BY <2>2, <2>3
  <2> QED
    BY <2>1, <2>4, <1>pins, <1>pub, <1>same
<1>6. CASE UnlockAfterSlaveInput
  <2>1. /\ pc[Main] = "mbin" /\ pc'[Main] = "run" /\ todo[Main] = {}
        /\ UNCHANGED <<image, hwOut, outBuf>>
    BY <1>6 DEF UnlockAfterSlaveInput, mbVars, TypeOK
  <2>2. AbsImage' = AbsImage
    BY <2>1, <1>image DEF StartScan, TypeOK
  <2> QED
    BY <2>1, <2>2, <1>pins, <1>pub, <1>same
<1>7. CASE ProgramComputes
  <2>1. /\ pc[Main] = "run" /\ pc'[Main] = "drive" /\ todo[Main] = {}
        /\ UNCHANGED <<image, seen, hwOut, outBuf>>
    BY <1>7 DEF ProgramComputes, mbVars, TypeOK
  <2>2. seen = image
    BY <2>1 DEF ScanSnapshot, TypeOK
  <2> QED
    BY <2>1, <2>2, <1>image, <1>pins, <1>pub, <1>same DEF StartScan
<1>8. CASE ProgramWrites \/ ProgramEnds
  <2>1. /\ pc[Main] = "drive" /\ pc'[Main] \in {"drive", "mboutlock"}
        /\ UNCHANGED <<seen, hwOut, outBuf>>
    BY <1>8 DEF ProgramWrites, ProgramEnds, mbVars, TypeOK
  <2> QED
    BY <2>1, <1>image, <1>pins, <1>pub, <1>same DEF StartScan
<1>9. CASE LockForSlaveOutput
  <2>1. /\ pc[Main] = "mboutlock" /\ pc'[Main] = "mbout"
        /\ todo'[Main] = SlaveOut
        /\ UNCHANGED <<image, hwOut, outBuf>>
    BY <1>9 DEF LockForSlaveOutput, mbVars, TypeOK
  <2>2. AbsImage = seen /\ AbsImage' = image
    BY <2>1, <1>image DEF StartScan
  <2>3. image = [a \in Addr |-> IF a \in Driven THEN Program[seen][a] ELSE seen[a]]
    BY <2>1 DEF Overlay, TypeOK
  <2>4. AbsPublished' = [a \in SlaveOut |-> image[a]]
    BY <2>1 DEF AbsPublished
  <2>5. Abstract!Scan
    BY <2>1, <2>2, <2>3, <2>4, <1>pins, <1>keep
       DEF Abstract!Scan, Abstract!Addr, Abstract!Holding
  <2> QED
    BY <2>5 DEF Abstract!Next
<1>10. CASE CopySlaveOutput
  <2>1. PICK a \in SlaveOut :
           /\ pc[Main] = "mbout" /\ pc' = pc
           /\ a \in todo[Main] /\ todo'[Main] = todo[Main] \ {a}
           /\ outBuf' = [outBuf EXCEPT ![a] = image[a]]
           /\ UNCHANGED <<image, hwOut>>
    BY <1>10, IterateLeft DEF CopySlaveOutput, TypeOK
  <2>2. \A b \in SlaveOut : (IF b \in todo'[Main] THEN image[b] ELSE outBuf'[b])
                           = (IF b \in todo[Main] THEN image[b] ELSE outBuf[b])
    BY <2>1 DEF TypeOK
  <2>3. AbsPublished' = AbsPublished
    BY <2>1, <2>2 DEF AbsPublished
  <2> QED
    BY <2>1, <2>3, <1>image, <1>pins, <1>same DEF StartScan
<1>11. CASE UnlockAfterSlaveOutput
  <2>1. /\ pc[Main] = "mbout" /\ pc'[Main] = "unlock" /\ todo[Main] = {}
        /\ UNCHANGED <<image, hwOut, outBuf>>
    BY <1>11 DEF UnlockAfterSlaveOutput, mbVars, TypeOK
  <2>2. AbsPublished' = AbsPublished
    BY <2>1, <1>pub DEF AbsPublished, TypeOK
  <2> QED
    BY <2>1, <2>2, <1>image, <1>pins, <1>same DEF StartScan
<1>12. CASE LockForOutput
  <2>1. /\ pc[Main] = "outlock" /\ pc'[Main] = "out"
        /\ todo'[Main] = LocalOut
        /\ UNCHANGED <<image, hwOut, outBuf>>
    BY <1>12 DEF LockForOutput, NotQuitting, mbVars, TypeOK
  <2>2. AbsImage = image /\ AbsImage' = image
    BY <2>1, <1>image DEF StartScan
  <2>3. AbsPins' = [a \in LocalOut |-> image[a]]
    BY <2>1 DEF AbsPins
  <2>4. Abstract!Drive
    BY <2>1, <2>2, <2>3, <1>pub, <1>keep DEF Abstract!Drive
  <2> QED
    BY <2>4 DEF Abstract!Next
<1>13. CASE WritePin
  <2>1. PICK a \in LocalOut :
           /\ pc[Main] = "out" /\ pc' = pc
           /\ a \in todo[Main] /\ todo'[Main] = todo[Main] \ {a}
           /\ hwOut' = [hwOut EXCEPT ![a] = image[a]]
           /\ UNCHANGED <<image, outBuf>>
    BY <1>13, IterateLeft DEF WritePin, NotQuitting, mbVars, TypeOK
  <2>2. \A b \in LocalOut : (IF b \in todo'[Main] THEN image[b] ELSE hwOut'[b])
                           = (IF b \in todo[Main] THEN image[b] ELSE hwOut[b])
    BY <2>1 DEF TypeOK
  <2>3. AbsPins' = AbsPins
    BY <2>1, <2>2 DEF AbsPins
  <2> QED
    BY <2>1, <2>3, <1>image, <1>pub, <1>same DEF StartScan
<1>14. CASE UnlockAfterOutput
  <2>1. /\ pc[Main] = "out" /\ pc'[Main] = "top" /\ todo[Main] = {}
        /\ UNCHANGED <<image, hwOut, outBuf>>
    BY <1>14 DEF UnlockAfterOutput, NotQuitting, mbVars, TypeOK
  <2>2. AbsPins' = AbsPins
    BY <2>1, <1>pins DEF AbsPins, TypeOK
  <2> QED
    BY <2>1, <2>2, <1>image, <1>pub, <1>same DEF StartScan
<1>15. CASE LeaveLoop \/ JoinInteractive \/ DisableOutput \/ OutputsDisabled
  BY <1>15 DEF LeaveLoop, JoinInteractive, DisableOutput, OutputsDisabled, NotQuitting
<1> QED
  BY <1>1, <1>2, <1>3, <1>4, <1>5, <1>6, <1>7, <1>8, <1>9, <1>10, <1>11, <1>12, <1>13,
     <1>14, <1>15 DEF MainStep

-----------------------------------------------------------------------------
\* The table through a client's step that stores nothing.
LEMMA ClientImage ==
    ASSUME Faithful, NEW c \in Clients, ClientStep(c), image' = image,
           \A a : ~StoringNext(c, a) /\ ~StoringNext(c, a)'
    PROVE  AbsImage' = AbsImage
<1> USE ThreadsAssumption DEF Faithful
<1>1. /\ pc'[Main] = pc[Main] /\ todo'[Main] = todo[Main]
      /\ \A d \in Clients \ {c} : pc'[d] = pc[d] /\ todo'[d] = todo[d] /\ req'[d] = req[d]
      /\ UNCHANGED <<seen, inBuf>>
  BY ClientFrame DEF SteppedOnly, mbVars
<1>2. \A d \in Clients : \A a : StoringNext(d, a)' <=> StoringNext(d, a)
  <2> TAKE d \in Clients
  <2> TAKE a
  <2>1. CASE d = c
    BY <2>1
  <2>2. CASE d # c
    BY <1>1, <2>2 DEF StoringNext
  <2> QED
    BY <2>1, <2>2
<1>3. ASSUME NEW a \in Addr, \E d \in Clients : StoringNext(d, a)
      PROVE  /\ (CHOOSE d \in Clients : StoringNext(d, a)')
                  = (CHOOSE d \in Clients : StoringNext(d, a))
             /\ req'[CHOOSE d \in Clients : StoringNext(d, a)]
                  = req[CHOOSE d \in Clients : StoringNext(d, a)]
  <2> HIDE DEF StoringNext
  <2>1. PICK e \in Clients : e = CHOOSE d \in Clients : StoringNext(d, a)
    BY <1>3
  <2>2. StoringNext(e, a)
    BY <1>3, <2>1
  <2>3. e # c
    BY <2>2
  <2> QED
    BY <1>1, <1>2, <2>1, <2>3
<1> DEFINE Of(a) == IF pc[Main] = "mbin" /\ a \in todo[Main] THEN inBuf[a]
                    ELSE IF \E d \in Clients : StoringNext(d, a)
                    THEN req[CHOOSE d \in Clients : StoringNext(d, a)].data[a]
                    ELSE image[a]
<1> HIDE DEF StoringNext
<1>4. \A a \in Addr : Of(a)' = Of(a)
  <2> TAKE a \in Addr
  <2>1. CASE \E d \in Clients : StoringNext(d, a)
    BY <1>1, <1>2, <1>3, <2>1
  <2>2. CASE ~ \E d \in Clients : StoringNext(d, a)
    BY <1>1, <1>2, <2>2
  <2> QED
    BY <2>1, <2>2
<1>5. AbsImage = IF pc[Main] \in {"drive", "mboutlock"} THEN seen ELSE [a \in Addr |-> Of(a)]
  BY DEF AbsImage
<1>6. AbsImage' = IF pc'[Main] \in {"drive", "mboutlock"} THEN seen'
                  ELSE [a \in Addr |-> Of(a)']
  BY DEF AbsImage
<1> HIDE DEF Of
<1> QED
  BY <1>1, <1>4, <1>5, <1>6

\* The replies through a client's step: only its own can change.
AnswerOf(c) ==
    [a \in Addr |-> IF pc[c] = "serving" /\ req[c].op = "read" /\ a \in todo[c]
                    THEN image[a] ELSE reply[c][a]]

LEMMA ClientAnswer ==
    ASSUME Faithful, NEW c \in Clients, ClientStep(c)
    PROVE  /\ AbsAnswer' = [AbsAnswer EXCEPT ![c] = AnswerOf(c)']
           /\ AnswerOf(c)' = AnswerOf(c) => AbsAnswer' = AbsAnswer
<1> USE ThreadsAssumption DEF Faithful
<1>1. \A d \in Clients \ {c} : /\ pc'[d] = pc[d] /\ todo'[d] = todo[d]
                               /\ req'[d] = req[d] /\ reply'[d] = reply[d]
  BY ClientFrame DEF SteppedOnly
<1>2. image' # image => \A d \in Clients \ {c} : ~(pc[d] = "serving" /\ req[d].op = "read")
  BY ClientHolds DEF LockOwnership, InBufferSection
<1>3. \A d \in Clients \ {c} : AnswerOf(d)' = AnswerOf(d)
  BY <1>1, <1>2 DEF AnswerOf
<1>4. AbsAnswer = [d \in Clients |-> AnswerOf(d)] /\ AbsAnswer' = [d \in Clients |-> AnswerOf(d)']
  BY DEF AbsAnswer, AnswerOf
<1> QED
  BY <1>3, <1>4

LEMMA RequestOp ==
    ASSUME TypeOK, NEW c \in Clients
    PROVE  req[c].op \in {"read", "write"}
  BY RequestsAssumption DEF TypeOK, NoRequest, ReadAll

\* Taking the lock is the moment a request is served ...
LEMMA LockMaps ==
    ASSUME Faithful, Faithful', NEW c \in Clients, LockForRequest(c)
    PROVE  Abstract!Answer(c) \/ Abstract!Store(c)
<1> USE ThreadsAssumption DEF Faithful
<1> DEFINE Pending == {d \in Clients : pc[d] = "waiting"}
<1>1. ClientStep(c)
  BY DEF ClientStep, Serve
<1>2. /\ pc[c] = "waiting" /\ pc' = [pc EXCEPT ![c] = "serving"]
      /\ todo' = [todo EXCEPT ![c] = req[c].regs]
      /\ bufferLock = Free
      /\ UNCHANGED <<image, req, reply>>
  BY DEF LockForRequest, LockBuffer, Goto, Begin, cliVars
<1>3. Outside /\ \A d \in Clients \ {c} : ~InBufferSection(d)'
  <2>1. Outside
    BY <1>2 DEF Outside, LockOwnership
  <2>2. \A d \in Clients \ {c} : InBufferSection(d)' <=> InBufferSection(d)
    BY <1>2 DEF InBufferSection, TypeOK
  <2> QED
    BY <2>1, <2>2 DEF Outside
<1>4. pc[Main] \notin {"mbin", "drive", "mboutlock"} /\ pc'[Main] = pc[Main]
  BY <1>2 DEF LockOwnership, InBufferSection, TypeOK
<1>5. AbsImage = image
  BY <1>3, <1>4, ImageQuiet
<1>6. AbsImage' = [a \in Addr |-> IF StoringNext(c, a)' THEN req[c].data[a] ELSE image[a]]
  <2>1. StoredBy'
    BY ImageStoring, PTL
  <2> QED
    BY <1>2, <1>3, <1>4, <2>1 DEF StoredBy
<1>7. \A a : StoringNext(c, a)' <=> req[c].op = "write" /\ a \in req[c].regs \cap Holding
  BY <1>2 DEF StoringNext, TypeOK
<1>8. Pending' = Pending \ {c} /\ c \in Pending
  BY <1>2 DEF TypeOK
<1>9. AbsAnswer' = [AbsAnswer EXCEPT ![c] =
                      [a \in Addr |-> IF req[c].op = "read" /\ a \in req[c].regs
                                      THEN image[a] ELSE reply[c][a]]]
  <2>1. AnswerOf(c)' = [a \in Addr |-> IF req[c].op = "read" /\ a \in req[c].regs
                                      THEN image[a] ELSE reply[c][a]]
    BY <1>2 DEF AnswerOf, TypeOK
  <2> QED
    BY <1>1, <2>1, ClientAnswer
<1>10. reply[c] = Blank
  BY <1>2 DEF Overlay
<1>11. CASE req[c].op = "read"
  <2>1. AbsImage' = AbsImage
    BY <1>5, <1>6, <1>7, <1>11 DEF TypeOK
  <2>2. AbsAnswer' = [AbsAnswer EXCEPT ![c] =
                      [a \in Addr |-> IF a \in req[c].regs THEN AbsImage[a] ELSE 0]]
    BY <1>5, <1>9, <1>10, <1>11 DEF Blank
  <2> QED
    BY <1>1, <1>2, <1>8, <1>11, <2>1, <2>2, ClientKeeps
       DEF Abstract!Answer, Abstract!Addr, Abstract!Holding
<1>12. CASE req[c].op = "write"
  <2>1. AbsImage' = [a \in Addr |-> IF a \in req[c].regs \cap Holding
                                    THEN req[c].data[a] ELSE AbsImage[a]]
    BY <1>5, <1>6, <1>7, <1>12
  <2>2. AnswerOf(c)' = AnswerOf(c)
    BY <1>2, <1>12 DEF AnswerOf, TypeOK
  <2> QED
    BY <1>1, <1>2, <1>8, <1>12, <2>1, <2>2, ClientAnswer, ClientKeeps
       DEF Abstract!Store, Abstract!Addr, Abstract!Holding
<1> QED
  BY <1>11, <1>12, RequestOp

\* ... and nothing shows of the loop that serves it.
LEMMA ReadMaps ==
    ASSUME Faithful, Faithful', NEW c \in Clients, ReadWord(c)
    PROVE  UNCHANGED Abstract!vars
<1> USE ThreadsAssumption DEF Faithful
<1>1. ClientStep(c)
  BY DEF ClientStep, Serve
<1>2. PICK b \in req[c].regs :
         /\ pc[c] = "serving" /\ req[c].op = "read" /\ b \in todo[c]
         /\ todo' = [todo EXCEPT ![c] = @ \ {b}]
         /\ reply' = IF b \in Addr THEN [reply EXCEPT ![c][b] = image[b]] ELSE reply
         /\ UNCHANGED <<image, pc, req>>
  BY IterateLeft DEF ReadWord, Iterate, Valid
<1>3. AbsImage' = AbsImage
  BY <1>1, <1>2, ClientImage DEF StoringNext
<1>4. AnswerOf(c)' = AnswerOf(c)
  <2>1. \A a \in Addr : (IF a \in todo'[c] THEN image[a] ELSE reply'[c][a])
                      = (IF a \in todo[c] THEN image[a] ELSE reply[c][a])
    BY <1>2 DEF TypeOK
  <2>2. /\ AnswerOf(c) = [a \in Addr |-> IF a \in todo[c] THEN image[a] ELSE reply[c][a]]
        /\ AnswerOf(c)' = [a \in Addr |-> IF a \in todo'[c] THEN image[a] ELSE reply'[c][a]]
    BY <1>2 DEF AnswerOf
  <2> QED
    BY <2>1, <2>2
<1> QED
  BY <1>1, <1>2, <1>3, <1>4, ClientAnswer, ClientKeeps DEF Abstract!vars

LEMMA StoreMaps ==
    ASSUME Faithful, Faithful', NEW c \in Clients, ClientStep(c), StoreWord(c)
    PROVE  UNCHANGED Abstract!vars
<1> USE ThreadsAssumption DEF Faithful
<1>1. PICK b \in req[c].regs :
         /\ pc[c] = "serving" /\ req[c].op = "write" /\ b \in todo[c]
         /\ todo' = [todo EXCEPT ![c] = @ \ {b}]
         /\ image' = IF b \in Holding THEN [image EXCEPT ![b] = req[c].data[b]] ELSE image
         /\ UNCHANGED <<pc, req, reply>>
  BY IterateLeft DEF StoreWord, Iterate, Valid, cliVars
<1>2. InBufferSection(c)
  BY <1>1 DEF InBufferSection
<1>3. /\ pc[Main] \notin {"mbin", "drive", "mboutlock"}
      /\ \A d \in Clients \ {c} : ~InBufferSection(d) /\ ~InBufferSection(d)'
  <2>1. \A d \in Clients \ {c} : InBufferSection(d)' <=> InBufferSection(d)
    BY <1>1 DEF InBufferSection, TypeOK
  <2> QED
    BY <1>2, <2>1 DEF LockOwnership, InBufferSection
<1>4. AbsImage = [a \in Addr |-> IF StoringNext(c, a) THEN req[c].data[a] ELSE image[a]]
  BY <1>3, ImageStoring DEF StoredBy
<1>5. AbsImage' = [a \in Addr |-> IF StoringNext(c, a)' THEN req[c].data[a] ELSE image'[a]]
  <2>1. StoredBy'
    BY ImageStoring, PTL
  <2> QED
    <3>1. /\ pc'[Main] \notin {"mbin", "drive", "mboutlock"}
          /\ \A d \in Clients \ {c} : ~InBufferSection(d)'
      BY <1>1, <1>3
    <3>2. AbsImage' = [a \in Addr |-> IF StoringNext(c, a)' THEN req'[c].data[a]
                                     ELSE image'[a]]
      BY <2>1, <3>1 DEF StoredBy
    <3> QED
      BY <1>1, <3>2
<1>6. \A a \in Addr : (IF StoringNext(c, a)' THEN req[c].data[a] ELSE image'[a])
                    = (IF StoringNext(c, a) THEN req[c].data[a] ELSE image[a])
  BY <1>1 DEF StoringNext, TypeOK
<1>7. AbsImage' = AbsImage
  BY <1>4, <1>5, <1>6
<1>8. AnswerOf(c)' = AnswerOf(c)
  BY <1>1 DEF AnswerOf
<1> QED
  BY <1>1, <1>7, <1>8, ClientAnswer, ClientKeeps DEF Abstract!vars

LEMMA ReceiveMaps ==
    ASSUME Faithful, Faithful', NEW c \in Clients, Receive(c)
    PROVE  Abstract!Ask(c)
<1> USE ThreadsAssumption DEF Faithful
<1> DEFINE Pending == {d \in Clients : pc[d] = "waiting"}
<1>1. ClientStep(c)
  BY DEF ClientStep
<1>2. PICK r \in Accepts(c) :
         /\ pc[c] = "reading" /\ pc' = [pc EXCEPT ![c] = "waiting"]
         /\ req' = [req EXCEPT ![c] = r]
         /\ reply' = [reply EXCEPT ![c] = Blank]
         /\ image' = image
  BY DEF Receive, Goto
<1>3. r \in Requests \cup Commands \cup {ReadAll}
  BY DEF Accepts
<1>4. AbsImage' = AbsImage
  BY <1>1, <1>2, ClientImage DEF StoringNext, TypeOK
<1>5. AbsAnswer' = [AbsAnswer EXCEPT ![c] = Blank]
  <2>1. AnswerOf(c)' = Blank
    BY <1>2 DEF AnswerOf, TypeOK, Blank
  <2> QED
    BY <1>1, <2>1, ClientAnswer
<1>6. Pending' = Pending \cup {c} /\ c \notin Pending
  BY <1>2 DEF TypeOK
<1> QED
  BY <1>1, <1>2, <1>3, <1>4, <1>5, <1>6, ClientKeeps
     DEF Abstract!Ask, Abstract!Blank, Abstract!Addr, Abstract!Holding, Blank

\* Whatever else a client does has no effect on the promises.
LEMMA IdleMaps ==
    ASSUME Faithful, Faithful', NEW c \in Clients, ClientStep(c),
           ~Receive(c), ~LockForRequest(c), ~ReadWord(c), ~StoreWord(c)
    PROVE  UNCHANGED Abstract!vars
<1> USE ThreadsAssumption DEF Faithful
<1> DEFINE Pending == {d \in Clients : pc[d] = "waiting"}
<1>1. /\ pc[c] = "serving" => todo[c] = {}
      /\ pc[c] # "waiting" /\ pc'[c] \notin {"waiting", "serving"}
      /\ UNCHANGED <<image, req, reply>>
  BY DEF ClientStep, Serve, CheckRunning, Refuse, Disconnect, Dnp3Shutdown, WriteWord,
         PcccWriteWord, Reply, PcccWriteReply, OperateOutOfRange, Goto, LoopEnds, TypeOK,
         cliVars
<1>2. AbsImage' = AbsImage
  BY <1>1, ClientImage DEF StoringNext
<1>3. AnswerOf(c)' = AnswerOf(c)
  BY <1>1 DEF AnswerOf
<1>4. Pending' = Pending
  BY <1>1, ClientFrame DEF SteppedOnly
<1> QED
  BY <1>1, <1>2, <1>3, <1>4, ClientAnswer, ClientKeeps DEF Abstract!vars

LEMMA ClientMaps ==
    ASSUME Faithful, Faithful', NEW c \in Clients, ClientStep(c)
    PROVE  [Abstract!Next]_(Abstract!vars)
<1>1. CASE Receive(c)
  BY <1>1, ReceiveMaps DEF Abstract!Next
<1>2. CASE LockForRequest(c)
  BY <1>2, LockMaps DEF Abstract!Next
<1> QED
  BY <1>1, <1>2, ReadMaps, StoreMaps, IdleMaps

-----------------------------------------------------------------------------
LEMMA PollerMaps ==
    ASSUME Faithful, Faithful', NEW p \in Poller, PollerStep(p)
    PROVE  [Abstract!Next]_(Abstract!vars)
<1> USE ThreadsAssumption, OnePoller DEF Faithful
<1> DEFINE In(a) == IF pc[p] = "store" /\ a \in todo[p] THEN resp[a] ELSE inBuf[a]
           Out(a) == IF pc[p] = "fetch" /\ a \in todo[p] THEN outBuf[a] ELSE frame[a]
<1>in. /\ AbsSlaveIn = [a \in SlaveIn |-> In(a)]
       /\ AbsSlaveIn' = [a \in SlaveIn |-> In(a)']
  BY DEF AbsSlaveIn
<1>out. /\ AbsSent = [a \in SlaveOut |-> Out(a)]
        /\ AbsSent' = [a \in SlaveOut |-> Out(a)']
  BY DEF AbsSent
<1>keep. /\ AbsImage' = AbsImage /\ AbsPins' = AbsPins /\ AbsPublished' = AbsPublished
         /\ AbsAnswer' = AbsAnswer /\ req' = req
         /\ {c \in Clients : pc[c] = "waiting"}' = {c \in Clients : pc[c] = "waiting"}
  BY PollerKeeps
<1>still. ASSUME \A a \in SlaveIn : In(a)' = In(a), \A a \in SlaveOut : Out(a)' = Out(a)
          PROVE  UNCHANGED Abstract!vars
  <2> HIDE DEF In, Out
  <2> QED
    BY <1>in, <1>out, <1>keep, <1>still DEF Abstract!vars
<1> USE DEF Goto, Begin, LockIo, Iterate, LoopEnds, TypeOK
<1>1. CASE PollRead(p)
  <2>1. /\ pc[p] \notin {"store", "fetch"} /\ pc'[p] \notin {"store", "fetch"}
        /\ UNCHANGED <<inBuf, frame>>
    BY <1>1 DEF PollRead
  <2> QED
    BY <2>1, <1>still
<1>2. CASE LockForStore(p)
  <2>1. /\ pc[p] = "storelock" /\ pc'[p] = "store" /\ todo'[p] = SlaveIn
        /\ UNCHANGED <<resp, frame>>
    BY <1>2 DEF LockForStore, mbVars
  <2>2. AbsSlaveIn' = resp
    BY <2>1, <1>in
  <2>3. AbsSent' = AbsSent
    BY <2>1, <1>out
  <2>4. Abstract!SlavesRespond
    BY <2>2, <2>3, <1>keep DEF Abstract!SlavesRespond
  <2> QED
    BY <2>4 DEF Abstract!Next
<1>3. CASE StoreResponse(p)
  <2>1. PICK a \in SlaveIn :
           /\ pc[p] = "store" /\ pc' = pc
           /\ a \in todo[p] /\ todo'[p] = todo[p] \ {a}
           /\ inBuf' = [inBuf EXCEPT ![a] = resp[a]]
           /\ UNCHANGED <<resp, frame>>
    BY <1>3, IterateLeft DEF StoreResponse
  <2>2. \A b \in SlaveIn : In(b)' = In(b)
    BY <2>1
  <2> QED
    BY <2>1, <2>2, <1>still
<1>4. CASE UnlockAfterStore(p)
  <2>1. /\ pc[p] = "store" /\ pc'[p] = "fetchlock" /\ todo[p] = {}
        /\ UNCHANGED <<inBuf, frame>>
    BY <1>4 DEF UnlockAfterStore
  <2> QED
    BY <2>1, <1>still
<1>5. CASE LockForFetch(p)
  <2>1. /\ pc[p] = "fetchlock" /\ pc'[p] = "fetch" /\ todo'[p] = SlaveOut
        /\ ioLock = Free
        /\ UNCHANGED <<inBuf, outBuf>>
    BY <1>5 DEF LockForFetch, mbVars
  <2>2. AbsPublished = outBuf
    BY <2>1, PublishedQuiet DEF LockOwnership, InIoSection
  <2>3. AbsSent' = AbsPublished
    BY <2>1, <2>2, <1>out
  <2>4. AbsSlaveIn' = AbsSlaveIn
    BY <2>1, <1>in
  <2>5. Abstract!Send
    BY <2>3, <2>4, <1>keep DEF Abstract!Send
  <2> QED
    BY <2>5 DEF Abstract!Next
<1>6. CASE FetchOutput(p)
  <2>1. PICK a \in SlaveOut :
           /\ pc[p] = "fetch" /\ pc' = pc
           /\ a \in todo[p] /\ todo'[p] = todo[p] \ {a}
           /\ frame' = [frame EXCEPT ![a] = outBuf[a]]
           /\ UNCHANGED <<inBuf, outBuf>>
    BY <1>6, IterateLeft DEF FetchOutput
  <2>2. \A b \in SlaveOut : Out(b)' = Out(b)
    BY <2>1
  <2> QED
    BY <2>1, <2>2, <1>still
<1>7. CASE UnlockAfterFetch(p)
  <2>1. /\ pc[p] = "fetch" /\ pc'[p] = "poll" /\ todo[p] = {}
        /\ UNCHANGED <<inBuf, frame>>
    BY <1>7 DEF UnlockAfterFetch, mbVars
  <2> QED
    BY <2>1, <1>still
<1> QED
  BY <1>1, <1>2, <1>3, <1>4, <1>5, <1>6, <1>7 DEF PollerStep

-----------------------------------------------------------------------------
LEMMA NextMaps == Faithful /\ Faithful' /\ [Next]_vars => [Abstract!Next]_(Abstract!vars)
<1> SUFFICES ASSUME Faithful, Faithful', [Next]_vars PROVE [Abstract!Next]_(Abstract!vars)
  OBVIOUS
<1>1. CASE UNCHANGED vars
  <2>1. UNCHANGED <<image, pc, todo, seen, hwOut, inBuf, outBuf, resp, frame, req, reply>>
    BY <1>1 DEF vars, mbVars, cliVars
  <2>2. \A c \in Clients, a \in Addr : StoringNext(c, a)' <=> StoringNext(c, a)
    BY <2>1 DEF StoringNext
  <2>3. AbsImage' = AbsImage
    BY <2>1, <2>2 DEF AbsImage
  <2>4. /\ AbsPins' = AbsPins /\ AbsSlaveIn' = AbsSlaveIn /\ AbsPublished' = AbsPublished
        /\ AbsSent' = AbsSent /\ AbsAnswer' = AbsAnswer
    BY <2>1 DEF AbsPins, AbsSlaveIn, AbsPublished, AbsSent, AbsAnswer
  <2> QED
    BY <2>1, <2>3, <2>4 DEF Abstract!vars
<1>2. CASE StopServers \/ StopPlc
  BY <1>2 DEF StopServers, StopPlc, Faithful, NotQuitting
<1> QED
  BY <1>1, <1>2, MainMaps, ClientMaps, PollerMaps DEF Next, Running, Terminated

\* Until the operator asks the runtime to quit, requests, scans, exchanges with
\* slaves and updates of the pins each take effect at one instant, whatever the
\* interleaving of the loops: the runtime implements AtomicImage.
THEOREM ImplementsAtomicImage ==
    ASSUME PcccShortWrites, ~MayQuit PROVE Spec => Atomic
<1>1. Init => NotQuitting /\ Requested /\ Overlay
  BY ThreadsAssumption, InitOverlay DEF Init, NotQuitting, Requested, Short, NoRequest
<1>2. TypeOK /\ Requested /\ [Next]_vars => Requested'
  BY RequestedStep
<1>3. TypeOK /\ NotQuitting /\ [Next]_vars => NotQuitting'
  BY NotQuittingStep
<1>4. Faithful /\ [Next]_vars => Overlay'
  BY OverlayStep
<1>5. TypeOK /\ Requested /\ LockOwnership /\ ScanSnapshot /\ NotQuitting /\ Overlay
        <=> Faithful
  BY DEF Faithful
<1> QED
  BY <1>1, <1>2, <1>3, <1>4, <1>5, InitMaps, NextMaps, TypeCorrect, MutualExclusion,
     ScanIsolation, PTL DEF Spec, Atomic, Abstract!Spec
=============================================================================
