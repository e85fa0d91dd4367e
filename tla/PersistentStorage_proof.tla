------------------------ MODULE PersistentStorage_proof ------------------------
(***************************************************************************)
(* That persistent.file is never touched before it has been read, however  *)
(* many storage threads there are and wherever the process died before,    *)
(* and that every variable keeps its type on the way.                      *)
(***************************************************************************)
EXTENDS PersistentStorage, TLAPS

\* Until the file has been read no thread has passed the wait, and no thread
\* holds anything that an exit could flush.
Waiting ==
    /\ DOMAIN pc = Savers /\ DOMAIN written = Savers
    /\ isRead \in BOOLEAN
    /\ ~isRead => \A t \in Savers : pc[t] \in {"off", "wait"} /\ written[t] = <<>>

LEMMA InitWaiting == Init => Waiting
BY DEF Init, Waiting, Off, Fresh

\* Past the wait, a thread's step is taken with the file read, and leaves it so.
LEMMA StepWaits ==
    ASSUME Waiting, NEW t \in Savers, Step(t)
    PROVE  Waiting' /\ (~isRead => file' = file)
<1>1. CASE WaitForRead(t)
  BY <1>1 DEF Waiting, WaitForRead
<1>2. CASE CheckRun(t)
  BY <1>2 DEF Waiting, CheckRun
<1>3. CASE AddRegister(t)
  BY <1>3 DEF Waiting, AddRegister
<1>4. CASE SkipSave(t)
  BY <1>4 DEF Waiting, SkipSave
<1>5. CASE OpenFile(t)
  BY <1>5 DEF Waiting, OpenFile
<1>6. CASE OpenFails(t)
  BY <1>6 DEF Waiting, OpenFails
<1>7. CASE WriteRegister(t)
  BY <1>7 DEF Waiting, WriteRegister
<1>8. CASE WriteFails(t)
  BY <1>8 DEF Waiting, WriteFails
<1>9. CASE CloseFile(t)
  BY <1>9 DEF Waiting, CloseFile
<1> QED
  BY <1>1, <1>2, <1>3, <1>4, <1>5, <1>6, <1>7, <1>8, <1>9 DEF Step

\* The process dies: before the read there is nothing to flush.
LEMMA DieWaits ==
    ASSUME Waiting, Die
    PROVE  Waiting' /\ (~isRead => file' = file)
<1>1. Waiting'
  BY DEF Waiting, Die, Off, Fresh
<1>2. ~isRead => file' = file
  BY DEF Waiting, Die
<1> QED
  BY <1>1, <1>2

LEMMA NextWaits ==
    ASSUME Waiting, [Next]_vars
    PROVE  Waiting' /\ (~isRead => file' = file)
<1>1. CASE Store
  BY <1>1 DEF Waiting, Store, thread
<1>2. CASE Restore
  BY <1>2 DEF Waiting, Restore, thread
<1>3. CASE StartStorage
  BY <1>3 DEF Waiting, StartStorage
<1>4. CASE StopStorage
  BY <1>4 DEF Waiting, StopStorage, thread
<1>5. CASE \E t \in Savers : Step(t)
  BY <1>5, StepWaits
<1>6. CASE Die
  BY <1>6, DieWaits
<1>7. CASE UNCHANGED vars
  BY <1>7 DEF Waiting, vars, thread
<1> QED
  BY <1>1, <1>2, <1>3, <1>4, <1>5, <1>6, <1>7 DEF Next

\* persistent.file is left as it is until readPersistentStorage() is through
\* with it, in this run of the runtime and in every one after a crash.
THEOREM FileReadFirst == Spec => RestoredFirst
<1>1. Waiting /\ [Next]_vars => Waiting'
  BY NextWaits
<1>2. Waiting /\ [Next]_vars => [~isRead => file' = file]_vars
  BY NextWaits
<1> QED
  BY InitWaiting, <1>1, <1>2, PTL DEF Spec, RestoredFirst

-----------------------------------------------------------------------------
\* Type correctness.

\* A file that some process has written.
IsFile(f) == f \in Seq(Values) /\ Len(f) <= M

\* What a thread has written is no longer than what it has come past, and only
\* a thread that writes, to a file it has emptied, has anything to flush.
Writing ==
    /\ \A t \in Savers : pc[t] = "write" => IsFile(file) /\ Len(written[t]) < next[t]
    /\ \A t \in Savers : pc[t] # "write" => written[t] = <<>>

Typed ==
    /\ memory \in Image
    /\ mapped \subseteq Regs
    /\ file = NoFile \/ IsFile(file)
    /\ checksum \in Values
    /\ isRead \in BOOLEAN
    /\ run \in BOOLEAN
    /\ pc \in [Savers -> {"off", "wait", "check", "sum", "write"}]
    /\ next \in [Savers -> 1 .. M + 1]
    /\ sum \in [Savers -> Values]
    /\ written \in [Savers -> Seq(Values)]
    /\ Writing

LEMMA ValuesClosed ==
    ASSUME NEW a \in Values, NEW b \in Values PROVE Xor(a, b) \in Values
BY DEF Xor, Values

LEMMA FileOfImage == ASSUME NEW f \in Image PROVE IsFile(f)
<1>1. M \in Nat
  BY StorageAssumption
<1>2. f \in Seq(Values) /\ Len(f) = M
  BY <1>1 DEF Image, Regs
<1> QED
  BY <1>1, <1>2 DEF IsFile

LEMMA BufferedNat == ASSUME NEW w \in Seq(Values) PROVE Buffered(w) \in Nat
<1>1. \A n \in Nat, c \in Nat \ {0} : n % c \in Nat
  OBVIOUS
<1>2. Len(w) \in Nat /\ Chunk \in Nat \ {0}
  BY StorageAssumption
<1> QED
  BY <1>1, <1>2 DEF Buffered

LEMMA EmptyFile == IsFile(<<>>)
BY StorageAssumption DEF IsFile

\* What is flushed is a file.
LEMMA FlushedFile ==
    ASSUME IsFile(file), NEW w \in Seq(Values), Len(w) <= M, NEW n \in Nat
    PROVE  IsFile(Flushed(w, n))
<1> DEFINE L == IF Len(file) > Len(w) THEN Len(file) ELSE Len(w)
           v(r) == IF r \in Len(w) - n + 1 .. Len(w) THEN w[r]
                   ELSE IF r <= Len(file) THEN file[r] ELSE 0
<1>1. /\ M \in Nat /\ file \in Seq(Values) /\ Len(file) <= M
      /\ Len(file) \in Nat /\ Len(w) \in Nat
  BY StorageAssumption DEF IsFile
<1>2. L \in Nat /\ L <= M /\ Len(w) <= L /\ Len(file) <= L
  BY <1>1
<1>3. ASSUME NEW r \in 1 .. L PROVE v(r) \in Values
  <2>1. CASE r \in Len(w) - n + 1 .. Len(w)
    <3>1. r \in 1 .. Len(w)
      BY <1>1, <1>2, <2>1
    <3>2. w[r] \in Values
      BY <3>1
    <3> QED
      BY <2>1, <3>2
  <2>2. CASE r \notin Len(w) - n + 1 .. Len(w) /\ r <= Len(file)
    <3>1. r \in 1 .. Len(file)
      BY <1>1, <1>2, <2>2
    <3>2. file[r] \in Values
      BY <1>1, <3>1
    <3> QED
      BY <2>2, <3>2
  <2>3. CASE r \notin Len(w) - n + 1 .. Len(w) /\ ~(r <= Len(file))
    BY <2>3 DEF Values
  <2> QED
    BY <2>1, <2>2, <2>3
<1>4. Flushed(w, n) = [r \in 1 .. L |-> v(r)]
  BY DEF Flushed
<1> HIDE DEF L, v
<1>5. [r \in 1 .. L |-> v(r)] \in [1 .. L -> Values]
  BY <1>3
<1>6. [r \in 1 .. L |-> v(r)] \in Seq(Values) /\ Len([r \in 1 .. L |-> v(r)]) = L
  BY <1>2, <1>5
<1> QED
  BY <1>2, <1>4, <1>6 DEF IsFile

\* The threads of a process that has just started.
LEMMA FreshThreads ==
    /\ Off \in [Savers -> {"off", "wait", "check", "sum", "write"}]
    /\ Ones \in [Savers -> 1 .. M + 1]
    /\ Zeros \in [Savers -> Values]
    /\ Fresh \in [Savers -> Seq(Values)]
    /\ \A t \in Savers : Off[t] = "off" /\ Fresh[t] = <<>>
<1>1. Off \in [Savers -> {"off", "wait", "check", "sum", "write"}]
  BY DEF Off
<1>2. 1 \in 1 .. M + 1 /\ 0 \in Values
  BY StorageAssumption DEF Values
<1>3. Ones \in [Savers -> 1 .. M + 1] /\ Zeros \in [Savers -> Values]
  BY <1>2 DEF Ones, Zeros
<1>4. <<>> \in Seq(Values)
  OBVIOUS
<1>5. Fresh \in [Savers -> Seq(Values)]
  BY <1>4 DEF Fresh
<1>6. \A t \in Savers : Off[t] = "off" /\ Fresh[t] = <<>>
  BY DEF Off, Fresh
<1> QED
  BY <1>1, <1>3, <1>5, <1>6

LEMMA InitTyped == Init => Typed
<1> SUFFICES ASSUME Init PROVE Typed
  OBVIOUS
<1>1. file = NoFile \/ IsFile(file)
  BY FileOfImage DEF Init
<1>2. memory \in Image /\ mapped \subseteq Regs
  BY StorageAssumption DEF Init
<1>3. checksum \in Values /\ isRead \in BOOLEAN /\ run \in BOOLEAN
  BY DEF Init, Values
<1> QED
  BY <1>1, <1>2, <1>3, FreshThreads DEF Init, Typed, Writing

\* What a step leaves of the registers' contents.
LEMMA ContentValue == ASSUME Typed, NEW r \in Regs PROVE Content(r) \in Values
BY DEF Typed, Content, Image, Values

LEMMA StepTyped ==
    ASSUME Typed, NEW t \in Savers, Step(t)
    PROVE  Typed'
<1>0. M \in Nat \ {0} /\ Chunk \in Nat \ {0}
  BY StorageAssumption
<1>1. CASE WaitForRead(t)
  BY <1>1 DEF WaitForRead, Typed, Writing
<1>2. CASE CheckRun(t)
  BY <1>0, <1>2 DEF CheckRun, Typed, Writing, Values
<1>3. CASE AddRegister(t)
  <2>1. next[t] \in Regs /\ next[t] + 1 \in 1 .. M + 1
    BY <1>0, <1>3 DEF AddRegister, Typed, Regs
  <2>2. Xor(sum[t], Content(next[t])) \in Values
    BY <2>1, ContentValue, ValuesClosed DEF Typed
  <2> QED
    BY <1>0, <1>3, <2>1, <2>2 DEF AddRegister, Typed, Writing
<1>4. CASE SkipSave(t)
  BY <1>4 DEF SkipSave, Typed, Writing
<1>5. CASE OpenFile(t)
  <2>1. IsFile(file')
    BY <1>5, EmptyFile DEF OpenFile
  <2> QED
    BY <1>0, <1>5, <2>1 DEF OpenFile, Typed, Writing
<1>6. CASE OpenFails(t)
  BY <1>6 DEF OpenFails, Typed, Writing
<1>7. CASE WriteRegister(t)
  <2>1. next[t] \in Regs /\ next[t] + 1 \in 1 .. M + 1 /\ IsFile(file)
    BY <1>0, <1>7 DEF WriteRegister, Typed, Regs, Writing
  <2> DEFINE w == Append(written[t], Content(next[t]))
  <2>2. w \in Seq(Values) /\ Len(w) = Len(written[t]) + 1
    BY <2>1, ContentValue DEF Typed
  <2>3. written[t] \in Seq(Values) /\ Len(written[t]) \in Nat /\ Len(written[t]) < next[t]
    BY <1>7 DEF WriteRegister, Typed, Writing
  <2>4. Len(w) < next[t] + 1 /\ Len(w) <= M
    BY <1>0, <2>1, <2>2, <2>3 DEF Regs
  <2> HIDE DEF w
  <2>5. written' = [written EXCEPT ![t] = w] /\ written'[t] = w
    BY <1>7 DEF WriteRegister, Typed, w
  <2>6. IsFile(file')
    BY <1>0, <1>7, <2>1, <2>2, <2>4, <2>5, FlushedFile DEF WriteRegister
  <2>7. next' \in [Savers -> 1 .. M + 1] /\ written' \in [Savers -> Seq(Values)]
    BY <1>7, <2>1, <2>2, <2>5 DEF WriteRegister, Typed
  <2>8. Writing'
    <3>1. SUFFICES ASSUME NEW u \in Savers
                   PROVE  /\ pc'[u] = "write" => IsFile(file') /\ Len(written'[u]) < next'[u]
                          /\ pc'[u] # "write" => written'[u] = <<>>
      BY DEF Writing
    <3>2. CASE u = t
      BY <1>7, <2>2, <2>4, <2>5, <2>6, <3>2 DEF WriteRegister, Typed
    <3>3. CASE u # t
      BY <1>7, <2>5, <2>6, <3>3 DEF WriteRegister, Typed, Writing
    <3> QED
      BY <3>2, <3>3
  <2> QED
    BY <1>7, <2>6, <2>7, <2>8 DEF WriteRegister, Typed
<1>8. CASE WriteFails(t)
  <2>1. next[t] + 1 \in 1 .. M + 1 /\ Len(written[t]) \in Nat
    BY <1>0, <1>8 DEF WriteFails, Typed
  <2> QED
    BY <1>0, <1>8, <2>1 DEF WriteFails, Typed, Writing
<1>9. CASE CloseFile(t)
  <2>1. IsFile(file) /\ Len(written[t]) <= M /\ written[t] \in Seq(Values)
    BY <1>0, <1>9 DEF CloseFile, Typed, Writing
  <2>2. Buffered(written[t]) \in Nat
    BY <2>1, BufferedNat
  <2>3. IsFile(file')
    BY <1>9, <2>1, <2>2, FlushedFile DEF CloseFile
  <2> QED
    BY <1>9, <2>3 DEF CloseFile, Typed, Writing
<1> QED
  BY <1>1, <1>2, <1>3, <1>4, <1>5, <1>6, <1>7, <1>8, <1>9 DEF Step

LEMMA DieTyped == ASSUME Typed, Die PROVE Typed'
<1>0. M \in Nat \ {0} /\ Chunk \in Nat \ {0}
  BY StorageAssumption
<1>1. file' = NoFile \/ IsFile(file')
  <2>1. CASE UNCHANGED file
    BY <2>1 DEF Typed
  <2>2. CASE \E t \in Savers : /\ written[t] # <<>>
                               /\ file' = Flushed(written[t], Buffered(written[t]))
    <3>1. PICK t \in Savers : /\ written[t] # <<>>
                              /\ file' = Flushed(written[t], Buffered(written[t]))
      BY <2>2
    <3>2. pc[t] = "write" /\ IsFile(file) /\ Len(written[t]) < next[t]
      BY <3>1 DEF Typed, Writing
    <3>3. written[t] \in Seq(Values) /\ Len(written[t]) \in Nat /\ next[t] \in 1 .. M + 1
      BY DEF Typed
    <3>4. Len(written[t]) <= M
      BY <1>0, <3>2, <3>3
    <3>5. Buffered(written[t]) \in Nat
      BY <3>3, BufferedNat
    <3> QED
      BY <3>1, <3>2, <3>3, <3>4, <3>5, FlushedFile
  <2> QED
    BY <2>1, <2>2 DEF Die
<1>2. memory' \in Image /\ mapped' \subseteq Regs
  BY StorageAssumption DEF Die
<1>3. checksum' \in Values /\ isRead' \in BOOLEAN /\ run' \in BOOLEAN
  BY DEF Die, Values
<1> QED
  BY <1>1, <1>2, <1>3, FreshThreads DEF Die, Typed, Writing

LEMMA NextTyped == ASSUME Typed, [Next]_vars PROVE Typed'
<1>1. CASE Store
  BY <1>1 DEF Store, thread, Typed, Writing, Image
<1>2. CASE Restore
  <2>1. PICK n \in 0 .. M, lost \in SUBSET (Regs \ mapped) :
           LET given == {r \in (1 .. n) \ lost : Saved(r) # 0}
           IN  /\ memory' = [r \in Regs |-> IF r \in given THEN file[r] ELSE memory[r]]
               /\ mapped' = mapped \cup given
    BY <1>2 DEF Restore
  <2> DEFINE given == {r \in (1 .. n) \ lost : Saved(r) # 0}
  <2>2. given \subseteq Regs
    BY StorageAssumption DEF Regs
  <2>3. \A r \in given : file[r] \in Values
    BY DEF Saved, Typed, IsFile
  <2>4. memory' \in Image /\ mapped' \subseteq Regs
    BY <2>1, <2>2, <2>3 DEF Typed, Image
  <2> QED
    BY <1>2, <2>4 DEF Restore, thread, Typed, Writing
<1>3. CASE StartStorage
  BY <1>3 DEF StartStorage, Typed, Writing
<1>4. CASE StopStorage
  BY <1>4 DEF StopStorage, thread, Typed, Writing
<1>5. CASE \E t \in Savers : Step(t)
  BY <1>5, StepTyped
<1>6. CASE Die
  BY <1>6, DieTyped
<1>7. CASE UNCHANGED vars
  BY <1>7 DEF vars, thread, Typed, Writing
<1> QED
  BY <1>1, <1>2, <1>3, <1>4, <1>5, <1>6, <1>7 DEF Next

\* Every variable of PersistentStorage keeps its type, through every crash and
\* with any number of threads that write the file at once.
THEOREM TypeCorrect == Spec => []TypeOK
<1>1. Typed /\ [Next]_vars => Typed'
  BY NextTyped
<1>2. ASSUME Typed PROVE TypeOK
  <2>1. file = NoFile \/ (Len(file) <= M /\ \A r \in DOMAIN file : file[r] \in Values)
    BY <1>2 DEF Typed, IsFile
  <2>2. \A t \in Savers : written[t] \in Seq(Values) /\ Len(written[t]) <= M
    BY <1>2, StorageAssumption DEF Typed, Writing
  <2> QED
    BY <1>2, <2>1, <2>2 DEF Typed, TypeOK
<1> QED
  BY InitTyped, <1>1, <1>2, PTL DEF Spec
=============================================================================
