--------------------------- MODULE PersistentStorage ---------------------------
(***************************************************************************)
(* Persistent storage (webserver/core/persistent_storage.cpp): a thread    *)
(* that writes the %M registers to persistent.file when their checksum has *)
(* changed, and the reading of that file when the runtime starts.          *)
(*                                                                         *)
(* The thread takes no lock: it adds up the checksum and writes the file   *)
(* register by register while the program goes on changing them.  The      *)
(* process may exit or be killed anywhere, and the file is what stdio has  *)
(* flushed by then.  A register is one bit, so that the exclusive or of    *)
(* the registers is their parity: XOR acts on each bit alone.  Opening,    *)
(* reading and writing the file may fail; closing it does not.             *)
(***************************************************************************)
EXTENDS Integers, Sequences, FiniteSets

CONSTANTS
    M,        \* the number of registers in the file, in file order
    Initial,  \* what the PLC program initialises each register to
    Mapped,   \* the registers with storage when the runtime starts
    Savers,   \* storage threads that may come to exist
    Chunk,    \* how many registers stdio buffers
    NoFile    \* persistent.file before it is first written

Regs   == 1 .. M
Values == {0, 1}
Image  == [Regs -> Values]

ASSUME StorageAssumption ==
    /\ M \in Nat \ {0} /\ Chunk \in Nat \ {0}
    /\ Initial \in Image
    /\ Mapped \subseteq Regs
    /\ \A r \in Regs \ Mapped : Initial[r] = 0

VARIABLES
    memory,      \* int_memory, dint_memory and lint_memory
    mapped,      \* the registers whose pointer is not NULL
    file,        \* persistent.file, as another process would read it
    checksum,    \* combined_checksum
    isRead,      \* pstorage_read
    run,         \* run_pstorage
    pc,          \* where each thread is
    next,        \* the register each thread's loop comes to
    sum,         \* the checksum each thread has added up
    written      \* what each thread has written to its FILE

thread == <<pc, next, sum, written>>
vars   == <<memory, mapped, file, checksum, isRead, run, thread>>

Fresh == [t \in Savers |-> <<>>]
Ones  == [t \in Savers |-> 1]
Zeros == [t \in Savers |-> 0]
Off   == [t \in Savers |-> "off"]

\* The file may be that of another program, with other registers.
Init ==
    /\ memory = Initial
    /\ mapped = Mapped
    /\ file \in Image \cup {NoFile}
    /\ checksum = 0
    /\ isRead = FALSE
    /\ run = FALSE
    /\ pc = Off /\ next = Ones /\ sum = Zeros /\ written = Fresh

\* Faulty: the bits are added up.
Add(a, b) == a + b

Xor(a, b) == (a + b) % 2

\* What the file gives back for a register.
Saved(r) == IF file # NoFile /\ r \in DOMAIN file THEN file[r] ELSE 0

\* What a register contributes to the checksum and to the file.
Content(r) == IF r \in mapped THEN memory[r] ELSE 0

-----------------------------------------------------------------------------
\* The rest of the runtime.

\* The program, or a client, stores a register.
Store ==
    \E r \in mapped, v \in Values :
        /\ memory' = [memory EXCEPT ![r] = v]
        /\ UNCHANGED <<mapped, file, checksum, isRead, run, thread>>

\* readPersistentStorage(), under bufferLock and before the first scan: up to
\* the end of the file, registers that are not zero there are assigned.  Reading
\* may fail after n registers, and there may be no storage for those in lost.
Restore ==
    /\ ~isRead
    /\ isRead' = TRUE
    /\ \E n \in 0 .. M, lost \in SUBSET (Regs \ mapped) :
         LET given == {r \in (1 .. n) \ lost : Saved(r) # 0}
         IN  /\ memory' = [r \in Regs |-> IF r \in given THEN file[r] ELSE memory[r]]
             /\ mapped' = mapped \cup given
    /\ UNCHANGED <<file, checksum, run, thread>>

\* start_pstorage(): a thread is created whether or not one is running.
StartStorage ==
    \E t \in Savers :
        /\ pc[t] = "off"
        /\ run' = TRUE
        /\ pc' = [pc EXCEPT ![t] = "wait"]
        /\ UNCHANGED <<memory, mapped, file, checksum, isRead, next, sum, written>>

\* stop_pstorage().
StopStorage ==
    /\ run
    /\ run' = FALSE
    /\ UNCHANGED <<memory, mapped, file, checksum, isRead, thread>>

-----------------------------------------------------------------------------
\* The thread.

\* Faulty: the thread does not wait for the file to be read.
HurryToCheck(t) ==
    /\ pc[t] = "wait"
    /\ pc' = [pc EXCEPT ![t] = "check"]
    /\ UNCHANGED <<memory, mapped, file, checksum, isRead, run, next, sum, written>>

\* "We can only start persistent storage after the persistent.file was read".
WaitForRead(t) ==
    /\ pc[t] = "wait" /\ isRead
    /\ pc' = [pc EXCEPT ![t] = "check"]
    /\ UNCHANGED <<memory, mapped, file, checksum, isRead, run, next, sum, written>>

\* Faulty: the checksum goes on from the last round's.
CheckRunOnly(t) ==
    /\ pc[t] = "check"
    /\ pc' = [pc EXCEPT ![t] = IF run THEN "sum" ELSE "off"]
    /\ next' = [next EXCEPT ![t] = 1]
    /\ UNCHANGED <<memory, mapped, file, checksum, isRead, run, sum, written>>

\* while (run_pstorage).
CheckRun(t) ==
    /\ pc[t] = "check"
    /\ pc' = [pc EXCEPT ![t] = IF run THEN "sum" ELSE "off"]
    /\ next' = [next EXCEPT ![t] = 1]
    /\ sum' = [sum EXCEPT ![t] = 0]
    /\ UNCHANGED <<memory, mapped, file, checksum, isRead, run, written>>

\* calculate_combined_checksum().
AddRegister(t) ==
    /\ pc[t] = "sum" /\ next[t] <= M
    /\ sum' = [sum EXCEPT ![t] = Xor(@, Content(next[t]))]
    /\ next' = [next EXCEPT ![t] = @ + 1]
    /\ UNCHANGED <<memory, mapped, file, checksum, isRead, run, pc, written>>

\* "No changes detected, skip saving"; sleep, then look again.
SkipSave(t) ==
    /\ pc[t] = "sum" /\ next[t] > M
    /\ sum[t] = checksum
    /\ pc' = [pc EXCEPT ![t] = "check"]
    /\ UNCHANGED <<memory, mapped, file, checksum, isRead, run, next, sum, written>>

\* fopen("wb") empties the file.
OpenFile(t) ==
    /\ pc[t] = "sum" /\ next[t] > M
    /\ sum[t] # checksum
    /\ file' = <<>>
    /\ checksum' = sum[t]
    /\ pc' = [pc EXCEPT ![t] = "write"]
    /\ next' = [next EXCEPT ![t] = 1]
    /\ written' = [written EXCEPT ![t] = <<>>]
    /\ UNCHANGED <<memory, mapped, isRead, run, sum>>

\* fopen() fails: the thread ends, and run_pstorage stays set.
OpenFails(t) ==
    /\ pc[t] = "sum" /\ next[t] > M
    /\ sum[t] # checksum
    /\ pc' = [pc EXCEPT ![t] = "off"]
    /\ UNCHANGED <<memory, mapped, file, checksum, isRead, run, next, sum, written>>

\* The file once the last n registers that thread t has written are flushed;
\* what lies before them and was emptied by another thread reads as zero.
Flushed(w, n) ==
    [r \in 1 .. (IF Len(file) > Len(w) THEN Len(file) ELSE Len(w)) |->
        IF r \in Len(w) - n + 1 .. Len(w) THEN w[r]
        ELSE IF r <= Len(file) THEN file[r] ELSE 0]

Buffered(w) == Len(w) % Chunk

\* fwrite() of one register; stdio flushes when its buffer is full.
WriteRegister(t) ==
    /\ pc[t] = "write" /\ next[t] <= M
    /\ written' = [written EXCEPT ![t] = Append(@, Content(next[t]))]
    /\ next' = [next EXCEPT ![t] = @ + 1]
    /\ file' = IF Buffered(written'[t]) = 0 THEN Flushed(written'[t], Chunk) ELSE file
    /\ UNCHANGED <<memory, mapped, checksum, isRead, run, pc, sum>>

\* fwrite() fails, which is logged: the registers after it come one place
\* early in the file.
WriteFails(t) ==
    /\ pc[t] = "write" /\ next[t] <= M
    /\ next' = [next EXCEPT ![t] = @ + 1]
    /\ UNCHANGED <<memory, mapped, file, checksum, isRead, run, pc, sum, written>>

\* fclose() flushes the rest; sleep, then look again.
CloseFile(t) ==
    /\ pc[t] = "write" /\ next[t] > M
    /\ file' = Flushed(written[t], Buffered(written[t]))
    /\ pc' = [pc EXCEPT ![t] = "check"]
    /\ written' = [written EXCEPT ![t] = <<>>]
    /\ UNCHANGED <<memory, mapped, checksum, isRead, run, next, sum>>

Step(t) ==
    \/ WaitForRead(t) \/ CheckRun(t) \/ AddRegister(t) \/ SkipSave(t)
    \/ OpenFile(t) \/ OpenFails(t) \/ WriteRegister(t) \/ WriteFails(t) \/ CloseFile(t)

-----------------------------------------------------------------------------
\* The process is killed, or exits: exit() flushes what stdio has buffered,
\* and nobody waits for the thread.  The next process starts with fresh
\* memory and finds the file as it was left.
Die ==
    /\ memory' = Initial
    /\ mapped' = Mapped
    /\ checksum' = 0
    /\ isRead' = FALSE
    /\ run' = FALSE
    /\ pc' = Off /\ next' = Ones /\ sum' = Zeros /\ written' = Fresh
    /\ \/ UNCHANGED file
       \/ \E t \in Savers : written[t] # <<>> /\ file' = Flushed(written[t], Buffered(written[t]))

Next ==
    \/ Store \/ Restore \/ StartStorage \/ StopStorage
    \/ \E t \in Savers : Step(t)
    \/ Die

Spec == Init /\ [][Next]_vars

\* The thread runs on, and main() gets round to reading the file.
FairSpec == Spec /\ WF_vars(Restore) /\ \A t \in Savers : WF_vars(Step(t))

-----------------------------------------------------------------------------
\* Properties.

\* Type invariant: every variable holds what its declaration says.
TypeOK ==
    /\ memory \in Image
    /\ mapped \subseteq Regs
    /\ file = NoFile \/ (Len(file) <= M /\ \A r \in DOMAIN file : file[r] \in Values)
    /\ checksum \in Values
    /\ isRead \in BOOLEAN
    /\ run \in BOOLEAN
    /\ pc \in [Savers -> {"off", "wait", "check", "sum", "write"}]
    /\ next \in [Savers -> 1 .. M + 1]
    /\ sum \in [Savers -> Values]
    /\ \A t \in Savers : written[t] \in Seq(Values) /\ Len(written[t]) <= M

\* "We can only start persistent storage after the persistent.file was read":
\* however the runtime died and whenever the thread is started, the file is
\* not touched before its registers have been restored.
RestoredFirst == [][~isRead => file' = file]_vars

Parity(v) == Cardinality({r \in Regs : v[r] = 1}) % 2

\* Thread t is at work, and alone.
Saving(t) == run /\ isRead /\ \A u \in Savers : pc[u] # "off" <=> u = t

\* A register of the round that writes has not reached the file.
WriteFailed(t) == pc[t] = "write" /\ Len(written[t]) # next[t] - 1

\* A memory that differs from the checksum is saved as it is, unless it
\* changes meanwhile or the disk fails, however the changes before it fell
\* into the adding-up and writing of earlier rounds.
ChangeSaved ==
    \A v \in Image, t \in Savers :
        (memory = v /\ Parity(v) # checksum /\ Saving(t))
            ~> (file = v \/ memory # v \/ ~Saving(t) \/ WriteFailed(t))

\* "compare it with the actual data and write back to the persistent file if
\* the data has changed": a memory that stays as it is gets saved.
DataSaved ==
    \A v \in Image, t \in Savers :
        <>[](memory = v /\ Saving(t)) => <>[](\A r \in Regs : Saved(r) = v[r])
=============================================================================
