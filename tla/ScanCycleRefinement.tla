-------------------------- MODULE ScanCycleRefinement --------------------------
(***************************************************************************)
(* ScanCycle implements AtomicImage.  What the holder of a lock is still   *)
(* to do counts as done from the moment it takes the lock: the abstract    *)
(* variables are the concrete ones with that work overlaid.                *)
(***************************************************************************)
EXTENDS ScanCycle

\* The client that is storing register a of a multiple write.
StoringNext(c, a) ==
    pc[c] = "serving" /\ req[c].op = "write" /\ a \in todo[c] \cap Holding

\* The scan happens when the outputs are published: until then the table
\* counts as what the program read.
AbsImage ==
    IF pc[Main] \in {"drive", "mboutlock"} THEN seen
    ELSE [a \in Addr |->
            IF pc[Main] = "mbin" /\ a \in todo[Main] THEN inBuf[a]
            ELSE IF \E c \in Clients : StoringNext(c, a)
                 THEN req[CHOOSE c \in Clients : StoringNext(c, a)].data[a]
                 ELSE image[a]]

AbsPins ==
    [a \in LocalOut |-> IF pc[Main] \in {"out", "lastout"} /\ a \in todo[Main]
                        THEN image[a] ELSE hwOut[a]]

AbsSlaveIn ==
    [a \in SlaveIn |-> IF \E p \in Poller : pc[p] = "store" /\ a \in todo[p]
                       THEN resp[a] ELSE inBuf[a]]

AbsPublished ==
    [a \in SlaveOut |-> IF pc[Main] = "mbout" /\ a \in todo[Main]
                        THEN image[a] ELSE outBuf[a]]

AbsSent ==
    [a \in SlaveOut |-> IF \E p \in Poller : pc[p] = "fetch" /\ a \in todo[p]
                        THEN outBuf[a] ELSE frame[a]]

AbsAnswer ==
    [c \in Clients |-> [a \in Addr |->
        IF pc[c] = "serving" /\ req[c].op = "read" /\ a \in todo[c]
        THEN image[a] ELSE reply[c][a]]]

Abstract == INSTANCE AtomicImage WITH
    image <- AbsImage, pins <- AbsPins, slaveIn <- AbsSlaveIn,
    published <- AbsPublished, sent <- AbsSent, want <- req,
    pending <- {c \in Clients : pc[c] = "waiting"}, answer <- AbsAnswer,
    Requests <- Requests \cup Commands \cup {ReadAll}

\* Every behaviour of the runtime, seen through the overlay, is one in which
\* requests, scans, slave exchanges and pin updates are single steps.
Atomic == Abstract!Spec
=============================================================================
