----------------------------- MODULE MCScanCycle -----------------------------
(***************************************************************************)
(* Small instances of ScanCycle: two or three registers of each kind that  *)
(* matter, two values, and requests that touch two registers or run off    *)
(* the end of the table.                                                   *)
(***************************************************************************)
EXTENDS ScanCycleRefinement

\* The program copies its lowest input or memory register to every register
\* it drives, so that its outputs change from scan to scan.
CopyProgram ==
    [i \in Image |-> [a \in Driven |-> i[Least(Addr \ (LocalOut \cup SlaveOut))]]]

\* The program repeats the first slave input on every register it drives.
SlaveProgram ==
    [i \in Image |-> [a \in Driven |-> i[Least(SlaveIn)]]]

Fill(S, v) == [op |-> "write", regs |-> S, data |-> [a \in S |-> v]]
Read(S)    == [op |-> "read", regs |-> S, data |-> [a \in S |-> 0]]
Fills(S)   == {Fill(S, v) : v \in Values}

\* Register 9 is beyond the end of every table used here.
ReadPair    == {Read({2, 3})}
PairClient  == Fills({2, 3}) \cup ReadPair
\* A PCCC client may write one word at a time.
SlaveClient == {Read({1, 2}), Fill({5}, 1)}
\* Requests that touch memory alone, run off the end or ask for nothing.
MemoryClient == {Fill({3, 9}, 1), Read({2, 9})}
NoCommand    == {}
OperateEdge  == Fills({2}) \cup Fills({9})
OperateMemory == {Fill({3}, 1)}
=============================================================================
