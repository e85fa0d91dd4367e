SPECIFICATION Spec
CONSTANTS
    LocalIn = {0}
    SlaveIn = {}
    LocalOut = {2}
    SlaveOut = {}
    Memory = {3}
    Values = {0, 1}
    Driven = {2}
    Program <- CopyProgram
    Modbus = {c1}
    Pccc = {}
    Dnp3 = {d1}
    Updater = {u1}
    Poller = {}
    Requests <- PairClient
    Commands <- OperateEdge
    MayQuit = FALSE
    Main = Main
    Free = Free
INVARIANTS TypeOK LockOwnership ScanSnapshot RequestAtomic
PROPERTIES Atomic
\* A callback that returns with the lock stops every thread in the end.
CHECK_DEADLOCK FALSE
