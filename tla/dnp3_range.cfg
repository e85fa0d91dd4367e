SPECIFICATION FairSpec
CONSTANTS
    LocalIn = {0}
    SlaveIn = {}
    LocalOut = {2}
    SlaveOut = {}
    Memory = {3}
    Values = {0, 1}
    Driven = {2}
    Program <- CopyProgram
    Modbus = {}
    Pccc = {}
    Dnp3 = {d1}
    Updater = {}
    Poller = {}
    Requests = {}
    Commands <- OperateEdge
    MayQuit = FALSE
    Main = Main
    Free = Free
PROPERTIES ScanProgress
\* Once the lock is lost every thread waits for it.
CHECK_DEADLOCK FALSE
