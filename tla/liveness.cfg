SPECIFICATION FairSpec
CONSTANTS
    LocalIn = {}
    SlaveIn = {}
    LocalOut = {2}
    SlaveOut = {}
    Memory = {3}
    Values = {0, 1}
    Driven = {2}
    Program <- CopyProgram
    Modbus = {c1}
    Pccc = {}
    Dnp3 = {d1}
    Updater = {u1}
    Poller = {}
    Requests <- MemoryClient
    Commands <- OperateMemory
    MayQuit = TRUE
    Main = Main
    Free = Free
INVARIANTS OutputsOffAtExit
PROPERTIES ScanProgress RequestServed QuitCompletes
