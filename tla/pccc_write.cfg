SPECIFICATION Spec
CONSTANTS
    LocalIn = {0}
    SlaveIn = {}
    LocalOut = {2}
    SlaveOut = {}
    Memory = {3}
    Values = {0, 1}
    Driven = {2}
    Program <- CopyProgram
    Modbus = {}
    Pccc = {e1}
    Dnp3 = {}
    Updater = {}
    Poller = {}
    Requests <- PairClient
    Commands = {}
    MayQuit = FALSE
    Main = Main
    Free = Free
INVARIANTS ScanSnapshot
