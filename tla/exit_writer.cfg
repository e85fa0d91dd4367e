SPECIFICATION Spec
CONSTANTS
    LocalIn = {0}
    SlaveIn = {}
    LocalOut = {2}
    SlaveOut = {}
    Memory = {3}
    Values = {0, 1}
    Driven = {2}
    Program <- CopyProgram
    Modbus = {c1}
    Pccc = {}
    Dnp3 = {}
    Updater = {}
    Poller = {}
    Requests <- PairClient
    Commands = {}
    MayQuit = TRUE
    Main = Main
    Free = Free
INVARIANTS OutputsOffAtExit
