SPECIFICATION Spec
CONSTANTS
    LocalIn = {0}
    SlaveIn = {1, 2}
    LocalOut = {3}
    SlaveOut = {4, 5}
    Memory = {}
    Values = {0, 1}
    Driven = {3, 4, 5}
    Program <- SlaveProgram
    Modbus = {}
    Pccc = {e1}
    Dnp3 = {}
    Updater = {}
    Poller = {p1}
    Requests <- SlaveClient
    Commands <- NoCommand
    MayQuit = FALSE
    Main = Main
    Free = Free
INVARIANTS SlaveBlockAtomic
PROPERTIES Atomic
