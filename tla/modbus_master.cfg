SPECIFICATION Spec
CONSTANTS
    N = 3
    Size <- SizeOf
    Offset <- OffsetOf
    Rtu = {1, 2}
    Line <- Lines
    MaxIo = 12
    Located <- LocatedHere
    None = None
    Host = Host
    Tty = Tty
INVARIANTS TypeOK InputsInPlace OutputsInPlace ContextsMatch
