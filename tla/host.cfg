SPECIFICATION Spec
CONSTANTS
    BUFFER_SIZE = 1024
    offset_ao = 0
    offset_do = 0
    offset_di = 0
    Words = {0, 1, 258, 1028, 257, 65535}
    Size = 5
    Most = 3
    Writers = {w1, w2}
    Lengths = {1, 2}
    Readers = {r1}
    Handlers = {h1, h2}
    Variables = 2
    Md5Length = 32
    Protocols = {modbus}
    Peers = {c1, c2, c3}
    Threads = {th1, th2}
    Last = 1
    Browsers = {b1}
    Workers = {k1, k2}
    Timers = {t1, t2}
    Pages = {g1, g2}
    Procs = {p1, p2}
    Visitors = {v1}
    Pids = {1, 2, 3}
    Interfaces = {eth0, wlan0}
    NoWriter = NoOne
    NoHandler = NoOne
    Nobody = NoOne
    NoFile = NoOne
    Requests <- RequestSet
    VariableSize <- VariableSizes
INVARIANTS
    MapOwnWord
    MapMonitorShows
    MapCommandShows
    LogWithinBuffer
    LogSentIsLogged
    ReplyWhole
    ConnOwn
    ConnClosed
    MonAlive
    
    
    PktListed
PROPERTIES
    CapMonitors
    MonEnds
    
\* Servers that have been stopped and clients that have left stay so.
CHECK_DEADLOCK FALSE
