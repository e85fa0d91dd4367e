------------------------------ MODULE ModbusReply ------------------------------
(***************************************************************************)
(* How a Modbus/TCP request becomes an answer (webserver/core/modbus.cpp): *)
(* processModbusMessage() and the functions it calls put the answer        *)
(* together in the handler's own buffer, but leave its length in           *)
(* MessageLength, one variable of all handlers that bufferLock does not    *)
(* protect.  processMessage() (server.cpp) then sends that many bytes.     *)
(*                                                                         *)
(* A request is a function, a start, a count and the bytes that came; of   *)
(* the answer the model keeps the two lengths it has: the one in its       *)
(* header (bytes 4 and 5) and the one that is sent.  What is read and      *)
(* stored under bufferLock is in ScanCycle, and where in AddressMap.       *)
(***************************************************************************)
EXTENDS Integers

CONSTANTS
    Handlers,      \* handler threads of Modbus clients
    Requests,      \* what clients send
    Variables,     \* get_var_count()
    VariableSize,  \* get_var_size(): the size of each variable
    Md5Length,     \* the length of md5
    NoHandler

Reads  == {"coils", "inputs", "holding", "inputregs"}
Singles == {"writecoil", "writereg"}
Multiples == {"writecoils", "writeregs"}
Debug  == {"info", "set", "get", "list", "md5"}
Functions == Reads \cup Singles \cup Multiples \cup Debug \cup {"other"}

Word16 == 0..65535
Byte == 0..255

\* size is what read() returned, bytecount is buffer[12].
RequestType == [fc : Functions, start : Word16, n : Word16,
                size : Nat \ {0}, bytecount : Byte]

ReplyAssumption ==
    /\ Requests \subseteq RequestType
    /\ Variables \in Nat /\ VariableSize \in [0..Variables - 1 -> Nat]
    /\ Md5Length \in Nat
    /\ NoHandler \notin Handlers

VARIABLES
    MessageLength,  \* MessageLength
    replyLock,      \* who holds bufferLock among the handlers, or NoHandler
    stage,          \* where each handler is
    request,        \* the request each handler serves
    header,         \* bytes 4 and 5 of its buffer
    messageSize,    \* what processModbusMessage() returned to it
    alone           \* whether no other handler was in it meanwhile

replyVars == <<MessageLength, replyLock, stage, request, header, messageSize, alone>>

-----------------------------------------------------------------------------
\* What a request asks for.

OfCoils(q) == q.fc \in {"coils", "inputs", "writecoil", "writecoils"}

\* ByteDataLength: bits are rounded up to whole bytes.
ByteDataLength(q) == IF OfCoils(q) THEN (q.n + 7) \div 8 ELSE 2 * q.n

\* The registers or bits that the loops go over.
Count(q) == IF q.fc \in Singles THEN 1
            ELSE IF OfCoils(q) THEN 8 * ByteDataLength(q) ELSE q.n

\* MAX_COILS, MAX_DISCRETE_INPUT, MAX_64B_RANGE + 1 and MAX_INP_REGS.
Limit(q) == IF q.fc = "inputregs" THEN 1024 ELSE 8192

\* Answered with an error before the lock is taken.
Refused(q) ==
    \/ q.size < 8 \/ q.fc = "other"
    \/ q.fc \notin Debug /\ q.size < 12
    \/ q.fc \in Reads /\ ByteDataLength(q) > 255
    \/ q.fc \in Multiples /\ (q.size < 13 + ByteDataLength(q) \/ q.bytecount # ByteDataLength(q))
    \/ q.fc = "writecoil" /\ q.start >= Limit(q)

\* Some of it lies outside the tables: an error after the rest was done.
Outside(q) == Count(q) > 0 /\ q.start + Count(q) > Limit(q)

\* The sizes of the variables of debugGetTrace(), added up from the first.
Sum(q) == LET sum[k \in 0..Variables] ==
                  IF k = 0 THEN 0
                  ELSE sum[k - 1] + (IF k - 1 < q.start THEN 0 ELSE VariableSize[k - 1])
          IN  sum

\* responseSize: as many variables as fit into MAX_MB_FRAME.
ResponseSize(q) ==
    LET fits == {k \in q.start..q.n + 1 : Sum(q)[k] + 17 <= 260}
    IN  Sum(q)[CHOOSE k \in fits : \A j \in fits : j <= k]

\* numIndexes and the variables of debugGetTraceList() that fit: a list is one of
\* variable start, n times.
TooMany(q)  == q.n > 60
NoSuch(q)   == q.n > 0 /\ q.start >= Variables
ListData(q) ==
    CHOOSE size \in 0..243 :
        \E k \in 0..q.n :
           /\ size = IF k = 0 THEN 0 ELSE k * VariableSize[q.start]
           /\ k = q.n \/ 17 + size + VariableSize[q.start] > 260

\* debugGetTrace() refuses the range.
BadRange(q) == q.start >= Variables \/ q.n >= Variables \/ q.start > q.n

\* What the debugger's functions leave in MessageLength.
DebugLength(q) ==
    CASE q.fc = "info" -> 10
      [] q.fc = "set"  -> 9
      [] q.fc = "md5"  -> Md5Length + 9
      [] q.fc = "get"  -> IF BadRange(q) THEN 9 ELSE 13 + ResponseSize(q)
      [] q.fc = "list" -> IF TooMany(q) THEN 9 ELSE IF NoSuch(q) THEN 3 ELSE 17 + ListData(q)

\* What the function leaves in MessageLength when there is no error.
Length(q) ==
    IF q.fc \in Debug THEN DebugLength(q)
    ELSE IF q.fc \in Reads THEN ByteDataLength(q) + 9 ELSE 12

\* The bytes of an answer as the frames are laid out.  A debugger's begins with
\* its function at byte 7: a count; or a code; or a code, the md5; or a code, the
\* last index, the tick, the size and the data.
CodeEnd   == 7 + 1 + 1
DataStart == CodeEnd + 2 + 4 + 2

DebugFrame(q) ==
    CASE q.fc = "info" -> 7 + 1 + 2
      [] q.fc = "set"  -> CodeEnd
      [] q.fc = "md5"  -> Md5Length + CodeEnd
      [] q.fc = "get"  -> IF BadRange(q) THEN CodeEnd ELSE DataStart + ResponseSize(q)
      [] q.fc = "list" -> IF TooMany(q) \/ NoSuch(q) THEN CodeEnd ELSE DataStart + ListData(q)

\* A header of 7, then the function and the code of an error; or the function,
\* the number of bytes and the data; or the function, the start and the count.
Answer(q) ==
    IF q.fc \in Debug /\ ~Refused(q) THEN DebugFrame(q)
    ELSE IF Refused(q) \/ Outside(q) THEN CodeEnd
    ELSE IF q.fc \in Reads THEN 7 + 1 + 1 + ByteDataLength(q) ELSE 7 + 1 + 2 + 2

\* The answers that the code counts wrongly: the data of debugGetTrace(), which
\* begin at byte 17 and are counted from 13, and the error of
\* debugGetTraceList() for a variable that does not exist.
Miscounted(q) ==
    ~Refused(q) /\ \/ q.fc = "get" /\ ~BadRange(q)
                   \/ q.fc = "list" /\ ~TooMany(q) /\ NoSuch(q)

-----------------------------------------------------------------------------
ReplyInit ==
    /\ MessageLength = 0
    /\ replyLock = NoHandler
    /\ stage = [h \in Handlers |-> "listen"]
    /\ request = [h \in Handlers |-> CHOOSE q \in Requests : TRUE]
    /\ header = [h \in Handlers |-> 0]
    /\ messageSize = [h \in Handlers |-> 0]
    /\ alone = [h \in Handlers |-> FALSE]

Go(h, from, to) == stage[h] = from /\ stage' = [stage EXCEPT ![h] = to]

Inside(h) == stage[h] \notin {"listen", "begin", "write"}

\* listenToClient(): the buffer holds the request, with a header of its own.
Listen(h) ==
    /\ Go(h, "listen", "begin")
    /\ \E q \in Requests :
          /\ request' = [request EXCEPT ![h] = q]
          /\ header' = [header EXCEPT ![h] = q.size - 6]
    /\ UNCHANGED <<MessageLength, replyLock, messageSize, alone>>

\* Where processModbusMessage() goes with a request.
Way(q) ==
    IF Refused(q) THEN "refuse"
    ELSE IF q.fc \in Debug THEN "report" ELSE "lock"

\* MessageLength = 0; the functions that answer with data or write several
\* values prepare the header before they take the lock.
Begin(h) ==
    LET q == request[h]
    IN  /\ Go(h, "begin", Way(q))
        /\ MessageLength' = 0
        /\ header' = [header EXCEPT ![h] =
              IF Way(q) # "lock" \/ q.fc \in Singles THEN @
              ELSE IF q.fc \in Reads THEN ByteDataLength(q) + 3 ELSE 6]
        /\ alone' = [g \in Handlers |->
              IF g = h THEN \A o \in Handlers \ {h} : ~Inside(o)
              ELSE alone[g] /\ ~Inside(g)]
        /\ UNCHANGED <<replyLock, request, messageSize>>

LockTables(h) ==
    /\ replyLock = NoHandler
    /\ Go(h, "lock", "serve")
    /\ replyLock' = h
    /\ UNCHANGED <<MessageLength, request, header, messageSize, alone>>

\* The loop has gone over the tables; then comes the length or the error.
UnlockTables(h) ==
    /\ Go(h, "serve", IF Outside(request[h]) THEN "refuse" ELSE "report")
    /\ replyLock' = NoHandler
    /\ UNCHANGED <<MessageLength, request, header, messageSize, alone>>

\* Faulty: the header keeps what was prepared for the data.
RefuseStale(h) ==
    /\ Go(h, "refuse", "return")
    /\ MessageLength' = 9
    /\ UNCHANGED <<replyLock, request, header, messageSize, alone>>

\* ModbusError()
Refuse(h) ==
    /\ Go(h, "refuse", "return")
    /\ MessageLength' = 9
    /\ header' = [header EXCEPT ![h] = 3]
    /\ UNCHANGED <<replyLock, request, messageSize, alone>>

\* Faulty: the functions that write several values set no length.
ReportForgets(h) ==
    LET q == request[h]
    IN  /\ Go(h, "report", "return")
        /\ MessageLength' = IF q.fc \in Multiples THEN MessageLength ELSE Length(q)
        /\ header' = [header EXCEPT ![h] = IF q.fc \in Singles THEN 6 ELSE @]
        /\ UNCHANGED <<replyLock, request, messageSize, alone>>

\* MessageLength = ...; single writes complete the header here.
Report(h) ==
    LET q == request[h]
    IN  /\ Go(h, "report", "return")
        /\ MessageLength' = Length(q)
        /\ header' = [header EXCEPT ![h] = IF q.fc \in Singles THEN 6 ELSE @]
        /\ UNCHANGED <<replyLock, request, messageSize, alone>>

\* return MessageLength
Return(h) ==
    /\ Go(h, "return", "write")
    /\ messageSize' = [messageSize EXCEPT ![h] = MessageLength]
    /\ UNCHANGED <<MessageLength, replyLock, request, header, alone>>

\* write(client_fd, buffer, messageSize)
WriteReply(h) ==
    /\ Go(h, "write", "listen")
    /\ messageSize' = [messageSize EXCEPT ![h] = 0]
    /\ header' = [header EXCEPT ![h] = 0]
    /\ request' = [request EXCEPT ![h] = CHOOSE q \in Requests : TRUE]
    /\ alone' = [alone EXCEPT ![h] = FALSE]
    /\ UNCHANGED <<MessageLength, replyLock>>

ReplyStep(h) ==
    \/ Begin(h) \/ LockTables(h) \/ UnlockTables(h) \/ Refuse(h) \/ Report(h)
    \/ Return(h) \/ WriteReply(h)

ReplyNext == \E h \in Handlers : Listen(h) \/ ReplyStep(h)

ReplySpec == ReplyInit /\ [][ReplyNext]_replyVars
-----------------------------------------------------------------------------
\* Properties.

Writing(h) == stage[h] = "write"

\* A request that no other was served at the same time as gets as many bytes
\* as its answer has, on every path that leads to an answer; except for the two
\* answers of the debugger that the code counts wrongly, of which the client
\* does not get the end.  They are as many as the header says, too, except for
\* the debugger's answers, whose header is that of the request: error paths
\* overwrite what was prepared.
ReplyWhole ==
    \A h \in Handlers : Writing(h) /\ alone[h] =>
        LET q == request[h]
        IN  /\ ~Miscounted(q) => messageSize[h] = Answer(q)
            /\ q.fc \notin Debug => messageSize[h] = header[h] + 6
=============================================================================
