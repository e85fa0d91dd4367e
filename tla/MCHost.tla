-------------------------------- MODULE MCHost --------------------------------
(***************************************************************************)
(* The components around the control loop, checked side by side: the       *)
(* address map, the runtime's log, the Modbus answers and the connections  *)
(* of the runtime, and the web server's monitor and captures, its hold on  *)
(* the runtime and its packet captures.  None shares state with another in *)
(* these modules, so that one of them moves in a behaviour, the one that   *)
(* focus names, and the others stay where they began: the sum of their     *)
(* states is explored and not the product.  Of the address map one question  *)
(* is asked in a behaviour: its answers do not depend on each other.       *)
(***************************************************************************)
EXTENDS AddressMap, RuntimeLog, ModbusReply, Connections, Monitoring,
        RuntimeController, PacketCapture, TLC

VARIABLE focus

vars == <<focus, mapVars, logVars, replyVars, connVars, monVars, ctlVars, pktVars>>

Ask(f, a, n, s, b) == [fc |-> f, start |-> a, n |-> n, size |-> s, bytecount |-> b]

\* One request for each way an answer comes about: with data; refused for its
\* length, its count, its function or its size; going over the end of a table
\* as it reads or writes; and the debugger's: whole, cut at the frame's end, and
\* for variables that do not exist.
RequestSet ==
    {Ask("coils", 0, 4, 12, 0), Ask("holding", 0, 125, 12, 0),
     Ask("holding", 8190, 4, 12, 0), Ask("holding", 0, 128, 12, 0),
     Ask("writereg", 1030, 7, 12, 0), Ask("writecoil", 9000, 1, 12, 0),
     Ask("writecoils", 8186, 3, 14, 1), Ask("writeregs", 0, 2, 17, 4),
     Ask("get", 0, 1, 12, 0), Ask("get", 1, 2, 12, 0), Ask("list", 1, 60, 130, 0),
     Ask("list", 2, 1, 12, 0), Ask("md5", 0, 0, 12, 0), Ask("other", 0, 0, 8, 0)}

VariableSizes == 0 :> 2 @@ 1 :> 8

ASSUME HostAssumption ==
    /\ OffsetsAssumption /\ WordsAssumption /\ LogSizeAssumption
    /\ ReplyAssumption /\ ConnAssumption /\ PktAssumption

Init ==
    /\ focus \in {"map", "log", "reply", "connections", "monitor", "runtime", "packets"}
    /\ MapInit /\ LogInit /\ ReplyInit /\ MonInit /\ CtlInit /\ PktInit
    /\ ConnInit /\ (focus # "connections" => client_fd = [s \in Protocols |-> NoFd])

\* One component moves, the others are left as they are.
MapMoves   == focus = "map" /\ MapNext /\ focus' = "none"
              /\ UNCHANGED <<logVars, replyVars, connVars, monVars, ctlVars, pktVars>>
LogMoves   == focus = "log" /\ LogNext
              /\ UNCHANGED <<focus, mapVars, replyVars, connVars, monVars, ctlVars, pktVars>>
ReplyMoves == focus = "reply" /\ ReplyNext
              /\ UNCHANGED <<focus, mapVars, logVars, connVars, monVars, ctlVars, pktVars>>
ConnMoves  == focus = "connections" /\ ConnNext
              /\ UNCHANGED <<focus, mapVars, logVars, replyVars, monVars, ctlVars, pktVars>>
MonMoves   == focus = "monitor" /\ MonNext
              /\ UNCHANGED <<focus, mapVars, logVars, replyVars, connVars, ctlVars, pktVars>>
CtlMoves   == focus = "runtime" /\ CtlNext
              /\ UNCHANGED <<focus, mapVars, logVars, replyVars, connVars, monVars, pktVars>>
PktMoves   == focus = "packets" /\ PktNext
              /\ UNCHANGED <<focus, mapVars, logVars, replyVars, connVars, monVars, ctlVars>>

Next == MapMoves \/ LogMoves \/ ReplyMoves \/ ConnMoves \/ MonMoves \/ CtlMoves \/ PktMoves

\* A component that has not moved has nothing its fairness could ask for.
Spec == Init /\ [][Next]_vars /\ MonFairness /\ CtlFairness
=============================================================================
