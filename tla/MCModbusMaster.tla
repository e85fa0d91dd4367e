---------------------------- MODULE MCModbusMaster ----------------------------
(***************************************************************************)
(* Three devices: 0 over TCP, 1 and 2 on one serial line.  Device 0 has    *)
(* nine discrete inputs, so that the next device's inputs start in the     *)
(* middle of a byte.                                                       *)
(***************************************************************************)
EXTENDS ModbusMaster, TLC

CONSTANTS Host, Tty

MCSize ==
    [di   |-> <<9, 0, 1>>, coil |-> <<0, 2, 9>>, ir |-> <<0, 2, 0>>,
     hrr  |-> <<1, 0, 2>>, hr   |-> <<2, 1, 0>>]

SizeOf == [k \in Kinds |-> [d \in 0 .. 2 |-> MCSize[k][d + 1]]]

\* The running sums of the blocks' sizes.
OffsetOf ==
    [boolIn |-> 0 :> 0 @@ 1 :> 9 @@ 2 :> 9 @@ 3 :> 10,
     boolOut |-> 0 :> 0 @@ 1 :> 0 @@ 2 :> 2 @@ 3 :> 11,
     intIn |-> 0 :> 0 @@ 1 :> 1 @@ 2 :> 3 @@ 3 :> 5,
     intOut |-> 0 :> 0 @@ 1 :> 2 @@ 2 :> 3 @@ 3 :> 3]

Lines == 0 :> Host @@ 1 :> Tty @@ 2 :> Tty

\* The program uses every slave location but one.
LocatedHere == {Location(a, i) : a \in Areas, i \in Positions} \ {Location("intIn", 3)}
=============================================================================
