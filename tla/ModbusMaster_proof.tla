-------------------------- MODULE ModbusMaster_proof --------------------------
(***************************************************************************)
(* For every number of devices, every choice of blocks and every line:     *)
(* whatever fails and in whatever order, the slave inputs of the image     *)
(* table and the registers written to a slave are the configured ones, and *)
(* the code's idea of which contexts are open is right; and no index ever  *)
(* leaves its buffer.                                                      *)
(*                                                                         *)
(* The argument: at every stage of a round the running indices are the     *)
(* sums of the blocks gone by (IndexOK), and a context addresses the unit  *)
(* of the device whose blocks are being exchanged (SlaveOK).               *)
(***************************************************************************)
EXTENDS ModbusMaster, WellFoundedInduction, TLAPS

\* The registers of device dev in area a that this round has gone by.
Past(a) ==
    [boolIn  |-> IF stage \in {"coil", "ir", "hrr", "hr"} THEN Size["di"][dev] ELSE 0,
     boolOut |-> IF stage \in {"ir", "hrr", "hr"} THEN Size["coil"][dev] ELSE 0,
     intIn   |-> IF stage = "hrr" THEN Size["ir"][dev]
                 ELSE IF stage = "hr" THEN Size["ir"][dev] + Size["hrr"][dev] ELSE 0,
     intOut  |-> 0][a]

Types ==
    /\ dev \in 0 .. N
    /\ stage \in Kinds \cup {"connect"}
    /\ dev = N => stage = "connect"
    /\ index \in [Areas -> Int]
    /\ connected \in [Devices -> BOOLEAN]
    /\ open \subseteq Contexts
    /\ DOMAIN slave = Contexts
    /\ DOMAIN buf = Areas /\ \A a \in Areas : DOMAIN buf[a] = Positions
    /\ DOMAIN table = SlaveInputs

IndexOK == dev \in Devices => \A a \in Areas : index[a] = Offset[a][dev] + Past(a)

SlaveOK ==
    /\ \A d \in Devices : Sharing(d) = {} => slave[Ctx(d)] = d
    /\ dev \in Devices /\ stage \in Kinds => slave[Ctx(dev)] = dev

BufInOK ==
    \A a \in {"boolIn", "intIn"}, i \in Positions : buf[a][i] # None => IsFor(buf[a][i], a, i)

BufOutOK ==
    \A a \in {"boolOut", "intOut"}, i \in Positions : buf[a][i] \in {None, Location(a, i)}

IInv ==
    /\ Types /\ IndexOK /\ SlaveOK /\ BufInOK /\ BufOutOK
    /\ InputsInPlace /\ OutputsInPlace /\ ContextsMatch

-----------------------------------------------------------------------------
\* A block's place lies in its buffer, after what the round has gone by.
LEMMA Fits ==
    ASSUME NEW d \in Devices, NEW k \in Kinds
    PROVE  /\ Size[k][d] \in Nat
           /\ Start(k, d) \in Nat
           /\ Start(k, d) + Size[k][d] <= MaxIo
<1>1. /\ d \in 0 .. N /\ d + 1 \in 0 .. N
      /\ N \in Nat
  BY SizeAssumption DEF Devices
<1>2. /\ Size["di"][d] \in Nat /\ Size["coil"][d] \in Nat /\ Size["ir"][d] \in Nat
      /\ Size["hrr"][d] \in Nat /\ Size["hr"][d] \in Nat
  BY SizeAssumption DEF Kinds
<1>3. \A a \in Areas : Offset[a][d] \in 0 .. MaxIo /\ Offset[a][d + 1] \in 0 .. MaxIo
  BY <1>1, OffsetAssumption
<1>4. \A a \in Areas : Offset[a][d + 1] = Offset[a][d] + Width(a, d)
  BY OffsetAssumption
<1>5. MaxIo \in Nat
  BY OffsetAssumption
<1> QED
  BY <1>2, <1>3, <1>4, <1>5 DEF Start, Kinds, Area, Width, Areas

\* Two positions are kept at two locations.
LEMMA LocationsDiffer ==
    ASSUME NEW a, NEW b, NEW i \in Nat, NEW j \in Nat,
           a \in Areas, b \in Areas, Location(a, i) = Location(b, j)
    PROVE  a = b /\ i = j
<1>1. a = b
  BY DEF Location, Areas
<1>2. CASE a \in {"boolIn", "boolOut"}
  <2>1. i \div 8 = j \div 8 /\ i % 8 = j % 8
    <3>1. <<a, 100 + i \div 8, i % 8>> = <<b, 100 + j \div 8, j % 8>>
      BY <1>1, <1>2 DEF Location
    <3>2. 100 + i \div 8 = 100 + j \div 8 /\ i % 8 = j % 8
      BY <3>1
    <3> QED
      BY <3>2
  <2>2. i = 8 * (i \div 8) + (i % 8) /\ j = 8 * (j \div 8) + (j % 8)
    OBVIOUS
  <2> QED
    BY <1>1, <2>1, <2>2
<1>3. CASE a \notin {"boolIn", "boolOut"}
  <2>1. <<a, 100 + i>> = <<b, 100 + j>>
    BY <1>1, <1>3 DEF Location
  <2> QED
    BY <1>1, <2>1
<1> QED
  BY <1>2, <1>3

\* The devices of a context are one device, or the serial devices of a line.
LEMMA SharedContext ==
    \A d, e \in Devices : e \in Sharing(d) <=> e # d /\ Ctx(e) = Ctx(d)
BY LineAssumption DEF Sharing, Ctx

\* The blocks' areas, one by one.
LEMMA AreaOf ==
    /\ \A k \in Kinds : Area[k] \in Areas
    /\ \A k \in Reads : Area[k] \in {"boolIn", "intIn"}
    /\ \A k \in Writes : Area[k] \in {"boolOut", "intOut"}
    /\ Reads \subseteq Kinds /\ Writes \subseteq Kinds
BY DEF Kinds, Areas, Area, Reads, Writes

LEMMA IndexIsStart ==
    ASSUME Types, IndexOK, NEW k \in Kinds, AtBlock(k)
    PROVE  index[Area[k]] = Start(k, dev)
<1>1. dev \in Devices /\ stage = k
  BY DEF AtBlock
<1>2. \A a \in Areas : index[a] = Offset[a][dev] + Past(a)
  BY <1>1 DEF IndexOK
<1>3. \A a \in Areas : Offset[a][dev] \in Int
  <2>1. dev \in 0 .. N
    BY <1>1, SizeAssumption DEF Devices
  <2>2. \A a \in Areas : Offset[a][dev] \in 0 .. MaxIo
    BY <2>1, OffsetAssumption
  <2> QED
    BY <2>2
<1>4. Size["ir"][dev] \in Nat
  BY <1>1, Fits DEF Kinds
<1> QED
  BY <1>1, <1>2, <1>3, <1>4 DEF Past, Start, Kinds, Area, Areas

LEMMA Initially == Init => IInv
<1> SUFFICES ASSUME Init PROVE IInv
  OBVIOUS
<1> USE DEF Init
<1>1. N \in Nat \ {0} /\ N \notin Devices
  BY SizeAssumption DEF Devices
<1>2. Types
  <2>1. dev \in 0 .. N /\ stage \in Kinds \cup {"connect"} /\ (dev = N => stage = "connect")
    BY <1>1
  <2>2. index \in [Areas -> Int] /\ connected \in [Devices -> BOOLEAN] /\ open \subseteq Contexts
    BY DEF Zero
  <2>3. DOMAIN slave = Contexts
    OBVIOUS
  <2>4. DOMAIN buf = Areas /\ \A a \in Areas : DOMAIN buf[a] = Positions
    OBVIOUS
  <2>5. DOMAIN table = SlaveInputs
    OBVIOUS
  <2> QED
    BY <2>1, <2>2, <2>3, <2>4, <2>5 DEF Types
<1>3. SlaveOK
  <2> SUFFICES ASSUME NEW d \in Devices, Sharing(d) = {} PROVE slave[Ctx(d)] = d
    BY <1>1 DEF SlaveOK
  <2>1. \A e \in Devices : Ctx(e) = Ctx(d) <=> e = d
    BY SharedContext
  <2>2. \A e \in d + 1 .. N - 1 : e \in Devices /\ e # d
    BY <1>1 DEF Devices
  <2>3. \A f \in Devices : (Ctx(f) = Ctx(d) /\ \A e \in f + 1 .. N - 1 : Ctx(e) # Ctx(d)) <=> f = d
    BY <2>1, <2>2
  <2>4. Ctx(d) \in Contexts
    BY DEF Contexts
  <2> QED
    BY <2>3, <2>4
<1>4. BufInOK /\ BufOutOK
  BY DEF BufInOK, BufOutOK, Areas
<1>5. InputsInPlace
  BY DEF InputsInPlace, Areas
<1>6. OutputsInPlace /\ ContextsMatch /\ IndexOK
  BY <1>1 DEF OutputsInPlace, ContextsMatch, IndexOK
<1> QED
  BY <1>2, <1>3, <1>4, <1>5, <1>6 DEF IInv

-----------------------------------------------------------------------------
\* A step of the thread leaves it at a block of the same device, or at the
\* head of the next one.
LEMMA Advances ==
    ASSUME Types, dev \in Devices, Advance
    PROVE  /\ dev' \in 0 .. N
           /\ stage' \in Kinds \cup {"connect"}
           /\ dev' = N => stage' = "connect"
           /\ stage # "hr" => dev' = dev /\ stage' = NextStage[stage]
           /\ stage = "hr" => dev' = dev + 1 /\ stage' = "connect"
           /\ stage' \in Kinds => dev' = dev
BY SizeAssumption DEF Types, Advance, NextStage, Kinds, Devices

LEMMA TypesStep ==
    ASSUME Types, [Next]_vars
    PROVE  Types'
<1>1. CASE StartRound
  BY <1>1, SizeAssumption DEF StartRound, Types, Zero, line
<1>2. CASE UseConnection \/ Connect
  BY <1>2, Advances DEF UseConnection, Connect, SelectSlave, Types, Contexts
<1>3. CASE ConnectFails
  <2>1. \A a \in Areas : Width(a, dev) \in Int
    BY <1>3, Fits DEF ConnectFails, Width, Areas, Kinds
  <2>2. index' \in [Areas -> Int]
    BY <1>3, <2>1 DEF ConnectFails, Types
  <2>3. dev' \in 0 .. N
    BY <1>3, SizeAssumption DEF ConnectFails, Devices
  <2> QED
    BY <1>3, <2>2, <2>3 DEF ConnectFails, SelectSlave, Types
<1>4. CASE NoBlock
  BY <1>4, Advances DEF NoBlock, Types, line
<1>5. ASSUME NEW k \in Kinds, AtBlock(k), Skip(Area[k], Size[k][dev]), Advance
      PROVE  index' \in [Areas -> Int] /\ dev' \in 0 .. N
             /\ stage' \in Kinds \cup {"connect"} /\ (dev' = N => stage' = "connect")
  <2>1. dev \in Devices /\ Size[k][dev] \in Nat
    BY <1>5, Fits DEF AtBlock
  <2> QED
    BY <1>5, <2>1, Advances, AreaOf DEF Skip, Types
<1>6. ASSUME NEW k \in Reads, ReadBlock(k) PROVE Types'
  BY <1>5, <1>6, AreaOf DEF ReadBlock, Types, line
<1>7. ASSUME NEW k \in Kinds, ReadFails(k) \/ WriteFails(k) PROVE Types'
  <2>1. /\ AtBlock(k) /\ Skip(Area[k], Size[k][dev]) /\ Advance /\ CloseIfTcp
        /\ UNCHANGED <<buf, table>>
    BY <1>7 DEF ReadFails, WriteFails
  <2>2. connected' \in [Devices -> BOOLEAN]
    BY <2>1 DEF CloseIfTcp, Types
  <2>3. open' \subseteq Contexts /\ UNCHANGED slave
    BY <2>1 DEF CloseIfTcp, Types
  <2> QED
    BY <1>5, <2>1, <2>2, <2>3 DEF Types
<1>8. ASSUME NEW k \in Writes, WriteBlock(k) PROVE Types'
  BY <1>5, <1>8, AreaOf DEF WriteBlock, Types, line
<1>9. CASE UpdateBuffersIn
  BY <1>9 DEF UpdateBuffersIn, Types, line
<1>10. CASE UpdateBuffersOut
  BY <1>10 DEF UpdateBuffersOut, Types, line
<1>11. CASE UNCHANGED vars
  BY <1>11 DEF vars, line, Types
<1> QED
  BY <1>1, <1>2, <1>3, <1>4, <1>6, <1>7, <1>8, <1>9, <1>10, <1>11, AreaOf DEF Next

LEMMA IndexStep ==
    ASSUME Types, IndexOK, [Next]_vars
    PROVE  IndexOK'
<1> SUFFICES ASSUME dev' \in Devices, NEW a \in Areas
             PROVE  index'[a] = Offset[a][dev'] + Past(a)'
  BY DEF IndexOK
<1>1. dev \in Devices =>
        /\ index[a] = Offset[a][dev] + Past(a)
        /\ Offset[a][dev + 1] = Offset[a][dev] + Width(a, dev)
        /\ Offset[a][dev] \in Int /\ Offset[a][dev + 1] \in Int
        /\ \A k \in Kinds : Size[k][dev] \in Nat
  BY SizeAssumption, OffsetAssumption, Fits DEF IndexOK, Devices
<1>2. CASE StartRound
  BY <1>2, OffsetAssumption DEF StartRound, Zero, Past, Areas
<1>3. CASE UseConnection \/ Connect
  <2>1. /\ dev \in Devices /\ stage = "connect" /\ dev' = dev /\ stage' = "di"
        /\ UNCHANGED index
    BY <1>3, Advances DEF UseConnection, Connect, NextStage
  <2> QED
    BY <1>1, <2>1 DEF Past, Areas
<1>4. CASE ConnectFails
  <2>1. /\ dev \in Devices /\ stage = "connect" /\ dev' = dev + 1 /\ stage' = "connect"
        /\ index'[a] = index[a] + Width(a, dev)
    BY <1>4 DEF ConnectFails
  <2>2. Past(a) = 0 /\ Past(a)' = 0
    BY <2>1 DEF Past, Areas
  <2> QED
    BY <1>1, <2>1, <2>2
<1>5. ASSUME NEW k \in Kinds, dev \in Devices, stage = k, Advance,
             Skip(Area[k], Size[k][dev])
      PROVE  index'[a] = Offset[a][dev'] + Past(a)'
  <2>1. index'[a] = IF a = Area[k] THEN index[a] + Size[k][dev] ELSE index[a]
    BY <1>5, AreaOf DEF Skip, Types
  <2>2. CASE k = "hr"
    <3>1. dev' = dev + 1 /\ stage' = "connect"
      BY <1>5, <2>2, Advances
    <3> QED
      BY <1>1, <1>5, <2>1, <2>2, <3>1 DEF Past, Areas, Area, Kinds, Width
  <2>3. CASE k # "hr"
    <3>1. dev' = dev /\ stage' = NextStage[k]
      BY <1>5, <2>3, Advances
    <3> QED
      BY <1>1, <1>5, <2>1, <2>3, <3>1 DEF Past, Areas, Area, Kinds, NextStage
  <2> QED
    BY <2>2, <2>3
<1>6. CASE NoBlock
  <2>1. dev \in Devices /\ stage \in Kinds /\ Size[stage][dev] = 0 /\ Advance /\ UNCHANGED index
    BY <1>6 DEF NoBlock
  <2>2. Area[stage] \in Areas /\ index[Area[stage]] \in Int
    BY <2>1, AreaOf DEF Types
  <2>3. Skip(Area[stage], Size[stage][dev])
    BY <2>1, <2>2 DEF Skip, Types
  <2> QED
    BY <1>5, <2>1, <2>3
<1>7. ASSUME NEW k \in Kinds, ReadBlock(k) \/ ReadFails(k) \/ WriteBlock(k) \/ WriteFails(k)
      PROVE  index'[a] = Offset[a][dev'] + Past(a)'
  BY <1>5, <1>7 DEF ReadBlock, ReadFails, WriteBlock, WriteFails, AtBlock
<1>8. CASE UpdateBuffersIn \/ UpdateBuffersOut \/ UNCHANGED vars
  BY <1>1, <1>8 DEF UpdateBuffersIn, UpdateBuffersOut, vars, Past
<1> QED
  BY <1>2, <1>3, <1>4, <1>6, <1>7, <1>8, AreaOf DEF Next

-----------------------------------------------------------------------------
\* Contexts: which are open, and which unit they address.
LEMMA ContextStep ==
    ASSUME Types, SlaveOK, ContextsMatch, [Next]_vars
    PROVE  SlaveOK' /\ ContextsMatch'
<1>1. ASSUME dev \in Devices, stage = "connect", SelectSlave
      PROVE  /\ \A d \in Devices : Sharing(d) = {} => slave'[Ctx(d)] = d
             /\ slave'[Ctx(dev)] = dev
  <2>1. Ctx(dev) \in Contexts
    BY <1>1 DEF Contexts
  <2>2. CASE Sharing(dev) = {}
    BY <1>1, <2>2 DEF SelectSlave, SlaveOK
  <2>3. CASE Sharing(dev) # {}
    <3>1. slave' = [slave EXCEPT ![Ctx(dev)] = dev]
      BY <1>1, <2>3 DEF SelectSlave
    <3>2. slave'[Ctx(dev)] = dev
      BY <3>1, <2>1 DEF Types
    <3>3. \A d \in Devices : Sharing(d) = {} => Ctx(d) # Ctx(dev)
      BY <1>1, <2>3, SharedContext
    <3>4. \A d \in Devices : Ctx(d) \in Contexts
      BY DEF Contexts
    <3>5. \A d \in Devices : Sharing(d) = {} => slave'[Ctx(d)] = slave[Ctx(d)]
      BY <3>1, <3>3, <3>4 DEF Types
    <3> QED
      BY <3>2, <3>5 DEF SlaveOK
  <2> QED
    BY <2>2, <2>3
<1>2. ASSUME dev \in Devices, stage \in Kinds, Advance, UNCHANGED slave
      PROVE  SlaveOK'
  <2>1. stage' \in Kinds => dev' = dev
    BY <1>2, Advances
  <2> QED
    BY <1>2, <2>1 DEF SlaveOK
<1>3. CASE StartRound
  BY <1>3 DEF StartRound, SlaveOK, ContextsMatch, Kinds, line
<1>4. CASE UseConnection
  <2>1. dev' = dev /\ SelectSlave /\ UNCHANGED <<connected, open>>
        /\ dev \in Devices /\ stage = "connect"
    BY <1>4, Advances DEF UseConnection
  <2> QED
    BY <1>1, <2>1 DEF SlaveOK, ContextsMatch
<1>5. CASE Connect
  <2>1. dev' = dev /\ SelectSlave /\ dev \in Devices /\ stage = "connect"
    BY <1>5, Advances DEF Connect
  <2>2. /\ connected' = [connected EXCEPT ![dev] = TRUE]
        /\ open' = open \cup {Ctx(dev)}
    BY <1>5 DEF Connect
  <2>3. \A d \in Devices : connected'[d] <=> connected[d] \/ d = dev
    BY <2>1, <2>2 DEF Types
  <2>4. ContextsMatch'
    BY <2>1, <2>2, <2>3 DEF ContextsMatch
  <2> QED
    BY <1>1, <2>1, <2>4 DEF SlaveOK
<1>6. CASE ConnectFails
  <2>1. /\ SelectSlave /\ dev \in Devices /\ stage = "connect" /\ stage' = "connect"
        /\ UNCHANGED <<connected, open>>
    BY <1>6 DEF ConnectFails
  <2> QED
    BY <1>1, <2>1 DEF SlaveOK, ContextsMatch, Kinds
<1>7. CASE NoBlock
  BY <1>2, <1>7 DEF NoBlock, line, ContextsMatch
<1>8. ASSUME NEW k \in Kinds, ReadBlock(k) \/ WriteBlock(k) PROVE SlaveOK' /\ ContextsMatch'
  BY <1>2, <1>8 DEF ReadBlock, WriteBlock, AtBlock, line, ContextsMatch
<1>9. ASSUME NEW k \in Kinds, ReadFails(k) \/ WriteFails(k) PROVE SlaveOK' /\ ContextsMatch'
  <2>1. dev \in Devices /\ stage \in Kinds /\ Advance /\ CloseIfTcp /\ UNCHANGED slave
    BY <1>9 DEF ReadFails, WriteFails, AtBlock, CloseIfTcp
  <2>2. CASE dev \in Rtu
    <3>1. open' = open /\ \A d \in Devices : connected'[d] = connected[d]
      BY <2>1, <2>2 DEF CloseIfTcp, Types
    <3> QED
      BY <1>2, <2>1, <3>1 DEF ContextsMatch
  <2>3. CASE dev \notin Rtu
    <3>1. open' = open \ {Ctx(dev)}
          /\ \A d \in Devices : connected'[d] <=> connected[d] /\ d # dev
      BY <2>1, <2>3 DEF CloseIfTcp, Types
    <3>2. \A d \in Devices : Ctx(d) = Ctx(dev) <=> d = dev
      BY <2>1, <2>3, LineAssumption DEF Ctx
    <3> QED
      BY <1>2, <2>1, <3>1, <3>2 DEF ContextsMatch
  <2> QED
    BY <2>2, <2>3
<1>10. CASE UpdateBuffersIn \/ UpdateBuffersOut \/ UNCHANGED vars
  BY <1>10 DEF UpdateBuffersIn, UpdateBuffersOut, vars, line, SlaveOK, ContextsMatch
<1> QED
  BY <1>3, <1>4, <1>5, <1>6, <1>7, <1>8, <1>9, <1>10, AreaOf DEF Next

\* The buffers, the image table and the frames.
LEMMA PlaceStep ==
    ASSUME IInv, [Next]_vars
    PROVE  BufInOK' /\ BufOutOK' /\ InputsInPlace' /\ OutputsInPlace'
<1>1. Types /\ IndexOK /\ SlaveOK /\ BufInOK /\ BufOutOK /\ InputsInPlace /\ OutputsInPlace
  BY DEF IInv
<1>2. ASSUME UNCHANGED <<buf, table, sent>>
      PROVE  BufInOK' /\ BufOutOK' /\ InputsInPlace' /\ OutputsInPlace'
  BY <1>1, <1>2 DEF BufInOK, BufOutOK, InputsInPlace, OutputsInPlace
<1>3. ASSUME NEW k \in Reads, ReadBlock(k)
      PROVE  BufInOK' /\ BufOutOK' /\ InputsInPlace' /\ OutputsInPlace'
  <2> DEFINE A == Area[k]
             S == Start(k, dev)
             W == Size[k][dev]
  <2>1. k \in Kinds /\ A \in {"boolIn", "intIn"} /\ A \in Areas
    BY AreaOf
  <2>2. AtBlock(k) /\ dev \in Devices /\ index[A] = S
    BY <1>1, <1>3, <2>1, IndexIsStart DEF ReadBlock, AtBlock
  <2>3. slave[Ctx(dev)] = dev
    BY <1>1, <2>1, <2>2 DEF SlaveOK, AtBlock
  <2>4. S \in Nat /\ W \in Nat
    BY <2>1, <2>2, Fits
  <2>5. /\ \A a \in Areas \ {A} : buf'[a] = buf[a]
        /\ \A i \in Positions :
              buf'[A][i] = IF i \in S .. S + W - 1 THEN <<dev, k, i - S>> ELSE buf[A][i]
    BY <1>1, <1>3, <2>1, <2>2, <2>3 DEF ReadBlock, Types
  <2>6. \A i \in Positions : i \in S .. S + W - 1 => IsFor(<<dev, k, i - S>>, A, i)
    <3> SUFFICES ASSUME NEW i \in Positions, i \in S .. S + W - 1
                 PROVE  IsFor(<<dev, k, i - S>>, A, i)
      OBVIOUS
    <3>1. i - S \in 0 .. Size[k][dev] - 1 /\ i = Start(k, dev) + (i - S)
      BY <2>4
    <3> QED
      BY <2>2, <3>1 DEF IsFor
  <2>7. BufInOK'
    <3> SUFFICES ASSUME NEW a \in {"boolIn", "intIn"}, NEW i \in Positions, buf'[a][i] # None
                 PROVE  IsFor(buf'[a][i], a, i)
      BY DEF BufInOK
    <3>1. a \in Areas
      BY DEF Areas
    <3> QED
      BY <1>1, <2>5, <2>6, <3>1 DEF BufInOK
  <2>8. BufOutOK'
    BY <1>1, <2>1, <2>5 DEF BufOutOK, Areas
  <2>9. OutputsInPlace'
    BY <1>1, <1>3 DEF ReadBlock, OutputsInPlace
  <2>10. InputsInPlace'
    <3>1. UNCHANGED table
      BY <1>3 DEF ReadBlock
    <3> QED
      BY <1>1, <2>7, <3>1 DEF InputsInPlace, BufInOK
  <2> QED
    BY <2>7, <2>8, <2>9, <2>10
<1>4. ASSUME NEW k \in Writes, WriteBlock(k)
      PROVE  BufInOK' /\ BufOutOK' /\ InputsInPlace' /\ OutputsInPlace'
  <2> DEFINE A == Area[k]
             S == Start(k, dev)
             W == Size[k][dev]
  <2>1. k \in Kinds /\ A \in {"boolOut", "intOut"} /\ A \in Areas
    BY AreaOf
  <2>2. AtBlock(k) /\ dev \in Devices /\ index[A] = S
    BY <1>1, <1>4, <2>1, IndexIsStart DEF WriteBlock, AtBlock
  <2>3. slave[Ctx(dev)] = dev
    BY <1>1, <2>1, <2>2 DEF SlaveOK, AtBlock
  <2>4. S \in Nat /\ W \in Nat /\ S + W <= MaxIo /\ MaxIo \in Nat
    BY <2>1, <2>2, Fits, OffsetAssumption
  <2>5. sent' = [to |-> dev, kind |-> k, data |-> [j \in 0 .. W - 1 |-> buf[A][S + j]]]
    BY <1>4, <2>2, <2>3 DEF WriteBlock
  <2>6. \A j \in 0 .. W - 1 : S + j \in Positions
    BY <2>4 DEF Positions
  <2>7. OutputsInPlace'
    BY <1>1, <2>1, <2>5, <2>6 DEF OutputsInPlace, BufOutOK
  <2> QED
    BY <1>1, <1>4, <2>7 DEF WriteBlock, line, BufInOK, BufOutOK, InputsInPlace
<1>5. CASE UpdateBuffersIn
  <2>1. ASSUME NEW a \in {"boolIn", "intIn"}, NEW i \in Positions, Location(a, i) \in SlaveInputs
        PROVE  table'[Location(a, i)] = buf[a][i]
    <3>1. a \in Areas /\ \A j \in Positions : j \in Nat
      BY OffsetAssumption DEF Areas, Positions
    <3>2. Location(a, i)[1] = a
      BY DEF Location
    <3>3. \A j \in Positions : Location(a, j) = Location(a, i) <=> j = i
      BY <3>1, LocationsDiffer
    <3>4. Position(Location(a, i)) = i
      BY <3>2, <3>3 DEF Position
    <3> QED
      BY <1>5, <2>1, <3>2, <3>4 DEF UpdateBuffersIn
  <2>2. InputsInPlace'
    BY <1>1, <1>5, <2>1 DEF UpdateBuffersIn, InputsInPlace, BufInOK
  <2> QED
    BY <1>1, <1>5, <2>2 DEF UpdateBuffersIn, line, BufInOK, BufOutOK, OutputsInPlace
<1>6. CASE UpdateBuffersOut
  <2>1. /\ UNCHANGED <<table, sent>>
        /\ \A a \in Areas, i \in Positions :
              buf'[a][i] = IF a \in {"boolOut", "intOut"} /\ Location(a, i) \in Located
                           THEN Location(a, i) ELSE buf[a][i]
    BY <1>6 DEF UpdateBuffersOut
  <2>2. \A i \in Positions : buf'["boolIn"][i] = buf["boolIn"][i] /\ buf'["intIn"][i] = buf["intIn"][i]
    BY <2>1 DEF Areas
  <2>3. BufOutOK'
    BY <1>1, <2>1 DEF BufOutOK, Areas
  <2> QED
    BY <1>1, <2>1, <2>2, <2>3 DEF BufInOK, InputsInPlace, OutputsInPlace
<1>7. CASE ~ (\E k \in Reads : ReadBlock(k)) /\ ~ (\E k \in Writes : WriteBlock(k))
           /\ ~ UpdateBuffersIn /\ ~ UpdateBuffersOut
  <2>1. UNCHANGED <<buf, table, sent>>
    BY <1>7 DEF Next, StartRound, UseConnection, Connect, ConnectFails, NoBlock, ReadFails,
                WriteFails, vars
  <2> QED
    BY <1>2, <2>1
<1> QED
  BY <1>3, <1>4, <1>5, <1>6, <1>7

\* Every state satisfies the inductive invariant.
THEOREM Invariance == Spec => []IInv
<1>1. IInv /\ [Next]_vars => IInv'
  BY TypesStep, IndexStep, ContextStep, PlaceStep DEF IInv
<1> QED
  BY Initially, <1>1, PTL DEF Spec

\* The slave inputs of the image table are the configured ones, whatever
\* fails, comes back or is polled in between.
THEOREM InputsStayInPlace == Spec => []InputsInPlace
BY Invariance, PTL DEF IInv

\* What is written to a slave is what was configured for it.
THEOREM OutputsStayInPlace == Spec => []OutputsInPlace
BY Invariance, PTL DEF IInv

\* No context is connected twice or used when it is closed.
THEOREM ContextsStayMatched == Spec => []ContextsMatch
BY Invariance, PTL DEF IInv

-----------------------------------------------------------------------------
\* Type correctness, which rests on the invariant: that an index stays inside
\* its buffer is the configuration's bound on what a round goes by.

\* A set of devices has a last one.
LEMMA LastOf ==
    ASSUME NEW S, S \subseteq Devices, S # {}
    PROVE  \E d \in S : \A e \in d + 1 .. N - 1 : e \notin S
<1> DEFINE Less == OpToRel(<, Nat)
           T == {N - 1 - d : d \in S}
<1>1. N \in Nat /\ \A d \in S : d \in Nat /\ d <= N - 1 /\ N - 1 - d \in Nat
  BY SizeAssumption DEF Devices
<1>2. T \subseteq Nat /\ T # {}
  BY <1>1
<1>3. IsWellFoundedOn(Less, Nat)
  BY NatLessThanWellFounded
<1>4. \A m, n \in Nat : m < n => <<m, n>> \in Less
  BY DEF OpToRel
<1> HIDE DEF Less
<1>5. \E x \in T : \A y \in T : ~(<<y, x>> \in Less)
  BY <1>2, <1>3, WFMin
<1>6. PICK x \in T : \A y \in T : ~(<<y, x>> \in Less)
  BY <1>5
<1>7. PICK d \in S : x = N - 1 - d
  BY <1>6
<1>8. ASSUME NEW e \in d + 1 .. N - 1, e \in S PROVE FALSE
  <2>1. N - 1 - e \in T /\ N - 1 - e \in Nat /\ x \in Nat
    BY <1>1, <1>2, <1>8
  <2>2. N - 1 - e < x
    BY <1>1, <1>7, <1>8
  <2> QED
    BY <1>4, <1>6, <2>1, <2>2
<1> QED
  BY <1>8

LEMMA InitTyped == Init => TypeOK
<1> SUFFICES ASSUME Init PROVE TypeOK
  OBVIOUS
<1>1. N \in Nat \ {0} /\ MaxIo \in Nat
  BY SizeAssumption, OffsetAssumption
<1>2. slave \in [Contexts -> Devices]
  <2>1. ASSUME NEW c \in Contexts
        PROVE  \E d \in Devices : Ctx(d) = c /\ \A e \in d + 1 .. N - 1 : Ctx(e) # c
    <3> DEFINE S == {d \in Devices : Ctx(d) = c}
    <3>1. S \subseteq Devices /\ S # {}
      BY DEF Contexts
    <3>2. PICK d \in S : \A e \in d + 1 .. N - 1 : e \notin S
      BY <3>1, LastOf
    <3>3. \A e \in d + 1 .. N - 1 : e \in Devices
      BY <1>1, <3>1 DEF Devices
    <3> QED
      BY <3>2, <3>3
  <2> QED
    BY <2>1 DEF Init
<1>3. index \in [Areas -> 0 .. MaxIo] /\ dev \in 0 .. N
  BY <1>1 DEF Init, Zero
<1>4. /\ DOMAIN buf = Areas
      /\ \A a \in Areas : buf[a] = [i \in Positions |-> None]
  BY DEF Init
<1>5. /\ \A a \in {"boolIn", "intIn"} : buf[a] \in [Positions -> Registers \cup {None}]
      /\ \A a \in {"boolOut", "intOut"} : buf[a] \in [Positions -> Located \cup {None}]
  BY <1>4 DEF Areas
<1> QED
  BY <1>2, <1>3, <1>4, <1>5 DEF Init, TypeOK

\* What a step leaves of the index lies in its buffer.
LEMMA IndexInside ==
    ASSUME IInv, TypeOK, [Next]_vars
    PROVE  index' \in [Areas -> 0 .. MaxIo]
<1>0. Types /\ IndexOK /\ MaxIo \in Nat
  BY OffsetAssumption DEF IInv
<1>1. ASSUME UNCHANGED index PROVE index' \in [Areas -> 0 .. MaxIo]
  BY <1>1 DEF TypeOK
<1>2. CASE StartRound
  BY <1>0, <1>2 DEF StartRound, Zero
<1>3. CASE ConnectFails
  <2>1. /\ dev \in Devices /\ stage = "connect"
        /\ index' = [a \in Areas |-> index[a] + Width(a, dev)]
    BY <1>3 DEF ConnectFails
  <2>2. dev + 1 \in 0 .. N
    BY <2>1, SizeAssumption DEF Devices
  <2>3. \A a \in Areas : Offset[a][dev + 1] \in 0 .. MaxIo
    BY <2>2, OffsetAssumption
  <2>4. \A a \in Areas : Offset[a][dev + 1] = Offset[a][dev] + Width(a, dev)
    BY <2>1, OffsetAssumption
  <2>5. \A a \in Areas : index[a] = Offset[a][dev]
    <3>1. dev \in 0 .. N
      BY <2>1, SizeAssumption DEF Devices
    <3>2. \A a \in Areas : Offset[a][dev] \in 0 .. MaxIo
      BY <3>1, OffsetAssumption
    <3>3. \A a \in Areas : Past(a) = 0
      BY <2>1 DEF Past, Areas
    <3> QED
      BY <1>0, <2>1, <3>2, <3>3 DEF IndexOK
  <2> QED
    BY <2>1, <2>3, <2>4, <2>5
<1>4. ASSUME NEW k \in Kinds, AtBlock(k), Skip(Area[k], Size[k][dev])
      PROVE  index' \in [Areas -> 0 .. MaxIo]
  <2>1. dev \in Devices /\ index[Area[k]] = Start(k, dev)
    BY <1>0, <1>4, IndexIsStart DEF AtBlock
  <2>2. index[Area[k]] + Size[k][dev] \in 0 .. MaxIo
    BY <1>0, <2>1, Fits
  <2> QED
    BY <1>4, <2>2 DEF Skip, TypeOK
<1>5. ASSUME NEW k \in Kinds, ReadBlock(k) \/ ReadFails(k) \/ WriteBlock(k) \/ WriteFails(k)
      PROVE  index' \in [Areas -> 0 .. MaxIo]
  BY <1>4, <1>5 DEF ReadBlock, ReadFails, WriteBlock, WriteFails
<1>6. CASE UseConnection \/ Connect \/ NoBlock \/ UpdateBuffersIn \/ UpdateBuffersOut
           \/ UNCHANGED vars
  BY <1>1, <1>6 DEF UseConnection, Connect, NoBlock, UpdateBuffersIn, UpdateBuffersOut, vars
<1> QED
  BY <1>2, <1>3, <1>5, <1>6, AreaOf DEF Next

\* What a step leaves in the buffers and in the image table has its type.
LEMMA ContentTyped ==
    ASSUME IInv, TypeOK, [Next]_vars
    PROVE  /\ DOMAIN buf' = Areas
           /\ \A a \in {"boolIn", "intIn"} : buf'[a] \in [Positions -> Registers \cup {None}]
           /\ \A a \in {"boolOut", "intOut"} : buf'[a] \in [Positions -> Located \cup {None}]
           /\ table' \in [SlaveInputs -> Registers \cup {None}]
<1> DEFINE Goal == /\ DOMAIN buf' = Areas
                   /\ \A a \in {"boolIn", "intIn"} :
                         buf'[a] \in [Positions -> Registers \cup {None}]
                   /\ \A a \in {"boolOut", "intOut"} :
                         buf'[a] \in [Positions -> Located \cup {None}]
                   /\ table' \in [SlaveInputs -> Registers \cup {None}]
<1>1. ASSUME UNCHANGED <<buf, table>> PROVE Goal
  BY <1>1 DEF TypeOK
<1>2. ASSUME NEW k \in Reads, ReadBlock(k) PROVE Goal
  <2> DEFINE A == Area[k]
             C == [i \in Positions |->
                     IF i \in index[A] .. index[A] + Size[k][dev] - 1
                     THEN <<slave[Ctx(dev)], k, i - index[A]>> ELSE buf[A][i]]
  <2>1. A \in {"boolIn", "intIn"} /\ A \in Areas /\ k \in Kinds
    BY AreaOf
  <2>2. dev \in Devices /\ index[A] \in 0 .. MaxIo
    BY <1>2, <2>1 DEF ReadBlock, AtBlock, TypeOK
  <2>3. slave[Ctx(dev)] \in Devices
    BY <2>2 DEF TypeOK, Contexts
  <2>4. Size[k][dev] \in Nat
    BY <2>1, <2>2, Fits
  <2>5. ASSUME NEW i \in Positions, i \in index[A] .. index[A] + Size[k][dev] - 1
        PROVE  <<slave[Ctx(dev)], k, i - index[A]>> \in Registers
    <3>1. i - index[A] \in Positions
      BY <2>2, <2>4, <2>5, OffsetAssumption DEF Positions
    <3> QED
      BY <2>3, <3>1 DEF Registers
  <2>6. \A i \in Positions : buf[A][i] \in Registers \cup {None}
    BY <2>1 DEF TypeOK
  <2>7. C \in [Positions -> Registers \cup {None}]
    BY <2>5, <2>6
  <2>8. buf' = [buf EXCEPT ![A] = C] /\ UNCHANGED table
    BY <1>2 DEF ReadBlock
  <2> HIDE DEF C, A
  <2>9. DOMAIN buf' = Areas /\ buf'[A] = C /\ \A a \in Areas \ {A} : buf'[a] = buf[a]
    BY <2>1, <2>8 DEF TypeOK
  <2> QED
    BY <2>1, <2>7, <2>8, <2>9 DEF TypeOK, Areas
<1>3. CASE UpdateBuffersIn
  <2>1. ASSUME NEW l \in SlaveInputs
        PROVE  buf[l[1]][Position(l)] \in Registers \cup {None}
    <3>1. PICK a \in {"boolIn", "intIn"}, i \in Positions : l = Location(a, i)
      BY DEF SlaveInputs
    <3>2. l[1] = a
      BY <3>1 DEF Location
    <3>3. Position(l) \in Positions
      BY <3>1, <3>2 DEF Position
    <3> QED
      BY <3>2, <3>3 DEF TypeOK
  <2>2. table' = [l \in SlaveInputs |-> buf[l[1]][Position(l)]] /\ UNCHANGED buf
    BY <1>3 DEF UpdateBuffersIn
  <2>3. table' \in [SlaveInputs -> Registers \cup {None}]
    BY <2>1, <2>2
  <2> QED
    BY <2>2, <2>3 DEF TypeOK
<1>4. CASE UpdateBuffersOut
  <2>1. /\ DOMAIN buf' = Areas
        /\ \A a \in Areas :
              buf'[a] = [i \in Positions |->
                           IF a \in {"boolOut", "intOut"} /\ Location(a, i) \in Located
                           THEN Location(a, i) ELSE buf[a][i]]
        /\ UNCHANGED table
    BY <1>4 DEF UpdateBuffersOut
  <2>2. \A a \in {"boolIn", "intIn"} : buf'[a] \in [Positions -> Registers \cup {None}]
    BY <2>1 DEF TypeOK, Areas
  <2>3. \A a \in {"boolOut", "intOut"} : buf'[a] \in [Positions -> Located \cup {None}]
    BY <2>1 DEF TypeOK, Areas
  <2> QED
    BY <2>1, <2>2, <2>3 DEF TypeOK
<1>5. CASE ~ (\E k \in Reads : ReadBlock(k)) /\ ~ UpdateBuffersIn /\ ~ UpdateBuffersOut
  <2>1. UNCHANGED <<buf, table>>
    BY <1>5 DEF Next, StartRound, UseConnection, Connect, ConnectFails, NoBlock, ReadFails,
                WriteBlock, WriteFails, vars
  <2> QED
    BY <1>1, <2>1
<1> QED
  BY <1>2, <1>3, <1>4, <1>5

\* The unit a context addresses stays a device, and the counter a number.
LEMMA RestTyped ==
    ASSUME TypeOK, [Next]_vars
    PROVE  slave' \in [Contexts -> Devices] /\ counter' \in Nat /\ strayed' \in BOOLEAN
<1>1. slave' \in [Contexts -> Devices]
  <2>1. CASE UNCHANGED slave
    BY <2>1 DEF TypeOK
  <2>2. CASE dev \in Devices /\ SelectSlave
    BY <2>2 DEF SelectSlave, TypeOK
  <2> QED
    BY <2>1, <2>2 DEF Next, StartRound, UseConnection, Connect, ConnectFails, NoBlock, ReadBlock,
                      ReadFails, WriteBlock, WriteFails, CloseIfTcp, UpdateBuffersIn,
                      UpdateBuffersOut, line, vars
<1>2. UNCHANGED counter /\ (UNCHANGED strayed \/ strayed' = TRUE)
  BY DEF Next, StartRound, UseConnection, Connect, ConnectFails, NoBlock, ReadBlock, ReadFails,
         WriteBlock, WriteFails, CountError, UpdateBuffersIn, UpdateBuffersOut, vars
<1> QED
  BY <1>1, <1>2 DEF TypeOK

\* Every variable of ModbusMaster keeps its type; in particular no index ever
\* leaves its buffer, whatever fails.
THEOREM TypeCorrect == Spec => []TypeOK
<1>1. IInv /\ TypeOK /\ [Next]_vars => TypeOK'
  BY TypesStep, IndexInside, ContentTyped, RestTyped DEF IInv, Types, TypeOK
<1> QED
  BY InitTyped, <1>1, Invariance, PTL DEF Spec
=============================================================================
