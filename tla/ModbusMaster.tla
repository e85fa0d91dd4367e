----------------------------- MODULE ModbusMaster -----------------------------
(***************************************************************************)
(* The Modbus master of the runtime (webserver/core/modbus_master.cpp):    *)
(* querySlaveDevices() polls the configured devices one after the other,   *)
(* up to five blocks of registers each, and packs what it reads and writes *)
(* into four buffers which the scan copies from and to the image table.    *)
(* A block is located by running indices, which every failure path has to  *)
(* keep right, and devices on one serial line share a libmodbus context.   *)
(*                                                                         *)
(* A register's content is the register it came from: a value read from    *)
(* register j of block k of device d is <<d, k, j>>, and what the program  *)
(* writes to a location is the location.  Blocks are copied in one step:   *)
(* ScanCycle shows that ioLock makes them so.                              *)
(***************************************************************************)
EXTENDS Integers

CONSTANTS
    N,         \* num_devices
    Size,      \* Size[k][d]: num_regs of block k of device d
    Offset,    \* Offset[a][d]: the registers of area a before device d's
    Rtu,       \* the devices whose protocol is MB_RTU
    Line,      \* Line[d]: dev_address of device d
    MaxIo,     \* MAX_MB_IO
    Located,   \* the locations the PLC program uses
    None       \* what a buffer holds initially

Devices == 0 .. N - 1
Kinds   == {"di", "coil", "ir", "hrr", "hr"}  \* the blocks of a MB_device
Areas   == {"boolIn", "boolOut", "intIn", "intOut"}
Reads   == {"di", "ir", "hrr"}
Writes  == {"coil", "hr"}

\* The buffer that holds a block.
Area == [di |-> "boolIn", coil |-> "boolOut", ir |-> "intIn", hrr |-> "intIn",
         hr |-> "intOut"]

\* The registers of device d in an area.
Width(a, d) == [boolIn |-> Size["di"][d], boolOut |-> Size["coil"][d],
                intIn |-> Size["ir"][d] + Size["hrr"][d], intOut |-> Size["hr"][d]][a]

ASSUME SizeAssumption ==
    /\ N \in Nat \ {0}
    /\ Size \in [Kinds -> [Devices -> Nat]]

\* The configuration fits the buffers; parseConfig() does not check it.
ASSUME OffsetAssumption ==
    /\ Offset \in [Areas -> [0 .. N -> 0 .. MaxIo]]
    /\ MaxIo \in Nat
    /\ \A a \in Areas :
          /\ Offset[a][0] = 0
          /\ \A d \in Devices : Offset[a][d + 1] = Offset[a][d] + Width(a, d)

ASSUME LineAssumption ==
    /\ Rtu \subseteq Devices
    /\ \A d \in Rtu : Line[d] \notin Devices
    /\ \A d \in Rtu, e \in Devices \ Rtu : Line[d] # Line[e]

\* initializeMB(): the serial devices on one line share the context of the
\* first of them.  A context is named by its line, or its TCP device.
Ctx(d) == IF d \in Rtu THEN Line[d] ELSE d

Contexts == {Ctx(d) : d \in Devices}

Sharing(d) == {e \in Devices \ {d} : d \in Rtu /\ Line[e] = Line[d]}

\* The place of a block's first register in its buffer.
Start(k, d) == IF k = "hrr" THEN Offset["intIn"][d] + Size["ir"][d] ELSE Offset[Area[k]][d]

\* Where the image table keeps position i of a buffer.
Location(a, i) ==
    IF a \in {"boolIn", "boolOut"} THEN <<a, 100 + i \div 8, i % 8>> ELSE <<a, 100 + i>>

Positions == 0 .. MaxIo - 1

\* The locations of the slave inputs that the program uses.
SlaveInputs == {Location(a, i) : a \in {"boolIn", "intIn"}, i \in Positions} \cap Located

VARIABLES
    dev,        \* the device being polled; N while the thread sleeps
    stage,      \* "connect", or the block that comes next
    index,      \* bool_input_index, bool_output_index, int_*_index
    connected,  \* isConnected
    open,       \* the contexts whose socket or line is open
    slave,      \* the unit each context addresses (modbus_set_slave)
    buf,        \* bool_input_buf, bool_output_buf, int_input_buf, int_output_buf
    table,      \* the located slave inputs of the image table
    sent,       \* the last write request: device, block, registers
    counter,    \* %ML1026, which special_functions[2] points to at first
    strayed     \* whether special_functions[2] points elsewhere

line == <<connected, open, slave>>
vars == <<dev, stage, index, line, buf, table, sent, counter, strayed>>

Zero   == [a \in Areas |-> 0]
NoSent == [to |-> None, kind |-> None, data |-> <<>>]

\* initializeMB() sets the unit of each device's context, in order.
Init ==
    /\ dev = N
    /\ stage = "connect"
    /\ index = Zero
    /\ connected = [d \in Devices |-> FALSE]
    /\ open = {}
    /\ slave = [c \in Contexts |->
                  CHOOSE d \in Devices : Ctx(d) = c /\ \A e \in d + 1 .. N - 1 : Ctx(e) # c]
    /\ buf = [a \in Areas |-> [i \in Positions |-> None]]
    /\ table = [l \in SlaveInputs |-> None]
    /\ sent = NoSent
    /\ counter = 0
    /\ strayed = FALSE

-----------------------------------------------------------------------------
\* The polling thread.

\* Faulty: the indices go on from the round before.
StartRoundFurther ==
    /\ dev = N
    /\ dev' = 0
    /\ stage' = "connect"
    /\ UNCHANGED <<index, line, buf, table, sent, counter, strayed>>

\* while (run_openplc): the indices start from 0 in every round.
StartRound ==
    /\ dev = N
    /\ dev' = 0
    /\ stage' = "connect"
    /\ index' = Zero
    /\ UNCHANGED <<line, buf, table, sent, counter, strayed>>

NextStage == [connect |-> "di", di |-> "coil", coil |-> "ir", ir |-> "hrr", hrr |-> "hr"]

\* On to the device's next block, or to the next device.
Advance ==
    IF stage = "hr" THEN dev' = dev + 1 /\ stage' = "connect"
    ELSE stage' = NextStage[stage] /\ UNCHANGED dev

\* *special_functions[2]++ moves the pointer and leaves %ML1026 as it was.
CountError == strayed' = TRUE /\ UNCHANGED counter

Skip(a, n) == index' = [index EXCEPT ![a] = @ + n]

\* A shared context must be told which unit the next requests are for.
SelectSlave ==
    slave' = IF Sharing(dev) # {} THEN [slave EXCEPT ![Ctx(dev)] = dev] ELSE slave

\* The device's context is open: its own, or the line of a sharing device.
Reachable == connected[dev] \/ \E e \in Sharing(dev) : connected[e]

UseConnection ==
    /\ dev \in Devices /\ stage = "connect" /\ Reachable
    /\ SelectSlave
    /\ Advance
    /\ UNCHANGED <<index, connected, open, buf, table, sent, counter, strayed>>

Connect ==
    /\ dev \in Devices /\ stage = "connect" /\ ~Reachable
    /\ SelectSlave
    /\ connected' = [connected EXCEPT ![dev] = TRUE]
    /\ open' = open \cup {Ctx(dev)}
    /\ Advance
    /\ UNCHANGED <<index, buf, table, sent, counter, strayed>>

\* Faulty: the registers of a device that is away are not skipped.
ConnectFailsInPlace ==
    /\ dev \in Devices /\ stage = "connect" /\ ~Reachable
    /\ SelectSlave
    /\ CountError
    /\ dev' = dev + 1
    /\ UNCHANGED <<stage, index, connected, open, buf, table, sent>>

\* The device's registers are skipped, and it is tried again next round.
ConnectFails ==
    /\ dev \in Devices /\ stage = "connect" /\ ~Reachable
    /\ SelectSlave
    /\ CountError
    /\ index' = [a \in Areas |-> index[a] + Width(a, dev)]
    /\ dev' = dev + 1
    /\ UNCHANGED <<stage, connected, open, buf, table, sent>>

\* num_regs = 0: there is no such block.
NoBlock ==
    /\ dev \in Devices /\ stage \in Kinds /\ Size[stage][dev] = 0
    /\ Advance
    /\ UNCHANGED <<index, line, buf, table, sent, counter, strayed>>

AtBlock(k) == dev \in Devices /\ stage = k /\ Size[k][dev] > 0

\* Faulty: a serial line is closed like a socket.
CloseAny ==
    /\ connected' = [connected EXCEPT ![dev] = FALSE]
    /\ open' = open \ {Ctx(dev)}
    /\ UNCHANGED slave

\* A failed request closes a TCP connection; a serial line is left as it is.
CloseIfTcp ==
    /\ connected' = [connected EXCEPT ![dev] = dev \in Rtu /\ @]
    /\ open' = IF dev \in Rtu THEN open ELSE open \ {Ctx(dev)}
    /\ UNCHANGED slave

\* modbus_read_*() returns the block, from the unit the context addresses.
ReadBlock(k) ==
    /\ AtBlock(k) /\ Ctx(dev) \in open
    /\ buf' = [buf EXCEPT ![Area[k]] = [i \in Positions |->
                 IF i \in index[Area[k]] .. index[Area[k]] + Size[k][dev] - 1
                 THEN <<slave[Ctx(dev)], k, i - index[Area[k]]>> ELSE @[i]]]
    /\ Skip(Area[k], Size[k][dev])
    /\ Advance
    /\ UNCHANGED <<line, table, sent, counter, strayed>>

\* It fails: the block keeps its old content and is skipped.
ReadFails(k) ==
    /\ AtBlock(k)
    /\ CloseIfTcp
    /\ CountError
    /\ Skip(Area[k], Size[k][dev])
    /\ Advance
    /\ UNCHANGED <<buf, table, sent>>

\* The block to write is taken from the output buffer, and sent.
WriteBlock(k) ==
    /\ AtBlock(k) /\ Ctx(dev) \in open
    /\ sent' = [to |-> slave[Ctx(dev)], kind |-> k,
                data |-> [j \in 0 .. Size[k][dev] - 1 |-> buf[Area[k]][index[Area[k]] + j]]]
    /\ Skip(Area[k], Size[k][dev])
    /\ Advance
    /\ UNCHANGED <<line, buf, table, counter, strayed>>

\* Faulty: the outputs of a failed request are not skipped.
WriteFailsInPlace(k) ==
    /\ AtBlock(k)
    /\ CloseIfTcp
    /\ CountError
    /\ Advance
    /\ UNCHANGED <<index, buf, table, sent>>

\* It fails; the registers were taken from the buffer all the same.
WriteFails(k) ==
    /\ AtBlock(k)
    /\ CloseIfTcp
    /\ CountError
    /\ Skip(Area[k], Size[k][dev])
    /\ Advance
    /\ UNCHANGED <<buf, table, sent>>

-----------------------------------------------------------------------------
\* The scan's two copies.

Position(l) == CHOOSE i \in Positions : Location(l[1], i) = l

\* updateBuffersIn_MB().
UpdateBuffersIn ==
    /\ table' = [l \in SlaveInputs |-> buf[l[1]][Position(l)]]
    /\ UNCHANGED <<dev, stage, index, line, buf, sent, counter, strayed>>

\* updateBuffersOut_MB(); the program writes to each location its name.
UpdateBuffersOut ==
    /\ buf' = [a \in Areas |-> [i \in Positions |->
                 IF a \in {"boolOut", "intOut"} /\ Location(a, i) \in Located
                 THEN Location(a, i) ELSE buf[a][i]]]
    /\ UNCHANGED <<dev, stage, index, line, table, sent, counter, strayed>>

Next ==
    \/ StartRound
    \/ UseConnection \/ Connect \/ ConnectFails
    \/ NoBlock
    \/ \E k \in Reads : ReadBlock(k) \/ ReadFails(k)
    \/ \E k \in Writes : WriteBlock(k) \/ WriteFails(k)
    \/ UpdateBuffersIn \/ UpdateBuffersOut

Spec == Init /\ [][Next]_vars

-----------------------------------------------------------------------------
\* Properties.

Registers == {<<d, k, j>> : d \in Devices, k \in Reads, j \in Positions}

\* Type invariant: every variable holds what its declaration says.
TypeOK ==
    /\ dev \in 0 .. N
    /\ stage \in Kinds \cup {"connect"}
    /\ index \in [Areas -> 0 .. MaxIo]
    /\ connected \in [Devices -> BOOLEAN]
    /\ open \subseteq Contexts
    /\ slave \in [Contexts -> Devices]
    /\ DOMAIN buf = Areas
    /\ \A a \in {"boolIn", "intIn"} : buf[a] \in [Positions -> Registers \cup {None}]
    /\ \A a \in {"boolOut", "intOut"} : buf[a] \in [Positions -> Located \cup {None}]
    /\ table \in [SlaveInputs -> Registers \cup {None}]
    /\ counter \in Nat
    /\ strayed \in BOOLEAN

\* The register of a device that position i of an input buffer is for.
IsFor(r, a, i) ==
    \E d \in Devices, k \in Reads :
        \E j \in 0 .. Size[k][d] - 1 : r = <<d, k, j>> /\ a = Area[k] /\ i = Start(k, d) + j

\* Whatever fails and comes back, in any order, a slave input of the image
\* table only ever shows the register of the device it was configured for.
InputsInPlace ==
    \A a \in {"boolIn", "intIn"}, i \in Positions :
        /\ buf[a][i] # None => IsFor(buf[a][i], a, i)
        /\ Location(a, i) \in SlaveInputs =>
              (table[Location(a, i)] # None =>
                  IsFor(table[Location(a, i)], a, i))

\* A write request carries to a device the outputs configured for it.
OutputsInPlace ==
    sent # NoSent =>
        \A j \in DOMAIN sent.data :
            sent.data[j] \in {None, Location(Area[sent.kind], Start(sent.kind, sent.to) + j)}

\* A context is open as long as some device counts as connected through it:
\* the code never connects one twice nor counts on a closed one.
ContextsMatch ==
    \A c \in Contexts :
        c \in open <=> \E d \in Devices : Ctx(d) = c /\ connected[d]
=============================================================================
