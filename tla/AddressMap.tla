------------------------------ MODULE AddressMap ------------------------------
(***************************************************************************)
(* What an address means.  Four parts of the program split addresses into  *)
(* the tables of the image (ladder.h) on their own and have to agree: the  *)
(* glue generator, which binds the program's located variables to table    *)
(* entries, the Modbus slave and the DNP3 outstation, which read and write *)
(* them for clients, and the web server's monitor, which reads them back   *)
(* through Modbus.                                                         *)
(*                                                                         *)
(* The splitting keeps no state: what changes is what somebody asks for.   *)
(* An entry is a table and an index, and a bit for the two tables of bits. *)
(* A Modbus register of a 32- or 64-bit entry is a word of it, named by    *)
(* its lowest bit; one that the program has no variable for is a word of   *)
(* the slave's own table mb_holding_regs.  The text of a location is left  *)
(* out.                                                                    *)
(***************************************************************************)
EXTENDS Integers

CONSTANTS
    BUFFER_SIZE,          \* length of each table
    offset_ao, offset_do, \* of dnp3.cfg: the first register and coil reported,
    offset_di,            \* and the first discrete input
    Words                 \* values that clients write

OffsetsAssumption ==
    /\ BUFFER_SIZE \in Nat \ {0}
    /\ offset_ao \in Nat /\ offset_do \in Nat /\ offset_di \in Nat

WordsAssumption == Words \subseteq Nat

MIN_16B_RANGE == BUFFER_SIZE
MAX_16B_RANGE == 2 * BUFFER_SIZE - 1
MIN_32B_RANGE == 2 * BUFFER_SIZE
MAX_32B_RANGE == 4 * BUFFER_SIZE - 1
MIN_64B_RANGE == 4 * BUFFER_SIZE
MAX_64B_RANGE == 8 * BUFFER_SIZE - 1
MAX_COILS     == 8 * BUFFER_SIZE
MAX_HOLD_REGS == 8 * BUFFER_SIZE

Indices   == 0..BUFFER_SIZE - 1
Registers == 0..MAX_64B_RANGE

Entry(table, i)   == [table |-> table, index |-> i, bit |-> 0]
Word(table, i, b) == [table |-> table, index |-> i, bit |-> b]

Nothing == Entry("none", 0)

-----------------------------------------------------------------------------
\* The Modbus slave.

\* Faulty: the words of a 32-bit register are stored the other way round.
WriteWordSwapped(p) ==
    IF p <= MIN_16B_RANGE THEN Entry("int_output", p)
    ELSE IF p <= MAX_16B_RANGE THEN Entry("int_memory", p - MIN_16B_RANGE)
    ELSE IF p <= MAX_32B_RANGE
         THEN Word("dint_memory", (p - MIN_32B_RANGE) \div 2, ((p - MIN_32B_RANGE) % 2) * 16)
    ELSE IF p <= MAX_64B_RANGE
         THEN Word("lint_memory", (p - MIN_64B_RANGE) \div 4, (3 - ((p - MIN_64B_RANGE) % 4)) * 16)
    ELSE Nothing

\* Where writeToRegisterWithoutLocking() stores a word of a variable.
WriteWord(p) ==
    IF p <= MIN_16B_RANGE THEN Entry("int_output", p)
    ELSE IF p <= MAX_16B_RANGE THEN Entry("int_memory", p - MIN_16B_RANGE)
    ELSE IF p <= MAX_32B_RANGE
         THEN Word("dint_memory", (p - MIN_32B_RANGE) \div 2, (1 - ((p - MIN_32B_RANGE) % 2)) * 16)
    ELSE IF p <= MAX_64B_RANGE
         THEN Word("lint_memory", (p - MIN_64B_RANGE) \div 4, (3 - ((p - MIN_64B_RANGE) % 4)) * 16)
    ELSE Nothing

\* Where ReadHoldingRegisters() takes it from.
ReadWord(p) ==
    IF p <= MIN_16B_RANGE THEN Entry("int_output", p)
    ELSE IF p <= MAX_16B_RANGE THEN Entry("int_memory", p - MIN_16B_RANGE)
    ELSE IF p <= MAX_32B_RANGE
         THEN Word("dint_memory", (p - MIN_32B_RANGE) \div 2,
                   IF (p - MIN_32B_RANGE) % 2 = 0 THEN 16 ELSE 0)
    ELSE IF p <= MAX_64B_RANGE
         THEN Word("lint_memory", (p - MIN_64B_RANGE) \div 4,
                   CASE (p - MIN_64B_RANGE) % 4 = 0 -> 48
                     [] (p - MIN_64B_RANGE) % 4 = 1 -> 32
                     [] (p - MIN_64B_RANGE) % 4 = 2 -> 16
                     [] OTHER -> 0)
    ELSE Nothing

\* Whether position p is a word of a 32- or 64-bit entry.  What no variable is
\* located at is a null pointer; mapUnusedIO() lets the other null entries, of
\* bits and of 16 bits, point to words that the slave has for them, but for a
\* long one a word of mb_holding_regs stands in.
IsLong(p) == MIN_32B_RANGE <= p /\ p <= MAX_64B_RANGE
Spare(p)  == Entry("mb_holding_regs", p)

\* Where the two functions store a word and take it from; used says whether the
\* program has a variable at the entry.
WriteSlot(p, used) == IF IsLong(p) /\ ~used THEN Spare(p) ELSE WriteWord(p)
ReadSlot(p, used)  == IF IsLong(p) /\ ~used THEN Spare(p) ELSE ReadWord(p)

LowByte(w)  == w % 256
HighByte(w) == w \div 256

\* The value in the answer when the word taken is w: two bytes of it, or the
\* word assigned to each of two bytes.
Shown(p, used, w) ==
    IF IsLong(p) /\ ~used THEN 256 * LowByte(w) + LowByte(w)
    ELSE 256 * HighByte(w) + LowByte(w)

\* Faulty: bits are counted from the other end.
CoilSlotReversed(p) == Word("bool_output", p \div 8, 7 - (p % 8))

\* ReadCoils() and WriteCoil(); ReadDiscreteInputs(); ReadInputRegisters().
CoilSlot(p)  == Word("bool_output", p \div 8, p % 8)
InputSlot(p) == Word("bool_input", p \div 8, p % 8)
InputRegisterSlot(p) == Entry("int_input", p)

-----------------------------------------------------------------------------
\* The program's variables and the monitor.  A location is an area, a size,
\* an index and a bit.

Locations ==
    [area : {"I", "Q", "M"}, size : {"X", "W", "D", "L"}, index : Indices, bit : 0..7]

\* glueVar(): the entry that points to a located variable.  %QL variables
\* are bound as inputs.
Bound(v) ==
    CASE v.area = "I" /\ v.size = "X" -> Word("bool_input", v.index, v.bit)
      [] v.area = "I" /\ v.size = "W" -> Entry("int_input", v.index)
      [] v.area = "I" /\ v.size = "D" -> Entry("dint_input", v.index)
      [] v.area = "I" /\ v.size = "L" -> Entry("lint_input", v.index)
      [] v.area = "Q" /\ v.size = "X" -> Word("bool_output", v.index, v.bit)
      [] v.area = "Q" /\ v.size = "W" -> Entry("int_output", v.index)
      [] v.area = "Q" /\ v.size = "D" -> Entry("dint_output", v.index)
      [] v.area = "Q" /\ v.size = "L" -> Entry("lint_input", v.index)
      [] v.area = "M" /\ v.size = "W" -> Entry("int_memory", v.index)
      [] v.area = "M" /\ v.size = "D" -> Entry("dint_memory", v.index)
      [] v.area = "M" /\ v.size = "L" -> Entry("lint_memory", v.index)
      [] OTHER -> Nothing

\* What the answers to the requests of modbus_monitor() show for a variable,
\* the most significant word first; nothing for a variable it does not read.
\* The variables are those of the program that runs.
Monitored(v) ==
    CASE v.area = "I" /\ v.size = "X" -> <<InputSlot(v.index * 8 + v.bit)>>
      [] v.area = "Q" /\ v.size = "X" -> <<CoilSlot(v.index * 8 + v.bit)>>
      [] v.area = "I" /\ v.size = "W" -> <<InputRegisterSlot(v.index)>>
      [] v.area = "Q" /\ v.size = "W" -> <<ReadWord(v.index)>>
      [] v.area = "M" /\ v.size = "W" -> <<ReadWord(v.index + 1024)>>
      [] v.area = "M" /\ v.size = "D" ->
            [k \in 1..2 |-> ReadWord(v.index * 2 + 2048 + k - 1)]
      [] v.area = "M" /\ v.size = "L" ->
            [k \in 1..4 |-> ReadWord(v.index * 4 + 4096 + k - 1)]
      [] OTHER -> << >>

-----------------------------------------------------------------------------
\* The DNP3 outstation.

\* Faulty: 32-bit registers are numbered as Modbus numbers them.
CommandHalved(i) ==
    IF i + offset_ao < MIN_16B_RANGE THEN Entry("int_output", i + offset_ao)
    ELSE IF i + offset_ao < MAX_16B_RANGE
         THEN Entry("int_memory", i + offset_ao - MIN_16B_RANGE)
    ELSE IF i >= MIN_32B_RANGE /\ i < MAX_32B_RANGE
         THEN Entry("dint_memory", (i - MIN_32B_RANGE) \div 2)
    ELSE IF i >= MIN_64B_RANGE /\ i < MAX_64B_RANGE
         THEN Entry("lint_memory", i - MIN_64B_RANGE)
    ELSE Nothing

\* Where Operate() stores an analog command for point i, of the size the
\* point has.
Command(i) ==
    IF i + offset_ao < MIN_16B_RANGE THEN Entry("int_output", i + offset_ao)
    ELSE IF i + offset_ao < MAX_16B_RANGE
         THEN Entry("int_memory", i + offset_ao - MIN_16B_RANGE)
    ELSE IF i >= MIN_32B_RANGE /\ i < MAX_32B_RANGE
         THEN Entry("dint_memory", i - MIN_32B_RANGE)
    ELSE IF i >= MIN_64B_RANGE /\ i < MAX_64B_RANGE
         THEN Entry("lint_memory", i - MIN_64B_RANGE)
    ELSE Nothing

\* What update_vals() reports as the status of analog output i; the registers
\* from MIN_16B_RANGE on are reported without the offset, and later updates of
\* one point override earlier ones.
Status(i) ==
    IF i >= MIN_64B_RANGE /\ i < MAX_64B_RANGE /\ i - MIN_64B_RANGE < BUFFER_SIZE
    THEN Entry("lint_memory", i - MIN_64B_RANGE)
    ELSE IF i >= MIN_32B_RANGE /\ i < MAX_32B_RANGE
         THEN Entry("dint_memory", i - MIN_32B_RANGE)
    ELSE IF i >= MIN_16B_RANGE /\ i < MAX_16B_RANGE
         THEN Entry("int_memory", i - MIN_16B_RANGE)
    ELSE IF i + offset_ao < MIN_16B_RANGE THEN Entry("int_output", i + offset_ao)
    ELSE Nothing

\* The coil of a command, and the coil whose status is reported: Operate()
\* adds the offset of the inputs, update_vals() subtracts that of the coils.
CoilCommand(i) == CoilSlot(i + offset_di)
CoilStatus(i)  == CoilSlot(i + offset_do)

-----------------------------------------------------------------------------
\* Clients ask for registers and points, the monitor for variables.

VARIABLES
    register,  \* the register, coil or point a request comes to
    located,   \* whether the program has a variable there
    location   \* the variable that is monitored

mapVars == <<register, located, location>>

MapInit == register = 0 /\ located = FALSE /\ location = CHOOSE v \in Locations : TRUE

\* A request names registers from any on, in any number, whichever of them the
\* program uses.
AskRegister == register' \in Registers /\ located' \in BOOLEAN /\ UNCHANGED location

\* A program may have a variable at any location.
AskLocation == location' \in Locations /\ UNCHANGED <<register, located>>

MapNext == AskRegister \/ AskLocation

MapSpec == MapInit /\ [][MapNext]_mapVars
-----------------------------------------------------------------------------
\* Properties.

\* The entries a table has.
Exists(e) ==
    e.index \in IF e.table = "mb_holding_regs" THEN 0..MAX_HOLD_REGS - 1 ELSE Indices

\* The register a word belongs to.
RegisterOf(e) ==
    CASE e.table = "int_output"  -> e.index
      [] e.table = "int_memory"  -> MIN_16B_RANGE + e.index
      [] e.table = "dint_memory" -> MIN_32B_RANGE + 2 * e.index + 1 - e.bit \div 16
      [] e.table = "lint_memory" -> MIN_64B_RANGE + 4 * e.index + 3 - e.bit \div 16
      [] e.table = "mb_holding_regs" -> e.index

\* A client reads a holding register from the very word it writes it to: the
\* shifts of the reads and the masks of the writes are written down apart.
\* No two registers share a word, so that a write never shows in another
\* register, used or not: each word leads back to its register.  And the words
\* exist, but for one: MIN_16B_RANGE is taken for an output register, which
\* the table does not have.  The client finds there what it wrote, except in a
\* long register that the program does not use: of that the low byte comes
\* back twice, so that only values with two equal bytes come back.
MapOwnWord ==
    LET e == WriteSlot(register, located)
    IN  /\ ReadSlot(register, located) = e
        /\ RegisterOf(e) = register
        /\ Exists(e) <=> register # MIN_16B_RANGE
        /\ \A w \in Words :
              Shown(register, located, w) = w <=>
                  (IsLong(register) => located \/ HighByte(w) = LowByte(w))

\* The monitoring page shows the variable the program uses, the words of a
\* long one in order, for each location that it reads at all; except %MW0.
MapMonitorShows ==
    LET v     == location
        shown == Monitored(v)
        bound == Bound(v)
    IN  (shown # << >> /\ ~(v.area = "M" /\ v.size = "W" /\ v.index = 0)) =>
            IF v.size = "X" \/ v.size = "W" THEN shown = <<bound>>
            ELSE \A k \in DOMAIN shown :
                    shown[k] = Word(bound.table, bound.index,
                                    16 * ((IF v.size = "D" THEN 2 ELSE 4) - k))

\* An operator who commands a point sees the effect in the status of that
\* point, as long as no offset is configured: for each point with a status.
MapCommandShows ==
    (offset_ao = 0 /\ offset_do = 0 /\ offset_di = 0) =>
        /\ CoilCommand(register) = CoilStatus(register)
        /\ Status(register) # Nothing /\ Exists(Status(register)) =>
              Command(register) = Status(register)
=============================================================================
