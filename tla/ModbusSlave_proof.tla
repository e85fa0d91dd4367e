--------------------------- MODULE ModbusSlave_proof ---------------------------
(***************************************************************************)
(* The Modbus slave for every size of table, any number of handlers and    *)
(* any requests.                                                           *)
(*                                                                         *)
(* The address laws split on the range a register lies in; what is left is *)
(* linear arithmetic with the quotient and the remainder by 2 and 4.  The  *)
(* words that stand in for unused long registers are a case of their own.  *)
(*                                                                         *)
(* An answer that no other handler was busy with has the length it should  *)
(* have, although all of them leave it in one variable without a lock: a   *)
(* handler that is inside processModbusMessage() and has been alone there  *)
(* is the only one inside (Apart), so that nobody else can have changed    *)
(* MessageLength; and at each stage the header holds what the functions    *)
(* before it have prepared, and the stage itself tells which answer the    *)
(* request gets (Prepared).                                                *)
(***************************************************************************)
EXTENDS AddressMap, ModbusReply, TLAPS

-----------------------------------------------------------------------------
\* Addresses.

\* A number is its quotient and remainder by 2, and by 4.
LEMMA Halves ==
    ASSUME NEW n \in Nat
    PROVE  /\ n \div 2 \in Nat /\ n % 2 \in 0..1 /\ n = 2 * (n \div 2) + (n % 2)
           /\ n \div 4 \in Nat /\ n % 4 \in 0..3 /\ n = 4 * (n \div 4) + (n % 4)
  BY SMT

\* The four ranges a register may lie in, which the code tests in turn.
Low(p)    == p <= MIN_16B_RANGE
Middle(p) == ~Low(p) /\ p <= MAX_16B_RANGE
Double(p) == ~Low(p) /\ ~(p <= MAX_16B_RANGE) /\ p <= MAX_32B_RANGE
Long(p)   == ~Low(p) /\ ~(p <= MAX_16B_RANGE) /\ ~(p <= MAX_32B_RANGE) /\ p <= MAX_64B_RANGE

LEMMA Ranges ==
    ASSUME OffsetsAssumption, NEW p \in Registers
    PROVE  /\ p \in Nat
           /\ Low(p) \/ Middle(p) \/ Double(p) \/ Long(p)
           /\ Double(p) => p - MIN_32B_RANGE \in Nat
           /\ Long(p) => p - MIN_64B_RANGE \in Nat
  BY SMT DEF OffsetsAssumption, Registers, MIN_16B_RANGE, MAX_16B_RANGE,
             MIN_32B_RANGE, MAX_32B_RANGE, MIN_64B_RANGE, MAX_64B_RANGE,
             Low, Middle, Double, Long

\* ReadHoldingRegisters() and writeToRegisterWithoutLocking() agree on the
\* word of every register.
LEMMA ReadsWhatIsWritten ==
    ASSUME OffsetsAssumption, NEW p \in Registers
    PROVE  ReadWord(p) = WriteWord(p)
<1>1. CASE Low(p)
  BY <1>1 DEF ReadWord, WriteWord, Low
<1>2. CASE Middle(p)
  BY <1>2 DEF ReadWord, WriteWord, Low, Middle
<1>3. CASE Double(p)
  <2> DEFINE r == (p - MIN_32B_RANGE) % 2
  <2>1. r \in 0..1
    BY <1>3, Ranges, Halves
  <2>2. (1 - r) * 16 = IF r = 0 THEN 16 ELSE 0
    BY <2>1
  <2> QED
    BY <1>3, <2>2 DEF ReadWord, WriteWord, Low, Double
<1>4. CASE Long(p)
  <2> DEFINE r == (p - MIN_64B_RANGE) % 4
  <2>1. r \in 0..3
    BY <1>4, Ranges, Halves
  <2>2. (3 - r) * 16 = CASE r = 0 -> 48 [] r = 1 -> 32 [] r = 2 -> 16 [] OTHER -> 0
    BY <2>1
  <2> QED
    BY <1>4, <2>2 DEF ReadWord, WriteWord, Low, Long
<1> QED
  BY <1>1, <1>2, <1>3, <1>4, Ranges

\* Every register's word leads back to the register: no two share one.
LEMMA RegistersApart ==
    ASSUME OffsetsAssumption, NEW p \in Registers
    PROVE  RegisterOf(WriteWord(p)) = p
<1>0. /\ MIN_16B_RANGE \in Nat /\ MIN_32B_RANGE \in Nat /\ MIN_64B_RANGE \in Nat
      /\ p \in Nat
  BY Ranges DEF OffsetsAssumption, MIN_16B_RANGE, MIN_32B_RANGE, MIN_64B_RANGE
<1>1. CASE Low(p)
  <2>1. WriteWord(p) = Entry("int_output", p)
    BY <1>1 DEF WriteWord, Low
  <2> QED
    BY <2>1 DEF RegisterOf, Entry
<1>2. CASE Middle(p)
  <2>1. WriteWord(p) = Entry("int_memory", p - MIN_16B_RANGE)
    BY <1>2 DEF WriteWord, Low, Middle
  <2> QED
    BY <1>0, <2>1 DEF RegisterOf, Entry
<1>3. CASE Double(p)
  <2> DEFINE n == p - MIN_32B_RANGE
  <2>1. n \in Nat /\ p = MIN_32B_RANGE + n
    BY <1>0, <1>3, Ranges
  <2>2. WriteWord(p) = Word("dint_memory", n \div 2, (1 - (n % 2)) * 16)
    BY <1>3 DEF WriteWord, Low, Double
  <2>3. RegisterOf(WriteWord(p)) =
          MIN_32B_RANGE + 2 * (n \div 2) + 1 - ((1 - (n % 2)) * 16) \div 16
    BY <2>2 DEF RegisterOf, Word
  <2>4. n % 2 = 0 \/ n % 2 = 1
    BY <2>1, Halves
  <2>5. ((1 - (n % 2)) * 16) \div 16 = 1 - (n % 2)
    BY <2>4
  <2>6. n = 2 * (n \div 2) + (n % 2) /\ n \div 2 \in Nat
    BY <2>1, Halves
  <2> HIDE DEF n
  <2> QED
    BY <1>0, <2>1, <2>3, <2>4, <2>5, <2>6
<1>4. CASE Long(p)
  <2> DEFINE n == p - MIN_64B_RANGE
  <2>1. n \in Nat /\ p = MIN_64B_RANGE + n
    BY <1>0, <1>4, Ranges
  <2>2. WriteWord(p) = Word("lint_memory", n \div 4, (3 - (n % 4)) * 16)
    BY <1>4 DEF WriteWord, Low, Long
  <2>3. RegisterOf(WriteWord(p)) =
          MIN_64B_RANGE + 4 * (n \div 4) + 3 - ((3 - (n % 4)) * 16) \div 16
    BY <2>2 DEF RegisterOf, Word
  <2>4. n % 4 = 0 \/ n % 4 = 1 \/ n % 4 = 2 \/ n % 4 = 3
    BY <2>1, Halves
  <2>5. ((3 - (n % 4)) * 16) \div 16 = 3 - (n % 4)
    BY <2>4
  <2>6. n = 4 * (n \div 4) + (n % 4) /\ n \div 4 \in Nat
    BY <2>1, Halves
  <2> HIDE DEF n
  <2> QED
    BY <1>0, <2>1, <2>3, <2>4, <2>5, <2>6
<1> QED
  BY <1>1, <1>2, <1>3, <1>4, Ranges

\* Only one register a request may name leads outside its table.
LEMMA OneRegisterMissing ==
    ASSUME OffsetsAssumption, NEW p \in Registers
    PROVE  Exists(WriteWord(p)) <=> p # MIN_16B_RANGE
<1>0. BUFFER_SIZE \in Nat \ {0} /\ p \in Nat
  BY Ranges DEF OffsetsAssumption
<1>1. CASE Low(p)
  BY <1>0, <1>1 DEF WriteWord, Low, Exists, Indices, Entry, MIN_16B_RANGE
<1>2. CASE Middle(p)
  <2>1. WriteWord(p) = Entry("int_memory", p - MIN_16B_RANGE)
    BY <1>2 DEF WriteWord, Low, Middle
  <2>2. p - MIN_16B_RANGE \in Indices /\ p # MIN_16B_RANGE
    BY <1>0, <1>2 DEF Low, Middle, Indices, MIN_16B_RANGE, MAX_16B_RANGE
  <2> QED
    BY <2>1, <2>2 DEF Exists, Entry
<1>3. CASE Double(p)
  <2> DEFINE n == p - MIN_32B_RANGE
  <2>1. WriteWord(p) = Word("dint_memory", n \div 2, (1 - (n % 2)) * 16)
    BY <1>3 DEF WriteWord, Low, Double
  <2>2. n \in 0..2 * BUFFER_SIZE - 1 /\ p # MIN_16B_RANGE
    BY <1>0, <1>3 DEF Low, Double, MIN_16B_RANGE, MAX_16B_RANGE, MIN_32B_RANGE, MAX_32B_RANGE
  <2>3. n \div 2 \in Nat /\ n % 2 \in 0..1 /\ n = 2 * (n \div 2) + (n % 2)
    BY <2>2, Halves, <1>0
  <2> HIDE DEF n
  <2>4. n \div 2 \in Indices
    BY <1>0, <2>2, <2>3 DEF Indices
  <2> QED
    BY <2>1, <2>2, <2>4 DEF Exists, Word
<1>4. CASE Long(p)
  <2> DEFINE n == p - MIN_64B_RANGE
  <2>1. WriteWord(p) = Word("lint_memory", n \div 4, (3 - (n % 4)) * 16)
    BY <1>4 DEF WriteWord, Low, Long
  <2>2. n \in 0..4 * BUFFER_SIZE - 1 /\ p # MIN_16B_RANGE
    BY <1>0, <1>4 DEF Low, Long, MIN_16B_RANGE, MAX_16B_RANGE, MAX_32B_RANGE,
                      MIN_64B_RANGE, MAX_64B_RANGE
  <2>3. n \div 4 \in Nat /\ n % 4 \in 0..3 /\ n = 4 * (n \div 4) + (n % 4)
    BY <2>2, Halves, <1>0
  <2> HIDE DEF n
  <2>4. n \div 4 \in Indices
    BY <1>0, <2>2, <2>3 DEF Indices
  <2> QED
    BY <2>1, <2>2, <2>4 DEF Exists, Word
<1> QED
  BY <1>1, <1>2, <1>3, <1>4, Ranges

\* The same holds where a word of mb_holding_regs stands in for the variable.
LEMMA SlotLaws ==
    ASSUME OffsetsAssumption, NEW p \in Registers, NEW used \in BOOLEAN
    PROVE  /\ ReadSlot(p, used) = WriteSlot(p, used)
           /\ RegisterOf(WriteSlot(p, used)) = p
           /\ Exists(WriteSlot(p, used)) <=> p # MIN_16B_RANGE
<1>1. CASE IsLong(p) /\ ~used
  <2>1. ReadSlot(p, used) = Spare(p) /\ WriteSlot(p, used) = Spare(p)
    BY <1>1 DEF ReadSlot, WriteSlot
  <2>2. RegisterOf(Spare(p)) = p
    BY DEF RegisterOf, Spare, Entry
  <2>3. p \in 0..MAX_HOLD_REGS - 1 /\ p # MIN_16B_RANGE
    BY <1>1 DEF OffsetsAssumption, Registers, IsLong, MAX_HOLD_REGS, MIN_16B_RANGE,
                MIN_32B_RANGE, MAX_64B_RANGE
  <2>4. Exists(Spare(p))
    BY <2>3 DEF Exists, Spare, Entry
  <2> QED
    BY <2>1, <2>2, <2>3, <2>4
<1>2. CASE ~(IsLong(p) /\ ~used)
  <2>1. ReadSlot(p, used) = ReadWord(p) /\ WriteSlot(p, used) = WriteWord(p)
    BY <1>2 DEF ReadSlot, WriteSlot
  <2> QED
    BY <2>1, ReadsWhatIsWritten, RegistersApart, OneRegisterMissing
<1> QED
  BY <1>1, <1>2

\* A word of a variable comes back as it was written, one of mb_holding_regs if
\* its two bytes are equal.
LEMMA ComesBack ==
    ASSUME WordsAssumption, NEW p \in Registers, NEW used \in BOOLEAN, NEW w \in Words
    PROVE  Shown(p, used, w) = w <=> (IsLong(p) => used \/ HighByte(w) = LowByte(w))
<1>1. w \in Nat
  BY DEF WordsAssumption
<1>2. /\ HighByte(w) \in Nat /\ LowByte(w) \in 0..255
      /\ w = 256 * HighByte(w) + LowByte(w)
  BY <1>1 DEF HighByte, LowByte
<1>3. 256 * LowByte(w) + LowByte(w) = w <=> HighByte(w) = LowByte(w)
  BY <1>2
<1> QED
  BY <1>2, <1>3 DEF Shown

\* Without offsets a DNP3 command and the status of its point name one entry.
LEMMA StatusIsCommand ==
    ASSUME OffsetsAssumption, NEW i \in Registers, offset_ao = 0,
           Status(i) # Nothing, Exists(Status(i))
    PROVE  Command(i) = Status(i)
<1>1. BUFFER_SIZE \in Nat \ {0} /\ i \in Nat /\ i + offset_ao = i
  BY Ranges DEF OffsetsAssumption
<1> QED
  BY <1>1, SMTT(30)
  DEF Command, Status, Exists, Entry, Indices, MIN_16B_RANGE, MAX_16B_RANGE,
      MIN_32B_RANGE, MAX_32B_RANGE, MIN_64B_RANGE, MAX_64B_RANGE

\* What is asked for is in the range of the addresses.
Asked == register \in Registers /\ located \in BOOLEAN

LEMMA AskedHolds == ASSUME OffsetsAssumption PROVE MapSpec => []Asked
<1>1. MapInit => Asked
  <2>1. 0 \in Registers
    BY DEF Registers, MAX_64B_RANGE, OffsetsAssumption
  <2> QED
    BY <2>1 DEF MapInit, Asked
<1>2. Asked /\ [MapNext]_mapVars => Asked'
  BY DEF Asked, MapNext, AskRegister, AskLocation, mapVars, Registers, MAX_64B_RANGE
<1> QED
  BY <1>1, <1>2, PTL DEF MapSpec

\* Each holding register has a word of its own that clients read and write,
\* whether or not the program has a variable there, and all but one of the
\* words exist, for tables of every length; what comes back is what was written,
\* of an unused long register only if its two bytes are equal.
THEOREM EachRegisterItsWord ==
    ASSUME OffsetsAssumption, WordsAssumption
    PROVE  MapSpec => []MapOwnWord
<1>1. Asked => MapOwnWord
  BY SlotLaws, ComesBack DEF Asked, MapOwnWord
<1> QED
  BY <1>1, AskedHolds, PTL

\* Whoever commands a point sees the effect in its status, for tables of every
\* length.
THEOREM CommandsShow == ASSUME OffsetsAssumption PROVE MapSpec => []MapCommandShows
<1>1. Asked => MapCommandShows
  <2> SUFFICES ASSUME register \in Registers,
                      offset_ao = 0, offset_do = 0, offset_di = 0
               PROVE  /\ CoilCommand(register) = CoilStatus(register)
                      /\ Status(register) # Nothing /\ Exists(Status(register)) =>
                            Command(register) = Status(register)
    BY DEF Asked, MapCommandShows
  <2>1. CoilCommand(register) = CoilStatus(register)
    BY DEF CoilCommand, CoilStatus
  <2>2. Status(register) # Nothing /\ Exists(Status(register)) =>
            Command(register) = Status(register)
    BY StatusIsCommand
  <2> QED
    BY <2>1, <2>2
<1> QED
  BY <1>1, AskedHolds, PTL

\* A bit of a byte, numbered through, leads back to the byte and the bit.
LEMMA Multiples8 ==
    ASSUME NEW i \in 0..1023, NEW b \in 0..7
    PROVE  (i * 8 + b) \div 8 = i /\ (i * 8 + b) % 8 = b
  BY SMT

\* The request for a bit leads back to the bit.
LEMMA MonitorBits ==
    ASSUME NEW v \in Locations, v.size = "X", BUFFER_SIZE = 1024, Monitored(v) # << >>
    PROVE  Monitored(v) = <<Bound(v)>>
<1>1. v.index \in 0..1023 /\ v.area \in {"I", "Q", "M"}
  BY DEF Locations, Indices
<1>2. (v.index * 8 + v.bit) \div 8 = v.index /\ (v.index * 8 + v.bit) % 8 = v.bit
  <2>1. PICK i \in 0..1023 : i = v.index
    BY <1>1
  <2>2. v.bit \in 0..7
    BY DEF Locations
  <2>3. PICK b \in 0..7 : b = v.bit
    BY <2>2, Zenon
  <2>4. (i * 8 + b) \div 8 = i /\ (i * 8 + b) % 8 = b
    BY Multiples8
  <2> QED
    BY <2>1, <2>3, <2>4, Zenon
<1>3. CASE v.area = "I"
  BY <1>2, <1>3 DEF Monitored, Bound, InputSlot
<1>4. CASE v.area = "Q"
  BY <1>2, <1>4 DEF Monitored, Bound, CoilSlot
<1>5. CASE v.area = "M"
  BY <1>5 DEF Monitored
<1> QED
  BY <1>1, <1>3, <1>4, <1>5

\* The request for a word leads back to the word.
LEMMA MonitorWords ==
    ASSUME NEW v \in Locations, v.size = "W", BUFFER_SIZE = 1024,
           v.area = "M" => v.index # 0
    PROVE  Monitored(v) = <<Bound(v)>>
<1>1. v.index \in 0..1023 /\ v.area \in {"I", "Q", "M"}
  BY DEF Locations, Indices
<1>2. CASE v.area = "I"
  BY <1>2 DEF Monitored, Bound, InputRegisterSlot
<1>3. CASE v.area = "Q"
  <2>1. Monitored(v) = <<ReadWord(v.index)>>
    BY <1>3 DEF Monitored
  <2>2. ReadWord(v.index) = Entry("int_output", v.index)
    BY <1>1 DEF ReadWord, MIN_16B_RANGE
  <2> QED
    BY <1>3, <2>1, <2>2 DEF Bound
<1>4. CASE v.area = "M"
  <2>1. Monitored(v) = <<ReadWord(v.index + 1024)>>
    BY <1>4 DEF Monitored
  <2>2. ReadWord(v.index + 1024) = Entry("int_memory", v.index)
    BY <1>1, <1>4, SMTT(20) DEF ReadWord, MIN_16B_RANGE, MAX_16B_RANGE
  <2> QED
    BY <1>4, <2>1, <2>2 DEF Bound
<1> QED
  BY <1>1, <1>2, <1>3, <1>4

\* The k-th register of a long variable is its k-th word from the top.
LEMMA DoubleWord ==
    ASSUME BUFFER_SIZE = 1024, NEW i \in 0..1023, NEW k \in 1..2
    PROVE  ReadWord(i * 2 + 2048 + k - 1) = Word("dint_memory", i, 16 * (2 - k))
<1>1. PICK n \in Nat : n = i * 2 + k - 1
  OBVIOUS
<1>2. n \div 2 = i /\ n % 2 = k - 1
  BY <1>1
<1>3. ReadWord(n + 2048) = Word("dint_memory", n \div 2, IF n % 2 = 0 THEN 16 ELSE 0)
  BY <1>1, SMTT(20)
     DEF ReadWord, MIN_16B_RANGE, MAX_16B_RANGE, MIN_32B_RANGE, MAX_32B_RANGE
<1>4. i * 2 + 2048 + k - 1 = n + 2048
  BY <1>1
<1>5. (IF n % 2 = 0 THEN 16 ELSE 0) = 16 * (2 - k)
  BY <1>2
<1> QED
  BY <1>2, <1>3, <1>4, <1>5

\* The same for the four registers of a longer one.
LEMMA LongWord ==
    ASSUME BUFFER_SIZE = 1024, NEW i \in 0..1023, NEW k \in 1..4,
           NEW p, p = i * 4 + 4096 + k - 1
    PROVE  ReadWord(p) = Word("lint_memory", i, 16 * (4 - k))
<1>1. PICK n \in Nat : n = i * 4 + k - 1
  OBVIOUS
<1>2. n \div 4 = i /\ n % 4 = k - 1 /\ p = n + 4096
  BY <1>1
<1> DEFINE shift == CASE n % 4 = 0 -> 48 [] n % 4 = 1 -> 32 [] n % 4 = 2 -> 16 [] OTHER -> 0
<1>3. ReadWord(n + 4096) = Word("lint_memory", n \div 4, shift)
  <2>1. (n + 4096) - MIN_64B_RANGE = n
    BY DEF MIN_64B_RANGE
  <2>2. /\ ~(n + 4096 <= MIN_16B_RANGE) /\ ~(n + 4096 <= MAX_16B_RANGE)
        /\ ~(n + 4096 <= MAX_32B_RANGE) /\ n + 4096 <= MAX_64B_RANGE
    BY <1>1 DEF MIN_16B_RANGE, MAX_16B_RANGE, MAX_32B_RANGE, MAX_64B_RANGE
  <2> QED
    BY <2>1, <2>2 DEF ReadWord
<1>4. shift = 16 * (4 - k)
  BY <1>2
<1> QED
  BY <1>2, <1>3, <1>4

\* The requests for a long variable lead back to its words in order.
LEMMA MonitorLong ==
    ASSUME NEW v \in Locations, v.size \in {"D", "L"}, BUFFER_SIZE = 1024
    PROVE  \A k \in DOMAIN Monitored(v) :
              Monitored(v)[k] = Word(Bound(v).table, Bound(v).index,
                                     16 * ((IF v.size = "D" THEN 2 ELSE 4) - k))
<1>1. v.index \in 0..1023 /\ v.area \in {"I", "Q", "M"}
  BY DEF Locations, Indices
<1>2. CASE v.area \in {"I", "Q"}
  BY <1>2 DEF Monitored
<1>3. CASE v.area = "M" /\ v.size = "D"
  <2>1. Monitored(v) = [k \in 1..2 |-> ReadWord(v.index * 2 + 2048 + k - 1)]
    BY <1>3 DEF Monitored
  <2>2. Bound(v).table = "dint_memory" /\ Bound(v).index = v.index
    BY <1>3 DEF Bound, Entry
  <2> QED
    BY <1>1, <1>3, <2>1, <2>2, DoubleWord, SMTT(20)
<1>4. CASE v.area = "M" /\ v.size = "L"
  <2>1. Monitored(v) = [k \in 1..4 |-> ReadWord(v.index * 4 + 4096 + k - 1)]
    BY <1>4 DEF Monitored
  <2>2. Bound(v).table = "lint_memory" /\ Bound(v).index = v.index
    BY <1>4 DEF Bound, Entry
  <2>3. \A k \in 1..4 : ReadWord(v.index * 4 + 4096 + k - 1)
                          = Word("lint_memory", v.index, 16 * (4 - k))
    <3> SUFFICES ASSUME NEW k \in 1..4
                 PROVE  ReadWord(v.index * 4 + 4096 + k - 1)
                          = Word("lint_memory", v.index, 16 * (4 - k))
      OBVIOUS
    <3>1. PICK i \in 0..1023 : i = v.index
      BY <1>1
    <3>2. PICK p : p = i * 4 + 4096 + k - 1
      OBVIOUS
    <3>3. ReadWord(p) = Word("lint_memory", i, 16 * (4 - k))
      BY <3>2, LongWord, SMTT(20)
    <3> QED
      BY <3>1, <3>2, <3>3
  <2> QED
    BY <1>4, <2>1, <2>2, <2>3
<1> QED
  BY <1>1, <1>2, <1>3, <1>4

\* The monitoring page shows the variable the program uses, at every location
\* it reads but %MW0: the monitor's requests are written for tables of 1024.
THEOREM MonitorShows ==
    ASSUME OffsetsAssumption, BUFFER_SIZE = 1024
    PROVE  MapSpec => []MapMonitorShows
<1>1. location \in Locations => MapMonitorShows
  <2> SUFFICES ASSUME location \in Locations, Monitored(location) # << >>,
                      ~(location.area = "M" /\ location.size = "W" /\ location.index = 0)
               PROVE  IF location.size = "X" \/ location.size = "W"
                      THEN Monitored(location) = <<Bound(location)>>
                      ELSE \A k \in DOMAIN Monitored(location) :
                              Monitored(location)[k] =
                                  Word(Bound(location).table, Bound(location).index,
                                       16 * ((IF location.size = "D" THEN 2 ELSE 4) - k))
    BY DEF MapMonitorShows
  <2>1. location.size \in {"X", "W", "D", "L"}
    BY DEF Locations
  <2>2. CASE location.size = "X"
    BY <2>2, MonitorBits
  <2>3. CASE location.size = "W"
    BY <2>3, MonitorWords
  <2>4. CASE location.size \in {"D", "L"}
    BY <2>4, MonitorLong
  <2> QED
    BY <2>1, <2>2, <2>3, <2>4
<1>2. MapInit => location \in Locations
  <2>1. [area |-> "I", size |-> "X", index |-> 0, bit |-> 0] \in Locations
    BY DEF Locations, Indices
  <2> QED
    BY <2>1 DEF MapInit
<1>3. location \in Locations /\ [MapNext]_mapVars => (location \in Locations)'
  BY DEF MapNext, AskRegister, AskLocation, mapVars, Locations, Indices
<1> QED
  BY <1>1, <1>2, <1>3, PTL DEF MapSpec

-----------------------------------------------------------------------------
\* The lengths of answers.

Stages == {"listen", "begin", "lock", "serve", "refuse", "report", "return", "write"}

ReplyTyped ==
    /\ stage \in [Handlers -> Stages]
    /\ DOMAIN request = Handlers
    /\ DOMAIN header = Handlers
    /\ DOMAIN messageSize = Handlers
    /\ alone \in [Handlers -> BOOLEAN]

Apart ==
    \A h \in Handlers : alone[h] /\ Inside(h) =>
        \A o \in Handlers \ {h} : ~Inside(o)

\* What the header is to be once the length is known.
Promised(q) == IF q.fc \in Reads THEN ByteDataLength(q) + 3 ELSE 6

Erring(q) == Refused(q) \/ (q.fc \notin Debug /\ Outside(q))

\* What the stage of a handler says of its request and its header.
PreparedFor(h, q) ==
    /\ stage[h] # "listen" => q \in Requests
    /\ stage[h] \in {"lock", "serve", "report"} => ~Refused(q)
    /\ stage[h] \in {"lock", "serve"} => q.fc \notin Debug
    /\ stage[h] \in {"lock", "serve", "report"} /\ q.fc \in Reads \cup Multiples =>
          header[h] = Promised(q)
    /\ stage[h] = "refuse" => Erring(q)
    /\ stage[h] = "report" => ~Erring(q)
    /\ stage[h] \in {"return", "write"} /\ q.fc \notin Debug => header[h] + 6 = Answer(q)
    /\ stage[h] = "return" /\ alone[h] /\ ~Miscounted(q) => MessageLength = Answer(q)
    /\ stage[h] = "write" /\ alone[h] /\ ~Miscounted(q) => messageSize[h] = Answer(q)

Prepared == \A h \in Handlers : PreparedFor(h, request[h])

ReplyInv == ReplyTyped /\ Apart /\ Prepared

-----------------------------------------------------------------------------
\* A request for data, or one that writes several values.
LEMMA LengthOfData ==
    ASSUME ReplyAssumption, NEW q \in Requests
    PROVE  /\ ByteDataLength(q) \in Nat
           /\ ~Refused(q) /\ q.fc \notin Debug => q.fc \in Reads \cup Singles \cup Multiples
<1>1. q \in RequestType
  BY DEF ReplyAssumption
<1>2. q.n \in Nat /\ q.fc \in Functions
  <2>1. q.n \in Word16 /\ q.fc \in Functions
    BY <1>1 DEF RequestType
  <2>2. Word16 \subseteq Nat
    BY DEF Word16
  <2> QED
    BY <2>1, <2>2
<1>3. (q.n + 7) \div 8 \in Nat /\ 2 * q.n \in Nat
  BY <1>2
<1>4. ByteDataLength(q) \in Nat
  BY <1>3 DEF ByteDataLength
<1>5. ~Refused(q) => q.fc # "other"
  BY DEF Refused
<1>6. q.fc \in Reads \cup Singles \cup Multiples \cup Debug \cup {"other"}
  BY <1>2 DEF Functions
<1> QED
  BY <1>4, <1>5, <1>6

\* A request that gets no error gets what the header was prepared for.
LEMMA AnswerIsPromised ==
    ASSUME ReplyAssumption, NEW q \in Requests, ~Erring(q), q.fc \notin Debug
    PROVE  Answer(q) = Promised(q) + 6
<1>1. ByteDataLength(q) \in Nat /\ q.fc \in Reads \cup Singles \cup Multiples
  BY LengthOfData DEF Erring
<1> QED
  BY <1>1 DEF Erring, Answer, Promised, CodeEnd

LEMMA ErrorAnswer == ASSUME NEW q, Erring(q) PROVE Answer(q) = 9
BY DEF Erring, Answer, CodeEnd

\* The code's number is the length of the frame, where the code counts rightly.
LEMMA LengthIsAnswer ==
    ASSUME ReplyAssumption, NEW q \in Requests, ~Erring(q), ~Miscounted(q)
    PROVE  Length(q) = Answer(q)
<1>1. CASE q.fc \in Debug
  <2>1. q.fc \in {"info", "set", "get", "list", "md5"} /\ ~Refused(q)
    BY <1>1 DEF Debug, Erring
  <2>2. Length(q) = DebugLength(q) /\ Answer(q) = DebugFrame(q)
    BY <1>1, <2>1 DEF Length, Answer
  <2>3. CodeEnd = 9 /\ DataStart = 17
    BY DEF CodeEnd, DataStart
  <2>4. CASE q.fc = "info"
    BY <2>2, <2>4 DEF DebugLength, DebugFrame
  <2>5. CASE q.fc = "set"
    BY <2>2, <2>3, <2>5 DEF DebugLength, DebugFrame
  <2>6. CASE q.fc = "md5"
    BY <2>2, <2>3, <2>6 DEF DebugLength, DebugFrame
  <2>7. CASE q.fc = "get"
    <3>1. BadRange(q)
      BY <2>1, <2>7 DEF Miscounted
    <3> QED
      BY <2>2, <2>3, <2>7, <3>1 DEF DebugLength, DebugFrame
  <2>8. CASE q.fc = "list"
    <3>1. TooMany(q) \/ ~NoSuch(q)
      BY <2>1, <2>8 DEF Miscounted
    <3> QED
      BY <2>2, <2>3, <2>8, <3>1 DEF DebugLength, DebugFrame
  <2> QED
    BY <2>1, <2>2, <2>4, <2>5, <2>6, <2>7, <2>8
<1>2. CASE q.fc \notin Debug
  <2>1. ByteDataLength(q) \in Nat
    BY LengthOfData
  <2> QED
    BY <1>2, <2>1 DEF Erring, Length, Answer, CodeEnd
<1> QED
  BY <1>1, <1>2

LEMMA ReplyInitially == ReplyInit => ReplyInv
BY DEF ReplyInit, ReplyInv, ReplyTyped, Apart, Prepared, PreparedFor, Inside, Stages

\* A handler that has the length of its own answer has it still when another
\* one moves, unless that one has just come in: then it is not alone.
LEMMA OthersKeep ==
    ASSUME ReplyInv, NEW h \in Handlers, NEW o \in Handlers \ {h},
           stage'[h] = stage[h], request'[h] = request[h], header'[h] = header[h],
           messageSize'[h] = messageSize[h],
           alone'[h] => alone[h],
           alone'[h] /\ stage[h] = "return" => MessageLength' = MessageLength
    PROVE  PreparedFor(h, request[h])'
BY DEF ReplyInv, Prepared, PreparedFor

LEMMA ReplyStepKeeps ==
    ASSUME ReplyAssumption, ReplyInv, NEW h \in Handlers, Listen(h) \/ ReplyStep(h)
    PROVE  ReplyInv'
<1> DEFINE q == request[h]
<1>0. ReplyTyped /\ Apart /\ Prepared /\ PreparedFor(h, q)
  BY DEF ReplyInv, Prepared
<1>1. CASE Listen(h)
  <2>1. PICK r \in Requests :
           /\ request' = [request EXCEPT ![h] = r]
           /\ header' = [header EXCEPT ![h] = r.size - 6]
    BY <1>1 DEF Listen
  <2>2. /\ stage[h] = "listen" /\ stage' = [stage EXCEPT ![h] = "begin"]
        /\ UNCHANGED <<MessageLength, messageSize, alone>>
    BY <1>1 DEF Listen, Go
  <2>3. ReplyTyped'
    BY <1>0, <2>1, <2>2 DEF ReplyTyped, Stages
  <2>4. Apart'
    BY <1>0, <2>2 DEF ReplyTyped, Apart, Inside
  <2>5. PreparedFor(h, request[h])'
    BY <1>0, <2>1, <2>2 DEF ReplyTyped, PreparedFor
  <2>6. \A g \in Handlers \ {h} : PreparedFor(g, request[g])'
    BY <1>0, <2>1, <2>2, OthersKeep DEF ReplyTyped
  <2> QED
    BY <2>3, <2>4, <2>5, <2>6 DEF ReplyInv, Prepared
<1>2. CASE Begin(h)
  <2>1. /\ stage[h] = "begin" /\ stage' = [stage EXCEPT ![h] = Way(q)]
        /\ MessageLength' = 0
        /\ UNCHANGED <<request, messageSize>>
    BY <1>2 DEF Begin, Go
  <2>2. header' = [header EXCEPT ![h] =
              IF Way(q) # "lock" \/ q.fc \in Singles THEN @
              ELSE IF q.fc \in Reads THEN ByteDataLength(q) + 3 ELSE 6]
    BY <1>2 DEF Begin
  <2>3. alone' = [g \in Handlers |->
              IF g = h THEN \A o \in Handlers \ {h} : ~Inside(o)
              ELSE alone[g] /\ ~Inside(g)]
    BY <1>2 DEF Begin
  <2>4. q \in Requests
    BY <1>0, <2>1 DEF PreparedFor
  <2>5. Way(q) \in {"refuse", "report", "lock"}
    BY DEF Way
  <2>6. ReplyTyped'
    <3>1. alone' \in [Handlers -> BOOLEAN]
      BY <1>0, <2>3 DEF ReplyTyped
    <3> QED
      BY <1>0, <2>1, <2>2, <2>5, <3>1 DEF ReplyTyped, Stages
  <2>7. \A g \in Handlers \ {h} : stage'[g] = stage[g] /\ header'[g] = header[g]
    BY <1>0, <2>1, <2>2 DEF ReplyTyped
  <2>8. \A g \in Handlers \ {h} : alone'[g] => alone[g] /\ ~Inside(g)
    BY <2>3
  <2>9. alone'[h] => \A o \in Handlers \ {h} : ~Inside(o)
    BY <2>3
  <2>10. Apart'
    BY <2>7, <2>8, <2>9 DEF Apart, Inside
  <2>11. \A g \in Handlers \ {h} : PreparedFor(g, request[g])'
    BY <2>1, <2>7, <2>8, OthersKeep DEF Inside
  <2>12. PreparedFor(h, request[h])'
    <3>1. stage'[h] = Way(q) /\ request'[h] = q
      BY <1>0, <2>1 DEF ReplyTyped
    <3>2. Way(q) = "lock" /\ q.fc \notin Singles => header'[h] = Promised(q)
      BY <1>0, <2>2 DEF ReplyTyped, Promised
    <3>3. CASE Refused(q)
      <4>1. Way(q) = "refuse"
        BY <3>3 DEF Way
      <4> QED
        BY <2>4, <3>1, <3>3, <4>1 DEF PreparedFor, Erring
    <3>4. CASE ~Refused(q) /\ q.fc \in Debug
      <4>1. Way(q) = "report" /\ q.fc \notin Reads \cup Multiples
        BY <3>4 DEF Way, Reads, Multiples, Debug
      <4> QED
        BY <2>4, <3>1, <3>4, <4>1 DEF PreparedFor, Erring
    <3>5. CASE ~Refused(q) /\ q.fc \notin Debug
      <4>1. Way(q) = "lock"
        BY <3>5 DEF Way
      <4>2. q.fc \in Reads \cup Multiples => q.fc \notin Singles
        BY DEF Reads, Multiples, Singles
      <4> QED
        BY <2>4, <3>1, <3>2, <3>5, <4>1, <4>2 DEF PreparedFor
    <3> QED
      BY <3>3, <3>4, <3>5
  <2> QED
    BY <2>6, <2>10, <2>11, <2>12 DEF ReplyInv, Prepared
<1>3. CASE LockTables(h)
  <2>1. /\ stage[h] = "lock" /\ stage' = [stage EXCEPT ![h] = "serve"]
        /\ UNCHANGED <<MessageLength, request, header, messageSize, alone>>
    BY <1>3 DEF LockTables, Go
  <2>2. ReplyTyped' /\ Apart'
    BY <1>0, <2>1 DEF ReplyTyped, Apart, Inside, Stages
  <2>3. PreparedFor(h, request[h])'
    BY <1>0, <2>1 DEF ReplyTyped, PreparedFor
  <2>4. \A g \in Handlers \ {h} : PreparedFor(g, request[g])'
    BY <1>0, <2>1, OthersKeep DEF ReplyTyped
  <2> QED
    BY <2>2, <2>3, <2>4 DEF ReplyInv, Prepared
<1>4. CASE UnlockTables(h)
  <2>1. /\ stage[h] = "serve"
        /\ stage' = [stage EXCEPT ![h] = IF Outside(q) THEN "refuse" ELSE "report"]
        /\ UNCHANGED <<MessageLength, request, header, messageSize, alone>>
    BY <1>4 DEF UnlockTables, Go
  <2>2. ReplyTyped' /\ Apart'
    BY <1>0, <2>1 DEF ReplyTyped, Apart, Inside, Stages
  <2>3. PreparedFor(h, request[h])'
    BY <1>0, <2>1 DEF ReplyTyped, PreparedFor, Erring
  <2>4. \A g \in Handlers \ {h} : PreparedFor(g, request[g])'
    BY <1>0, <2>1, OthersKeep DEF ReplyTyped
  <2> QED
    BY <2>2, <2>3, <2>4 DEF ReplyInv, Prepared
<1>5. CASE Refuse(h)
  <2>1. /\ stage[h] = "refuse" /\ stage' = [stage EXCEPT ![h] = "return"]
        /\ MessageLength' = 9 /\ header' = [header EXCEPT ![h] = 3]
        /\ UNCHANGED <<request, messageSize, alone>>
    BY <1>5 DEF Refuse, Go
  <2>2. ReplyTyped' /\ Apart'
    BY <1>0, <2>1 DEF ReplyTyped, Apart, Inside, Stages
  <2>3. Answer(q) = 9
    BY <1>0, <2>1, ErrorAnswer DEF PreparedFor
  <2>4. PreparedFor(h, request[h])'
    BY <1>0, <2>1, <2>3 DEF ReplyTyped, PreparedFor
  <2>5. \A g \in Handlers \ {h} : alone[g] => ~Inside(g)
    BY <1>0, <2>1 DEF Apart, Inside
  <2>6. \A g \in Handlers \ {h} : PreparedFor(g, request[g])'
    BY <1>0, <2>1, <2>5, OthersKeep DEF ReplyTyped, Inside
  <2> QED
    BY <2>2, <2>4, <2>6 DEF ReplyInv, Prepared
<1>6. CASE Report(h)
  <2>1. /\ stage[h] = "report" /\ stage' = [stage EXCEPT ![h] = "return"]
        /\ MessageLength' = Length(q)
        /\ header' = [header EXCEPT ![h] = IF q.fc \in Singles THEN 6 ELSE @]
        /\ UNCHANGED <<request, messageSize, alone>>
    BY <1>6 DEF Report, Go
  <2>2. ReplyTyped' /\ Apart'
    BY <1>0, <2>1 DEF ReplyTyped, Apart, Inside, Stages
  <2>3. q \in Requests /\ ~Erring(q) /\ (~Miscounted(q) => Answer(q) = Length(q))
    BY <1>0, <2>1, LengthIsAnswer DEF PreparedFor
  <2>4. q.fc \notin Debug => header'[h] + 6 = Answer(q)
    <3> SUFFICES ASSUME q.fc \notin Debug PROVE header'[h] + 6 = Answer(q)
      OBVIOUS
    <3>1. Answer(q) = Promised(q) + 6
      BY <2>3, AnswerIsPromised
    <3>2. q.fc \in Reads \cup Singles \cup Multiples
      BY <2>3, LengthOfData DEF Erring
    <3>3. CASE q.fc \in Singles
      BY <1>0, <2>1, <3>1, <3>3 DEF ReplyTyped, Promised, Singles, Reads
    <3>4. CASE q.fc \in Reads \cup Multiples
      <4>1. q.fc \notin Singles
        BY <3>4 DEF Reads, Multiples, Singles
      <4>2. header'[h] = Promised(q)
        BY <1>0, <2>1, <3>4, <4>1 DEF ReplyTyped, PreparedFor
      <4> QED
        BY <3>1, <4>2
    <3> QED
      BY <3>2, <3>3, <3>4
  <2>5. PreparedFor(h, request[h])'
    BY <1>0, <2>1, <2>3, <2>4 DEF ReplyTyped, PreparedFor
  <2>6. \A g \in Handlers \ {h} : alone[g] => ~Inside(g)
    BY <1>0, <2>1 DEF Apart, Inside
  <2>7. \A g \in Handlers \ {h} : PreparedFor(g, request[g])'
    BY <1>0, <2>1, <2>6, OthersKeep DEF ReplyTyped, Inside
  <2> QED
    BY <2>2, <2>5, <2>7 DEF ReplyInv, Prepared
<1>7. CASE Return(h)
  <2>1. /\ stage[h] = "return" /\ stage' = [stage EXCEPT ![h] = "write"]
        /\ messageSize' = [messageSize EXCEPT ![h] = MessageLength]
        /\ UNCHANGED <<MessageLength, request, header, alone>>
    BY <1>7 DEF Return, Go
  <2>2. ReplyTyped' /\ Apart'
    BY <1>0, <2>1 DEF ReplyTyped, Apart, Inside, Stages
  <2>3. PreparedFor(h, request[h])'
    BY <1>0, <2>1 DEF ReplyTyped, PreparedFor
  <2>4. \A g \in Handlers \ {h} : PreparedFor(g, request[g])'
    BY <1>0, <2>1, OthersKeep DEF ReplyTyped
  <2> QED
    BY <2>2, <2>3, <2>4 DEF ReplyInv, Prepared
<1>8. CASE WriteReply(h)
  <2>1. /\ stage[h] = "write" /\ stage' = [stage EXCEPT ![h] = "listen"]
        /\ messageSize' = [messageSize EXCEPT ![h] = 0]
        /\ header' = [header EXCEPT ![h] = 0]
        /\ request' = [request EXCEPT ![h] = CHOOSE r \in Requests : TRUE]
        /\ alone' = [alone EXCEPT ![h] = FALSE]
        /\ UNCHANGED MessageLength
    BY <1>8 DEF WriteReply, Go
  <2>2. ReplyTyped' /\ Apart'
    BY <1>0, <2>1 DEF ReplyTyped, Apart, Inside, Stages
  <2>3. PreparedFor(h, request[h])'
    BY <1>0, <2>1 DEF ReplyTyped, PreparedFor
  <2>4. \A g \in Handlers \ {h} : PreparedFor(g, request[g])'
    BY <1>0, <2>1, OthersKeep DEF ReplyTyped
  <2> QED
    BY <2>2, <2>3, <2>4 DEF ReplyInv, Prepared
<1> QED
  BY <1>1, <1>2, <1>3, <1>4, <1>5, <1>6, <1>7, <1>8 DEF ReplyStep

\* A request that is served without another gets as many bytes as its answer
\* has, and as the answer's header says, but for the two answers that the code
\* counts wrongly; for every number of handlers, every request and every table
\* of variables.
THEOREM AnswersWhole ==
    ASSUME ReplyAssumption
    PROVE  ReplySpec => []ReplyWhole
<1>1. ReplyInv /\ [ReplyNext]_replyVars => ReplyInv'
  <2> SUFFICES ASSUME ReplyInv, [ReplyNext]_replyVars PROVE ReplyInv'
    OBVIOUS
  <2>1. CASE ReplyNext
    BY <2>1, ReplyStepKeeps DEF ReplyNext
  <2>2. CASE UNCHANGED replyVars
    BY <2>2 DEF replyVars, ReplyInv, ReplyTyped, Apart, Prepared, PreparedFor, Inside
  <2> QED
    BY <2>1, <2>2
<1>2. ReplyInv => ReplyWhole
  <2>1. \A q : q.fc \notin Debug => ~Miscounted(q)
    BY DEF Debug, Miscounted
  <2> QED
    BY <2>1 DEF ReplyInv, Prepared, PreparedFor, ReplyWhole, Writing
<1> QED
  BY ReplyInitially, <1>1, <1>2, PTL DEF ReplySpec
=============================================================================
