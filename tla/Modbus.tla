------------------------------- MODULE Modbus -------------------------------
(***************************************************************************)
(* The Modbus RTU server of modbus.c and the table of modbus_table.c that  *)
(* it shares with the UI task.                                             *)
(*                                                                         *)
(* modbus_process runs in the task of the highest priority: a request is   *)
(* one step.  The UI task reads and writes floats byte by byte, and a      *)
(* request may come between any two bytes; strings it writes in a critical *)
(* section.                                                                *)
(*                                                                         *)
(* Data: a byte of the table is a number, a byte of coils the set of its   *)
(* 1 bits.  A request is a record of its fields; good says whether the CRC *)
(* matches.  A reply is the sequence of its bytes before the CRC, or << >> *)
(* for silence.                                                            *)
(***************************************************************************)
EXTENDS Naturals, Sequences, FiniteSets

CONSTANTS
  MB_REG_COUNT, MB_COIL_COUNT,          \* 150 and 64 in the code
  MaxCoils, MaxReadRegs, MaxWriteRegs,  \* 2000, 125 and 123
  TxSize,                               \* tx_data of task_modbus: 260
  MB_STRING_LEN,                        \* 22
  Bytes,                                \* bound: byte values in the table
  MB_SLAVE_ADDR,
  LineReg, FloatReg,                    \* registers of a string and a float
  Lines, Floats,                        \* bound: what is written
  Requests,                             \* bound: the requests to answer
  MasterRequests                        \* bound: those that are sent

Byte  == 0 .. 255
Short == {n \in Nat : n <= 65535}

(* The table of modbus_table.h: a string and, above it, a float.           *)
ASSUME TableAssumption ==
  /\ {MB_REG_COUNT, MB_COIL_COUNT, MB_STRING_LEN, LineReg, FloatReg} \subseteq Nat
  /\ MB_STRING_LEN > 0 /\ MB_STRING_LEN % 2 = 0
  /\ LineReg + MB_STRING_LEN \div 2 <= FloatReg /\ FloatReg + 2 <= MB_REG_COUNT
  /\ Bytes \subseteq Byte /\ 0 \in Bytes /\ Floats \subseteq [1 .. 4 -> Bytes]
  /\ Lines \subseteq Seq(Bytes \ {0}) /\ \A s \in Lines : Len(s) < MB_STRING_LEN

(* A reply within the limits, with its header and CRC, fits tx_data, its   *)
(* length a byte; so do an exception and an echo.  The byte count of a     *)
(* write of all coils is a byte.                                           *)
ASSUME LimitAssumption ==
  /\ {MaxCoils, MaxReadRegs, MaxWriteRegs, TxSize} \subseteq Nat
  /\ MaxCoils <= 8 * 255 /\ MaxReadRegs <= 127 /\ MaxWriteRegs <= 127
  /\ MB_COIL_COUNT <= 8 * 255
  /\ 8 <= TxSize /\ 5 + (MaxCoils + 7) \div 8 <= TxSize /\ 5 + 2 * MaxReadRegs <= TxSize

(* A request has the fields of its frame, and the data its length says:    *)
(* for coils the bits of each byte, for registers the bytes of each.       *)
ASSUME RequestAssumption ==
  /\ \A r \in Requests :
       /\ r.good \in BOOLEAN /\ r.len \in Nat
       /\ {r.addr, r.fc, r.count} \subseteq Byte /\ {r.start, r.quantity} \subseteq Short
  /\ \A r \in Requests : r.len >= 9 + r.count =>
       /\ r.fc = 15 => r.data \in Seq(SUBSET (0 .. 7)) /\ Len(r.data) >= r.count
       /\ r.fc = 16 => r.data \in Seq(Byte \X Byte) /\ 2 * Len(r.data) >= r.count
  /\ MasterRequests \subseteq Requests

(* The master leaves the display lines alone, which the map marks R.       *)
ASSUME MasterAssumption ==
  \A r \in MasterRequests :
    LET lines == LineReg .. LineReg + MB_STRING_LEN \div 2 - 1
    IN  /\ r.fc = 6 => r.start \notin lines
        /\ r.fc = 16 => (r.start .. r.start + r.quantity - 1) \cap lines = {}

VARIABLES
  mb_table,  \* the bytes of the registers, at offsets 0 .. 2 * MB_REG_COUNT - 1
  coils,     \* the bytes of the coils
  ui,        \* the access of the UI task: op, value, bytes still to go
  line,      \* history: the line the UI showed last
  mixed      \* history: somebody changed the float during that access

vars == <<mb_table, coils, ui, line, mixed>>

Offsets   == 0 .. 2 * MB_REG_COUNT - 1
CoilBytes == 0 .. (MB_COIL_COUNT + 7) \div 8 - 1
Idle      == [op |-> "none", value |-> << >>, todo |-> {}]

-----------------------------------------------------------------------------
(* Registers: bytes 2n and 2n+1, the high byte first.                      *)
reg_read(t, n) == <<t[2 * n], t[2 * n + 1]>>
reg_write(t, n, w) == [t EXCEPT ![2 * n] = w[1], ![2 * n + 1] = w[2]]
RegsWritten(t, start, words) ==
  [o \in Offsets |->
     LET n == o \div 2
     IN  IF n \in start .. start + Len(words) - 1
           THEN words[n - start + 1][(o % 2) + 1] ELSE t[o]]

CoilIsSet(c, i)    == i % 8 \in c[i \div 8]
CoilPut(c, i, bit) ==
  [c EXCEPT ![i \div 8] = IF bit THEN @ \cup {i % 8} ELSE @ \ {i % 8}]
CoilsWritten(c, start, quantity, data) ==
  [b \in CoilBytes |->
     {k \in 0 .. 7 :
        LET i == 8 * b + k - start
        IN  IF 8 * b + k \in start .. start + quantity - 1
              THEN i % 8 \in data[i \div 8 + 1] ELSE k \in c[b]}]

(* A byte of a coil reply, as a number.                                    *)
Power2 == <<1, 2, 4, 8, 16, 32, 64, 128>>
Weight(bits, k) == IF k \in bits THEN Power2[k + 1] ELSE 0
ByteOf(bits) ==
  Weight(bits, 0) + Weight(bits, 1) + Weight(bits, 2) + Weight(bits, 3)
  + Weight(bits, 4) + Weight(bits, 5) + Weight(bits, 6) + Weight(bits, 7)

-----------------------------------------------------------------------------
(* modbus_process.  `quantity` is the second word of a request, whatever   *)
(* its function code makes of it: a quantity or a value.                   *)
ReadsCoils == {1, 2}
ReadsRegs  == {3, 4}
KnownCodes == ReadsCoils \cup ReadsRegs \cup {5, 6, 15, 16}

(* With a fault: nothing bounds the reply to a read.                       *)
NoReadLimit(r) == r.quantity = 0
TooManyToRead(r) == r.quantity = 0 \/ r.quantity > MaxReadRegs

(* The checks of the function codes, in the order in which they are made.  *)
IllegalValue(r) ==
  CASE r.fc \in ReadsCoils -> r.len < 6 \/ r.quantity = 0 \/ r.quantity > MaxCoils
    [] r.fc \in ReadsRegs  -> r.len < 6 \/ TooManyToRead(r)
    [] r.fc = 5  -> r.len < 6 \/ r.quantity \notin {0, 65280}
    [] r.fc = 6  -> r.len < 6
    [] r.fc = 15 -> \/ r.len < 7 \/ r.quantity = 0
                    \/ r.count # ((r.quantity + 7) \div 8) % 256
    [] r.fc = 16 -> \/ r.len < 7 \/ r.quantity = 0 \/ r.quantity > MaxWriteRegs
                    \/ r.count # (2 * r.quantity) % 256

IllegalAddress(r) ==
  CASE r.fc \in ReadsCoils \cup {15} -> r.start + r.quantity > MB_COIL_COUNT
    [] r.fc \in ReadsRegs \cup {16}  -> r.start + r.quantity > MB_REG_COUNT
    [] r.fc = 5 -> r.start >= MB_COIL_COUNT
    [] r.fc = 6 -> r.start >= MB_REG_COUNT

DataCutShort(r) == r.fc \in {15, 16} /\ r.len < 7 + r.count + 2

(* With a fault: a write takes what there is of a frame cut short.         *)
RefusalOfHeader(r) ==
  IF r.fc \notin KnownCodes THEN 1
  ELSE IF IllegalValue(r) THEN 3 ELSE IF IllegalAddress(r) THEN 2 ELSE 0
Refusal(r) ==
  IF r.fc \notin KnownCodes THEN 1
  ELSE IF IllegalValue(r) THEN 3
  ELSE IF IllegalAddress(r) THEN 2
  ELSE IF DataCutShort(r) THEN 3 ELSE 0

\* The function code with its highest bit set.
Exception(r) == 128 + (r.fc % 128)
Word(n) == <<n \div 256, n % 256>>

Reply(r, t, c) ==
  CASE r.fc \in ReadsCoils ->
         LET bits(b) == {k \in 0 .. 7 : /\ 8 * b + k < r.quantity
                                        /\ CoilIsSet(c, r.start + 8 * b + k)}
             count   == (r.quantity + 7) \div 8
         IN  <<r.addr, r.fc, count % 256>> \o [b \in 1 .. count |-> ByteOf(bits(b - 1))]
    [] r.fc \in ReadsRegs ->
         <<r.addr, r.fc, (2 * r.quantity) % 256>>
         \o [i \in 1 .. 2 * r.quantity |->
               reg_read(t, r.start + (i - 1) \div 2)[((i - 1) % 2) + 1]]
    [] OTHER -> <<r.addr, r.fc>> \o Word(r.start) \o Word(r.quantity)

NewTable(r, t) ==
  CASE r.fc = 6  -> reg_write(t, r.start, Word(r.quantity))
    [] r.fc = 16 -> RegsWritten(t, r.start, SubSeq(r.data, 1, r.quantity))
    [] OTHER     -> t

NewCoils(r, c) ==
  CASE r.fc = 5  -> CoilPut(c, r.start, r.quantity = 65280)
    [] r.fc = 15 -> CoilsWritten(c, r.start, r.quantity, r.data)
    [] OTHER     -> c

modbus_process(r, t, c) ==
  IF r.len < 4 \/ ~r.good \/ r.addr # MB_SLAVE_ADDR
    THEN [reply |-> << >>, mb_table |-> t, coils |-> c]
  ELSE IF Refusal(r) # 0
    THEN [reply |-> <<r.addr, Exception(r), Refusal(r)>>, mb_table |-> t, coils |-> c]
  ELSE [reply |-> Reply(r, t, c), mb_table |-> NewTable(r, t), coils |-> NewCoils(r, c)]

-----------------------------------------------------------------------------
(* Strings: in each register the low byte comes first, i.e. character i    *)
(* stands at offset i ^ 1.                                                 *)
Swapped(i) == IF i % 2 = 0 THEN i + 1 ELSE i - 1

(* With a fault: only one NUL ends the string.                             *)
TerminatedOnly(s, i, old) ==
  CASE i < Len(s) -> s[i + 1] [] i = Len(s) -> 0 [] OTHER -> old
Filled(s, i, old) == IF i < Len(s) THEN s[i + 1] ELSE 0

StringWritten(t, addr, s) ==
  [o \in Offsets |->
     IF o \in addr .. addr + MB_STRING_LEN - 1
       THEN Filled(s, Swapped(o - addr), t[o]) ELSE t[o]]

(* MB_ReadString into a buffer of max_len: up to the first NUL.            *)
StringRead(t, addr, max_len) ==
  LET n     == IF max_len < MB_STRING_LEN THEN max_len ELSE MB_STRING_LEN
      ends  == {i \in 0 .. n - 2 : t[addr + Swapped(i)] = 0}
      first == IF ends = {} THEN n - 1 ELSE CHOOSE i \in ends : \A j \in ends : i <= j
  IN  [i \in 1 .. first |-> t[addr + Swapped(i - 1)]]

(* Floats, in the order CDAB: the byte of the value, from the most         *)
(* significant one, that stands at each offset.                            *)
CDAB == <<3, 4, 1, 2>>

(* With a fault: the reader takes the registers in the other order.        *)
ReadOrderABCD(i) == i
ReadOrder(i)     == CDAB[i]

-----------------------------------------------------------------------------
Init ==
  /\ mb_table = [o \in Offsets |-> 0]
  /\ coils = [b \in CoilBytes |-> {}]
  /\ ui = Idle
  /\ line = << >> /\ mixed = FALSE

FloatOffsets == 2 * FloatReg .. 2 * FloatReg + 3

Master(r) ==
  LET a == modbus_process(r, mb_table, coils)
  IN  /\ mb_table' = a.mb_table /\ coils' = a.coils
      /\ mixed' = (mixed \/ \E o \in FloatOffsets : mb_table'[o] # mb_table[o])
      /\ UNCHANGED <<ui, line>>

(* MB_WriteString, on a display line.                                      *)
MB_WriteString(s) ==
  /\ ui.op = "none"
  /\ mb_table' = StringWritten(mb_table, 2 * LineReg, s)
  /\ line' = s
  /\ UNCHANGED <<coils, ui, mixed>>

(* MB_WriteFloat and MB_ReadFloat, one byte a step.  C leaves the order of *)
(* the four reads open.                                                    *)
BeginWrite(v) ==
  /\ ui.op = "none"
  /\ ui' = [op |-> "write", value |-> v, todo |-> 1 .. 4]
  /\ mixed' = FALSE
  /\ UNCHANGED <<mb_table, coils, line>>

WriteByte ==
  /\ ui.op = "write" /\ ui.todo # {}
  /\ LET i == CHOOSE i \in ui.todo : \A j \in ui.todo : i <= j
     IN  /\ mb_table' = [mb_table EXCEPT ![2 * FloatReg + i - 1] = ui.value[CDAB[i]]]
         /\ ui' = [ui EXCEPT !.todo = @ \ {i}]
  /\ UNCHANGED <<coils, line, mixed>>

BeginRead ==
  /\ ui.op = "none"
  /\ ui' = [op |-> "read", value |-> <<0, 0, 0, 0>>, todo |-> 1 .. 4]
  /\ mixed' = FALSE
  /\ UNCHANGED <<mb_table, coils, line>>

ReadByte ==
  /\ ui.op = "read"
  /\ \E i \in ui.todo :
       ui' = [ui EXCEPT !.value[ReadOrder(i)] = mb_table[2 * FloatReg + i - 1],
                        !.todo = @ \ {i}]
  /\ UNCHANGED <<mb_table, coils, line, mixed>>

EndAccess ==
  /\ ui.op # "none" /\ ui.todo = {}
  /\ ui' = Idle
  /\ UNCHANGED <<mb_table, coils, line, mixed>>

Next ==
  \/ \E r \in MasterRequests : Master(r)
  \/ \E s \in Lines : MB_WriteString(s)
  \/ \E v \in Floats : BeginWrite(v)
  \/ WriteByte \/ BeginRead \/ ReadByte \/ EndAccess

Spec == Init /\ [][Next]_vars

-----------------------------------------------------------------------------
(* TypeOK.  The table and the coils keep their size and their bytes, and   *)
(* no reply to any request, with its CRC, exceeds tx_data.                 *)
TypeOK ==
  /\ mb_table \in [Offsets -> Byte]
  /\ coils \in [CoilBytes -> SUBSET (0 .. 7)]
  /\ ui.op \in {"none", "write", "read"}
  /\ line \in Lines \cup {<< >>} /\ mixed \in BOOLEAN
  /\ \A r \in Requests : Len(modbus_process(r, mb_table, coils).reply) + 2 <= TxSize

(* What the protocol makes of a request, over registers as numbers and the *)
(* set of the coils that are on.  A request of 6 or 7 bytes, which the     *)
(* code takes for one of 8, is left open.                                  *)
Regs(t)    == [n \in 0 .. MB_REG_COUNT - 1 |-> 256 * t[2 * n] + t[2 * n + 1]]
CoilSet(c) == {i \in 0 .. MB_COIL_COUNT - 1 : i % 8 \in c[i \div 8]}
Bit(x, k)  == (x \div Power2[k + 1]) % 2 = 1
Covers(r)  == IF r.fc \in {5, 6} THEN {r.start} ELSE r.start .. r.start + r.quantity - 1
Limit(r)   == CASE r.fc \in ReadsCoils -> MaxCoils [] r.fc \in ReadsRegs -> MaxReadRegs
                [] r.fc = 16 -> MaxWriteRegs [] OTHER -> r.quantity

Outside(r) ==
  ~(Covers(r) \subseteq 0 .. (IF r.fc \in ReadsCoils \cup {5, 15}
                                THEN MB_COIL_COUNT ELSE MB_REG_COUNT) - 1)
BadForm(r) ==
  \/ r.len < 8
  \/ r.fc \notin {5, 6} /\ (r.quantity = 0 \/ r.quantity > Limit(r))
  \/ r.fc = 5 /\ r.quantity \notin {0, 65280}
  \/ r.fc = 15 /\ (8 * r.count \notin r.quantity .. r.quantity + 7 \/ r.len < 9 + r.count)
  \/ r.fc = 16 /\ (r.count # 2 * r.quantity \/ r.len < 9 + r.count)

Performed(r, a) ==
  LET before == Regs(mb_table)
      after  == Regs(a.mb_table)
      on     == CoilSet(coils)
  IN  /\ r.fc \notin {6, 16} => after = before
      /\ r.fc \notin {5, 15} => CoilSet(a.coils) = on
      /\ r.fc \in ReadsCoils =>
           /\ Len(a.reply) = 3 + a.reply[3] /\ 8 * a.reply[3] \in r.quantity .. r.quantity + 7
           /\ \A i \in 0 .. 8 * a.reply[3] - 1 :
                Bit(a.reply[4 + i \div 8], i % 8) <=> i < r.quantity /\ r.start + i \in on
      /\ r.fc \in ReadsRegs =>
           /\ Len(a.reply) = 3 + a.reply[3] /\ a.reply[3] = 2 * r.quantity
           /\ \A i \in 0 .. r.quantity - 1 :
                256 * a.reply[4 + 2 * i] + a.reply[5 + 2 * i] = before[r.start + i]
      /\ r.fc = 5 =>
           CoilSet(a.coils) = IF r.quantity = 0 THEN on \ {r.start} ELSE on \cup {r.start}
      /\ r.fc = 6 => after = [before EXCEPT ![r.start] = r.quantity]
      /\ r.fc = 15 =>
           /\ CoilSet(a.coils) \ Covers(r) = on \ Covers(r)
           /\ \A i \in 0 .. r.quantity - 1 :
                r.start + i \in CoilSet(a.coils) <=> i % 8 \in r.data[i \div 8 + 1]
      /\ r.fc = 16 =>
           after = [n \in DOMAIN before |->
                      IF n \in Covers(r)
                        THEN 256 * r.data[n - r.start + 1][1] + r.data[n - r.start + 1][2]
                        ELSE before[n]]

(* AnswersAsReference.  Whatever the tasks have left in the table, every   *)
(* request is either refused, for a reason that holds and with no effect,  *)
(* or done on exactly the registers and coils it names (modbus.c:62-279).  *)
AnswersAsReference ==
  \A r \in {q \in Requests : q.len \notin {6, 7}} :
    LET a       == modbus_process(r, mb_table, coils)
        refused == /\ a.mb_table = mb_table /\ a.coils = coils
                   /\ \/ a.reply[3] = 1 /\ r.fc \notin KnownCodes
                      \/ a.reply[3] = 2 /\ r.fc \in KnownCodes /\ Outside(r)
                      \/ a.reply[3] = 3 /\ r.fc \in KnownCodes /\ BadForm(r)
    IN  IF r.len < 4 \/ ~r.good \/ r.addr # MB_SLAVE_ADDR
          THEN a = [reply |-> << >>, mb_table |-> mb_table, coils |-> coils]
        ELSE IF a.reply[2] = Exception(r) THEN refused
        ELSE /\ r.fc \in KnownCodes /\ ~Outside(r) /\ ~BadForm(r)
             /\ a.reply[2] = r.fc /\ Performed(r, a)

(* DisplayLineIsWhole.  A master that reads a display line, low byte       *)
(* first, and a task that calls MB_ReadString, get the line the UI showed  *)
(* last and nothing of an earlier, longer one (modbus_table.c:24-31).      *)
LineBytes == [i \in 1 .. MB_STRING_LEN |-> mb_table[2 * LineReg + Swapped(i - 1)]]
DisplayLineIsWhole ==
  /\ SubSeq(LineBytes, 1, Len(line)) = line
  /\ \A i \in Len(line) + 1 .. MB_STRING_LEN : LineBytes[i] = 0
  /\ StringRead(mb_table, 2 * LineReg, MB_STRING_LEN) = line

(* FloatsAgree.  An access to a float during which the master does not     *)
(* change it leaves the UI task and the master with the same value: the    *)
(* low word in the first register, the high word in the second.            *)
FloatsAgree ==
  ui.op # "none" /\ ui.todo = {} /\ ~mixed =>
    /\ Regs(mb_table)[FloatReg + 1] = 256 * ui.value[1] + ui.value[2]
    /\ Regs(mb_table)[FloatReg]     = 256 * ui.value[3] + ui.value[4]

(* ValuesAgree.  The lines and the floats that the UI task and the master  *)
(* exchange read the same on both sides.                                   *)
ValuesAgree == DisplayLineIsWhole /\ FloatsAgree
=============================================================================
