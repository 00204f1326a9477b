---------------------------- MODULE ModbusProofs ----------------------------
(***************************************************************************)
(* What the Modbus server answers, for every table, every number of coils  *)
(* and every request: it does what the protocol says on exactly what the   *)
(* request names, or refuses for a reason that holds; and the lines and    *)
(* the floats that the UI task and the master exchange read the same on    *)
(* both sides.                                                             *)
(*                                                                         *)
(* modbus_process is an operator, so most of this is about operators: one  *)
(* lemma for each group of function codes says what passes its checks, how *)
(* long the reply is and what was done.  The state enters only through its *)
(* types and, for the values exchanged, through IInv.                      *)
(***************************************************************************)
EXTENDS Modbus, TLAPS, SequenceTheorems

Tables   == [Offsets -> Byte]
CoilSets == [CoilBytes -> SUBSET (0 .. 7)]
Coils    == 0 .. MB_COIL_COUNT - 1
Numbers  == 0 .. MB_REG_COUNT - 1

-----------------------------------------------------------------------------
(* Numbers.                                                                *)

LEMMA Constants ==
  /\ MB_REG_COUNT \in Nat /\ MB_COIL_COUNT \in Nat /\ MB_STRING_LEN \in Nat
  /\ LineReg \in Nat /\ FloatReg \in Nat
  /\ MaxCoils \in Nat /\ MaxReadRegs \in Nat /\ MaxWriteRegs \in Nat /\ TxSize \in Nat
BY TableAssumption, LimitAssumption

LEMMA Fields ==
  ASSUME NEW r \in Requests
  PROVE  /\ r.good \in BOOLEAN /\ r.len \in Nat
         /\ r.addr \in Byte /\ r.fc \in Byte /\ r.count \in Byte
         /\ r.start \in Short /\ r.quantity \in Short
BY RequestAssumption

(* A word is its two bytes, the high one first.                            *)
LEMMA WordIsItsBytes ==
  ASSUME NEW n \in Short
  PROVE  /\ n \div 256 \in Byte /\ n % 256 \in Byte
         /\ Word(n) \in Byte \X Byte
         /\ 256 * Word(n)[1] + Word(n)[2] = n
<1>1. n \div 256 \in 0 .. 255 /\ n % 256 \in 0 .. 255 /\ 256 * (n \div 256) + (n % 256) = n
  BY DEF Short
<1>2. n \div 256 \in Byte /\ n % 256 \in Byte
  BY <1>1 DEF Byte
<1>3. Word(n) \in Byte \X Byte
  BY <1>2, Zenon DEF Word
<1>4. QED
  BY <1>1, <1>2, <1>3 DEF Word

LEMMA WordOfBytes ==
  ASSUME NEW a \in Byte, NEW b \in Byte
  PROVE  256 * a + b \in Short
BY DEF Short, Byte

(* A number by its quotients.                                                *)
LEMMA BytesOfNumber ==
  ASSUME NEW o \in Nat
  PROVE  /\ o \div 2 \in Nat /\ o % 2 \in {0, 1} /\ o = 2 * (o \div 2) + (o % 2)
         /\ o \div 8 \in Nat /\ o % 8 \in 0 .. 7 /\ o = 8 * (o \div 8) + (o % 8)
OBVIOUS

LEMMA Halves ==
  ASSUME NEW n \in Nat
  PROVE  /\ (2 * n) \div 2 = n /\ (2 * n) % 2 = 0
         /\ (2 * n + 1) \div 2 = n /\ (2 * n + 1) % 2 = 1
OBVIOUS

LEMMA Eighths ==
  ASSUME NEW b \in Nat, NEW k \in 0 .. 7
  PROVE  (8 * b + k) \div 8 = b /\ (8 * b + k) % 8 = k
OBVIOUS

(* The number of bytes that hold q bits.                                   *)
LEMMA BytesForBits ==
  ASSUME NEW q \in Nat, NEW n \in Nat
  PROVE  /\ (q + 7) \div 8 \in Nat
         /\ n = (q + 7) \div 8 <=> 8 * n \in q .. q + 7
OBVIOUS

LEMMA Truncated ==
  ASSUME NEW n \in Nat
  PROVE  n % 256 \in Byte /\ (n < 256 => n % 256 = n)
BY DEF Byte

(* The bits of a sum of powers of two.                                     *)
LEMMA BitsOfByte ==
  ASSUME NEW bits \in SUBSET (0 .. 7)
  PROVE  /\ ByteOf(bits) \in Byte
         /\ \A k \in 0 .. 7 : Bit(ByteOf(bits), k) <=> k \in bits
<1> DEFINE w(k) == Weight(bits, k)
<1>1. /\ w(0) = (IF 0 \in bits THEN 1 ELSE 0) /\ w(1) = (IF 1 \in bits THEN 2 ELSE 0)
      /\ w(2) = (IF 2 \in bits THEN 4 ELSE 0) /\ w(3) = (IF 3 \in bits THEN 8 ELSE 0)
      /\ w(4) = (IF 4 \in bits THEN 16 ELSE 0) /\ w(5) = (IF 5 \in bits THEN 32 ELSE 0)
      /\ w(6) = (IF 6 \in bits THEN 64 ELSE 0) /\ w(7) = (IF 7 \in bits THEN 128 ELSE 0)
  BY DEF Weight, Power2
<1>2. ByteOf(bits) = w(0) + w(1) + w(2) + w(3) + w(4) + w(5) + w(6) + w(7)
  BY DEF ByteOf
<1> DEFINE x == ByteOf(bits)
<1> HIDE DEF w, x
<1>3. x \in Byte
  BY <1>1, <1>2 DEF Byte, x
<1>4. /\ (x \div 1) % 2 = 1 <=> 0 \in bits
      /\ (x \div 2) % 2 = 1 <=> 1 \in bits
  BY <1>1, <1>2 DEF x
<1>5. /\ (x \div 4) % 2 = 1 <=> 2 \in bits
      /\ (x \div 8) % 2 = 1 <=> 3 \in bits
  BY <1>1, <1>2 DEF x
<1>6. /\ (x \div 16) % 2 = 1 <=> 4 \in bits
      /\ (x \div 32) % 2 = 1 <=> 5 \in bits
  BY <1>1, <1>2 DEF x
<1>7. /\ (x \div 64) % 2 = 1 <=> 6 \in bits
      /\ (x \div 128) % 2 = 1 <=> 7 \in bits
  BY <1>1, <1>2 DEF x
<1>8. ASSUME NEW k \in 0 .. 7
      PROVE  Bit(x, k) <=> k \in bits
  BY <1>4, <1>5, <1>6, <1>7, k = 0 \/ k = 1 \/ k = 2 \/ k = 3 \/ k = 4 \/ k = 5 \/ k = 6 \/ k = 7
     DEF Bit, Power2
<1>9. QED
  BY <1>3, <1>8 DEF x

-----------------------------------------------------------------------------
(* The table and the coils.                                                *)

LEMMA OffsetsOfNumber ==
  ASSUME NEW n \in Numbers
  PROVE  n \in Nat /\ 2 * n \in Offsets /\ 2 * n + 1 \in Offsets
BY Constants DEF Numbers, Offsets

LEMMA NumberOfOffset ==
  ASSUME NEW o \in Offsets
  PROVE  /\ o \in Nat /\ o \div 2 \in Numbers /\ o % 2 \in {0, 1}
         /\ o = 2 * (o \div 2) + (o % 2)
<1>1. o \in Nat
  BY Constants DEF Offsets
<1>2. QED
  BY <1>1, BytesOfNumber, Constants DEF Offsets, Numbers

LEMMA CoilInItsByte ==
  ASSUME NEW i \in Coils
  PROVE  /\ i \in Nat /\ i \div 8 \in CoilBytes /\ i % 8 \in 0 .. 7
         /\ i = 8 * (i \div 8) + (i % 8)
<1>1. i \in Nat
  BY Constants DEF Coils
<1>2. i \div 8 \in Nat /\ i % 8 \in 0 .. 7 /\ i = 8 * (i \div 8) + (i % 8)
  BY <1>1, BytesOfNumber
<1>3. MB_COIL_COUNT + 7 \in Nat
  BY Constants
<1>4. /\ (MB_COIL_COUNT + 7) \div 8 \in Nat /\ (MB_COIL_COUNT + 7) % 8 \in 0 .. 7
      /\ MB_COIL_COUNT + 7 = 8 * ((MB_COIL_COUNT + 7) \div 8) + ((MB_COIL_COUNT + 7) % 8)
  BY <1>3, BytesOfNumber
<1>5. i \div 8 \in CoilBytes
  BY <1>1, <1>2, <1>4, Constants DEF Coils, CoilBytes
<1>6. QED
  BY <1>1, <1>2, <1>5

LEMMA RegsType ==
  ASSUME NEW t \in Tables, NEW n \in Numbers
  PROVE  /\ t[2 * n] \in Byte /\ t[2 * n + 1] \in Byte
         /\ Regs(t)[n] = 256 * t[2 * n] + t[2 * n + 1] /\ Regs(t)[n] \in Short
<1>1. t[2 * n] \in Byte /\ t[2 * n + 1] \in Byte
  BY OffsetsOfNumber DEF Tables
<1>2. Regs(t)[n] = 256 * t[2 * n] + t[2 * n + 1]
  BY DEF Regs, Numbers
<1>3. QED
  BY <1>1, <1>2, WordOfBytes

(* A write of one register.                                                *)
LEMMA OneRegister ==
  ASSUME NEW t \in Tables, NEW n \in Numbers, NEW w \in Byte \X Byte
  PROVE  /\ reg_write(t, n, w) \in Tables
         /\ Regs(reg_write(t, n, w)) = [Regs(t) EXCEPT ![n] = 256 * w[1] + w[2]]
         /\ \A o \in Offsets : o \div 2 # n => reg_write(t, n, w)[o] = t[o]
<1> DEFINE u == reg_write(t, n, w)
<1>1. 2 * n \in Offsets /\ 2 * n + 1 \in Offsets /\ n \in Nat
  BY OffsetsOfNumber
<1>2. w[1] \in Byte /\ w[2] \in Byte
  OBVIOUS
<1>3. u \in Tables
  BY <1>1, <1>2 DEF reg_write, Tables
<1>4. u[2 * n] = w[1] /\ u[2 * n + 1] = w[2]
  BY <1>1 DEF reg_write, Tables
<1>5. ASSUME NEW o \in Offsets, o # 2 * n, o # 2 * n + 1
      PROVE  u[o] = t[o]
  BY <1>5 DEF reg_write, Tables
<1> HIDE DEF u
<1>6. ASSUME NEW j \in Numbers
      PROVE  Regs(u)[j] = IF j = n THEN 256 * w[1] + w[2] ELSE Regs(t)[j]
  <2>1. CASE j = n
    BY <2>1, <1>4 DEF Regs, Numbers
  <2>2. CASE j # n
    <3>1. 2 * j \in Offsets /\ 2 * j + 1 \in Offsets /\ j \in Nat
      BY OffsetsOfNumber
    <3>2. u[2 * j] = t[2 * j] /\ u[2 * j + 1] = t[2 * j + 1]
      BY <3>1, <2>2, <1>1, <1>5
    <3>3. QED
      BY <2>2, <3>2 DEF Regs, Numbers
  <2>3. QED
    BY <2>1, <2>2
<1>7. Regs(u) = [Regs(t) EXCEPT ![n] = 256 * w[1] + w[2]]
  <2>1. PICK f, g, x : f = Regs(t) /\ g = Regs(u) /\ x = 256 * w[1] + w[2]
    OBVIOUS
  <2>2. f = [j \in Numbers |-> f[j]] /\ g = [j \in Numbers |-> g[j]]
    BY <2>1, Zenon DEF Regs, Numbers
  <2>3. \A j \in Numbers : g[j] = IF j = n THEN x ELSE f[j]
    BY <1>6, <2>1
  <2>4. g = [f EXCEPT ![n] = x]
    BY <2>2, <2>3
  <2>5. QED
    BY <2>1, <2>4
<1>8. ASSUME NEW o \in Offsets, o \div 2 # n
      PROVE  u[o] = t[o]
  BY <1>1, <1>5, <1>8, Halves
<1>9. QED
  BY <1>3, <1>7, <1>8 DEF u

(* A write of several.                                                     *)
LEMMA SeveralRegisters ==
  ASSUME NEW t \in Tables, NEW start \in Nat, NEW words \in Seq(Byte \X Byte)
  PROVE  /\ RegsWritten(t, start, words) \in Tables
         /\ \A n \in Numbers :
              Regs(RegsWritten(t, start, words))[n] =
                IF n \in start .. start + Len(words) - 1
                  THEN 256 * words[n - start + 1][1] + words[n - start + 1][2]
                  ELSE Regs(t)[n]
         /\ \A o \in Offsets : o \div 2 \notin start .. start + Len(words) - 1
              => RegsWritten(t, start, words)[o] = t[o]
<1> DEFINE u == RegsWritten(t, start, words)
           In(n) == n \in start .. start + Len(words) - 1
<1>1. ASSUME NEW n \in Nat, In(n)
      PROVE  words[n - start + 1] \in Byte \X Byte
  <2>1. n - start + 1 \in 1 .. Len(words) /\ Len(words) \in Nat
    BY <1>1
  <2>2. QED
    BY <2>1, ElementOfSeq
<1>2. ASSUME NEW o \in Offsets
      PROVE  u[o] = IF In(o \div 2) THEN words[(o \div 2) - start + 1][(o % 2) + 1] ELSE t[o]
  BY DEF RegsWritten
<1>3. u = [o \in Offsets |-> u[o]]
  <2> DEFINE e(o) == IF In(o \div 2) THEN words[(o \div 2) - start + 1][(o % 2) + 1] ELSE t[o]
  <2>1. u = [o \in Offsets |-> e(o)]
    BY DEF RegsWritten
  <2> HIDE DEF e, u
  <2>2. QED
    BY <2>1
<1> HIDE DEF u
<1>4. ASSUME NEW o \in Offsets
      PROVE  u[o] \in Byte
  <2>1. o \div 2 \in Nat /\ (o % 2) + 1 \in 1 .. 2
    <3>1. o \div 2 \in Numbers /\ o % 2 \in {0, 1}
      BY NumberOfOffset
    <3>2. QED
      BY <3>1, OffsetsOfNumber
  <2>2. CASE In(o \div 2)
    <3>1. words[(o \div 2) - start + 1] \in Byte \X Byte
      BY <2>1, <2>2, <1>1
    <3>2. QED
      BY <1>2, <2>1, <2>2, <3>1
  <2>3. CASE ~In(o \div 2)
    BY <1>2, <2>3 DEF Tables
  <2>4. QED
    BY <2>2, <2>3
<1>5. u \in Tables
  BY <1>3, <1>4 DEF Tables
<1>6. ASSUME NEW n \in Numbers
      PROVE  Regs(u)[n] = IF In(n) THEN 256 * words[n - start + 1][1] + words[n - start + 1][2]
                          ELSE Regs(t)[n]
  <2>1. n \in Nat /\ 2 * n \in Offsets /\ 2 * n + 1 \in Offsets
    BY OffsetsOfNumber
  <2>2. /\ u[2 * n] = IF In(n) THEN words[n - start + 1][1] ELSE t[2 * n]
        /\ u[2 * n + 1] = IF In(n) THEN words[n - start + 1][2] ELSE t[2 * n + 1]
    <3>1. /\ (2 * n) \div 2 = n /\ ((2 * n) % 2) + 1 = 1
          /\ (2 * n + 1) \div 2 = n /\ ((2 * n + 1) % 2) + 1 = 2
      BY <2>1, Halves
    <3>2. u[2 * n] = IF In(n) THEN words[n - start + 1][1] ELSE t[2 * n]
      BY <1>2, <2>1, <3>1
    <3>3. u[2 * n + 1] = IF In(n) THEN words[n - start + 1][2] ELSE t[2 * n + 1]
      BY <1>2, <2>1, <3>1
    <3>4. QED
      BY <3>2, <3>3
  <2>3. Regs(u)[n] = 256 * u[2 * n] + u[2 * n + 1] /\ Regs(t)[n] = 256 * t[2 * n] + t[2 * n + 1]
    BY <1>5, RegsType
  <2>4. QED
    BY <2>2, <2>3
<1>7. QED
  BY <1>2, <1>5, <1>6 DEF u

LEMMA CoilOf ==
  ASSUME NEW c \in CoilSets, NEW i \in Coils
  PROVE  (i \in CoilSet(c) <=> i % 8 \in c[i \div 8]) /\ (CoilIsSet(c, i) <=> i \in CoilSet(c))
BY DEF CoilSet, CoilIsSet, Coils

(* A write of one coil.                                                    *)
LEMMA OneCoil ==
  ASSUME NEW c \in CoilSets, NEW i \in Coils, NEW bit \in BOOLEAN
  PROVE  /\ CoilPut(c, i, bit) \in CoilSets
         /\ CoilSet(CoilPut(c, i, bit)) = IF bit THEN CoilSet(c) \cup {i} ELSE CoilSet(c) \ {i}
<1> DEFINE d == CoilPut(c, i, bit)
           B == IF bit THEN c[i \div 8] \cup {i % 8} ELSE c[i \div 8] \ {i % 8}
<1>1. i \in Nat /\ i \div 8 \in CoilBytes /\ i % 8 \in 0 .. 7 /\ i = 8 * (i \div 8) + (i % 8)
  BY CoilInItsByte
<1>2. d = [c EXCEPT ![i \div 8] = B]
  BY DEF CoilPut
<1>3. B \in SUBSET (0 .. 7)
  BY <1>1 DEF CoilSets
<1>4. d \in CoilSets
  BY <1>1, <1>2, <1>3 DEF CoilSets
<1>5. ASSUME NEW j \in Coils
      PROVE  j \in CoilSet(d) <=> IF j = i THEN bit ELSE j \in CoilSet(c)
  <2>1. j \in Nat /\ j \div 8 \in CoilBytes /\ j % 8 \in 0 .. 7 /\ j = 8 * (j \div 8) + (j % 8)
    BY CoilInItsByte
  <2>2. d[j \div 8] = IF j \div 8 = i \div 8 THEN B ELSE c[j \div 8]
    BY <1>1, <1>2, <2>1 DEF CoilSets
  <2>3. j % 8 = i % 8 /\ j \div 8 = i \div 8 => j = i
    BY <1>1, <2>1
  <2>4. QED
    BY <1>4, <2>2, <2>3, CoilOf
<1> HIDE DEF d
<1>6. CoilSet(d) \subseteq Coils /\ CoilSet(c) \subseteq Coils
  BY DEF CoilSet, Coils
<1>7. CoilSet(d) = IF bit THEN CoilSet(c) \cup {i} ELSE CoilSet(c) \ {i}
  BY <1>5, <1>6
<1>8. QED
  BY <1>4, <1>7 DEF d

(* A write of several.                                                     *)
LEMMA SeveralCoils ==
  ASSUME NEW c \in CoilSets, NEW start \in Nat, NEW q \in Nat, NEW data
  PROVE  /\ CoilsWritten(c, start, q, data) \in CoilSets
         /\ \A j \in Coils :
              j \in CoilSet(CoilsWritten(c, start, q, data)) <=>
                IF j \in start .. start + q - 1
                  THEN (j - start) % 8 \in data[(j - start) \div 8 + 1]
                  ELSE j \in CoilSet(c)
<1> DEFINE d == CoilsWritten(c, start, q, data)
           On(b, k) == LET i == 8 * b + k - start
                       IN  IF 8 * b + k \in start .. start + q - 1
                             THEN i % 8 \in data[i \div 8 + 1] ELSE k \in c[b]
<1>1. d = [b \in CoilBytes |-> {k \in 0 .. 7 : On(b, k)}]
  BY DEF CoilsWritten
<1>2. d \in CoilSets
  <2> HIDE DEF On
  <2>1. \A b \in CoilBytes : {k \in 0 .. 7 : On(b, k)} \in SUBSET (0 .. 7)
    OBVIOUS
  <2>2. QED
    BY <1>1, <2>1 DEF CoilSets
<1>3. ASSUME NEW j \in Coils
      PROVE  j \in CoilSet(d) <=> IF j \in start .. start + q - 1
                                    THEN (j - start) % 8 \in data[(j - start) \div 8 + 1]
                                    ELSE j \in CoilSet(c)
  <2>1. j \in Nat /\ j \div 8 \in CoilBytes /\ j % 8 \in 0 .. 7 /\ 8 * (j \div 8) + (j % 8) = j
    BY CoilInItsByte
  <2>2. j \in CoilSet(d) <=> On(j \div 8, j % 8)
    <3> HIDE DEF On, d
    <3>1. j \in CoilSet(d) <=> j % 8 \in d[j \div 8]
      BY <1>2, CoilOf
    <3>2. QED
      BY <1>1, <2>1, <3>1
  <2>3. On(j \div 8, j % 8) <=> IF j \in start .. start + q - 1
                                  THEN (j - start) % 8 \in data[(j - start) \div 8 + 1]
                                  ELSE j % 8 \in c[j \div 8]
    BY <2>1
  <2>4. QED
    BY <2>2, <2>3, CoilOf
<1>4. QED
  BY <1>2, <1>3

-----------------------------------------------------------------------------
(* The checks: what each function code refuses, and why.                   *)

LEMMA ChecksOfCoilReads ==
  ASSUME NEW r \in Requests, r.fc \in {1, 2}
  PROVE  /\ r.fc \in KnownCodes
         /\ IllegalValue(r) <=> r.len < 6 \/ r.quantity = 0 \/ r.quantity > MaxCoils
         /\ IllegalAddress(r) <=> r.start + r.quantity > MB_COIL_COUNT
         /\ ~DataCutShort(r)
<1>1. r.fc \in ReadsCoils /\ r.fc \notin ReadsRegs /\ r.fc \notin {5, 6, 15, 16}
  BY DEF ReadsCoils, ReadsRegs
<1>2. r.fc \in KnownCodes
  BY <1>1 DEF KnownCodes
<1>3. IllegalValue(r) <=> r.len < 6 \/ r.quantity = 0 \/ r.quantity > MaxCoils
  <2>1. CASE r.fc = 1
    BY <2>1 DEF IllegalValue, ReadsCoils, ReadsRegs
  <2>2. CASE r.fc = 2
    BY <2>2 DEF IllegalValue, ReadsCoils, ReadsRegs
  <2>3. QED
    BY <2>1, <2>2
<1>4. IllegalAddress(r) <=> r.start + r.quantity > MB_COIL_COUNT
  BY <1>1 DEF IllegalAddress
<1>5. QED
  BY <1>1, <1>2, <1>3, <1>4 DEF DataCutShort

LEMMA ChecksOfRegReads ==
  ASSUME NEW r \in Requests, r.fc \in {3, 4}
  PROVE  /\ r.fc \in KnownCodes
         /\ IllegalValue(r) <=> r.len < 6 \/ r.quantity = 0 \/ r.quantity > MaxReadRegs
         /\ IllegalAddress(r) <=> r.start + r.quantity > MB_REG_COUNT
         /\ ~DataCutShort(r)
<1>1. r.fc \notin ReadsCoils /\ r.fc \in ReadsRegs /\ r.fc \notin {5, 6, 15, 16}
  BY DEF ReadsCoils, ReadsRegs
<1>2. r.fc \in KnownCodes
  BY <1>1 DEF KnownCodes
<1>3. IllegalValue(r) <=> r.len < 6 \/ r.quantity = 0 \/ r.quantity > MaxReadRegs
  <2>1. CASE r.fc = 3
    BY <2>1 DEF IllegalValue, TooManyToRead, ReadsCoils, ReadsRegs
  <2>2. CASE r.fc = 4
    BY <2>2 DEF IllegalValue, TooManyToRead, ReadsCoils, ReadsRegs
  <2>3. QED
    BY <2>1, <2>2
<1>4. IllegalAddress(r) <=> r.start + r.quantity > MB_REG_COUNT
  BY <1>1 DEF IllegalAddress
<1>5. QED
  BY <1>1, <1>2, <1>3, <1>4 DEF DataCutShort

LEMMA ChecksOfCoilWrite ==
  ASSUME NEW r \in Requests, r.fc = 5
  PROVE  /\ r.fc \in KnownCodes
         /\ IllegalValue(r) <=> r.len < 6 \/ r.quantity \notin {0, 65280}
         /\ IllegalAddress(r) <=> r.start >= MB_COIL_COUNT
         /\ ~DataCutShort(r)
BY DEF IllegalValue, IllegalAddress, DataCutShort, KnownCodes, ReadsCoils, ReadsRegs

LEMMA ChecksOfRegWrite ==
  ASSUME NEW r \in Requests, r.fc = 6
  PROVE  /\ r.fc \in KnownCodes
         /\ IllegalValue(r) <=> r.len < 6
         /\ IllegalAddress(r) <=> r.start >= MB_REG_COUNT
         /\ ~DataCutShort(r)
BY DEF IllegalValue, IllegalAddress, DataCutShort, KnownCodes, ReadsCoils, ReadsRegs

LEMMA ChecksOfCoilsWrite ==
  ASSUME NEW r \in Requests, r.fc = 15
  PROVE  /\ r.fc \in KnownCodes
         /\ IllegalValue(r) <=> \/ r.len < 7 \/ r.quantity = 0
                                \/ r.count # ((r.quantity + 7) \div 8) % 256
         /\ IllegalAddress(r) <=> r.start + r.quantity > MB_COIL_COUNT
         /\ DataCutShort(r) <=> r.len < 7 + r.count + 2
BY DEF IllegalValue, IllegalAddress, DataCutShort, KnownCodes, ReadsCoils, ReadsRegs

LEMMA ChecksOfRegsWrite ==
  ASSUME NEW r \in Requests, r.fc = 16
  PROVE  /\ r.fc \in KnownCodes
         /\ IllegalValue(r) <=> \/ r.len < 7 \/ r.quantity = 0 \/ r.quantity > MaxWriteRegs
                                \/ r.count # (2 * r.quantity) % 256
         /\ IllegalAddress(r) <=> r.start + r.quantity > MB_REG_COUNT
         /\ DataCutShort(r) <=> r.len < 7 + r.count + 2
BY DEF IllegalValue, IllegalAddress, DataCutShort, KnownCodes, ReadsCoils, ReadsRegs

LEMMA Codes == \A f : f \in KnownCodes <=>
  f \in {1, 2} \/ f \in {3, 4} \/ f = 5 \/ f = 6 \/ f = 15 \/ f = 16
BY DEF KnownCodes, ReadsCoils, ReadsRegs

(* A frame that is heard: whole, and for this device.                      *)
Heard(r) == ~(r.len < 4 \/ ~r.good \/ r.addr # MB_SLAVE_ADDR)

(* A request of 6 or 7 bytes is not one of the protocol's, and the code    *)
(* takes it for one; the others it does exactly if it may.                 *)
Accepted(r) == r.fc \in KnownCodes /\ ~IllegalValue(r) /\ ~IllegalAddress(r) /\ ~DataCutShort(r)

LEMMA RefusalCodes ==
  ASSUME NEW r \in Requests
  PROVE  /\ Refusal(r) = 0 <=> Accepted(r)
         /\ Refusal(r) \in 0 .. 3
         /\ Refusal(r) = 1 => r.fc \notin KnownCodes
         /\ Refusal(r) = 2 => r.fc \in KnownCodes /\ ~IllegalValue(r) /\ IllegalAddress(r)
         /\ Refusal(r) = 3 => /\ r.fc \in KnownCodes
                              /\ IllegalValue(r) \/ (~IllegalAddress(r) /\ DataCutShort(r))
BY DEF Refusal, Accepted

(* What a request that is done may rely on.                                *)
LEMMA WithinBounds ==
  ASSUME NEW r \in Requests, Accepted(r)
  PROVE  /\ r.fc \in {1, 2, 15} => r.quantity > 0 /\ r.start + r.quantity <= MB_COIL_COUNT
         /\ r.fc \in {3, 4, 16} => r.quantity > 0 /\ r.start + r.quantity <= MB_REG_COUNT
         /\ r.fc \in {1, 2} => r.quantity <= MaxCoils
         /\ r.fc \in {3, 4} => r.quantity <= MaxReadRegs
         /\ r.fc = 16 => r.quantity <= MaxWriteRegs
         /\ r.fc = 5 => r.start \in Coils /\ r.quantity \in {0, 65280}
         /\ r.fc = 6 => r.start \in Numbers
         /\ r.fc \in {15, 16} => r.len >= 9 + r.count
<1>1. /\ r.start \in Nat /\ r.quantity \in Nat /\ r.count \in Nat /\ r.len \in Nat
      /\ MB_COIL_COUNT \in Nat /\ MB_REG_COUNT \in Nat
      /\ MaxCoils \in Nat /\ MaxReadRegs \in Nat /\ MaxWriteRegs \in Nat
  BY Fields, Constants DEF Short, Byte
<1>2. CASE r.fc \in {1, 2}
  BY <1>1, <1>2, ChecksOfCoilReads DEF Accepted
<1>3. CASE r.fc \in {3, 4}
  BY <1>1, <1>3, ChecksOfRegReads DEF Accepted
<1>4. CASE r.fc = 5
  <2>1. r.start < MB_COIL_COUNT /\ r.quantity \in {0, 65280}
    BY <1>1, <1>4, ChecksOfCoilWrite DEF Accepted
  <2>2. QED
    BY <1>1, <1>4, <2>1 DEF Coils
<1>5. CASE r.fc = 6
  BY <1>1, <1>5, ChecksOfRegWrite DEF Accepted, Numbers
<1>6. CASE r.fc = 15
  BY <1>1, <1>6, ChecksOfCoilsWrite DEF Accepted
<1>7. CASE r.fc = 16
  BY <1>1, <1>7, ChecksOfRegsWrite DEF Accepted
<1>8. QED
  BY <1>2, <1>3, <1>4, <1>5, <1>6, <1>7, Codes DEF Accepted

-----------------------------------------------------------------------------
(* The replies.                                                            *)

LEMMA Header ==
  ASSUME NEW a \in Byte, NEW b \in Byte, NEW d \in Byte, NEW n \in Nat,
         NEW s \in [1 .. n -> Byte]
  PROVE  /\ Len(<<a, b, d>> \o s) = 3 + n
         /\ (<<a, b, d>> \o s)[1] = a /\ (<<a, b, d>> \o s)[2] = b /\ (<<a, b, d>> \o s)[3] = d
         /\ \A i \in 1 .. n : (<<a, b, d>> \o s)[3 + i] = s[i]
<1>1. s \in Seq(Byte) /\ Len(s) = n
  OBVIOUS
<1>2. <<a, b, d>> \in Seq(Byte) /\ Len(<<a, b, d>>) = 3
  OBVIOUS
<1>3. QED
  BY <1>1, <1>2

LEMMA CoilReply ==
  ASSUME NEW r \in Requests, Accepted(r), r.fc \in {1, 2}, NEW t \in Tables, NEW c \in CoilSets
  PROVE  LET reply == Reply(r, t, c)
             count == (r.quantity + 7) \div 8
         IN  /\ count \in Nat /\ 5 + count <= TxSize /\ 8 * count \in r.quantity .. r.quantity + 7
             /\ Len(reply) = 3 + count
             /\ reply[1] = r.addr /\ reply[2] = r.fc /\ reply[3] = count
             /\ \A j \in 0 .. 8 * count - 1 :
                  Bit(reply[4 + j \div 8], j % 8) <=>
                    j < r.quantity /\ r.start + j \in CoilSet(c)
<1> DEFINE count == (r.quantity + 7) \div 8
           bits(b) == {k \in 0 .. 7 : /\ 8 * b + k < r.quantity
                                      /\ CoilIsSet(c, r.start + 8 * b + k)}
           body == [b \in 1 .. count |-> ByteOf(bits(b - 1))]
           reply == Reply(r, t, c)
<1>1. /\ r.start \in Nat /\ r.quantity \in Nat /\ r.quantity > 0 /\ r.quantity <= MaxCoils
      /\ r.start + r.quantity <= MB_COIL_COUNT /\ r.addr \in Byte /\ r.fc \in Byte
  BY Fields, WithinBounds DEF Short
<1>2. count \in Nat /\ 8 * count \in r.quantity .. r.quantity + 7
  BY <1>1, BytesForBits
<1>3. /\ (MaxCoils + 7) \div 8 \in Nat
      /\ 8 * ((MaxCoils + 7) \div 8) \in MaxCoils .. MaxCoils + 7
  BY Constants, BytesForBits
<1>4. 5 + count <= TxSize /\ count <= 255
  BY <1>1, <1>2, <1>3, Constants, LimitAssumption
<1>5. count % 256 = count /\ count \in Byte
  <2> HIDE DEF count
  <2>1. count < 256
    BY <1>2, <1>4
  <2>2. QED
    BY <1>2, <2>1, Truncated
<1>6. reply = <<r.addr, r.fc, count % 256>> \o body
  <2>1. r.fc \in ReadsCoils /\ r.fc \notin ReadsRegs
    BY DEF ReadsCoils, ReadsRegs
  <2>2. QED
    BY <2>1 DEF Reply
<1> HIDE DEF count
<1>7. \A b \in 1 .. count : bits(b - 1) \in SUBSET (0 .. 7)
  OBVIOUS
<1>8. \A b \in 1 .. count : body[b] = ByteOf(bits(b - 1)) /\ body[b] \in Byte
  <2> HIDE DEF bits
  <2>1. QED
    BY <1>7, BitsOfByte
<1>9. body \in [1 .. count -> Byte]
  <2> HIDE DEF bits
  <2>1. QED
    BY <1>8
<1>10. /\ Len(reply) = 3 + count
       /\ reply[1] = r.addr /\ reply[2] = r.fc /\ reply[3] = count
       /\ \A b \in 1 .. count : reply[3 + b] = body[b]
  <2> HIDE DEF body
  <2>1. QED
    BY <1>1, <1>2, <1>5, <1>6, <1>9, Header
<1>11. ASSUME NEW j \in 0 .. 8 * count - 1
       PROVE  Bit(reply[4 + j \div 8], j % 8) <=> j < r.quantity /\ r.start + j \in CoilSet(c)
  <2>1. j \in Nat /\ j \div 8 \in Nat /\ j % 8 \in 0 .. 7 /\ j = 8 * (j \div 8) + (j % 8)
    BY <1>2, BytesOfNumber
  <2>2. (j \div 8) + 1 \in 1 .. count
    BY <1>2, <2>1
  <2>3. reply[4 + j \div 8] = ByteOf(bits(j \div 8))
    <3> DEFINE b == (j \div 8) + 1
    <3>1. 3 + b = 4 + j \div 8 /\ b - 1 = j \div 8
      BY <2>1
    <3> HIDE DEF b, bits, body, reply
    <3>2. reply[3 + b] = body[b] /\ body[b] = ByteOf(bits(b - 1))
      BY <1>8, <1>10, <2>2 DEF b
    <3>3. QED
      BY <3>1, <3>2
  <2>4. bits(j \div 8) \in SUBSET (0 .. 7)
    OBVIOUS
  <2>5. Bit(reply[4 + j \div 8], j % 8) <=> j % 8 \in bits(j \div 8)
    <3> HIDE DEF bits, reply
    <3>1. QED
      BY <2>1, <2>3, <2>4, BitsOfByte
  <2>6. j % 8 \in bits(j \div 8) <=> j < r.quantity /\ CoilIsSet(c, r.start + j)
    <3>1. 8 * (j \div 8) + (j % 8) = j /\ r.start + 8 * (j \div 8) + (j % 8) = r.start + j
      BY <1>1, <2>1
    <3>2. QED
      BY <2>1, <3>1
  <2>7. j < r.quantity => r.start + j \in Coils
    BY <1>1, <2>1, Constants DEF Coils
  <2>8. QED
    BY <2>5, <2>6, <2>7, CoilOf
<1>12. QED
  BY <1>2, <1>4, <1>10, <1>11 DEF count

LEMMA RegReply ==
  ASSUME NEW r \in Requests, Accepted(r), r.fc \in {3, 4}, NEW t \in Tables, NEW c \in CoilSets
  PROVE  LET reply == Reply(r, t, c)
         IN  /\ 5 + 2 * r.quantity <= TxSize
             /\ Len(reply) = 3 + 2 * r.quantity
             /\ reply[1] = r.addr /\ reply[2] = r.fc /\ reply[3] = 2 * r.quantity
             /\ \A i \in 0 .. r.quantity - 1 :
                  256 * reply[4 + 2 * i] + reply[5 + 2 * i] = Regs(t)[r.start + i]
<1> DEFINE q == r.quantity
           e(i) == reg_read(t, r.start + (i - 1) \div 2)[((i - 1) % 2) + 1]
           body == [i \in 1 .. 2 * q |-> e(i)]
           reply == Reply(r, t, c)
<1>1. /\ r.start \in Nat /\ q \in Nat /\ q > 0 /\ q <= MaxReadRegs
      /\ r.start + q <= MB_REG_COUNT /\ r.addr \in Byte /\ r.fc \in Byte
  BY Fields, WithinBounds DEF Short
<1>2. 5 + 2 * q <= TxSize /\ 2 * q <= 255 /\ 2 * q \in Nat
  BY <1>1, Constants, LimitAssumption
<1>3. (2 * q) % 256 = 2 * q /\ 2 * q \in Byte
  BY <1>2, Truncated DEF Byte
<1>4. reply = <<r.addr, r.fc, (2 * q) % 256>> \o body
  <2>1. r.fc \notin ReadsCoils /\ r.fc \in ReadsRegs
    BY DEF ReadsCoils, ReadsRegs
  <2>2. QED
    BY <2>1 DEF Reply
<1>5. ASSUME NEW i \in 0 .. q - 1
      PROVE  /\ 2 * i + 1 \in 1 .. 2 * q /\ 2 * i + 2 \in 1 .. 2 * q /\ r.start + i \in Numbers
             /\ e(2 * i + 1) = t[2 * (r.start + i)] /\ e(2 * i + 2) = t[2 * (r.start + i) + 1]
  <2>1. i \in Nat
    BY <1>1
  <2>2. /\ 2 * i + 1 - 1 = 2 * i /\ 2 * i + 2 - 1 = 2 * i + 1
        /\ (2 * i) \div 2 = i /\ (2 * i) % 2 = 0
        /\ (2 * i + 1) \div 2 = i /\ (2 * i + 1) % 2 = 1
    BY <2>1, Halves
  <2>3. e(2 * i + 1) = reg_read(t, r.start + i)[1] /\ e(2 * i + 2) = reg_read(t, r.start + i)[2]
    BY <2>2
  <2>4. r.start + i \in Numbers
    BY <1>1, Constants DEF Numbers
  <2>5. QED
    BY <1>1, <2>3, <2>4 DEF reg_read
<1>6. ASSUME NEW i \in 1 .. 2 * q
      PROVE  e(i) \in Byte
  <2> DEFINE h == (i - 1) \div 2
  <2>1. i - 1 \in Nat /\ h \in 0 .. q - 1 /\ (i = 2 * h + 1 \/ i = 2 * h + 2)
    <3>1. i - 1 \in Nat
      BY <1>1
    <3>2. h \in Nat /\ (i - 1) % 2 \in {0, 1} /\ i - 1 = 2 * h + ((i - 1) % 2)
      BY <3>1, BytesOfNumber
    <3>3. QED
      BY <1>1, <3>1, <3>2
  <2> HIDE DEF h, e
  <2>2. r.start + h \in Numbers
    BY <1>5, <2>1
  <2>3. QED
    BY <1>5, <2>1, <2>2, RegsType
<1> HIDE DEF e
<1>7. body \in [1 .. 2 * q -> Byte]
  BY <1>6
<1>8. /\ Len(reply) = 3 + 2 * q
      /\ reply[1] = r.addr /\ reply[2] = r.fc /\ reply[3] = 2 * q
      /\ \A i \in 1 .. 2 * q : reply[3 + i] = e(i)
  <2>1. \A i \in 1 .. 2 * q : body[i] = e(i)
    OBVIOUS
  <2>2. PICK n \in Nat : n = 2 * q
    BY <1>2
  <2> HIDE DEF body, reply
  <2>3. reply = <<r.addr, r.fc, n>> \o body /\ n \in Byte /\ body \in [1 .. n -> Byte]
    BY <1>3, <1>4, <1>7, <2>2
  <2>4. /\ Len(reply) = 3 + n
        /\ reply[1] = r.addr /\ reply[2] = r.fc /\ reply[3] = n
        /\ \A i \in 1 .. n : reply[3 + i] = body[i]
    <3>1. r.addr \in Byte /\ r.fc \in Byte
      BY <1>1
    <3> DEFINE x == <<r.addr, r.fc, n>> \o body
    <3>2. /\ Len(x) = 3 + n
          /\ x[1] = r.addr /\ x[2] = r.fc /\ x[3] = n
          /\ \A i \in 1 .. n : x[3 + i] = body[i]
      BY <2>3, <3>1, Header
    <3>3. reply = x
      BY <2>3
    <3> HIDE DEF x
    <3> QED BY <3>2, <3>3
  <2>5. \A i \in 1 .. n : reply[3 + i] = e(i)
    BY <2>1, <2>2, <2>4
  <2> HIDE DEF e
  <2>6. QED
    BY <2>2, <2>4, <2>5
<1>9. ASSUME NEW i \in 0 .. q - 1
      PROVE  256 * reply[4 + 2 * i] + reply[5 + 2 * i] = Regs(t)[r.start + i]
  <2> HIDE DEF reply
  <2>1. 4 + 2 * i = 3 + (2 * i + 1) /\ 5 + 2 * i = 3 + (2 * i + 2)
    BY <1>1
  <2>2. reply[4 + 2 * i] = e(2 * i + 1) /\ reply[5 + 2 * i] = e(2 * i + 2)
    BY <1>5, <1>8, <2>1
  <2>3. QED
    BY <1>5, <2>2, RegsType
<1>10. QED
  BY <1>2, <1>8, <1>9

LEMMA Concatenated ==
  ASSUME NEW s \in Seq(Byte), NEW u \in Seq(Byte), Len(s) >= 2
  PROVE  /\ s \o u \in Seq(Byte) /\ Len(s \o u) = Len(s) + Len(u)
         /\ (s \o u)[1] = s[1] /\ (s \o u)[2] = s[2]
OBVIOUS

LEMMA Joined ==
  ASSUME NEW n \in Nat, n >= 2, NEW s \in Seq(Byte), NEW u \in Seq(Byte),
         Len(s) = n, Len(u) = 2
  PROVE  /\ s \o u \in Seq(Byte) /\ Len(s \o u) = n + 2
         /\ (s \o u)[1] = s[1] /\ (s \o u)[2] = s[2]
<1>1. Len(s) >= 2
  OBVIOUS
<1>2. /\ s \o u \in Seq(Byte) /\ Len(s \o u) = Len(s) + Len(u)
      /\ (s \o u)[1] = s[1] /\ (s \o u)[2] = s[2]
  BY <1>1, Concatenated, Zenon
<1>3. QED
  BY <1>2

LEMMA EchoReply ==
  ASSUME NEW r \in Requests, r.fc \notin {1, 2, 3, 4}, NEW t, NEW c
  PROVE  LET reply == Reply(r, t, c)
         IN  Len(reply) = 6 /\ reply[1] = r.addr /\ reply[2] = r.fc
<1> DEFINE head  == <<r.addr, r.fc>>
           start == Word(r.start)
           last  == Word(r.quantity)
<1>1. Reply(r, t, c) = (head \o start) \o last
  <2>1. r.fc \notin ReadsCoils /\ r.fc \notin ReadsRegs
    BY DEF ReadsCoils, ReadsRegs
  <2>2. QED
    BY <2>1 DEF Reply
<1>2. head \in Seq(Byte) /\ Len(head) = 2 /\ head[1] = r.addr /\ head[2] = r.fc
  BY Fields
<1>3. ASSUME NEW n \in Short
      PROVE  Word(n) \in Seq(Byte) /\ Len(Word(n)) = 2
  <2>1. n \div 256 \in Byte /\ n % 256 \in Byte
    BY WordIsItsBytes
  <2>2. QED
    BY <2>1 DEF Word
<1>4. start \in Seq(Byte) /\ Len(start) = 2 /\ last \in Seq(Byte) /\ Len(last) = 2
  BY <1>3, Fields
<1> HIDE DEF head, start, last
<1>5. /\ head \o start \in Seq(Byte) /\ Len(head \o start) = 4
      /\ (head \o start)[1] = r.addr /\ (head \o start)[2] = r.fc
  <2>1. 2 \in Nat /\ 2 >= 2 /\ 4 = 2 + 2
    OBVIOUS
  <2>2. QED
    BY <1>2, <1>4, <2>1, Joined, Zenon
<1>6. Len((head \o start) \o last) = 6 /\ ((head \o start) \o last)[1] = r.addr
      /\ ((head \o start) \o last)[2] = r.fc
  <2>1. 4 \in Nat /\ 4 >= 2 /\ 6 = 4 + 2
    OBVIOUS
  <2>2. QED
    BY <1>4, <1>5, <2>1, Joined, Zenon
<1>7. QED
  BY <1>1, <1>6

-----------------------------------------------------------------------------
(* What a request does.                                                    *)

(* The data of a write of registers, as many as it names.                  *)
LEMMA WordsOf ==
  ASSUME NEW r \in Requests, Accepted(r), r.fc = 16
  PROVE  LET words == SubSeq(r.data, 1, r.quantity)
         IN  /\ r.count = 2 * r.quantity
             /\ words \in Seq(Byte \X Byte) /\ Len(words) = r.quantity
             /\ \A i \in 1 .. r.quantity : words[i] = r.data[i]
<1>1. /\ r.quantity \in Nat /\ r.count \in Nat /\ r.len >= 9 + r.count
      /\ r.quantity <= MaxWriteRegs /\ MaxWriteRegs \in Nat /\ MaxWriteRegs <= 127
  BY Fields, WithinBounds, LimitAssumption DEF Short, Byte
<1>2. r.count = 2 * r.quantity
  <2>1. r.count = (2 * r.quantity) % 256
    BY ChecksOfRegsWrite DEF Accepted
  <2>2. 2 * r.quantity \in Nat /\ 2 * r.quantity < 256
    BY <1>1
  <2>3. QED
    BY <2>1, <2>2, Truncated
<1>3. r.data \in Seq(Byte \X Byte) /\ 2 * Len(r.data) >= r.count
  BY <1>1, RequestAssumption
<1>4. Len(r.data) \in Nat /\ r.quantity <= Len(r.data)
  BY <1>1, <1>2, <1>3
<1>5. QED
  BY <1>1, <1>2, <1>3, <1>4, SubSeqProperties

(* The registers and coils a request names, when it is done.               *)
LEMMA CoversOf ==
  ASSUME NEW r \in Requests, Accepted(r)
  PROVE  /\ r.fc \in {1, 2, 5, 15} => Covers(r) \subseteq Coils
         /\ r.fc \in {3, 4, 6, 16} => Covers(r) \subseteq Numbers
<1>1. r.start \in Nat /\ r.quantity \in Nat /\ MB_COIL_COUNT \in Nat /\ MB_REG_COUNT \in Nat
  BY Fields, Constants DEF Short
<1>2. CASE r.fc = 5 \/ r.fc = 6
  BY <1>2, WithinBounds DEF Covers
<1>3. CASE r.fc \in {1, 2, 15}
  BY <1>1, <1>3, WithinBounds DEF Covers, Coils
<1>4. CASE r.fc \in {3, 4, 16}
  BY <1>1, <1>4, WithinBounds DEF Covers, Numbers
<1>5. QED
  BY <1>2, <1>3, <1>4

LEMMA TableAfter ==
  ASSUME NEW r \in Requests, Accepted(r), NEW t \in Tables
  PROVE  LET u == NewTable(r, t)
         IN  /\ u \in Tables
             /\ r.fc \notin {6, 16} => u = t
             /\ r.fc = 6 => Regs(u) = [Regs(t) EXCEPT ![r.start] = r.quantity]
             /\ r.fc = 16 =>
                  Regs(u) = [n \in DOMAIN Regs(t) |->
                               IF n \in Covers(r)
                                 THEN 256 * r.data[n - r.start + 1][1] + r.data[n - r.start + 1][2]
                                 ELSE Regs(t)[n]]
             /\ \A o \in Offsets : u[o] # t[o] => r.fc \in {6, 16} /\ o \div 2 \in Covers(r)
<1>1. CASE r.fc \notin {6, 16}
  BY <1>1 DEF NewTable
<1>2. CASE r.fc = 6
  <2>1. NewTable(r, t) = reg_write(t, r.start, Word(r.quantity))
    BY <1>2 DEF NewTable
  <2>2. r.start \in Numbers /\ Covers(r) = {r.start}
    BY <1>2, WithinBounds DEF Covers
  <2>3. Word(r.quantity) \in Byte \X Byte
        /\ 256 * Word(r.quantity)[1] + Word(r.quantity)[2] = r.quantity
    BY Fields, WordIsItsBytes
  <2>4. QED
    BY <1>2, <2>1, <2>2, <2>3, OneRegister
<1>3. CASE r.fc = 16
  <2> DEFINE words == SubSeq(r.data, 1, r.quantity)
             u == RegsWritten(t, r.start, words)
  <2>1. NewTable(r, t) = u
    BY <1>3 DEF NewTable
  <2>2. r.start \in Nat /\ r.quantity \in Nat
    BY Fields DEF Short
  <2>3. Covers(r) = r.start .. r.start + r.quantity - 1
    BY <1>3 DEF Covers
  <2>4. /\ words \in Seq(Byte \X Byte) /\ Len(words) = r.quantity
        /\ \A i \in 1 .. r.quantity : words[i] = r.data[i]
    BY <1>3, WordsOf
  <2> HIDE DEF words
  <2>5. /\ u \in Tables
        /\ \A n \in Numbers : Regs(u)[n] = IF n \in Covers(r)
                                THEN 256 * words[n - r.start + 1][1] + words[n - r.start + 1][2]
                                ELSE Regs(t)[n]
        /\ \A o \in Offsets : o \div 2 \notin Covers(r) => u[o] = t[o]
    <3>1. /\ u \in Tables
          /\ \A n \in Numbers : Regs(u)[n] = IF n \in r.start .. r.start + Len(words) - 1
                                  THEN 256 * words[n - r.start + 1][1] + words[n - r.start + 1][2]
                                  ELSE Regs(t)[n]
          /\ \A o \in Offsets : o \div 2 \notin r.start .. r.start + Len(words) - 1
               => u[o] = t[o]
      BY <2>2, <2>4, SeveralRegisters, Zenon
    <3>2. r.start .. r.start + Len(words) - 1 = Covers(r)
      BY <2>3, <2>4, Zenon
    <3>3. QED
      BY <3>1, <3>2, Zenon
  <2> HIDE DEF u
  <2>6. ASSUME NEW n \in Numbers, n \in Covers(r)
        PROVE  words[n - r.start + 1] = r.data[n - r.start + 1]
    <3>1. n - r.start + 1 \in 1 .. r.quantity
      BY <2>2, <2>3, <2>6
    <3>2. QED
      BY <3>1, <2>4
  <2>7. DOMAIN Regs(t) = Numbers /\ DOMAIN Regs(u) = Numbers
    BY DEF Regs, Numbers
  <2> DEFINE e(n) == IF n \in Covers(r)
                       THEN 256 * r.data[n - r.start + 1][1] + r.data[n - r.start + 1][2]
                       ELSE Regs(t)[n]
  <2>8. \A n \in Numbers : Regs(u)[n] = e(n)
    BY <2>5, <2>6
  <2> HIDE DEF e
  <2>9. Regs(u) = [n \in Numbers |-> e(n)]
    <3>1. Regs(u) = [n \in Numbers |-> Regs(u)[n]]
      BY DEF Regs, Numbers
    <3>2. QED
      BY <2>8, <3>1
  <2>10. QED
    BY <1>3, <2>1, <2>5, <2>7, <2>9 DEF e
<1>4. QED
  BY <1>1, <1>2, <1>3

LEMMA CoilsAfter ==
  ASSUME NEW r \in Requests, Accepted(r), NEW c \in CoilSets
  PROVE  LET d == NewCoils(r, c)
         IN  /\ d \in CoilSets
             /\ r.fc \notin {5, 15} => d = c
             /\ r.fc = 5 =>
                  CoilSet(d) = IF r.quantity = 0 THEN CoilSet(c) \ {r.start}
                               ELSE CoilSet(c) \cup {r.start}
             /\ r.fc = 15 =>
                  /\ CoilSet(d) \ Covers(r) = CoilSet(c) \ Covers(r)
                  /\ \A i \in 0 .. r.quantity - 1 :
                       r.start + i \in CoilSet(d) <=> i % 8 \in r.data[i \div 8 + 1]
<1>1. CASE r.fc \notin {5, 15}
  BY <1>1 DEF NewCoils
<1>2. CASE r.fc = 5
  <2>1. r.start \in Coils
    BY <1>2, WithinBounds
  <2>2. /\ CoilPut(c, r.start, TRUE) \in CoilSets /\ CoilPut(c, r.start, FALSE) \in CoilSets
        /\ CoilSet(CoilPut(c, r.start, TRUE)) = CoilSet(c) \cup {r.start}
        /\ CoilSet(CoilPut(c, r.start, FALSE)) = CoilSet(c) \ {r.start}
    BY <2>1, OneCoil, TRUE \in BOOLEAN, FALSE \in BOOLEAN, Zenon
  <2>3. CASE r.quantity = 0
    <3>1. NewCoils(r, c) = CoilPut(c, r.start, FALSE)
      BY <1>2, <2>3 DEF NewCoils, CoilPut
    <3>2. NewCoils(r, c) \in CoilSets /\ CoilSet(NewCoils(r, c)) = CoilSet(c) \ {r.start}
      BY <2>2, <3>1, Zenon
    <3>3. QED
      BY <1>2, <2>3, <3>2
  <2>4. CASE r.quantity # 0
    <3>1. r.quantity = 65280
      BY <1>2, <2>4, WithinBounds
    <3>2. NewCoils(r, c) = CoilPut(c, r.start, TRUE)
      BY <1>2, <3>1 DEF NewCoils, CoilPut
    <3>3. NewCoils(r, c) \in CoilSets /\ CoilSet(NewCoils(r, c)) = CoilSet(c) \cup {r.start}
      BY <2>2, <3>2, Zenon
    <3>4. QED
      BY <1>2, <2>4, <3>3
  <2>5. QED
    BY <2>3, <2>4
<1>3. CASE r.fc = 15
  <2> DEFINE d == CoilsWritten(c, r.start, r.quantity, r.data)
  <2>1. NewCoils(r, c) = d
    BY <1>3 DEF NewCoils
  <2>2. r.start \in Nat /\ r.quantity \in Nat
    BY Fields DEF Short
  <2>3. Covers(r) = r.start .. r.start + r.quantity - 1 /\ Covers(r) \subseteq Coils
    BY <1>3, CoversOf DEF Covers
  <2>4. /\ d \in CoilSets
        /\ \A j \in Coils :
             j \in CoilSet(d) <=>
               IF j \in Covers(r)
                 THEN (j - r.start) % 8 \in r.data[(j - r.start) \div 8 + 1]
                 ELSE j \in CoilSet(c)
    <3>1. /\ d \in CoilSets
          /\ \A j \in Coils :
               j \in CoilSet(d) <=>
                 IF j \in r.start .. r.start + r.quantity - 1
                   THEN (j - r.start) % 8 \in r.data[(j - r.start) \div 8 + 1]
                   ELSE j \in CoilSet(c)
      BY <2>2, SeveralCoils, Zenon
    <3>2. QED
      BY <2>3, <3>1, Zenon
  <2> HIDE DEF d
  <2>5. CoilSet(d) \subseteq Coils /\ CoilSet(c) \subseteq Coils
    BY DEF CoilSet, Coils
  <2>6. CoilSet(d) \ Covers(r) = CoilSet(c) \ Covers(r)
    BY <2>4, <2>5, Zenon
  <2>7. ASSUME NEW i \in 0 .. r.quantity - 1
        PROVE  r.start + i \in CoilSet(d) <=> i % 8 \in r.data[i \div 8 + 1]
    <3>1. r.start + i \in Covers(r) /\ (r.start + i) - r.start = i
      BY <2>2, <2>3
    <3>2. QED
      BY <2>3, <2>4, <3>1
  <2>8. QED
    BY <1>3, <2>1, <2>4, <2>6, <2>7
<1>4. QED
  BY <1>1, <1>2, <1>3

(* A request that is done is done on exactly what it names.                *)
LEMMA DoneAsNamed ==
  ASSUME mb_table \in Tables, coils \in CoilSets, NEW r \in Requests, Accepted(r)
  PROVE  Performed(r, [reply |-> Reply(r, mb_table, coils),
                       mb_table |-> NewTable(r, mb_table),
                       coils |-> NewCoils(r, coils)])
<1> DEFINE t == mb_table
           c == coils
           reply == Reply(r, t, c)
           u == NewTable(r, t)
           d == NewCoils(r, c)
           a == [reply |-> reply, mb_table |-> u, coils |-> d]
<1>1. a.reply = reply /\ a.mb_table = u /\ a.coils = d
  OBVIOUS
<1>2. /\ r.fc \notin {6, 16} => Regs(u) = Regs(t)
      /\ r.fc = 6 => Regs(u) = [Regs(t) EXCEPT ![r.start] = r.quantity]
      /\ r.fc = 16 =>
           Regs(u) = [n \in DOMAIN Regs(t) |->
                        IF n \in Covers(r)
                          THEN 256 * r.data[n - r.start + 1][1] + r.data[n - r.start + 1][2]
                          ELSE Regs(t)[n]]
  <2> HIDE DEF u, t
  <2>1. u = NewTable(r, t) /\ t \in Tables
    BY DEF u, t
  <2>2. QED
    BY <2>1, TableAfter, Zenon
<1>3. /\ r.fc \notin {5, 15} => CoilSet(d) = CoilSet(c)
      /\ r.fc = 5 => CoilSet(d) = IF r.quantity = 0 THEN CoilSet(c) \ {r.start}
                                  ELSE CoilSet(c) \cup {r.start}
      /\ r.fc = 15 =>
           /\ CoilSet(d) \ Covers(r) = CoilSet(c) \ Covers(r)
           /\ \A i \in 0 .. r.quantity - 1 :
                r.start + i \in CoilSet(d) <=> i % 8 \in r.data[i \div 8 + 1]
  <2> HIDE DEF d, c
  <2>1. d = NewCoils(r, c) /\ c \in CoilSets
    BY DEF d, c
  <2>2. QED
    BY <2>1, CoilsAfter, Zenon
<1>4. r.fc \in ReadsCoils =>
        /\ Len(reply) = 3 + reply[3] /\ 8 * reply[3] \in r.quantity .. r.quantity + 7
        /\ \A i \in 0 .. 8 * reply[3] - 1 :
             Bit(reply[4 + i \div 8], i % 8) <=> i < r.quantity /\ r.start + i \in CoilSet(c)
  <2> HIDE DEF reply, t, c
  <2>1. reply = Reply(r, t, c) /\ t \in Tables /\ c \in CoilSets
    BY DEF reply, t, c
  <2>2. QED
    BY <2>1, CoilReply, Zenon DEF ReadsCoils
<1>5. r.fc \in ReadsRegs =>
        /\ Len(reply) = 3 + reply[3] /\ reply[3] = 2 * r.quantity
        /\ \A i \in 0 .. r.quantity - 1 :
             256 * reply[4 + 2 * i] + reply[5 + 2 * i] = Regs(t)[r.start + i]
  <2> HIDE DEF reply, t, c
  <2>1. reply = Reply(r, t, c) /\ t \in Tables /\ c \in CoilSets
    BY DEF reply, t, c
  <2>2. QED
    <3>1. r.fc \in ReadsRegs => r.fc \in {3, 4}
      BY DEF ReadsRegs
    <3> DEFINE p(i) == 256 * reply[4 + 2 * i] + reply[5 + 2 * i] = Regs(t)[r.start + i]
    <3>2. r.fc \in {3, 4} => /\ Len(reply) = 3 + 2 * r.quantity /\ reply[3] = 2 * r.quantity
                             /\ \A i \in 0 .. r.quantity - 1 : p(i)
      BY <2>1, RegReply
    <3> HIDE DEF p
    <3>3. r.fc \in ReadsRegs => /\ Len(reply) = 3 + reply[3] /\ reply[3] = 2 * r.quantity
                                /\ \A i \in 0 .. r.quantity - 1 : p(i)
      BY <3>1, <3>2, Zenon
    <3>4. QED
      BY <3>3, Zenon DEF p
<1> HIDE DEF reply, u, d, a
<1>6. Performed(r, a)
  BY <1>1, <1>2, <1>3, <1>4, <1>5, ZenonT(60) DEF Performed, t, c
<1>7. QED
  BY <1>6 DEF a, reply, u, d

-----------------------------------------------------------------------------
(* What the protocol says of it: done only if it may be, refused only if   *)
(* it may not.                                                             *)

LEMMA Sizes ==
  ASSUME NEW r \in Requests
  PROVE  /\ r.start \in Nat /\ r.quantity \in Nat /\ r.count \in Nat /\ r.count <= 255 /\ r.len \in Nat
         /\ MB_COIL_COUNT \in Nat /\ MB_REG_COUNT \in Nat /\ MB_COIL_COUNT <= 8 * 255
         /\ MaxCoils \in Nat /\ MaxReadRegs \in Nat /\ MaxWriteRegs \in Nat /\ MaxWriteRegs <= 127
BY Fields, Constants, LimitAssumption DEF Short, Byte

(* A range that ends above the last number is not among the numbers.       *)
LEMMA EndsOutside ==
  ASSUME NEW start \in Nat, NEW q \in Nat, NEW n \in Nat, q > 0
  PROVE  start .. start + q - 1 \subseteq 0 .. n - 1 <=> start + q <= n
<1>1. ASSUME start .. start + q - 1 \subseteq 0 .. n - 1
      PROVE  start + q <= n
  <2>1. start + q - 1 \in start .. start + q - 1
    OBVIOUS
  <2>2. start + q - 1 \in 0 .. n - 1
    BY <1>1, <2>1
  <2>3. QED
    BY <2>2
<1>2. QED
  BY <1>1

LEMMA OutsideOf ==
  ASSUME NEW r \in Requests, r.fc \in KnownCodes, ~IllegalValue(r)
  PROVE  Outside(r) <=> IllegalAddress(r)
<1> USE Sizes
<1>1. CASE r.fc \in {1, 2}
  <2>1. r.quantity > 0 /\ (IllegalAddress(r) <=> r.start + r.quantity > MB_COIL_COUNT)
    BY <1>1, ChecksOfCoilReads
  <2>2. Outside(r) <=> ~(r.start .. r.start + r.quantity - 1 \subseteq 0 .. MB_COIL_COUNT - 1)
    BY <1>1 DEF Outside, Covers, ReadsCoils
  <2>3. QED
    BY <2>1, <2>2, EndsOutside
<1>2. CASE r.fc \in {3, 4}
  <2>1. r.quantity > 0 /\ (IllegalAddress(r) <=> r.start + r.quantity > MB_REG_COUNT)
    BY <1>2, ChecksOfRegReads
  <2>2. Outside(r) <=> ~(r.start .. r.start + r.quantity - 1 \subseteq 0 .. MB_REG_COUNT - 1)
    BY <1>2 DEF Outside, Covers, ReadsCoils
  <2>3. QED
    BY <2>1, <2>2, EndsOutside
<1>3. CASE r.fc = 5
  <2>1. IllegalAddress(r) <=> r.start >= MB_COIL_COUNT
    BY <1>3, ChecksOfCoilWrite
  <2>2. Outside(r) <=> ~({r.start} \subseteq 0 .. MB_COIL_COUNT - 1)
    BY <1>3 DEF Outside, Covers, ReadsCoils
  <2>3. QED
    BY <2>1, <2>2
<1>4. CASE r.fc = 6
  <2>1. IllegalAddress(r) <=> r.start >= MB_REG_COUNT
    BY <1>4, ChecksOfRegWrite
  <2>2. Outside(r) <=> ~({r.start} \subseteq 0 .. MB_REG_COUNT - 1)
    BY <1>4 DEF Outside, Covers, ReadsCoils
  <2>3. QED
    BY <2>1, <2>2
<1>5. CASE r.fc = 15
  <2>1. r.quantity > 0 /\ (IllegalAddress(r) <=> r.start + r.quantity > MB_COIL_COUNT)
    BY <1>5, ChecksOfCoilsWrite
  <2>2. Outside(r) <=> ~(r.start .. r.start + r.quantity - 1 \subseteq 0 .. MB_COIL_COUNT - 1)
    BY <1>5 DEF Outside, Covers, ReadsCoils
  <2>3. QED
    BY <2>1, <2>2, EndsOutside
<1>6. CASE r.fc = 16
  <2>1. r.quantity > 0 /\ (IllegalAddress(r) <=> r.start + r.quantity > MB_REG_COUNT)
    BY <1>6, ChecksOfRegsWrite
  <2>2. Outside(r) <=> ~(r.start .. r.start + r.quantity - 1 \subseteq 0 .. MB_REG_COUNT - 1)
    BY <1>6 DEF Outside, Covers, ReadsCoils
  <2>3. QED
    BY <2>1, <2>2, EndsOutside
<1>7. QED
  BY <1>1, <1>2, <1>3, <1>4, <1>5, <1>6, Codes

(* The byte count of a write is a byte: the limits keep the quantity small *)
(* enough for it to mean what it says.                                     *)
LEMMA CountOfCoils ==
  ASSUME NEW q \in Nat, NEW n \in Nat, n <= 255
  PROVE  /\ n # ((q + 7) \div 8) % 256 => 8 * n \notin q .. q + 7
         /\ q <= 8 * 255 /\ n = ((q + 7) \div 8) % 256 => 8 * n \in q .. q + 7
<1> DEFINE m == (q + 7) \div 8
<1>1. m \in Nat /\ 8 * m \in q .. q + 7 /\ (n = m <=> 8 * n \in q .. q + 7)
  BY BytesForBits
<1> HIDE DEF m
<1>2. m < 256 => m % 256 = m
  BY <1>1, Truncated
<1>3. n # m % 256 => n # m
  BY <1>1, <1>2
<1>4. q <= 8 * 255 => m < 256
  BY <1>1
<1>5. QED
  BY <1>1, <1>2, <1>3, <1>4 DEF m

LEMMA CountOfRegs ==
  ASSUME NEW q \in Nat, q <= 127
  PROVE  (2 * q) % 256 = 2 * q
<1>1. 2 * q \in Nat /\ 2 * q < 256
  OBVIOUS
<1>2. QED
  BY <1>1, Truncated

LEMMA BadFormOf ==
  ASSUME NEW r \in Requests, r.fc \in KnownCodes, r.len \notin {6, 7}
  PROVE  /\ IllegalValue(r) \/ (~IllegalAddress(r) /\ DataCutShort(r)) => BadForm(r)
         /\ Accepted(r) => ~BadForm(r)
<1> USE Sizes
<1>1. CASE r.fc \in {1, 2}
  <2>1. Limit(r) = MaxCoils
    BY <1>1 DEF Limit, ReadsCoils, ReadsRegs
  <2>2. BadForm(r) <=> r.len < 8 \/ r.quantity = 0 \/ r.quantity > MaxCoils
    BY <1>1, <2>1 DEF BadForm
  <2>3. QED
    BY <1>1, <2>2, ChecksOfCoilReads DEF Accepted
<1>2. CASE r.fc \in {3, 4}
  <2>1. Limit(r) = MaxReadRegs
    BY <1>2 DEF Limit, ReadsCoils, ReadsRegs
  <2>2. BadForm(r) <=> r.len < 8 \/ r.quantity = 0 \/ r.quantity > MaxReadRegs
    BY <1>2, <2>1 DEF BadForm
  <2>3. QED
    BY <1>2, <2>2, ChecksOfRegReads DEF Accepted
<1>3. CASE r.fc = 5
  <2>1. BadForm(r) <=> r.len < 8 \/ r.quantity \notin {0, 65280}
    BY <1>3 DEF BadForm
  <2>2. QED
    BY <1>3, <2>1, ChecksOfCoilWrite DEF Accepted
<1>4. CASE r.fc = 6
  <2>1. BadForm(r) <=> r.len < 8
    BY <1>4 DEF BadForm
  <2>2. QED
    BY <1>4, <2>1, ChecksOfRegWrite DEF Accepted
<1>5. CASE r.fc = 15
  <2>1. Limit(r) = r.quantity
    BY <1>5 DEF Limit, ReadsCoils, ReadsRegs
  <2>2. BadForm(r) <=> \/ r.len < 8 \/ r.quantity = 0
                       \/ 8 * r.count \notin r.quantity .. r.quantity + 7
                       \/ r.len < 9 + r.count
    BY <1>5, <2>1 DEF BadForm
  <2>3. /\ IllegalValue(r) <=> \/ r.len < 7 \/ r.quantity = 0
                               \/ r.count # ((r.quantity + 7) \div 8) % 256
        /\ DataCutShort(r) <=> r.len < 9 + r.count
    BY <1>5, ChecksOfCoilsWrite
  <2>4. /\ r.count # ((r.quantity + 7) \div 8) % 256
             => 8 * r.count \notin r.quantity .. r.quantity + 7
        /\ r.quantity <= 8 * 255 /\ r.count = ((r.quantity + 7) \div 8) % 256
             => 8 * r.count \in r.quantity .. r.quantity + 7
    BY CountOfCoils, Zenon
  <2>5. Accepted(r) => r.quantity <= 8 * 255
    BY <1>5, WithinBounds
  <2>6. QED
    BY <2>2, <2>3, <2>4, <2>5 DEF Accepted
<1>6. CASE r.fc = 16
  <2>1. Limit(r) = MaxWriteRegs
    BY <1>6 DEF Limit, ReadsCoils, ReadsRegs
  <2>2. BadForm(r) <=> \/ r.len < 8 \/ r.quantity = 0 \/ r.quantity > MaxWriteRegs
                       \/ r.count # 2 * r.quantity \/ r.len < 9 + r.count
    BY <1>6, <2>1 DEF BadForm
  <2>3. /\ IllegalValue(r) <=> \/ r.len < 7 \/ r.quantity = 0 \/ r.quantity > MaxWriteRegs
                               \/ r.count # (2 * r.quantity) % 256
        /\ DataCutShort(r) <=> r.len < 9 + r.count
    BY <1>6, ChecksOfRegsWrite
  <2>4. r.quantity <= MaxWriteRegs => (2 * r.quantity) % 256 = 2 * r.quantity
    BY CountOfRegs
  <2>5. QED
    BY <2>2, <2>3, <2>4 DEF Accepted
<1>7. QED
  BY <1>1, <1>2, <1>3, <1>4, <1>5, <1>6, Codes

-----------------------------------------------------------------------------
(* modbus_process as a whole.                                              *)

LEMMA Outcomes ==
  ASSUME NEW r \in Requests, NEW t, NEW c
  PROVE  LET a == modbus_process(r, t, c)
         IN  /\ ~Heard(r) => a = [reply |-> << >>, mb_table |-> t, coils |-> c]
             /\ Heard(r) /\ ~Accepted(r) =>
                  a = [reply |-> <<r.addr, Exception(r), Refusal(r)>>,
                       mb_table |-> t, coils |-> c]
             /\ Heard(r) /\ Accepted(r) =>
                  a = [reply |-> Reply(r, t, c), mb_table |-> NewTable(r, t),
                       coils |-> NewCoils(r, c)]
BY RefusalCodes, Zenon DEF modbus_process, Heard

(* A request that is done has a reply that carries its function code, and  *)
(* no reply exceeds tx_data.                                               *)
LEMMA ReplyOf ==
  ASSUME NEW r \in Requests, Accepted(r), NEW t \in Tables, NEW c \in CoilSets
  PROVE  Len(Reply(r, t, c)) + 2 <= TxSize /\ Reply(r, t, c)[2] = r.fc
<1> DEFINE reply == Reply(r, t, c)
<1>1. CASE r.fc \in {1, 2}
  <2> DEFINE count == (r.quantity + 7) \div 8
  <2>1. count \in Nat /\ 5 + count <= TxSize /\ Len(reply) = 3 + count /\ reply[2] = r.fc
    BY <1>1, CoilReply
  <2> HIDE DEF count, reply
  <2>2. QED
    BY <2>1, Constants DEF reply
<1>2. CASE r.fc \in {3, 4}
  <2>1. 5 + 2 * r.quantity <= TxSize /\ Len(reply) = 3 + 2 * r.quantity /\ reply[2] = r.fc
    BY <1>2, RegReply
  <2>2. r.quantity \in Nat
    BY Fields DEF Short
  <2> HIDE DEF reply
  <2>3. Len(reply) + 2 <= TxSize
    BY <2>1, <2>2, Constants
  <2>4. QED
    BY <2>1, <2>3 DEF reply
<1>3. CASE r.fc \notin {1, 2, 3, 4}
  <2>1. Len(reply) = 6 /\ reply[2] = r.fc
    BY <1>3, EchoReply
  <2> HIDE DEF reply
  <2>2. QED
    BY <2>1, LimitAssumption DEF reply
<1>4. QED
  BY <1>1, <1>2, <1>3

LEMMA ProcessTypes ==
  ASSUME NEW r \in Requests, NEW t \in Tables, NEW c \in CoilSets
  PROVE  LET a == modbus_process(r, t, c)
         IN  /\ a.mb_table \in Tables /\ a.coils \in CoilSets
             /\ Len(a.reply) + 2 <= TxSize
             /\ \A o \in Offsets : a.mb_table[o] # t[o]
                                     => r.fc \in {6, 16} /\ o \div 2 \in Covers(r)
<1> DEFINE a == modbus_process(r, t, c)
<1>1. CASE ~Heard(r)
  <2>1. a = [reply |-> << >>, mb_table |-> t, coils |-> c]
    BY <1>1, Outcomes
  <2> HIDE DEF a
  <2>2. QED
    BY <2>1, LimitAssumption DEF a
<1>2. CASE Heard(r) /\ ~Accepted(r)
  <2>1. a = [reply |-> <<r.addr, Exception(r), Refusal(r)>>, mb_table |-> t, coils |-> c]
    BY <1>2, Outcomes
  <2> HIDE DEF a
  <2>2. QED
    BY <2>1, LimitAssumption DEF a
<1>3. CASE Heard(r) /\ Accepted(r)
  <2> DEFINE reply == Reply(r, t, c)
             u == NewTable(r, t)
             d == NewCoils(r, c)
  <2>1. a = [reply |-> reply, mb_table |-> u, coils |-> d]
    BY <1>3, Outcomes
  <2>2. Len(reply) + 2 <= TxSize
    BY <1>3, ReplyOf
  <2>3. u \in Tables /\ \A o \in Offsets : u[o] # t[o]
                           => r.fc \in {6, 16} /\ o \div 2 \in Covers(r)
    BY <1>3, TableAfter, Zenon
  <2>4. d \in CoilSets
    BY <1>3, CoilsAfter, Zenon
  <2> HIDE DEF a, reply, u, d
  <2>5. QED
    BY <2>1, <2>2, <2>3, <2>4 DEF a
<1>4. QED
  BY <1>1, <1>2, <1>3

(* An exception is told from the code it answers.                          *)
LEMMA ExceptionIsNone ==
  ASSUME NEW r \in Requests, r.fc \in KnownCodes
  PROVE  Exception(r) # r.fc
<1>1. r.fc \in 0 .. 127
  BY Codes
<1>2. QED
  BY <1>1 DEF Exception

LEMMA Answers ==
  ASSUME mb_table \in Tables, coils \in CoilSets
  PROVE  AnswersAsReference
<1> DEFINE t == mb_table
           c == coils
<1> SUFFICES ASSUME NEW r \in Requests, r.len \notin {6, 7}
             PROVE  LET a       == modbus_process(r, t, c)
                        refused == /\ a.mb_table = t /\ a.coils = c
                                   /\ \/ a.reply[3] = 1 /\ r.fc \notin KnownCodes
                                      \/ a.reply[3] = 2 /\ r.fc \in KnownCodes /\ Outside(r)
                                      \/ a.reply[3] = 3 /\ r.fc \in KnownCodes /\ BadForm(r)
                    IN  IF ~Heard(r)
                          THEN a = [reply |-> << >>, mb_table |-> t, coils |-> c]
                        ELSE IF a.reply[2] = Exception(r) THEN refused
                        ELSE /\ r.fc \in KnownCodes /\ ~Outside(r) /\ ~BadForm(r)
                             /\ a.reply[2] = r.fc /\ Performed(r, a)
  BY Zenon DEF AnswersAsReference, Heard
<1> DEFINE a == modbus_process(r, t, c)
<1>1. CASE ~Heard(r)
  BY <1>1, Outcomes, Zenon
<1>2. CASE Heard(r) /\ ~Accepted(r)
  <2> DEFINE e == Exception(r)
             n == Refusal(r)
  <2>1. a = [reply |-> <<r.addr, e, n>>, mb_table |-> t, coils |-> c]
    BY <1>2, Outcomes, Zenon
  <2>2. /\ n \in {1, 2, 3}
        /\ n = 1 => r.fc \notin KnownCodes
        /\ n = 2 => r.fc \in KnownCodes /\ Outside(r)
        /\ n = 3 => r.fc \in KnownCodes /\ BadForm(r)
    <3>1. n \in {1, 2, 3}
      BY <1>2, RefusalCodes
    <3>2. n = 1 => r.fc \notin KnownCodes
      BY RefusalCodes
    <3>3. n = 2 => r.fc \in KnownCodes /\ Outside(r)
      BY RefusalCodes, OutsideOf
    <3>4. n = 3 => r.fc \in KnownCodes /\ BadForm(r)
      BY RefusalCodes, BadFormOf
    <3>5. QED
      BY <3>1, <3>2, <3>3, <3>4
  <2> HIDE DEF a, e, n, t, c
  <2>3. a.reply[2] = e /\ a.reply[3] = n /\ a.mb_table = t /\ a.coils = c
    BY <2>1
  <2>4. QED
    BY <1>2, <2>2, <2>3 DEF a, e, n
<1>3. CASE Heard(r) /\ Accepted(r)
  <2>1. a = [reply |-> Reply(r, t, c), mb_table |-> NewTable(r, t), coils |-> NewCoils(r, c)]
    BY <1>3, Outcomes
  <2>2. Performed(r, a)
    BY <1>3, <2>1, DoneAsNamed
  <2>3. a.reply[2] = r.fc
    BY <1>3, <2>1, ReplyOf
  <2>4. r.fc \in KnownCodes /\ ~IllegalValue(r) /\ ~IllegalAddress(r)
    BY <1>3 DEF Accepted
  <2>5. ~Outside(r) /\ ~BadForm(r)
    BY <1>3, <2>4, OutsideOf, BadFormOf
  <2>6. a.reply[2] # Exception(r)
    BY <2>3, <2>4, ExceptionIsNone
  <2> HIDE DEF a
  <2>7. QED
    BY <1>3, <2>2, <2>3, <2>4, <2>5, <2>6 DEF a
<1>4. QED
  BY <1>1, <1>2, <1>3

-----------------------------------------------------------------------------
(* The values exchanged.                                                   *)

Places == 0 .. MB_STRING_LEN - 1

UiOK == \/ ui = Idle
        \/ ui \in [op : {"write", "read"}, value : [1 .. 4 -> Byte], todo : SUBSET (1 .. 4)]

(* Every place of the line holds its character, and 0 from its end on.     *)
LineKept == \A i \in Places : mb_table[2 * LineReg + Swapped(i)] = Filled(line, i, 0)

(* The bytes of a float that the access has reached are in both places,    *)
(* unless somebody changed the float meanwhile.                            *)
FloatKept ==
  ui # Idle /\ ~mixed =>
    \A i \in (1 .. 4) \ ui.todo : mb_table[2 * FloatReg + i - 1] = ui.value[CDAB[i]]

IInv ==
  /\ mb_table \in Tables /\ coils \in CoilSets
  /\ UiOK /\ line \in Lines \cup {<< >>} /\ mixed \in BOOLEAN
  /\ LineKept /\ FloatKept

LEMMA LineOf ==
  ASSUME NEW s \in Lines \cup {<< >>}
  PROVE  /\ s \in Seq(Byte) /\ Len(s) \in Nat /\ Len(s) < MB_STRING_LEN
         /\ \A i \in 1 .. Len(s) : s[i] \in Byte /\ s[i] # 0
<1>1. MB_STRING_LEN \in Nat /\ MB_STRING_LEN > 0
  BY TableAssumption
<1>2. CASE s \in Lines
  <2>1. s \in Seq(Bytes \ {0}) /\ Len(s) < MB_STRING_LEN /\ Bytes \subseteq Byte
    BY <1>2, TableAssumption
  <2>2. s \in Seq(Byte) /\ \A i \in 1 .. Len(s) : s[i] \in Byte /\ s[i] # 0
    BY <2>1
  <2>3. QED
    BY <2>1, <2>2
<1>3. CASE s = << >>
  BY <1>1, <1>3
<1>4. QED
  BY <1>2, <1>3

LEMMA HalfLine ==
  /\ MB_STRING_LEN \div 2 \in Nat /\ MB_STRING_LEN = 2 * (MB_STRING_LEN \div 2)
  /\ 2 * LineReg + MB_STRING_LEN <= 2 * FloatReg /\ 2 * FloatReg + 4 <= 2 * MB_REG_COUNT
<1>1. MB_STRING_LEN \in Nat /\ MB_STRING_LEN % 2 = 0
  BY TableAssumption
<1>2. MB_STRING_LEN \div 2 \in Nat /\ MB_STRING_LEN = 2 * (MB_STRING_LEN \div 2)
  BY <1>1, BytesOfNumber
<1>3. LineReg + MB_STRING_LEN \div 2 <= FloatReg /\ FloatReg + 2 <= MB_REG_COUNT
  BY TableAssumption
<1>4. QED
  BY <1>2, <1>3, Constants

LEMMA Swaps ==
  ASSUME NEW i \in Places
  PROVE  /\ i \in Nat /\ Swapped(i) \in Places /\ Swapped(Swapped(i)) = i
<1>1. i \in Nat /\ MB_STRING_LEN \in Nat
  BY Constants DEF Places
<1>2. i \div 2 \in Nat /\ i % 2 \in {0, 1} /\ i = 2 * (i \div 2) + (i % 2)
  BY <1>1, BytesOfNumber
<1>3. (2 * (i \div 2)) % 2 = 0 /\ (2 * (i \div 2) + 1) % 2 = 1
  BY <1>2, Halves
<1>4. CASE i % 2 = 0
  <2>1. i = 2 * (i \div 2) /\ Swapped(i) = 2 * (i \div 2) + 1
    BY <1>2, <1>4 DEF Swapped
  <2>2. Swapped(i) \in Places
    BY <1>1, <1>2, <2>1, HalfLine DEF Places
  <2>3. Swapped(Swapped(i)) = i
    BY <1>2, <1>3, <2>1 DEF Swapped
  <2>4. QED
    BY <1>1, <2>2, <2>3
<1>5. CASE i % 2 = 1
  <2>1. i = 2 * (i \div 2) + 1 /\ Swapped(i) = 2 * (i \div 2)
    BY <1>2, <1>5 DEF Swapped
  <2>2. Swapped(i) \in Places
    BY <1>1, <1>2, <2>1 DEF Places
  <2>3. Swapped(Swapped(i)) = i
    BY <1>2, <1>3, <2>1 DEF Swapped
  <2>4. QED
    BY <1>1, <2>2, <2>3
<1>6. QED
  BY <1>2, <1>4, <1>5

(* The line and the float lie side by side in the table.                   *)
LEMMA PlaceOf ==
  ASSUME NEW i \in Places
  PROVE  LET o == 2 * LineReg + Swapped(i)
         IN  /\ o \in Offsets /\ o < 2 * FloatReg
             /\ o \div 2 \in LineReg .. LineReg + MB_STRING_LEN \div 2 - 1
<1> DEFINE p == Swapped(i)
           h == MB_STRING_LEN \div 2
<1>1. p \in Nat /\ p < MB_STRING_LEN
  BY Swaps, Constants DEF Places
<1>2. /\ LineReg \in Nat /\ FloatReg \in Nat /\ MB_REG_COUNT \in Nat
      /\ h \in Nat /\ MB_STRING_LEN = 2 * h
      /\ 2 * LineReg + MB_STRING_LEN <= 2 * FloatReg /\ 2 * FloatReg + 4 <= 2 * MB_REG_COUNT
  BY Constants, HalfLine
<1> HIDE DEF p, h
<1>3. (2 * LineReg + p) \div 2 \in LineReg .. LineReg + h - 1
  BY <1>1, <1>2
<1>4. 2 * LineReg + p \in Offsets /\ 2 * LineReg + p < 2 * FloatReg
  BY <1>1, <1>2 DEF Offsets
<1>5. QED
  BY <1>3, <1>4 DEF p, h

LEMMA FloatPlace ==
  ASSUME NEW i \in 1 .. 4
  PROVE  2 * FloatReg + i - 1 \in FloatOffsets /\ 2 * FloatReg + i - 1 \in Offsets
         /\ 2 * FloatReg <= 2 * FloatReg + i - 1
BY Constants, HalfLine DEF FloatOffsets, Offsets

(* A string written is the string, and zeros after it.                     *)
LEMMA LineWritten ==
  ASSUME NEW t \in Tables, NEW s \in Lines
  PROVE  LET u == StringWritten(t, 2 * LineReg, s)
         IN  /\ u \in Tables
             /\ \A i \in Places : u[2 * LineReg + Swapped(i)] = Filled(s, i, 0)
<1> DEFINE a == 2 * LineReg
           e(o) == IF o \in a .. a + MB_STRING_LEN - 1
                     THEN Filled(s, Swapped(o - a), t[o]) ELSE t[o]
           u == StringWritten(t, a, s)
<1>1. u = [o \in Offsets |-> e(o)]
  BY DEF StringWritten
<1>2. a \in Nat /\ MB_STRING_LEN \in Nat
  BY Constants
<1>3. ASSUME NEW n \in Nat, NEW old
      PROVE  Filled(s, n, old) \in Byte /\ Filled(s, n, old) = Filled(s, n, 0)
  <2>1. /\ Len(s) \in Nat /\ 0 \in Byte
        /\ \A i \in 1 .. Len(s) : s[i] \in Byte
    BY LineOf DEF Byte
  <2>2. CASE n < Len(s)
    <3>1. n + 1 \in 1 .. Len(s)
      BY <2>1, <2>2
    <3>2. QED
      BY <2>1, <2>2, <3>1 DEF Filled
  <2>3. CASE ~(n < Len(s))
    BY <2>1, <2>3 DEF Filled
  <2>4. QED
    BY <2>2, <2>3
<1>4. ASSUME NEW o \in Offsets
      PROVE  e(o) \in Byte
  <2>1. CASE o \in a .. a + MB_STRING_LEN - 1
    <3>1. o - a \in Places
      BY <1>2, <2>1 DEF Places
    <3>2. Swapped(o - a) \in Nat
      BY <3>1, Swaps
    <3>3. QED
      BY <1>3, <2>1, <3>2
  <2>2. CASE o \notin a .. a + MB_STRING_LEN - 1
    BY <2>2 DEF Tables
  <2>3. QED
    BY <2>1, <2>2
<1>5. ASSUME NEW i \in Places
      PROVE  e(a + Swapped(i)) = Filled(s, i, 0) /\ a + Swapped(i) \in Offsets
  <2>1. Swapped(i) \in Places /\ Swapped(Swapped(i)) = i /\ i \in Nat
    BY Swaps
  <2>2. a + Swapped(i) \in a .. a + MB_STRING_LEN - 1 /\ (a + Swapped(i)) - a = Swapped(i)
    BY <1>2, <2>1 DEF Places
  <2>3. e(a + Swapped(i)) = Filled(s, i, t[a + Swapped(i)])
    BY <2>1, <2>2
  <2>4. QED
    BY <1>3, <2>1, <2>3, PlaceOf
<1> HIDE DEF e
<1>6. u \in Tables
  BY <1>1, <1>4 DEF Tables
<1>7. \A i \in Places : u[a + Swapped(i)] = Filled(s, i, 0)
  BY <1>1, <1>5
<1>8. QED
  BY <1>6, <1>7

(* What the reader of a line gets.                                         *)
LEMMA LineShown ==
  ASSUME line \in Lines \cup {<< >>}, LineKept
  PROVE  DisplayLineIsWhole
<1> DEFINE a == 2 * LineReg
           n == MB_STRING_LEN
           k == Len(line)
<1>1. /\ line \in Seq(Byte) /\ k \in Nat /\ k < n /\ n \in Nat
      /\ \A i \in 1 .. k : line[i] \in Byte /\ line[i] # 0
  BY LineOf, Constants
<1>2. ASSUME NEW i \in Places
      PROVE  mb_table[a + Swapped(i)] = IF i < k THEN line[i + 1] ELSE 0
  BY DEF LineKept, Filled
<1>3. \A i \in 1 .. n : LineBytes[i] = IF i <= k THEN line[i] ELSE 0
  <2> TAKE i \in 1 .. n
  <2>1. i - 1 \in Places /\ (i - 1) + 1 = i /\ (i - 1 < k <=> i <= k)
    BY <1>1 DEF Places
  <2>2. LineBytes[i] = mb_table[a + Swapped(i - 1)]
    BY DEF LineBytes
  <2>3. QED
    BY <1>2, <2>1, <2>2
<1>4. SubSeq(LineBytes, 1, k) = line
  <2>1. \A i \in 1 .. k : LineBytes[i] = line[i] /\ LineBytes[i] \in Byte
    BY <1>1, <1>3
  <2>2. /\ SubSeq(LineBytes, 1, k) \in Seq(Byte) /\ Len(SubSeq(LineBytes, 1, k)) = k
        /\ \A i \in 1 .. k : SubSeq(LineBytes, 1, k)[i] = LineBytes[i]
    BY <1>1, <2>1, SubSeqProperties
  <2>3. QED
    BY <1>1, <2>1, <2>2, SeqEqual
<1>5. \A i \in k + 1 .. n : LineBytes[i] = 0
  BY <1>1, <1>3
<1>6. StringRead(mb_table, a, n) = line
  <2> DEFINE ends == {i \in 0 .. n - 2 : mb_table[a + Swapped(i)] = 0}
             first == IF ends = {} THEN n - 1 ELSE CHOOSE i \in ends : \A j \in ends : i <= j
  <2>1. ASSUME NEW i \in 0 .. n - 2
        PROVE  i \in ends <=> k <= i
    <3>1. i \in Places /\ i \in Nat
      BY <1>1 DEF Places
    <3>2. CASE i < k
      <4>1. i + 1 \in 1 .. k
        BY <1>1, <3>1, <3>2
      <4>2. QED
        BY <1>1, <1>2, <3>1, <3>2, <4>1
    <3>3. CASE k <= i
      BY <1>1, <1>2, <3>1, <3>3
    <3>4. QED
      BY <1>1, <3>1, <3>2, <3>3
  <2>2. ends \subseteq 0 .. n - 2
    OBVIOUS
  <2> HIDE DEF ends
  <2>3. first = k
    <3>1. CASE k = n - 1
      <4>1. ends = {}
        BY <1>1, <2>1, <2>2, <3>1
      <4>2. QED
        BY <3>1, <4>1
    <3>2. CASE k # n - 1
      <4>1. k \in 0 .. n - 2
        BY <1>1, <3>2
      <4>2. k \in ends /\ \A j \in ends : k <= j
        BY <2>1, <2>2, <4>1
      <4> DEFINE m == CHOOSE i \in ends : \A j \in ends : i <= j
      <4>3. m \in ends /\ \A j \in ends : m <= j
        BY <4>2
      <4> HIDE DEF m
      <4>4. m = k
        BY <1>1, <2>2, <4>2, <4>3
      <4>5. QED
        BY <4>2, <4>4 DEF m
    <3>3. QED
      BY <3>1, <3>2
  <2>4. StringRead(mb_table, a, n) = [i \in 1 .. first |-> mb_table[a + Swapped(i - 1)]]
    BY DEF StringRead, ends
  <2> HIDE DEF first
  <2>5. ASSUME NEW i \in 1 .. k
        PROVE  mb_table[a + Swapped(i - 1)] = line[i]
    <3>1. i - 1 \in Places /\ (i - 1) + 1 = i /\ i - 1 < k
      BY <1>1 DEF Places
    <3>2. QED
      BY <1>2, <3>1
  <2>6. line = [i \in 1 .. k |-> line[i]]
    BY <1>1
  <2>7. QED
    BY <2>3, <2>4, <2>5, <2>6
<1>7. QED
  BY <1>4, <1>5, <1>6 DEF DisplayLineIsWhole

(* An access that has ended has the same bytes on both sides.              *)
LEMMA FloatShown ==
  ASSUME mb_table \in Tables, UiOK, FloatKept
  PROVE  FloatsAgree
<1> SUFFICES ASSUME ui.op # "none", ui.todo = {}, ~mixed
             PROVE  /\ Regs(mb_table)[FloatReg + 1] = 256 * ui.value[1] + ui.value[2]
                    /\ Regs(mb_table)[FloatReg]     = 256 * ui.value[3] + ui.value[4]
  BY DEF FloatsAgree
<1>1. ui # Idle
  BY DEF Idle
<1>2. \A i \in 1 .. 4 : mb_table[2 * FloatReg + i - 1] = ui.value[CDAB[i]]
  BY <1>1 DEF FloatKept
<1>3. FloatReg \in Nat /\ FloatReg \in Numbers /\ FloatReg + 1 \in Numbers
  <2>1. FloatReg \in Nat /\ MB_REG_COUNT \in Nat /\ FloatReg + 2 <= MB_REG_COUNT
    BY Constants, TableAssumption
  <2>2. QED
    BY <2>1 DEF Numbers
<1>4. /\ mb_table[2 * FloatReg] = ui.value[3] /\ mb_table[2 * FloatReg + 1] = ui.value[4]
      /\ mb_table[2 * (FloatReg + 1)] = ui.value[1]
      /\ mb_table[2 * (FloatReg + 1) + 1] = ui.value[2]
  <2>1. /\ 2 * FloatReg + 1 - 1 = 2 * FloatReg /\ 2 * FloatReg + 2 - 1 = 2 * FloatReg + 1
        /\ 2 * FloatReg + 3 - 1 = 2 * (FloatReg + 1)
        /\ 2 * FloatReg + 4 - 1 = 2 * (FloatReg + 1) + 1
    BY <1>3
  <2>2. 1 \in 1 .. 4 /\ 2 \in 1 .. 4 /\ 3 \in 1 .. 4 /\ 4 \in 1 .. 4
    OBVIOUS
  <2>3. CDAB[1] = 3 /\ CDAB[2] = 4 /\ CDAB[3] = 1 /\ CDAB[4] = 2
    BY DEF CDAB
  <2>4. QED
    BY <1>2, <2>1, <2>2, <2>3
<1>5. QED
  BY <1>3, <1>4, RegsType

-----------------------------------------------------------------------------
(* The steps.                                                              *)

LEMMA InitIInv == Init => IInv
<1> SUFFICES ASSUME Init PROVE IInv
  OBVIOUS
<1>1. 0 \in Byte
  BY DEF Byte
<1>2. mb_table \in Tables /\ \A o \in Offsets : mb_table[o] = 0
  BY <1>1 DEF Init, Tables
<1>3. coils \in CoilSets
  BY DEF Init, CoilSets
<1>4. LineKept
  <2>1. Len(line) = 0
    BY DEF Init
  <2>2. \A i \in Places : Filled(line, i, 0) = 0
    BY <2>1, Swaps DEF Filled
  <2>3. QED
    BY <1>2, <2>2, PlaceOf DEF LineKept
<1>5. QED
  BY <1>2, <1>3, <1>4 DEF Init, IInv, UiOK, FloatKept

(* A request leaves the line alone, and says so when it takes the float.   *)
LEMMA MasterKeeps ==
  ASSUME IInv, NEW r \in MasterRequests, Master(r)
  PROVE  IInv'
<1> DEFINE a == modbus_process(r, mb_table, coils)
<1>1. r \in Requests /\ mb_table \in Tables /\ coils \in CoilSets
  BY RequestAssumption DEF IInv
<1>2. /\ a.mb_table \in Tables /\ a.coils \in CoilSets
      /\ \A o \in Offsets : a.mb_table[o] # mb_table[o]
                              => r.fc \in {6, 16} /\ o \div 2 \in Covers(r)
  BY <1>1, ProcessTypes, Zenon
<1>3. /\ mb_table' = a.mb_table /\ coils' = a.coils /\ UNCHANGED <<ui, line>>
      /\ mixed' = (mixed \/ \E o \in FloatOffsets : mb_table'[o] # mb_table[o])
  BY DEF Master
<1> HIDE DEF a
<1>4. LineKept'
  <2> SUFFICES ASSUME NEW i \in Places
               PROVE  mb_table'[2 * LineReg + Swapped(i)] = Filled(line, i, 0)
    BY <1>3 DEF LineKept
  <2> DEFINE o == 2 * LineReg + Swapped(i)
             lines == LineReg .. LineReg + MB_STRING_LEN \div 2 - 1
  <2>1. o \in Offsets /\ o \div 2 \in lines
    BY PlaceOf
  <2>2. mb_table[o] = Filled(line, i, 0)
    BY DEF IInv, LineKept
  <2> HIDE DEF o, lines
  <2>3. ~(r.fc \in {6, 16} /\ o \div 2 \in Covers(r))
    <3>1. r.fc = 6 => Covers(r) = {r.start} /\ r.start \notin lines
      BY MasterAssumption DEF Covers, lines
    <3>2. r.fc = 16 => Covers(r) \cap lines = {}
      BY MasterAssumption DEF Covers, lines
    <3>3. QED
      BY <2>1, <3>1, <3>2
  <2>4. mb_table'[o] = mb_table[o]
    BY <1>2, <1>3, <2>1, <2>3
  <2>5. QED
    BY <2>2, <2>4 DEF o
<1>5. FloatKept'
  <2> SUFFICES ASSUME ui # Idle, ~mixed', NEW i \in (1 .. 4) \ ui.todo
               PROVE  mb_table'[2 * FloatReg + i - 1] = ui.value[CDAB[i]]
    BY <1>3 DEF FloatKept
  <2>1. mb_table[2 * FloatReg + i - 1] = ui.value[CDAB[i]]
    BY <1>3 DEF IInv, FloatKept
  <2>2. mb_table'[2 * FloatReg + i - 1] = mb_table[2 * FloatReg + i - 1]
    BY <1>3, FloatPlace
  <2>3. QED
    BY <2>1, <2>2
<1>6. mixed' \in BOOLEAN
  BY <1>3 DEF IInv
<1>7. QED
  BY <1>2, <1>3, <1>4, <1>5, <1>6 DEF IInv, UiOK

LEMMA StringKeeps ==
  ASSUME IInv, NEW s \in Lines, MB_WriteString(s)
  PROVE  IInv'
<1>1. mb_table \in Tables /\ mb_table' = StringWritten(mb_table, 2 * LineReg, s)
  BY DEF IInv, MB_WriteString
<1>2. mb_table' \in Tables
      /\ \A i \in Places : mb_table'[2 * LineReg + Swapped(i)] = Filled(s, i, 0)
  BY <1>1, LineWritten
<1>3. line' = s /\ UNCHANGED <<coils, ui, mixed>>
  BY DEF MB_WriteString
<1>4. ui = Idle
  BY DEF IInv, UiOK, MB_WriteString
<1>5. LineKept' /\ FloatKept'
  BY <1>2, <1>3, <1>4 DEF LineKept, FloatKept
<1>6. QED
  BY <1>2, <1>3, <1>5 DEF IInv, UiOK

LEMMA BeginKeeps ==
  ASSUME IInv, BeginRead \/ \E v \in Floats : BeginWrite(v)
  PROVE  IInv'
<1>1. \A v \in Floats : v \in [1 .. 4 -> Byte]
  BY TableAssumption
<1>2. <<0, 0, 0, 0>> \in [1 .. 4 -> Byte]
  BY DEF Byte
<1>3. UNCHANGED <<mb_table, coils, line>> /\ mixed' = FALSE
  BY DEF BeginRead, BeginWrite
<1>4. /\ ui' \in [op : {"write", "read"}, value : [1 .. 4 -> Byte], todo : SUBSET (1 .. 4)]
      /\ ui'.todo = 1 .. 4
  BY <1>1, <1>2 DEF BeginRead, BeginWrite
<1>5. FloatKept'
  BY <1>4 DEF FloatKept
<1>6. QED
  BY <1>3, <1>4, <1>5 DEF IInv, UiOK, LineKept

LEMMA CDABIsOneToOne ==
  \A i, j \in 1 .. 4 : CDAB[i] \in 1 .. 4 /\ (CDAB[i] = CDAB[j] => i = j)
<1>1. CDAB[1] = 3 /\ CDAB[2] = 4 /\ CDAB[3] = 1 /\ CDAB[4] = 2
  BY DEF CDAB
<1>2. \A i \in 1 .. 4 : i = 1 \/ i = 2 \/ i = 3 \/ i = 4
  OBVIOUS
<1>3. QED
  BY <1>1, <1>2

LEMMA WriteByteKeeps ==
  ASSUME IInv, WriteByte
  PROVE  IInv'
<1> DEFINE i == CHOOSE i \in ui.todo : \A j \in ui.todo : i <= j
           o == 2 * FloatReg + i - 1
<1>1. /\ mb_table' = [mb_table EXCEPT ![o] = ui.value[CDAB[i]]]
      /\ ui' = [ui EXCEPT !.todo = @ \ {i}]
      /\ UNCHANGED <<coils, line, mixed>>
  BY DEF WriteByte
<1>2. /\ ui \in [op : {"write", "read"}, value : [1 .. 4 -> Byte], todo : SUBSET (1 .. 4)]
      /\ ui # Idle /\ ui.todo # {}
  BY DEF IInv, UiOK, WriteByte, Idle
<1>3. i \in ui.todo /\ i \in 1 .. 4
  <2>1. \E k \in ui.todo : \A j \in ui.todo : k <= j
    BY <1>2
  <2>2. QED
    BY <1>2, <2>1
<1> HIDE DEF i
<1>4. o \in Offsets /\ 2 * FloatReg <= o /\ mb_table \in Tables
  BY <1>3, FloatPlace DEF IInv
<1>5. ui.value[CDAB[i]] \in Byte
  BY <1>2, <1>3, CDABIsOneToOne
<1>6. /\ mb_table' \in Tables /\ mb_table'[o] = ui.value[CDAB[i]]
      /\ \A p \in Offsets : p # o => mb_table'[p] = mb_table[p]
  <2> HIDE DEF o
  <2>1. QED
    BY <1>1, <1>4, <1>5 DEF Tables
<1>7. LineKept'
  <2> SUFFICES ASSUME NEW k \in Places
               PROVE  mb_table'[2 * LineReg + Swapped(k)] = Filled(line, k, 0)
    BY <1>1 DEF LineKept
  <2> DEFINE p == 2 * LineReg + Swapped(k)
  <2>1. p \in Offsets /\ p < 2 * FloatReg
    BY PlaceOf
  <2>2. mb_table[p] = Filled(line, k, 0)
    BY DEF IInv, LineKept
  <2> HIDE DEF p, o
  <2>3. p # o
    BY <1>4, <2>1, Constants DEF Offsets
  <2>4. QED
    BY <1>6, <2>1, <2>2, <2>3 DEF p
<1>8. /\ ui' \in [op : {"write", "read"}, value : [1 .. 4 -> Byte], todo : SUBSET (1 .. 4)]
      /\ ui'.value = ui.value /\ ui'.todo = ui.todo \ {i}
  BY <1>1, <1>2
<1>9. FloatKept'
  <2> SUFFICES ASSUME ~mixed, NEW j \in (1 .. 4) \ ui'.todo
               PROVE  mb_table'[2 * FloatReg + j - 1] = ui.value[CDAB[j]]
    BY <1>1, <1>8 DEF FloatKept
  <2>1. CASE j = i
    BY <1>6, <2>1
  <2>2. CASE j # i
    <3> DEFINE p == 2 * FloatReg + j - 1
    <3>1. mb_table[p] = ui.value[CDAB[j]]
      BY <1>2, <1>8, <2>2 DEF IInv, FloatKept
    <3>2. p \in Offsets /\ p # o
      BY <1>3, <2>2, FloatPlace, Constants
    <3> HIDE DEF o, p
    <3>3. mb_table'[p] = mb_table[p]
      BY <1>6, <3>2
    <3>4. QED
      BY <3>1, <3>3 DEF p
  <2>3. QED
    BY <2>1, <2>2
<1>10. QED
  BY <1>1, <1>6, <1>7, <1>8, <1>9 DEF IInv, UiOK

LEMMA ReadByteKeeps ==
  ASSUME IInv, ReadByte
  PROVE  IInv'
<1>1. PICK i \in ui.todo :
        ui' = [ui EXCEPT !.value[ReadOrder(i)] = mb_table[2 * FloatReg + i - 1],
                         !.todo = @ \ {i}]
  BY DEF ReadByte
<1>2. UNCHANGED <<mb_table, coils, line, mixed>>
  BY DEF ReadByte
<1>3. /\ ui \in [op : {"write", "read"}, value : [1 .. 4 -> Byte], todo : SUBSET (1 .. 4)]
      /\ ui # Idle
  BY DEF IInv, UiOK, ReadByte, Idle
<1> DEFINE b == mb_table[2 * FloatReg + i - 1]
<1>4. i \in 1 .. 4 /\ b \in Byte /\ CDAB[i] \in 1 .. 4
  BY <1>3, FloatPlace, CDABIsOneToOne DEF IInv, Tables
<1>5. ui' = [ui EXCEPT !.value = [ui.value EXCEPT ![CDAB[i]] = b], !.todo = ui.todo \ {i}]
  BY <1>1, <1>3 DEF ReadOrder
<1> HIDE DEF b
<1>6. /\ ui' \in [op : {"write", "read"}, value : [1 .. 4 -> Byte], todo : SUBSET (1 .. 4)]
      /\ ui'.todo = ui.todo \ {i} /\ ui'.value = [ui.value EXCEPT ![CDAB[i]] = b]
  BY <1>3, <1>4, <1>5
<1>7. FloatKept'
  <2> SUFFICES ASSUME ~mixed, NEW j \in (1 .. 4) \ ui'.todo
               PROVE  mb_table[2 * FloatReg + j - 1] = ui'.value[CDAB[j]]
    BY <1>2 DEF FloatKept
  <2>1. CASE j = i
    BY <1>3, <1>4, <1>6, <2>1 DEF b
  <2>2. CASE j # i
    <3>1. mb_table[2 * FloatReg + j - 1] = ui.value[CDAB[j]]
      BY <1>3, <1>6, <2>2 DEF IInv, FloatKept
    <3>2. CDAB[j] # CDAB[i] /\ CDAB[j] \in 1 .. 4
      BY <1>4, <2>2, CDABIsOneToOne
    <3>3. ui'.value[CDAB[j]] = ui.value[CDAB[j]]
      BY <1>3, <1>6, <3>2
    <3>4. QED
      BY <3>1, <3>3
  <2>3. QED
    BY <2>1, <2>2
<1>8. QED
  BY <1>2, <1>6, <1>7 DEF IInv, UiOK, LineKept

LEMMA EndKeeps ==
  ASSUME IInv, EndAccess
  PROVE  IInv'
BY DEF IInv, EndAccess, UiOK, LineKept, FloatKept

LEMMA StepIInv == IInv /\ [Next]_vars => IInv'
<1> SUFFICES ASSUME IInv, [Next]_vars PROVE IInv'
  OBVIOUS
<1>1. CASE \E r \in MasterRequests : Master(r)
  BY <1>1, MasterKeeps
<1>2. CASE \E s \in Lines : MB_WriteString(s)
  BY <1>2, StringKeeps
<1>3. CASE BeginRead \/ \E v \in Floats : BeginWrite(v)
  BY <1>3, BeginKeeps
<1>4. CASE WriteByte
  BY <1>4, WriteByteKeeps
<1>5. CASE ReadByte
  BY <1>5, ReadByteKeeps
<1>6. CASE EndAccess
  BY <1>6, EndKeeps
<1>7. CASE UNCHANGED vars
  BY <1>7 DEF IInv, UiOK, LineKept, FloatKept, vars
<1>8. QED
  BY <1>1, <1>2, <1>3, <1>4, <1>5, <1>6, <1>7 DEF Next

THEOREM Invariance == Spec => []IInv
BY InitIInv, StepIInv, PTL DEF Spec

(* The table and the coils keep their shape whatever is written, and the   *)
(* reply to any request fits tx_data (modbus.c:19-281).                    *)
THEOREM TypesKept == Spec => []TypeOK
<1>1. IInv => TypeOK
  <2> SUFFICES ASSUME IInv PROVE TypeOK
    OBVIOUS
  <2>1. mb_table \in Tables /\ coils \in CoilSets
    BY DEF IInv
  <2>2. \A r \in Requests : Len(modbus_process(r, mb_table, coils).reply) + 2 <= TxSize
    BY <2>1, ProcessTypes, Zenon
  <2>3. ui.op \in {"none", "write", "read"}
    BY DEF IInv, UiOK, Idle
  <2>4. QED
    BY <2>1, <2>2, <2>3 DEF TypeOK, IInv, Tables, CoilSets
<1>2. QED
  BY <1>1, Invariance, PTL

(* Every request, in every state, is refused for a reason that holds and   *)
(* with no effect, or done on exactly what it names (modbus.c:62-279).     *)
THEOREM EveryAnswerIsRight == Spec => []AnswersAsReference
<1>1. IInv => AnswersAsReference
  BY Answers DEF IInv
<1>2. QED
  BY <1>1, Invariance, PTL

(* The display line is read as it was shown, and a float that nobody else  *)
(* changed during an access reads the same on both sides                   *)
(* (modbus_table.c:24-67).                                                 *)
THEOREM ExchangedValuesAgree == Spec => []ValuesAgree
<1>1. IInv => ValuesAgree
  BY LineShown, FloatShown DEF IInv, ValuesAgree
<1>2. QED
  BY <1>1, Invariance, PTL
=============================================================================
