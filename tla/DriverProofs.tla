---------------------------- MODULE DriverProofs ----------------------------
(***************************************************************************)
(* The drivers of the board's two devices, each proved by its own inductive*)
(* invariant: the transfers of the I2C driver are exact, and the text panel*)
(* stays in step with its driver and shows what was drawn.                 *)
(***************************************************************************)
EXTENDS I2c, Lcd, FiniteSetTheorems, SequenceTheorems, TLAPS

-----------------------------------------------------------------------------
(***************************************************************************)
(* The transfers of the I2C driver are exact for every payload, every      *)
(* number of bytes to read and every fault, wherever the call before ended. *)
(***************************************************************************)
States == {"idle", "sb", "addressing", "addr", "tx", "rx", "aerr"}
Bytes  == Nat \cup {None}

PerType ==
    per \in [st : States, dir : {"tx", "rx"}, td : Bytes, rd : Bytes, sh : Bytes,
             ack : BOOLEAN, start : BOOLEAN, stop : BOOLEAN]
ChipType == chip \in [rx : Seq(Nat), sent : Nat, nack : BOOLEAN, due : Seq(Nat)]

\* A read writes the address first.
Purpose == call.n > 0 => call.wr = Address

Types == PerType /\ ChipType /\ TypeOK /\ Purpose

\* A STOP that is asked for ends a transfer; a START is asked for where the
\* driver waits for it.  What an earlier call left on the bus has its STOP.
Requested ==
    /\ per.stop => per.st # "idle"
    /\ per.start => pc \in {"start", "restart"}
    /\ pc \in {"idle", "busy", "stopped", "last"} => per.st = "idle" \/ per.stop
    /\ per.stop => pc \in {"idle", "busy", "stopped", "last"}
    /\ per.st \in {"sb", "addressing", "addr"} => per.sh = None /\ per.td = None

\* The bytes on their way to the chip are those that come next.
Prefix(s, t) == Len(s) <= Len(t) /\ \A k \in 1..Len(s) : s[k] = t[k]

Underway ==
    /\ Prefix(chip.rx, chip.due)
    /\ per.st = "tx" =>
          /\ per.sh # None => /\ Len(chip.rx) + 1 <= Len(chip.due)
                              /\ per.sh = chip.due[Len(chip.rx) + 1]
          /\ per.td # None => /\ per.sh # None
                              /\ Len(chip.rx) + 2 <= Len(chip.due)
                              /\ per.td = chip.due[Len(chip.rx) + 2]

\* Bytes in the two registers.
Full(r) == IF r = None THEN 0 ELSE 1

Unread   == chip.sent = 0 /\ ~chip.nack
Fresh    == Unread /\ chip.rx = <<>> /\ chip.due = call.wr /\ i = 0 /\ buf = <<>>
Writing  ==
    /\ per.st \in {"tx", "aerr"} /\ Unread /\ chip.due = call.wr /\ buf = <<>>
    /\ per.st = "tx" => i = Len(chip.rx) + Full(per.sh) + Full(per.td)
    /\ i > 0 => per.rd = None
Turning  == call.n > 0 /\ chip.rx = Address /\ Unread /\ per.rd = None /\ i = 0 /\ buf = <<>>
Reading  == call.n > 0 /\ chip.rx = Address /\ buf = Counted(i)
Ahead    ==
    /\ chip.sent = i + Full(per.rd) + Full(per.sh)
    /\ per.rd # None => per.rd = i + 1
    /\ per.sh # None => per.rd # None /\ per.sh = i + 2
LastSent == chip.sent = call.n /\ chip.nack

\* The driver, the peripheral and the chip agree on how far the transfer is.
AtStart     == i = 0 /\ buf = <<>>
               /\ \/ per.st = "idle" /\ per.start
                  \/ per.st = "sb" /\ ~per.start /\ Fresh
AtAddress   == per.st \in {"addressing", "addr", "aerr"} /\ per.dir = "tx" /\ Fresh
AtWrite     == Writing /\ i < Len(call.wr)
AtSent      == Writing /\ i = Len(call.wr)
AtRestart   == Turning /\ \/ per.st = "tx" /\ per.start /\ per.sh = None /\ per.td = None
                          \/ per.st = "sb" /\ ~per.start
AtReaddress == Turning /\ per.st \in {"addressing", "addr", "aerr"} /\ per.dir = "rx" /\ per.ack
AtRead      == Reading /\ per.st = "rx" /\ per.ack /\ ~chip.nack /\ Ahead /\ i <= call.n - 3
AtSecond    == /\ Reading /\ per.st = "rx" /\ ~per.ack /\ i = call.n - 2 /\ per.rd = i + 1
               /\ \/ per.sh = None /\ chip.sent = i + 1 /\ ~chip.nack
                  \/ per.sh = i + 2 /\ LastSent
AtStopped   == /\ Reading /\ per.st \in {"rx", "idle"} /\ i = call.n - 2 /\ LastSent
               /\ per.rd = i + 1 /\ per.sh = i + 2
AtLast      == /\ Reading /\ per.st \in {"rx", "idle"} /\ i = call.n - 1 /\ LastSent
               /\ per.rd = i + 1 /\ per.sh = None

Phase ==
    /\ pc = "busy" => i = 0 /\ buf = <<>>
    /\ pc = "start" => AtStart
    /\ pc = "address" => AtAddress
    /\ pc = "write" => AtWrite
    /\ pc = "sent" => AtSent
    /\ pc = "restart" => AtRestart
    /\ pc = "readdress" => AtReaddress
    /\ pc = "read" => AtRead
    /\ pc = "second" => AtSecond
    /\ pc = "stopped" => AtStopped
    /\ pc = "last" => AtLast

\* What a call has left, until the next one.
Outcome ==
    /\ buf = Counted(Len(buf)) /\ Len(buf) <= call.n
    /\ result # "none" => pc = "idle"
    /\ result = "failed" => fault
    /\ result = "ok" =>
          /\ per.st \in {"idle", "tx", "rx"}
          /\ per.st = "tx" => per.sh = None
          /\ call.n = 0 => chip.rx = call.wr
          /\ call.n > 0 => buf = Counted(call.n) /\ LastSent

\* A bus that cannot move is a fault of the call that waits for it.
Blamed ==
    /\ pc # "idle" /\ (dead \/ held) => fault
    /\ pc \notin {"idle", "busy"} /\ per.st = "aerr" => fault

IInv == Types /\ Requested /\ Underway /\ Phase /\ Outcome /\ Blamed
-----------------------------------------------------------------------------
LEMMA AddressType == Address \in Seq(Nat) /\ Address # <<>> /\ Len(Address) = 2
  BY DEF Address

LEMMA SameSequence ==
  ASSUME NEW s \in Seq(Nat), NEW t \in Seq(Nat), Len(s) = Len(t),
         \A k \in 1 .. Len(s) : s[k] = t[k]
  PROVE  s = t
  BY SMTT(30)

LEMMA Parameters ==
  /\ \A p \in Payloads : p \in Seq(Nat) /\ p # <<>> /\ Len(p) \in Nat \ {0}
  /\ \A k \in ReadLengths : k \in Nat /\ k >= 3
<1>1. \A k \in ReadLengths : k \in Nat /\ k \notin 0 .. 2
  BY I2cAssumption DEF I2cAssumption
<1>2. \A k \in Nat : k \notin 0 .. 2 => k >= 3
  OBVIOUS
<1>3. \A p \in Payloads : p \in Seq(Nat) /\ p # <<>>
  BY I2cAssumption DEF I2cAssumption
<1>4. \A p \in Seq(Nat) : p # <<>> => Len(p) \in Nat \ {0}
  OBVIOUS
<1>5. QED
  BY <1>1, <1>2, <1>3, <1>4

LEMMA CallType ==
  ASSUME TypeOK
  PROVE  /\ call.wr \in Seq(Nat) /\ call.wr # <<>> /\ Len(call.wr) \in Nat \ {0}
         /\ call.n \in Nat /\ (call.n > 0 => call.n >= 3) /\ i \in Nat
<1>1. call.wr \in Payloads \cup {Address} /\ call.n \in ReadLengths \cup {0}
  BY DEF TypeOK
<1>2. /\ call.wr \in Seq(Nat) /\ call.wr # <<>> /\ Len(call.wr) \in Nat \ {0}
      /\ call.n \in Nat /\ (call.n > 0 => call.n >= 3)
  BY <1>1, AddressType, Parameters
<1>3. i \in 0 .. Larger(Len(call.wr), call.n)
  BY DEF TypeOK
<1>4. QED
  BY <1>2, <1>3 DEF Larger

-----------------------------------------------------------------------------
\* The driver: a step from one flag to the next.
LEMMA CallStep == IInv /\ Call => IInv'
<1> SUFFICES ASSUME IInv, Call PROVE IInv'
  OBVIOUS
<1> USE CallType DEF IInv, Types, None, PerType, States, Bytes
<1>1. PerType'
  BY DEF Call
<1>2. ChipType'
  BY DEF ChipType, Call
<1>3. TypeOK'
  <2>1. call' \in [wr : Payloads \cup {Address}, n : ReadLengths \cup {0}] /\ i' = 0
    BY DEF Call
  <2>2. Len(call'.wr) \in Nat /\ call'.n \in Nat
    BY <2>1, AddressType, Parameters
  <2>3. i' \in 0 .. Larger(Len(call'.wr), call'.n)
    BY <2>1, <2>2 DEF Larger
  <2>4. QED
    BY <2>1, <2>3 DEF TypeOK, Call
<1>4. Purpose'
  BY DEF Purpose, Call
<1>5. Requested'
  BY DEF Requested, Call
<1>6. Underway'
  BY DEF Underway, Prefix, Requested, ChipType, Call
<1>7. Phase'
  BY DEF Phase, ChipType, Purpose, Requested, Address, Counted, Call
<1>8. Outcome'
  <2>1. buf' = <<>> /\ result' = "none" /\ pc' = "busy" /\ call'.n \in Nat
    BY Parameters DEF Call
  <2>2. Len(buf') = 0 /\ buf' = Counted(0)
    BY <2>1 DEF Counted
  <2>3. QED
    BY <2>1, <2>2 DEF Outcome
<1>9. Blamed'
  BY DEF Blamed, Call, Requested
<1>10. QED
  BY <1>1, <1>2, <1>3, <1>4, <1>5, <1>6, <1>7, <1>8, <1>9 DEF IInv, Types

LEMMA WaitFreeStep == IInv /\ WaitFree /\ UNCHANGED Buses => IInv'
<1> SUFFICES ASSUME IInv, WaitFree /\ UNCHANGED Buses PROVE IInv'
  OBVIOUS
<1> USE CallType DEF IInv, Types, None, PerType, States, Bytes
<1>1. PerType'
  BY DEF WaitFree, I2CBSY, Goto, Kept, Buses
<1>2. ChipType'
  BY DEF ChipType, WaitFree, I2CBSY, Goto, Kept, Buses
<1>3. TypeOK'
  BY DEF TypeOK, WaitFree, I2CBSY, Goto, Kept, Buses
<1>4. Purpose'
  BY DEF Purpose, WaitFree, I2CBSY, Goto, Kept, Buses
<1>5. Requested'
  BY DEF Requested, WaitFree, I2CBSY, Goto, Kept, Buses, Phase, AtStart, Fresh, Unread
<1>6. Underway'
  BY DEF Underway, Prefix, Requested, ChipType, WaitFree, I2CBSY, Goto, Kept, Buses, Phase,
         AtStart, Fresh, Unread
<1>7. Phase'
  BY DEF Phase, ChipType, Purpose, Requested, Address, Counted, WaitFree, I2CBSY, Goto,
         Kept, Buses, AtStart, Fresh, Unread
<1>8. Outcome'
  BY DEF Outcome, Counted, LastSent, WaitFree, I2CBSY, Goto, Kept, Buses, Phase, Requested,
         AtStart, Fresh, Unread
<1>9. Blamed'
  BY DEF Blamed, WaitFree, I2CBSY, Goto, Kept, Buses, Phase, Requested, AtStart, Fresh, Unread
<1>10. QED
  BY <1>1, <1>2, <1>3, <1>4, <1>5, <1>6, <1>7, <1>8, <1>9 DEF IInv, Types

LEMMA SendWStep == IInv /\ SendAddress("start", "address", "tx", per.ack) /\ UNCHANGED Buses => IInv'
<1> SUFFICES ASSUME IInv, SendAddress("start", "address", "tx", per.ack) /\ UNCHANGED Buses PROVE IInv'
  OBVIOUS
<1> USE CallType DEF IInv, Types, None, PerType, States, Bytes
<1>1. PerType'
  BY DEF SendAddress, SBSEND, Goto, Kept, Buses
<1>2. ChipType'
  BY DEF ChipType, SendAddress, SBSEND, Goto, Kept, Buses
<1>3. TypeOK'
  BY DEF TypeOK, SendAddress, SBSEND, Goto, Kept, Buses
<1>4. Purpose'
  BY DEF Purpose, SendAddress, SBSEND, Goto, Kept, Buses
<1>5. Requested'
  BY DEF Requested, SendAddress, SBSEND, Goto, Kept, Buses, Phase, AtStart, AtAddress,
         Fresh, Unread
<1>6. Underway'
  BY DEF Underway, Prefix, Requested, ChipType, SendAddress, SBSEND, Goto, Kept, Buses,
         Phase, AtStart, AtAddress, Fresh, Unread
<1>7. Phase'
  BY DEF Phase, ChipType, Purpose, Requested, Address, Counted, SendAddress, SBSEND, Goto,
         Kept, Buses, AtStart, AtAddress, Fresh, Unread
<1>8. Outcome'
  BY DEF Outcome, Counted, LastSent, SendAddress, SBSEND, Goto, Kept, Buses, Phase,
         Requested, AtStart, AtAddress, Fresh, Unread
<1>9. Blamed'
  BY DEF Blamed, SendAddress, SBSEND, Goto, Kept, Buses, Phase, Requested, AtStart,
         AtAddress, Fresh, Unread
<1>10. QED
  BY <1>1, <1>2, <1>3, <1>4, <1>5, <1>6, <1>7, <1>8, <1>9 DEF IInv, Types

LEMMA ClearWStep == IInv /\ ClearAddress("address", "write") /\ UNCHANGED Buses => IInv'
<1> SUFFICES ASSUME IInv, ClearAddress("address", "write") /\ UNCHANGED Buses PROVE IInv'
  OBVIOUS
<1> USE CallType DEF IInv, Types, None, PerType, States, Bytes
<1>1. PerType'
  BY DEF ClearAddress, ADDSEND, Goto, Kept, Buses
<1>2. ChipType'
  BY DEF ChipType, ClearAddress, ADDSEND, Goto, Kept, Buses
<1>3. TypeOK'
  BY DEF TypeOK, ClearAddress, ADDSEND, Goto, Kept, Buses
<1>4. Purpose'
  BY DEF Purpose, ClearAddress, ADDSEND, Goto, Kept, Buses
<1>5. Requested'
  BY DEF Requested, ClearAddress, ADDSEND, Goto, Kept, Buses, Phase, AtAddress, AtWrite,
         Fresh, Unread, Writing, Full
<1>6. Underway'
  BY DEF Underway, Prefix, Requested, ChipType, ClearAddress, ADDSEND, Goto, Kept, Buses,
         Phase, AtAddress, AtWrite, Fresh, Unread, Writing, Full
<1>7. Phase'
  BY DEF Phase, ChipType, Purpose, Requested, Address, Counted, ClearAddress, ADDSEND, Goto,
         Kept, Buses, AtAddress, AtWrite, Fresh, Unread, Writing, Full
<1>8. Outcome'
  BY DEF Outcome, Counted, LastSent, ClearAddress, ADDSEND, Goto, Kept, Buses, Phase,
         Requested, AtAddress, AtWrite, Fresh, Unread, Writing, Full
<1>9. Blamed'
  BY DEF Blamed, ClearAddress, ADDSEND, Goto, Kept, Buses, Phase, Requested, AtAddress,
         AtWrite, Fresh, Unread, Writing, Full
<1>10. QED
  BY <1>1, <1>2, <1>3, <1>4, <1>5, <1>6, <1>7, <1>8, <1>9 DEF IInv, Types

LEMMA WriteByteStep == IInv /\ WriteByte /\ UNCHANGED Buses => IInv'
<1> SUFFICES ASSUME IInv, WriteByte /\ UNCHANGED Buses PROVE IInv'
  OBVIOUS
<1> USE CallType DEF IInv, Types, None, PerType, States, Bytes
<1>0. call.wr[i + 1] \in Nat
  BY DEF WriteByte, Phase, AtWrite
<1>1. PerType'
  <2>1. CASE per.sh = None
    BY <1>0, <2>1 DEF WriteByte, Transmitted
  <2>2. CASE per.sh # None
    BY <1>0, <2>2 DEF WriteByte, Transmitted
  <2>3. QED
    BY <2>1, <2>2
<1>2. ChipType'
  BY DEF ChipType, WriteByte, TBE, Transmitted, Goto, Buses
<1>3. TypeOK'
  <2>1. i + 1 <= Len(call.wr)
    BY DEF WriteByte, Phase, AtWrite, Writing
  <2>2. i' = i + 1 /\ call' = call
    BY DEF WriteByte, TBE, Transmitted, Buses
  <2>3. i' \in 0 .. Larger(Len(call'.wr), call'.n)
    BY <2>1, <2>2 DEF Larger
  <2>4. /\ per'.st = per.st /\ per'.dir = per.dir /\ UNCHANGED <<world, dead, held, fault>>
        /\ result' = result /\ pc' \in {"idle", "write", "sent", "read", "second", "last"}
    BY DEF WriteByte, TBE, Transmitted, Goto, Buses
  <2>5. QED
    BY <2>2, <2>3, <2>4 DEF TypeOK
<1>4. Purpose'
  BY DEF Purpose, WriteByte, TBE, Transmitted, Goto, Buses
<1>5. Requested'
  BY DEF Requested, WriteByte, TBE, Transmitted, Goto, Buses, Phase, AtWrite, AtSent,
         Writing, Unread, Full
<1>6. Underway'
  BY DEF Underway, Prefix, Requested, ChipType, WriteByte, TBE, Transmitted, Goto, Buses,
         Phase, AtWrite, AtSent, Writing, Unread, Full
<1>7. Phase'
  <2>1. /\ per.st = "tx" /\ per.td = None /\ Writing /\ i < Len(call.wr)
    BY DEF WriteByte, TBE, Phase, AtWrite
  <2>2. /\ per'.st = "tx" /\ per'.rd = None /\ i' = i + 1
        /\ per.sh = None => per'.sh # None /\ per'.td = None
        /\ per.sh # None => per'.sh = per.sh /\ per'.td # None
    BY <1>0, <2>1 DEF WriteByte, Transmitted
  <2>3. Writing'
    <3>1. chip' = chip /\ call' = call /\ buf' = buf /\ Len(chip.rx) \in Nat
      BY DEF WriteByte, Buses, ChipType
    <3>2. i' = Len(chip'.rx) + Full(per'.sh) + Full(per'.td)
      <4>1. i = Len(chip.rx) + Full(per.sh)
        BY <2>1 DEF Writing, Full, ChipType
      <4>2. CASE per.sh = None
        <5>1. Full(per.sh) = 0 /\ Full(per'.sh) = 1 /\ Full(per'.td) = 0
          BY <2>2, <4>2 DEF Full
        <5>2. QED
          BY <2>2, <3>1, <4>1, <5>1
      <4>3. CASE per.sh # None
        <5>1. Full(per.sh) = 1 /\ Full(per'.sh) = 1 /\ Full(per'.td) = 1
          BY <2>2, <4>3 DEF Full
        <5>2. QED
          BY <2>2, <3>1, <4>1, <5>1
      <4>4. QED
        BY <4>2, <4>3
    <3>3. QED
      BY <2>1, <2>2, <3>1, <3>2 DEF Writing, Unread
  <2>4. pc' = IF i + 1 = Len(call.wr) THEN "sent" ELSE "write"
    BY DEF WriteByte, Goto
  <2>5. (pc' = "sent" => i' = Len(call'.wr)) /\ (pc' = "write" => i' < Len(call'.wr))
    BY <2>1, <2>2, <2>4 DEF Buses
  <2>6. QED
    BY <2>3, <2>4, <2>5 DEF Phase, AtWrite, AtSent
<1>8. Outcome'
  BY DEF Outcome, Counted, LastSent, WriteByte, TBE, Transmitted, Goto, Buses, Phase,
         Requested, AtWrite, AtSent, Writing, Unread, Full
<1>9. Blamed'
  BY DEF Blamed, WriteByte, TBE, Transmitted, Goto, Buses, Phase, Requested, AtWrite,
         AtSent, Writing, Unread, Full
<1>10. QED
  BY <1>1, <1>2, <1>3, <1>4, <1>5, <1>6, <1>7, <1>8, <1>9 DEF IInv, Types

LEMMA SentStep == IInv /\ Sent /\ UNCHANGED Buses => IInv'
<1> SUFFICES ASSUME IInv, Sent /\ UNCHANGED Buses PROVE IInv'
  OBVIOUS
<1> USE CallType DEF IInv, Types, None, PerType, States, Bytes
<1>0. /\ per.st = "tx" /\ per.sh = None /\ per.td = None /\ Writing /\ i = Len(call.wr)
      /\ chip.rx = call.wr
  <2>1. /\ per.st = "tx" /\ per.sh = None /\ per.td = None /\ Writing /\ i = Len(call.wr)
    BY DEF Sent, BTC, Phase, AtSent, Writing
  <2>2. Len(chip.rx) = Len(call.wr) /\ chip.due = call.wr
    BY <2>1 DEF Writing, Full, ChipType
  <2>3. chip.rx = call.wr
    BY <2>2, SameSequence DEF Underway, Prefix, ChipType
  <2>4. QED
    BY <2>1, <2>3
<1>1. PerType'
  BY ZenonT(60) DEF Sent, BTC, Goto, Return, Buses
<1>2. ChipType'
  BY DEF ChipType, Sent, BTC, Goto, Return, Buses
<1>3. TypeOK'
  <2>1. i' = 0 /\ call' = call
    BY DEF Sent, Buses
  <2>2. i' \in 0 .. Larger(Len(call'.wr), call'.n)
    BY <2>1 DEF Larger
  <2>3. /\ per'.st = per.st /\ per'.dir = per.dir /\ UNCHANGED <<world, dead, held, fault>>
        /\ result' \in {result, "ok"} /\ pc' \in {"idle", "restart"}
    BY DEF Sent, Goto, Return, Buses
  <2>4. QED
    BY <2>1, <2>2, <2>3 DEF TypeOK
<1>4. Purpose'
  BY DEF Purpose, Sent, BTC, Goto, Return, Buses
<1>5. Requested'
  BY DEF Requested, Sent, BTC, Goto, Return, Buses, Phase, AtSent, AtRestart, Writing,
         Unread, Full, Turning
<1>6. Underway'
  BY DEF Underway, Prefix, Requested, ChipType, Sent, BTC, Goto, Return, Buses, Phase,
         AtSent, AtRestart, Writing, Unread, Full, Turning
<1>7. Phase'
  <2>1. CASE call.n = 0
    BY <2>1 DEF Sent, Return, Phase
  <2>2. CASE call.n # 0
    <3>1. pc' = "restart" /\ i' = 0 /\ UNCHANGED <<chip, call, buf>>
      BY <2>2 DEF Sent, Goto, Buses
    <3>2. per' = [per EXCEPT !.start = TRUE]
      BY <2>2 DEF Sent
    <3>3. Turning'
      BY <1>0, <2>2, <3>1, <3>2 DEF Turning, Writing, Unread, Purpose
    <3>4. QED
      BY <1>0, <3>1, <3>2, <3>3 DEF Phase, AtRestart
  <2>3. QED
    BY <2>1, <2>2
<1>8. Outcome'
  <2>1. UNCHANGED <<buf, call, chip, fault>> /\ per'.st = "tx" /\ per'.sh = None
    BY <1>0 DEF Sent, Buses
  <2>2. IF call.n = 0 THEN pc' = "idle" /\ result' = "ok" ELSE result' = result
    BY DEF Sent, Return, Goto
  <2>3. result = "none"
    BY DEF Sent, Outcome, TypeOK
  <2>4. QED
    BY <1>0, <2>1, <2>2, <2>3 DEF Outcome
<1>9. Blamed'
  BY DEF Blamed, Sent, BTC, Goto, Return, Buses, Phase, Requested, AtSent, AtRestart,
         Writing, Unread, Full, Turning
<1>10. QED
  BY <1>1, <1>2, <1>3, <1>4, <1>5, <1>6, <1>7, <1>8, <1>9 DEF IInv, Types

LEMMA SendRStep == IInv /\ SendAddress("restart", "readdress", "rx", TRUE) /\ UNCHANGED Buses => IInv'
<1> SUFFICES ASSUME IInv, SendAddress("restart", "readdress", "rx", TRUE) /\ UNCHANGED Buses PROVE IInv'
  OBVIOUS
<1> USE CallType DEF IInv, Types, None, PerType, States, Bytes
<1>1. PerType'
  BY DEF SendAddress, SBSEND, Goto, Kept, Buses
<1>2. ChipType'
  BY DEF ChipType, SendAddress, SBSEND, Goto, Kept, Buses
<1>3. TypeOK'
  BY DEF TypeOK, SendAddress, SBSEND, Goto, Kept, Buses
<1>4. Purpose'
  BY DEF Purpose, SendAddress, SBSEND, Goto, Kept, Buses
<1>5. Requested'
  BY DEF Requested, SendAddress, SBSEND, Goto, Kept, Buses, Phase, AtRestart, AtReaddress,
         Turning, Unread
<1>6. Underway'
  BY DEF Underway, Prefix, Requested, ChipType, SendAddress, SBSEND, Goto, Kept, Buses,
         Phase, AtRestart, AtReaddress, Turning, Unread
<1>7. Phase'
  BY DEF Phase, ChipType, Purpose, Requested, Address, Counted, SendAddress, SBSEND, Goto,
         Kept, Buses, AtRestart, AtReaddress, Turning, Unread
<1>8. Outcome'
  BY DEF Outcome, Counted, LastSent, SendAddress, SBSEND, Goto, Kept, Buses, Phase,
         Requested, AtRestart, AtReaddress, Turning, Unread
<1>9. Blamed'
  BY DEF Blamed, SendAddress, SBSEND, Goto, Kept, Buses, Phase, Requested, AtRestart,
         AtReaddress, Turning, Unread
<1>10. QED
  BY <1>1, <1>2, <1>3, <1>4, <1>5, <1>6, <1>7, <1>8, <1>9 DEF IInv, Types

LEMMA ClearRStep == IInv /\ ClearAddress("readdress", "read") /\ UNCHANGED Buses => IInv'
<1> SUFFICES ASSUME IInv, ClearAddress("readdress", "read") /\ UNCHANGED Buses PROVE IInv'
  OBVIOUS
<1> USE CallType DEF IInv, Types, None, PerType, States, Bytes
<1>1. PerType'
  BY DEF ClearAddress, ADDSEND, Goto, Kept, Buses
<1>2. ChipType'
  BY DEF ChipType, ClearAddress, ADDSEND, Goto, Kept, Buses
<1>3. TypeOK'
  BY DEF TypeOK, ClearAddress, ADDSEND, Goto, Kept, Buses
<1>4. Purpose'
  BY DEF Purpose, ClearAddress, ADDSEND, Goto, Kept, Buses
<1>5. Requested'
  BY DEF Requested, ClearAddress, ADDSEND, Goto, Kept, Buses, Phase, AtReaddress, AtRead,
         Turning, Unread, Reading, Ahead, Full
<1>6. Underway'
  BY DEF Underway, Prefix, Requested, ChipType, ClearAddress, ADDSEND, Goto, Kept, Buses,
         Phase, AtReaddress, AtRead, Turning, Unread, Reading, Ahead, Full
<1>7. Phase'
  BY DEF Phase, ChipType, Purpose, Requested, Address, Counted, ClearAddress, ADDSEND, Goto,
         Kept, Buses, AtReaddress, AtRead, Turning, Unread, Reading, Ahead, Full
<1>8. Outcome'
  BY DEF Outcome, Counted, LastSent, ClearAddress, ADDSEND, Goto, Kept, Buses, Phase,
         Requested, AtReaddress, AtRead, Turning, Unread, Reading, Ahead, Full
<1>9. Blamed'
  BY DEF Blamed, ClearAddress, ADDSEND, Goto, Kept, Buses, Phase, Requested, AtReaddress,
         AtRead, Turning, Unread, Reading, Ahead, Full
<1>10. QED
  BY <1>1, <1>2, <1>3, <1>4, <1>5, <1>6, <1>7, <1>8, <1>9 DEF IInv, Types

LEMMA ReadByteStep == IInv /\ ReadByte /\ UNCHANGED Buses => IInv'
<1> SUFFICES ASSUME IInv, ReadByte /\ UNCHANGED Buses PROVE IInv'
  OBVIOUS
<1> USE CallType DEF IInv, Types, None, PerType, States, Bytes
<1>1. PerType'
  BY DEF ReadByte, RBNE, Received, Store, Goto, Buses
<1>2. ChipType'
  BY DEF ChipType, ReadByte, RBNE, Received, Store, Goto, Buses
<1>3. TypeOK'
  <2>1. i + 1 <= call.n
    BY DEF ReadByte, Phase, AtRead, Reading
  <2>2. i' = i + 1 /\ call' = call
    BY DEF ReadByte, Received, Store, Buses
  <2>3. i' \in 0 .. Larger(Len(call'.wr), call'.n)
    BY <2>1, <2>2 DEF Larger
  <2>4. /\ per'.st = per.st /\ per'.dir = per.dir /\ UNCHANGED <<world, dead, held, fault>>
        /\ result' = result /\ pc' \in {"idle", "write", "sent", "read", "second", "last"}
    BY DEF ReadByte, Received, Store, Goto, Buses
  <2>5. QED
    BY <2>2, <2>3, <2>4 DEF TypeOK
<1>4. Purpose'
  BY DEF Purpose, ReadByte, RBNE, Received, Store, Goto, Buses
<1>5. Requested'
  BY DEF Requested, ReadByte, RBNE, Received, Store, Goto, Buses, Phase, AtRead, Reading,
         Ahead, Full
<1>6. Underway'
  BY DEF Underway, Prefix, Requested, ChipType, ReadByte, RBNE, Received, Store, Goto,
         Buses, Phase, AtRead, Reading, Ahead, Full
<1>7. Phase'
  BY SMTT(30) DEF Phase, ChipType, Purpose, Requested, Address, Counted, ReadByte, RBNE, Received,
         Store, Goto, Buses, AtRead, Reading, Ahead, Full
<1>8. Outcome'
  BY DEF Outcome, Counted, LastSent, ReadByte, RBNE, Received, Store, Goto, Buses, Phase,
         Requested, AtRead, Reading, Ahead, Full
<1>9. Blamed'
  BY DEF Blamed, ReadByte, RBNE, Received, Store, Goto, Buses, Phase, Requested, AtRead,
         Reading, Ahead, Full
<1>10. QED
  BY <1>1, <1>2, <1>3, <1>4, <1>5, <1>6, <1>7, <1>8, <1>9 DEF IInv, Types

LEMMA ThirdToLastStep == IInv /\ ThirdToLast /\ UNCHANGED Buses => IInv'
<1> SUFFICES ASSUME IInv, ThirdToLast /\ UNCHANGED Buses PROVE IInv'
  OBVIOUS
<1> USE CallType DEF IInv, Types, None, PerType, States, Bytes
<1>0. /\ AtRead /\ i = call.n - 3 /\ per.rd = i + 1 /\ per.sh = i + 2
  BY DEF ThirdToLast, BTC, Phase, AtRead, Ahead
<1>1. PerType'
  BY DEF ThirdToLast, BTC, Received, Store, Goto, Buses
<1>2. ChipType'
  BY DEF ChipType, ThirdToLast, BTC, Received, Store, Goto, Buses
<1>3. TypeOK'
  <2>1. i + 1 <= call.n
    BY DEF ThirdToLast, Phase, AtRead, Reading
  <2>2. i' = i + 1 /\ call' = call
    BY DEF ThirdToLast, Received, Store, Buses
  <2>3. i' \in 0 .. Larger(Len(call'.wr), call'.n)
    BY <2>1, <2>2 DEF Larger
  <2>4. /\ per'.st = per.st /\ per'.dir = per.dir /\ UNCHANGED <<world, dead, held, fault>>
        /\ result' = result /\ pc' \in {"idle", "write", "sent", "read", "second", "last"}
    BY DEF ThirdToLast, Received, Store, Goto, Buses
  <2>5. QED
    BY <2>2, <2>3, <2>4 DEF TypeOK
<1>4. Purpose'
  BY DEF Purpose, ThirdToLast, BTC, Received, Store, Goto, Buses
<1>5. Requested'
  BY DEF Requested, ThirdToLast, BTC, Received, Store, Goto, Buses, Phase, AtRead, AtSecond,
         Reading, Ahead, Full, LastSent
<1>6. Underway'
  BY DEF Underway, Prefix, Requested, ChipType, ThirdToLast, BTC, Received, Store, Goto,
         Buses, Phase, AtRead, AtSecond, Reading, Ahead, Full, LastSent
<1>7. Phase'
  <2>1. /\ per' = [per EXCEPT !.rd = i + 2, !.sh = None, !.ack = FALSE]
        /\ i' = i + 1 /\ buf' = Append(buf, i + 1) /\ pc' = "second" /\ UNCHANGED <<chip, call>>
    BY <1>0 DEF ThirdToLast, Received, Store, Goto, Buses
  <2>2. buf' = Counted(i') /\ chip.sent = i + 2 /\ ~chip.nack
    BY <1>0, <2>1, SMTT(30) DEF AtRead, Reading, Ahead, Full, Counted
  <2>3. AtSecond'
    <3>1. per'.st = "rx" /\ per'.rd = i + 2 /\ per'.sh = None /\ ~ per'.ack
      BY <1>0, <2>1 DEF AtRead
    <3>2. i' = i + 1 /\ i' = call'.n - 2 /\ chip' = chip
      BY <1>0, <2>1
    <3>3. Reading'
      BY <1>0, <2>1, <2>2 DEF AtRead, Reading
    <3>4. QED
      BY <2>2, <3>1, <3>2, <3>3 DEF AtSecond
  <2>4. QED
    BY <2>1, <2>3 DEF Phase
<1>8. Outcome'
  <2>1. /\ i' = i + 1 /\ buf' = Append(buf, i + 1) /\ UNCHANGED <<result, chip, call, fault>>
        /\ pc' = "second" /\ i + 1 <= call.n
    BY <1>0 DEF ThirdToLast, Store, Goto, Buses
  <2>2. buf' = Counted(i + 1) /\ Len(buf') = i + 1
    BY <1>0, <2>1, SMTT(30) DEF AtRead, Reading, Counted
  <2>3. result = "none"
    BY DEF ThirdToLast, Outcome, TypeOK
  <2>4. QED
    BY <2>1, <2>2, <2>3 DEF Outcome
<1>9. Blamed'
  BY DEF Blamed, ThirdToLast, BTC, Received, Store, Goto, Buses, Phase, Requested, AtRead,
         AtSecond, Reading, Ahead, Full, LastSent
<1>10. QED
  BY <1>1, <1>2, <1>3, <1>4, <1>5, <1>6, <1>7, <1>8, <1>9 DEF IInv, Types

LEMMA SecondToLastStep == IInv /\ SecondToLast /\ UNCHANGED Buses => IInv'
<1> SUFFICES ASSUME IInv, SecondToLast /\ UNCHANGED Buses PROVE IInv'
  OBVIOUS
<1> USE CallType DEF IInv, Types, None, PerType, States, Bytes
<1>1. PerType'
  BY DEF SecondToLast, BTC, Goto, Kept, Buses
<1>2. ChipType'
  BY DEF ChipType, SecondToLast, BTC, Goto, Kept, Buses
<1>3. TypeOK'
  BY DEF TypeOK, SecondToLast, BTC, Goto, Kept, Buses
<1>4. Purpose'
  BY DEF Purpose, SecondToLast, BTC, Goto, Kept, Buses
<1>5. Requested'
  BY DEF Requested, SecondToLast, BTC, Goto, Kept, Buses, Phase, AtSecond, AtStopped,
         Reading, LastSent
<1>6. Underway'
  BY DEF Underway, Prefix, Requested, ChipType, SecondToLast, BTC, Goto, Kept, Buses, Phase,
         AtSecond, AtStopped, Reading, LastSent
<1>7. Phase'
  BY DEF Phase, ChipType, Purpose, Requested, Address, Counted, SecondToLast, BTC, Goto,
         Kept, Buses, AtSecond, AtStopped, Reading, LastSent
<1>8. Outcome'
  BY DEF Outcome, Counted, LastSent, SecondToLast, BTC, Goto, Kept, Buses, Phase, Requested,
         AtSecond, AtStopped, Reading
<1>9. Blamed'
  BY DEF Blamed, SecondToLast, BTC, Goto, Kept, Buses, Phase, Requested, AtSecond,
         AtStopped, Reading, LastSent
<1>10. QED
  BY <1>1, <1>2, <1>3, <1>4, <1>5, <1>6, <1>7, <1>8, <1>9 DEF IInv, Types

LEMMA AfterStopStep == IInv /\ AfterStop /\ UNCHANGED Buses => IInv'
<1> SUFFICES ASSUME IInv, AfterStop /\ UNCHANGED Buses PROVE IInv'
  OBVIOUS
<1> USE CallType DEF IInv, Types, None, PerType, States, Bytes
<1>1. PerType'
  BY DEF AfterStop, Received, Store, Goto, Buses
<1>2. ChipType'
  BY DEF ChipType, AfterStop, Received, Store, Goto, Buses
<1>3. TypeOK'
  <2>1. i + 1 <= call.n
    BY DEF AfterStop, Phase, AtStopped, Reading
  <2>2. i' = i + 1 /\ call' = call
    BY DEF AfterStop, Received, Store, Buses
  <2>3. i' \in 0 .. Larger(Len(call'.wr), call'.n)
    BY <2>1, <2>2 DEF Larger
  <2>4. /\ per'.st = per.st /\ per'.dir = per.dir /\ UNCHANGED <<world, dead, held, fault>>
        /\ result' = result /\ pc' \in {"idle", "write", "sent", "read", "second", "last"}
    BY DEF AfterStop, Received, Store, Goto, Buses
  <2>5. QED
    BY <2>2, <2>3, <2>4 DEF TypeOK
<1>4. Purpose'
  BY DEF Purpose, AfterStop, Received, Store, Goto, Buses
<1>5. Requested'
  BY DEF Requested, AfterStop, Received, Store, Goto, Buses, Phase, AtStopped, AtLast,
         Reading, LastSent
<1>6. Underway'
  BY DEF Underway, Prefix, Requested, ChipType, AfterStop, Received, Store, Goto, Buses,
         Phase, AtStopped, AtLast, Reading, LastSent
<1>7. Phase'
  BY SMTT(30) DEF Phase, ChipType, Purpose, Requested, Address, Counted, AfterStop, Received, Store,
         Goto, Buses, AtStopped, AtLast, Reading, LastSent
<1>8. Outcome'
  BY DEF Outcome, Counted, LastSent, AfterStop, Received, Store, Goto, Buses, Phase,
         Requested, AtStopped, AtLast, Reading
<1>9. Blamed'
  BY DEF Blamed, AfterStop, Received, Store, Goto, Buses, Phase, Requested, AtStopped,
         AtLast, Reading, LastSent
<1>10. QED
  BY <1>1, <1>2, <1>3, <1>4, <1>5, <1>6, <1>7, <1>8, <1>9 DEF IInv, Types

LEMMA LastByteStep == IInv /\ LastByte /\ UNCHANGED Buses => IInv'
<1> SUFFICES ASSUME IInv, LastByte /\ UNCHANGED Buses PROVE IInv'
  OBVIOUS
<1> USE CallType DEF IInv, Types, None, PerType, States, Bytes
<1>1. PerType'
  BY DEF LastByte, RBNE, Received, Store, Return, Buses
<1>2. ChipType'
  BY DEF ChipType, LastByte, RBNE, Received, Store, Return, Buses
<1>3. TypeOK'
  <2>1. i + 1 <= call.n
    BY DEF LastByte, Phase, AtLast, Reading
  <2>2. i' = i + 1 /\ call' = call
    BY DEF LastByte, Received, Store, Buses
  <2>3. i' \in 0 .. Larger(Len(call'.wr), call'.n)
    BY <2>1, <2>2 DEF Larger
  <2>4. /\ per'.st = per.st /\ per'.dir = per.dir /\ UNCHANGED <<world, dead, held, fault>>
        /\ result' = "ok" /\ pc' \in {"idle", "write", "sent", "read", "second", "last"}
    BY DEF LastByte, Received, Store, Return, Buses
  <2>5. QED
    BY <2>2, <2>3, <2>4 DEF TypeOK
<1>4. Purpose'
  BY DEF Purpose, LastByte, RBNE, Received, Store, Return, Buses
<1>5. Requested'
  BY DEF Requested, LastByte, RBNE, Received, Store, Return, Buses, Phase, AtLast, Reading,
         LastSent
<1>6. Underway'
  BY DEF Underway, Prefix, Requested, ChipType, LastByte, RBNE, Received, Store, Return,
         Buses, Phase, AtLast, Reading, LastSent
<1>7. Phase'
  BY DEF Phase, ChipType, Purpose, Requested, Address, Counted, LastByte, RBNE, Received,
         Store, Return, Buses, AtLast, Reading, LastSent
<1>8. Outcome'
  BY DEF Outcome, Counted, LastSent, LastByte, RBNE, Received, Store, Return, Buses, Phase,
         Requested, AtLast, Reading
<1>9. Blamed'
  BY DEF Blamed, LastByte, RBNE, Received, Store, Return, Buses, Phase, Requested, AtLast,
         Reading, LastSent
<1>10. QED
  BY <1>1, <1>2, <1>3, <1>4, <1>5, <1>6, <1>7, <1>8, <1>9 DEF IInv, Types

LEMMA GiveUpStep == IInv /\ GiveUp /\ UNCHANGED Buses => IInv'
<1> SUFFICES ASSUME IInv, GiveUp /\ UNCHANGED Buses PROVE IInv'
  OBVIOUS
<1> USE CallType DEF IInv, Types, None, PerType, States, Bytes
<1>1. PerType'
  BY DEF GiveUp, Return, Kept, Buses
<1>2. ChipType'
  BY DEF ChipType, GiveUp, Return, Kept, Buses
<1>3. TypeOK'
  BY DEF TypeOK, GiveUp, Return, Kept, Buses
<1>4. Purpose'
  BY DEF Purpose, GiveUp, Return, Kept, Buses
<1>5. Requested'
  BY DEF Requested, GiveUp, Return, Kept, Buses
<1>6. Underway'
  BY DEF Underway, Prefix, Requested, ChipType, GiveUp, Return, Kept, Buses
<1>7. Phase'
  BY DEF Phase, ChipType, Purpose, Requested, Address, Counted, GiveUp, Return, Kept, Buses
<1>8. Outcome'
  <2>1. pc # "idle" /\ ~ Awaited /\ ~ HardwareRuns
    BY DEF GiveUp
  <2>2. SUFFICES ASSUME ~ fault PROVE FALSE
    <3>1. /\ result' = "failed" /\ pc' = "idle" /\ UNCHANGED <<buf, call, fault>>
      BY DEF GiveUp, Return, Kept, Buses
    <3>2. QED
      BY <3>1 DEF Outcome
  <2>3. ~ dead /\ ~ held /\ (pc # "busy" => per.st # "aerr" \/ pc = "start")
    BY <2>1, <2>2 DEF Blamed
  <2>4. ~ (MayStart \/ MayAddress \/ MaySend \/ MayReceive \/ MayStop)
    BY <2>1, <2>3 DEF HardwareRuns
  <2>5. CASE pc = "busy"
    BY <2>1, <2>3, <2>4, <2>5 DEF Awaited, I2CBSY, Requested, MayStop
  <2>6. CASE pc = "start"
    BY <2>1, <2>3, <2>4, <2>6 DEF Awaited, SBSEND, Phase, AtStart, Requested, MayStart
  <2>7. CASE pc \in {"address", "readdress"}
    BY <2>1, <2>3, <2>4, <2>7 DEF Awaited, ADDSEND, Phase, AtAddress, AtReaddress, MayAddress
  <2>8. CASE pc \in {"write", "sent"}
    <3>1. Writing /\ per.st = "tx"
      BY <2>3, <2>8 DEF Phase, AtWrite, AtSent, Writing
    <3>2. per.sh = None /\ per.td = None
      BY <2>4, <3>1 DEF MaySend, Underway
    <3>3. i = Len(chip.rx)
      BY <3>1, <3>2 DEF Writing, Full, ChipType
    <3>4. pc = "sent" => chip.rx # <<>>
      BY <3>3 DEF Phase, AtSent
    <3>5. QED
      BY <2>1, <2>8, <3>1, <3>2, <3>4 DEF Awaited, TBE, BTC
  <2>9. CASE pc = "restart"
    BY <2>1, <2>3, <2>4, <2>9 DEF Awaited, SBSEND, Phase, AtRestart, Requested, MayStart
  <2>10. CASE pc \in {"read", "second"}
    BY <2>1, <2>3, <2>4, <2>10, SMTT(30)
       DEF Awaited, RBNE, BTC, Phase, AtRead, AtSecond, Ahead, Requested, MayReceive, ChipType
  <2>11. CASE pc = "last"
    BY <2>1, <2>11 DEF Awaited, RBNE, Phase, AtLast
  <2>12. QED
    BY <2>1, <2>5, <2>6, <2>7, <2>8, <2>9, <2>10, <2>11 DEF Awaited, TypeOK
<1>9. Blamed'
  BY DEF Blamed, GiveUp, Return, Kept, Buses, Requested
<1>10. QED
  BY <1>1, <1>2, <1>3, <1>4, <1>5, <1>6, <1>7, <1>8, <1>9 DEF IInv, Types

-----------------------------------------------------------------------------
\* The peripheral, a byte, a START or a STOP at a time.
LEMMA StartStep == IInv /\ Start /\ ~dead /\ UNCHANGED Drivers => IInv'
<1> SUFFICES ASSUME IInv, Start /\ ~dead /\ UNCHANGED Drivers PROVE IInv'
  OBVIOUS
<1> USE CallType DEF IInv, Types, None, PerType, States, Bytes
<1>1. PerType'
  BY DEF Start, MayStart, Drivers
<1>2. ChipType'
  BY DEF ChipType, Start, MayStart, Drivers
<1>3. TypeOK'
  BY DEF TypeOK, Start, MayStart, Drivers
<1>4. Purpose'
  BY DEF Purpose, Start, MayStart, Drivers
<1>5. Requested'
  BY DEF Requested, Start, MayStart, Drivers, Phase, AtStart, AtRestart, Fresh, Unread, Turning
<1>6. Underway'
  BY DEF Underway, Prefix, Requested, ChipType, Start, MayStart, Drivers, Phase, AtStart,
         AtRestart, Fresh, Unread, Turning
<1>7. Phase'
  BY DEF Phase, ChipType, Purpose, Requested, Address, Counted, Start, MayStart, Drivers,
         AtStart, AtRestart, Fresh, Unread, Turning
<1>8. Outcome'
  BY DEF Outcome, Counted, LastSent, Start, MayStart, Drivers, Phase, Requested, AtStart,
         AtRestart, Fresh, Unread, Turning
<1>9. Blamed'
  BY DEF Blamed, Start, MayStart, Drivers, Phase, Requested, AtStart, AtRestart, Fresh,
         Unread, Turning
<1>10. QED
  BY <1>1, <1>2, <1>3, <1>4, <1>5, <1>6, <1>7, <1>8, <1>9 DEF IInv, Types

LEMMA AddressByteStep == IInv /\ AddressByte /\ ~dead /\ UNCHANGED Drivers => IInv'
<1> SUFFICES ASSUME IInv, AddressByte /\ ~dead /\ UNCHANGED Drivers PROVE IInv'
  OBVIOUS
<1> USE CallType DEF IInv, Types, None, PerType, States, Bytes
<1>1. PerType'
  BY DEF AddressByte, MayAddress, NoAnswer, Drivers
<1>2. ChipType'
  BY DEF ChipType, AddressByte, MayAddress, NoAnswer, Drivers
<1>3. TypeOK'
  BY ZenonT(60) DEF TypeOK, AddressByte, MayAddress, NoAnswer, Drivers
<1>4. Purpose'
  BY DEF Purpose, AddressByte, MayAddress, NoAnswer, Drivers
<1>5. Requested'
  BY DEF Requested, AddressByte, MayAddress, NoAnswer, Drivers
<1>6. Underway'
  BY DEF Underway, Prefix, Requested, ChipType, AddressByte, MayAddress, NoAnswer, Drivers
<1>7. Phase'
  BY DEF Phase, ChipType, Purpose, Requested, Address, Counted, AddressByte, MayAddress,
         NoAnswer, Drivers, AtStart, AtAddress, AtWrite, AtSent, AtRestart, AtReaddress,
         AtRead, AtSecond, AtStopped, AtLast, Fresh, Unread, Writing, Full, Turning,
         Reading, Ahead, LastSent
<1>8. Outcome'
  BY DEF Outcome, Counted, LastSent, AddressByte, MayAddress, NoAnswer, Drivers, Requested
<1>9. Blamed'
  BY DEF Blamed, AddressByte, MayAddress, NoAnswer, Drivers, Requested
<1>10. QED
  BY <1>1, <1>2, <1>3, <1>4, <1>5, <1>6, <1>7, <1>8, <1>9 DEF IInv, Types

LEMMA SendByteStep == IInv /\ SendByte /\ ~dead /\ UNCHANGED Drivers => IInv'
<1> SUFFICES ASSUME IInv, SendByte /\ ~dead /\ UNCHANGED Drivers PROVE IInv'
  OBVIOUS
<1> USE CallType DEF IInv, Types, None, PerType, States, Bytes
<1>0. /\ per.st = "tx" /\ per.sh # None /\ UNCHANGED <<world, dead, held, pc, call, i, buf, result>>
      /\ pc \in {"idle", "busy", "write", "sent"}
      /\ \/ /\ chip' = [chip EXCEPT !.rx = Append(@, per.sh)]
            /\ per' = [per EXCEPT !.sh = per.td, !.td = None] /\ fault' = fault
         \/ /\ per' = [per EXCEPT !.st = "aerr", !.sh = None] /\ fault' = TRUE /\ chip' = chip
  <2>1. per.st = "tx" /\ per.sh # None
    BY DEF SendByte, MaySend
  <2>2. pc \in {"idle", "busy", "write", "sent"}
    BY <2>1
      DEF Phase, AtStart, AtAddress, AtRestart, AtReaddress, AtRead, AtSecond, AtStopped,
          AtLast, TypeOK
  <2>3. QED
    BY <2>1, <2>2 DEF SendByte, NoAnswer, Drivers
<1>1. PerType'
  BY DEF SendByte, MaySend, NoAnswer, Drivers
<1>2. ChipType'
  <2>1. per.sh \in Nat
    BY <1>0
  <2>2. chip.rx \in Seq(Nat)
    BY DEF ChipType
  <2>3. Append(chip.rx, per.sh) \in Seq(Nat)
    BY <2>1, <2>2
  <2>4. chip' = chip \/ chip' = [chip EXCEPT !.rx = Append(chip.rx, per.sh)]
    BY <1>0
  <2>5. QED
    BY <2>3, <2>4 DEF ChipType
<1>3. TypeOK'
  BY ZenonT(60) DEF TypeOK, SendByte, MaySend, NoAnswer, Drivers
<1>4. Purpose'
  BY DEF Purpose, SendByte, MaySend, NoAnswer, Drivers
<1>5. Requested'
  BY <1>0 DEF Requested
<1>6. Underway'
  <2>1. CASE per' = [per EXCEPT !.st = "aerr", !.sh = None] /\ chip' = chip
    <3>1. per'.st # "tx"
      BY <2>1
    <3>2. QED
      BY <2>1, <3>1 DEF Underway
  <2>2. CASE chip' = [chip EXCEPT !.rx = Append(@, per.sh)] /\ per' = [per EXCEPT !.sh = per.td, !.td = None]
    <3>1. chip'.rx = Append(chip.rx, per.sh) /\ chip'.due = chip.due /\ Len(chip'.rx) = Len(chip.rx) + 1
      BY <2>2 DEF ChipType
    <3>2. Prefix(chip'.rx, chip'.due)
      BY <1>0, <3>1, SMTT(30) DEF Underway, Prefix, ChipType
    <3>3. per'.sh = per.td /\ per'.td = None
      BY <2>2
    <3>4. QED
      BY <1>0, <3>1, <3>2, <3>3 DEF Underway, ChipType
  <2>3. QED
    BY <1>0, <2>1, <2>2
<1>7. Phase'
  <2>1. CASE pc \in {"idle", "busy"}
    BY <1>0, <2>1 DEF Phase
  <2>2. CASE pc \in {"write", "sent"}
    <3>1. Writing
      BY <2>2 DEF Phase, AtWrite, AtSent
    <3>2. ASSUME per'.st = "aerr" PROVE Writing'
      BY <1>0, <3>1, <3>2 DEF Writing, Unread, ChipType
    <3>5. ASSUME per'.st # "aerr" PROVE Writing'
      <4>1. /\ per'.st = "tx" /\ per'.sh = per.td /\ per'.td = None /\ per'.rd = per.rd
            /\ chip' = [chip EXCEPT !.rx = Append(chip.rx, per.sh)]
        BY <1>0, <3>5
      <4>2. /\ Len(chip'.rx) = Len(chip.rx) + 1 /\ Len(chip.rx) \in Nat
            /\ chip'.sent = chip.sent /\ chip'.nack = chip.nack /\ chip'.due = chip.due
        BY <4>1 DEF ChipType
      <4>3. i' = Len(chip'.rx) + Full(per'.sh) + Full(per'.td)
        BY <1>0, <3>1, <4>1, <4>2 DEF Writing, Full
      <4>4. QED
        BY <1>0, <3>1, <4>1, <4>2, <4>3 DEF Writing, Unread
    <3>3. Writing'
      BY <3>2, <3>5
    <3>4. QED
      BY <1>0, <2>2, <3>3 DEF Phase, AtWrite, AtSent
  <2>3. QED
    BY <1>0, <2>1, <2>2
<1>8. Outcome'
  <2>1. result # "ok"
    BY <1>0 DEF Outcome
  <2>2. QED
    BY <1>0, <2>1 DEF Outcome
<1>9. Blamed'
  <2>1. per'.st = "aerr" => fault'
    BY <1>0
  <2>2. fault => fault'
    BY <1>0
  <2>3. QED
    BY <1>0, <2>1, <2>2 DEF Blamed
<1>10. QED
  BY <1>1, <1>2, <1>3, <1>4, <1>5, <1>6, <1>7, <1>8, <1>9 DEF IInv, Types

LEMMA ReceiveByteStep == IInv /\ ReceiveByte /\ ~dead /\ UNCHANGED Drivers => IInv'
<1> SUFFICES ASSUME IInv, ReceiveByte /\ ~dead /\ UNCHANGED Drivers PROVE IInv'
  OBVIOUS
<1> USE CallType DEF IInv, Types, None, PerType, States, Bytes
<1> DEFINE byte == IF chip.nack THEN 255 ELSE IF chip.rx # Address THEN 0 ELSE chip.sent + 1
<1>0. /\ per.st = "rx" /\ per.sh = None /\ ~ per.stop /\ byte \in Nat
      /\ UNCHANGED <<world, dead, held, pc, call, i, buf, result, fault>>
      /\ pc \in {"read", "second"}
      /\ per' = IF per.rd = None THEN [per EXCEPT !.rd = byte] ELSE [per EXCEPT !.sh = byte]
      /\ chip' = IF chip.nack THEN chip ELSE [chip EXCEPT !.sent = @ + 1, !.nack = ~per.ack]
  <2>1. per.st = "rx" /\ per.sh = None /\ ~ per.stop
    BY DEF ReceiveByte, MayReceive
  <2>2. pc \in {"read", "second"}
    BY <2>1
      DEF Requested, Phase, AtStart, AtAddress, AtWrite, AtSent, Writing, AtRestart,
          AtReaddress, TypeOK
  <2>3. byte \in Nat
    BY DEF ChipType
  <2>4. QED
    BY <2>1, <2>2, <2>3 DEF ReceiveByte, Drivers
<1> HIDE DEF byte
<1>1. PerType'
  BY <1>0
<1>2. ChipType'
  <2>1. CASE chip.nack
    BY <1>0, <2>1 DEF ChipType
  <2>2. CASE ~ chip.nack
    <3>1. (~ per.ack) = TRUE \/ (~ per.ack) = FALSE
      BY Zenon
    <3>2. chip' = [chip EXCEPT !.sent = @ + 1, !.nack = TRUE] \/ chip' = [chip EXCEPT !.sent = @ + 1, !.nack = FALSE]
      BY <1>0, <2>2, <3>1, Zenon
    <3>3. chip.sent + 1 \in Nat
      BY DEF ChipType
    <3>4. CASE chip' = [chip EXCEPT !.sent = @ + 1, !.nack = TRUE]
      BY <3>3, <3>4 DEF ChipType
    <3>5. CASE chip' = [chip EXCEPT !.sent = @ + 1, !.nack = FALSE]
      BY <3>3, <3>5 DEF ChipType
    <3>6. QED
      BY <3>2, <3>4, <3>5
  <2>3. QED
    BY <2>1, <2>2
<1>3. TypeOK'
  BY DEF TypeOK, ReceiveByte, MayReceive, Drivers
<1>4. Purpose'
  BY DEF Purpose, ReceiveByte, MayReceive, Drivers
<1>5. Requested'
  BY DEF Requested, ReceiveByte, MayReceive, Drivers
<1>6. Underway'
  BY DEF Underway, Prefix, Requested, ChipType, ReceiveByte, MayReceive, Drivers
<1>7. Phase'
  <2>1. CASE pc = "read"
    <3>1. AtRead /\ byte = chip.sent + 1
      BY <2>1 DEF Phase, AtRead, Reading, byte
    <3>2. /\ chip'.sent = chip.sent + 1 /\ ~ chip'.nack /\ chip'.rx = chip.rx
      BY <1>0, <3>1 DEF AtRead, ChipType
    <3>3. CASE per.rd = None
      <4>1. per'.rd = byte /\ per'.sh = None /\ per'.st = "rx" /\ per'.ack = per.ack
        BY <1>0, <3>3
      <4>2. Ahead'
        BY <1>0, <3>1, <3>2, <3>3, <4>1 DEF Ahead, AtRead, Full, ChipType
      <4>3. QED
        BY <1>0, <2>1, <3>1, <3>2, <4>1, <4>2 DEF Phase, AtRead, Reading
    <3>4. CASE per.rd # None
      <4>1. per'.rd = per.rd /\ per'.sh = byte /\ per'.st = "rx" /\ per'.ack = per.ack
        BY <1>0, <3>4
      <4>2. Ahead'
        BY <1>0, <3>1, <3>2, <3>4, <4>1, SMTT(30) DEF Ahead, AtRead, Full, ChipType
      <4>3. QED
        BY <1>0, <2>1, <3>1, <3>2, <4>1, <4>2 DEF Phase, AtRead, Reading
    <3>5. QED
      BY <3>3, <3>4
  <2>2. CASE pc = "second"
    <3>1. /\ AtSecond /\ chip.sent = i + 1 /\ ~ chip.nack /\ byte = i + 2 /\ per.rd # None
      BY <1>0, <2>2 DEF Phase, AtSecond, Reading, byte
    <3>2. /\ chip'.sent = i + 2 /\ chip'.nack /\ chip'.rx = chip.rx
      <4>1. chip' = [chip EXCEPT !.sent = @ + 1, !.nack = ~per.ack]
        BY <1>0, <3>1
      <4>2. (~ per.ack) = TRUE
        BY <3>1, Zenon DEF AtSecond
      <4>3. chip' = [chip EXCEPT !.sent = @ + 1, !.nack = TRUE]
        BY <4>1, <4>2, Zenon
      <4>4. QED
        BY <3>1, <4>3 DEF AtSecond, ChipType
    <3>3. per'.rd = per.rd /\ per'.sh = byte /\ per'.st = "rx" /\ per'.ack = per.ack
      BY <1>0, <3>1
    <3>4. QED
      BY <1>0, <2>2, <3>1, <3>2, <3>3 DEF Phase, AtSecond, Reading, LastSent
  <2>3. QED
    BY <1>0, <2>1, <2>2
<1>8. Outcome'
  BY DEF Outcome, Counted, LastSent, ReceiveByte, MayReceive, Drivers, Requested
<1>9. Blamed'
  BY DEF Blamed, ReceiveByte, MayReceive, Drivers, Requested
<1>10. QED
  BY <1>1, <1>2, <1>3, <1>4, <1>5, <1>6, <1>7, <1>8, <1>9 DEF IInv, Types

LEMMA StopStep == IInv /\ Stop /\ ~dead /\ UNCHANGED Drivers => IInv'
<1> SUFFICES ASSUME IInv, Stop /\ ~dead /\ UNCHANGED Drivers PROVE IInv'
  OBVIOUS
<1> USE CallType DEF IInv, Types, None, PerType, States, Bytes
<1>1. PerType'
  BY DEF Stop, MayStop, MaySend, Drivers
<1>2. ChipType'
  BY DEF ChipType, Stop, MayStop, MaySend, Drivers
<1>3. TypeOK'
  BY DEF TypeOK, Stop, MayStop, MaySend, Drivers
<1>4. Purpose'
  BY DEF Purpose, Stop, MayStop, MaySend, Drivers
<1>5. Requested'
  BY DEF Requested, Stop, MayStop, MaySend, Drivers
<1>6. Underway'
  BY DEF Underway, Prefix, Requested, ChipType, Stop, MayStop, MaySend, Drivers
<1>7. Phase'
  BY DEF Phase, ChipType, Purpose, Requested, Address, Counted, Stop, MayStop, MaySend,
         Drivers, AtStart, AtAddress, AtWrite, AtSent, AtRestart, AtReaddress, AtRead,
         AtSecond, AtStopped, AtLast, Fresh, Unread, Writing, Full, Turning, Reading, Ahead,
         LastSent
<1>8. Outcome'
  BY DEF Outcome, Counted, LastSent, Stop, MayStop, MaySend, Drivers, Requested
<1>9. Blamed'
  BY DEF Blamed, Stop, MayStop, MaySend, Drivers, Requested
<1>10. QED
  BY <1>1, <1>2, <1>3, <1>4, <1>5, <1>6, <1>7, <1>8, <1>9 DEF IInv, Types

-----------------------------------------------------------------------------
\* Faults.
LEMMA DieStep == IInv /\ Die => IInv'
<1> SUFFICES ASSUME IInv, Die PROVE IInv'
  OBVIOUS
<1> USE CallType DEF IInv, Types, None, PerType, States, Bytes
<1>1. PerType'
  BY DEF Die
<1>2. ChipType'
  BY DEF ChipType, Die
<1>3. TypeOK'
  BY DEF TypeOK, Die
<1>4. Purpose'
  BY DEF Purpose, Die
<1>5. Requested'
  BY DEF Requested, Die
<1>6. Underway'
  BY DEF Underway, Prefix, Requested, ChipType, Die
<1>7. Phase'
  <2>1. UNCHANGED <<per, chip, pc, call, i, buf>>
    BY DEF Die
  <2>2. QED
    BY <2>1
      DEF Phase, AtStart, AtAddress, AtWrite, AtSent, AtRestart, AtReaddress, AtRead,
          AtSecond, AtStopped, AtLast, Unread, Fresh, Writing, Turning, Reading, Ahead,
          LastSent
<1>8. Outcome'
  BY DEF Outcome, Counted, LastSent, Die, Requested
<1>9. Blamed'
  BY DEF Blamed, Die, Requested
<1>10. QED
  BY <1>1, <1>2, <1>3, <1>4, <1>5, <1>6, <1>7, <1>8, <1>9 DEF IInv, Types

LEMMA HealStep == IInv /\ Heal => IInv'
<1> SUFFICES ASSUME IInv, Heal PROVE IInv'
  OBVIOUS
<1> USE CallType DEF IInv, Types, None, PerType, States, Bytes
<1>1. PerType'
  BY DEF Heal
<1>2. ChipType'
  BY DEF ChipType, Heal
<1>3. TypeOK'
  <2>1. UNCHANGED <<world, per, held, pc, call, i, result, fault>> /\ dead' \in BOOLEAN
    BY DEF Heal
  <2>2. QED
    BY <2>1 DEF TypeOK
<1>4. Purpose'
  BY DEF Purpose, Heal
<1>5. Requested'
  BY DEF Requested, Heal
<1>6. Underway'
  BY DEF Underway, Prefix, Requested, ChipType, Heal
<1>7. Phase'
  <2>1. UNCHANGED <<per, chip, pc, call, i, buf>>
    BY DEF Heal
  <2>2. QED
    BY <2>1
      DEF Phase, AtStart, AtAddress, AtWrite, AtSent, AtRestart, AtReaddress, AtRead,
          AtSecond, AtStopped, AtLast, Unread, Fresh, Writing, Turning, Reading, Ahead,
          LastSent
<1>8. Outcome'
  BY DEF Outcome, Counted, LastSent, Heal, Requested
<1>9. Blamed'
  BY DEF Blamed, Heal, Requested
<1>10. QED
  BY <1>1, <1>2, <1>3, <1>4, <1>5, <1>6, <1>7, <1>8, <1>9 DEF IInv, Types

LEMMA ResetStep == IInv /\ Reset => IInv'
<1> SUFFICES ASSUME IInv, Reset PROVE IInv'
  OBVIOUS
<1> USE CallType DEF IInv, Types, None, PerType, States, Bytes
<1>1. PerType'
  BY DEF Reset, i2c1_init, Idle
<1>2. ChipType'
  BY DEF ChipType, Reset, i2c1_init, Idle
<1>3. TypeOK'
  <2>1. call' = [wr |-> Address, n |-> 0] /\ i' = 0 /\ pc' = "idle" /\ result' = "none"
    BY DEF Reset, Idle
  <2>2. i' \in 0 .. Larger(Len(call'.wr), call'.n)
    BY <2>1, AddressType DEF Larger
  <2>3. /\ world' = world /\ dead' = dead /\ per'.st = "idle" /\ per'.dir = "tx"
        /\ held' \in BOOLEAN /\ fault' \in BOOLEAN
    BY DEF TypeOK, Reset, i2c1_init
  <2>4. call' \in [wr : Payloads \cup {Address}, n : ReadLengths \cup {0}]
    BY <2>1
  <2>5. QED
    BY <2>1, <2>2, <2>3, <2>4 DEF TypeOK
<1>4. Purpose'
  BY DEF Purpose, Reset, i2c1_init, Idle
<1>5. Requested'
  BY DEF Requested, Reset, i2c1_init, Idle
<1>6. Underway'
  BY DEF Underway, Prefix, Requested, ChipType, Reset, i2c1_init, Idle
<1>7. Phase'
  BY DEF Phase, ChipType, Purpose, Requested, Address, Counted, Reset, i2c1_init, Idle
<1>8. Outcome'
  BY DEF Outcome, Counted, LastSent, Reset, i2c1_init, Idle, Requested
<1>9. Blamed'
  BY DEF Blamed, Reset, i2c1_init, Idle, Requested
<1>10. QED
  BY <1>1, <1>2, <1>3, <1>4, <1>5, <1>6, <1>7, <1>8, <1>9 DEF IInv, Types

LEMMA PowerCycleStep == IInv /\ PowerCycle => IInv'
<1> SUFFICES ASSUME IInv, PowerCycle PROVE IInv'
  OBVIOUS
<1> USE CallType DEF IInv, Types, None, PerType, States, Bytes
<1>1. PerType'
  BY DEF PowerCycle, i2c1_init, Idle
<1>2. ChipType'
  BY DEF ChipType, PowerCycle, i2c1_init, Idle
<1>3. TypeOK'
  <2>1. call' = [wr |-> Address, n |-> 0] /\ i' = 0 /\ pc' = "idle" /\ result' = "none"
    BY DEF PowerCycle, Idle
  <2>2. i' \in 0 .. Larger(Len(call'.wr), call'.n)
    BY <2>1, AddressType DEF Larger
  <2>3. /\ world' = world /\ dead' = dead /\ per'.st = "idle" /\ per'.dir = "tx"
        /\ held' \in BOOLEAN /\ fault' \in BOOLEAN
    BY DEF TypeOK, PowerCycle, i2c1_init
  <2>4. call' \in [wr : Payloads \cup {Address}, n : ReadLengths \cup {0}]
    BY <2>1
  <2>5. QED
    BY <2>1, <2>2, <2>3, <2>4 DEF TypeOK
<1>4. Purpose'
  BY DEF Purpose, PowerCycle, i2c1_init, Idle
<1>5. Requested'
  BY DEF Requested, PowerCycle, i2c1_init, Idle
<1>6. Underway'
  BY DEF Underway, Prefix, Requested, ChipType, PowerCycle, i2c1_init, Idle
<1>7. Phase'
  BY DEF Phase, ChipType, Purpose, Requested, Address, Counted, PowerCycle, i2c1_init, Idle
<1>8. Outcome'
  BY DEF Outcome, Counted, LastSent, PowerCycle, i2c1_init, Idle, Requested
<1>9. Blamed'
  BY DEF Blamed, PowerCycle, i2c1_init, Idle, Requested
<1>10. QED
  BY <1>1, <1>2, <1>3, <1>4, <1>5, <1>6, <1>7, <1>8, <1>9 DEF IInv, Types

-----------------------------------------------------------------------------
LEMMA InitIInv == Init => IInv
<1> SUFFICES ASSUME Init PROVE IInv
  OBVIOUS
<1>1. PerType /\ ChipType /\ Purpose
  BY DEF Init, i2c1_init, Idle, PerType, States, Bytes, None, ChipType, Purpose
<1>2. TypeOK
  <2>1. i \in 0 .. Larger(Len(call.wr), call.n)
    BY AddressType DEF Init, Idle, Larger
  <2>2. call \in [wr : Payloads \cup {Address}, n : ReadLengths \cup {0}]
    BY DEF Init, Idle
  <2>3. QED
    BY <2>1, <2>2 DEF Init, i2c1_init, TypeOK
<1>3. Requested /\ Underway /\ Phase /\ Blamed
  BY DEF Init, i2c1_init, Requested, Underway, Prefix, Phase, Blamed, None
<1>4. Outcome
  <2>1. Len(buf) = 0 /\ buf = Counted(0) /\ call.n = 0 /\ result = "none"
    BY DEF Init, Idle, Counted
  <2>2. QED
    BY <2>1 DEF Outcome
<1>5. QED
  BY <1>1, <1>2, <1>3, <1>4 DEF IInv, Types

LEMMA StepIInv == IInv /\ [Next]_vars => IInv'
<1> SUFFICES ASSUME IInv, [Next]_vars PROVE IInv'
  OBVIOUS
<1>1. CASE Driver
  BY <1>1, WaitFreeStep, SendWStep, ClearWStep, WriteByteStep, SentStep, SendRStep, ClearRStep,
     ReadByteStep, ThirdToLastStep, SecondToLastStep, AfterStopStep, LastByteStep, GiveUpStep
     DEF Driver
<1>2. CASE Hardware
  BY <1>2, StartStep, AddressByteStep, SendByteStep, ReceiveByteStep, StopStep DEF Hardware
<1>3. CASE UNCHANGED vars
  <2>1. Types'
    BY <1>3 DEF vars, IInv, Types, PerType, ChipType, TypeOK, Purpose
  <2>2. Requested' /\ Underway' /\ Outcome' /\ Blamed'
    BY <1>3 DEF vars, IInv, Requested, Underway, Prefix, Outcome, LastSent, Counted, Blamed
  <2>3. Phase'
    BY <1>3 DEF vars, IInv, Phase, AtStart, AtAddress, AtWrite, AtSent, AtRestart, AtReaddress,
                AtRead, AtSecond, AtStopped, AtLast, Unread, Fresh, Writing, Turning, Reading,
                Ahead, LastSent
  <2>4. QED
    BY <2>1, <2>2, <2>3 DEF IInv
<1>4. QED
  BY <1>1, <1>2, <1>3, CallStep, DieStep, HealStep, ResetStep, PowerCycleStep DEF Next

\* The bytes that are exact one by one are exact as sequences.
LEMMA PrefixIsPrefix ==
  ASSUME NEW s \in Seq(Nat), NEW t \in Seq(Nat), Prefix(s, t)
  PROVE  IsPrefix(s, t)
  BY DEF Prefix, IsPrefix

\* A transfer that returned 0 was exact and one that failed has a fault on the
\* bus to blame, for every payload and every number of bytes to read, wherever
\* the call before ended and whatever it left in the peripheral.
THEOREM TransfersAreExact == Spec => []TransfersExact
<1>1. IInv => TransfersExact
  <2> SUFFICES ASSUME IInv PROVE TransfersExact
    OBVIOUS
  <2>1. IsPrefix(chip.rx, chip.due)
    BY PrefixIsPrefix DEF IInv, Types, ChipType, Underway
  <2>2. IsPrefix(buf, Counted(call.n))
    <3>1. /\ buf = Counted(Len(buf)) /\ Len(buf) <= call.n
      BY DEF IInv, Outcome
    <3>2. Len(buf) \in Nat /\ call.n \in Nat
      <4>1. call.n \in Nat
        BY CallType DEF IInv, Types
      <4>2. \A k : Counted(k) \in [1 .. k -> Int]
        BY DEF Counted
      <4>3. QED
        BY <3>1, <4>1, <4>2
    <3>3. /\ Counted(Len(buf)) \in Seq(Nat) /\ Counted(call.n) \in Seq(Nat)
          /\ Len(Counted(Len(buf))) = Len(buf) /\ Len(Counted(call.n)) = call.n
      BY <3>2 DEF Counted
    <3>4. Prefix(Counted(Len(buf)), Counted(call.n))
      BY <3>1, <3>2, <3>3 DEF Prefix, Counted
    <3>5. QED
      BY <3>1, <3>3, <3>4, PrefixIsPrefix
  <2>3. QED
    BY <2>1, <2>2 DEF TransfersExact, IInv, Types, Outcome, LastSent
<1>2. QED
  BY <1>1, InitIInv, StepIInv, PTL DEF Spec
-----------------------------------------------------------------------------
(***************************************************************************)
(* Numbers and folds.  The set of numbers at which a fact holds is all of  *)
(* Nat when it has 0 and goes on: a set of numbers that fails has a least  *)
(* one, because the intervals 0 .. n are well founded by inclusion.        *)
(***************************************************************************)
LEMMA LeastNumber ==
  ASSUME NEW T \in SUBSET Nat, T # {}
  PROVE  \E m \in T : \A n \in T : m <= n
<1> DEFINE Below == {0 .. n : n \in T}
<1>1. IsWellFoundedOn(StrictSubsetOrdering(Nat), FiniteSubsetsOf(Nat))
  BY FS_StrictSubsetOrderingWellFounded
<1>2. Below \subseteq FiniteSubsetsOf(Nat) /\ Below # {}
  <2>1. \A n \in T : IsFiniteSet(0 .. n) /\ 0 .. n \subseteq Nat
    BY FS_Interval
  <2>2. QED
    BY <2>1 DEF FiniteSubsetsOf
<1>3. PICK x \in Below : \A y \in Below : <<y, x>> \notin StrictSubsetOrdering(Nat)
  <2> HIDE DEF Below
  <2>1. QED
    BY <1>1, <1>2, WFMin
<1>4. PICK m \in T : x = 0 .. m
  OBVIOUS
<1>5. ASSUME NEW n \in T, n < m
      PROVE  FALSE
  <2>1. 0 .. n \subseteq Nat /\ 0 .. m \subseteq Nat /\ 0 .. n \subseteq 0 .. m /\ 0 .. n # 0 .. m
    BY <1>5
  <2>2. <<0 .. n, 0 .. m>> \in StrictSubsetOrdering(Nat)
    BY <2>1 DEF StrictSubsetOrdering
  <2>3. QED
    BY <1>3, <1>4, <2>2
<1>6. QED
  BY <1>5

(* A set that has 0, and n + 1 with every n, has every number.             *)
LEMMA Induction ==
  ASSUME NEW T, 0 \in T, \A n \in Nat : n \in T => n + 1 \in T
  PROVE  Nat \subseteq T
<1> SUFFICES ASSUME Nat \ T # {} PROVE FALSE
  OBVIOUS
<1>1. PICK m \in Nat \ T : \A n \in Nat \ T : m <= n
  BY LeastNumber
<1>2. m - 1 \in Nat /\ m - 1 \in T
  BY <1>1
<1>3. QED
  BY <1>1, <1>2
(* A function may be defined on 0 .. n by its value at 0 and how each next *)
(* one follows.                                                            *)
Follows(f, a, h, m) == f[0] = a /\ \A k \in 1 .. m : f[k] = h[k][f[k - 1]]

(* A function of numbers may be defined by its first value and how each    *)
(* next one follows.                                                       *)
LEMMA Recursion ==
  ASSUME NEW T, NEW a \in T, NEW n \in Nat, NEW h \in [1 .. n -> [T -> T]]
  PROVE  \E f \in [0 .. n -> T] : Follows(f, a, h, n)
<1> DEFINE Partly(m) == \E f \in [0 .. m -> T] : Follows(f, a, h, m)
           S == {m \in Nat : m <= n => Partly(m)}
<1>1. Partly(0)
  <2> DEFINE f == [k \in 0 .. 0 |-> a]
  <2>1. f \in [0 .. 0 -> T] /\ Follows(f, a, h, 0)
    BY DEF Follows
  <2> QED BY <2>1
<1>2. ASSUME NEW m \in Nat, m < n, Partly(m) PROVE Partly(m + 1)
  <2>1. PICK f \in [0 .. m -> T] : Follows(f, a, h, m)
    BY <1>2
  <2> DEFINE last == h[m + 1][f[m]]
             g == [k \in 0 .. m + 1 |-> IF k = m + 1 THEN last ELSE f[k]]
  <2>2. last \in T
    <3>1. h[m + 1] \in [T -> T] /\ f[m] \in T
      BY <1>2
    <3> QED BY <3>1
  <2>3. g[0] = a
    BY <2>1 DEF Follows
  <2>4. g \in [0 .. m + 1 -> T]
    <3> HIDE DEF last
    <3> QED BY <2>2
  <2>5. ASSUME NEW k \in 1 .. m + 1
        PROVE  g[k] = h[k][g[k - 1]]
    <3>1. CASE k = m + 1
      BY <3>1
    <3>2. CASE k < m + 1
      <4>1. k \in 1 .. m /\ k - 1 \in 0 .. m /\ k \in 0 .. m
        BY <3>2
      <4>2. f[k] = h[k][f[k - 1]]
        BY <2>1, <4>1 DEF Follows
      <4>3. g[k] = f[k] /\ g[k - 1] = f[k - 1]
        <5> HIDE DEF last
        <5> QED BY <4>1
      <4> HIDE DEF g
      <4> QED BY <4>2, <4>3
    <3> QED BY <3>1, <3>2
  <2> HIDE DEF g
  <2>6. Follows(g, a, h, m + 1)
    BY <2>3, <2>5 DEF Follows
  <2> QED BY <2>4, <2>6
<1> HIDE DEF Partly
<1>3. 0 \in S /\ \A m \in Nat : m \in S => m + 1 \in S
  BY <1>1, <1>2
<1>4. Nat \subseteq S
  <2> HIDE DEF S
  <2> QED BY <1>3, Induction
<1>5. Partly(n)
  BY <1>4
<1> QED BY <1>5 DEF Partly

(***************************************************************************)
(* FlattenSeq adds one sequence after the other.                           *)
(***************************************************************************)
LEMMA FlattenSeqIs ==
  ASSUME NEW seqs, Len(seqs) # 0
  PROVE  FlattenSeq(seqs) =
           (CHOOSE f : f = [k \in 1 .. Len(seqs) |->
                              IF k = 1 THEN seqs[k] ELSE f[k - 1] \o seqs[k]])[Len(seqs)]
BY Zenon DEF FlattenSeq

(* FlattenSeq, one sequence at a time.                                     *)
LEMMA FlattenSeqSteps ==
  ASSUME NEW B, NEW seqs \in Seq(Seq(B))
  PROVE  \E f \in [0 .. Len(seqs) -> Seq(B)] :
           /\ f[0] = << >>
           /\ \A k \in 1 .. Len(seqs) : f[k] = f[k - 1] \o seqs[k]
           /\ FlattenSeq(seqs) = f[Len(seqs)]
<1> DEFINE n == Len(seqs)
           h == [k \in 1 .. n |-> [x \in Seq(B) |-> x \o seqs[k]]]
<1>1. n \in Nat /\ << >> \in Seq(B) /\ \A k \in 1 .. n : seqs[k] \in Seq(B)
  OBVIOUS
<1>2. h \in [1 .. n -> [Seq(B) -> Seq(B)]]
  BY <1>1
<1>3. PICK f \in [0 .. n -> Seq(B)] : Follows(f, << >>, h, n)
  <2> HIDE DEF h, n
  <2> QED BY <1>1, <1>2, Recursion
<1>4. \A k \in 1 .. n : f[k - 1] \in Seq(B) /\ f[k] = f[k - 1] \o seqs[k]
  <2> SUFFICES ASSUME NEW k \in 1 .. n PROVE f[k - 1] \in Seq(B) /\ f[k] = f[k - 1] \o seqs[k]
    OBVIOUS
  <2>1. k - 1 \in 0 .. n
    BY <1>1
  <2>2. f[k - 1] \in Seq(B) /\ f[k] = h[k][f[k - 1]]
    BY <1>3, <2>1 DEF Follows
  <2> QED BY <2>2
<1>5. f[0] = << >>
  BY <1>3 DEF Follows
<1>6. FlattenSeq(seqs) = f[n]
  <2>1. CASE n = 0
    <3>1. seqs = << >>
      BY <2>1
    <3> QED BY <1>5, <2>1, <3>1 DEF FlattenSeq
  <2>2. CASE n # 0
    <3> DEFINE Is(g) == g = [k \in 1 .. n |-> IF k = 1 THEN seqs[k] ELSE g[k - 1] \o seqs[k]]
               g == [k \in 1 .. n |-> f[k]]
               flatten == CHOOSE e : Is(e)
    <3>1. ASSUME NEW k \in 1 .. n
          PROVE  g[k] = IF k = 1 THEN seqs[k] ELSE g[k - 1] \o seqs[k]
      <4>1. CASE k = 1
        <5>1. 1 \in 1 .. n /\ g[1] = f[1] /\ seqs[1] \in Seq(B)
          BY <1>1, <4>1
        <5>2. f[1] = f[1 - 1] \o seqs[1]
          BY Zenon, <1>4, <5>1
        <5>3. 1 - 1 = 0
          OBVIOUS
        <5>4. << >> \o seqs[1] = seqs[1]
          BY <5>1
        <5> QED BY <1>5, <4>1, <5>1, <5>2, <5>3, <5>4
      <4>2. CASE k # 1
        <5>1. k - 1 \in 1 .. n
          BY <1>1, <4>2
        <5>2. g[k - 1] = f[k - 1] /\ g[k] = f[k]
          BY <5>1
        <5> QED BY <1>4, <4>2, <5>2
      <4> QED BY <4>1, <4>2
    <3>2. Is(g)
      BY <3>1
    <3>3. FlattenSeq(seqs) = flatten[n]
      BY <2>2, FlattenSeqIs
    <3>4. Is(flatten)
      <4> HIDE DEF Is
      <4> QED BY <3>2
    <3> HIDE DEF flatten, g
    <3>5. \A k \in 1 .. n : flatten[k] = IF k = 1 THEN seqs[k] ELSE flatten[k - 1] \o seqs[k]
      BY <3>4
    <3> DEFINE S == {m \in Nat : m + 1 \in 1 .. n => flatten[m + 1] = g[m + 1]}
    <3>6. 0 \in S
      BY <1>1, <3>1, <3>5
    <3>7. ASSUME NEW m \in Nat, m \in S PROVE m + 1 \in S
      <4>1. CASE m + 2 \in 1 .. n
        <5>1. m + 1 \in 1 .. n /\ (m + 2) - 1 = m + 1 /\ m + 2 # 1
          BY <1>1, <4>1
        <5>2. flatten[m + 1] = g[m + 1]
          BY <3>7, <5>1
        <5>3. /\ flatten[m + 2] = flatten[m + 1] \o seqs[m + 2]
              /\ g[m + 2] = g[m + 1] \o seqs[m + 2]
          BY <3>1, <3>5, <4>1, <5>1
        <5>4. flatten[m + 2] = g[m + 2] /\ (m + 1) + 1 = m + 2
          BY <5>2, <5>3
        <5> QED BY <5>4
      <4>2. CASE m + 2 \notin 1 .. n
        BY <4>2
      <4> QED BY <4>1, <4>2
    <3>8. flatten[n] = g[n]
      <4>1. Nat \subseteq S
        <5> HIDE DEF S
        <5> QED BY <3>6, <3>7, Induction
      <4>2. n - 1 \in Nat /\ (n - 1) + 1 = n /\ n \in 1 .. n
        BY <1>1, <2>2
      <4>3. n - 1 \in S
        <5> HIDE DEF S, n
        <5> QED BY <4>1, <4>2
      <4> QED BY <4>2, <4>3
    <3> QED BY <1>1, <2>2, <3>3, <3>8 DEF g
  <2> QED BY <2>1, <2>2
<1> QED BY <1>3, <1>4, <1>5, <1>6

(* Every element of flat is one of a block, and the blocks follow each     *)
(* other: block j begins after at[j - 1].                                  *)
Blocks(flat, seqs, at) ==
  /\ at \in [0 .. Len(seqs) -> Nat]
  /\ at[0] = 0
  /\ \A j \in 1 .. Len(seqs) : at[j] = at[j - 1] + Len(seqs[j])
  /\ Len(flat) = at[Len(seqs)]
  /\ \A j \in 1 .. Len(seqs) : \A x \in 1 .. Len(seqs[j]) :
       at[j - 1] + x \in 1 .. at[Len(seqs)] /\ flat[at[j - 1] + x] = seqs[j][x]

(* A flattened sequence is its blocks, one after the other.                *)
LEMMA FlattenSeqBlocks ==
  ASSUME NEW B, NEW seqs \in Seq(Seq(B))
  PROVE  /\ FlattenSeq(seqs) \in Seq(B)
         /\ \E at : Blocks(FlattenSeq(seqs), seqs, at)
<1> DEFINE n == Len(seqs)
<1>1. n \in Nat /\ \A j \in 1 .. n : seqs[j] \in Seq(B) /\ Len(seqs[j]) \in Nat
  OBVIOUS
<1>2. PICK f \in [0 .. n -> Seq(B)] :
        /\ f[0] = << >>
        /\ \A k \in 1 .. n : f[k] = f[k - 1] \o seqs[k]
        /\ FlattenSeq(seqs) = f[n]
  BY FlattenSeqSteps
<1> DEFINE at == [k \in 0 .. n |-> Len(f[k])]
<1>3. \A k \in 0 .. n : at[k] = Len(f[k]) /\ Len(f[k]) \in Nat /\ f[k] \in Seq(B)
  OBVIOUS
<1>4. at \in [0 .. n -> Nat] /\ at[0] = 0
  BY <1>1, <1>2
<1>5. ASSUME NEW j \in 1 .. n
      PROVE  /\ j - 1 \in 0 .. n /\ j \in 0 .. n
             /\ at[j] = at[j - 1] + Len(seqs[j])
             /\ \A x \in 1 .. at[j - 1] : f[j][x] = f[j - 1][x]
             /\ \A x \in 1 .. Len(seqs[j]) : f[j][at[j - 1] + x] = seqs[j][x]
  <2>1. j - 1 \in 0 .. n /\ j \in 0 .. n
    BY <1>1
  <2>2. /\ f[j] = f[j - 1] \o seqs[j] /\ f[j - 1] \in Seq(B) /\ seqs[j] \in Seq(B)
        /\ at[j] = Len(f[j]) /\ at[j - 1] = Len(f[j - 1])
    BY <1>1, <1>2, <2>1
  <2> HIDE DEF at
  <2> QED BY <2>1, <2>2
<1> HIDE DEF at
<1> DEFINE Placed(m) == \A j \in 1 .. m : \A x \in 1 .. Len(seqs[j]) :
             at[j - 1] + x \in 1 .. at[m] /\ f[m][at[j - 1] + x] = seqs[j][x]
           S == {m \in Nat : m <= n => Placed(m)}
<1>6. Placed(0)
  OBVIOUS
<1>7. ASSUME NEW m \in Nat, m + 1 <= n, Placed(m) PROVE Placed(m + 1)
  <2> SUFFICES ASSUME NEW j \in 1 .. m + 1, NEW x \in 1 .. Len(seqs[j])
               PROVE  /\ at[j - 1] + x \in 1 .. at[m + 1]
                      /\ f[m + 1][at[j - 1] + x] = seqs[j][x]
    OBVIOUS
  <2>1. m + 1 \in 1 .. n /\ j \in 1 .. n /\ (m + 1) - 1 = m /\ m \in 0 .. n
    BY <1>1, <1>7
  <2>2. /\ at[m] \in Nat /\ at[m + 1] = at[m] + Len(seqs[m + 1]) /\ Len(seqs[m + 1]) \in Nat
        /\ \A y \in 1 .. at[m] : f[m + 1][y] = f[m][y]
        /\ \A y \in 1 .. Len(seqs[m + 1]) : f[m + 1][at[m] + y] = seqs[m + 1][y]
    <3>1. /\ at[m + 1] = at[(m + 1) - 1] + Len(seqs[m + 1])
          /\ \A y \in 1 .. at[(m + 1) - 1] : f[m + 1][y] = f[(m + 1) - 1][y]
          /\ \A y \in 1 .. Len(seqs[m + 1]) :
               f[m + 1][at[(m + 1) - 1] + y] = seqs[m + 1][y]
      BY Zenon, <1>5, <2>1
    <3>2. (m + 1) - 1 = m
      OBVIOUS
    <3>3. at[m] \in Nat /\ at[m + 1] \in Nat /\ Len(seqs[m + 1]) \in Nat
      <4>1. m \in 0 .. n /\ m + 1 \in 0 .. n
        BY <2>1
      <4> HIDE DEF n
      <4> QED BY <1>1, <1>4, <2>1, <4>1
    <3> HIDE DEF n
    <3> QED BY <3>1, <3>2, <3>3
  <2>3. CASE j = m + 1
    <3>1. j - 1 = m /\ x \in 1 .. Len(seqs[m + 1])
      BY <2>3
    <3>2. at[m] + x \in 1 .. at[m + 1]
      BY <2>2, <3>1
    <3>3. f[m + 1][at[m] + x] = seqs[m + 1][x]
      BY <2>2, <3>1
    <3> QED BY <2>3, <3>1, <3>2, <3>3
  <2>4. CASE j # m + 1
    <3>1. j \in 1 .. m
      BY <2>4
    <3>2. at[j - 1] + x \in 1 .. at[m] /\ f[m][at[j - 1] + x] = seqs[j][x]
      BY <1>7, <3>1
    <3>3. at[j - 1] + x \in 1 .. at[m + 1]
      <4>1. at[m] \in Nat /\ at[m + 1] = at[m] + Len(seqs[m + 1]) /\ Len(seqs[m + 1]) \in Nat
        BY Zenon, <2>2
      <4>2. \A y \in 1 .. at[m] : y \in 1 .. at[m + 1]
        BY <4>1
      <4> QED BY Zenon, <3>2, <4>2
    <3> QED BY <2>2, <3>2, <3>3
  <2> QED BY <2>3, <2>4
<1>8. Placed(n)
  <2>1. 0 \in S /\ \A m \in Nat : m \in S => m + 1 \in S
    <3> HIDE DEF Placed
    <3> QED BY <1>1, <1>6, <1>7
  <2>2. Nat \subseteq S
    <3> HIDE DEF S
    <3> QED BY <2>1, Induction
  <2> HIDE DEF Placed
  <2> QED BY <1>1, <2>2
<1>9. Len(FlattenSeq(seqs)) = at[n] /\ FlattenSeq(seqs) \in Seq(B)
  BY <1>1, <1>2, <1>3
<1>10. Blocks(f[n], seqs, at)
  BY <1>3, <1>4, <1>5, <1>8, <1>2, <1>9 DEF Blocks
<1> QED BY <1>2, <1>9, <1>10

(* Blocks of four elements: each is found by a multiplication.             *)
LEMMA FlattenSeqFours ==
  ASSUME NEW B, NEW seqs \in Seq(Seq(B)),
         \A j \in 1 .. Len(seqs) : Len(seqs[j]) = 4
  PROVE  /\ FlattenSeq(seqs) \in Seq(B)
         /\ Len(FlattenSeq(seqs)) = 4 * Len(seqs)
         /\ \A j \in 1 .. Len(seqs), x \in 1 .. 4 :
              FlattenSeq(seqs)[4 * (j - 1) + x] = seqs[j][x]
<1> DEFINE n == Len(seqs)
<1>1. n \in Nat
  OBVIOUS
<1>2. PICK at : Blocks(FlattenSeq(seqs), seqs, at)
  BY FlattenSeqBlocks
<1>10. /\ at \in [0 .. n -> Nat] /\ at[0] = 0
       /\ \A j \in 1 .. n : at[j] = at[j - 1] + 4
       /\ Len(FlattenSeq(seqs)) = at[n]
       /\ \A j \in 1 .. n : \A x \in 1 .. 4 : FlattenSeq(seqs)[at[j - 1] + x] = seqs[j][x]
  BY <1>2 DEF Blocks
<1> DEFINE S == {m \in Nat : m <= n => at[m] = 4 * m}
<1>3. 0 \in S
  BY <1>10
<1>4. ASSUME NEW m \in Nat, m \in S PROVE m + 1 \in S
  <2> SUFFICES ASSUME m + 1 <= n PROVE at[m + 1] = 4 * (m + 1)
    OBVIOUS
  <2>1. m + 1 \in 1 .. n /\ (m + 1) - 1 = m /\ at[m] = 4 * m
    BY <1>1, <1>4
  <2>2. at[m + 1] = at[m] + 4
    BY <1>10, <2>1
  <2>3. 4 * (m + 1) = 4 * m + 4
    OBVIOUS
  <2> QED BY <2>1, <2>2, <2>3
<1>5. Nat \subseteq S
  <2> HIDE DEF S
  <2> QED BY <1>3, <1>4, Induction
<1>6. \A m \in 0 .. n : at[m] = 4 * m
  BY <1>1, <1>5
<1>7. \A j \in 1 .. n : j - 1 \in 0 .. n
  BY <1>1
<1> HIDE DEF n
<1>8. \A j \in 1 .. n, x \in 1 .. 4 : FlattenSeq(seqs)[4 * (j - 1) + x] = seqs[j][x]
  BY <1>6, <1>7, <1>10
<1>9. Len(FlattenSeq(seqs)) = 4 * n
  <2>1. n \in 0 .. n /\ at[n] = 4 * n
    BY <1>1, <1>6
  <2>2. Len(FlattenSeq(seqs)) = at[n]
    BY <1>10 DEF n
  <2> QED BY Zenon, <2>1, <2>2
<1> QED BY <1>8, <1>9, FlattenSeqBlocks DEF n
-----------------------------------------------------------------------------
(***************************************************************************)
(* The conversion of a string: the loop over its symbols, from byte to byte. *)
(***************************************************************************)
(* A string of C: bytes, the last of them and no other is 0.               *)
Terminated(s) == /\ s \in Seq(0 .. 255) /\ Len(s) >= 1
                 /\ \A k \in 1 .. Len(s) : s[k] = 0 <=> k = Len(s)

(* A symbol of a terminated string ends before the string does.            *)
LEMMA LeadFits ==
  ASSUME NEW s, Terminated(s), NEW k \in 1 .. Len(s), s[k] # 0
  PROVE  /\ utf8_lead_to_win1251(s, k).out \in 0 .. 255
         /\ utf8_lead_to_win1251(s, k).next \in k + 1 .. Len(s)
<1>0. Len(s) \in Nat /\ \A x \in 1 .. Len(s) : s[x] \in 0 .. 255 /\ (s[x] # 0 => x + 1 \in 1 .. Len(s))
  <2>0. s \in Seq(0 .. 255)
    BY DEF Terminated
  <2>1. Len(s) \in Nat /\ \A x \in 1 .. Len(s) : s[x] \in 0 .. 255
    <3>1. Len(s) \in Nat
      BY <2>0
    <3>2. ASSUME NEW x \in 1 .. Len(s) PROVE s[x] \in 0 .. 255
      BY Zenon, <2>0, ElementOfSeq
    <3> QED BY <3>1, <3>2
  <2>2. ASSUME NEW x \in 1 .. Len(s), s[x] # 0 PROVE x + 1 \in 1 .. Len(s)
    <3>1. x # Len(s)
      BY <2>2 DEF Terminated
    <3> QED BY <2>1, <3>1
  <2> QED BY <2>1, <2>2
<1>1. k + 1 \in 1 .. Len(s) /\ s[k] \in 0 .. 255 /\ s[k + 1] \in 0 .. 255
  BY <1>0
<1>2. s[k + 1] # 0 => k + 2 \in 1 .. Len(s) /\ s[k + 2] \in 0 .. 255
  <2>1. s[k + 1] # 0 => (k + 1) + 1 \in 1 .. Len(s)
    BY Zenon, <1>0, <1>1
  <2>2. (k + 1) + 1 = k + 2
    OBVIOUS
  <2>3. s[k + 1] # 0 => k + 2 \in 1 .. Len(s)
    BY Zenon, <2>1, <2>2
  <2> QED BY Zenon, <1>0, <2>3
<1>3. CASE s[k] \notin {208, 209, 194, 226}
  <2>1. utf8_lead_to_win1251(s, k) = [out |-> s[k], next |-> k + 1]
    BY <1>3 DEF utf8_lead_to_win1251
  <2> QED BY <1>1, <2>1
<1>4. CASE s[k] \in {208, 209, 194, 226} /\ s[k + 1] = 0
  BY <1>1, <1>4 DEF utf8_lead_to_win1251
<1>5. CASE s[k] \in {208, 209, 194} /\ s[k + 1] # 0
  <2>1. k + 2 \in k + 1 .. Len(s)
    BY <1>1, <1>2, <1>5
  <2> DEFINE c2 == s[k + 1]
             of208 == IF c2 = 129 THEN 168 ELSE IF c2 \in 144 .. 191 THEN c2 + 48 ELSE 63
             of209 == IF c2 = 145 THEN 184 ELSE IF c2 \in 128 .. 143 THEN c2 + 112 ELSE 63
  <2>2. of208 \in 0 .. 255 /\ of209 \in 0 .. 255 /\ c2 \in 0 .. 255
    <3>1. c2 \in 0 .. 255
      BY <1>1
    <3> HIDE DEF c2
    <3> QED BY <3>1
  <2>3. CASE s[k] = 208
    <3>1. utf8_lead_to_win1251(s, k) = [out |-> of208, next |-> k + 2]
      BY <1>5, <2>3 DEF utf8_lead_to_win1251
    <3> HIDE DEF of208
    <3> QED BY <2>1, <2>2, <3>1
  <2>4. CASE s[k] = 209
    <3>1. utf8_lead_to_win1251(s, k) = [out |-> of209, next |-> k + 2]
      BY <1>5, <2>4 DEF utf8_lead_to_win1251
    <3> HIDE DEF of209
    <3> QED BY <2>1, <2>2, <3>1
  <2>5. CASE s[k] = 194
    <3>1. utf8_lead_to_win1251(s, k) = [out |-> c2, next |-> k + 2]
      BY <1>5, <2>5 DEF utf8_lead_to_win1251
    <3> QED BY <2>1, <2>2, <3>1
  <2> QED BY <1>5, <2>3, <2>4, <2>5
<1>8. CASE s[k] = 226 /\ s[k + 1] # 0 /\ s[k + 2] = 0
  BY <1>1, <1>2, <1>8 DEF utf8_lead_to_win1251
<1>9. CASE s[k] = 226 /\ s[k + 1] # 0 /\ s[k + 2] # 0
  <2>1. k + 3 \in k + 1 .. Len(s)
    BY <1>1, <1>2, <1>9 DEF Terminated
  <2> QED BY <1>1, <1>9, <2>1 DEF utf8_lead_to_win1251
<1> QED BY <1>3, <1>4, <1>5, <1>8, <1>9

(* What the loop adds, from byte k on, when g is what it adds later.       *)
Decoded(s, g, k) ==
  IF s[k] = 0 THEN << >>
  ELSE << utf8_lead_to_win1251(s, k).out >> \o g[utf8_lead_to_win1251(s, k).next]

(* The loop goes forward, so what it gives from each byte on exists.       *)
LEMMA DecoderIs ==
  ASSUME NEW s, Terminated(s)
  PROVE  \A k \in 1 .. Len(s) : Decoder(s)[k] = Decoded(s, Decoder(s), k)
<1> DEFINE n == Len(s)
           V == Seq(0 .. 255)
           From(g, m) == g \in [1 .. n -> V] /\ \A k \in n + 1 - m .. n : g[k] = Decoded(s, g, k)
           S == {m \in Nat : m <= n => \E g : From(g, m)}
<1>1. n \in Nat
  BY DEF Terminated
<1>2. ASSUME NEW g \in [1 .. n -> V], NEW k \in 1 .. n PROVE Decoded(s, g, k) \in V
  <2>1. CASE s[k] = 0
    BY <2>1 DEF Decoded
  <2>2. CASE s[k] # 0
    <3>1. /\ utf8_lead_to_win1251(s, k).out \in 0 .. 255
          /\ utf8_lead_to_win1251(s, k).next \in 1 .. n
      BY <2>2, LeadFits
    <3>2. g[utf8_lead_to_win1251(s, k).next] \in V
      BY <3>1
    <3> QED BY <2>2, <3>1, <3>2 DEF Decoded
  <2> QED BY <2>1, <2>2
<1>3. From([k \in 1 .. n |-> << >>], 0)
  BY <1>1
<1>4. ASSUME NEW m \in Nat, m + 1 <= n, NEW g, From(g, m)
      PROVE  \E e : From(e, m + 1)
  <2> DEFINE last == n - m
             e == [g EXCEPT ![last] = Decoded(s, g, last)]
  <2>1. last \in 1 .. n /\ n + 1 - m = last + 1 /\ n + 1 - (m + 1) = last
    BY <1>1, <1>4
  <2>2. e \in [1 .. n -> V]
    BY <1>2, <1>4, <2>1
  <2>3. \A k \in 1 .. n : e[k] = IF k = last THEN Decoded(s, g, last) ELSE g[k]
    BY <1>4
  <2> HIDE DEF e, last
  <2>4. ASSUME NEW k \in last .. n
        PROVE  e[k] = Decoded(s, e, k)
    <3>1. k \in 1 .. n
      BY <2>1
    <3>2. e[k] = Decoded(s, g, k)
      BY <1>4, <2>1, <2>3, <3>1
    <3>3. CASE s[k] = 0
      BY <3>2, <3>3 DEF Decoded
    <3>4. CASE s[k] # 0
      <4>1. utf8_lead_to_win1251(s, k).next \in k + 1 .. n
        BY <3>1, <3>4, LeadFits
      <4>2. e[utf8_lead_to_win1251(s, k).next] = g[utf8_lead_to_win1251(s, k).next]
        BY <2>1, <2>3, <4>1
      <4> QED BY <3>2, <4>2 DEF Decoded
    <3> QED BY <3>3, <3>4
  <2> QED BY <2>1, <2>2, <2>4
<1>5. PICK g : From(g, n)
  <2>1. 0 \in S /\ \A m \in Nat : m \in S => m + 1 \in S
    <3> HIDE DEF From
    <3> QED BY <1>1, <1>3, <1>4
  <2>2. Nat \subseteq S
    <3> HIDE DEF S
    <3> QED BY <2>1, Induction
  <2> HIDE DEF From
  <2> QED BY <1>1, <2>2
<1> DEFINE Loop(f) == f = [k \in 1 .. n |->
             IF s[k] = 0 THEN << >>
             ELSE LET step == utf8_lead_to_win1251(s, k) IN << step.out >> \o f[step.next]]
<1>6. Loop(g)
  <2>1. \A k \in 1 .. n : g[k] = Decoded(s, g, k)
    BY <1>1, <1>5
  <2>2. g = [k \in 1 .. n |-> Decoded(s, g, k)]
    BY <1>5, <2>1
  <2> QED BY <2>2 DEF Decoded
<1>7. Decoder(s) = CHOOSE f : Loop(f)
  BY Zenon DEF Decoder
<1>8. Loop(Decoder(s))
  <2> HIDE DEF Loop
  <2> QED BY <1>6, <1>7
<1> QED BY <1>8 DEF Decoded

(* The Windows-1251 code of a symbol.                                      *)
Code == [A |-> 65, Pe |-> 207, ya |-> 255, degree |-> 176, dash |-> 45, raw |-> 207, cut |-> 63,
         yo |-> 184, Yo |-> 168, laquo |-> 171, raquo |-> 187]

(* The symbols, by name.                                                   *)
LEMMA SymbolsAre ==
  Symbols = {"A", "Pe", "ya", "degree", "dash", "raw", "cut", "yo", "Yo", "laquo", "raquo"}
BY DEF Symbols, Utf8

(* The bytes of each symbol.                                               *)
LEMMA SymbolBytes ==
  ASSUME NEW x \in Symbols
  PROVE  /\ Utf8[x] \in Seq(1 .. 255)
         /\ x = "A" => Len(Utf8[x]) = 1 /\ Utf8[x][1] = 65
         /\ x = "Pe" => Len(Utf8[x]) = 2 /\ Utf8[x][1] = 208 /\ Utf8[x][2] = 159
         /\ x = "ya" => Len(Utf8[x]) = 2 /\ Utf8[x][1] = 209 /\ Utf8[x][2] = 143
         /\ x = "degree" => Len(Utf8[x]) = 2 /\ Utf8[x][1] = 194 /\ Utf8[x][2] = 176
         /\ x = "dash" => Len(Utf8[x]) = 3 /\ Utf8[x][1] = 226 /\ Utf8[x][2] = 128 /\ Utf8[x][3] = 148
         /\ x = "raw" => Len(Utf8[x]) = 1 /\ Utf8[x][1] = 207
         /\ x = "cut" => Len(Utf8[x]) = 1 /\ Utf8[x][1] = 208
         /\ x = "yo" => Len(Utf8[x]) = 2 /\ Utf8[x][1] = 209 /\ Utf8[x][2] = 145
         /\ x = "Yo" => Len(Utf8[x]) = 2 /\ Utf8[x][1] = 208 /\ Utf8[x][2] = 129
         /\ x = "laquo" => Len(Utf8[x]) = 2 /\ Utf8[x][1] = 194 /\ Utf8[x][2] = 171
         /\ x = "raquo" => Len(Utf8[x]) = 2 /\ Utf8[x][1] = 194 /\ Utf8[x][2] = 187
<1>1. CASE x = "A"
  BY <1>1 DEF Utf8
<1>2. CASE x = "Pe"
  BY <1>2 DEF Utf8
<1>3. CASE x = "ya"
  BY <1>3 DEF Utf8
<1>4. CASE x = "degree"
  BY <1>4 DEF Utf8
<1>5. CASE x = "dash"
  BY <1>5 DEF Utf8
<1>6. CASE x = "raw"
  BY <1>6 DEF Utf8
<1>7. CASE x = "cut"
  BY <1>7 DEF Utf8
<1>8. CASE x = "yo"
  BY <1>8 DEF Utf8
<1>9. CASE x = "Yo"
  BY <1>9 DEF Utf8
<1>10. CASE x = "laquo"
  BY <1>10 DEF Utf8
<1>11. CASE x = "raquo"
  BY <1>11 DEF Utf8
<1> QED BY <1>1, <1>2, <1>3, <1>4, <1>5, <1>6, <1>7, <1>8, <1>9, <1>10, <1>11, SymbolsAre

(* A symbol has one, two or three bytes.                                   *)
LEMMA SymbolLengths ==
  ASSUME NEW x \in Symbols
  PROVE  Len(Utf8[x]) = 1 \/ Len(Utf8[x]) = 2 \/ Len(Utf8[x]) = 3
<1>1. CASE x = "A"
  BY <1>1 DEF Utf8
<1>2. CASE x = "Pe"
  BY <1>2 DEF Utf8
<1>3. CASE x = "ya"
  BY <1>3 DEF Utf8
<1>4. CASE x = "degree"
  BY <1>4 DEF Utf8
<1>5. CASE x = "dash"
  BY <1>5 DEF Utf8
<1>6. CASE x = "raw"
  BY <1>6 DEF Utf8
<1>7. CASE x = "cut"
  BY <1>7 DEF Utf8
<1>8. CASE x = "yo"
  BY <1>8 DEF Utf8
<1>9. CASE x = "Yo"
  BY <1>9 DEF Utf8
<1>10. CASE x = "laquo"
  BY <1>10 DEF Utf8
<1>11. CASE x = "raquo"
  BY <1>11 DEF Utf8
<1> QED BY <1>1, <1>2, <1>3, <1>4, <1>5, <1>6, <1>7, <1>8, <1>9, <1>10, <1>11, SymbolsAre

(* The codes of the symbols, in the ROM of the panel, are what is seen.    *)
LEMMA SymbolCodes ==
  ASSUME NEW x \in Symbols
  PROVE  Code[x] \in 0 .. 255 /\ RomCode(Code[x]) = Seen(x)
<1>0. Seen(x) = IF x \in {"yo", "Yo", "laquo", "raquo"} THEN Misdrawn[x] ELSE Glyph[x]
  BY DEF Seen, Misdrawn
<1>1. win1251_to_lcd[16] = 168 /\ win1251_to_lcd[64] = 199
  BY DEF win1251_to_lcd
<1>2. CASE x \in {"A", "dash", "cut", "degree"}
  BY <1>0, <1>2 DEF Code, Glyph, RomCode
<1>3. CASE x \in {"Pe", "raw", "ya"}
  BY <1>0, <1>1, <1>3 DEF Code, Glyph, RomCode
<1>4. CASE x \in {"yo", "Yo", "laquo", "raquo"}
  BY <1>0, <1>4 DEF Code, Misdrawn, RomCode
<1> QED BY <1>2, <1>3, <1>4, SymbolsAre

(* The symbol x is at byte k of s, and is taken from there.                *)
Stands(s, k, x) == /\ \A y \in 1 .. Len(Utf8[x]) : s[k + (y - 1)] = Utf8[x][y]
                   /\ x = "cut" => s[k + 1] = 0
Taken(s, k, x) == /\ s[k] # 0
                  /\ utf8_lead_to_win1251(s, k).out = Code[x]
                  /\ utf8_lead_to_win1251(s, k).next = k + Len(Utf8[x])

(* utf8_lead_to_win1251 gives a symbol's code and goes to the next symbol. *)
LEMMA SymbolDecoded ==
  ASSUME NEW s, NEW k \in Nat, NEW x \in Symbols, Stands(s, k, x)
  PROVE  Taken(s, k, x)
<1>0. /\ \A y \in 1 .. Len(Utf8[x]) : s[k + (y - 1)] = Utf8[x][y]
      /\ x = "cut" => s[k + 1] = 0
  BY Zenon DEF Stands
<1> SUFFICES /\ s[k] # 0
             /\ utf8_lead_to_win1251(s, k).out = Code[x]
             /\ utf8_lead_to_win1251(s, k).next = k + Len(Utf8[x])
  BY Zenon DEF Taken
<1>1. /\ s[k] = Utf8[x][1]
      /\ Len(Utf8[x]) >= 2 => s[k + 1] = Utf8[x][2]
      /\ Len(Utf8[x]) = 3 => s[k + 2] = Utf8[x][3]
  <2>1. k + (1 - 1) = k /\ k + (2 - 1) = k + 1 /\ k + (3 - 1) = k + 2
    OBVIOUS
  <2>2. Len(Utf8[x]) = 1 \/ Len(Utf8[x]) = 2 \/ Len(Utf8[x]) = 3
    BY Zenon, SymbolLengths
  <2> DEFINE n == Len(Utf8[x])
  <2> HIDE DEF n
  <2>3. n = 1 \/ n = 2 \/ n = 3
    BY <2>2 DEF n
  <2>4. 1 \in 1 .. n /\ (n >= 2 => 2 \in 1 .. n) /\ (n = 3 => 3 \in 1 .. n)
    BY <2>3
  <2>5. \A y \in 1 .. n : s[k + (y - 1)] = Utf8[x][y]
    BY Zenon, <1>0 DEF n
  <2>6. /\ s[k] = Utf8[x][1]
        /\ n >= 2 => s[k + 1] = Utf8[x][2]
        /\ n = 3 => s[k + 2] = Utf8[x][3]
    BY Zenon, <2>1, <2>4, <2>5
  <2> QED BY Zenon, <2>6 DEF n
<1>2. CASE x = "A"
  <2>1. s[k] = 65 /\ Len(Utf8[x]) = 1
    BY <1>1, <1>2, SymbolBytes
  <2> QED BY <1>2, <2>1 DEF utf8_lead_to_win1251, Code
<1>3. CASE x = "Pe"
  <2>1. s[k] = 208 /\ s[k + 1] = 159 /\ Len(Utf8[x]) = 2
    BY <1>1, <1>3, SymbolBytes
  <2> QED BY <1>3, <2>1 DEF utf8_lead_to_win1251, Code
<1>4. CASE x = "ya"
  <2>1. s[k] = 209 /\ s[k + 1] = 143 /\ Len(Utf8[x]) = 2
    BY <1>1, <1>4, SymbolBytes
  <2> QED BY <1>4, <2>1 DEF utf8_lead_to_win1251, Code
<1>5. CASE x = "degree"
  <2>1. s[k] = 194 /\ s[k + 1] = 176 /\ Len(Utf8[x]) = 2
    BY <1>1, <1>5, SymbolBytes
  <2> QED BY <1>5, <2>1 DEF utf8_lead_to_win1251, Code
<1>6. CASE x = "dash"
  <2>1. s[k] = 226 /\ s[k + 1] = 128 /\ s[k + 2] = 148 /\ Len(Utf8[x]) = 3
    BY <1>1, <1>6, SymbolBytes
  <2> QED BY <1>6, <2>1 DEF utf8_lead_to_win1251, Code
<1>7. CASE x = "raw"
  <2>1. s[k] = 207 /\ Len(Utf8[x]) = 1
    BY <1>1, <1>7, SymbolBytes
  <2> QED BY <1>7, <2>1 DEF utf8_lead_to_win1251, Code
<1>8. CASE x = "cut"
  <2>1. s[k] = 208 /\ s[k + 1] = 0 /\ Len(Utf8[x]) = 1
    BY <1>0, <1>1, <1>8, SymbolBytes
  <2> QED BY <1>8, <2>1 DEF utf8_lead_to_win1251, Code
<1>9. CASE x = "yo"
  <2>1. s[k] = 209 /\ s[k + 1] = 145 /\ Len(Utf8[x]) = 2
    BY <1>1, <1>9, SymbolBytes
  <2> QED BY <1>9, <2>1 DEF utf8_lead_to_win1251, Code
<1>10. CASE x = "Yo"
  <2>1. s[k] = 208 /\ s[k + 1] = 129 /\ Len(Utf8[x]) = 2
    BY <1>1, <1>10, SymbolBytes
  <2> QED BY <1>10, <2>1 DEF utf8_lead_to_win1251, Code
<1>11. CASE x = "laquo"
  <2>1. s[k] = 194 /\ s[k + 1] = 171 /\ Len(Utf8[x]) = 2
    BY <1>1, <1>11, SymbolBytes
  <2> QED BY <1>11, <2>1 DEF utf8_lead_to_win1251, Code
<1>12. CASE x = "raquo"
  <2>1. s[k] = 194 /\ s[k + 1] = 187 /\ Len(Utf8[x]) = 2
    BY <1>1, <1>12, SymbolBytes
  <2> QED BY <1>12, <2>1 DEF utf8_lead_to_win1251, Code
<1> QED BY <1>2, <1>3, <1>4, <1>5, <1>6, <1>7, <1>8, <1>9, <1>10, <1>11, <1>12, SymbolsAre

(* The bytes of a text: those of its symbols, each after at[j - 1] others. *)
BytesAt(s, t, at) ==
  /\ at \in [0 .. Len(t) -> Nat]
  /\ at[0] = 0
  /\ \A j \in 1 .. Len(t) : at[j] = at[j - 1] + Len(Utf8[t[j]])
  /\ Len(s) = at[Len(t)] + 1
  /\ \A j \in 1 .. Len(t) : \A x \in 1 .. Len(Utf8[t[j]]) :
       at[j - 1] + x \in 1 .. at[Len(t)] /\ s[at[j - 1] + x] = Utf8[t[j]][x]

(* The string of a text is terminated, and has its symbols' bytes in       *)
(* order.                                                                  *)
LEMMA CStringIs ==
  ASSUME NEW t \in Seq(Symbols)
  PROVE  /\ Terminated(CString(t))
         /\ \E at : BytesAt(CString(t), t, at)
<1> DEFINE B == 1 .. 255
           seqs == [k \in 1 .. Len(t) |-> Utf8[t[k]]]
           flat == FlattenSeq(seqs)
<1>1. Len(t) \in Nat /\ \A k \in 1 .. Len(t) : t[k] \in Symbols
  OBVIOUS
<1>2. \A k \in 1 .. Len(t) : Utf8[t[k]] \in Seq(B)
  BY <1>1, SymbolBytes
<1>3. seqs \in Seq(Seq(B)) /\ Len(seqs) = Len(t) /\ \A k \in 1 .. Len(t) : seqs[k] = Utf8[t[k]]
  <2> HIDE DEF B
  <2> QED BY <1>1, <1>2
<1> HIDE DEF seqs
<1>4. flat \in Seq(B) /\ \E at : Blocks(flat, seqs, at)
  BY <1>3, FlattenSeqBlocks
<1>5. PICK at : Blocks(flat, seqs, at)
  BY <1>4
<1>6. CString(t) = flat \o << 0 >>
  BY DEF CString, seqs
<1> HIDE DEF flat
<1>7. /\ Len(CString(t)) = Len(flat) + 1 /\ Len(flat) \in Nat
      /\ \A k \in 1 .. Len(flat) : CString(t)[k] = flat[k] /\ flat[k] \in 1 .. 255
      /\ CString(t)[Len(flat) + 1] = 0
  <2>1. << 0 >> \in Seq({0}) /\ Len(<< 0 >>) = 1 /\ << 0 >>[1] = 0
    OBVIOUS
  <2>2. \A k \in 1 .. Len(flat) : flat[k] \in B
    BY Zenon, <1>4, ElementOfSeq
  <2> HIDE DEF B
  <2>3. flat \in Seq(B) /\ Len(flat) \in Nat
    BY <1>4
  <2>4. /\ Len(CString(t)) = Len(flat) + 1
        /\ \A k \in 1 .. Len(flat) : CString(t)[k] = flat[k]
        /\ CString(t)[Len(flat) + 1] = 0
    BY <1>6, <2>1, <2>3
  <2> QED BY <2>2, <2>3, <2>4 DEF B
<1>8. CString(t) \in Seq(0 .. 255)
  <2>1. flat \in Seq(0 .. 255)
    BY <1>4
  <2>2. << 0 >> \in Seq(0 .. 255)
    OBVIOUS
  <2> DEFINE C == 0 .. 255
  <2> HIDE DEF C
  <2>3. flat \in Seq(C) /\ << 0 >> \in Seq(C)
    BY <2>1, <2>2 DEF C
  <2> QED BY <1>6, <2>3 DEF C
<1>9. Terminated(CString(t))
  <2>1. ASSUME NEW k \in 1 .. Len(flat) + 1
        PROVE  CString(t)[k] = 0 <=> k = Len(flat) + 1
    <3>1. k \in 1 .. Len(flat) \/ k = Len(flat) + 1
      BY <1>7
    <3>2. CASE k \in 1 .. Len(flat)
      <4>1. CString(t)[k] = flat[k] /\ flat[k] \in 1 .. 255 /\ Len(flat) \in Nat
        BY <1>7, <3>2
      <4>2. \A c \in 1 .. 255 : c # 0
        OBVIOUS
      <4>3. k # Len(flat) + 1
        BY <3>2, <4>1
      <4> QED BY Zenon, <4>1, <4>2, <4>3
    <3> QED BY <1>7, <3>1, <3>2
  <2> QED BY <1>7, <1>8, <2>1 DEF Terminated
<1>10. BytesAt(CString(t), t, at)
  <2>1. /\ at \in [0 .. Len(t) -> Nat] /\ at[0] = 0
        /\ \A j \in 1 .. Len(t) : at[j] = at[j - 1] + Len(Utf8[t[j]])
        /\ Len(flat) = at[Len(t)]
        /\ \A j \in 1 .. Len(t) : \A x \in 1 .. Len(Utf8[t[j]]) :
             at[j - 1] + x \in 1 .. at[Len(t)] /\ flat[at[j - 1] + x] = Utf8[t[j]][x]
    <3>1. /\ at \in [0 .. Len(t) -> Nat] /\ at[0] = 0
          /\ \A j \in 1 .. Len(t) : at[j] = at[j - 1] + Len(seqs[j])
          /\ Len(flat) = at[Len(t)]
          /\ \A j \in 1 .. Len(t) : \A x \in 1 .. Len(seqs[j]) :
               at[j - 1] + x \in 1 .. at[Len(t)] /\ flat[at[j - 1] + x] = seqs[j][x]
      <4>1. Len(seqs) = Len(t)
        BY <1>3
      <4> QED BY Zenon, <1>5, <4>1 DEF Blocks
    <3>2. ASSUME NEW j \in 1 .. Len(t)
          PROVE  at[j] = at[j - 1] + Len(Utf8[t[j]])
      BY <1>3, <3>1
    <3>3. ASSUME NEW j \in 1 .. Len(t), NEW x \in 1 .. Len(Utf8[t[j]])
          PROVE  at[j - 1] + x \in 1 .. at[Len(t)] /\ flat[at[j - 1] + x] = Utf8[t[j]][x]
      <4>1. seqs[j] = Utf8[t[j]] /\ x \in 1 .. Len(seqs[j])
        BY <1>3
      <4>2. at[j - 1] + x \in 1 .. at[Len(t)] /\ flat[at[j - 1] + x] = seqs[j][x]
        BY Zenon, <3>1, <4>1
      <4> QED BY <4>1, <4>2
    <3> QED BY <3>1, <3>2, <3>3
  <2>2. Len(CString(t)) = at[Len(t)] + 1
    BY <1>7, <2>1
  <2>3. \A j \in 1 .. Len(t) : \A x \in 1 .. Len(Utf8[t[j]]) :
             at[j - 1] + x \in 1 .. at[Len(t)] /\ CString(t)[at[j - 1] + x] = Utf8[t[j]][x]
    BY Zenon, <1>7, <2>1
  <2> QED BY <2>1, <2>2, <2>3 DEF BytesAt
<1> QED BY <1>9, <1>10

(* Only the last symbol of a text may be cut.                              *)
Whole(t) == t \in Seq(Symbols) /\ \A k \in 1 .. Len(t) : t[k] = "cut" => k = Len(t)

(* The codes of the last m symbols of t.                                   *)
LastCodes(t, m) == [k \in 1 .. m |-> Code[t[Len(t) - m + k]]]

(* One more symbol before the last m.                                      *)
LEMMA LongerCodes ==
  ASSUME NEW t \in Seq(Symbols), NEW m \in Nat, m + 1 <= Len(t)
  PROVE  LastCodes(t, m + 1) = << Code[t[Len(t) - m]] >> \o LastCodes(t, m)
<1> DEFINE x == Code[t[Len(t) - m]]
           g == LastCodes(t, m)
<1>1. Len(t) \in Nat /\ \A k \in 1 .. Len(t) : Code[t[k]] \in 0 .. 255
  <2>1. \A k \in 1 .. Len(t) : t[k] \in Symbols
    BY ElementOfSeq
  <2>2. \A k \in 1 .. Len(t) : Code[t[k]] \in 0 .. 255
    BY Zenon, <2>1, SymbolCodes
  <2>3. Len(t) \in Nat
    OBVIOUS
  <2> QED BY Zenon, <2>2, <2>3
<1>2. g \in Seq(0 .. 255) /\ Len(g) = m /\ \A k \in 1 .. m : g[k] = Code[t[Len(t) - m + k]]
  <2>1. \A k \in 1 .. m : Len(t) - m + k \in 1 .. Len(t)
    BY <1>1
  <2>2. \A k \in 1 .. m : Code[t[Len(t) - m + k]] \in 0 .. 255
    BY <1>1, <2>1
  <2> DEFINE C == 0 .. 255
  <2> HIDE DEF C
  <2>3. \A k \in 1 .. m : Code[t[Len(t) - m + k]] \in C
    BY <2>2 DEF C
  <2>4. g \in Seq(C) /\ Len(g) = m /\ \A k \in 1 .. m : g[k] = Code[t[Len(t) - m + k]]
    BY <2>3 DEF LastCodes
  <2> QED BY <2>4 DEF C
<1>3. x \in 0 .. 255
  <2>1. Len(t) - m \in 1 .. Len(t)
    BY <1>1
  <2> QED BY <1>1, <2>1
<1> HIDE DEF g, x
<1> DEFINE h == << x >> \o g
<1>4. Len(h) = m + 1 /\ h[1] = x /\ (\A k \in 2 .. m + 1 : h[k] = g[k - 1]) /\ DOMAIN h = 1 .. m + 1
      /\ h = [k \in 1 .. m + 1 |-> h[k]]
  <2> DEFINE C == 0 .. 255
  <2> HIDE DEF C
  <2>1. g \in Seq(C) /\ << x >> \in Seq(C) /\ Len(<< x >>) = 1
    BY <1>2, <1>3 DEF C
  <2> QED BY <1>2, <2>1
<1> HIDE DEF h
<1>5. ASSUME NEW k \in 1 .. m + 1
      PROVE  h[k] = Code[t[Len(t) - (m + 1) + k]]
  <2>1. CASE k = 1
    <3>1. Len(t) - (m + 1) + k = Len(t) - m
      BY <1>1, <2>1
    <3> QED BY <1>4, <2>1, <3>1 DEF x
  <2>2. CASE k # 1
    <3>1. k \in 2 .. m + 1 /\ k - 1 \in 1 .. m /\ Len(t) - m + (k - 1) = Len(t) - (m + 1) + k
      BY <1>1, <2>2
    <3>2. h[k] = g[k - 1] /\ g[k - 1] = Code[t[Len(t) - m + (k - 1)]]
      BY <1>2, <1>4, <3>1
    <3> QED BY <3>1, <3>2
  <2> QED BY <2>1, <2>2
<1>6. h = LastCodes(t, m + 1)
  BY <1>4, <1>5 DEF LastCodes
<1> QED BY <1>6 DEF h, x, g

(* A symbol has a first byte.                                              *)
LEMMA SymbolLength ==
  ASSUME NEW x \in Symbols
  PROVE  1 \in 1 .. Len(Utf8[x])
<1>1. Len(Utf8[x]) = 1 \/ Len(Utf8[x]) = 2 \/ Len(Utf8[x]) = 3
  BY Zenon, SymbolLengths
<1>2. 1 \in 1 .. 1 /\ 1 \in 1 .. 2 /\ 1 \in 1 .. 3
  OBVIOUS
<1> QED BY Zenon, <1>1, <1>2

(* The loop turns each symbol of a text into its code.                     *)
LEMMA TextDecoded ==
  ASSUME NEW t, Whole(t)
  PROVE  Decoder(CString(t))[1] = [k \in 1 .. Len(t) |-> Code[t[k]]]
<1> DEFINE n == Len(t)
           s == CString(t)
<1>1. t \in Seq(Symbols) /\ n \in Nat
  BY DEF Whole
<1>0. \A k \in 1 .. n : t[k] \in Symbols
  BY <1>1, ElementOfSeq
<1>2. Terminated(s)
  BY <1>1, CStringIs
<1>3. PICK at : BytesAt(s, t, at)
  BY <1>1, CStringIs
<1>4. \A k \in 1 .. Len(s) : Decoder(s)[k] = Decoded(s, Decoder(s), k)
  BY <1>2, DecoderIs
<1> HIDE DEF s
<1>5. /\ at \in [0 .. n -> Nat] /\ at[0] = 0 /\ Len(s) = at[n] + 1
      /\ \A j \in 1 .. n : at[j] = at[j - 1] + Len(Utf8[t[j]])
      /\ \A j \in 1 .. n : \A x \in 1 .. Len(Utf8[t[j]]) :
           at[j - 1] + x \in 1 .. at[n] /\ s[at[j - 1] + x] = Utf8[t[j]][x]
  BY <1>3 DEF BytesAt
<1>6. s[at[n] + 1] = 0 /\ at[n] + 1 \in 1 .. Len(s)
  <2>1. n \in 0 .. n /\ at[n] \in Nat
    BY <1>1, <1>5
  <2>2. at[n] + 1 = Len(s) /\ at[n] + 1 \in 1 .. Len(s)
    BY <1>5, <2>1
  <2> QED BY <1>2, <2>2 DEF Terminated
<1> DEFINE S == {m \in Nat : m <= n => Decoder(s)[at[n - m] + 1] = LastCodes(t, m)}
<1>7. 0 \in S
  <2>1. Decoder(s)[at[n] + 1] = << >>
    BY <1>4, <1>6 DEF Decoded
  <2>2. LastCodes(t, 0) = << >>
    BY DEF LastCodes
  <2>3. n - 0 = n
    BY <1>1
  <2> QED BY <2>1, <2>2, <2>3
<1>8. ASSUME NEW m \in Nat, m + 1 <= n, Decoder(s)[at[n - m] + 1] = LastCodes(t, m)
      PROVE  Decoder(s)[at[n - (m + 1)] + 1] = LastCodes(t, m + 1)
  <2> DEFINE j == n - m
             x == t[j]
             p == at[j - 1] + 1
  <2>1. j \in 1 .. n /\ j - 1 = n - (m + 1) /\ j - 1 \in 0 .. n /\ j \in 0 .. n
    BY <1>1, <1>8
  <2> HIDE DEF j
  <2>2. x \in Symbols /\ at[j - 1] \in Nat /\ at[j] \in Nat
    BY <1>0, <1>5, <2>1
  <2>3. /\ at[j] = at[j - 1] + Len(Utf8[x])
        /\ \A y \in 1 .. Len(Utf8[x]) : at[j - 1] + y \in 1 .. at[n] /\ s[at[j - 1] + y] = Utf8[x][y]
    BY <1>5, <2>1
  <2> HIDE DEF x
  <2>4. \A y \in 1 .. Len(Utf8[x]) : s[p + (y - 1)] = Utf8[x][y]
    <3> SUFFICES ASSUME NEW y \in 1 .. Len(Utf8[x]) PROVE s[p + (y - 1)] = Utf8[x][y]
      OBVIOUS
    <3>1. p + (y - 1) = at[j - 1] + y
      BY <2>2
    <3> QED BY <2>3, <3>1
  <2>5. x = "cut" => s[p + 1] = 0
    <3> SUFFICES ASSUME x = "cut" PROVE s[p + 1] = 0
      OBVIOUS
    <3>1. j = n
      BY <2>1 DEF Whole, x
    <3>2. Len(Utf8[x]) = 1
      BY <2>2, SymbolBytes
    <3>3. p + 1 = at[n] + 1
      BY <2>3, <3>1, <3>2
    <3> QED BY <1>6, <3>3
  <2>6. p \in 1 .. Len(s) /\ p \in Nat
    <3>1. 1 \in 1 .. Len(Utf8[x])
      BY Zenon, <2>2, SymbolLength
    <3>2. at[j - 1] + 1 \in 1 .. at[n]
      BY Zenon, <2>3, <3>1
    <3>3. at[n] \in Nat
      BY <1>1, <1>5
    <3> QED BY <1>5, <3>2, <3>3
  <2>7. /\ s[p] # 0
        /\ utf8_lead_to_win1251(s, p).out = Code[x]
        /\ utf8_lead_to_win1251(s, p).next = p + Len(Utf8[x])
    <3> HIDE DEF p
    <3>1. Stands(s, p, x)
      BY Zenon, <2>4, <2>5 DEF Stands
    <3>2. Taken(s, p, x)
      BY Zenon, <2>2, <2>6, <3>1, SymbolDecoded
    <3> QED BY Zenon, <3>2 DEF Taken
  <2>8. p + Len(Utf8[x]) = at[j] + 1
    <3>1. Len(Utf8[x]) \in Nat
      <4>1. Len(Utf8[x]) = 1 \/ Len(Utf8[x]) = 2 \/ Len(Utf8[x]) = 3
        BY Zenon, <2>2, SymbolLengths
      <4> QED BY <4>1
    <3> QED BY <2>2, <2>3, <3>1
  <2>9. Decoder(s)[p] = << Code[x] >> \o Decoder(s)[at[j] + 1]
    <3> HIDE DEF p
    <3> QED BY <1>4, <2>6, <2>7, <2>8 DEF Decoded
  <2>10. LastCodes(t, m + 1) = << Code[x] >> \o LastCodes(t, m)
    BY <1>1, <1>8, LongerCodes DEF x, j
  <2>11. Decoder(s)[at[j] + 1] = LastCodes(t, m)
    BY <1>8 DEF j
  <2> QED BY <2>1, <2>9, <2>10, <2>11
<1>9. Nat \subseteq S
  <2>1. \A m \in Nat : m \in S => m + 1 \in S
    BY <1>1, <1>8
  <2> HIDE DEF S
  <2> QED BY <1>7, <2>1, Induction
<1>10. Decoder(s)[1] = LastCodes(t, n)
  <2>1. n - n = 0 /\ 0 + 1 = 1
    BY <1>1
  <2>2. Decoder(s)[at[n - n] + 1] = LastCodes(t, n)
    BY <1>1, <1>9
  <2> QED BY <1>5, <2>1, <2>2
<1>11. LastCodes(t, n) = [k \in 1 .. n |-> Code[t[k]]]
  <2>1. \A k \in 1 .. n : Len(t) - n + k = k
    BY <1>1
  <2> QED BY <2>1 DEF LastCodes
<1> QED BY <1>10, <1>11 DEF s
-----------------------------------------------------------------------------
(***************************************************************************)
(* The steps of the driver's calls: a line is four steps for the address and *)
(* four for each column, lcd_init is 34 steps.                             *)
(***************************************************************************)
Strobe(n, rs) == [op |-> "pulse", n |-> n, rs |-> rs]
Gap == [op |-> "us", n |-> 1, rs |-> 0]
Steps == {s \in [op : {"pulse", "us", "ms"}, n : Nat, rs : {0, 1}] :
            (s.op = "pulse" => s.n \in 0 .. 15) /\ (s.op = "ms" => s.n >= 1)}

(* A half byte is a pulse and a delay.                                     *)
LEMMA NibbleIs ==
  ASSUME NEW x, NEW rs
  PROVE  nibble(x, rs) = << Strobe(x, rs), Gap >>
<1>1. 100 \div 100 = 1
  OBVIOUS
<1>2. << Strobe(x, rs) >> \o << Gap >> = << Strobe(x, rs), Gap >>
  <2> DEFINE B == {Strobe(x, rs), Gap}
  <2>1. << Strobe(x, rs) >> \in Seq(B) /\ << Gap >> \in Seq(B) /\ << Strobe(x, rs), Gap >> \in Seq(B)
    OBVIOUS
  <2> HIDE DEF B
  <2>2. << Strobe(x, rs) >> \o << Gap >> \in Seq(B) /\ Len(<< Strobe(x, rs) >> \o << Gap >>) = 2
    BY <2>1, ConcatProperties
  <2>3. \A k \in 1 .. 2 : (<< Strobe(x, rs) >> \o << Gap >>)[k] = << Strobe(x, rs), Gap >>[k]
    BY <2>1, ConcatProperties
  <2> QED BY <2>1, <2>2, <2>3, SeqEqual
<1> QED BY Zenon, <1>1, <1>2 DEF nibble, delay_us, Gap, Strobe

(* A byte is two pulses, each followed by a delay.                         *)
LEMMA SendIs ==
  ASSUME NEW b, NEW rs
  PROVE  lcd_send(b, rs) = << Strobe(b \div 16, rs), Gap, Strobe(b % 16, rs), Gap >>
<1>1. \A u, v, w, x : << u, v >> \o << w, x >> = << u, v, w, x >>
  <2> TAKE u, v, w, x
  <2> DEFINE B == {u, v, w, x}
  <2>1. << u, v >> \in Seq(B) /\ << w, x >> \in Seq(B) /\ << u, v, w, x >> \in Seq(B)
    OBVIOUS
  <2> HIDE DEF B
  <2>2. << u, v >> \o << w, x >> \in Seq(B) /\ Len(<< u, v >> \o << w, x >>) = 4
    BY <2>1, ConcatProperties
  <2>3. \A k \in 1 .. 4 : (<< u, v >> \o << w, x >>)[k] = << u, v, w, x >>[k]
    BY <2>1, ConcatProperties
  <2> QED BY <2>1, <2>2, <2>3, SeqEqual
<1> QED BY Zenon, <1>1, NibbleIs DEF lcd_send

(* The halves of a byte.                                                   *)
LEMMA NibblesOf ==
  ASSUME NEW b \in 0 .. 255
  PROVE  b \div 16 \in 0 .. 15 /\ b % 16 \in 0 .. 15 /\ 16 * (b \div 16) + (b % 16) = b
OBVIOUS

(* lcd_send gives four steps.                                              *)
LEMMA SendSteps ==
  ASSUME NEW b \in 0 .. 255, NEW rs \in {0, 1}
  PROVE  lcd_send(b, rs) \in Seq(Steps) /\ Len(lcd_send(b, rs)) = 4
<1>1. Gap \in Steps /\ \A x \in 0 .. 15 : Strobe(x, rs) \in Steps
  BY DEF Gap, Strobe, Steps
<1>2. Strobe(b \div 16, rs) \in Steps /\ Strobe(b % 16, rs) \in Steps
  BY <1>1, NibblesOf
<1>3. \A B : \A u, v, w, x \in B : << u, v, w, x >> \in Seq(B) /\ Len(<< u, v, w, x >>) = 4
  OBVIOUS
<1> QED BY Zenon, <1>1, <1>2, <1>3, SendIs

(* What the driver sends for the line r: the address and a glyph a column. *)
LineByte(r, t, e) == IF e = 0 THEN 128 + 64 * r ELSE Shown(t)[e - 1]
LineRs(e) == IF e = 0 THEN 0 ELSE 1

(* What the driver sends for a column is the glyph that should be seen.    *)
LEMMA ShownIs ==
  ASSUME NEW t, Whole(t), NEW k \in 1 .. LcdCols
  PROVE  /\ Shown(t)[k - 1] = RomCode(lcd_utf8_to_win1251(CString(t), LcdCols)[k])
         /\ Shown(t)[k - 1] \in 0 .. 255
<1> DEFINE codes == [x \in 1 .. Len(t) |-> Code[t[x]]]
<1>1. t \in Seq(Symbols) /\ Len(t) \in Nat /\ LcdCols \in Nat
  BY LcdAssumption DEF Whole
<1>2. \A x \in 1 .. Len(t) : t[x] \in Symbols
  BY <1>1, ElementOfSeq
<1>3. Len(codes) = Len(t)
  BY <1>1
<1>4. lcd_utf8_to_win1251(CString(t), LcdCols)[k] = IF k <= Len(t) THEN codes[k] ELSE Space
  <2> HIDE DEF codes
  <2>1. Decoder(CString(t))[1] = codes
    BY TextDecoded DEF codes
  <2> QED BY <1>3, <2>1 DEF lcd_utf8_to_win1251
<1>5. Shown(t)[k - 1] = IF k <= Len(t) THEN Seen(t[k]) ELSE Space
  <2>1. k - 1 \in 0 .. LcdCols - 1 /\ (k - 1) + 1 = k /\ (k - 1 < Len(t) <=> k <= Len(t))
    BY <1>1
  <2> QED BY <2>1 DEF Shown
<1>6. CASE k <= Len(t)
  <2>1. k \in 1 .. Len(t) /\ t[k] \in Symbols
    BY <1>1, <1>2, <1>6
  <2>2. RomCode(Code[t[k]]) = Seen(t[k])
    BY <2>1, SymbolCodes
  <2>3. Seen(t[k]) \in 0 .. 255
    <3>1. /\ \A x \in {"A", "Pe", "ya", "degree", "dash", "raw", "cut"} : Glyph[x] \in 0 .. 255
          /\ \A x \in DOMAIN Misdrawn : Misdrawn[x] \in 0 .. 255
          /\ DOMAIN Misdrawn = {"yo", "Yo", "laquo", "raquo"}
      BY DEF Glyph, Misdrawn
    <3>2. \A x \in Symbols : Seen(x) \in 0 .. 255
      BY <3>1, SymbolsAre DEF Seen
    <3> QED BY <2>1, <3>2
  <2> QED BY <1>4, <1>5, <1>6, <2>1, <2>2, <2>3
<1>7. CASE ~(k <= Len(t))
  <2>1. RomCode(Space) = Space /\ Space \in 0 .. 255
    BY DEF RomCode, Space
  <2> QED BY <1>4, <1>5, <1>7, <2>1
<1> QED BY <1>6, <1>7

(* lcd_set_cursor sends the address of the line's first cell.              *)
LEMMA CursorIs ==
  ASSUME NEW r \in Rows
  PROVE  lcd_set_cursor(r, 0) = lcd_send(128 + 64 * r, 0) /\ 128 + 64 * r \in 0 .. 255
<1>1. Least(0, LcdCols - 1) = 0
  BY LcdAssumption DEF Least
<1>2. row_offsets[Least(r, 1) + 1] = 64 * r
  <2>1. r = 0 \/ r = 1
    BY DEF Rows
  <2>2. CASE r = 0
    BY <2>2 DEF Least, row_offsets
  <2>3. CASE r = 1
    BY <2>3 DEF Least, row_offsets
  <2> QED BY <2>1, <2>2, <2>3
<1>3. 128 + 64 * r \in 0 .. 255 /\ ~(128 + 64 * r + 0 <= 3) /\ 128 + 64 * r + 0 = 128 + 64 * r
  BY DEF Rows
<1>4. lcd_send(128 + 64 * r, 0) \o << >> = lcd_send(128 + 64 * r, 0)
  BY <1>3, SendSteps
<1> QED BY <1>1, <1>2, <1>3, <1>4 DEF lcd_set_cursor, lcd_cmd

(* The steps of lcd_mb_write.                                              *)
LEMMA LineIs ==
  ASSUME NEW r \in Rows, NEW t, Whole(t)
  PROVE  /\ lcd_mb_write(r, CString(t)) \in Seq(Steps)
         /\ Len(lcd_mb_write(r, CString(t))) = 4 * (LcdCols + 1)
         /\ \A e \in 0 .. LcdCols : \A x \in 1 .. 4 :
              lcd_mb_write(r, CString(t))[4 * e + x]
                = lcd_send(LineByte(r, t, e), LineRs(e))[x]
<1> DEFINE s == lcd_utf8_to_win1251(CString(t), LcdCols)
           seqs == [k \in 1 .. Len(s) |-> lcd_send(RomCode(s[k]), 1)]
           l == lcd_mb_write(r, CString(t))
           c == lcd_send(128 + 64 * r, 0)
           f == FlattenSeq(seqs)
<1>1. LcdCols \in Nat /\ LcdCols >= 1
  BY LcdAssumption
<1>2. Len(s) = LcdCols
  BY <1>1 DEF lcd_utf8_to_win1251
<1> HIDE DEF s
<1>3. \A k \in 1 .. LcdCols : seqs[k] = lcd_send(LineByte(r, t, k), LineRs(k))
  <2> SUFFICES ASSUME NEW k \in 1 .. LcdCols PROVE seqs[k] = lcd_send(LineByte(r, t, k), LineRs(k))
    OBVIOUS
  <2>1. seqs[k] = lcd_send(RomCode(s[k]), 1)
    BY <1>2
  <2>2. LineByte(r, t, k) = RomCode(s[k]) /\ LineRs(k) = 1
    BY ShownIs DEF LineByte, LineRs, s
  <2> QED BY <2>1, <2>2
<1>4. /\ seqs \in Seq(Seq(Steps)) /\ Len(seqs) = LcdCols
      /\ \A j \in 1 .. LcdCols : Len(seqs[j]) = 4
  <2>1. \A j \in 1 .. LcdCols : seqs[j] \in Seq(Steps) /\ Len(seqs[j]) = 4
    <3> SUFFICES ASSUME NEW j \in 1 .. LcdCols PROVE seqs[j] \in Seq(Steps) /\ Len(seqs[j]) = 4
      OBVIOUS
    <3>1. LineByte(r, t, j) \in 0 .. 255 /\ LineRs(j) \in {0, 1}
      <4>1. Shown(t)[j - 1] \in 0 .. 255
        BY ShownIs
      <4>2. j # 0
        BY <1>1
      <4> QED BY <4>1, <4>2 DEF LineByte, LineRs
    <3>2. /\ lcd_send(LineByte(r, t, j), LineRs(j)) \in Seq(Steps)
          /\ Len(lcd_send(LineByte(r, t, j), LineRs(j))) = 4
      <4> DEFINE b == LineByte(r, t, j)
                 v == LineRs(j)
      <4> HIDE DEF b, v
      <4>1. b \in 0 .. 255 /\ v \in {0, 1}
        BY Zenon, <3>1 DEF b, v
      <4>2. lcd_send(b, v) \in Seq(Steps) /\ Len(lcd_send(b, v)) = 4
        BY ZenonT(30), <4>1, SendSteps
      <4> QED BY Zenon, <4>2 DEF b, v
    <3> HIDE DEF seqs
    <3> QED BY Zenon, <1>3, <3>2
  <2>2. seqs = [k \in 1 .. LcdCols |-> seqs[k]]
    BY <1>2
  <2> HIDE DEF seqs
  <2>3. seqs \in Seq(Seq(Steps)) /\ Len(seqs) = LcdCols
    <3> DEFINE B == Seq(Steps)
    <3>1. \A j \in 1 .. LcdCols : seqs[j] \in B
      BY <2>1
    <3> HIDE DEF B
    <3>2. seqs \in Seq(B) /\ Len(seqs) = LcdCols
      BY <1>1, <2>2, <3>1
    <3> QED BY <3>2 DEF B
  <2> QED BY <2>1, <2>3
<1>5. /\ f \in Seq(Steps) /\ Len(f) = 4 * LcdCols
      /\ \A j \in 1 .. LcdCols, x \in 1 .. 4 : f[4 * (j - 1) + x] = seqs[j][x]
  <2> HIDE DEF seqs, Steps
  <2>1. \A j \in 1 .. Len(seqs) : Len(seqs[j]) = 4
    BY <1>4
  <2>2. /\ f \in Seq(Steps) /\ Len(f) = 4 * Len(seqs)
        /\ \A j \in 1 .. Len(seqs), x \in 1 .. 4 : f[4 * (j - 1) + x] = seqs[j][x]
    BY <1>4, <2>1, FlattenSeqFours
  <2> QED BY Zenon, <1>4, <2>2
<1>6. c \in Seq(Steps) /\ Len(c) = 4
  BY CursorIs, SendSteps
<1>7. l = c \o f
  BY CursorIs, <1>2 DEF lcd_mb_write, lcd_print_win1251, s
<1> HIDE DEF l, c, f, seqs, Steps
<1>8. /\ l \in Seq(Steps) /\ Len(l) = 4 + 4 * LcdCols
      /\ \A x \in 1 .. 4 : l[x] = c[x]
      /\ \A y \in 1 .. 4 * LcdCols : l[4 + y] = f[y]
  <2>1. /\ l \in Seq(Steps) /\ Len(l) = Len(c) + Len(f)
        /\ \A y \in 1 .. Len(c) + Len(f) : l[y] = IF y <= Len(c) THEN c[y] ELSE f[y - Len(c)]
    BY <1>5, <1>6, <1>7, ConcatProperties
  <2>2. ASSUME NEW x \in 1 .. 4 PROVE l[x] = c[x]
    BY <1>1, <1>5, <1>6, <2>1
  <2>3. ASSUME NEW y \in 1 .. 4 * LcdCols PROVE l[4 + y] = f[y]
    <3>1. 4 + y \in 1 .. Len(c) + Len(f) /\ ~(4 + y <= Len(c)) /\ (4 + y) - Len(c) = y
      BY <1>1, <1>5, <1>6
    <3> QED BY <2>1, <3>1
  <2> QED BY <1>5, <1>6, <2>1, <2>2, <2>3
<1>9. ASSUME NEW e \in 0 .. LcdCols, NEW x \in 1 .. 4
      PROVE  l[4 * e + x] = lcd_send(LineByte(r, t, e), LineRs(e))[x]
  <2>1. CASE e = 0
    <3>1. l[4 * e + x] = l[x]
      BY <2>1
    <3> QED BY <1>8, <2>1, <3>1 DEF c, LineByte, LineRs
  <2>2. CASE e # 0
    <3>1. e \in 1 .. LcdCols /\ 4 * (e - 1) + x \in 1 .. 4 * LcdCols
          /\ 4 + (4 * (e - 1) + x) = 4 * e + x
      BY <1>1, <2>2
    <3>2. l[4 * e + x] = f[4 * (e - 1) + x]
      BY <1>8, <3>1
    <3>3. f[4 * (e - 1) + x] = seqs[e][x] /\ seqs[e] = lcd_send(LineByte(r, t, e), LineRs(e))
      BY <1>3, <1>5, <3>1
    <3> QED BY <3>2, <3>3
  <2> QED BY <2>1, <2>2
<1>10. Len(l) = 4 * (LcdCols + 1)
  <2>1. 4 + 4 * LcdCols = 4 * (LcdCols + 1)
    BY <1>1
  <2> QED BY Zenon, <1>8, <2>1
<1> QED BY Zenon, <1>8, <1>9, <1>10 DEF l

(* The k-th step of lcd_init.                                              *)
Nap(n) == [op |-> "ms", n |-> n, rs |-> 0]
InitStep(k) ==
  CASE k = 1 -> Nap(50) [] k = 4 -> Nap(5) [] k = 26 -> Nap(2)
    [] k \in {2, 5, 8} -> Strobe(3, 0)
    [] k \in {11, 14} -> Strobe(2, 0)
    [] k \in {16, 20} -> Strobe(8, 0)
    [] k \in {18, 22, 27, 31} -> Strobe(0, 0)
    [] k = 24 -> Strobe(1, 0)
    [] k = 29 -> Strobe(6, 0)
    [] k = 33 -> Strobe(12, 0)
    [] k \in {7, 10, 13} -> [Gap EXCEPT !.n = 2]
    [] OTHER -> Gap

Begins(l, m) == /\ l \in Seq(Steps) /\ Len(l) = m
                /\ \A k \in 1 .. m : l[k] = InitStep(k)
Continues(l, n, m) == /\ l \in Seq(Steps) /\ Len(l) = m
                      /\ \A k \in 1 .. m : l[k] = InitStep(n + k)

(* The steps of lcd_init go on where those before them end.                *)
LEMMA Joined ==
  ASSUME NEW l, NEW n \in Nat, NEW e, NEW m \in Nat, NEW w,
         Begins(l, n), Continues(e, n, m), w = n + m
  PROVE  Begins(l \o e, w)
<1>1. l \in Seq(Steps) /\ e \in Seq(Steps) /\ Len(l) = n /\ Len(e) = m
  BY DEF Begins, Continues
<1>2. /\ l \o e \in Seq(Steps) /\ Len(l \o e) = n + m
      /\ \A k \in 1 .. n + m : (l \o e)[k] = IF k <= n THEN l[k] ELSE e[k - n]
  <2> HIDE DEF Steps
  <2> QED BY <1>1, ConcatProperties
<1>3. ASSUME NEW k \in 1 .. n + m PROVE (l \o e)[k] = InitStep(k)
  <2>1. CASE k <= n
    BY <1>2, <2>1 DEF Begins
  <2>2. CASE ~(k <= n)
    <3>1. k - n \in 1 .. m /\ n + (k - n) = k
      BY <2>2
    <3>2. e[k - n] = InitStep(n + (k - n))
      BY Zenon, <3>1 DEF Continues
    <3> QED BY <1>2, <2>2, <3>1, <3>2
  <2> QED BY <2>1, <2>2
<1> QED BY <1>2, <1>3 DEF Begins

(* The steps of lcd_init, one by one.                                      *)
LEMMA InitStepIs ==
  /\ InitStep(1) = Nap(50) /\ InitStep(2) = Strobe(3, 0) /\ InitStep(3) = Gap
  /\ InitStep(4) = Nap(5) /\ InitStep(5) = Strobe(3, 0) /\ InitStep(6) = Gap
  /\ InitStep(7) = [Gap EXCEPT !.n = 2]
  /\ InitStep(8) = Strobe(3, 0) /\ InitStep(9) = Gap /\ InitStep(10) = [Gap EXCEPT !.n = 2]
  /\ InitStep(11) = Strobe(2, 0) /\ InitStep(12) = Gap /\ InitStep(13) = [Gap EXCEPT !.n = 2]
  /\ InitStep(14) = Strobe(2, 0) /\ InitStep(15) = Gap
  /\ InitStep(16) = Strobe(8, 0) /\ InitStep(17) = Gap
  /\ InitStep(18) = Strobe(0, 0) /\ InitStep(19) = Gap
  /\ InitStep(20) = Strobe(8, 0) /\ InitStep(21) = Gap
  /\ InitStep(22) = Strobe(0, 0) /\ InitStep(23) = Gap
  /\ InitStep(24) = Strobe(1, 0) /\ InitStep(25) = Gap /\ InitStep(26) = Nap(2)
  /\ InitStep(27) = Strobe(0, 0) /\ InitStep(28) = Gap
  /\ InitStep(29) = Strobe(6, 0) /\ InitStep(30) = Gap
  /\ InitStep(31) = Strobe(0, 0) /\ InitStep(32) = Gap
  /\ InitStep(33) = Strobe(12, 0) /\ InitStep(34) = Gap
BY DEF InitStep

(* A sequence of one step of lcd_init.                                     *)
LEMMA OneStep ==
  ASSUME NEW n \in Nat, InitStep(n + 1) \in Steps
  PROVE  Continues(<< InitStep(n + 1) >>, n, 1)
<1> HIDE DEF Steps, InitStep
<1>1. << InitStep(n + 1) >> \in Seq(Steps) /\ Len(<< InitStep(n + 1) >>) = 1
  OBVIOUS
<1> QED BY <1>1 DEF Continues

(* A sequence of two steps of lcd_init.                                    *)
LEMMA TwoSteps ==
  ASSUME NEW n \in Nat, NEW a \in Steps, NEW b \in Steps,
         a = InitStep(n + 1), b = InitStep(n + 2)
  PROVE  Continues(<< a, b >>, n, 2)
<1> HIDE DEF Steps, InitStep
<1>1. << a, b >> \in Seq(Steps) /\ Len(<< a, b >>) = 2
  OBVIOUS
<1>2. ASSUME NEW k \in 1 .. 2 PROVE << a, b >>[k] = InitStep(n + k)
  <2>1. k = 1 \/ k = 2
    OBVIOUS
  <2> QED BY <2>1
<1> QED BY <1>1, <1>2 DEF Continues

(* A sequence of four steps of lcd_init.                                   *)
LEMMA FourSteps ==
  ASSUME NEW n \in Nat, NEW a \in Steps, NEW b \in Steps, NEW c \in Steps, NEW d \in Steps,
         a = InitStep(n + 1), b = InitStep(n + 2), c = InitStep(n + 3), d = InitStep(n + 4)
  PROVE  Continues(<< a, b, c, d >>, n, 4)
<1> HIDE DEF Steps, InitStep
<1>1. << a, b, c, d >> \in Seq(Steps) /\ Len(<< a, b, c, d >>) = 4
  OBVIOUS
<1>2. ASSUME NEW k \in 1 .. 4 PROVE << a, b, c, d >>[k] = InitStep(n + k)
  <2>1. k = 1 \/ k = 2 \/ k = 3 \/ k = 4
    OBVIOUS
  <2> QED BY <2>1
<1> QED BY <1>1, <1>2 DEF Continues

(* The kinds of steps.                                                     *)
LEMMA StepTypes ==
  /\ Gap \in Steps /\ [Gap EXCEPT !.n = 2] \in Steps
  /\ \A n \in Nat \ {0} : Nap(n) \in Steps
  /\ \A n \in 0 .. 15 : Strobe(n, 0) \in Steps
BY DEF Gap, Nap, Strobe, Steps

(* A command that is not a clear is its byte alone.                        *)
LEMMA CommandIs ==
  ASSUME NEW b \in 4 .. 255
  PROVE  lcd_cmd(b) = << Strobe(b \div 16, 0), Gap, Strobe(b % 16, 0), Gap >>
<1>1. ~(b <= 3) /\ b \in 0 .. 255
  OBVIOUS
<1>2. lcd_send(b, 0) \in Seq(Steps)
  BY <1>1, SendSteps
<1>3. lcd_send(b, 0) \o << >> = lcd_send(b, 0)
  BY <1>2, ConcatEmptySeq
<1> QED BY <1>1, <1>3, SendIs DEF lcd_cmd

(* The command 1 is followed by a sleep.                                   *)
LEMMA OneIsShort == 1 <= 3
OBVIOUS

(* The sleep after the clear is the 26th step.                             *)
LEMMA ThenNap ==
  ASSUME NEW l, Continues(l, 21, 4)
  PROVE  Continues(l \o << Nap(2) >>, 21, 5)
<1> DEFINE e == << Nap(2) >>
<1>1. l \in Seq(Steps) /\ Len(l) = 4 /\ \A k \in 1 .. 4 : l[k] = InitStep(21 + k)
  BY DEF Continues
<1>2. e \in Seq(Steps) /\ Len(e) = 1 /\ e[1] = InitStep(21 + 5)
  <2>1. Nap(2) \in Steps /\ InitStep(21 + 5) = Nap(2)
    BY StepTypes, InitStepIs
  <2> HIDE DEF Steps
  <2> QED BY <2>1
<1> HIDE DEF e
<1>3. /\ l \o e \in Seq(Steps) /\ Len(l \o e) = 4 + 1
      /\ \A k \in 1 .. 4 + 1 : (l \o e)[k] = IF k <= 4 THEN l[k] ELSE e[k - 4]
  <2> HIDE DEF Steps
  <2>1. /\ l \o e \in Seq(Steps) /\ Len(l \o e) = Len(l) + Len(e)
        /\ \A k \in 1 .. Len(l) + Len(e) : (l \o e)[k] = IF k <= Len(l) THEN l[k] ELSE e[k - Len(l)]
    BY <1>1, <1>2, ConcatProperties
  <2> QED BY Zenon, <1>1, <1>2, <2>1
<1>4. ASSUME NEW k \in 1 .. 5 PROVE (l \o e)[k] = InitStep(21 + k)
  <2>1. k \in 1 .. 4 + 1
    OBVIOUS
  <2>2. CASE k <= 4
    <3>1. k \in 1 .. 4
      BY <2>2
    <3>2. (l \o e)[k] = l[k]
      BY Zenon, <1>3, <2>1, <2>2
    <3> QED BY Zenon, <1>1, <3>1, <3>2
  <2>3. CASE ~(k <= 4)
    <3>1. k = 5 /\ k - 4 = 1
      BY <2>3
    <3> QED BY <1>2, <1>3, <2>1, <2>3, <3>1
  <2> QED BY <2>2, <2>3
<1>5. Len(l \o e) = 5
  BY <1>3
<1>6. l \o e \in Seq(Steps)
  BY <1>3
<1>7. Continues(l \o e, 21, 5)
  BY <1>4, <1>5, <1>6 DEF Continues
<1> QED BY <1>7 DEF e

(* The commands of lcd_init after its clear.                               *)
LEMMA LastCommands ==
  Continues(lcd_cmd(6), 26, 4) /\ Continues(lcd_cmd(12), 30, 4)
<1>1. /\ lcd_cmd(6) = << Strobe(0, 0), Gap, Strobe(6, 0), Gap >>
      /\ lcd_cmd(12) = << Strobe(0, 0), Gap, Strobe(12, 0), Gap >>
  <2>1. /\ 6 \div 16 = 0 /\ 6 % 16 = 6 /\ 12 \div 16 = 0 /\ 12 % 16 = 12
        /\ 6 \in 4 .. 255 /\ 12 \in 4 .. 255
    OBVIOUS
  <2> QED BY <2>1, CommandIs
<1>2. Continues(lcd_cmd(6), 26, 4)
  <2>1. Continues(<< Strobe(0, 0), Gap, Strobe(6, 0), Gap >>, 26, 4)
    <3>1. /\ 26 \in Nat
          /\ Strobe(0, 0) = InitStep(26 + 1)
          /\ Gap = InitStep(26 + 2)
          /\ Strobe(6, 0) = InitStep(26 + 3)
          /\ Gap = InitStep(26 + 4)
      BY InitStepIs
    <3>2. Strobe(0, 0) \in Steps /\ Gap \in Steps /\ Strobe(6, 0) \in Steps
      BY StepTypes
    <3> QED BY <3>1, <3>2, FourSteps
  <2>2. lcd_cmd(6) = << Strobe(0, 0), Gap, Strobe(6, 0), Gap >>
    BY Zenon, <1>1
  <2> QED BY Zenon, <2>1, <2>2
<1>3. Continues(lcd_cmd(12), 30, 4)
  <2>1. Continues(<< Strobe(0, 0), Gap, Strobe(12, 0), Gap >>, 30, 4)
    <3>1. /\ 30 \in Nat
          /\ Strobe(0, 0) = InitStep(30 + 1)
          /\ Gap = InitStep(30 + 2)
          /\ Strobe(12, 0) = InitStep(30 + 3)
          /\ Gap = InitStep(30 + 4)
      BY InitStepIs
    <3>2. Strobe(0, 0) \in Steps /\ Gap \in Steps /\ Strobe(12, 0) \in Steps
      BY StepTypes
    <3> QED BY <3>1, <3>2, FourSteps
  <2>2. lcd_cmd(12) = << Strobe(0, 0), Gap, Strobe(12, 0), Gap >>
    BY Zenon, <1>1
  <2> QED BY Zenon, <2>1, <2>2
<1> QED BY <1>2, <1>3

(* lcd_init is these 34 steps.                                             *)
LEMMA InitIs == Begins(lcd_init, 34)
<1>1. /\ delay_ms(50) = << Nap(50) >> /\ delay_ms(5) = << Nap(5) >> /\ delay_ms(2) = << Nap(2) >>
      /\ delay_us(200) = << [Gap EXCEPT !.n = 2] >>
  <2>1. 200 \div 100 = 2
    OBVIOUS
  <2>2. [Gap EXCEPT !.n = 2] = [op |-> "us", n |-> 2, rs |-> 0]
    BY DEF Gap
  <2> QED BY Zenon, <2>1, <2>2 DEF delay_ms, delay_us, Nap
<1>2. /\ lcd_cmd(40) = << Strobe(2, 0), Gap, Strobe(8, 0), Gap >>
      /\ lcd_cmd(8) = << Strobe(0, 0), Gap, Strobe(8, 0), Gap >>
      /\ lcd_cmd(6) = << Strobe(0, 0), Gap, Strobe(6, 0), Gap >>
      /\ lcd_cmd(12) = << Strobe(0, 0), Gap, Strobe(12, 0), Gap >>
  <2>1. /\ 40 \div 16 = 2 /\ 40 % 16 = 8 /\ 8 \div 16 = 0 /\ 8 % 16 = 8
        /\ 6 \div 16 = 0 /\ 6 % 16 = 6 /\ 12 \div 16 = 0 /\ 12 % 16 = 12
        /\ \A b \in {40, 8, 6, 12} : b \in 4 .. 255
    OBVIOUS
  <2>2. \A b \in {40, 8, 6, 12} : lcd_cmd(b) = << Strobe(b \div 16, 0), Gap, Strobe(b % 16, 0), Gap >>
    BY Zenon, <2>1, CommandIs
  <2> QED BY Zenon, <2>1, <2>2
<1>3. lcd_send(1, 0) = << Strobe(0, 0), Gap, Strobe(1, 0), Gap >>
  <2>1. 1 \div 16 = 0 /\ 1 % 16 = 1
    OBVIOUS
  <2> QED BY Zenon, <2>1, SendIs
<1>4. Continues(delay_ms(50), 0, 1)
  <2>1. Continues(<< Nap(50) >>, 0, 1)
    <3>1. /\ 0 \in Nat
          /\ Nap(50) = InitStep(0 + 1)
      BY InitStepIs
    <3>2. Nap(50) \in Steps
      BY StepTypes
    <3> QED BY <3>1, <3>2, OneStep
  <2>2. delay_ms(50) = << Nap(50) >>
    BY Zenon, <1>1
  <2> QED BY Zenon, <2>1, <2>2
<1>5. Continues(nibble(3, 0), 1, 2)
  <2>1. Continues(<< Strobe(3, 0), Gap >>, 1, 2)
    <3>1. /\ 1 \in Nat
          /\ Strobe(3, 0) = InitStep(1 + 1)
          /\ Gap = InitStep(1 + 2)
      BY InitStepIs
    <3>2. Strobe(3, 0) \in Steps /\ Gap \in Steps
      BY StepTypes
    <3> QED BY <3>1, <3>2, TwoSteps
  <2>2. nibble(3, 0) = << Strobe(3, 0), Gap >>
    BY Zenon, NibbleIs
  <2> QED BY Zenon, <2>1, <2>2
<1>6. Continues(delay_ms(5), 3, 1)
  <2>1. Continues(<< Nap(5) >>, 3, 1)
    <3>1. /\ 3 \in Nat
          /\ Nap(5) = InitStep(3 + 1)
      BY InitStepIs
    <3>2. Nap(5) \in Steps
      BY StepTypes
    <3> QED BY <3>1, <3>2, OneStep
  <2>2. delay_ms(5) = << Nap(5) >>
    BY Zenon, <1>1
  <2> QED BY Zenon, <2>1, <2>2
<1>7. Continues(nibble(3, 0), 4, 2)
  <2>1. Continues(<< Strobe(3, 0), Gap >>, 4, 2)
    <3>1. /\ 4 \in Nat
          /\ Strobe(3, 0) = InitStep(4 + 1)
          /\ Gap = InitStep(4 + 2)
      BY InitStepIs
    <3>2. Strobe(3, 0) \in Steps /\ Gap \in Steps
      BY StepTypes
    <3> QED BY <3>1, <3>2, TwoSteps
  <2>2. nibble(3, 0) = << Strobe(3, 0), Gap >>
    BY Zenon, NibbleIs
  <2> QED BY Zenon, <2>1, <2>2
<1>8. Continues(delay_us(200), 6, 1)
  <2>1. Continues(<< [Gap EXCEPT !.n = 2] >>, 6, 1)
    <3>1. /\ 6 \in Nat
          /\ [Gap EXCEPT !.n = 2] = InitStep(6 + 1)
      BY InitStepIs
    <3>2. [Gap EXCEPT !.n = 2] \in Steps
      BY StepTypes
    <3> QED BY <3>1, <3>2, OneStep
  <2>2. delay_us(200) = << [Gap EXCEPT !.n = 2] >>
    BY Zenon, <1>1
  <2> QED BY Zenon, <2>1, <2>2
<1>9. Continues(nibble(3, 0), 7, 2)
  <2>1. Continues(<< Strobe(3, 0), Gap >>, 7, 2)
    <3>1. /\ 7 \in Nat
          /\ Strobe(3, 0) = InitStep(7 + 1)
          /\ Gap = InitStep(7 + 2)
      BY InitStepIs
    <3>2. Strobe(3, 0) \in Steps /\ Gap \in Steps
      BY StepTypes
    <3> QED BY <3>1, <3>2, TwoSteps
  <2>2. nibble(3, 0) = << Strobe(3, 0), Gap >>
    BY Zenon, NibbleIs
  <2> QED BY Zenon, <2>1, <2>2
<1>10. Continues(delay_us(200), 9, 1)
  <2>1. Continues(<< [Gap EXCEPT !.n = 2] >>, 9, 1)
    <3>1. /\ 9 \in Nat
          /\ [Gap EXCEPT !.n = 2] = InitStep(9 + 1)
      BY InitStepIs
    <3>2. [Gap EXCEPT !.n = 2] \in Steps
      BY StepTypes
    <3> QED BY <3>1, <3>2, OneStep
  <2>2. delay_us(200) = << [Gap EXCEPT !.n = 2] >>
    BY Zenon, <1>1
  <2> QED BY Zenon, <2>1, <2>2
<1>11. Continues(nibble(2, 0), 10, 2)
  <2>1. Continues(<< Strobe(2, 0), Gap >>, 10, 2)
    <3>1. /\ 10 \in Nat
          /\ Strobe(2, 0) = InitStep(10 + 1)
          /\ Gap = InitStep(10 + 2)
      BY InitStepIs
    <3>2. Strobe(2, 0) \in Steps /\ Gap \in Steps
      BY StepTypes
    <3> QED BY <3>1, <3>2, TwoSteps
  <2>2. nibble(2, 0) = << Strobe(2, 0), Gap >>
    BY Zenon, NibbleIs
  <2> QED BY Zenon, <2>1, <2>2
<1>12. Continues(delay_us(200), 12, 1)
  <2>1. Continues(<< [Gap EXCEPT !.n = 2] >>, 12, 1)
    <3>1. /\ 12 \in Nat
          /\ [Gap EXCEPT !.n = 2] = InitStep(12 + 1)
      BY InitStepIs
    <3>2. [Gap EXCEPT !.n = 2] \in Steps
      BY StepTypes
    <3> QED BY <3>1, <3>2, OneStep
  <2>2. delay_us(200) = << [Gap EXCEPT !.n = 2] >>
    BY Zenon, <1>1
  <2> QED BY Zenon, <2>1, <2>2
<1>13. Continues(lcd_cmd(40), 13, 4)
  <2>1. Continues(<< Strobe(2, 0), Gap, Strobe(8, 0), Gap >>, 13, 4)
    <3>1. /\ 13 \in Nat
          /\ Strobe(2, 0) = InitStep(13 + 1)
          /\ Gap = InitStep(13 + 2)
          /\ Strobe(8, 0) = InitStep(13 + 3)
          /\ Gap = InitStep(13 + 4)
      BY InitStepIs
    <3>2. Strobe(2, 0) \in Steps /\ Gap \in Steps /\ Strobe(8, 0) \in Steps
      BY StepTypes
    <3> QED BY <3>1, <3>2, FourSteps
  <2>2. lcd_cmd(40) = << Strobe(2, 0), Gap, Strobe(8, 0), Gap >>
    BY Zenon, <1>2
  <2> QED BY Zenon, <2>1, <2>2
<1>14. Continues(lcd_cmd(8), 17, 4)
  <2>1. Continues(<< Strobe(0, 0), Gap, Strobe(8, 0), Gap >>, 17, 4)
    <3>1. /\ 17 \in Nat
          /\ Strobe(0, 0) = InitStep(17 + 1)
          /\ Gap = InitStep(17 + 2)
          /\ Strobe(8, 0) = InitStep(17 + 3)
          /\ Gap = InitStep(17 + 4)
      BY InitStepIs
    <3>2. Strobe(0, 0) \in Steps /\ Gap \in Steps /\ Strobe(8, 0) \in Steps
      BY StepTypes
    <3> QED BY <3>1, <3>2, FourSteps
  <2>2. lcd_cmd(8) = << Strobe(0, 0), Gap, Strobe(8, 0), Gap >>
    BY Zenon, <1>2
  <2> QED BY Zenon, <2>1, <2>2
<1>15. Continues(lcd_cmd(1), 21, 5)
  <2>1. Continues(<< Strobe(0, 0), Gap, Strobe(1, 0), Gap >>, 21, 4)
    <3>1. /\ 21 \in Nat
          /\ Strobe(0, 0) = InitStep(21 + 1) /\ Gap = InitStep(21 + 2)
          /\ Strobe(1, 0) = InitStep(21 + 3) /\ Gap = InitStep(21 + 4)
      BY InitStepIs
    <3>2. Strobe(0, 0) \in Steps /\ Gap \in Steps /\ Strobe(1, 0) \in Steps
      BY StepTypes
    <3> QED BY <3>1, <3>2, FourSteps
  <2>2. lcd_cmd(1) = << Strobe(0, 0), Gap, Strobe(1, 0), Gap >> \o << Nap(2) >>
    BY Zenon, <1>1, <1>3, OneIsShort DEF lcd_cmd
  <2> QED BY <2>1, <2>2, ThenNap
<1>16. Continues(lcd_cmd(6), 26, 4) /\ Continues(lcd_cmd(12), 30, 4)
  BY LastCommands
<1> DEFINE l0 == delay_ms(50)
           l1 == l0 \o nibble(3, 0)
           l2 == l1 \o delay_ms(5)
           l3 == l2 \o nibble(3, 0)
           l4 == l3 \o delay_us(200)
           l5 == l4 \o nibble(3, 0)
           l6 == l5 \o delay_us(200)
           l7 == l6 \o nibble(2, 0)
           l8 == l7 \o delay_us(200)
           l9 == l8 \o lcd_cmd(40)
           l10 == l9 \o lcd_cmd(8)
           l11 == l10 \o lcd_cmd(1)
           l12 == l11 \o lcd_cmd(6)
           l13 == l12 \o lcd_cmd(12)
<1>18. Begins(l0, 1)
  <2>1. \A k \in 1 .. 1 : 0 + k = k
    OBVIOUS
  <2> QED BY Zenon, <1>4, <2>1 DEF Begins, Continues
<1>19. Begins(l1, 3)
  <2> HIDE DEF l0
  <2>1. 3 = 1 + 2 /\ 1 \in Nat /\ 2 \in Nat
    OBVIOUS
  <2> QED BY <1>18, <1>5, <2>1, Joined
<1>20. Begins(l2, 4)
  <2> HIDE DEF l1
  <2>1. 4 = 3 + 1 /\ 3 \in Nat /\ 1 \in Nat
    OBVIOUS
  <2> QED BY <1>19, <1>6, <2>1, Joined
<1>21. Begins(l3, 6)
  <2> HIDE DEF l2
  <2>1. 6 = 4 + 2 /\ 4 \in Nat /\ 2 \in Nat
    OBVIOUS
  <2> QED BY <1>20, <1>7, <2>1, Joined
<1>22. Begins(l4, 7)
  <2> HIDE DEF l3
  <2>1. 7 = 6 + 1 /\ 6 \in Nat /\ 1 \in Nat
    OBVIOUS
  <2> QED BY <1>21, <1>8, <2>1, Joined
<1>23. Begins(l5, 9)
  <2> HIDE DEF l4
  <2>1. 9 = 7 + 2 /\ 7 \in Nat /\ 2 \in Nat
    OBVIOUS
  <2> QED BY <1>22, <1>9, <2>1, Joined
<1>24. Begins(l6, 10)
  <2> HIDE DEF l5
  <2>1. 10 = 9 + 1 /\ 9 \in Nat /\ 1 \in Nat
    OBVIOUS
  <2> QED BY <1>23, <1>10, <2>1, Joined
<1>25. Begins(l7, 12)
  <2> HIDE DEF l6
  <2>1. 12 = 10 + 2 /\ 10 \in Nat /\ 2 \in Nat
    OBVIOUS
  <2> QED BY <1>24, <1>11, <2>1, Joined
<1>26. Begins(l8, 13)
  <2> HIDE DEF l7
  <2>1. 13 = 12 + 1 /\ 12 \in Nat /\ 1 \in Nat
    OBVIOUS
  <2> QED BY <1>25, <1>12, <2>1, Joined
<1>27. Begins(l9, 17)
  <2> HIDE DEF l8
  <2>1. 17 = 13 + 4 /\ 13 \in Nat /\ 4 \in Nat
    OBVIOUS
  <2> QED BY <1>26, <1>13, <2>1, Joined
<1>28. Begins(l10, 21)
  <2> HIDE DEF l9
  <2>1. 21 = 17 + 4 /\ 17 \in Nat /\ 4 \in Nat
    OBVIOUS
  <2> QED BY <1>27, <1>14, <2>1, Joined
<1>29. Begins(l11, 26)
  <2> HIDE DEF l10
  <2>1. 26 = 21 + 5 /\ 21 \in Nat /\ 5 \in Nat
    OBVIOUS
  <2> QED BY <1>28, <1>15, <2>1, Joined
<1>30. Begins(l12, 30)
  <2> HIDE DEF l11
  <2>1. 30 = 26 + 4 /\ 26 \in Nat /\ 4 \in Nat
    OBVIOUS
  <2> QED BY <1>29, <1>16, <2>1, Joined
<1>31. Begins(l13, 34)
  <2> HIDE DEF l12
  <2>1. 34 = 30 + 4 /\ 30 \in Nat /\ 4 \in Nat
    OBVIOUS
  <2> QED BY <1>30, <1>16, <2>1, Joined
<1>32. lcd_init = l13
  BY Zenon DEF lcd_init
<1> QED BY <1>31, <1>32

(* What is left of a call, from its k-th step on.                          *)
LEMMA RestOf ==
  ASSUME NEW l \in Seq(Steps), NEW n \in Nat, n = Len(l), NEW k \in 1 .. n
  PROVE  /\ SubSeq(l, k, n) \in Seq(Steps) /\ Len(SubSeq(l, k, n)) = n - k + 1
         /\ \A j \in 1 .. n - k + 1 : SubSeq(l, k, n)[j] = l[k + j - 1]
<1> HIDE DEF Steps
<1>1. \A x \in k .. n : l[x] \in Steps
  OBVIOUS
<1> QED BY <1>1, SubSeqProperties

(* What is left of lcd_init after its clear.                               *)
LEMMA AfterClearIs ==
  SubSeq(lcd_init, 27, 34) = AfterClear
<1> HIDE DEF Steps
<1>1. lcd_init \in Seq(Steps) /\ Len(lcd_init) = 34 /\ \A k \in 1 .. 34 : lcd_init[k] = InitStep(k)
  BY InitIs DEF Begins
<1>2. /\ SubSeq(lcd_init, 27, 34) \in Seq(Steps) /\ Len(SubSeq(lcd_init, 27, 34)) = 8
      /\ \A k \in 1 .. 8 : SubSeq(lcd_init, 27, 34)[k] = lcd_init[27 + k - 1]
  <2>1. 34 \in Nat /\ 27 \in 1 .. 34 /\ 34 - 27 + 1 = 8
    OBVIOUS
  <2>2. /\ SubSeq(lcd_init, 27, 34) \in Seq(Steps) /\ Len(SubSeq(lcd_init, 27, 34)) = 34 - 27 + 1
        /\ \A k \in 1 .. 34 - 27 + 1 : SubSeq(lcd_init, 27, 34)[k] = lcd_init[27 + k - 1]
    BY Zenon, <1>1, <2>1, RestOf
  <2> QED BY Zenon, <2>1, <2>2
<1>3. /\ lcd_cmd(6) \in Seq(Steps) /\ Len(lcd_cmd(6)) = 4
      /\ lcd_cmd(12) \in Seq(Steps) /\ Len(lcd_cmd(12)) = 4
      /\ \A k \in 1 .. 4 : lcd_cmd(6)[k] = InitStep(26 + k) /\ lcd_cmd(12)[k] = InitStep(30 + k)
  BY Zenon, LastCommands DEF Continues
<1>4. /\ AfterClear \in Seq(Steps) /\ Len(AfterClear) = 8
      /\ \A k \in 1 .. 8 : AfterClear[k] = IF k <= 4 THEN lcd_cmd(6)[k] ELSE lcd_cmd(12)[k - 4]
  <2> DEFINE a == lcd_cmd(6)
             b == lcd_cmd(12)
  <2>1. a \in Seq(Steps) /\ b \in Seq(Steps) /\ Len(a) = 4 /\ Len(b) = 4
    BY Zenon, <1>3
  <2> HIDE DEF a, b
  <2>2. /\ a \o b \in Seq(Steps) /\ Len(a \o b) = Len(a) + Len(b)
        /\ \A k \in 1 .. Len(a) + Len(b) : (a \o b)[k] = IF k <= Len(a) THEN a[k] ELSE b[k - Len(a)]
    BY <2>1, ConcatProperties
  <2>3. 4 + 4 = 8
    OBVIOUS
  <2> QED BY Zenon, <2>1, <2>2, <2>3 DEF AfterClear, a, b
<1>5. ASSUME NEW k \in 1 .. 8 PROVE SubSeq(lcd_init, 27, 34)[k] = AfterClear[k]
  <2>1. SubSeq(lcd_init, 27, 34)[k] = InitStep(26 + k)
    <3>1. 27 + k - 1 = 26 + k /\ 26 + k \in 1 .. 34
      OBVIOUS
    <3> QED BY Zenon, <1>1, <1>2, <3>1
  <2>2. AfterClear[k] = InitStep(26 + k)
    <3>1. CASE k <= 4
      <4>1. k \in 1 .. 4
        BY <3>1
      <4> QED BY Zenon, <1>3, <1>4, <3>1, <4>1
    <3>2. CASE ~(k <= 4)
      <4>1. k - 4 \in 1 .. 4 /\ 30 + (k - 4) = 26 + k
        BY <3>2
      <4> QED BY Zenon, <1>3, <1>4, <3>2, <4>1
    <3> QED BY <3>1, <3>2
  <2> QED BY <2>1, <2>2
<1> QED BY <1>2, <1>4, <1>5, SeqEqual
-----------------------------------------------------------------------------
(***************************************************************************)
(* The panel: what time, a command and a glyph do to it.                   *)
(***************************************************************************)
Addresses == 0 .. 127 \cup {Nowhere}
Halves == 0 .. 15 \cup {Nowhere}
Delays == 0 .. 400
Memories == [Cells -> 0 .. 255]
Panels == [wide : BOOLEAN, half : Halves, busy : Delays, on : BOOLEAN,
           two : BOOLEAN, inc : BOOLEAN, ac : Addresses, ram : Memories]
Blank == [a \in Cells |-> Space]

(* The panel's times.                                                      *)
LEMMA TimingIs ==
  ASSUME timing \in Timings
  PROVE  timing.clear \in 0 .. 16 /\ timing.late \subseteq Nat
BY TimingAssumption

(* Time changes nothing of a panel but how long it is busy.                *)
LEMMA ElapsedIs ==
  ASSUME NEW p \in Panels, NEW t \in Nat
  PROVE  /\ Elapsed(p, t) \in Panels
         /\ Elapsed(p, t).busy = IF p.busy > t THEN p.busy - t ELSE 0
         /\ Elapsed(p, t).wide = p.wide /\ Elapsed(p, t).half = p.half
         /\ Elapsed(p, t).on = p.on /\ Elapsed(p, t).two = p.two /\ Elapsed(p, t).inc = p.inc
         /\ Elapsed(p, t).ac = p.ac /\ Elapsed(p, t).ram = p.ram
<1> DEFINE left == IF p.busy > t THEN p.busy - t ELSE 0
<1>1. left \in Delays
  <2>1. p.busy \in 0 .. 400
    BY DEF Panels, Delays
  <2> DEFINE b == p.busy
  <2> HIDE DEF b
  <2>2. b \in 0 .. 400
    BY <2>1 DEF b
  <2>3. (IF b > t THEN b - t ELSE 0) \in 0 .. 400
    BY <2>2
  <2> QED BY <2>3 DEF Delays, b
<1>2. Elapsed(p, t) = [p EXCEPT !.busy = left]
  BY DEF Elapsed, Panels
<1> HIDE DEF left
<1>3. /\ Elapsed(p, t) \in Panels
      /\ Elapsed(p, t).busy = left
      /\ Elapsed(p, t).wide = p.wide /\ Elapsed(p, t).half = p.half
      /\ Elapsed(p, t).on = p.on /\ Elapsed(p, t).two = p.two /\ Elapsed(p, t).inc = p.inc
      /\ Elapsed(p, t).ac = p.ac /\ Elapsed(p, t).ram = p.ram
  BY <1>1, <1>2 DEF Panels
<1> QED BY <1>3 DEF left

(* A panel that was cleared.                                               *)
LEMMA BlankIs ==
  Blank \in Memories
BY DEF Blank, Space, Memories

(* What each command leaves.                                               *)
CommandedAs(p, b, q) ==
  /\ q \in Panels
  /\ q.half = p.half
  /\ IF b \in 1 .. 3 THEN q.busy = timing.clear ELSE q.busy = 1
  /\ IF b \in 32 .. 63 THEN q.wide = Bit(b, 16) /\ q.two = Bit(b, 8)
                      ELSE q.wide = p.wide /\ q.two = p.two
  /\ IF b \in 8 .. 15 THEN q.on = Bit(b, 4) ELSE q.on = p.on
  /\ b \in 4 .. 7 => q.inc = Bit(b, 2)
  /\ b = 1 => q.inc = TRUE /\ q.ram = Blank
  /\ b = 0 \/ b > 7 => q.inc = p.inc
  /\ b # 1 => q.ram = p.ram
  /\ b >= 128 => q.ac = b - 128

(* The fields that are switches.                                           *)
LEMMA SwitchedIs ==
  ASSUME NEW p \in Panels, NEW x \in BOOLEAN, NEW y \in BOOLEAN
  PROVE  /\ [[p EXCEPT !.busy = 1] EXCEPT !.wide = x, !.two = y] \in Panels
         /\ [[p EXCEPT !.busy = 1] EXCEPT !.on = x] \in Panels
         /\ [[p EXCEPT !.busy = 1] EXCEPT !.inc = x] \in Panels
<1>1. 1 \in Delays
  BY DEF Delays
<1>2. [p EXCEPT !.busy = 1] \in Panels
  BY <1>1 DEF Panels
<1> QED BY <1>2 DEF Panels

(* Each command leaves what CommandedAs says.                              *)
LEMMA CommandedIs ==
  ASSUME timing \in Timings, NEW p \in Panels, NEW b \in 0 .. 255
  PROVE  CommandedAs(p, b, Commanded(p, b))
<1>1. timing.clear \in Delays /\ 1 \in Delays /\ 0 \in Addresses /\ Nowhere \in Addresses
  BY TimingIs DEF Delays, Addresses
<1>2. Bit(b, 16) \in BOOLEAN /\ Bit(b, 8) \in BOOLEAN /\ Bit(b, 4) \in BOOLEAN /\ Bit(b, 2) \in BOOLEAN
  BY DEF Bit
<1>3. CASE b >= 128
  <2>1. Commanded(p, b) = [[p EXCEPT !.busy = 1] EXCEPT !.ac = b - 128]
    BY <1>3 DEF Commanded
  <2>2. b - 128 \in Addresses
    BY <1>3 DEF Addresses
  <2>3. Commanded(p, b) \in Panels
    <3> DEFINE v == b - 128
    <3> HIDE DEF v
    <3>1. [p EXCEPT !.busy = 1] \in Panels
      BY <1>1 DEF Panels
    <3>2. v \in Addresses
      BY <2>2 DEF v
    <3>3. [[p EXCEPT !.busy = 1] EXCEPT !.ac = v] \in Panels
      BY <3>1, <3>2 DEF Panels
    <3> QED BY Zenon, <2>1, <3>3 DEF v
  <2>4. /\ Commanded(p, b).half = p.half /\ Commanded(p, b).busy = 1 /\ Commanded(p, b).wide = p.wide
        /\ Commanded(p, b).two = p.two /\ Commanded(p, b).on = p.on /\ Commanded(p, b).inc = p.inc
        /\ Commanded(p, b).ram = p.ram /\ Commanded(p, b).ac = b - 128
    BY <1>1, <1>2, <2>1, <2>2 DEF Panels
  <2> QED BY <1>3, <2>3, <2>4 DEF CommandedAs
<1>4. CASE b \in 64 .. 127
  <2>1. Commanded(p, b) = [[p EXCEPT !.busy = 1] EXCEPT !.ac = Nowhere]
    BY <1>4 DEF Commanded
  <2>3. Commanded(p, b) \in Panels
    BY <1>1, <1>2, <2>1 DEF Panels
  <2>4. /\ Commanded(p, b).half = p.half /\ Commanded(p, b).busy = 1 /\ Commanded(p, b).wide = p.wide
        /\ Commanded(p, b).two = p.two /\ Commanded(p, b).on = p.on /\ Commanded(p, b).inc = p.inc
        /\ Commanded(p, b).ram = p.ram
    BY <1>1, <1>2, <2>1 DEF Panels
  <2> QED BY <1>4, <2>3, <2>4 DEF CommandedAs
<1>5. CASE b \in 32 .. 63
  <2>1. Commanded(p, b) = [[p EXCEPT !.busy = 1] EXCEPT !.wide = Bit(b, 16), !.two = Bit(b, 8)]
    BY <1>5 DEF Commanded
  <2>3. Commanded(p, b) \in Panels
    <3> DEFINE x == Bit(b, 16)
               y == Bit(b, 8)
    <3>1. x \in BOOLEAN /\ y \in BOOLEAN
      BY Zenon, <1>2
    <3> HIDE DEF x, y
    <3>2. [[p EXCEPT !.busy = 1] EXCEPT !.wide = x, !.two = y] \in Panels
      BY <3>1, SwitchedIs
    <3> QED BY Zenon, <2>1, <3>2 DEF x, y
  <2>4. /\ Commanded(p, b).half = p.half /\ Commanded(p, b).busy = 1 /\ Commanded(p, b).wide = Bit(b, 16)
        /\ Commanded(p, b).two = Bit(b, 8) /\ Commanded(p, b).on = p.on /\ Commanded(p, b).inc = p.inc
        /\ Commanded(p, b).ram = p.ram
    BY <1>1, <1>2, <2>1 DEF Panels
  <2> QED BY <1>5, <2>3, <2>4 DEF CommandedAs
<1>6. CASE b \in 8 .. 15
  <2>1. Commanded(p, b) = [[p EXCEPT !.busy = 1] EXCEPT !.on = Bit(b, 4)]
    BY <1>6 DEF Commanded
  <2>3. Commanded(p, b) \in Panels
    <3> DEFINE x == Bit(b, 4)
               y == Bit(b, 2)
    <3>1. x \in BOOLEAN /\ y \in BOOLEAN
      BY Zenon, <1>2
    <3> HIDE DEF x, y
    <3>2. [[p EXCEPT !.busy = 1] EXCEPT !.on = x] \in Panels
      BY <3>1, SwitchedIs
    <3> QED BY Zenon, <2>1, <3>2 DEF x, y
  <2>4. /\ Commanded(p, b).half = p.half /\ Commanded(p, b).busy = 1 /\ Commanded(p, b).wide = p.wide
        /\ Commanded(p, b).two = p.two /\ Commanded(p, b).on = Bit(b, 4) /\ Commanded(p, b).inc = p.inc
        /\ Commanded(p, b).ram = p.ram
    BY <1>1, <1>2, <2>1 DEF Panels
  <2> QED BY <1>6, <2>3, <2>4 DEF CommandedAs
<1>7. CASE b \in 4 .. 7
  <2>1. Commanded(p, b) = [[p EXCEPT !.busy = 1] EXCEPT !.inc = Bit(b, 2)]
    BY <1>7 DEF Commanded
  <2>3. Commanded(p, b) \in Panels
    <3> DEFINE x == Bit(b, 2)
               y == Bit(b, 4)
    <3>1. x \in BOOLEAN /\ y \in BOOLEAN
      BY Zenon, <1>2
    <3> HIDE DEF x, y
    <3>2. [[p EXCEPT !.busy = 1] EXCEPT !.inc = x] \in Panels
      BY <3>1, SwitchedIs
    <3> QED BY Zenon, <2>1, <3>2 DEF x, y
  <2>4. /\ Commanded(p, b).half = p.half /\ Commanded(p, b).busy = 1 /\ Commanded(p, b).wide = p.wide
        /\ Commanded(p, b).two = p.two /\ Commanded(p, b).on = p.on /\ Commanded(p, b).inc = Bit(b, 2)
        /\ Commanded(p, b).ram = p.ram
    BY <1>1, <1>2, <2>1 DEF Panels
  <2> QED BY <1>7, <2>3, <2>4 DEF CommandedAs
<1>8. CASE b \in 2 .. 3
  <2>1. Commanded(p, b) = [p EXCEPT !.ac = 0, !.busy = timing.clear]
    BY <1>8 DEF Commanded
  <2>3. Commanded(p, b) \in Panels
    BY <1>1, <1>2, <2>1 DEF Panels
  <2>4. /\ Commanded(p, b).half = p.half /\ Commanded(p, b).busy = timing.clear /\ Commanded(p, b).wide = p.wide
        /\ Commanded(p, b).two = p.two /\ Commanded(p, b).on = p.on /\ Commanded(p, b).inc = p.inc
        /\ Commanded(p, b).ram = p.ram
    BY <1>1, <1>2, <2>1 DEF Panels
  <2> QED BY <1>8, <2>3, <2>4 DEF CommandedAs
<1>9. CASE b = 1
  <2>1. Commanded(p, b) = [p EXCEPT !.ac = 0, !.inc = TRUE, !.ram = Blank, !.busy = timing.clear]
    BY <1>9 DEF Commanded, Blank
  <2>3. Commanded(p, b) \in Panels
    <3> DEFINE v == timing.clear
    <3> HIDE DEF v
    <3>1. [p EXCEPT !.ac = 0, !.inc = TRUE, !.ram = Blank, !.busy = v] \in Panels
      <4>1. v \in Delays /\ 0 \in Addresses
        BY <1>1 DEF v
      <4> QED BY <4>1, BlankIs DEF Panels
    <3> QED BY Zenon, <2>1, <3>1 DEF v
  <2>4. /\ Commanded(p, b).half = p.half /\ Commanded(p, b).busy = timing.clear /\ Commanded(p, b).wide = p.wide
        /\ Commanded(p, b).two = p.two /\ Commanded(p, b).on = p.on /\ Commanded(p, b).inc = TRUE
        /\ Commanded(p, b).ram = Blank
    BY <1>1, <1>2, <2>1, BlankIs DEF Panels
  <2> QED BY <1>9, <2>3, <2>4 DEF CommandedAs
<1>10. CASE b = 0 \/ b \in 16 .. 31
  <2>1. Commanded(p, b) = [p EXCEPT !.busy = 1]
    BY <1>10 DEF Commanded
  <2>3. Commanded(p, b) \in Panels
    BY <1>1, <1>2, <2>1 DEF Panels
  <2>4. /\ Commanded(p, b).half = p.half /\ Commanded(p, b).busy = 1 /\ Commanded(p, b).wide = p.wide
        /\ Commanded(p, b).two = p.two /\ Commanded(p, b).on = p.on /\ Commanded(p, b).inc = p.inc
        /\ Commanded(p, b).ram = p.ram
    BY <1>1, <1>2, <2>1 DEF Panels
  <2> QED BY <1>10, <2>3, <2>4 DEF CommandedAs
<1>11. \/ b >= 128 \/ b \in 64 .. 127 \/ b \in 32 .. 63 \/ b \in 8 .. 15 \/ b \in 4 .. 7
       \/ b \in 2 .. 3 \/ b = 1 \/ b = 0 \/ b \in 16 .. 31
  OBVIOUS
<1> QED BY Zenon, <1>3, <1>4, <1>5, <1>6, <1>7, <1>8, <1>9, <1>10, <1>11

(* The cells of a line.                                                    *)
LEMMA CellIs ==
  ASSUME NEW r \in Rows, NEW c \in 0 .. LcdCols - 1
  PROVE  /\ row_offsets[r + 1] = 64 * r
         /\ 64 * r + c \in Cells /\ 64 * r + c \in 0 .. 127
         /\ 64 * r + c \in 0 .. 39 \cup 64 .. 103
<1>1. row_offsets[r + 1] = 64 * r
  <2>1. CASE r = 0
    BY <2>1 DEF row_offsets
  <2>2. CASE r = 1
    BY <2>2 DEF row_offsets
  <2> QED BY <2>1, <2>2 DEF Rows
<1>2. row_offsets[r + 1] + c \in Cells
  BY DEF Cells
<1>3. c \in 0 .. 39 /\ (r = 0 \/ r = 1)
  BY LcdAssumption DEF Rows
<1> QED BY <1>1, <1>2, <1>3

(* A glyph goes to the cell of the cursor, which moves to the next one.    *)
WroteAs(p, b, r, c, q) ==
  /\ q \in Panels /\ q.half = p.half /\ q.busy = 1
  /\ q.wide = p.wide /\ q.two = p.two /\ q.on = p.on /\ q.inc = p.inc
  /\ c < LcdCols - 1 => q.ac = 64 * r + (c + 1)
  /\ q.ram = [p.ram EXCEPT ![64 * r + c] = b]

(* A glyph goes to the cell of the cursor, which moves to the next one.    *)
LEMMA WroteIs ==
  ASSUME NEW p \in Panels, NEW b \in 0 .. 255, NEW r \in Rows, NEW c \in 0 .. LcdCols - 1,
         p.ac = 64 * r + c, p.inc
  PROVE  WroteAs(p, b, r, c, Wrote(p, b))
<1> DEFINE ram == [p.ram EXCEPT ![64 * r + c] = b]
           ac == NextCell(p)
<1>1. Wrote(p, b) = [p EXCEPT !.ram = ram, !.ac = ac, !.busy = 1]
  <2>1. p.ac \in Cells /\ p.ac # Nowhere
    BY CellIs DEF Nowhere
  <2> QED BY <2>1 DEF Wrote, Panels
<1>2. ram \in Memories /\ 1 \in Delays
  <2>1. p.ram \in Memories
    BY DEF Panels
  <2>2. p.ram \in [Cells -> 0 .. 255]
    BY <2>1 DEF Memories
  <2>3. ram \in [Cells -> 0 .. 255]
    BY <2>2
  <2>4. 1 \in 0 .. 400
    OBVIOUS
  <2> QED BY <2>3, <2>4 DEF Memories, Delays
<1>4. p.ac \in 0 .. 39 \cup 64 .. 103
  BY CellIs
<1>3. ac = IF p.ac = 39 THEN 64 ELSE IF p.ac = 103 THEN 0 ELSE p.ac + 1
  <2>1. p.ac \in 0 .. 103
    BY <1>4
  <2>2. (p.ac + 1) % 128 = p.ac + 1
    BY <2>1
  <2> QED BY <2>2 DEF NextCell
<1>5. ac \in Addresses
  BY <1>3, <1>4 DEF Addresses
<1>6. c < LcdCols - 1 => ac = 64 * r + (c + 1)
  <2>1. c < LcdCols - 1 => c < 39
    BY LcdAssumption
  <2>2. r = 0 \/ r = 1
    BY DEF Rows
  <2> QED BY <1>3, <2>1, <2>2
<1> HIDE DEF ram, ac
<1>7. Wrote(p, b) \in Panels
  BY <1>1, <1>2, <1>5 DEF Panels
<1>8. /\ Wrote(p, b).half = p.half /\ Wrote(p, b).busy = 1
      /\ Wrote(p, b).wide = p.wide /\ Wrote(p, b).two = p.two
      /\ Wrote(p, b).on = p.on /\ Wrote(p, b).inc = p.inc
      /\ Wrote(p, b).ac = ac /\ Wrote(p, b).ram = ram
  BY <1>1 DEF Panels
<1> QED BY <1>6, <1>7, <1>8 DEF ram, WroteAs

(* A glyph leaves a panel, wherever the cursor is.                         *)
LEMMA WroteType ==
  ASSUME NEW p \in Panels, NEW b \in 0 .. 255
  PROVE  Wrote(p, b) \in Panels
<1> DEFINE ram == IF p.ac \in Cells THEN [p.ram EXCEPT ![p.ac] = b] ELSE p.ram
           ac == IF p.ac = Nowhere THEN p.ac ELSE NextCell(p)
<1>1. p.ram \in [Cells -> 0 .. 255] /\ p.ac \in Addresses /\ p.inc \in BOOLEAN
  BY DEF Panels, Memories
<1>2. Wrote(p, b) = [p EXCEPT !.ram = ram, !.ac = ac, !.busy = 1]
  BY DEF Wrote, Panels
<1>3. ram \in Memories
  BY <1>1 DEF Memories
<1>4. ac \in Addresses
  <2>1. CASE p.ac = Nowhere
    BY <1>1, <2>1
  <2>2. CASE p.ac # Nowhere
    <3>1. p.ac \in 0 .. 127
      BY <1>1, <2>2 DEF Addresses
    <3>2. (p.ac + 127) % 128 \in 0 .. 127 /\ (p.ac + 1) % 128 \in 0 .. 127
      BY <3>1
    <3>3. NextCell(p) \in 0 .. 127
      BY <3>2 DEF NextCell
    <3> QED BY <2>2, <3>3 DEF Addresses
  <2> QED BY <2>1, <2>2
<1>5. 1 \in Delays
  BY DEF Delays
<1> HIDE DEF ram, ac
<1> QED BY <1>2, <1>3, <1>4, <1>5 DEF Panels
-----------------------------------------------------------------------------
(***************************************************************************)
(* lcd_init, step by step.  Up to the twelfth step the panel may be in the *)
(* mode of 8 or of 4 bits and half a byte ahead; the three pulses of the   *)
(* reset sequence bring all of these together.                             *)
(***************************************************************************)
Pulses == {2, 5, 8, 11, 14, 16, 18, 20, 22, 24, 27, 29, 31, 33}

StartHalf(k) == IF k \in {15, 16} THEN 2
                ELSE IF k \in {19, 20, 23, 24, 28, 29, 32, 33} THEN 0 ELSE Nowhere

StartMode(k, p) ==
  /\ k \in 3 .. 5 => p.half = Nowhere \/ (~p.wide /\ p.half = 3)
  /\ k \in 6 .. 8 => IF p.wide THEN p.half = Nowhere ELSE p.half = 3
  /\ k \in 9 .. 11 => p.wide /\ p.half = Nowhere
  /\ k >= 12 => ~p.wide /\ p.half = StartHalf(k)
  /\ k >= 17 => p.two
  /\ k >= 25 => p.inc /\ p.ram = Blank
  /\ k >= 34 => p.on

StartBusy(k) == IF k = 1 THEN 400 ELSE IF k = 3 THEN 16 ELSE IF k = 4 THEN 15
                ELSE IF k = 25 THEN timing.clear
                ELSE IF k = 26 THEN (IF timing.clear = 0 THEN 0 ELSE timing.clear - 1)
                ELSE IF k = 27 THEN (IF Covered THEN 0 ELSE 400)
                ELSE IF k - 1 \in Pulses THEN 1 ELSE 0

StartPhase(k) == CASE k \in {4, 7, 18, 19} -> 1 [] k \in {20, 21} -> 2
                   [] k \in {8, 9, 22, 23} -> 3 [] k \in {10, 24, 25} -> 4 [] k = 26 -> 5
                   [] k \in {11, 12} -> 6 [] k = 13 -> 7 [] k \in {14, 15} -> 9 [] OTHER -> 0

(* The half byte the panel holds before each step from the twelfth on.     *)
LEMMA StartHalfIs ==
  /\ StartHalf(12) = Nowhere /\ StartHalf(13) = Nowhere /\ StartHalf(14) = Nowhere
  /\ StartHalf(15) = 2 /\ StartHalf(16) = 2 /\ StartHalf(17) = Nowhere
  /\ StartHalf(18) = Nowhere /\ StartHalf(19) = 0 /\ StartHalf(20) = 0
  /\ StartHalf(21) = Nowhere /\ StartHalf(22) = Nowhere /\ StartHalf(23) = 0
  /\ StartHalf(24) = 0 /\ StartHalf(25) = Nowhere /\ StartHalf(26) = Nowhere
  /\ StartHalf(27) = Nowhere /\ StartHalf(28) = 0 /\ StartHalf(29) = 0
  /\ StartHalf(30) = Nowhere /\ StartHalf(31) = Nowhere /\ StartHalf(32) = 0
  /\ StartHalf(33) = 0 /\ StartHalf(34) = Nowhere /\ StartHalf(35) = Nowhere
BY DEF StartHalf

(* A delay leads to a step with the same mode.                             *)
LEMMA ModeKept ==
  ASSUME NEW k \in 1 .. 34, k \notin Pulses, NEW p, StartMode(k, p)
  PROVE  StartMode(k + 1, p)
<1>1. k < 12 \/ k \in {12, 13, 15, 17, 19, 21, 23, 25, 26, 28, 30, 32, 34}
  BY DEF Pulses
<1>2. ASSUME k \in {12, 13, 15, 17, 19, 21, 23, 25, 26, 28, 30, 32, 34}
      PROVE  StartHalf(k) = StartHalf(k + 1)
  BY <1>2, StartHalfIs
<1> QED BY <1>1, <1>2 DEF StartMode, Pulses

(* The mode is a matter of these fields.                                   *)
LEMMA ModeSame ==
  ASSUME NEW k, NEW p, NEW q, StartMode(k, p),
         q.wide = p.wide, q.half = p.half, q.two = p.two, q.inc = p.inc, q.on = p.on, q.ram = p.ram
  PROVE  StartMode(k, q)
BY DEF StartMode

(* What an E pulse does to a panel that listens.                           *)
LEMMA LatchedHalf ==
  ASSUME NEW p \in Panels, p.busy = 0, ~p.wide, p.half = Nowhere, NEW n \in 0 .. 15, NEW rs, NEW low
  PROVE  /\ Latched(p, n, rs, low) \in Panels /\ Latched(p, n, rs, low).half = n
         /\ Latched(p, n, rs, low).busy = 0
         /\ Latched(p, n, rs, low).wide = p.wide /\ Latched(p, n, rs, low).on = p.on
         /\ Latched(p, n, rs, low).two = p.two /\ Latched(p, n, rs, low).inc = p.inc
         /\ Latched(p, n, rs, low).ac = p.ac /\ Latched(p, n, rs, low).ram = p.ram
<1>1. Latched(p, n, rs, low) = [p EXCEPT !.half = n]
  BY DEF Latched
<1>2. n \in Halves
  BY DEF Halves
<1> QED BY <1>1, <1>2 DEF Panels

(* The panel without its half byte.                                        *)
LEMMA Emptied ==
  ASSUME NEW p \in Panels
  PROVE  /\ [p EXCEPT !.half = Nowhere] \in Panels /\ [p EXCEPT !.half = Nowhere].half = Nowhere
         /\ [p EXCEPT !.half = Nowhere].busy = p.busy
         /\ [p EXCEPT !.half = Nowhere].wide = p.wide /\ [p EXCEPT !.half = Nowhere].on = p.on
         /\ [p EXCEPT !.half = Nowhere].two = p.two /\ [p EXCEPT !.half = Nowhere].inc = p.inc
         /\ [p EXCEPT !.half = Nowhere].ac = p.ac /\ [p EXCEPT !.half = Nowhere].ram = p.ram
<1>1. Nowhere \in Halves
  BY DEF Halves
<1> QED BY <1>1 DEF Panels

(* The second half of a byte is obeyed with the first.                     *)
LEMMA LatchedByte ==
  ASSUME NEW p \in Panels, p.busy = 0, ~p.wide, p.half \in 0 .. 15, NEW n, NEW rs, NEW low
  PROVE  Latched(p, n, rs, low) = Executed([p EXCEPT !.half = Nowhere], 16 * p.half + n, rs)
BY DEF Latched, Nowhere

(* With the 8-bit interface every pulse is obeyed.                         *)
LEMMA LatchedWide ==
  ASSUME NEW p \in Panels, p.busy = 0, p.wide, NEW n, NEW rs, NEW low
  PROVE  Latched(p, n, rs, low) = Executed([p EXCEPT !.half = Nowhere], 16 * n + low, rs)
BY DEF Latched

(* The half byte of a panel is one of 16 or none.                          *)
LEMMA HalfIs ==
  ASSUME NEW p \in Panels
  PROVE  p.half = Nowhere \/ p.half \in 0 .. 15
BY DEF Panels, Halves

(* Whatever a pulse finds, it leaves a panel.                              *)
LEMMA LatchedType ==
  ASSUME timing \in Timings, NEW p \in Panels, NEW n \in 0 .. 15, NEW rs \in {0, 1},
         NEW low \in {0, 15}
  PROVE  Latched(p, n, rs, low) \in Panels
<1>1. ASSUME NEW b \in 0 .. 255
      PROVE  Executed([p EXCEPT !.half = Nowhere], b, rs) \in Panels
  <2>1. [p EXCEPT !.half = Nowhere] \in Panels
    BY Emptied
  <2>2. Wrote([p EXCEPT !.half = Nowhere], b) \in Panels
    BY <2>1, WroteType
  <2>3. Commanded([p EXCEPT !.half = Nowhere], b) \in Panels
    BY Zenon, <2>1, CommandedIs DEF CommandedAs
  <2> QED BY Zenon, <2>2, <2>3 DEF Executed
<1>2. CASE p.busy > 0
  BY <1>2 DEF Latched
<1>3. CASE ~(p.busy > 0) /\ p.wide
  <2>1. 16 * n + low \in 0 .. 255
    OBVIOUS
  <2>2. Latched(p, n, rs, low) = Executed([p EXCEPT !.half = Nowhere], 16 * n + low, rs)
    BY Zenon, <1>3 DEF Latched
  <2> QED BY Zenon, <1>1, <2>1, <2>2
<1>4. CASE ~(p.busy > 0) /\ ~p.wide /\ p.half = Nowhere
  <2>1. Latched(p, n, rs, low) = [p EXCEPT !.half = n]
    BY Zenon, <1>4 DEF Latched
  <2>2. n \in Halves
    BY DEF Halves
  <2> QED BY <2>1, <2>2 DEF Panels
<1>5. CASE ~(p.busy > 0) /\ ~p.wide /\ p.half # Nowhere
  <2>1. p.half \in 0 .. 15
    BY <1>5, HalfIs
  <2>2. 16 * p.half + n \in 0 .. 255
    BY <2>1
  <2>3. Latched(p, n, rs, low) = Executed([p EXCEPT !.half = Nowhere], 16 * p.half + n, rs)
    BY Zenon, <1>5 DEF Latched
  <2> QED BY Zenon, <1>1, <2>2, <2>3
<1> QED BY <1>2, <1>3, <1>4, <1>5

(* What a byte of the driver's calls does, once both halves have come.     *)
Obeyed(p, b, q) ==
  /\ q \in Panels /\ q.half = Nowhere
  /\ q.busy <= 16
  /\ b \notin 1 .. 3 => q.busy = 1
  /\ b \in 1 .. 3 => q.busy = timing.clear
  /\ b \in 48 .. 63 => q.wide
  /\ b \in 32 .. 47 => ~q.wide
  /\ b \notin 32 .. 63 => q.wide = p.wide /\ q.two = p.two
  /\ b = 40 => q.two
  /\ b \notin 8 .. 15 => q.on = p.on
  /\ b = 12 => q.on
  /\ b = 6 \/ b = 1 => q.inc
  /\ b = 0 \/ b > 7 => q.inc = p.inc
  /\ b = 1 => q.ram = Blank
  /\ b # 1 => q.ram = p.ram
  /\ b >= 128 => q.ac = b - 128

(* A command does what Obeyed says.                                        *)
LEMMA Obeys ==
  ASSUME timing \in Timings, NEW p \in Panels, NEW b \in 0 .. 255
  PROVE  Obeyed(p, b, Executed([p EXCEPT !.half = Nowhere], b, 0))
<1> DEFINE e == [p EXCEPT !.half = Nowhere]
           q == Commanded(e, b)
<1>1. e \in Panels /\ e.half = Nowhere /\ e.wide = p.wide /\ e.on = p.on /\ e.two = p.two
      /\ e.inc = p.inc /\ e.ram = p.ram
  BY Emptied
<1>2. Executed(e, b, 0) = q
  BY DEF Executed
<1> HIDE DEF e
<1>3. CommandedAs(e, b, q)
  BY <1>1, CommandedIs
<1> HIDE DEF q
<1>4. /\ b \in 48 .. 63 => Bit(b, 16)
      /\ b \in 32 .. 47 => ~Bit(b, 16)
      /\ b = 40 => Bit(b, 8)
      /\ b = 12 => Bit(b, 4)
      /\ b = 6 => Bit(b, 2)
  BY DEF Bit
<1>5. timing.clear \in 0 .. 16
  BY TimingIs
<1>6. b \in 48 .. 63 => q.wide
  BY <1>3, <1>4 DEF CommandedAs
<1>7. b \in 32 .. 47 => ~q.wide
  BY <1>3, <1>4 DEF CommandedAs
<1>8. (b = 40 => q.two) /\ (b = 12 => q.on) /\ (b = 6 \/ b = 1 => q.inc)
  BY <1>3, <1>4 DEF CommandedAs
<1>9. q.busy <= 16
  BY <1>3, <1>5 DEF CommandedAs
<1>10. Obeyed(p, b, q)
  BY <1>1, <1>3, <1>6, <1>7, <1>8, <1>9 DEF CommandedAs, Obeyed
<1> QED BY <1>2, <1>10 DEF e

(* Each pulse of lcd_init finds the panel in one of the modes it may be in *)
(* and leaves it in one of the next; from the twelfth on there is but one. *)
LEMMA StartPulse ==
  ASSUME timing \in Timings, NEW k \in Pulses, NEW p \in Panels, p.busy = 0, StartMode(k, p),
         NEW low \in {0, 15}
  PROVE  /\ Latched(p, InitStep(k).n, 0, low) \in Panels
         /\ StartMode(k + 1, Latched(p, InitStep(k).n, 0, low))
         /\ Latched(p, InitStep(k).n, 0, low).busy <= 16
         /\ k = 24 => Latched(p, InitStep(k).n, 0, low).busy <= timing.clear
         /\ k \notin {2, 24} => Latched(p, InitStep(k).n, 0, low).busy <= 1
<1> DEFINE n == InitStep(k).n
           q == Latched(p, n, 0, low)
           e(b) == Executed([p EXCEPT !.half = Nowhere], b, 0)
<1>1. n = IF k \in {2, 5, 8} THEN 3 ELSE IF k \in {11, 14} THEN 2
          ELSE IF k \in {16, 20} THEN 8 ELSE IF k = 24 THEN 1 ELSE IF k = 29 THEN 6
          ELSE IF k = 33 THEN 12 ELSE 0
  BY InitStepIs DEF Strobe, Pulses
<1>2. \A b \in 0 .. 255 : Obeyed(p, b, e(b))
  BY Obeys
<1>3. timing.clear \in 0 .. 16
  BY TimingIs
<1>4. ~p.wide /\ p.half = Nowhere =>
        /\ q \in Panels /\ q.half = n /\ q.busy = 0 /\ q.wide = p.wide /\ q.on = p.on
        /\ q.two = p.two /\ q.inc = p.inc /\ q.ram = p.ram
  <2>1. n \in 0 .. 15
    BY <1>1
  <2> HIDE DEF n
  <2> QED BY <2>1, LatchedHalf
<1>5. ASSUME ~p.wide, NEW h \in 0 .. 15, p.half = h
      PROVE  q = e(16 * h + n)
  <2> HIDE DEF n
  <2> QED BY <1>5, LatchedByte
<1>6. p.wide => q = e(16 * n + low)
  <2> HIDE DEF n
  <2> QED BY LatchedWide
<1> HIDE DEF n, q, e
<1>7. p.half = Nowhere \/ p.half \in 0 .. 15
  BY HalfIs
<1> DEFINE Goal == /\ q \in Panels /\ StartMode(k + 1, q) /\ q.busy <= 16
                   /\ k = 24 => q.busy <= timing.clear
                   /\ k \notin {2, 24} => q.busy <= 1
<1> SUFFICES Goal
  BY DEF q, n
<1>8. CASE k = 2
  <2>1. n = 3 /\ k + 1 = 3
    BY <1>1, <1>8
  <2>2. CASE p.wide
    <3>1. 16 * n + low \in 48 .. 63
      BY <2>1
    <3>2. Obeyed(p, 16 * n + low, q)
      BY <1>2, <1>6, <2>2, <3>1
    <3> QED BY <1>8, <2>1, <3>1, <3>2 DEF Obeyed, StartMode
  <2>3. CASE ~p.wide /\ p.half = Nowhere
    BY <1>4, <1>8, <2>1, <2>3 DEF StartMode
  <2>4. CASE ~p.wide /\ p.half \in 0 .. 15
    <3>1. 16 * p.half + n \in 0 .. 255
      BY <2>1, <2>4
    <3>2. Obeyed(p, 16 * p.half + n, q)
      BY <1>2, <1>5, <2>4, <3>1
    <3> QED BY <1>8, <2>1, <3>1, <3>2 DEF Obeyed, StartMode
  <2> QED BY <1>7, <2>2, <2>3, <2>4
<1>9. CASE k \in {5, 8}
  <2>1. n = 3 /\ k + 1 \in {6, 9} /\ (k = 5 \/ k = 8)
    BY <1>1, <1>9
  <2>2. CASE p.wide
    <3>1. 16 * n + low \in 48 .. 63
      BY <2>1
    <3>2. Obeyed(p, 16 * n + low, q)
      BY <1>2, <1>6, <2>2, <3>1
    <3> QED BY <2>1, <3>1, <3>2 DEF Obeyed, StartMode
  <2>3. CASE ~p.wide /\ p.half = Nowhere
    <3>1. k = 5
      BY <2>1, <2>3 DEF StartMode, Nowhere
    <3> QED BY <1>4, <2>1, <2>3, <3>1 DEF StartMode
  <2>4. CASE ~p.wide /\ p.half \in 0 .. 15
    <3>1. p.half = 3 /\ 16 * 3 + n = 51
      BY <2>1, <2>4 DEF StartMode, Nowhere
    <3>2. Obeyed(p, 51, q)
      BY <1>2, <1>5, <2>4, <3>1
    <3> QED BY <2>1, <3>2 DEF Obeyed, StartMode
  <2> QED BY <1>7, <2>2, <2>3, <2>4
<1>10. CASE k = 11
  <2>1. n = 2 /\ k + 1 = 12 /\ p.wide
    BY <1>1, <1>10 DEF StartMode
  <2>2. 16 * n + low \in 32 .. 47
    BY <2>1
  <2>3. Obeyed(p, 16 * n + low, q)
    BY <1>2, <1>6, <2>1, <2>2
  <2> QED BY <1>10, <2>1, <2>2, <2>3, StartHalfIs DEF Obeyed, StartMode
<1>11. CASE k \in {14, 18, 22, 27, 31}
  <2>1. ~p.wide /\ p.half = StartHalf(k) /\ StartHalf(k) = Nowhere
    BY <1>11, StartHalfIs DEF StartMode
  <2>2. n = StartHalf(k + 1)
    BY <1>1, <1>11, StartHalfIs
  <2>3. StartMode(k + 1, q)
    BY <1>4, <1>11, <2>1, <2>2 DEF StartMode
  <2> QED BY <1>4, <1>11, <2>1, <2>3
<1>12. CASE k \in {16, 20, 24, 29, 33}
  <2> DEFINE b == IF k = 16 THEN 40 ELSE IF k = 20 THEN 8 ELSE IF k = 24 THEN 1
                  ELSE IF k = 29 THEN 6 ELSE 12
  <2>1. ~p.wide /\ p.half = StartHalf(k) /\ StartHalf(k) \in 0 .. 15
    BY <1>12, StartHalfIs DEF StartMode
  <2>2. 16 * StartHalf(k) + n = b /\ b \in 0 .. 255
    BY <1>1, <1>12, StartHalfIs
  <2>3. Obeyed(p, b, q)
    BY <1>2, <1>5, <2>1, <2>2
  <2>4. StartHalf(k + 1) = Nowhere
    BY <1>12, StartHalfIs
  <2>5. StartMode(k + 1, q)
    <3>1. q.half = Nowhere /\ ~q.wide
      BY <1>12, <2>1, <2>3 DEF Obeyed
    <3>2. k + 1 >= 17 => q.two
      BY <1>12, <2>3 DEF Obeyed, StartMode
    <3>3. k + 1 >= 25 => q.inc /\ q.ram = Blank
      BY <1>12, <2>3 DEF Obeyed, StartMode
    <3>4. k + 1 >= 34 => q.on
      BY <1>12, <2>3 DEF Obeyed
    <3>5. k + 1 >= 17
      BY <1>12
    <3> QED BY <2>4, <3>1, <3>2, <3>3, <3>4, <3>5 DEF StartMode
  <2>6. q \in Panels /\ q.busy <= 16 /\ (k = 24 => q.busy <= timing.clear) /\ (k # 24 => q.busy <= 1)
    BY <1>3, <1>12, <2>3 DEF Obeyed
  <2> QED BY <2>5, <2>6
<1> QED BY <1>8, <1>9, <1>10, <1>11, <1>12 DEF Pulses

(* What is left of a call, from its k-th step on.                          *)
Left(s, l, k, n) == s # << >> /\ Head(s) = l[k] /\ Tail(s) = SubSeq(l, k + 1, n)

(* The next step of a call is its k-th.                                    *)
LEMMA Walk ==
  ASSUME NEW l \in Seq(Steps), NEW n \in Nat, n = Len(l), NEW k \in 1 .. n
  PROVE  Left(SubSeq(l, k, n), l, k, n)
<1> HIDE DEF Steps
<1>1. \A x \in k .. n : l[x] \in Steps
  OBVIOUS
<1>2. SubSeq(l, k, n) \in Seq(Steps) /\ Len(SubSeq(l, k, n)) = n - k + 1
  BY <1>1, SubSeqProperties
<1>3. SubSeq(l, k, n) # << >>
  <2>1. Len(SubSeq(l, k, n)) # 0
    BY <1>2
  <2>2. Len(<< >>) = 0
    OBVIOUS
  <2> QED BY Zenon, <2>1, <2>2
<1>4. k \in 1 .. Len(l) /\ n \in k .. Len(l)
  OBVIOUS
<1>5. Head(SubSeq(l, k, n)) = l[k] /\ Tail(SubSeq(l, k, n)) = SubSeq(l, k + 1, n)
  BY <1>4, HeadTailOfSubSeq
<1> QED BY Zenon, <1>3, <1>5 DEF Left

(* After the last step nothing is left.                                    *)
LEMMA Walked ==
  ASSUME NEW l, NEW n \in Nat
  PROVE  SubSeq(l, n + 1, n) = << >>
BY SubSeqEmpty

(* Time only makes a panel less busy.                                      *)
WaitedAs(p, t, q, x, y) ==
  /\ q \in Panels /\ y \in 0 .. 9
  /\ q.busy = 0 \/ q.busy <= p.busy - t
  /\ timing.late = {0} => y = (x + t) % 10
  /\ q.wide = p.wide /\ q.half = p.half /\ q.on = p.on /\ q.two = p.two /\ q.inc = p.inc
  /\ q.ac = p.ac /\ q.ram = p.ram

(* A wait does to the panel what WaitedAs says.                            *)
LEMMA WaitIs ==
  ASSUME timing \in Timings, phase \in 0 .. 9, NEW p \in Panels, NEW t \in Nat, Wait(p, t)
  PROVE  WaitedAs(p, t, panel', phase, phase')
<1>1. PICK extra \in timing.late :
        panel' = Elapsed(p, t + extra) /\ phase' = (phase + t + extra) % 10
  BY DEF Wait
<1>2. extra \in Nat /\ p.busy \in 0 .. 400 /\ t + extra \in Nat
  BY TimingIs DEF Panels, Delays
<1>3. /\ panel' \in Panels
      /\ panel'.busy = IF p.busy > t + extra THEN p.busy - (t + extra) ELSE 0
      /\ panel'.wide = p.wide /\ panel'.half = p.half /\ panel'.on = p.on /\ panel'.two = p.two
      /\ panel'.inc = p.inc /\ panel'.ac = p.ac /\ panel'.ram = p.ram
  BY <1>1, <1>2, ElapsedIs
<1>4. panel'.busy = 0 \/ panel'.busy <= p.busy - t
  BY <1>2, <1>3
<1>5. phase' \in 0 .. 9
  BY <1>1, <1>2
<1>6. timing.late = {0} => phase' = (phase + t) % 10
  BY <1>1, <1>2
<1> QED BY <1>3, <1>4, <1>5, <1>6 DEF WaitedAs

(* A step of any call, on any panel, in step with the driver or not.       *)
LEMMA AnyStep ==
  ASSUME timing \in Timings, phase \in 0 .. 9, panel \in Panels, todo \in Seq(Steps),
         Pulse \/ Busy \/ Sleep
  PROVE  /\ panel' \in Panels /\ phase' \in 0 .. 9 /\ todo' \in Seq(Steps)
         /\ timing' = timing /\ wanted' = wanted
         /\ lost = 1 => lost' = 1
<1>1. todo # << >> /\ todo' = Tail(todo) /\ timing' = timing /\ wanted' = wanted
  BY DEF Pulse, Busy, Sleep, Advance
<1>2. Head(todo) \in Steps /\ Tail(todo) \in Seq(Steps)
  <2> HIDE DEF Steps
  <2> QED BY <1>1, HeadTailProperties
<1>3. /\ Head(todo).n \in Nat /\ Head(todo).rs \in {0, 1}
      /\ Head(todo).op = "pulse" => Head(todo).n \in 0 .. 15
      /\ Head(todo).op = "ms" => Head(todo).n >= 1
  BY <1>2 DEF Steps
<1>4. lost = 1 => lost' = 1
  BY DEF Pulse, Busy, Sleep
<1>5. ASSUME NEW p \in Panels, NEW t \in Nat, Wait(p, t)
      PROVE  panel' \in Panels /\ phase' \in 0 .. 9
  BY <1>5, WaitIs DEF WaitedAs
<1>6. CASE Pulse
  <2>1. PICK low \in {0, 15} : Wait(Latched(panel, Head(todo).n, Head(todo).rs, low), 0)
    BY <1>6 DEF Pulse
  <2>2. Head(todo).n \in 0 .. 15
    BY <1>3, <1>6 DEF Pulse
  <2>3. Latched(panel, Head(todo).n, Head(todo).rs, low) \in Panels
    BY <1>3, <2>2, LatchedType
  <2>4. panel' \in Panels /\ phase' \in 0 .. 9
    BY <1>5, <2>1, <2>3
  <2> QED BY <1>1, <1>2, <1>4, <2>4
<1>7. CASE Busy
  <2>1. panel' \in Panels /\ phase' \in 0 .. 9
    BY <1>3, <1>5, <1>7 DEF Busy
  <2> QED BY <1>1, <1>2, <1>4, <2>1
<1>8. CASE Sleep
  <2>1. Head(todo).n \in Nat /\ Head(todo).n >= 1
    BY <1>3, <1>8 DEF Sleep
  <2>2. 10 * Head(todo).n - phase \in Nat
    BY <2>1
  <2>3. panel' \in Panels /\ phase' \in 0 .. 9
    BY <1>5, <1>8, <2>2 DEF Sleep
  <2> QED BY <1>1, <1>2, <1>4, <2>3
<1> QED BY <1>6, <1>7, <1>8

Unwritten == [r \in Rows |-> << >>]
Punctual(k, x) == timing.late = {0} /\ k <= 26 => x = StartPhase(k)
Starting(k) ==
  /\ todo = SubSeq(lcd_init, k, 34)
  /\ wanted = Unwritten
  /\ StartMode(k, panel)
  /\ panel.busy <= StartBusy(k)
  /\ Punctual(k, phase)

Operating(p) == ~p.wide /\ p.half = Nowhere /\ p.on /\ p.two /\ p.inc

Reads(p, w) == \A r \in Rows, c \in 0 .. LcdCols - 1 : p.ram[64 * r + c] = Shown(w[r])[c]

AtRest == todo = << >> /\ panel.busy = 0 /\ Operating(panel) /\ Reads(panel, wanted)

(* How long a panel may be busy.                                           *)
LEMMA BusyIs ==
  ASSUME NEW p \in Panels
  PROVE  p.busy \in 0 .. 400 /\ p.busy <= 400
<1>1. p.busy \in 0 .. 400
  BY DEF Panels, Delays
<1> QED BY <1>1

(* A wait takes its time off what is left of the last one.                 *)
LEMMA Shortens ==
  ASSUME NEW a \in Int, NEW b \in Nat, NEW t \in Int, NEW m \in Nat,
         b = 0 \/ b <= a - t, a <= m + t
  PROVE  b <= m
OBVIOUS

(* What is less than less is less.                                         *)
LEMMA AtMost ==
  ASSUME NEW a \in Int, NEW b \in Int, NEW c \in Int, a <= b, b <= c
  PROVE  a <= c
OBVIOUS

(* A panel whose clear is covered is ready after the sleep.                *)
LEMMA Clears ==
  ASSUME NEW a \in Int, NEW clear \in 0 .. 16, NEW x \in 0 .. 9, NEW late,
         clear <= 11 \/ late = {0}, late = {0} => x = 5,
         a <= IF clear = 0 THEN 0 ELSE clear - 1
  PROVE  a <= 20 - x
<1>1. CASE late = {0}
  <2>1. x = 5
    BY <1>1
  <2> QED BY <2>1
<1>2. CASE clear <= 11
  BY <1>2
<1> QED BY <1>1, <1>2

(* The next step of lcd_init is its k-th.                                  *)
LEMMA StartHead ==
  ASSUME NEW k \in 1 .. 34, Starting(k)
  PROVE  todo # << >> /\ Head(todo) = InitStep(k) /\ Tail(todo) = SubSeq(lcd_init, k + 1, 34)
<1>1. lcd_init \in Seq(Steps) /\ Len(lcd_init) = 34 /\ lcd_init[k] = InitStep(k)
  BY InitIs DEF Begins
<1>2. Left(SubSeq(lcd_init, k, 34), lcd_init, k, 34)
  <2> HIDE DEF Steps
  <2> QED BY <1>1, Walk
<1> QED BY Zenon, <1>1, <1>2 DEF Starting, Left

(* The step at k of lcd_init.                                              *)
LEMMA StartingStep ==
  ASSUME timing \in Timings, phase \in 0 .. 9, panel \in Panels, NEW k \in 1 .. 34, Starting(k),
         lost = 0, k = 27 => panel.busy = 0, Pulse \/ Busy \/ Sleep
  PROVE  /\ panel' \in Panels /\ phase' \in 0 .. 9 /\ lost' = 0
         /\ todo' = SubSeq(lcd_init, k + 1, 34) /\ wanted' = wanted /\ timing' = timing
         /\ StartMode(k + 1, panel') /\ panel'.busy <= StartBusy(k + 1) /\ Punctual(k + 1, phase')
<1>1. todo # << >> /\ Head(todo) = InitStep(k) /\ Tail(todo) = SubSeq(lcd_init, k + 1, 34)
  BY StartHead
<1>2. todo' = SubSeq(lcd_init, k + 1, 34) /\ wanted' = wanted /\ timing' = timing
  BY <1>1 DEF Pulse, Busy, Sleep, Advance
<1>3. StartMode(k, panel) /\ panel.busy <= StartBusy(k) /\ Punctual(k, phase)
  BY DEF Starting
<1>4. panel.busy \in 0 .. 400 /\ timing.clear \in 0 .. 16
  BY BusyIs, TimingIs
<1> DEFINE Goal == /\ panel' \in Panels /\ phase' \in 0 .. 9 /\ lost' = 0
                   /\ StartMode(k + 1, panel') /\ panel'.busy <= StartBusy(k + 1)
                   /\ Punctual(k + 1, phase')
<1>5. CASE k \in Pulses
  <2>1. InitStep(k).op = "pulse" /\ InitStep(k).rs = 0
    BY <1>5, InitStepIs DEF Pulses, Strobe
  <2>2. Pulse
    BY <1>1, <2>1 DEF Busy, Sleep
  <2>3. PICK low \in {0, 15} : Wait(Latched(panel, InitStep(k).n, 0, low), 0)
    BY <1>1, <2>1, <2>2 DEF Pulse
  <2> DEFINE q == Latched(panel, InitStep(k).n, 0, low)
  <2>4. panel.busy = 0
    <3>1. k # 27 => StartBusy(k) = 0
      BY <1>5 DEF StartBusy, Pulses
    <3> QED BY <1>3, <1>4, <3>1
  <2>12. lost' = 0
    BY <2>2, <2>4 DEF Pulse
  <2>5. /\ q \in Panels /\ StartMode(k + 1, q) /\ q.busy <= 16
        /\ k = 24 => q.busy <= timing.clear
        /\ k \notin {2, 24} => q.busy <= 1
    BY <1>3, <1>5, <2>4, StartPulse
  <2> HIDE DEF q
  <2>6. WaitedAs(q, 0, panel', phase, phase')
    BY <2>3, <2>5, WaitIs DEF q
  <2>7. StartMode(k + 1, panel')
    BY <2>5, <2>6, ModeSame DEF WaitedAs
  <2>8. panel'.busy <= q.busy /\ panel'.busy \in 0 .. 400 /\ q.busy \in 0 .. 400
    BY <2>5, <2>6, BusyIs DEF WaitedAs
  <2>9. q.busy <= StartBusy(k + 1)
    BY <1>5, <2>5 DEF StartBusy, Pulses
  <2>10. Punctual(k + 1, phase')
    <3> SUFFICES ASSUME timing.late = {0}, k + 1 <= 26 PROVE phase' = StartPhase(k + 1)
      BY DEF Punctual
    <3>1. StartPhase(k + 1) = StartPhase(k) /\ phase = StartPhase(k)
      BY <1>3, <1>5 DEF StartPhase, Punctual, Pulses
    <3>2. phase' = (phase + 0) % 10
      BY <2>6 DEF WaitedAs
    <3>3. (phase + 0) % 10 = phase
      OBVIOUS
    <3> QED BY <3>1, <3>2, <3>3
  <2>11. panel'.busy <= StartBusy(k + 1)
    <3>1. StartBusy(k + 1) \in Int
      BY <1>4 DEF StartBusy
    <3>2. panel'.busy \in Int /\ q.busy \in Int
      BY <2>8
    <3> QED BY Zenon, <2>8, <2>9, <3>1, <3>2, AtMost
  <2> QED BY <1>2, <2>6, <2>7, <2>10, <2>11, <2>12 DEF WaitedAs
<1>6. CASE k \in {1, 4, 26}
  <2>1. InitStep(k) = IF k = 1 THEN Nap(50) ELSE IF k = 4 THEN Nap(5) ELSE Nap(2)
    BY <1>6, InitStepIs
  <2>2. InitStep(k).op = "ms" /\ InitStep(k).n = IF k = 1 THEN 50 ELSE IF k = 4 THEN 5 ELSE 2
    BY <2>1 DEF Nap
  <2> DEFINE t == 10 * InitStep(k).n - phase
  <2>3. Wait(panel, t) /\ lost' = 0
    BY <1>1, <2>2 DEF Pulse, Busy, Sleep
  <2>4. t \in Nat /\ t = (IF k = 1 THEN 500 ELSE IF k = 4 THEN 50 ELSE 20) - phase
    BY <1>6, <2>2
  <2> HIDE DEF t
  <2>5. WaitedAs(panel, t, panel', phase, phase')
    BY <2>3, <2>4, WaitIs
  <2>6. StartMode(k + 1, panel')
    <3>1. StartMode(k + 1, panel)
      BY <1>3, <1>6, ModeKept DEF Pulses
    <3> QED BY <2>5, <3>1, ModeSame DEF WaitedAs
  <2>7. (k = 26 /\ ~Covered) \/ panel'.busy = 0
    <3> SUFFICES ASSUME k = 26 => Covered PROVE panel'.busy = 0
      OBVIOUS
    <3>1. panel.busy <= 0 + t
      <4>0. panel.busy \in Int /\ t \in Int /\ 0 + t = t /\ phase \in Int /\ 400 \in Int /\ 15 \in Int
        BY <1>4, <2>4
      <4>1. CASE k = 1
        <5> DEFINE a == panel.busy
        <5>1. a <= 400 /\ a \in Int
          BY <1>4
        <5>2. 400 <= t
          BY <2>4, <4>1
        <5> HIDE DEF a
        <5>3. a <= 0 + t
          BY <4>0, <5>1, <5>2
        <5> QED BY <5>3 DEF a
      <4>2. CASE k = 4
        <5>1. panel.busy <= 15
          BY <1>3, <4>2 DEF StartBusy
        <5>2. 15 <= t
          BY <2>4, <4>2
        <5> DEFINE a == panel.busy
        <5>3. a <= 15 /\ a \in Int
          BY Zenon, <4>0, <5>1
        <5> HIDE DEF a
        <5>4. a <= 0 + t
          BY <4>0, <5>2, <5>3
        <5> QED BY <5>4 DEF a
      <4>3. CASE k = 26
        <5>1. panel.busy <= IF timing.clear = 0 THEN 0 ELSE timing.clear - 1
          BY <1>3, <4>3 DEF StartBusy
        <5>2. timing.late = {0} => phase = 5
          BY <1>3, <4>3 DEF Punctual, StartPhase
        <5>3. t = 20 - phase
          BY <2>4, <4>3
        <5>4. timing.clear <= 11 \/ timing.late = {0}
          BY <4>3 DEF Covered
        <5>5. panel.busy <= 20 - phase
          BY <1>4, <4>0, <5>1, <5>2, <5>4, Clears
        <5> QED BY Zenon, <4>0, <5>3, <5>5
      <4> QED BY <1>6, <4>1, <4>2, <4>3
    <3>2. panel'.busy \in 0 .. 400
      BY <2>5, BusyIs DEF WaitedAs
    <3>3. panel.busy \in Int /\ panel'.busy \in Nat /\ t \in Int /\ 0 \in Nat
      BY <1>4, <2>4, <3>2
    <3>4. panel'.busy = 0 \/ panel'.busy <= panel.busy - t
      BY <2>5 DEF WaitedAs
    <3>5. panel'.busy <= 0
      BY Zenon, <3>1, <3>3, <3>4, Shortens
    <3> QED BY <3>2, <3>5
  <2>8. panel'.busy <= StartBusy(k + 1)
    <3>1. panel'.busy \in 0 .. 400
      BY <2>5, BusyIs DEF WaitedAs
    <3>2. StartBusy(k + 1) = IF k = 26 /\ ~Covered THEN 400 ELSE 0
      BY <1>6 DEF StartBusy, Pulses
    <3> QED BY <2>7, <3>1, <3>2
  <2>9. Punctual(k + 1, phase')
    <3> SUFFICES ASSUME timing.late = {0}, k + 1 <= 26 PROVE phase' = StartPhase(k + 1)
      BY DEF Punctual
    <3>1. phase' = (phase + t) % 10
      BY <2>5 DEF WaitedAs
    <3>2. phase + t = IF k = 1 THEN 500 ELSE 50
      BY <1>6, <2>4
    <3>3. phase' = 0
      BY <3>1, <3>2
    <3>4. StartPhase(k + 1) = 0
      BY <1>6 DEF StartPhase
    <3> QED BY <3>3, <3>4
  <2> QED BY <1>2, <2>3, <2>5, <2>6, <2>8, <2>9 DEF WaitedAs
<1>7. CASE k \notin Pulses /\ k \notin {1, 4, 26}
  <2> DEFINE t == IF k \in {7, 10, 13} THEN 2 ELSE 1
  <2>0. k \in {3, 6, 7, 9, 10, 12, 13, 15, 17, 19, 21, 23, 25, 28, 30, 32, 34}
    BY <1>7 DEF Pulses
  <2>1. InitStep(k) = IF k \in {7, 10, 13} THEN [Gap EXCEPT !.n = 2] ELSE Gap
    BY <2>0, InitStepIs
  <2>2. InitStep(k).op = "us" /\ InitStep(k).n = t
    BY <2>1 DEF Gap
  <2>3. Wait(panel, t) /\ lost' = 0
    BY <1>1, <2>2 DEF Pulse, Busy, Sleep
  <2>4. t \in {1, 2} /\ t \in Nat
    OBVIOUS
  <2>5. WaitedAs(panel, t, panel', phase, phase')
    <3> HIDE DEF t
    <3> QED BY <2>3, <2>4, WaitIs
  <2>6. StartMode(k + 1, panel')
    <3>1. StartMode(k + 1, panel)
      BY <1>3, <1>7, ModeKept
    <3> QED BY <2>5, <3>1, ModeSame DEF WaitedAs
  <2>7. panel'.busy <= StartBusy(k + 1)
    <3>1. panel'.busy = 0 \/ panel'.busy <= panel.busy - t
      BY <2>5 DEF WaitedAs
    <3>2. panel'.busy \in 0 .. 400
      BY <2>5, BusyIs DEF WaitedAs
    <3>3. panel.busy <= StartBusy(k)
      BY <1>3
    <3>7. panel.busy \in Int /\ panel'.busy \in Nat /\ t \in Int /\ 0 \in Nat
          /\ timing.clear \in Int /\ timing.clear + t \in Int
      <4>1. panel.busy \in Int /\ timing.clear \in Int
        BY <1>4
      <4>2. panel'.busy \in Nat
        BY <3>2
      <4> HIDE DEF t
      <4>3. t \in Int /\ 0 \in Nat
        BY <2>4
      <4>4. timing.clear + t \in Int
        BY <4>1, <4>3
      <4> QED BY Zenon, <4>1, <4>2, <4>3, <4>4
    <3>4. CASE k = 3
      <4>1. StartBusy(k) = 16 /\ StartBusy(k + 1) = 15 /\ t = 1
        BY <3>4 DEF StartBusy
      <4>2. panel.busy <= 15 + t /\ 15 \in Nat
        BY <1>4, <3>3, <4>1
      <4> QED BY Zenon, <3>1, <3>7, <4>1, <4>2, Shortens
    <3>5. CASE k = 25
      <4>1. StartBusy(k) = timing.clear /\ t = 1
            /\ StartBusy(k + 1) = IF timing.clear = 0 THEN 0 ELSE timing.clear - 1
        BY <3>5 DEF StartBusy
      <4>2. timing.clear <= (IF timing.clear = 0 THEN 0 ELSE timing.clear - 1) + t
        BY <1>4, <4>1
      <4>3. (IF timing.clear = 0 THEN 0 ELSE timing.clear - 1) \in Nat
        BY <1>4
      <4> HIDE DEF t
      <4>4. timing.clear <= StartBusy(k + 1) + t /\ StartBusy(k + 1) \in Nat
        BY Zenon, <4>1, <4>2, <4>3
      <4>5. StartBusy(k + 1) + t \in Int
        BY <4>4, <3>7
      <4>6. panel.busy <= timing.clear
        BY Zenon, <3>3, <4>1
      <4>7. panel.busy <= StartBusy(k + 1) + t
        BY Zenon, <4>4, <4>5, <4>6, AtMost, <3>7
      <4> QED BY Zenon, <3>1, <3>7, <4>4, <4>7, Shortens
    <3>6. CASE k \notin {3, 25}
      <4>1. StartBusy(k) <= 1 /\ StartBusy(k) \in Int /\ StartBusy(k + 1) = 0
        BY <2>0, <3>6 DEF StartBusy, Pulses
      <4>2. 1 <= 0 + t /\ 1 \in Int /\ 0 + t \in Int
        OBVIOUS
      <4> HIDE DEF t
      <4>3. panel.busy <= 1
        BY Zenon, <3>3, <3>7, <4>1, <4>2, AtMost
      <4>4. panel.busy <= 0 + t
        BY Zenon, <3>7, <4>2, <4>3, AtMost
      <4> QED BY Zenon, <3>1, <3>7, <4>1, <4>4, Shortens
    <3> QED BY <3>4, <3>5, <3>6
  <2>8. Punctual(k + 1, phase')
    <3> SUFFICES ASSUME timing.late = {0}, k + 1 <= 26 PROVE phase' = StartPhase(k + 1)
      BY DEF Punctual
    <3>1. phase' = (phase + t) % 10 /\ phase = StartPhase(k)
      BY <1>3, <2>5 DEF WaitedAs, Punctual
    <3>2. (StartPhase(k) + t) % 10 = StartPhase(k + 1)
      BY <2>0 DEF StartPhase
    <3> QED BY <3>1, <3>2
  <2> QED BY <1>2, <2>3, <2>5, <2>6, <2>7, <2>8 DEF WaitedAs
<1> QED BY <1>5, <1>6, <1>7
-----------------------------------------------------------------------------
(***************************************************************************)
(* A line, step by step.                                                   *)
(***************************************************************************)
(* The panel at the x-th step of the e-th byte of the line r: the columns  *)
(* before the byte's show what they should, and the cursor is at its.      *)
Column(e, x) == IF x = 4 THEN e + 1 ELSE e
Drawn(p, w, r, d) ==
  \A o \in Rows, c \in 0 .. LcdCols - 1 :
    o # r \/ c < d - 1 => p.ram[64 * o + c] = Shown(w[o])[c]
LineMode(p, w, r, e, x) ==
  /\ ~p.wide /\ p.on /\ p.two /\ p.inc
  /\ p.half = IF x \in {2, 3} THEN LineByte(r, w[r], e) \div 16 ELSE Nowhere
  /\ Column(e, x) \in 1 .. LcdCols => p.ac = 64 * r + (Column(e, x) - 1)
  /\ Drawn(p, w, r, Column(e, x))
LineBusy(x) == IF x = 4 THEN 1 ELSE 0
Line(w, r) == lcd_mb_write(r, CString(w[r]))
Drawing(r, e, x) ==
  /\ todo = SubSeq(Line(wanted, r), 4 * e + x, 4 * (LcdCols + 1))
  /\ LineMode(panel, wanted, r, e, x)
  /\ panel.busy <= LineBusy(x)

(* The mode is a matter of these fields.                                   *)
LEMMA LineSame ==
  ASSUME NEW w, NEW r, NEW e, NEW x, NEW p, NEW q, LineMode(p, w, r, e, x),
         q.wide = p.wide, q.half = p.half, q.two = p.two, q.inc = p.inc, q.on = p.on,
         q.ram = p.ram, q.ac = p.ac
  PROVE  LineMode(q, w, r, e, x)
BY DEF LineMode, Drawn

(* A delay leads to a step with the same mode.                             *)
LEMMA LineKept ==
  ASSUME NEW w, NEW r, NEW e \in 0 .. LcdCols, NEW p
  PROVE  /\ LineMode(p, w, r, e, 2) => LineMode(p, w, r, e, 3)
         /\ LineMode(p, w, r, e, 4) => LineMode(p, w, r, e + 1, 1)
<1>1. Column(e, 2) = Column(e, 3) /\ Column(e, 4) = Column(e + 1, 1)
  BY DEF Column
<1>2. 2 \in {2, 3} /\ 3 \in {2, 3} /\ 4 \notin {2, 3} /\ 1 \notin {2, 3}
  OBVIOUS
<1> QED BY Zenon, <1>1, <1>2 DEF LineMode

(* The bytes of a line.                                                    *)
LEMMA LineByteIs ==
  ASSUME NEW t, Whole(t), NEW r \in Rows, NEW e \in 0 .. LcdCols
  PROVE  /\ LineByte(r, t, e) \in 0 .. 255
         /\ e = 0 => LineByte(r, t, e) = 128 + 64 * r
         /\ e # 0 => e \in 1 .. LcdCols /\ LineByte(r, t, e) = Shown(t)[e - 1]
         /\ LineRs(e) \in {0, 1}
<1>1. LcdCols \in Nat
  BY LcdAssumption
<1>2. CASE e = 0
  BY <1>2, CursorIs DEF LineByte, LineRs
<1>3. CASE e # 0
  <2>1. e \in 1 .. LcdCols
    BY <1>1, <1>3
  <2> QED BY <1>3, <2>1, ShownIs DEF LineByte, LineRs
<1> QED BY <1>2, <1>3

(* The first half of a byte of the line.                                   *)
LEMMA LineHigh ==
  ASSUME NEW w, NEW r \in Rows, Whole(w[r]), NEW e \in 0 .. LcdCols, NEW p \in Panels, p.busy = 0,
         LineMode(p, w, r, e, 1), NEW low
  PROVE  /\ Latched(p, LineByte(r, w[r], e) \div 16, LineRs(e), low) \in Panels
         /\ Latched(p, LineByte(r, w[r], e) \div 16, LineRs(e), low).busy <= 0
         /\ LineMode(Latched(p, LineByte(r, w[r], e) \div 16, LineRs(e), low), w, r, e, 2)
<1> DEFINE n == LineByte(r, w[r], e) \div 16
           q == Latched(p, n, LineRs(e), low)
<1>1. n \in 0 .. 15
  <2> DEFINE b == LineByte(r, w[r], e)
  <2>1. b \in 0 .. 255
    BY LineByteIs
  <2> HIDE DEF b
  <2>2. b \div 16 \in 0 .. 15
    BY <2>1, NibblesOf
  <2> QED BY <2>2 DEF b
<1>2. ~p.wide /\ p.half = Nowhere
  BY DEF LineMode
<1>3. /\ q \in Panels /\ q.half = n /\ q.busy = 0 /\ q.wide = p.wide /\ q.on = p.on
      /\ q.two = p.two /\ q.inc = p.inc /\ q.ac = p.ac /\ q.ram = p.ram
  <2> HIDE DEF n
  <2> QED BY <1>1, <1>2, LatchedHalf
<1> HIDE DEF q
<1>4. Column(e, 1) = Column(e, 2)
  BY DEF Column
<1>5. LineMode(q, w, r, e, 2)
  BY <1>3, <1>4 DEF LineMode, Drawn
<1>6. q.busy <= 0
  BY <1>3
<1> QED BY <1>3, <1>5, <1>6 DEF q

(* The second half: the panel obeys.                                       *)
LEMMA LineLow ==
  ASSUME timing \in Timings,
         NEW w, NEW r \in Rows, Whole(w[r]), NEW e \in 0 .. LcdCols, NEW p \in Panels, p.busy = 0,
         LineMode(p, w, r, e, 3), NEW low
  PROVE  /\ Latched(p, LineByte(r, w[r], e) % 16, LineRs(e), low) \in Panels
         /\ Latched(p, LineByte(r, w[r], e) % 16, LineRs(e), low).busy <= 1
         /\ LineMode(Latched(p, LineByte(r, w[r], e) % 16, LineRs(e), low), w, r, e, 4)
<1> DEFINE b == LineByte(r, w[r], e)
           n == b % 16
           q == Latched(p, n, LineRs(e), low)
           o == [p EXCEPT !.half = Nowhere]
           Goal == q \in Panels /\ q.busy <= 1 /\ LineMode(q, w, r, e, 4)
<1> SUFFICES Goal
  OBVIOUS
<1>1. b \in 0 .. 255 /\ b \div 16 \in 0 .. 15 /\ 16 * (b \div 16) + n = b
  <2>1. b \in 0 .. 255
    BY LineByteIs
  <2> HIDE DEF b
  <2> QED BY <2>1, NibblesOf
<1>2. ~p.wide /\ p.half = b \div 16 /\ p.on /\ p.two /\ p.inc
  BY DEF LineMode
<1>3. q = Executed(o, b, LineRs(e))
  <2>1. Latched(p, n, LineRs(e), low) = Executed(o, 16 * p.half + n, LineRs(e))
    <3> HIDE DEF n, b
    <3>1. p.half \in 0 .. 15 /\ ~p.wide /\ p.busy = 0
      BY <1>1, <1>2
    <3>2. ~(p.busy > 0) /\ p.half # Nowhere
      BY <3>1 DEF Nowhere
    <3> QED BY Zenon, <3>1, <3>2 DEF Latched
  <2>2. 16 * p.half + n = b
    BY Zenon, <1>1, <1>2
  <2> QED BY Zenon, <2>1, <2>2
<1>4. Column(e, 3) = e /\ Column(e, 4) = e + 1 /\ LcdCols \in Nat
  BY LcdAssumption DEF Column
<1>5. Drawn(p, w, r, e) /\ (e \in 1 .. LcdCols => p.ac = 64 * r + (e - 1))
  BY Zenon, <1>4 DEF LineMode
<1>6. CASE e = 0
  <2>1. b = 128 + 64 * r /\ b - 128 = 64 * r /\ b >= 128
    BY <1>6, LineByteIs DEF Rows
  <2>2. q = Executed(o, b, 0)
    BY <1>3, <1>6 DEF LineRs
  <2>3. Obeyed(p, b, q)
    <3> HIDE DEF b, q, o
    <3>1. Obeyed(p, b, Executed([p EXCEPT !.half = Nowhere], b, 0))
      BY <1>1, Obeys
    <3> QED BY Zenon, <2>2, <3>1 DEF o
  <2> HIDE DEF b, q
  <2>4. /\ q \in Panels /\ q.half = Nowhere /\ q.busy = 1 /\ ~q.wide /\ q.two /\ q.on /\ q.inc
        /\ q.ram = p.ram /\ q.ac = 64 * r
    <3>1. b \notin 1 .. 3 /\ b \notin 32 .. 63 /\ b \notin 8 .. 15 /\ b # 1 /\ b > 7
      BY <1>1, <2>1
    <3>2. q \in Panels /\ q.half = Nowhere /\ q.busy = 1 /\ q.ram = p.ram
      BY Zenon, <2>3, <3>1 DEF Obeyed
    <3>3. q.wide = p.wide /\ q.two = p.two /\ q.on = p.on /\ q.inc = p.inc
      BY Zenon, <2>3, <3>1 DEF Obeyed
    <3>4. q.ac = 64 * r
      BY Zenon, <2>1, <2>3 DEF Obeyed
    <3> QED BY Zenon, <1>2, <3>2, <3>3, <3>4
  <2>5. Column(e, 4) = 1 /\ 64 * r + (1 - 1) = 64 * r
    BY <1>4, <1>6 DEF Rows
  <2>6. Drawn(q, w, r, 1)
    <3>1. \A c \in 0 .. LcdCols - 1 : ~(c < 1 - 1)
      BY <1>4
    <3> QED BY <1>5, <2>4, <3>1 DEF Drawn
  <2>7. LineMode(q, w, r, e, 4)
    BY <2>4, <2>5, <2>6 DEF LineMode
  <2>8. q.busy <= 1
    BY <2>4
  <2> QED BY <2>4, <2>7, <2>8
<1>7. CASE e # 0
  <2>1. e \in 1 .. LcdCols /\ b = Shown(w[r])[e - 1] /\ LineRs(e) = 1
    BY <1>7, LineByteIs DEF LineRs
  <2> DEFINE c == e - 1
  <2>2. c \in 0 .. LcdCols - 1 /\ c + 1 = e
    BY <2>1, <1>4
  <2>3. q = Wrote(o, b)
    BY <1>3, <2>1 DEF Executed
  <2>4. o \in Panels /\ o.half = Nowhere /\ ~o.wide /\ o.on /\ o.two /\ o.inc /\ o.ram = p.ram
        /\ o.ac = 64 * r + c
    BY <1>2, <1>5, <2>1, Emptied
  <2> HIDE DEF b, q, o, c
  <2>5. /\ q \in Panels /\ q.half = Nowhere /\ q.busy = 1 /\ ~q.wide /\ q.two /\ q.on /\ q.inc
        /\ c < LcdCols - 1 => q.ac = 64 * r + (c + 1)
        /\ q.ram = [p.ram EXCEPT ![64 * r + c] = b]
    <3>1. b \in 0 .. 255 /\ o.ac = 64 * r + c /\ o.inc
      BY <1>1, <2>4
    <3>2. WroteAs(o, b, r, c, Wrote(o, b))
      BY <2>2, <2>4, <3>1, WroteIs
    <3> QED BY Zenon, <2>3, <2>4, <3>2 DEF WroteAs
  <2>6. e + 1 \in 1 .. LcdCols => q.ac = 64 * r + ((e + 1) - 1)
    <3>1. e + 1 \in 1 .. LcdCols => c < LcdCols - 1
      BY <1>4, <2>2
    <3>2. (e + 1) - 1 = e
      OBVIOUS
    <3> QED BY Zenon, <2>2, <2>5, <3>1, <3>2
  <2>7. Drawn(q, w, r, e + 1)
    <3> SUFFICES ASSUME NEW u \in Rows, NEW d \in 0 .. LcdCols - 1, u # r \/ d < (e + 1) - 1
                 PROVE  q.ram[64 * u + d] = Shown(w[u])[d]
      BY DEF Drawn
    <3>1. p.ram \in [Cells -> 0 .. 255]
      BY DEF Panels, Memories
    <3>2. 64 * u + d \in Cells /\ 64 * r + c \in Cells
      BY <2>2, CellIs
    <3>3. CASE u = r /\ d = c
      BY <2>1, <2>5, <3>1, <3>2, <3>3 DEF c
    <3>4. CASE ~(u = r /\ d = c)
      <4>1. 64 * u + d # 64 * r + c
        <5>1. LcdCols \in 1 .. 40
          BY LcdAssumption
        <5>2. d \in 0 .. 39 /\ c \in 0 .. 39
          BY <2>2, <5>1
        <5> QED BY <3>4, <5>2 DEF Rows
      <4>2. q.ram[64 * u + d] = p.ram[64 * u + d]
        BY <2>5, <3>1, <3>2, <4>1
      <4>3. u # r \/ d < e - 1
        BY <2>1, <2>2, <3>4, <1>4
      <4>4. p.ram[64 * u + d] = Shown(w[u])[d]
        BY <1>5, <4>3 DEF Drawn
      <4> QED BY <4>2, <4>4
    <3> QED BY <3>3, <3>4
  <2>8. LineMode(q, w, r, e, 4)
    BY <1>4, <2>5, <2>6, <2>7 DEF LineMode
  <2>9. q.busy <= 1
    BY <2>5
  <2> QED BY <2>5, <2>8, <2>9
<1> QED BY Zenon, <1>6, <1>7

(* Every step of a line that was begun is of its e-th byte.                *)
Goes(l, w, r, e, x) ==
  /\ l # << >> /\ Tail(l) = SubSeq(Line(w, r), 4 * e + x + 1, 4 * (LcdCols + 1))
  /\ x = 1 => Head(l) = Strobe(LineByte(r, w[r], e) \div 16, LineRs(e))
  /\ x = 3 => Head(l) = Strobe(LineByte(r, w[r], e) % 16, LineRs(e))
  /\ x \in {2, 4} => Head(l) = Gap

(* The next step of a line is the x-th of its e-th byte.                   *)
LEMMA LineHead ==
  ASSUME NEW w, NEW r \in Rows, Whole(w[r]), NEW e \in 0 .. LcdCols, NEW x \in 1 .. 4
  PROVE  Goes(SubSeq(Line(w, r), 4 * e + x, 4 * (LcdCols + 1)), w, r, e, x)
<1> DEFINE N == 4 * (LcdCols + 1)
           k == 4 * e + x
           b == LineByte(r, w[r], e)
           s == lcd_send(b, LineRs(e))
           l == SubSeq(Line(w, r), k, N)
<1>1. LcdCols \in Nat /\ N \in Nat /\ k \in 1 .. N
  BY LcdAssumption
<1>2. Line(w, r) \in Seq(Steps) /\ Len(Line(w, r)) = N /\ Line(w, r)[k] = s[x]
  <2> HIDE DEF Steps
  <2> QED BY LineIs DEF Line
<1>3. s = << Strobe(b \div 16, LineRs(e)), Gap, Strobe(b % 16, LineRs(e)), Gap >>
  BY Zenon, SendIs
<1>4. l # << >> /\ Head(l) = Line(w, r)[k] /\ Tail(l) = SubSeq(Line(w, r), k + 1, N)
  <2> HIDE DEF N, k, Steps
  <2>1. N = Len(Line(w, r))
    BY <1>2
  <2>3. Left(SubSeq(Line(w, r), k, N), Line(w, r), k, N)
    BY <1>1, <1>2, <2>1, Walk
  <2> QED BY Zenon, <2>3 DEF Left
<1> HIDE DEF l
<1>5. Head(l) = s[x]
  BY Zenon, <1>2, <1>4
<1> HIDE DEF b
<1>6. /\ x = 1 => Head(l) = Strobe(b \div 16, LineRs(e))
      /\ x = 3 => Head(l) = Strobe(b % 16, LineRs(e))
      /\ x \in {2, 4} => Head(l) = Gap
  <2>1. Head(l) = << Strobe(b \div 16, LineRs(e)), Gap, Strobe(b % 16, LineRs(e)), Gap >>[x]
    BY Zenon, <1>3, <1>5
  <2> DEFINE u == Strobe(b \div 16, LineRs(e))
             v == Strobe(b % 16, LineRs(e))
  <2> HIDE DEF u, v
  <2>2. << u, Gap, v, Gap >>[1] = u /\ << u, Gap, v, Gap >>[2] = Gap
        /\ << u, Gap, v, Gap >>[3] = v /\ << u, Gap, v, Gap >>[4] = Gap
    OBVIOUS
  <2>3. Head(l) = << u, Gap, v, Gap >>[x]
    BY Zenon, <2>1 DEF u, v
  <2>4. x \in {2, 4} => x = 2 \/ x = 4
    OBVIOUS
  <2> QED BY Zenon, <2>2, <2>3, <2>4 DEF u, v
<1> QED BY Zenon, <1>4, <1>6 DEF b, l, Goes

(* A step of a line leads to the next one.                                 *)
LEMMA LineStep ==
  ASSUME timing \in Timings, phase \in 0 .. 9, panel \in Panels,
         NEW r \in Rows, Whole(wanted[r]), NEW e \in 0 .. LcdCols, NEW x \in 1 .. 4,
         lost = 0, Drawing(r, e, x), Pulse \/ Busy \/ Sleep
  PROVE  /\ panel' \in Panels /\ phase' \in 0 .. 9 /\ lost' = 0
         /\ todo' = SubSeq(Line(wanted, r), 4 * e + x + 1, 4 * (LcdCols + 1))
         /\ wanted' = wanted /\ timing' = timing
         /\ x # 4 => LineMode(panel', wanted, r, e, x + 1) /\ panel'.busy <= LineBusy(x + 1)
         /\ x = 4 => LineMode(panel', wanted, r, e + 1, 1) /\ panel'.busy <= LineBusy(1)
<1> DEFINE b == LineByte(r, wanted[r], e)
<1>1. /\ todo # << >> /\ Tail(todo) = SubSeq(Line(wanted, r), 4 * e + x + 1, 4 * (LcdCols + 1))
      /\ x = 1 => Head(todo) = Strobe(b \div 16, LineRs(e))
      /\ x = 3 => Head(todo) = Strobe(b % 16, LineRs(e))
      /\ x \in {2, 4} => Head(todo) = Gap
  <2>1. todo = SubSeq(Line(wanted, r), 4 * e + x, 4 * (LcdCols + 1))
    BY DEF Drawing
  <2>2. Goes(SubSeq(Line(wanted, r), 4 * e + x, 4 * (LcdCols + 1)), wanted, r, e, x)
    BY LineHead
  <2>3. Goes(todo, wanted, r, e, x)
    BY Zenon, <2>1, <2>2
  <2> QED BY Zenon, <2>3 DEF Goes
<1>2. /\ todo' = SubSeq(Line(wanted, r), 4 * e + x + 1, 4 * (LcdCols + 1))
      /\ wanted' = wanted /\ timing' = timing
  BY <1>1 DEF Pulse, Busy, Sleep, Advance
<1>3. LineMode(panel, wanted, r, e, x) /\ panel.busy <= LineBusy(x)
  BY DEF Drawing
<1>4. panel.busy \in 0 .. 400
  BY BusyIs
<1> DEFINE Goal == /\ panel' \in Panels /\ phase' \in 0 .. 9 /\ lost' = 0
                   /\ x # 4 => LineMode(panel', wanted, r, e, x + 1) /\ panel'.busy <= LineBusy(x + 1)
                   /\ x = 4 => LineMode(panel', wanted, r, e + 1, 1) /\ panel'.busy <= LineBusy(1)
<1> SUFFICES Goal
  BY <1>2
<1>5. CASE x \in {1, 3}
  <2> DEFINE n == IF x = 1 THEN b \div 16 ELSE b % 16
             q(low) == Latched(panel, n, LineRs(e), low)
  <2>1. Head(todo) = Strobe(n, LineRs(e))
    BY <1>1, <1>5
  <2> HIDE DEF n
  <2>2. Head(todo).op = "pulse" /\ Head(todo).n = n /\ Head(todo).rs = LineRs(e)
    BY <2>1 DEF Strobe
  <2>3. Pulse
    BY <2>2 DEF Busy, Sleep
  <2>4. PICK low \in {0, 15} : Wait(q(low), 0)
    BY <2>2, <2>3 DEF Pulse
  <2>5. panel.busy = 0
    BY <1>3, <1>4, <1>5 DEF LineBusy
  <2>6. q(low) \in Panels /\ q(low).busy <= LineBusy(x + 1) /\ LineMode(q(low), wanted, r, e, x + 1)
    <3>1. CASE x = 1
      <4>1. n = b \div 16 /\ LineBusy(x + 1) = 0 /\ x + 1 = 2
        BY <3>1 DEF n, LineBusy
      <4>2. /\ Latched(panel, b \div 16, LineRs(e), low) \in Panels
            /\ Latched(panel, b \div 16, LineRs(e), low).busy <= 0
            /\ LineMode(Latched(panel, b \div 16, LineRs(e), low), wanted, r, e, 2)
        BY <1>3, <2>5, <3>1, LineHigh
      <4> HIDE DEF b
      <4> QED BY Zenon, <4>1, <4>2
    <3>2. CASE x = 3
      <4>1. n = b % 16 /\ LineBusy(x + 1) = 1 /\ x + 1 = 4
        BY <3>2 DEF n, LineBusy
      <4>2. /\ Latched(panel, b % 16, LineRs(e), low) \in Panels
            /\ Latched(panel, b % 16, LineRs(e), low).busy <= 1
            /\ LineMode(Latched(panel, b % 16, LineRs(e), low), wanted, r, e, 4)
        BY <1>3, <2>5, <3>2, LineLow
      <4> HIDE DEF b
      <4> QED BY Zenon, <4>1, <4>2
    <3> QED BY <1>5, <3>1, <3>2
  <2> HIDE DEF q, b
  <2>7. WaitedAs(q(low), 0, panel', phase, phase')
    <3>1. 0 \in Nat
      OBVIOUS
    <3> QED BY <2>4, <2>6, <3>1, WaitIs
  <2>8. LineMode(panel', wanted, r, e, x + 1)
    BY Zenon, <2>6, <2>7, LineSame DEF WaitedAs
  <2>9. q(low).busy \in 0 .. 400 /\ panel'.busy \in 0 .. 400 /\ LineBusy(x + 1) \in Nat
    BY <2>6, <2>7, BusyIs DEF WaitedAs, LineBusy
  <2>10. q(low).busy \in Int /\ panel'.busy \in Nat /\ 0 \in Int /\ LineBusy(x + 1) + 0 = LineBusy(x + 1)
    BY <2>9
  <2>11. panel'.busy <= LineBusy(x + 1)
    <3>1. panel'.busy = 0 \/ panel'.busy <= q(low).busy - 0
      BY <2>7 DEF WaitedAs
    <3>2. q(low).busy <= LineBusy(x + 1) + 0
      BY Zenon, <2>6, <2>10
    <3> QED BY Zenon, <2>9, <2>10, <3>1, <3>2, Shortens
  <2>12. x # 4
    BY <1>5
  <2>13. lost' = 0
    BY <2>3, <2>5 DEF Pulse
  <2> QED BY Zenon, <2>7, <2>8, <2>11, <2>12, <2>13 DEF WaitedAs
<1>6. CASE x \in {2, 4}
  <2>1. Head(todo).op = "us" /\ Head(todo).n = 1
    BY <1>1, <1>6 DEF Gap
  <2>2. Wait(panel, 1) /\ lost' = 0
    BY <2>1 DEF Pulse, Busy, Sleep
  <2>3. WaitedAs(panel, 1, panel', phase, phase')
    BY <2>2, WaitIs
  <2>4. LineMode(panel', wanted, r, e, x)
    BY Zenon, <1>3, <2>3, LineSame DEF WaitedAs
  <2>5. panel'.busy <= 0
    <3>1. panel'.busy \in 0 .. 400
      BY <2>3, BusyIs DEF WaitedAs
    <3>2. panel.busy \in Int /\ panel'.busy \in Nat /\ 1 \in Int /\ 0 \in Nat
      BY <1>4, <3>1
    <3>3. panel.busy <= 0 + 1
      <4>1. LineBusy(x) <= 1 /\ LineBusy(x) \in Int
        BY DEF LineBusy
      <4>2. 0 + 1 = 1
        OBVIOUS
      <4> QED BY Zenon, <1>3, <3>2, <4>1, <4>2, AtMost
    <3>4. panel'.busy = 0 \/ panel'.busy <= panel.busy - 1
      BY <2>3 DEF WaitedAs
    <3> QED BY Zenon, <3>2, <3>3, <3>4, Shortens
  <2>6. LineBusy(3) = 0 /\ LineBusy(1) = 0
    BY DEF LineBusy
  <2>7. CASE x = 2
    <3>1. x + 1 = 3 /\ x # 4
      BY <2>7
    <3>2. LineMode(panel', wanted, r, e, 3)
      BY Zenon, <2>4, <2>7, LineKept
    <3> QED BY Zenon, <2>2, <2>3, <2>5, <2>6, <3>1, <3>2 DEF WaitedAs
  <2>8. CASE x = 4
    <3>1. LineMode(panel', wanted, r, e + 1, 1)
      BY Zenon, <2>4, <2>8, LineKept
    <3> QED BY Zenon, <2>2, <2>3, <2>5, <2>6, <2>8, <3>1 DEF WaitedAs
  <2> QED BY <1>6, <2>7, <2>8
<1> QED BY <1>5, <1>6
-----------------------------------------------------------------------------
(***************************************************************************)
(* The invariant of the panel: the driver is at one of the steps of lcd_init *)
(* or of a line, with the panel in the mode of that step, or at rest; once *)
(* a pulse was lost, it is anywhere in its calls and the panel anyhow.     *)
(***************************************************************************)
InStep == \/ \E k \in 1 .. 34 : Starting(k)
          \/ \E r \in Rows, e \in 0 .. LcdCols, x \in 1 .. 4 : Drawing(r, e, x)
          \/ AtRest
OutOfStep == lost = 1 /\ ~Covered /\ todo \in Seq(Steps)
LcdIInv ==
  /\ timing \in Timings /\ phase \in 0 .. 9 /\ panel \in Panels
  /\ wanted \in [Rows -> Texts \cup {<< >>}]
  /\ (lost = 0 /\ InStep) \/ OutOfStep

(* Every text that was drawn is cut at its end, if at all.                 *)
LEMMA WantedIsWhole ==
  ASSUME NEW w \in [Rows -> Texts \cup {<< >>}], NEW r \in Rows
  PROVE  Whole(w[r])
<1>1. CASE w[r] \in Texts
  BY <1>1, LcdAssumption DEF Whole
<1>2. CASE w[r] = << >>
  <2>1. << >> \in Seq(Symbols) /\ Len(<< >>) = 0
    OBVIOUS
  <2> QED BY <1>2, <2>1 DEF Whole
<1> QED BY <1>1, <1>2

(* A panel whose supply has just come up is a panel.                       *)
LEMMA FreshIs ==
  FreshPanels \subseteq Panels
<1> SUFFICES ASSUME NEW w \in BOOLEAN, NEW h \in {Nowhere, 0, 3}, NEW o \in BOOLEAN
             PROVE  [wide |-> w, half |-> h, busy |-> 400, on |-> o, two |-> ~w, inc |-> o, ac |-> 0,
                     ram |-> [a \in Cells |-> 0]] \in Panels
  BY DEF FreshPanels
<1>1. h \in Halves /\ 400 \in Delays /\ 0 \in Addresses /\ [a \in Cells |-> 0] \in Memories
  BY DEF Halves, Delays, Addresses, Memories
<1> QED BY <1>1 DEF Panels

(* Wherever the panel is, lcd_init may begin.                              *)
LEMMA Starts ==
  ASSUME panel \in Panels, phase = 0, todo = lcd_init, wanted = [r \in Rows |-> << >>]
  PROVE  Starting(1) /\ wanted \in [Rows -> Texts \cup {<< >>}]
<1>1. SubSeq(lcd_init, 1, 34) = lcd_init
  <2>1. lcd_init \in Seq(Steps) /\ Len(lcd_init) = 34
    BY InitIs DEF Begins
  <2> HIDE DEF Steps
  <2> QED BY <2>1, SubSeqFull
<1>2. StartMode(1, panel)
  BY DEF StartMode
<1>3. panel.busy <= StartBusy(1)
  BY Zenon, BusyIs DEF StartBusy
<1>4. Punctual(1, phase)
  BY DEF Punctual, StartPhase
<1>5. wanted = Unwritten
  BY DEF Unwritten
<1> QED BY <1>1, <1>2, <1>3, <1>4, <1>5 DEF Starting

(* The invariant holds when the power comes up.                            *)
LEMMA LcdInitInv ==
  LcdInit => LcdIInv
BY FreshIs, Starts DEF LcdInit, LcdIInv, InStep

(* A restart begins lcd_init, whatever the panel was doing.                *)
LEMMA LcdRestart ==
  ASSUME timing \in Timings, NEW p \in Panels, Restart(p)
  PROVE  LcdIInv'
<1>1. timing' \in Timings /\ phase' = 0 /\ panel' \in Panels /\ todo' = lcd_init
      /\ wanted' = [r \in Rows |-> << >>] /\ lost' = 0
  BY DEF Restart
<1>2. phase' \in 0 .. 9
  BY <1>1
<1>3. SubSeq(lcd_init, 1, 34) = lcd_init
  <2>1. lcd_init \in Seq(Steps) /\ Len(lcd_init) = 34
    BY InitIs DEF Begins
  <2> HIDE DEF Steps
  <2> QED BY <2>1, SubSeqFull
<1>4. StartMode(1, panel')
  BY DEF StartMode
<1>5. (panel.busy <= StartBusy(1))'
  <2>1. panel'.busy \in 0 .. 400
    BY <1>1, BusyIs
  <2>2. panel'.busy <= 400
    BY <2>1
  <2> QED BY <2>2 DEF StartBusy
<1>6. Punctual(1, phase)'
  BY <1>1 DEF Punctual, StartPhase
<1>7. (wanted = Unwritten /\ wanted \in [Rows -> Texts \cup {<< >>}])'
  BY <1>1 DEF Unwritten
<1>8. Starting(1)'
  BY <1>1, <1>3, <1>4, <1>5, <1>6, <1>7 DEF Starting
<1> QED BY <1>1, <1>2, <1>7, <1>8 DEF LcdIInv, InStep

(* The pulse after the clear of lcd_init is lost when it comes too early.  *)
LEMMA StartLost ==
  ASSUME LcdIInv, Starting(27), lost = 0, panel.busy # 0, Pulse \/ Busy \/ Sleep
  PROVE  LcdIInv'
<1>1. panel.busy \in 0 .. 400 /\ panel.busy > 0
  <2>1. panel.busy \in 0 .. 400
    BY BusyIs DEF LcdIInv
  <2> QED BY <2>1
<1>2. ~Covered
  <2> SUFFICES ASSUME Covered PROVE FALSE
    OBVIOUS
  <2>1. StartBusy(27) = 0
    BY DEF StartBusy
  <2>2. panel.busy <= 0
    BY Zenon, <2>1 DEF Starting
  <2> QED BY <1>1, <2>2
<1>3. Pulse
  <2>1. Head(todo) = InitStep(27) /\ InitStep(27) = Strobe(0, 0)
    BY StartHead, InitStepIs
  <2>2. Head(todo).op = "pulse"
    BY <2>1 DEF Strobe
  <2> QED BY <2>2 DEF Busy, Sleep
<1>4. lost' = 1
  BY <1>1, <1>3 DEF Pulse
<1>5. todo \in Seq(Steps)
  <2>1. lcd_init \in Seq(Steps) /\ Len(lcd_init) = 34
    BY InitIs DEF Begins
  <2>2. todo = SubSeq(lcd_init, 27, 34)
    BY DEF Starting
  <2> HIDE DEF Steps
  <2>3. 34 \in Nat /\ 27 \in 1 .. 34
    OBVIOUS
  <2> QED BY Zenon, <2>1, <2>2, <2>3, RestOf
<1>6. panel' \in Panels /\ phase' \in 0 .. 9 /\ todo' \in Seq(Steps) /\ timing' = timing
      /\ wanted' = wanted
  BY <1>5, AnyStep DEF LcdIInv
<1>7. (~Covered)'
  BY <1>2, <1>6 DEF Covered
<1> QED BY <1>4, <1>6, <1>7 DEF LcdIInv, OutOfStep

(* A step of lcd_init that is not lost keeps the invariant.                *)
LEMMA StartInv ==
  ASSUME LcdIInv, NEW k \in 1 .. 34, Starting(k), lost = 0, k = 27 => panel.busy = 0,
         Pulse \/ Busy \/ Sleep
  PROVE  LcdIInv'
<1>1. /\ panel' \in Panels /\ phase' \in 0 .. 9 /\ lost' = 0
      /\ todo' = SubSeq(lcd_init, k + 1, 34) /\ wanted' = wanted /\ timing' = timing
      /\ StartMode(k + 1, panel') /\ panel'.busy <= StartBusy(k + 1) /\ Punctual(k + 1, phase')
  BY StartingStep DEF LcdIInv
<1>2. timing' \in Timings /\ (wanted \in [Rows -> Texts \cup {<< >>}])'
  BY <1>1 DEF LcdIInv
<1>3. wanted' = Unwritten
  BY <1>1 DEF Starting
<1>4. CASE k < 34
  <2>1. k + 1 \in 1 .. 34
    BY <1>4
  <2>2. (panel.busy <= StartBusy(k + 1))'
    BY <1>1 DEF StartBusy, Covered
  <2>3. Punctual(k + 1, phase)'
    BY <1>1 DEF Punctual
  <2>4. Starting(k + 1)'
    BY <1>1, <1>3, <2>2, <2>3 DEF Starting
  <2> QED BY <1>1, <1>2, <2>1, <2>4 DEF LcdIInv, InStep
<1>5. CASE k = 34
  <2>1. todo' = << >>
    BY <1>1, <1>5, Walked
  <2>2. StartBusy(35) = 0 /\ StartHalf(35) = Nowhere
    BY DEF StartBusy, Pulses, StartHalf
  <2>3. ~(panel'.wide) /\ panel'.half = Nowhere /\ panel'.on /\ panel'.two /\ panel'.inc
        /\ panel'.ram = Blank
    BY <1>1, <1>5, <2>2 DEF StartMode
  <2>4. panel'.busy = 0
    <3>1. panel'.busy \in 0 .. 400
      BY <1>1, BusyIs
    <3>2. panel'.busy <= 0
      <4>1. k + 1 = 35
        BY <1>5
      <4> QED BY Zenon, <1>1, <2>2, <4>1
    <3> QED BY <3>1, <3>2
  <2>5. Reads(panel', wanted')
    <3> SUFFICES ASSUME NEW r \in Rows, NEW c \in 0 .. LcdCols - 1
                 PROVE  panel'.ram[64 * r + c] = Shown(wanted'[r])[c]
      BY DEF Reads
    <3>1. panel'.ram[64 * r + c] = Space
      BY <2>3, CellIs DEF Blank
    <3>2. wanted'[r] = << >>
      BY <1>3 DEF Unwritten
    <3>3. Shown(<< >>)[c] = Space
      BY DEF Shown
    <3> QED BY <3>1, <3>2, <3>3
  <2>6. AtRest'
    BY <2>1, <2>3, <2>4, <2>5 DEF AtRest, Operating
  <2> QED BY <1>1, <1>2, <2>6 DEF LcdIInv, InStep
<1>6. k < 34 \/ k = 34
  OBVIOUS
<1> QED BY <1>4, <1>5, <1>6

(* A step of a line keeps the invariant.                                   *)
LEMMA DrawingInv ==
  ASSUME LcdIInv, NEW r \in Rows, NEW e \in 0 .. LcdCols, NEW x \in 1 .. 4, Drawing(r, e, x),
         lost = 0, Pulse \/ Busy \/ Sleep
  PROVE  LcdIInv'
<1>1. Whole(wanted[r])
  BY WantedIsWhole DEF LcdIInv
<1>2. /\ panel' \in Panels /\ phase' \in 0 .. 9 /\ lost' = 0
      /\ todo' = SubSeq(Line(wanted, r), 4 * e + x + 1, 4 * (LcdCols + 1))
      /\ wanted' = wanted /\ timing' = timing
      /\ x # 4 => LineMode(panel', wanted, r, e, x + 1) /\ panel'.busy <= LineBusy(x + 1)
      /\ x = 4 => LineMode(panel', wanted, r, e + 1, 1) /\ panel'.busy <= LineBusy(1)
  BY <1>1, LineStep DEF LcdIInv
<1>3. timing' \in Timings /\ (wanted \in [Rows -> Texts \cup {<< >>}])'
  BY <1>2 DEF LcdIInv
<1>4. LcdCols \in Nat
  BY LcdAssumption
<1>5. CASE x # 4
  <2>1. x + 1 \in 1 .. 4 /\ 4 * e + x + 1 = 4 * e + (x + 1)
    BY <1>5
  <2>2. todo' = SubSeq(Line(wanted', r), 4 * e + (x + 1), 4 * (LcdCols + 1))
    BY Zenon, <1>2, <2>1
  <2>3. LineMode(panel', wanted', r, e, x + 1) /\ panel'.busy <= LineBusy(x + 1)
    BY Zenon, <1>2, <1>5
  <2>4. Drawing(r, e, x + 1)'
    BY Zenon, <2>2, <2>3 DEF Drawing
  <2> QED BY <1>2, <1>3, <2>1, <2>4 DEF LcdIInv, InStep
<1>6. CASE x = 4 /\ e < LcdCols
  <2>1. e + 1 \in 0 .. LcdCols /\ 4 * e + 4 + 1 = 4 * (e + 1) + 1 /\ 1 \in 1 .. 4
    BY <1>4, <1>6
  <2>2. todo' = SubSeq(Line(wanted', r), 4 * (e + 1) + 1, 4 * (LcdCols + 1))
    BY Zenon, <1>2, <1>6, <2>1
  <2>3. LineMode(panel', wanted', r, e + 1, 1) /\ panel'.busy <= LineBusy(1)
    BY Zenon, <1>2, <1>6
  <2>4. Drawing(r, e + 1, 1)'
    BY Zenon, <2>2, <2>3 DEF Drawing
  <2> QED BY <1>2, <1>3, <2>1, <2>4 DEF LcdIInv, InStep
<1>7. CASE x = 4 /\ e = LcdCols
  <2>1. 4 * e + x + 1 = 4 * (LcdCols + 1) + 1 /\ 4 * (LcdCols + 1) \in Nat
    BY <1>4, <1>7
  <2>2. todo' = << >>
    BY Zenon, <1>2, <2>1, Walked
  <2>3. LineMode(panel', wanted', r, LcdCols + 1, 1) /\ panel'.busy <= 0
    BY <1>2, <1>7 DEF LineBusy
  <2>4. Column(LcdCols + 1, 1) = LcdCols + 1
    BY DEF Column
  <2>5. ~(panel'.wide) /\ panel'.half = Nowhere /\ panel'.on /\ panel'.two /\ panel'.inc
        /\ Drawn(panel', wanted', r, LcdCols + 1)
    BY <2>3, <2>4 DEF LineMode
  <2>6. panel'.busy = 0
    <3>1. panel'.busy \in 0 .. 400
      BY <1>2, BusyIs
    <3> QED BY <2>3, <3>1
  <2>7. Reads(panel', wanted')
    BY <1>4, <2>5 DEF Drawn, Reads
  <2>8. AtRest'
    BY <2>2, <2>5, <2>6, <2>7 DEF AtRest, Operating
  <2> QED BY <1>2, <1>3, <2>8 DEF LcdIInv, InStep
<1> QED BY <1>4, <1>5, <1>6, <1>7

(* Nothing is left to do only at rest.                                     *)
LEMMA NoneLeft ==
  ASSUME LcdIInv, lost = 0, todo = << >>
  PROVE  AtRest
<1>0. InStep
  BY DEF LcdIInv, OutOfStep
<1>1. \A k \in 1 .. 34 : ~Starting(k)
  BY StartHead
<1>2. \A r \in Rows, e \in 0 .. LcdCols, x \in 1 .. 4 : ~Drawing(r, e, x)
  BY LineHead, WantedIsWhole DEF LcdIInv, Drawing, Goes
<1> QED BY Zenon, <1>0, <1>1, <1>2 DEF InStep

(* A line that is begun out of step.                                       *)
LEMMA DrawLost ==
  ASSUME LcdIInv, OutOfStep, Draw
  PROVE  LcdIInv'
<1>1. PICK r \in Rows, t \in Texts :
        todo' = lcd_mb_write(r, CString(t)) /\ wanted' = [wanted EXCEPT ![r] = t]
  BY DEF Draw
<1>2. phase' \in 0 .. 9 /\ timing' = timing /\ lost' = lost
      /\ (wanted \in [Rows -> Texts \cup {<< >>}])'
  BY <1>1 DEF Draw, LcdIInv
<1>3. panel' \in Panels
  BY ElapsedIs DEF Draw, LcdIInv
<1>4. todo' \in Seq(Steps)
  <2>1. Whole(t)
    BY LcdAssumption DEF Whole
  <2> HIDE DEF Steps
  <2> QED BY <1>1, <2>1, LineIs
<1>5. OutOfStep'
  BY <1>2, <1>4 DEF OutOfStep, Covered
<1> QED BY <1>2, <1>3, <1>5 DEF LcdIInv

(* A line that is begun keeps the invariant.                               *)
LEMMA DrawInv ==
  ASSUME LcdIInv, lost = 0, Draw
  PROVE  LcdIInv'
<1>1. AtRest
  BY NoneLeft DEF Draw
<1>2. PICK r \in Rows, t \in Texts :
        /\ todo' = lcd_mb_write(r, CString(t))
        /\ wanted' = [wanted EXCEPT ![r] = t]
  BY DEF Draw
<1>3. phase' \in 0 .. 9 /\ timing' \in Timings /\ (wanted \in [Rows -> Texts \cup {<< >>}])'
  BY <1>2 DEF Draw, LcdIInv
<1>4. /\ panel' \in Panels /\ panel'.busy = 0
      /\ panel'.wide = panel.wide /\ panel'.half = panel.half /\ panel'.on = panel.on
      /\ panel'.two = panel.two /\ panel'.inc = panel.inc /\ panel'.ram = panel.ram
  <2>1. panel' = Elapsed(panel, 10) /\ panel.busy = 0 /\ 10 \in Nat /\ panel \in Panels
    BY <1>1 DEF Draw, AtRest, LcdIInv
  <2> QED BY <2>1, ElapsedIs
<1>5. wanted'[r] = t /\ \A o \in Rows : o # r => wanted'[o] = wanted[o]
  BY <1>2 DEF LcdIInv
<1>6. todo' = SubSeq(Line(wanted', r), 4 * 0 + 1, 4 * (LcdCols + 1))
  <2>1. Whole(wanted'[r])
    BY <1>3, WantedIsWhole
  <2>2. Line(wanted', r) = todo' /\ todo' \in Seq(Steps) /\ Len(todo') = 4 * (LcdCols + 1)
    <3> HIDE DEF Steps
    <3> QED BY <1>2, <1>5, <2>1, LineIs DEF Line
  <2>3. SubSeq(todo', 1, Len(todo')) = todo' /\ 4 * 0 + 1 = 1
    <3> HIDE DEF Steps
    <3> QED BY <2>2, SubSeqFull
  <2> QED BY Zenon, <2>2, <2>3
<1>7. LineMode(panel', wanted', r, 0, 1)
  <2>1. Column(0, 1) = 0
    BY DEF Column
  <2>2. Drawn(panel', wanted', r, 0)
    <3> SUFFICES ASSUME NEW o \in Rows, NEW c \in 0 .. LcdCols - 1, o # r \/ c < 0 - 1
                 PROVE  panel'.ram[64 * o + c] = Shown(wanted'[o])[c]
      BY DEF Drawn
    <3>1. o # r
      BY LcdAssumption
    <3> QED BY <1>1, <1>4, <1>5, <3>1 DEF AtRest, Reads
  <2>3. ~(panel'.wide) /\ panel'.half = Nowhere /\ panel'.on /\ panel'.two /\ panel'.inc
    BY <1>1, <1>4 DEF AtRest, Operating
  <2> QED BY <2>1, <2>2, <2>3 DEF LineMode
<1>8. panel'.busy <= LineBusy(1)
  BY <1>4 DEF LineBusy
<1>9. Drawing(r, 0, 1)' /\ 0 \in 0 .. LcdCols /\ 1 \in 1 .. 4
  BY <1>6, <1>7, <1>8, LcdAssumption DEF Drawing
<1>10. lost' = 0
  BY DEF Draw
<1> QED BY <1>3, <1>4, <1>9, <1>10 DEF LcdIInv, InStep

(* Every step keeps the invariant.                                         *)
LEMMA LcdNextInv ==
  LcdIInv /\ [LcdNext]_lcdVars => LcdIInv'
<1> SUFFICES ASSUME LcdIInv, [LcdNext]_lcdVars PROVE LcdIInv'
  OBVIOUS
<1>1. CASE Pulse \/ Busy \/ Sleep
  <2>1. todo # << >>
    BY <1>1 DEF Pulse, Busy, Sleep
  <2>2. ~AtRest
    BY <2>1 DEF AtRest
  <2>3. CASE OutOfStep
    <3>1. /\ panel' \in Panels /\ phase' \in 0 .. 9 /\ todo' \in Seq(Steps)
          /\ timing' = timing /\ wanted' = wanted /\ lost' = 1
      BY <1>1, <2>3, AnyStep DEF LcdIInv, OutOfStep
    <3>2. OutOfStep'
      BY <2>3, <3>1 DEF OutOfStep, Covered
    <3> QED BY <3>1, <3>2 DEF LcdIInv
  <2>4. CASE lost = 0 /\ InStep
    <3>1. ASSUME NEW k \in 1 .. 34, Starting(k) PROVE LcdIInv'
      <4>1. CASE k = 27 /\ panel.busy # 0
        BY <1>1, <2>4, <3>1, <4>1, StartLost
      <4>2. CASE k = 27 => panel.busy = 0
        BY <1>1, <2>4, <3>1, <4>2, StartInv
      <4> QED BY <4>1, <4>2
    <3>2. ASSUME NEW r \in Rows, NEW e \in 0 .. LcdCols, NEW x \in 1 .. 4, Drawing(r, e, x)
          PROVE  LcdIInv'
      BY <1>1, <2>4, <3>2, DrawingInv
    <3> QED BY <2>2, <2>4, <3>1, <3>2 DEF InStep
  <2> QED BY <2>3, <2>4 DEF LcdIInv
<1>2. CASE Draw
  BY <1>2, DrawInv, DrawLost DEF LcdIInv
<1>3. CASE LcdReset
  BY <1>3, LcdRestart DEF LcdReset, LcdIInv
<1>4. CASE Supply
  BY <1>4, FreshIs, LcdRestart DEF Supply, LcdIInv
<1>5. CASE UNCHANGED lcdVars
  <2>1. timing' = timing /\ panel' = panel /\ todo' = todo /\ phase' = phase /\ wanted' = wanted
        /\ lost' = lost
    BY <1>5 DEF lcdVars
  <2>2. ASSUME NEW k \in 1 .. 34, Starting(k) PROVE Starting(k)'
    <3>1. StartBusy(k)' = StartBusy(k)
      BY <2>1 DEF StartBusy, Covered
    <3>2. Punctual(k, phase)' <=> Punctual(k, phase)
      BY Zenon, <2>1 DEF Punctual
    <3> QED BY Zenon, <2>1, <2>2, <3>1, <3>2 DEF Starting
  <2>3. ASSUME NEW r \in Rows, NEW e \in 0 .. LcdCols, NEW x \in 1 .. 4, Drawing(r, e, x)
        PROVE  Drawing(r, e, x)'
    BY Zenon, <2>1, <2>3 DEF Drawing
  <2>4. AtRest => AtRest'
    BY Zenon, <2>1 DEF AtRest
  <2>5. OutOfStep => OutOfStep'
    BY <2>1 DEF OutOfStep, Covered
  <2>6. InStep => InStep'
    BY <2>2, <2>3, <2>4 DEF InStep
  <2> QED BY <2>1, <2>5, <2>6 DEF LcdIInv
<1> QED BY <1>1, <1>2, <1>3, <1>4, <1>5 DEF LcdNext

(* The invariant implies the property of lcd_screen.                       *)
LEMMA LcdInStep ==
  LcdIInv => PanelInStep
<1> SUFFICES ASSUME LcdIInv PROVE PanelInStep
  OBVIOUS
<1>1. LcdTypeOK /\ (lost = 1 => ~Covered)
  <2>1. lost \in {0, 1} /\ (lost = 1 => ~Covered)
    BY DEF LcdIInv, OutOfStep
  <2>2. \A r \in Rows : wanted[r] \in Texts \cup {<< >>}
    BY DEF LcdIInv
  <2> QED BY <2>1, <2>2 DEF LcdIInv, LcdTypeOK, Panels, Halves, Delays, Addresses, Memories
<1>2. ASSUME lost = 0, todo # << >>, Head(todo).op = "pulse", panel.busy > 0
      PROVE  ~Covered /\ todo = AfterClear
  <2>0. panel.busy > 0
    BY Zenon, <1>2
  <2>4. panel.busy \in 0 .. 400
    BY BusyIs DEF LcdIInv
  <2>5. ~(panel.busy <= 0)
    BY <2>0, <2>4
  <2>1. ASSUME NEW k \in 1 .. 34, Starting(k) PROVE ~Covered /\ todo = AfterClear
    <3>1. InitStep(k).op = "pulse"
      BY <1>2, <2>1, StartHead
    <3>2. k \in Pulses
      BY <3>1, InitStepIs DEF Nap, Gap, Pulses
    <3>3. panel.busy <= StartBusy(k)
      BY <2>1 DEF Starting
    <3>4. StartBusy(k) # 0
      BY <2>5, <3>3
    <3>5. k = 27 /\ ~Covered
      BY <3>2, <3>4 DEF StartBusy, Pulses
    <3>6. todo = SubSeq(lcd_init, 27, 34)
      BY <2>1, <3>5 DEF Starting
    <3> QED BY <3>5, <3>6, AfterClearIs
  <2>2. ASSUME NEW r \in Rows, NEW e \in 0 .. LcdCols, NEW x \in 1 .. 4, Drawing(r, e, x)
        PROVE  FALSE
    <3>1. Goes(todo, wanted, r, e, x)
      BY <2>2, LineHead, WantedIsWhole DEF LcdIInv, Drawing
    <3>2. x \notin {2, 4}
      BY <1>2, <3>1 DEF Goes, Gap
    <3>3. LineBusy(x) = 0
      BY <3>2 DEF LineBusy
    <3>4. panel.busy <= 0
      BY Zenon, <2>2, <3>3 DEF Drawing
    <3> QED BY <2>5, <3>4
  <2>3. InStep /\ ~AtRest
    BY <1>2 DEF LcdIInv, OutOfStep, AtRest
  <2> QED BY <2>1, <2>2, <2>3 DEF InStep
<1>3. ScreenShows
  <2> SUFFICES ASSUME todo = << >>, lost = 0
               PROVE  /\ ~panel.wide /\ panel.half = Nowhere
                      /\ panel.on /\ panel.two /\ panel.inc
                      /\ \A r \in Rows, c \in 0 .. LcdCols - 1 :
                           panel.ram[row_offsets[r + 1] + c] = Shown(wanted[r])[c]
    BY DEF ScreenShows
  <2>1. Operating(panel) /\ Reads(panel, wanted)
    BY NoneLeft DEF AtRest
  <2>2. ASSUME NEW r \in Rows, NEW c \in 0 .. LcdCols - 1
        PROVE  panel.ram[row_offsets[r + 1] + c] = Shown(wanted[r])[c]
    BY <2>1, CellIs DEF Reads
  <2> QED BY <2>1, <2>2 DEF Operating
<1> QED BY <1>1, <1>2, <1>3 DEF PanelInStep, PanelKeepsUp

(* For every width of the panel, set of texts, time up to 1.6 ms that the  *)
(* panel takes to clear and delay by preemption: the first pulse that      *)
(* meets a busy panel, if any, is the one after the clear of lcd_init,     *)
(* and only where the sleep there may be shorter than the clear; until     *)
(* then the panel shows, between two calls, what the menu drew, the        *)
(* symbols of Misdrawn as other letters.                                   *)
THEOREM PanelStaysInStep == LcdSpec => []PanelInStep
BY LcdInitInv, LcdNextInv, LcdInStep, PTL DEF LcdSpec
=============================================================================
