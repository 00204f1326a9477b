-------------------------------- MODULE I2c --------------------------------
(***************************************************************************)
(* The polling driver of the I2C bus (i2c.c), the peripheral it drives and *)
(* the EEPROM at the other end.  The peripheral moves bytes on its own,    *)
(* through a data register and a shift register, while the UI task waits   *)
(* for a flag or is preempted; it holds the clock when both registers are  *)
(* full (receiving) or empty (sending).                                    *)
(*                                                                         *)
(* The callers (eeprom.c) write an address of two bytes and data, or write *)
(* an address and read three bytes or more; reads of one and two bytes     *)
(* have no caller.                                                         *)
(***************************************************************************)
EXTENDS Integers, Sequences, SequencesExt

CONSTANTS Payloads,     \* what page_write sends, each a sequence of bytes
          ReadLengths,  \* what eeprom_read_regs and eeprom_check_crc ask for
          Worlds        \* sets of faults: "nack", "dead", "reset"

ASSUME I2cAssumption == /\ Payloads \subseteq Seq(Nat) \ {<<>>}
                        /\ ReadLengths \subseteq Nat \ 0..2

VARIABLES world,
          per,      \* the peripheral: state of the bus, registers, requests
          chip,     \* the EEPROM: bytes received, number sent, "NACK seen", and
                    \* what the call that began the transfer has to write
          dead,     \* the lines do not move for now
          held,     \* the chip keeps SDA low, in a byte nobody clocks any more
          pc, call, \* the driver: where it waits, and in which call
          i,        \* its loop counter
          buf,      \* rd[], what it stored so far
          result,   \* of the last call
          fault     \* something went wrong on the bus during the call
vars == <<world, per, chip, dead, held, pc, call, i, buf, result, fault>>

None == -1
Address == <<0, 0>>     \* eeprom.c: every read begins at address 0
Idle == [wr |-> Address, n |-> 0]

\* i2c1_init.
i2c1_init == [st |-> "idle", dir |-> "tx", td |-> None, rd |-> None, sh |-> None,
              ack |-> TRUE, start |-> FALSE, stop |-> FALSE]

\* The flags.
I2CBSY == per.st # "idle" \/ held
SBSEND == per.st = "sb"
ADDSEND == per.st = "addr"
TBE == per.st = "tx" /\ per.td = None
RBNE == per.rd # None
BTC == \/ per.st = "tx" /\ per.td = None /\ per.sh = None /\ chip.rx # <<>>
       \/ per.st = "rx" /\ per.rd # None /\ per.sh # None

Larger(a, b) == IF a > b THEN a ELSE b

TypeOK ==
    /\ world \in Worlds /\ dead \in BOOLEAN /\ held \in BOOLEAN /\ fault \in BOOLEAN
    /\ per.st \in {"idle", "sb", "addressing", "addr", "tx", "rx", "aerr"}
    /\ per.dir \in {"tx", "rx"}
    /\ pc \in {"idle", "busy", "start", "address", "write", "sent", "restart", "readdress",
               "read", "second", "stopped", "last"}
    /\ call \in [wr : Payloads \cup {Address}, n : ReadLengths \cup {0}]
    /\ i \in 0..Larger(Len(call.wr), call.n)
    /\ result \in {"none", "ok", "failed"}

Init == /\ world \in Worlds
        /\ per = i2c1_init
        /\ chip = [rx |-> <<>>, sent |-> 0, nack |-> FALSE, due |-> <<>>]
        /\ dead = FALSE /\ held = FALSE
        /\ pc = "idle" /\ call = Idle /\ i = 0 /\ buf = <<>>
        /\ result = "none" /\ fault = FALSE
-----------------------------------------------------------------------------
(***************************************************************************)
(* The peripheral and the chip                                             *)
(***************************************************************************)
MayStart == /\ per.start /\ ~per.stop
            /\ \/ per.st = "idle" /\ ~held
               \/ per.st = "tx" /\ per.td = None /\ per.sh = None
MayAddress == per.st = "addressing"
MaySend == per.st = "tx" /\ per.sh # None
MayReceive == per.st = "rx" /\ per.sh = None /\ ~per.stop
MayStop == per.stop /\ ~MaySend
HardwareRuns == ~dead /\ (MayStart \/ MayAddress \/ MaySend \/ MayReceive \/ MayStop)

Drivers == <<world, dead, held, pc, call, i, buf, result>>

\* A START ends what the shift register was doing.  From a free bus it begins
\* a new transfer; a repeated one keeps the chip's address counter.
Start == /\ MayStart
         /\ per' = [per EXCEPT !.st = "sb", !.start = FALSE, !.sh = None, !.td = None]
         /\ chip' = IF per.st = "idle" THEN [rx |-> <<>>, sent |-> 0, nack |-> FALSE, due |-> call.wr]
                    ELSE chip
         /\ UNCHANGED fault

\* The chip does not answer: the acknowledge error sets none of the flags the
\* driver waits for.
NoAnswer == /\ "nack" \in world
            /\ per' = [per EXCEPT !.st = "aerr", !.sh = None]
            /\ fault' = TRUE
            /\ UNCHANGED chip

AddressByte == MayAddress /\ \/ per' = [per EXCEPT !.st = "addr"] /\ UNCHANGED <<chip, fault>>
                             \/ NoAnswer

SendByte == MaySend /\ \/ /\ chip' = [chip EXCEPT !.rx = Append(@, per.sh)]
                          /\ per' = [per EXCEPT !.sh = per.td, !.td = None]
                          /\ UNCHANGED fault
                       \/ NoAnswer

\* The chip's n-th byte is n here, if it was asked for address 0.  After a
\* NACK it is silent, and the free line reads as 255.  ACKEN counts at the end
\* of the byte.
ReceiveByte ==
    /\ MayReceive
    /\ LET byte == IF chip.nack THEN 255 ELSE IF chip.rx # Address THEN 0 ELSE chip.sent + 1
       IN per' = IF per.rd = None THEN [per EXCEPT !.rd = byte] ELSE [per EXCEPT !.sh = byte]
    /\ chip' = IF chip.nack THEN chip ELSE [chip EXCEPT !.sent = @ + 1, !.nack = ~per.ack]
    /\ UNCHANGED fault

\* A STOP waits for the byte under way; a byte still in the data register is
\* not sent any more.
Stop == /\ MayStop
        /\ per' = [per EXCEPT !.st = "idle", !.stop = FALSE, !.start = FALSE, !.td = None]
        /\ UNCHANGED <<chip, fault>>

Hardware == ~dead /\ (Start \/ AddressByte \/ SendByte \/ ReceiveByte \/ Stop)
            /\ UNCHANGED Drivers
-----------------------------------------------------------------------------
(***************************************************************************)
(* The driver.  Each step waits for a flag, as wait_set does, and then     *)
(* acts up to the next wait.  i2c_data_receive moves the byte behind the   *)
(* one it takes; i2c_data_transmit discards a byte left in the receiver.   *)
(***************************************************************************)
Received(p) == [p EXCEPT !.rd = p.sh, !.sh = None]
Transmitted(p, b) == IF p.sh = None THEN [p EXCEPT !.sh = b, !.rd = None]
                     ELSE [p EXCEPT !.td = b, !.rd = None]

Goto(label) == pc' = label /\ UNCHANGED result
Return(r) == pc' = "idle" /\ result' = r
Buses == <<world, chip, dead, held, fault, call>>
Kept == UNCHANGED <<i, buf>>

\* i2c1_write (n = 0) or i2c1_write_read is called.
Call == /\ pc = "idle"
        /\ \/ \E p \in Payloads : call' = [wr |-> p, n |-> 0]
           \/ \E n \in ReadLengths : call' = [wr |-> Address, n |-> n]
        /\ pc' = "busy" /\ i' = 0 /\ buf' = <<>> /\ result' = "none"
        /\ fault' = (dead \/ held)
        /\ UNCHANGED <<world, per, chip, dead, held>>

WaitFree == /\ pc = "busy" /\ ~I2CBSY
            /\ per' = [per EXCEPT !.start = TRUE]
            /\ Goto("start") /\ Kept

SendAddress(at, next, dir, acked) ==
    /\ pc = at /\ SBSEND
    /\ per' = [per EXCEPT !.st = "addressing", !.dir = dir, !.ack = acked]
    /\ Goto(next) /\ Kept

\* CLEAR_ADDSEND.
ClearAddress(at, next) ==
    /\ pc = at /\ ADDSEND
    /\ per' = [per EXCEPT !.st = per.dir]
    /\ Goto(next) /\ Kept

WriteByte == /\ pc = "write" /\ TBE
             /\ per' = Transmitted(per, call.wr[i + 1])
             /\ i' = i + 1
             /\ Goto(IF i + 1 = Len(call.wr) THEN "sent" ELSE "write")
             /\ UNCHANGED buf

\* The last byte has left: STOP, or START again to read.
SentUnwaited == /\ pc = "sent" /\ TBE
                /\ IF call.n = 0 THEN per' = [per EXCEPT !.stop = TRUE] /\ Return("ok")
                   ELSE per' = [per EXCEPT !.start = TRUE] /\ Goto("restart")
                /\ i' = 0 /\ UNCHANGED buf
Sent == /\ pc = "sent" /\ BTC
        /\ IF call.n = 0 THEN per' = [per EXCEPT !.stop = TRUE] /\ Return("ok")
           ELSE per' = [per EXCEPT !.start = TRUE] /\ Goto("restart")
        /\ i' = 0 /\ UNCHANGED buf

Store == buf' = Append(buf, per.rd) /\ i' = i + 1

ReadByte == /\ pc = "read" /\ i < call.n - 3 /\ RBNE
            /\ per' = Received(per) /\ Store
            /\ Goto("read")

ThirdToLastEarly == /\ pc = "read" /\ i = call.n - 3 /\ RBNE
                    /\ per' = [Received(per) EXCEPT !.ack = FALSE] /\ Store
                    /\ Goto("second")
ThirdToLast == /\ pc = "read" /\ i = call.n - 3 /\ BTC
               /\ per' = [Received(per) EXCEPT !.ack = FALSE] /\ Store
               /\ Goto("second")

SecondToLast == /\ pc = "second" /\ BTC
                /\ per' = [per EXCEPT !.stop = TRUE]
                /\ Goto("stopped") /\ Kept
AfterStop == /\ pc = "stopped"
             /\ per' = Received(per) /\ Store
             /\ Goto("last")

LastByte == /\ pc = "last" /\ RBNE
            /\ per' = [Received(per) EXCEPT !.ack = TRUE] /\ Store
            /\ Return("ok")

\* wait_set and wait_reset give up after many times the length of a byte: only
\* if the bus does not move.  wait_set asks for a STOP; on a free bus that only
\* takes the START back.
Awaited == CASE pc = "busy" -> ~I2CBSY
             [] pc \in {"start", "restart"} -> SBSEND
             [] pc \in {"address", "readdress"} -> ADDSEND
             [] pc = "write" -> TBE
             [] pc \in {"sent", "second"} -> BTC
             [] pc = "read" -> IF i < call.n - 3 THEN RBNE ELSE BTC
             [] pc = "last" -> RBNE
             [] OTHER -> TRUE
GiveUpQuietly == /\ pc # "idle" /\ ~Awaited /\ ~HardwareRuns
                 /\ UNCHANGED per
                 /\ Return("failed") /\ Kept
GiveUpBusyNever == /\ pc \notin {"idle", "busy"} /\ ~Awaited /\ ~HardwareRuns
                   /\ per' = [per EXCEPT !.stop = (per.st # "idle"), !.start = FALSE]
                   /\ Return("failed") /\ Kept
GiveUp == /\ pc # "idle" /\ ~Awaited /\ ~HardwareRuns
          /\ per' = IF pc = "busy" THEN per
                    ELSE [per EXCEPT !.stop = (per.st # "idle"), !.start = FALSE]
          /\ Return("failed") /\ Kept

Driver == /\ \/ WaitFree
             \/ SendAddress("start", "address", "tx", per.ack)
             \/ ClearAddress("address", "write")
             \/ WriteByte \/ Sent
             \/ SendAddress("restart", "readdress", "rx", TRUE)
             \/ ClearAddress("readdress", "read")
             \/ ReadByte \/ ThirdToLast \/ SecondToLast \/ AfterStop \/ LastByte
             \/ GiveUp
          /\ UNCHANGED Buses
-----------------------------------------------------------------------------
(***************************************************************************)
(* Faults                                                                  *)
(***************************************************************************)
\* The lines stop moving, at most once in a call, for some time.
Die == /\ "dead" \in world /\ ~dead /\ ~fault
       /\ dead' = TRUE /\ fault' = TRUE
       /\ UNCHANGED <<world, per, chip, held, pc, call, i, buf, result>>
Heal == /\ dead /\ dead' = FALSE
        /\ UNCHANGED <<world, per, chip, held, pc, call, i, buf, result, fault>>

\* The controller is reset and i2c1_init runs.  A chip that was in the middle
\* of a byte keeps the line down: nothing in the driver clocks it free.
Reset == /\ "reset" \in world
         /\ per' = i2c1_init
         /\ held' \in {held} \cup (IF per.st \in {"addressing", "tx", "rx"} THEN {TRUE} ELSE {})
         /\ pc' = "idle" /\ call' = Idle /\ i' = 0 /\ buf' = <<>> /\ result' = "none"
         /\ fault' = held'
         /\ UNCHANGED <<world, chip, dead>>
PowerCycle == /\ held
              /\ held' = FALSE
              /\ per' = i2c1_init
              /\ pc' = "idle" /\ call' = Idle /\ i' = 0 /\ buf' = <<>> /\ result' = "none"
              /\ fault' = dead
              /\ UNCHANGED <<world, chip, dead>>

Next == Call \/ Driver \/ Hardware \/ Die \/ Heal \/ Reset \/ PowerCycle

\* The bus has its own clock, and the UI task is scheduled again and again.
Spec == Init /\ [][Next]_vars /\ WF_vars(Hardware) /\ WF_vars(Driver)
-----------------------------------------------------------------------------
(***************************************************************************)
(* Properties                                                              *)
(***************************************************************************)
Counted(n) == [k \in 1..n |-> k]

\* What the layers above build on (Settings).  A write that returned 0 was
\* received whole; one that failed left a part from the beginning.  A read that
\* returned 0 holds the chip's bytes in order, and the chip saw a NACK on the
\* last of them and not before, so that it lets the line go; a read that failed
\* has stored a beginning.  Nothing fails without a fault on the bus, however
\* the call before ended.
TransfersExact ==
    /\ TypeOK
    /\ IsPrefix(chip.rx, chip.due)
    /\ IsPrefix(buf, Counted(call.n))
    /\ result = "ok" /\ call.n = 0 => chip.rx = call.wr
    /\ result = "ok" /\ call.n > 0 => buf = Counted(call.n) /\ chip.sent = call.n /\ chip.nack
    /\ result = "failed" => fault

\* Every call returns: no flag is waited for without an end.
CallsEnd == pc # "idle" ~> pc = "idle"
=============================================================================
