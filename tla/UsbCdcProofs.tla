----------------------------- MODULE UsbCdcProofs -----------------------------
(***************************************************************************)
(* What modbus_process executes was sent by this connection and is not     *)
(* executed again, and no buffer overflows: for any requests, any host and *)
(* any of the disturbances.  No request of a polite host is lost: for any  *)
(* requests that fit the buffer, once the link has settled.                *)
(***************************************************************************)
EXTENDS UsbCdc, TLAPS

Packet == Nat \X Nat
Sent   == {p \in Packet : p[1] \in Serials /\ p[2] \in DOMAIN Requests[p[1]]}
Bytes  == [packet : Packet, len : Nat]

DevType  == dev \in [status : {"DEFAULT", "CONFIGURED", "SUSPENDED"},
                     backup : {"DEFAULT", "CONFIGURED"}]
CdcType  == cdc \in [packet_receive : {0, 1}, packet_sent : {0, 1}, receive_length : Nat]
EpType   == ep \in [out : BOOLEAN, buf : Packet, xfer_count : Nat, in : Nat]
RxType   ==
  /\ rx \in [rx_armed : BOOLEAN, accum : Seq(Bytes), accum_len : Nat,
             frame_ready : BOOLEAN, silence : Nat]
  /\ rx.accum = << >> <=> rx.accum_len = 0
TaskType ==
  /\ task \in [pc : {"poll", "take", "process", "send", "clear", "wait"}, frame : Seq(Bytes),
              rx_len : Nat]
  /\ task.pc = "send" => task.frame # << >>
HostType == host \in [next : Nat \ {0}, todo : Seq(Sent), waiting : Nat,
                      answered : SUBSET Nat, fair : BOOLEAN, gap : Nat,
                      opened : BOOLEAN, since : Nat]
OtherTypes ==
  isr \in {"idle", "data_out"} /\ executed \in [Serials -> Nat] /\ calm \in BOOLEAN

Types ==
  /\ DevType /\ CdcType /\ EpType /\ RxType /\ TaskType /\ HostType /\ OtherTypes

\* The order in which a host sends its packets.
Before(p, q) == p[1] < q[1] \/ (p[1] = q[1] /\ p[2] < q[2])

\* What the host has still to send comes after what the endpoint holds.
ToCome ==
  /\ ep.buf[1] < host.next
  /\ \A j \in 1 .. Len(host.todo) :
        Before(ep.buf, host.todo[j]) /\ host.todo[j][1] < host.next
  /\ \A j, k \in 1 .. Len(host.todo) : j < k => Before(host.todo[j], host.todo[k])

InOrder(s) == \A a, b \in 1 .. Len(s) : a < b => Before(s[a].packet, s[b].packet)

\* A piece that was taken: the packet in the endpoint is a later one, or the
\* same and its flag is down.
Taken(p) == Before(p, ep.buf) \/ (p = ep.buf /\ cdc.packet_receive = 0)

\* No packet is held twice, be it in the accumulator or in the task's frame.
HeldOnce ==
  /\ InOrder(rx.accum)
  /\ \A b \in 1 .. Len(rx.accum) : Taken(rx.accum[b].packet)
  /\ task.pc = "process" =>
       /\ InOrder(task.frame)
       /\ \A a \in 1 .. Len(task.frame) :
             /\ Taken(task.frame[a].packet)
             /\ \A b \in 1 .. Len(rx.accum) : Before(task.frame[a].packet, rx.accum[b].packet)

\* The first packet of an executed request is gone for good: the endpoint may
\* still hold it, but with a length that is 0 or about to be.
Gone(n) ==
  /\ n < host.next
  /\ \A j \in 1 .. Len(host.todo) : host.todo[j] # <<n, 1>>
  /\ \A b \in 1 .. Len(rx.accum) : rx.accum[b].packet # <<n, 1>>
  /\ task.pc = "process" => \A a \in 1 .. Len(task.frame) : task.frame[a].packet # <<n, 1>>
  /\ ep.buf = <<n, 1>> =>
       /\ isr = "idle"
       /\ \/ cdc.receive_length = 0 \/ ~Configured
          \/ cdc.packet_receive = 0 /\ task.pc \in {"send", "clear"}

Plain == world \cap {"coding", "sleep"} = {}

Once  == Plain => HeldOnce
Spent == Plain => \A n \in Serials : executed[n] <= 1 /\ (executed[n] = 1 => Gone(n))

\* After an enumeration nothing of the connection before is left to be taken.
Young(p) == p[1] >= host.since

Fresh ==
  /\ ~rx.rx_armed => rx.accum = << >>
  /\ ~Configured => host.todo = << >> /\ isr = "idle"
  /\ host.since <= host.next
  /\ "sleep" \notin world /\ Configured =>
       /\ \A b \in 1 .. Len(rx.accum) : Young(rx.accum[b].packet)
       /\ \A j \in 1 .. Len(host.todo) : Young(host.todo[j])
       /\ cdc.receive_length > 0 \/ isr = "data_out" => Young(ep.buf)

IInv == Types /\ ToCome /\ Once /\ Spent /\ Fresh

\* What bounds the buffers: a packet is taken whole or not at all, and its
\* length is that of a packet the host sent.
RxShape ==
  /\ rx.accum_len <= USB_CDC_BUF_SIZE /\ rx.silence < USB_CDC_SILENCE_MS
  /\ \A i \in DOMAIN rx.accum : IsPiece(rx.accum[i])
TaskShape ==
  /\ task.rx_len <= USB_CDC_BUF_SIZE
  /\ \A i \in DOMAIN task.frame : IsPiece(task.frame[i])
EpShape ==
  /\ ep.in \in Serials \cup {0}
  /\ ep.xfer_count <= USB_CDC_BUF_SIZE
  /\ ep.out => ep.xfer_count = 0
LengthShape ==
  /\ cdc.receive_length <= USB_CDC_BUF_SIZE
  /\ isr = "data_out" \/ cdc.receive_length > 0 => ep.buf \in Sent

Shape == RxShape /\ TaskShape /\ EpShape /\ LengthShape

\* When the host knows how to behave.
Manners ==
  /\ world = {} => calm /\ (host.waiting # 0 => host.fair)
  /\ host.fair => calm

\* A request on its way: k packets of it are in the accumulator, or the k-th is
\* in the endpoint; then the frame is complete and goes through the task.
At(n)        == CHOOSE at \in Offsets(n) : TRUE
Prefix(n, k) == [i \in 1 .. k |-> Piece(<<n, i>>, Requests[n][i])]
Rest(n, k)   == [i \in 1 .. Len(Requests[n]) - k |-> <<n, k + i>>]

Collecting(n, k) ==
  /\ task.pc = "poll" /\ ep.in = 0 /\ ~rx.frame_ready
  /\ host.todo = Rest(n, k)

\* The tick that took the packet counted the first millisecond of silence, and
\* the pause of the host is too short for the last.
Between(n, k) ==
  /\ Collecting(n, k)
  /\ isr = "idle" /\ cdc.packet_receive = 0 /\ ep.out
  /\ rx.accum = Prefix(n, k) /\ rx.accum_len = At(n)[k]
  /\ 0 < k /\ k < Len(Requests[n]) => rx.silence = host.gap + 1 /\ host.gap <= HostGap

InFlight(n, k) ==
  /\ k > 0 /\ Collecting(n, k)
  /\ cdc.packet_receive = 1 /\ ~ep.out
  /\ ep.buf = <<n, k>> /\ ep.xfer_count = Requests[n][k]
  /\ isr = "idle" => cdc.receive_length = Requests[n][k]
  /\ rx.accum = Prefix(n, k - 1) /\ rx.accum_len = At(n)[k - 1]

Ready(n)    == task.pc \in {"poll", "take"} /\ rx.frame_ready /\ rx.accum = Whole(n) /\ ep.in = 0
Running(n)  == task.pc \in {"process", "send"} /\ task.frame = Whole(n) /\ ep.in = 0
Answered(n) == task.pc \in {"clear", "wait"} /\ ep.in = n /\ cdc.packet_sent = 0

Complete(n) ==
  /\ isr = "idle" /\ cdc.packet_receive = 0 /\ host.todo = << >>
  /\ Ready(n) \/ Running(n) \/ Answered(n)

OnItsWay(n) ==
  \/ \E k \in 0 .. Len(Requests[n]) : Between(n, k) \/ InFlight(n, k)
  \/ Complete(n)

Settled(n) == n \in Serials /\ Configured /\ rx.rx_armed /\ OnItsWay(n)

Link == Manners /\ (host.fair /\ host.waiting # 0 => Settled(host.waiting))

\* What a tick leaves alone, besides its four cases.
TickFrame ==
  /\ host' = [host EXCEPT !.gap = IF InPause THEN @ + 1 ELSE 0]
  /\ UNCHANGED <<dev, isr, task, executed, world, calm>>
-----------------------------------------------------------------------------

LEMMA NoneYet == << >> \in Seq(Sent) /\ << >> \in Seq(Bytes) /\ <<0, 0>> \in Packet
  BY DEF Packet

LEMMA SeqOfMore ==
  ASSUME NEW S, NEW T, S \subseteq T, NEW s \in Seq(S)
  PROVE  s \in Seq(T) /\ (s # << >> => Len(s) \in Nat \ {0})
<1>1. s = [i \in 1 .. Len(s) |-> s[i]] /\ Len(s) \in Nat
  OBVIOUS
<1>2. \A i \in 1 .. Len(s) : s[i] \in T
  OBVIOUS
<1>3. QED
  BY <1>1, <1>2

LEMMA Parameters ==
  /\ Serials \subseteq Nat \ {0}
  /\ \A n \in Serials :
       /\ Requests[n] \in Seq(1 .. USB_CDC_BUF_SIZE) /\ Len(Requests[n]) \in Nat \ {0}
       /\ Requests[n] \in Seq(Nat \ {0})
  /\ USB_CDC_BUF_SIZE \in Nat \ {0} /\ USB_CDC_SILENCE_MS \in Nat \ {0} /\ HostGap \in Nat
<1>1. /\ Requests \in Seq(Seq(1 .. USB_CDC_BUF_SIZE))
      /\ \A n \in DOMAIN Requests : Requests[n] # << >>
      /\ USB_CDC_BUF_SIZE \in Nat \ {0} /\ USB_CDC_SILENCE_MS \in Nat \ {0} /\ HostGap \in Nat
  BY UsbCdcAssumption
<1>2. Serials = 1 .. Len(Requests) /\ Len(Requests) \in Nat
  BY <1>1 DEF Serials
<1>3. ASSUME NEW n \in Serials
      PROVE  /\ Requests[n] \in Seq(1 .. USB_CDC_BUF_SIZE) /\ Len(Requests[n]) \in Nat \ {0}
             /\ Requests[n] \in Seq(Nat \ {0})
  <2>1. Requests[n] \in Seq(1 .. USB_CDC_BUF_SIZE) /\ Requests[n] # << >>
    BY <1>1, <1>2 DEF Serials
  <2>2. 1 .. USB_CDC_BUF_SIZE \subseteq Nat \ {0}
    BY <1>1
  <2>3. QED
    BY <2>1, <2>2, SeqOfMore
<1>4. QED
  BY <1>1, <1>2, <1>3

LEMMA SentPackets ==
  /\ Sent \subseteq Packet
  /\ \A p \in Sent : p \in Packet /\ p[1] \in Nat /\ p[2] \in Nat /\ Length(p) \in Nat
<1>1. Sent \subseteq Packet
  BY Parameters DEF Sent, Packet
<1>2. \A p \in Sent : Length(p) \in Nat
  <2> SUFFICES ASSUME NEW p \in Sent PROVE Length(p) \in Nat
    OBVIOUS
  <2>1. PICK n, k : n = p[1] /\ k = p[2]
    OBVIOUS
  <2>2. n \in Serials /\ k \in DOMAIN Requests[n]
    BY <2>1 DEF Sent
  <2>3. Requests[n] \in Seq(Nat \ {0})
    BY <2>2, Parameters
  <2>4. Requests[n][k] \in Nat
    BY <2>2, <2>3
  <2>5. QED
    BY <2>1, <2>4 DEF Length
<1>3. QED
  <2> SUFFICES ASSUME NEW p \in Sent PROVE p[1] \in Nat /\ p[2] \in Nat
    BY <1>1, <1>2
  <2>1. p \in Nat \X Nat
    BY <1>1 DEF Packet
  <2>2. QED
    BY <2>1

LEMMA RequestPackets ==
  ASSUME NEW n \in Serials
  PROVE  /\ Packets(n) \in Seq(Sent)
         /\ Len(Packets(n)) = Len(Requests[n])
         /\ \A k \in 1 .. Len(Requests[n]) : Packets(n)[k] = <<n, k>>
<1>1. DOMAIN Requests[n] = 1 .. Len(Requests[n]) /\ Len(Requests[n]) \in Nat
  BY Parameters
<1>2. \A k \in 1 .. Len(Requests[n]) : <<n, k>> \in Sent
  BY <1>1, Parameters DEF Sent, Packet
<1>3. QED
  BY <1>1, <1>2 DEF Packets

LEMMA WholeRequest ==
  ASSUME NEW n \in Serials
  PROVE  1 \in 1 .. Len(Whole(n)) /\ Whole(n)[1].packet = <<n, 1>> /\ Whole(n) # << >>
<1>1. DOMAIN Requests[n] = 1 .. Len(Requests[n]) /\ Len(Requests[n]) \in Nat \ {0}
  BY Parameters
<1>2. QED
  BY <1>1 DEF Whole, Piece

LEMMA Later ==
  ASSUME NEW p \in Packet, NEW q \in Packet
  PROVE  /\ ~Before(p, p)
         /\ Before(p, q) => p # q /\ ~Before(q, p)
         /\ \A r \in Packet : Before(p, q) /\ Before(q, r) => Before(p, r)
  BY DEF Before, Packet

\* A millisecond of silence leaves the packets alone.
LEMMA SilentType ==
  ASSUME NEW r \in [rx_armed : BOOLEAN, accum : Seq(Bytes), accum_len : Nat,
                    frame_ready : BOOLEAN, silence : Nat],
         r.accum = << >> <=> r.accum_len = 0
  PROVE  LET s == Silent(r)
         IN  /\ s \in [rx_armed : BOOLEAN, accum : Seq(Bytes), accum_len : Nat,
                       frame_ready : BOOLEAN, silence : Nat]
             /\ s.rx_armed = r.rx_armed /\ s.accum = r.accum /\ s.accum_len = r.accum_len
             /\ (s.accum = << >> <=> s.accum_len = 0)
<1>1. \/ Silent(r) = r
      \/ Silent(r) = [r EXCEPT !.silence = 0, !.frame_ready = TRUE]
      \/ Silent(r) = [r EXCEPT !.silence = r.silence + 1]
  BY UsbCdcAssumption DEF Silent
<1>2. r.silence + 1 \in Nat
  OBVIOUS
<1> DEFINE s == Silent(r)
<1>3. \/ s = r
      \/ s = [r EXCEPT !.silence = 0, !.frame_ready = TRUE]
      \/ s = [r EXCEPT !.silence = r.silence + 1]
  BY <1>1
<1> HIDE DEF s
<1>4. s \in [rx_armed : BOOLEAN, accum : Seq(Bytes), accum_len : Nat,
             frame_ready : BOOLEAN, silence : Nat]
  <2>1. \E sil \in Nat, ready \in BOOLEAN :
           s = [r EXCEPT !.silence = sil, !.frame_ready = ready]
    <3>1. CASE s = r
      <4>1. s = [r EXCEPT !.silence = r.silence, !.frame_ready = r.frame_ready]
        BY <3>1
      <4>2. QED
        BY <4>1
    <3>2. CASE s = [r EXCEPT !.silence = 0, !.frame_ready = TRUE]
      BY <3>2
    <3>3. CASE s = [r EXCEPT !.silence = r.silence + 1]
      <4>1. s = [r EXCEPT !.silence = r.silence + 1, !.frame_ready = r.frame_ready]
        BY <3>3
      <4>2. QED
        BY <1>2, <4>1
    <3>4. QED
      BY <1>3, <3>1, <3>2, <3>3
  <2>2. QED
    BY <2>1
<1>5. s.rx_armed = r.rx_armed /\ s.accum = r.accum /\ s.accum_len = r.accum_len
  BY <1>2, <1>3
<1>6. QED
  BY <1>4, <1>5 DEF s

\* The four cases of a tick.
LEMMA ArmStep ==
  ASSUME IInv, Arm /\ TickFrame
  PROVE  IInv'
<1> USE DEF IInv
<1>a. /\ ep'.buf = ep.buf /\ rx'.accum = rx.accum
      /\ cdc'.receive_length = cdc.receive_length
      /\ cdc'.packet_receive \in {0, cdc.packet_receive}
  BY DEF Arm, Armed, Received, Types, EpType, CdcType, RxType
<1>b. host'.todo = host.todo /\ host'.next = host.next
  BY DEF TickFrame, Types, HostType
<1>c. UNCHANGED <<dev, isr, task, executed, world>>
  BY DEF TickFrame
<1>1. DevType' /\ TaskType' /\ OtherTypes'
  BY DEF Arm, TickFrame, Types, DevType, TaskType, OtherTypes
<1>2. CdcType'
  BY DEF Arm, Armed, Received, TickFrame, Types, CdcType
<1>3. EpType'
  <2>1. \/ ep' = ep
        \/ ep' = [ep EXCEPT !.out = TRUE, !.xfer_count = 0]
    BY DEF Arm, Armed
  <2>2. CASE ep' = ep
    BY <2>2 DEF Types, EpType
  <2>3. CASE ep' = [ep EXCEPT !.out = TRUE, !.xfer_count = 0]
    BY <2>3 DEF Types, EpType
  <2>4. QED
    BY <2>1, <2>2, <2>3
<1>4. RxType'
  BY DEF Arm, Armed, Received, TickFrame, Types, RxType
<1>5. HostType'
  BY DEF Arm, Armed, Received, TickFrame, Types, HostType
<1>6. ToCome'
  BY DEF Arm, Armed, Received, TickFrame, ToCome, Types, EpType, HostType
<1>7. Once'
  BY <1>a, <1>b, <1>c DEF Once, Plain, HeldOnce, InOrder, Taken
<1>8. Spent'
  <2>1. ASSUME NEW n \in Serials, Gone(n) PROVE Gone(n)'
    BY <1>a, <1>b, <1>c, <2>1 DEF Gone, Configured
  <2>2. QED
    BY <1>c, <2>1 DEF Spent, Plain
<1>9. Fresh'
  <2>1. host'.since = host.since
    BY DEF TickFrame, Types, HostType
  <2>2. rx.accum = << >>
    BY DEF Arm, Fresh
  <2>3. QED
    BY <1>a, <1>b, <1>c, <2>1, <2>2 DEF Fresh, Young, Configured
<1>10. QED
  BY <1>1, <1>2, <1>3, <1>4, <1>5, <1>6, <1>7, <1>8, <1>9 DEF Types

LEMMA DisarmStep ==
  ASSUME IInv, Disarm /\ TickFrame
  PROVE  IInv'
<1> USE DEF IInv
<1>1. DevType' /\ CdcType' /\ EpType' /\ TaskType' /\ OtherTypes'
  BY NoneYet DEF Disarm, NoRx, TickFrame, Types, DevType, CdcType, EpType, TaskType, OtherTypes
<1>2. RxType'
  BY NoneYet DEF Disarm, NoRx, TickFrame, Types, RxType
<1>3. HostType'
  BY DEF TickFrame, Types, HostType
<1>4. ToCome'
  BY DEF Disarm, TickFrame, ToCome, Types, EpType, HostType
<1>5. Once'
  BY NoneYet DEF Disarm, NoRx, TickFrame, Once, Plain, HeldOnce, InOrder, Taken, Types, EpType,
         RxType, TaskType, CdcType
<1>6. Spent'
  <2>1. /\ UNCHANGED <<dev, cdc, ep, isr, task, executed, world>>
        /\ host'.todo = host.todo /\ host'.next = host.next /\ rx'.accum = << >>
    BY DEF Disarm, NoRx, TickFrame, Types, HostType
  <2>2. ASSUME NEW n \in Serials, Gone(n) PROVE Gone(n)'
    BY <2>1, <2>2 DEF Gone, Configured
  <2>3. QED
    BY <2>1, <2>2 DEF Spent, Plain
<1>7. Fresh'
  BY NoneYet DEF Disarm, NoRx, TickFrame, Fresh, Young, Configured, Types, EpType, RxType, HostType,
         CdcType, DevType
<1>8. QED
  BY <1>1, <1>2, <1>3, <1>4, <1>5, <1>6, <1>7 DEF Types

\* The packet that is taken comes after all that are held.
LEMMA TakePacketStep ==
  ASSUME IInv, TakePacket /\ TickFrame
  PROVE  IInv'
<1> USE DEF IInv
<1>a. /\ Appended \in [rx_armed : BOOLEAN, accum : Seq(Bytes), accum_len : Nat,
                          frame_ready : BOOLEAN, silence : Nat]
      /\ Appended.accum = << >> <=> Appended.accum_len = 0
      /\ Appended.rx_armed = rx.rx_armed
      /\ \/ Appended = rx
         \/ /\ cdc.receive_length > 0
            /\ Appended.accum = Append(rx.accum, Piece(ep.buf, cdc.receive_length))
  <2>1. Piece(ep.buf, cdc.receive_length) \in Bytes
    BY DEF Piece, Types, Bytes, CdcType, EpType
  <2>2. /\ rx.accum \in Seq(Bytes) /\ rx.accum_len \in Nat /\ cdc.receive_length \in Nat
        /\ (rx.accum = << >> <=> rx.accum_len = 0)
    BY DEF Types, RxType, CdcType
  <2> DEFINE more == Append(rx.accum, Piece(ep.buf, cdc.receive_length))
  <2>3. more \in Seq(Bytes) /\ more # << >>
    BY <2>1, <2>2
  <2> HIDE DEF more
  <2>4. CASE cdc.receive_length > 0 /\ Fits(cdc.receive_length)
    <3>1. Appended = [rx EXCEPT !.accum = more, !.accum_len = rx.accum_len + cdc.receive_length]
      BY <2>4 DEF Appended, more
    <3>2. rx.accum_len + cdc.receive_length \in Nat \ {0}
      BY <2>2, <2>4
    <3>3. QED
      BY <2>3, <2>4, <3>1, <3>2 DEF Types, RxType, more
  <2>5. CASE ~(cdc.receive_length > 0 /\ Fits(cdc.receive_length))
    BY <2>5 DEF Appended, Types, RxType
  <2>6. QED
    BY <2>4, <2>5
<1>b. /\ ep'.buf = ep.buf /\ cdc'.receive_length = cdc.receive_length
      /\ cdc'.packet_receive = 0 /\ cdc.packet_receive = 1 /\ Configured
  BY DEF TakePacket, Armed, Received, Types, EpType, CdcType
<1>g. /\ rx'.accum = Appended.accum /\ rx'.rx_armed = rx.rx_armed /\ RxType'
  <2> DEFINE r == [Appended EXCEPT !.silence = 0]
  <2>1. /\ r \in [rx_armed : BOOLEAN, accum : Seq(Bytes), accum_len : Nat,
                   frame_ready : BOOLEAN, silence : Nat]
        /\ r.accum = Appended.accum /\ r.accum_len = Appended.accum_len
        /\ r.rx_armed = Appended.rx_armed
    BY <1>a
  <2>2. rx' = Silent(r)
    BY DEF TakePacket
  <2> HIDE DEF r
  <2>3. QED
    BY <1>a, <2>1, <2>2, SilentType DEF RxType
<1>c. host'.todo = host.todo /\ host'.next = host.next
  BY DEF TickFrame, Types, HostType
<1>d. UNCHANGED <<dev, isr, task, executed, world>>
  BY DEF TickFrame
<1>e. rx.accum \in Seq(Bytes) /\ task.frame \in Seq(Bytes) /\ ep.buf \in Packet
  BY DEF Types, RxType, TaskType, EpType
<1> DEFINE accum == Appended.accum
<1>f. \/ accum = rx.accum
      \/ /\ cdc.receive_length > 0
         /\ Len(accum) = Len(rx.accum) + 1
         /\ \A b \in 1 .. Len(rx.accum) : accum[b] = rx.accum[b]
         /\ accum[Len(rx.accum) + 1].packet = ep.buf
  <2>1. CASE Appended = rx
    BY <2>1
  <2>2. CASE /\ cdc.receive_length > 0
             /\ Appended.accum = Append(rx.accum, Piece(ep.buf, cdc.receive_length))
    <3> DEFINE x == Piece(ep.buf, cdc.receive_length)
    <3>1. x.packet = ep.buf
      BY DEF Piece
    <3>2. accum = Append(rx.accum, x)
      BY <2>2
    <3> HIDE DEF x, accum
    <3>3. QED
      BY <1>e, <2>2, <3>1, <3>2
  <2>3. QED
    BY <1>a, <2>1, <2>2
<1>h. rx'.accum = accum /\ accum \in Seq(Bytes)
  BY <1>a, <1>g
<1> HIDE DEF accum
<1>1. DevType' /\ TaskType' /\ OtherTypes'
  BY DEF TakePacket, TickFrame, Types, DevType, TaskType, OtherTypes
<1>2. CdcType'
  BY DEF TakePacket, Armed, Received, TickFrame, Types, CdcType
<1>3. EpType'
  BY DEF TakePacket, Armed, Received, TickFrame, Types, EpType
<1>4. RxType'
  BY <1>g
<1>5. HostType'
  BY DEF TakePacket, Armed, Received, TickFrame, Types,
         HostType
<1>6. ToCome'
  BY DEF TakePacket, Armed, Received, TickFrame, ToCome,
         Types, EpType, HostType
<1>7. Once'
  <2> SUFFICES ASSUME Plain PROVE HeldOnce'
    BY <1>d DEF Once, Plain
  <2>1. /\ \A b \in 1 .. Len(rx.accum) : Before(rx.accum[b].packet, ep.buf)
        /\ task.pc = "process" =>
             \A a \in 1 .. Len(task.frame) : Before(task.frame[a].packet, ep.buf)
    BY <1>b DEF Once, HeldOnce, Taken
  <2>2. task'.pc = task.pc /\ task'.frame = task.frame
    BY <1>d
  <2>3. Len(rx.accum) \in Nat
    BY <1>e
  <2>4. \A b \in 1 .. Len(accum) :
           \/ b \in 1 .. Len(rx.accum) /\ accum[b] = rx.accum[b]
           \/ b > Len(rx.accum) /\ b = Len(accum) /\ accum[b].packet = ep.buf
    BY <1>f, <2>3
  <2>5. InOrder(accum)
    BY <2>1, <2>3, <2>4 DEF InOrder, Once, HeldOnce
  <2>6. \A b \in 1 .. Len(accum) :
           Before(accum[b].packet, ep.buf) \/ accum[b].packet = ep.buf
    BY <2>1, <2>4
  <2>7. \A b \in 1 .. Len(rx'.accum) :
           Before(rx'.accum[b].packet, ep'.buf) \/ rx'.accum[b].packet = ep'.buf
    BY <1>b, <1>h, <2>6
  <2>8. task.pc = "process" =>
          /\ InOrder(task.frame)
          /\ \A a \in 1 .. Len(task.frame) :
                /\ Before(task.frame[a].packet, ep'.buf)
                /\ \A b \in 1 .. Len(rx'.accum) :
                      Before(task.frame[a].packet, rx'.accum[b].packet)
    BY <1>b, <1>h, <2>1, <2>4 DEF Once, HeldOnce
  <2>9. InOrder(rx'.accum)
    BY <1>b, <1>h, <2>5
  <2>10. QED
    BY <1>b, <1>h, <2>2, <2>7, <2>8, <2>9 DEF HeldOnce, InOrder, Taken
<1>8. Spent'
  <2>1. ASSUME NEW n \in Serials, Gone(n) PROVE Gone(n)'
    <3>1. ep.buf = <<n, 1>> => cdc.receive_length = 0
      BY <1>b, <1>h, <2>1 DEF Gone
    <3>2. \A b \in 1 .. Len(accum) : accum[b].packet # <<n, 1>>
      <4>1. \A b \in 1 .. Len(rx.accum) : rx.accum[b].packet # <<n, 1>>
        BY <2>1 DEF Gone
      <4>2. CASE accum = rx.accum
        BY <4>1, <4>2
      <4>3. CASE accum # rx.accum
        <5>1. /\ cdc.receive_length > 0 /\ Len(rx.accum) \in Nat
              /\ Len(accum) = Len(rx.accum) + 1
              /\ \A b \in 1 .. Len(rx.accum) : accum[b] = rx.accum[b]
              /\ accum[Len(rx.accum) + 1].packet = ep.buf
          BY <1>e, <1>f, <4>3
        <5>2. ep.buf # <<n, 1>>
          BY <3>1, <5>1
        <5>3. QED
          BY <4>1, <5>1, <5>2
      <4>4. QED
        BY <4>2, <4>3
    <3>3. QED
      BY <1>b, <1>h, <1>c, <1>d, <2>1, <3>2 DEF Gone, Configured
  <2>2. QED
    BY <1>d, <2>1 DEF Spent, Plain
<1>9. Fresh'
  <2>1. UNCHANGED <<host.todo, host.since, host.next, dev, isr, world>>
    BY <1>c, <1>d DEF TickFrame, Types, HostType
  <2>2. ep'.buf = ep.buf /\ cdc'.receive_length = cdc.receive_length /\ Configured
    BY <1>b
  <2>3. rx'.rx_armed = rx.rx_armed /\ rx.rx_armed
    BY <1>g DEF TakePacket
  <2>4. ASSUME \A b \in 1 .. Len(rx.accum) : Young(rx.accum[b].packet),
               cdc.receive_length > 0 => Young(ep.buf)
        PROVE  \A b \in 1 .. Len(accum) : Young(accum[b].packet)
    <3>1. Len(rx.accum) \in Nat
      BY <1>e
    <3>2. QED
      BY <1>f, <2>4, <3>1
  <2>5. QED
    BY <1>h, <2>1, <2>2, <2>3, <2>4 DEF Fresh, Young, Configured
<1>10. QED
  BY <1>1, <1>2, <1>3, <1>4, <1>5, <1>6, <1>7, <1>8, <1>9 DEF Types

LEMMA TakeNothingStep ==
  ASSUME IInv, TakeNothing /\ TickFrame
  PROVE  IInv'
<1> USE DEF IInv
<1>b. /\ rx'.accum = rx.accum /\ rx'.rx_armed = rx.rx_armed /\ RxType'
      /\ UNCHANGED <<ep, cdc>>
  BY SilentType DEF TakeNothing, Types, RxType
<1>c. host'.todo = host.todo /\ host'.next = host.next
  BY DEF TickFrame, Types, HostType
<1>d. UNCHANGED <<dev, isr, task, executed, world>>
  BY DEF TickFrame
<1>1. DevType' /\ CdcType' /\ EpType' /\ TaskType' /\ OtherTypes'
  BY DEF TakeNothing, TickFrame, Types, DevType, CdcType, EpType, TaskType, OtherTypes
<1>2. RxType'
  BY <1>b
<1>3. HostType'
  BY DEF TakeNothing, TickFrame, Types, HostType
<1>4. ToCome'
  BY <1>b DEF TickFrame, ToCome, Types, EpType, HostType
<1>5. Once'
  BY <1>b DEF TickFrame, Once, Plain, HeldOnce, InOrder, Taken, Types,
         EpType, RxType, TaskType, CdcType
<1>6. Spent'
  <2>1. ASSUME NEW n \in Serials, Gone(n) PROVE Gone(n)'
    BY <1>b, <1>c, <1>d, <2>1 DEF Gone, Configured
  <2>2. QED
    BY <1>d, <2>1 DEF Spent, Plain
<1>7. Fresh'
  BY <1>b DEF TakeNothing, TickFrame, Fresh, Young, Configured, Types, EpType,
         RxType, HostType, CdcType, DevType
<1>8. QED
  BY <1>1, <1>2, <1>3, <1>4, <1>5, <1>6, <1>7 DEF Types

LEMMA DataOutEndStep ==
  ASSUME IInv, DataOutEnd
  PROVE  IInv'
<1> USE DEF IInv
<1>1. DevType' /\ EpType' /\ RxType' /\ TaskType' /\ HostType'
  BY DEF DataOutEnd, Types, DevType, EpType, RxType, TaskType, HostType
<1>2. CdcType'
  BY DEF DataOutEnd, Types, CdcType, EpType
<1>3. OtherTypes'
  BY DEF DataOutEnd, Types, OtherTypes
<1>4. ToCome'
  BY DEF DataOutEnd, ToCome, Types, EpType, HostType
<1>5. Once'
  BY DEF DataOutEnd, Once, Plain, HeldOnce, InOrder, Taken, Types, EpType, RxType,
         TaskType, CdcType
<1>6. Spent'
  <2>1. ASSUME NEW n \in Serials, Gone(n) PROVE Gone(n)'
    BY <2>1 DEF DataOutEnd, Gone, Configured, Types, OtherTypes, EpType, RxType,
           TaskType, HostType, CdcType, DevType
  <2>2. executed' = executed /\ world' = world
    BY DEF DataOutEnd
  <2> QED BY <2>1, <2>2 DEF Spent, Plain
<1>7. Fresh'
  BY DEF DataOutEnd, Fresh, Young, Configured, Types, EpType, RxType, HostType,
         CdcType, DevType
<1>8. QED
  BY <1>1, <1>2, <1>3, <1>4, <1>5, <1>6, <1>7 DEF Types

LEMMA PollStep ==
  ASSUME IInv, Poll
  PROVE  IInv'
<1> USE DEF IInv
<1>1. DevType' /\ CdcType' /\ EpType' /\ RxType' /\ HostType' /\ OtherTypes'
  BY DEF Poll, Types, DevType, CdcType, EpType, RxType, HostType, OtherTypes
<1>2. TaskType'
  BY DEF Poll, TaskRuns, Types, TaskType
<1>3. ToCome'
  BY DEF Poll, TaskRuns, ToCome, Types, EpType, HostType
<1>4. Once'
  BY DEF Poll, TaskRuns, Once, Plain, HeldOnce, InOrder, Taken, Types, EpType, RxType,
         TaskType, CdcType
<1>5. Spent'
  <2>1. ASSUME NEW n \in Serials, Gone(n) PROVE Gone(n)'
    BY <2>1 DEF Poll, TaskRuns, Gone, Configured, Types, OtherTypes, EpType,
           RxType, TaskType, HostType, CdcType, DevType
  <2>2. executed' = executed /\ world' = world
    BY DEF Poll, TaskRuns
  <2> QED BY <2>1, <2>2 DEF Spent, Plain
<1>6. Fresh'
  BY DEF Poll, TaskRuns, Fresh, Young, Configured, Types, EpType, RxType, HostType,
         CdcType, DevType
<1>7. QED
  BY <1>1, <1>2, <1>3, <1>4, <1>5, <1>6 DEF Types

LEMMA ReceiveStep ==
  ASSUME IInv, usb_cdc_receive
  PROVE  IInv'
<1> USE DEF IInv
<1>1. DevType' /\ CdcType' /\ EpType' /\ HostType' /\ OtherTypes'
  BY DEF usb_cdc_receive, Types, DevType, CdcType, EpType, HostType, OtherTypes
<1>2. RxType'
  BY NoneYet DEF usb_cdc_receive, TaskRuns, Types, RxType, TaskType
<1>3. TaskType'
  BY NoneYet DEF usb_cdc_receive, TaskRuns, Types, TaskType, RxType
<1>4. ToCome'
  BY DEF usb_cdc_receive, TaskRuns, ToCome, Types, EpType, HostType
<1>5. Once'
  BY DEF usb_cdc_receive, TaskRuns, Once, Plain, HeldOnce, InOrder, Taken, Types,
         EpType, RxType, TaskType, CdcType
<1>6. Spent'
  <2>1. ASSUME NEW n \in Serials, Gone(n) PROVE Gone(n)'
    <3>1. /\ UNCHANGED <<dev, cdc, ep, host, isr>> /\ task.pc = "take"
          /\ \/ rx'.accum = << >> /\ task'.frame = rx.accum
             \/ rx'.accum = << >> /\ task'.pc # "process"
             \/ rx'.accum = rx.accum /\ task'.pc # "process"
      BY DEF usb_cdc_receive, TaskRuns, Types, RxType, TaskType
    <3>2. CASE rx'.accum = << >> /\ task'.frame = rx.accum
      BY <2>1, <3>1, <3>2 DEF Gone, Configured
    <3>3. CASE rx'.accum \in {<< >>, rx.accum} /\ task'.pc # "process"
      BY <2>1, <3>1, <3>3 DEF Gone, Configured
    <3> QED BY <3>1, <3>2, <3>3
  <2>2. executed' = executed /\ world' = world
    BY DEF usb_cdc_receive, TaskRuns
  <2> QED BY <2>1, <2>2 DEF Spent, Plain
<1>7. Fresh'
  BY DEF usb_cdc_receive, TaskRuns, Fresh, Young, Configured, Types, EpType, RxType,
         HostType, CdcType, DevType
<1>8. QED
  BY <1>1, <1>2, <1>3, <1>4, <1>5, <1>6, <1>7 DEF Types

\* A whole request begins with its first packet, so it was not executed before;
\* what is held behind it comes later.
LEMMA ProcessStep ==
  ASSUME IInv, modbus_process
  PROVE  IInv'
<1> USE DEF IInv
<1>a. /\ task.pc = "process" /\ isr = "idle" /\ task'.pc \in {"send", "poll"}
      /\ UNCHANGED <<dev, cdc, ep, rx, isr, host, world>>
  BY DEF modbus_process, TaskRuns, Polling, Types, TaskType
<1>1. DevType' /\ CdcType' /\ EpType' /\ RxType' /\ HostType'
  BY DEF modbus_process, Types, DevType, CdcType, EpType, RxType, HostType
<1>2. TaskType'
  <2>1. \/ task' = [pc |-> "poll", frame |-> << >>, rx_len |-> 0]
        \/ task' = [task EXCEPT !.pc = "send"] /\ \E n \in Serials : task.frame = Whole(n)
    BY DEF modbus_process, Polling
  <2>2. CASE task' = [pc |-> "poll", frame |-> << >>, rx_len |-> 0]
    BY <2>2, NoneYet DEF TaskType
  <2>3. CASE task' = [task EXCEPT !.pc = "send"] /\ task.frame # << >>
    BY <2>3 DEF Types, TaskType
  <2>4. QED
    BY <2>1, <2>2, <2>3, WholeRequest
<1>3. OtherTypes'
  BY DEF modbus_process, TaskRuns, Polling, Types, OtherTypes
<1>4. ToCome'
  BY DEF modbus_process, TaskRuns, Polling, ToCome, Types, EpType, HostType
<1>5. Once'
  BY DEF modbus_process, TaskRuns, Polling, Once, Plain, HeldOnce, InOrder, Taken,
         Types, EpType, RxType, TaskType, CdcType
<1>6. Spent'
  <2> SUFFICES ASSUME Plain PROVE Spent'
    BY <1>a DEF Spent, Plain
  <2>1. ASSUME NEW m \in Serials, Gone(m) PROVE Gone(m)'
    BY <1>a, <2>1 DEF Gone, Configured
  <2>2. CASE UNCHANGED executed
    BY <2>1, <2>2 DEF Spent
  <2>3. ASSUME NEW n \in Serials, task.frame = Whole(n), task'.pc = "send",
               executed' = [executed EXCEPT ![n] = @ + 1]
        PROVE  Spent'
    <3>1. /\ 1 \in 1 .. Len(task.frame) /\ task.frame[1].packet = <<n, 1>>
          /\ task.frame \in Seq(Bytes) /\ rx.accum \in Seq(Bytes)
      BY <2>3, WholeRequest DEF Types, TaskType, RxType
    <3>2. executed[n] = 0
      BY <1>a, <3>1 DEF Spent, Gone, Types, OtherTypes
    <3>3. Gone(n)'
      <4>1. <<n, 1>> \in Packet /\ ep.buf \in Packet
        BY Parameters DEF Packet, Types, EpType
      <4>2. Taken(<<n, 1>>) /\ \A b \in 1 .. Len(rx.accum) : Before(<<n, 1>>, rx.accum[b].packet)
        BY <1>a, <3>1 DEF Once, HeldOnce
      <4>3. \A b \in 1 .. Len(rx.accum) : rx.accum[b].packet # <<n, 1>>
        BY <4>1, <4>2, Later
      <4>4. n < host.next
        BY <4>1, <4>2 DEF Taken, Before, ToCome, Packet, Types, HostType
      <4>5. \A j \in 1 .. Len(host.todo) : host.todo[j] # <<n, 1>>
        <5>1. \A j \in 1 .. Len(host.todo) : Before(ep.buf, host.todo[j])
          BY DEF ToCome
        <5>2. ~Before(ep.buf, <<n, 1>>)
          BY <4>1, <4>2, Later DEF Taken
        <5>3. QED
          BY <5>1, <5>2
      <4>6. ep.buf = <<n, 1>> => cdc.packet_receive = 0
        BY <4>1, <4>2, Later DEF Taken
      <4>7. QED
        BY <1>a, <2>3, <4>3, <4>4, <4>5, <4>6 DEF Gone
    <3>4. QED
      BY <2>1, <2>3, <3>2, <3>3 DEF Spent, Types, OtherTypes
  <2>4. QED
    BY <2>2, <2>3 DEF modbus_process, Types, TaskType
<1>7. Fresh'
  BY DEF modbus_process, TaskRuns, Polling, Fresh, Young, Configured, Types, EpType,
         RxType, HostType, CdcType, DevType
<1>8. QED
  BY <1>1, <1>2, <1>3, <1>4, <1>5, <1>6, <1>7 DEF Types

LEMMA DataSendStep ==
  ASSUME IInv, DataSend
  PROVE  IInv'
<1> USE DEF IInv
<1>a. /\ ep'.buf = ep.buf /\ cdc'.receive_length = cdc.receive_length
      /\ cdc'.packet_receive = cdc.packet_receive
      /\ task.pc = "send" /\ task'.pc = IF Configured THEN "clear" ELSE "poll"
  BY DEF DataSend, TaskRuns, Polling, Types, EpType, CdcType
<1>b. UNCHANGED <<dev, rx, isr, host, executed, world, calm>>
  BY DEF DataSend
<1>1. DevType' /\ RxType' /\ HostType' /\ OtherTypes'
  BY DEF DataSend, Types, DevType, RxType, HostType, OtherTypes
<1>2. CdcType'
  BY DEF DataSend, TaskRuns, Polling, Types, CdcType
<1>3. EpType'
  <2>1. task.frame \in Seq(Bytes) /\ task.frame # << >>
    BY DEF DataSend, TaskRuns, Types, TaskType
  <2>2. task.frame[1] \in Bytes
    BY <2>1
  <2>3. task.frame[1].packet[1] \in Nat
    BY <2>2 DEF Bytes, Packet
  <2>4. ep' = ep \/ ep' = [ep EXCEPT !.in = task.frame[1].packet[1]]
    BY DEF DataSend
  <2>5. QED
    BY <2>3, <2>4 DEF Types, EpType
<1>4. TaskType'
  <2>1. \/ task' = [pc |-> "clear", frame |-> << >>, rx_len |-> 0]
        \/ task' = [pc |-> "poll", frame |-> << >>, rx_len |-> 0]
    BY DEF DataSend, Polling
  <2>2. CASE task' = [pc |-> "clear", frame |-> << >>, rx_len |-> 0]
    BY <2>2, NoneYet DEF TaskType
  <2>3. CASE task' = [pc |-> "poll", frame |-> << >>, rx_len |-> 0]
    BY <2>3, NoneYet DEF TaskType
  <2>4. QED
    BY <2>1, <2>2, <2>3
<1>5. ToCome'
  BY DEF DataSend, TaskRuns, Polling, ToCome, Types, EpType, HostType
<1>6. Once'
  <2>1. \A b \in 1 .. Len(rx.accum) :
          Taken(rx.accum[b].packet) => Taken(rx.accum[b].packet)'
    BY <1>a, <1>b DEF Taken
  <2>2. task'.pc # "process"
    BY <1>a
  <2>3. QED
    BY <1>b, <2>1, <2>2 DEF Once, Plain, HeldOnce, InOrder
<1>7. Spent'
  BY <1>a, <1>b DEF Spent, Plain, Gone, Configured
<1>8. Fresh'
  BY <1>a, <1>b DEF Fresh, Young, Configured
<1>9. QED
  BY <1>1, <1>2, <1>3, <1>4, <1>5, <1>6, <1>7, <1>8 DEF Types

LEMMA DataSendClearStep ==
  ASSUME IInv, DataSendClear
  PROVE  IInv'
<1> USE DEF IInv
<1>1. DevType' /\ EpType' /\ RxType' /\ HostType' /\ OtherTypes'
  BY DEF DataSendClear, Types, DevType, EpType, RxType, HostType, OtherTypes
<1>2. CdcType'
  BY DEF DataSendClear, TaskRuns, Types, CdcType
<1>3. TaskType'
  BY DEF DataSendClear, TaskRuns, Types, TaskType
<1>4. ToCome'
  BY DEF DataSendClear, TaskRuns, ToCome, Types, EpType, HostType
<1>5. Once'
  BY DEF DataSendClear, TaskRuns, Once, Plain, HeldOnce, InOrder, Taken, Types,
         EpType, RxType, TaskType, CdcType
<1>6. Spent'
  <2>1. ASSUME NEW n \in Serials, Gone(n) PROVE Gone(n)'
    BY <2>1 DEF DataSendClear, TaskRuns, Gone, Configured, Types, OtherTypes,
           EpType, RxType, TaskType, HostType, CdcType, DevType
  <2>2. executed' = executed /\ world' = world
    BY DEF DataSendClear, TaskRuns
  <2> QED BY <2>1, <2>2 DEF Spent, Plain
<1>7. Fresh'
  BY DEF DataSendClear, TaskRuns, Fresh, Young, Configured, Types, EpType, RxType,
         HostType, CdcType, DevType
<1>8. QED
  BY <1>1, <1>2, <1>3, <1>4, <1>5, <1>6, <1>7 DEF Types

LEMMA DataSendDoneStep ==
  ASSUME IInv, DataSendDone
  PROVE  IInv'
<1> USE DEF IInv
<1>1. DevType' /\ CdcType' /\ EpType' /\ RxType' /\ HostType' /\ OtherTypes'
  BY DEF DataSendDone, Types, DevType, CdcType, EpType, RxType, HostType, OtherTypes
<1>2. TaskType'
  BY DEF DataSendDone, TaskRuns, Polling, Types, TaskType
<1>3. ToCome'
  BY DEF DataSendDone, TaskRuns, Polling, ToCome, Types, EpType, HostType
<1>4. Once'
  BY DEF DataSendDone, TaskRuns, Polling, Once, Plain, HeldOnce, InOrder, Taken,
         Types, EpType, RxType, TaskType, CdcType
<1>5. Spent'
  <2>1. ASSUME NEW n \in Serials, Gone(n) PROVE Gone(n)'
    BY <2>1 DEF DataSendDone, TaskRuns, Polling, Gone, Configured, Types,
           OtherTypes, EpType, RxType, TaskType, HostType, CdcType, DevType
  <2>2. executed' = executed /\ world' = world
    BY DEF DataSendDone, TaskRuns, Polling
  <2> QED BY <2>1, <2>2 DEF Spent, Plain
<1>6. Fresh'
  BY DEF DataSendDone, TaskRuns, Polling, Fresh, Young, Configured, Types, EpType,
         RxType, HostType, CdcType, DevType
<1>7. QED
  BY <1>1, <1>2, <1>3, <1>4, <1>5, <1>6 DEF Types

LEMMA WatchdogStep ==
  ASSUME IInv, Watchdog
  PROVE  IInv'
<1> USE DEF IInv
<1>1. OtherTypes'
  BY DEF Watchdog, Types, OtherTypes
<1>2. DevType'
  BY DEF Watchdog, NoCdc, NoEp, NoRx, NoPacket, Polling, Forget, Types, DevType
<1>3. CdcType'
  BY DEF Watchdog, NoCdc, NoEp, NoRx, NoPacket, Polling, Forget, Types, CdcType
<1>4. EpType'
  BY NoneYet DEF Watchdog, NoCdc, NoEp, NoRx, NoPacket, Polling, Forget, Types, EpType
<1>5. RxType'
  BY DEF Watchdog, NoCdc, NoEp, NoRx, NoPacket, Polling, Forget, Types, RxType
<1>6. TaskType'
  BY DEF Watchdog, NoCdc, NoEp, NoRx, NoPacket, Polling, Forget, Types, TaskType
<1>7. HostType'
  BY NoneYet DEF Watchdog, NoCdc, NoEp, NoRx, NoPacket, Polling, Forget, Types, HostType
<1>8. ToCome'
  BY DEF Watchdog, NoCdc, NoEp, NoRx, NoPacket, Polling, Forget, ToCome, Types,
         EpType, HostType
<1>9. Once'
  BY DEF Watchdog, NoCdc, NoEp, NoRx, NoPacket, Polling, Forget, Once, Plain,
         HeldOnce, InOrder, Taken, Types, EpType, RxType, TaskType, CdcType
<1>10. Spent'
  <2>1. ASSUME NEW n \in Serials, Gone(n) PROVE Gone(n)'
    BY <2>1 DEF Watchdog, NoCdc, NoEp, NoRx, NoPacket, Polling, Forget, Gone,
           Configured, Types, OtherTypes, EpType, RxType, TaskType, HostType,
           CdcType, DevType
  <2>2. executed' = executed /\ world' = world
    BY DEF Watchdog, NoCdc, NoEp, NoRx, NoPacket, Polling, Forget
  <2> QED BY <2>1, <2>2 DEF Spent, Plain
<1>11. Fresh'
  BY DEF Watchdog, NoCdc, NoEp, NoRx, NoPacket, Polling, Forget, Fresh, Young,
         Configured, Types, EpType, RxType, HostType, CdcType, DevType
<1>12. QED
  BY <1>1, <1>2, <1>3, <1>4, <1>5, <1>6, <1>7, <1>8, <1>9, <1>10, <1>11 DEF Types

\* The packet that arrives comes after all that are held, and no executed
\* request is among those to come.
LEMMA HostSendStep ==
  ASSUME IInv, HostSend
  PROVE  IInv'
<1> USE DEF IInv
<1>a. /\ host.todo \in Seq(Sent) /\ host.todo # << >>
      /\ Head(host.todo) = host.todo[1] /\ host.todo[1] \in Sent /\ Tail(host.todo) \in Seq(Sent)
      /\ Len(Tail(host.todo)) = Len(host.todo) - 1 /\ Len(host.todo) \in Nat \ {0}
      /\ \A j \in 1 .. Len(Tail(host.todo)) : Tail(host.todo)[j] = host.todo[j + 1]
  BY DEF HostSend, Types, HostType
<1>b. host.todo[1] \in Packet /\ Length(host.todo[1]) \in Nat
  BY <1>a, SentPackets
<1>c. /\ ep'.buf = host.todo[1] /\ host'.todo = Tail(host.todo)
      /\ host'.next = host.next /\ host'.since = host.since
  BY <1>a DEF HostSend, Types, EpType, HostType
<1>1. DevType' /\ RxType' /\ TaskType'
  BY DEF HostSend, Types, DevType, RxType, TaskType
<1>2. CdcType'
  BY DEF HostSend, Length, Types, CdcType
<1>3. EpType'
  <2>1. /\ ep.xfer_count + Length(host.todo[1]) \in Nat
        /\ ep' = [ep EXCEPT !.out = FALSE, !.buf = host.todo[1],
                           !.xfer_count = ep.xfer_count + Length(host.todo[1])]
    BY <1>a, <1>b DEF HostSend, Types, EpType
  <2>2. QED
    BY <1>b, <2>1 DEF Types, EpType
<1>4. HostType'
  <2>1. host' = [host EXCEPT !.todo = Tail(host.todo), !.gap = 0]
    BY DEF HostSend
  <2>2. QED
    BY <1>a, <2>1 DEF Types, HostType
<1>5. OtherTypes'
  BY DEF HostSend, Length, Types, OtherTypes
<1>6. ToCome'
  <2>1. \A j \in 1 .. Len(Tail(host.todo)) :
           /\ j + 1 \in 1 .. Len(host.todo) /\ 1 < j + 1 /\ 1 \in 1 .. Len(host.todo)
           /\ Tail(host.todo)[j] = host.todo[j + 1]
    BY <1>a
  <2>2. ep'.buf[1] < host'.next
    BY <1>a, <1>c DEF ToCome
  <2>3. \A j \in 1 .. Len(host'.todo) :
           Before(ep'.buf, host'.todo[j]) /\ host'.todo[j][1] < host'.next
    BY <1>c, <2>1 DEF ToCome
  <2>4. \A j, k \in 1 .. Len(host'.todo) : j < k => Before(host'.todo[j], host'.todo[k])
    <3>1. \A j, k \in 1 .. Len(Tail(host.todo)) : j < k => j + 1 < k + 1
      BY <1>a
    <3>2. QED
      BY <1>c, <2>1, <3>1 DEF ToCome
  <2>5. QED
    BY <2>2, <2>3, <2>4 DEF ToCome
<1>7. Once'
  <2>1. cdc'.packet_receive = 1 /\ rx' = rx /\ task' = task /\ world' = world
    BY DEF HostSend, Types, CdcType
  <2>2. Before(ep.buf, host.todo[1]) /\ ep.buf \in Packet
    BY <1>a DEF ToCome, Types, EpType
  <2>3. \A p \in Packet : Taken(p) => Taken(p)'
    BY <1>b, <1>c, <2>2, Later DEF Taken
  <2>4. /\ \A b \in 1 .. Len(rx.accum) : rx.accum[b].packet \in Packet
        /\ \A a \in 1 .. Len(task.frame) : task.frame[a].packet \in Packet
    <3>1. rx.accum \in Seq(Bytes) /\ task.frame \in Seq(Bytes)
      BY DEF Types, RxType, TaskType
    <3>2. \A p \in Bytes : p.packet \in Packet
      BY DEF Bytes
    <3>3. QED
      BY <3>1, <3>2
  <2>5. QED
    BY <2>1, <2>3, <2>4 DEF Once, Plain, HeldOnce, InOrder
<1>8. Spent'
  <2> SUFFICES ASSUME Plain, NEW n \in Serials, executed[n] = 1
               PROVE  executed[n] <= 1 /\ Gone(n)'
    BY DEF Spent, Plain, HostSend
  <2>1. Gone(n)
    BY DEF Spent
  <2>2. host.todo[1] # <<n, 1>> /\ \A j \in 1 .. Len(host'.todo) : host'.todo[j] # <<n, 1>>
    BY <1>a, <1>c, <2>1 DEF Gone
  <2>3. rx' = rx /\ task' = task
    BY DEF HostSend
  <2>4. QED
    BY <1>c, <2>1, <2>2, <2>3 DEF Gone
<1>9. Fresh'
  <2>1. \A j \in 1 .. Len(Tail(host.todo)) :
           j + 1 \in 1 .. Len(host.todo) /\ Tail(host.todo)[j] = host.todo[j + 1]
    BY <1>a
  <2>2. rx' = rx /\ dev' = dev /\ world' = world /\ Configured
    BY DEF HostSend
  <2>3. ASSUME \A j \in 1 .. Len(host.todo) : host.todo[j][1] >= host.since
        PROVE  /\ host.todo[1][1] >= host.since
               /\ \A j \in 1 .. Len(Tail(host.todo)) : Tail(host.todo)[j][1] >= host.since
    BY <1>a, <2>1, <2>3
  <2>4. QED
    BY <1>c, <2>2, <2>3 DEF Fresh, Configured, Young
<1>10. QED
  BY <1>1, <1>2, <1>3, <1>4, <1>5, <1>6, <1>7, <1>8, <1>9 DEF Types

LEMMA HostReadStep ==
  ASSUME IInv, HostRead
  PROVE  IInv'
<1> USE DEF IInv
<1>1. DevType' /\ RxType' /\ TaskType' /\ OtherTypes'
  BY DEF HostRead, Types, DevType, RxType, TaskType, OtherTypes
<1>2. CdcType'
  BY DEF HostRead, Types, CdcType
<1>3. EpType'
  BY DEF HostRead, Types, EpType
<1>4. HostType'
  BY DEF HostRead, Types, HostType, EpType
<1>5. ToCome'
  BY DEF HostRead, ToCome, Types, EpType, HostType
<1>6. Once'
  BY DEF HostRead, Once, Plain, HeldOnce, InOrder, Taken, Types, EpType, RxType,
         TaskType, CdcType
<1>7. Spent'
  <2>1. ASSUME NEW n \in Serials, Gone(n) PROVE Gone(n)'
    BY <2>1 DEF HostRead, Gone, Configured, Types, OtherTypes, EpType, RxType,
           TaskType, HostType, CdcType, DevType
  <2>2. executed' = executed /\ world' = world
    BY DEF HostRead
  <2> QED BY <2>1, <2>2 DEF Spent, Plain
<1>8. Fresh'
  BY DEF HostRead, Fresh, Young, Configured, Types, EpType, RxType, HostType, CdcType,
         DevType
<1>9. QED
  BY <1>1, <1>2, <1>3, <1>4, <1>5, <1>6, <1>7, <1>8 DEF Types

\* The flag is raised over an old packet only on a quiet link, where nothing is
\* held and the length of an executed request is 0.
LEMMA SetLineCodingStep ==
  ASSUME IInv, SetLineCoding
  PROVE  IInv'
<1> USE DEF IInv
<1>a. /\ cdc' = [cdc EXCEPT !.packet_receive = 1] /\ Configured
      /\ UNCHANGED <<dev, ep, rx, isr, task, executed, world>>
      /\ host'.todo = host.todo /\ host'.next = host.next
  BY DEF SetLineCoding, Types, HostType
<1>b. Plain => Quiet
  BY DEF SetLineCoding, Present, Plain
<1>1. DevType' /\ EpType' /\ RxType' /\ TaskType' /\ OtherTypes'
  BY DEF SetLineCoding, Types, DevType, EpType, RxType, TaskType, OtherTypes
<1>2. CdcType'
  BY DEF SetLineCoding, Quiet, Types, CdcType
<1>3. HostType'
  BY DEF SetLineCoding, Quiet, Types, HostType
<1>4. ToCome'
  BY DEF SetLineCoding, Quiet, ToCome, Types, EpType, HostType
<1>5. Once'
  <2>1. Quiet => rx.accum = << >>
    BY DEF Quiet, Types, RxType
  <2>2. QED
    BY <1>a, <1>b, <2>1 DEF Quiet, Once, Plain, HeldOnce, InOrder
<1>6. Spent'
  <2> SUFFICES ASSUME Plain PROVE Spent'
    BY <1>a DEF Spent, Plain
  <2>1. ASSUME NEW n \in Serials, Gone(n) PROVE Gone(n)'
    <3>1. ep.buf = <<n, 1>> => isr = "idle" /\ cdc.receive_length = 0
      BY <1>a, <1>b, <2>1 DEF Gone, Quiet
    <3>2. cdc'.receive_length = cdc.receive_length
      BY <1>a DEF Types, CdcType
    <3>3. QED
      BY <1>a, <2>1, <3>1, <3>2 DEF Gone
  <2>2. QED
    BY <1>a, <2>1 DEF Spent
<1>7. Fresh'
  BY DEF SetLineCoding, Quiet, Fresh, Young, Configured, Types, EpType, RxType,
         HostType, CdcType, DevType
<1>8. QED
  BY <1>1, <1>2, <1>3, <1>4, <1>5, <1>6, <1>7 DEF Types

LEMMA BeginStep ==
  ASSUME IInv, Begin
  PROVE  IInv'
<1> USE DEF IInv
<1>a. /\ host.next \in Serials /\ host.next \in Nat \ {0} /\ host.todo = << >>
      /\ Packets(host.next) \in Seq(Sent)
      /\ Len(Packets(host.next)) \in Nat
      /\ \A k \in 1 .. Len(Packets(host.next)) : Packets(host.next)[k] = <<host.next, k>>
  BY RequestPackets, Parameters DEF Begin
<1>b. host' = [host EXCEPT !.next = host.next + 1, !.todo = Packets(host.next),
                          !.waiting = host.next, !.fair = calm, !.gap = 0, !.opened = FALSE]
  BY DEF Begin
<1>1. DevType' /\ CdcType' /\ EpType' /\ RxType' /\ TaskType' /\ OtherTypes'
  BY DEF Begin, Types, DevType, CdcType, EpType, RxType, TaskType, OtherTypes
<1>2. HostType'
  <2>1. host.next + 1 \in Nat \ {0} /\ calm \in BOOLEAN
    BY <1>a DEF Types, OtherTypes
  <2>2. QED
    BY <1>a, <1>b, <2>1 DEF Types, HostType
<1>3. ToCome'
  <2>1. ep.buf[1] < host.next /\ ep.buf[1] \in Nat
    BY DEF ToCome, Types, EpType, Packet
  <2>2. /\ host'.todo = Packets(host.next) /\ host'.next = host.next + 1
        /\ ep'.buf = ep.buf
    BY <1>b DEF Begin, Types, HostType
  <2>3. \A k \in 1 .. Len(Packets(host.next)) :
           Before(ep.buf, Packets(host.next)[k]) /\ Packets(host.next)[k][1] < host.next + 1
    BY <1>a, <2>1 DEF Before
  <2>4. \A j, k \in 1 .. Len(Packets(host.next)) :
           j < k => Before(Packets(host.next)[j], Packets(host.next)[k])
    BY <1>a DEF Before
  <2>5. ep'.buf[1] < host'.next
    BY <1>a, <2>1, <2>2
  <2>6. QED
    BY <2>2, <2>3, <2>4, <2>5 DEF ToCome
<1>4. Once'
  BY DEF Begin, Packets, Once, Plain, HeldOnce, InOrder, Taken, Types, EpType, RxType,
         TaskType, CdcType
<1>5. Spent'
  <2>1. ASSUME NEW n \in Serials, Gone(n) PROVE Gone(n)'
    <3>1. n < host'.next /\ \A j \in 1 .. Len(host'.todo) : host'.todo[j] # <<n, 1>>
      <4>1. n \in Nat /\ n < host.next
        BY <2>1, Parameters DEF Gone
      <4>2. host'.todo = Packets(host.next) /\ host'.next = host.next + 1
        BY <1>b DEF Types, HostType
      <4>3. QED
        BY <1>a, <4>1, <4>2
    <3>2. UNCHANGED <<dev, cdc, ep, rx, isr, task>>
      BY DEF Begin
    <3>3. QED
      BY <2>1, <3>1, <3>2 DEF Gone, Configured
  <2>2. QED
    BY <2>1 DEF Spent, Plain, Begin
<1>6. Fresh'
  BY DEF Begin, Packets, Fresh, Young, Configured, Types, EpType, RxType, HostType,
         CdcType, DevType
<1>7. QED
  BY <1>1, <1>2, <1>3, <1>4, <1>5, <1>6 DEF Types

\* A host that forgets its request keeps its count, and has no packet to send.
LEMMA Forgotten ==
  ASSUME HostType, host' = Forget
  PROVE  /\ host'.todo = << >> /\ host'.next = host.next /\ host'.since = host.since
         /\ \A n \in Serials : \A j \in 1 .. Len(host'.todo) : host'.todo[j] # <<n, 1>>
<1>1. host'.todo = << >> /\ host'.next = host.next /\ host'.since = host.since
  BY DEF Forget, HostType
<1>2. QED
  BY <1>1

LEMMA GiveUpStep ==
  ASSUME IInv, GiveUp
  PROVE  IInv'
<1> USE DEF IInv
<1>1. DevType' /\ CdcType' /\ EpType' /\ RxType' /\ TaskType' /\ OtherTypes'
  BY DEF GiveUp, Types, DevType, CdcType, EpType, RxType, TaskType, OtherTypes
<1>2. HostType'
  BY NoneYet DEF GiveUp, Forget, Types, HostType
<1>3. ToCome'
  BY DEF GiveUp, Forget, ToCome, Types, EpType, HostType
<1>4. Once'
  BY DEF GiveUp, Forget, Once, Plain, HeldOnce, InOrder, Taken, Types, EpType, RxType,
         TaskType, CdcType
<1>5. Spent'
  <2>1. ASSUME NEW n \in Serials, Gone(n) PROVE Gone(n)'
    <3>1. UNCHANGED <<dev, cdc, ep, rx, isr, task>> /\ host' = Forget
      BY DEF GiveUp
    <3> QED BY <2>1, <3>1, Forgotten DEF Gone, Configured, Types
  <2>2. executed' = executed /\ world' = world
    BY DEF GiveUp, Forget
  <2> QED BY <2>1, <2>2 DEF Spent, Plain
<1>6. Fresh'
  BY DEF GiveUp, Forget, Fresh, Young, Configured, Types, EpType, RxType, HostType,
         CdcType, DevType
<1>7. QED
  BY <1>1, <1>2, <1>3, <1>4, <1>5, <1>6 DEF Types

LEMMA SuspendStep ==
  ASSUME IInv, Suspend
  PROVE  IInv'
<1> USE DEF IInv
<1>1. CdcType' /\ EpType' /\ RxType' /\ TaskType' /\ OtherTypes'
  BY DEF Suspend, Types, CdcType, EpType, RxType, TaskType, OtherTypes
<1>2. DevType'
  BY DEF Suspend, Forget, Types, DevType, Configured
<1>3. HostType'
  BY NoneYet DEF Suspend, Forget, Types, HostType
<1>4. ToCome'
  BY DEF Suspend, Forget, ToCome, Types, EpType, HostType
<1>5. Once'
  BY DEF Suspend, Forget, Once, Plain, HeldOnce, InOrder, Taken, Types, EpType,
         RxType, TaskType, CdcType
<1>6. Spent'
  <2>1. ASSUME NEW n \in Serials, Gone(n) PROVE Gone(n)'
    <3>1. /\ UNCHANGED <<cdc, ep, rx, isr, task>> /\ host' = Forget
          /\ ~(dev.status = "CONFIGURED")'
      BY DEF Suspend
    <3> QED BY <2>1, <3>1, Forgotten DEF Gone, Configured, Types
  <2>2. executed' = executed /\ world' = world
    BY DEF Suspend, Forget
  <2> QED BY <2>1, <2>2 DEF Spent, Plain
<1>7. Fresh'
  BY DEF Suspend, Forget, Fresh, Young, Configured, Types, EpType, RxType, HostType,
         CdcType, DevType
<1>8. QED
  BY <1>1, <1>2, <1>3, <1>4, <1>5, <1>6, <1>7 DEF Types

LEMMA ResumeStep ==
  ASSUME IInv, Resume
  PROVE  IInv'
<1> USE DEF IInv
<1>1. CdcType' /\ EpType' /\ RxType' /\ TaskType' /\ HostType' /\ OtherTypes'
  BY DEF Resume, Types, CdcType, EpType, RxType, TaskType, HostType, OtherTypes
<1>2. DevType'
  BY DEF Resume, Types, DevType
<1>3. ToCome'
  BY DEF Resume, ToCome, Types, EpType, HostType
<1>4. Once'
  BY DEF Resume, Once, Plain, HeldOnce, InOrder, Taken, Types, EpType, RxType,
         TaskType, CdcType
<1>5. Spent'
  BY DEF Resume, Spent, Plain
<1>6. Fresh'
  BY DEF Resume, Fresh, Young, Configured, Types, EpType, RxType, HostType, CdcType,
         DevType
<1>7. QED
  BY <1>1, <1>2, <1>3, <1>4, <1>5, <1>6 DEF Types

LEMMA BusResetStep ==
  ASSUME IInv, BusReset
  PROVE  IInv'
<1> USE DEF IInv
<1>1. CdcType' /\ RxType' /\ TaskType' /\ OtherTypes'
  BY DEF BusReset, Types, CdcType, RxType, TaskType, OtherTypes
<1>2. DevType'
  BY DEF BusReset, Forget, Types, DevType
<1>3. EpType'
  BY DEF BusReset, Forget, Types, EpType
<1>4. HostType'
  BY NoneYet DEF BusReset, Forget, Types, HostType
<1>5. ToCome'
  BY DEF BusReset, Forget, ToCome, Types, EpType, HostType
<1>6. Once'
  BY DEF BusReset, Forget, Once, Plain, HeldOnce, InOrder, Taken, Types, EpType,
         RxType, TaskType, CdcType
<1>7. Spent'
  <2>1. ASSUME NEW n \in Serials, Gone(n) PROVE Gone(n)'
    <3>1. /\ UNCHANGED <<cdc, rx, isr, task>> /\ host' = Forget
          /\ ep'.buf = ep.buf /\ dev'.status = "DEFAULT"
      BY DEF BusReset, Types, EpType, DevType
    <3> QED BY <2>1, <3>1, Forgotten DEF Gone, Configured, Types
  <2>2. executed' = executed /\ world' = world
    BY DEF BusReset, Forget
  <2> QED BY <2>1, <2>2 DEF Spent, Plain
<1>8. Fresh'
  BY DEF BusReset, Forget, Fresh, Young, Configured, Types, EpType, RxType, HostType,
         CdcType, DevType
<1>9. QED
  BY <1>1, <1>2, <1>3, <1>4, <1>5, <1>6, <1>7, <1>8 DEF Types

LEMMA ConfigureStep ==
  ASSUME IInv, Configure
  PROVE  IInv'
<1> USE DEF IInv
<1>1. RxType' /\ TaskType' /\ OtherTypes'
  BY DEF Configure, Types, RxType, TaskType, OtherTypes
<1>2. DevType'
  BY DEF Configure, Types, DevType
<1>3. CdcType'
  BY DEF Configure, Types, CdcType
<1>4. EpType'
  BY DEF Configure, Types, EpType
<1>5. HostType'
  BY DEF Configure, Types, HostType
<1>6. ToCome'
  BY DEF Configure, ToCome, Types, EpType, HostType
<1>7. Once'
  BY DEF Configure, Once, Plain, HeldOnce, InOrder, Taken, Types, EpType, RxType,
         TaskType, CdcType
<1>8. Spent'
  <2>1. ASSUME NEW n \in Serials, Gone(n) PROVE Gone(n)'
    <3>1. /\ UNCHANGED <<rx, isr, task>> /\ cdc'.receive_length = 0
          /\ ep'.buf = ep.buf /\ host'.todo = host.todo /\ host'.next = host.next
      BY DEF Configure, Types, EpType, HostType
    <3> QED BY <2>1, <3>1 DEF Gone
  <2>2. executed' = executed /\ world' = world
    BY DEF Configure
  <2> QED BY <2>1, <2>2 DEF Spent, Plain
<1>9. Fresh'
  BY DEF Configure, Fresh, Young, Configured, Types, EpType, RxType, HostType,
         CdcType, DevType
<1>10. QED
  BY <1>1, <1>2, <1>3, <1>4, <1>5, <1>6, <1>7, <1>8, <1>9 DEF Types

LEMMA SettleStep ==
  ASSUME IInv, Settle
  PROVE  IInv'
<1> USE DEF IInv
<1>1. DevType' /\ CdcType' /\ EpType' /\ RxType' /\ TaskType' /\ HostType'
  BY DEF Settle, Types, DevType, CdcType, EpType, RxType, TaskType, HostType
<1>2. OtherTypes'
  BY DEF Settle, Types, OtherTypes
<1>3. ToCome'
  BY DEF Settle, ToCome, Types, EpType, HostType
<1>4. Once'
  BY DEF Settle, Once, Plain, HeldOnce, InOrder, Taken, Types, EpType, RxType,
         TaskType, CdcType
<1>5. Spent'
  <2>1. ASSUME NEW n \in Serials, Gone(n) PROVE Gone(n)'
    BY <2>1 DEF Settle, Gone, Configured, Types, OtherTypes, EpType, RxType,
           TaskType, HostType, CdcType, DevType
  <2>2. executed' = executed /\ world' = world
    BY DEF Settle
  <2> QED BY <2>1, <2>2 DEF Spent, Plain
<1>6. Fresh'
  BY DEF Settle, Fresh, Young, Configured, Types, EpType, RxType, HostType, CdcType,
         DevType
<1>7. QED
  BY <1>1, <1>2, <1>3, <1>4, <1>5, <1>6 DEF Types

-----------------------------------------------------------------------------
LEMMA InitIInv == Init => IInv
<1> SUFFICES ASSUME Init PROVE IInv
  OBVIOUS
<1> USE DEF Init
<1>1. DevType /\ CdcType
  BY DEF NoCdc, DevType, CdcType
<1>2. EpType
  BY NoneYet DEF NoEp, NoPacket, EpType
<1>3. RxType /\ TaskType
  BY NoneYet DEF NoRx, Polling, RxType, TaskType
<1>4. HostType /\ OtherTypes
  BY NoneYet DEF HostType, OtherTypes
<1>5. ToCome
  BY DEF ToCome, NoEp, NoPacket
<1>6. Once
  BY DEF Once, HeldOnce, InOrder, NoRx, Polling
<1>7. Spent
  BY DEF Spent
<1>8. Fresh
  BY DEF Fresh, NoRx, Configured
<1>9. QED
  BY <1>1, <1>2, <1>3, <1>4, <1>5, <1>6, <1>7, <1>8 DEF IInv, Types

LEMMA StepIInv == IInv /\ [Next]_vars => IInv'
<1> SUFFICES ASSUME IInv, [Next]_vars PROVE IInv'
  OBVIOUS
<1>1. CASE usb_cdc_tick
  BY <1>1, ArmStep, DisarmStep, TakePacketStep, TakeNothingStep
     DEF usb_cdc_tick, TickFrame
<1>2. CASE Task
  BY <1>2, PollStep, ReceiveStep, ProcessStep, DataSendStep, DataSendClearStep,
         DataSendDoneStep
     DEF Task
<1>3. CASE UNCHANGED vars
  <2>1. Types'
    BY <1>3
       DEF vars, IInv, Types, DevType, CdcType, EpType, RxType, TaskType, HostType,
           OtherTypes
  <2>2. QED
    BY <1>3, <2>1
       DEF vars, IInv, ToCome, Once, Plain, HeldOnce, InOrder, Taken, Spent, Gone,
                      Fresh, Young, Configured
<1>4. QED
  BY <1>1, <1>2, <1>3, DataOutEndStep, WatchdogStep, HostSendStep, HostReadStep,
     SetLineCodingStep, BeginStep, GiveUpStep, SuspendStep, ResumeStep, BusResetStep,
     ConfigureStep, SettleStep DEF Next

-----------------------------------------------------------------------------
(* The buffers.                                                            *)

LEMMA SilentShape ==
  ASSUME NEW r \in [rx_armed : BOOLEAN, accum : Seq(Bytes), accum_len : Nat,
                    frame_ready : BOOLEAN, silence : Nat],
         r.silence < USB_CDC_SILENCE_MS
  PROVE  Silent(r).silence < USB_CDC_SILENCE_MS
<1>1. CASE r.accum_len = 0
  BY <1>1 DEF Silent
<1>2. CASE r.accum_len > 0 /\ r.silence + 1 >= USB_CDC_SILENCE_MS
  <2>1. Silent(r) = [r EXCEPT !.silence = 0, !.frame_ready = TRUE]
    BY <1>2, Parameters DEF Silent
  <2>2. QED
    BY <2>1, Parameters
<1>3. CASE r.accum_len > 0 /\ r.silence + 1 < USB_CDC_SILENCE_MS
  <2>1. Silent(r) = [r EXCEPT !.silence = r.silence + 1]
    BY <1>3, Parameters DEF Silent
  <2>2. QED
    BY <1>3, <2>1, Parameters
<1>4. QED
  BY <1>1, <1>2, <1>3, Parameters

\* What a packet sent by the host leaves is a piece of a request.
LEMMA SentLength ==
  ASSUME NEW p \in Sent
  PROVE  /\ Length(p) \in 1 .. USB_CDC_BUF_SIZE
         /\ \A len \in 1 .. USB_CDC_BUF_SIZE : IsPiece(Piece(p, len))
<1>1. p[1] \in Serials /\ p[2] \in DOMAIN Requests[p[1]]
  BY DEF Sent
<1>2. Requests[p[1]][p[2]] \in 1 .. USB_CDC_BUF_SIZE
  <2>1. \A n \in Serials : \A k \in DOMAIN Requests[n] :
           Requests[n][k] \in 1 .. USB_CDC_BUF_SIZE
    BY Parameters
  <2>2. QED
    BY <1>1, <2>1
<1>3. QED
  BY <1>1, <1>2 DEF Length, IsPiece, Piece

LEMMA TakeShape ==
  ASSUME IInv, Shape, TakePacket
  PROVE  RxShape'
<1>1. /\ rx \in [rx_armed : BOOLEAN, accum : Seq(Bytes), accum_len : Nat,
                 frame_ready : BOOLEAN, silence : Nat]
      /\ rx.accum = << >> <=> rx.accum_len = 0
      /\ cdc.receive_length \in Nat /\ ep.buf \in Packet
  BY DEF IInv, Types, RxType, CdcType, EpType
<1> DEFINE piece == Piece(ep.buf, cdc.receive_length)
           more  == Append(rx.accum, piece)
           r     == [Appended EXCEPT !.silence = 0]
<1>2. piece \in Bytes
  BY <1>1 DEF Piece, Bytes
<1>3. /\ r \in [rx_armed : BOOLEAN, accum : Seq(Bytes), accum_len : Nat,
                frame_ready : BOOLEAN, silence : Nat]
      /\ r.accum = << >> <=> r.accum_len = 0
      /\ r.silence = 0 /\ r.accum_len <= USB_CDC_BUF_SIZE
      /\ \A i \in DOMAIN r.accum : IsPiece(r.accum[i])
  <2>1. CASE cdc.receive_length > 0 /\ Fits(cdc.receive_length)
    <3>1. more \in Seq(Bytes) /\ more # << >>
      BY <1>1, <1>2
    <3>2. IsPiece(piece)
      BY <1>1, <2>1, SentLength DEF Shape, LengthShape
    <3>3. \A i \in DOMAIN more : IsPiece(more[i])
      <4>1. /\ DOMAIN more = 1 .. Len(rx.accum) + 1 /\ Len(rx.accum) \in Nat
            /\ more[Len(rx.accum) + 1] = piece
            /\ \A i \in 1 .. Len(rx.accum) : more[i] = rx.accum[i] /\ i \in DOMAIN rx.accum
        BY <1>1, <1>2
      <4>2. \A i \in DOMAIN more : i = Len(rx.accum) + 1 \/ i \in 1 .. Len(rx.accum)
        BY <4>1
      <4> HIDE DEF more, piece
      <4>3. QED
        BY <3>2, <4>1, <4>2 DEF Shape, RxShape
    <3> HIDE DEF more
    <3>4. /\ rx.accum_len + cdc.receive_length \in Nat \ {0}
          /\ rx.accum_len + cdc.receive_length <= USB_CDC_BUF_SIZE
      BY <1>1, <2>1 DEF Fits
    <3>5. r = [rx EXCEPT !.accum = more, !.accum_len = rx.accum_len + cdc.receive_length,
                         !.silence = 0]
      BY <1>1, <2>1 DEF Appended, more
    <3> HIDE DEF r
    <3>6. QED
      BY <1>1, <3>1, <3>3, <3>4, <3>5
  <2>2. CASE ~(cdc.receive_length > 0 /\ Fits(cdc.receive_length))
    <3>1. r = [rx EXCEPT !.silence = 0]
      BY <2>2 DEF Appended
    <3> HIDE DEF r
    <3>2. QED
      BY <1>1, <3>1 DEF Shape, RxShape
  <2>3. QED
    BY <2>1, <2>2
<1>4. rx' = Silent(r)
  BY DEF TakePacket
<1> HIDE DEF r
<1>5. Silent(r).accum = r.accum /\ Silent(r).accum_len = r.accum_len
  BY <1>3, SilentType
<1>6. Silent(r).silence < USB_CDC_SILENCE_MS
  BY <1>3, Parameters, SilentShape
<1>7. QED
  BY <1>3, <1>4, <1>5, <1>6 DEF RxShape

LEMMA TickShape ==
  ASSUME IInv, Shape, usb_cdc_tick
  PROVE  Shape'
<1>1. UNCHANGED <<isr, task>>
  BY DEF usb_cdc_tick
<1>2. /\ ep'.buf = ep.buf /\ ep'.in = ep.in
      /\ \/ ep'.out = ep.out /\ ep'.xfer_count = ep.xfer_count
         \/ ep'.xfer_count = 0
      /\ cdc'.receive_length = cdc.receive_length
  BY DEF usb_cdc_tick, Arm, Disarm, TakePacket, TakeNothing, Armed, Received, IInv, Types,
         EpType, CdcType
<1>3. TaskShape' /\ EpShape' /\ LengthShape'
  BY <1>1, <1>2, Parameters DEF Shape, TaskShape, EpShape, LengthShape
<1>4. RxShape'
  <2>1. CASE Arm
    BY <2>1 DEF Arm, Shape, RxShape, IInv, Types, RxType
  <2>2. CASE Disarm
    BY <2>2, Parameters DEF Disarm, NoRx, RxShape
  <2>3. CASE TakePacket
    BY <2>3, TakeShape
  <2>4. CASE TakeNothing
    <3>1. rx' = Silent(rx)
      BY <2>4 DEF TakeNothing
    <3>2. QED
      BY <3>1, SilentType, SilentShape DEF Shape, RxShape, IInv, Types, RxType
  <2>5. QED
    BY <2>1, <2>2, <2>3, <2>4 DEF usb_cdc_tick
<1>5. QED
  BY <1>3, <1>4 DEF Shape

LEMMA TaskStepShape ==
  ASSUME IInv, Shape, Task
  PROVE  Shape'
<1>1. CASE Poll
  BY <1>1 DEF Poll, Shape, RxShape, TaskShape, EpShape, LengthShape, IInv, Types, TaskType
<1>2. CASE usb_cdc_receive
  <2>1. task'.frame = rx.accum /\ task'.rx_len = rx.accum_len
    BY <1>2 DEF usb_cdc_receive
  <2>2. rx'.accum = << >> /\ rx'.accum_len = 0 /\ rx'.silence = 0
    BY <1>2 DEF usb_cdc_receive, IInv, Types, RxType
  <2>3. UNCHANGED <<ep, cdc, isr>>
    BY <1>2 DEF usb_cdc_receive
  <2>4. QED
    BY <2>1, <2>2, <2>3, Parameters DEF Shape, RxShape, TaskShape, EpShape, LengthShape
<1>3. CASE modbus_process
  <2>1. /\ UNCHANGED <<ep, cdc, isr, rx>>
        /\ \/ task'.frame = task.frame /\ task'.rx_len = task.rx_len
           \/ task'.frame = << >> /\ task'.rx_len = 0
    BY <1>3 DEF modbus_process, Polling, IInv, Types, TaskType
  <2>2. QED
    BY <2>1, Parameters DEF Shape, RxShape, TaskShape, EpShape, LengthShape
<1>4. CASE DataSend
  <2>1. task.frame \in Seq(Bytes) /\ task.frame # << >>
    BY <1>4 DEF DataSend, TaskRuns, IInv, Types, TaskType
  <2>2. task.frame[1].packet[1] \in Serials
    BY <2>1 DEF Shape, TaskShape, IsPiece
  <2>3. /\ UNCHANGED <<rx, isr>> /\ task'.frame = << >> /\ task'.rx_len = 0
        /\ cdc'.receive_length = cdc.receive_length /\ ep'.buf = ep.buf
        /\ ep'.out = ep.out /\ ep'.xfer_count = ep.xfer_count
        /\ ep'.in \in {ep.in, task.frame[1].packet[1]}
    BY <1>4 DEF DataSend, Polling, IInv, Types, CdcType, EpType
  <2>4. QED
    BY <2>2, <2>3, Parameters DEF Shape, RxShape, TaskShape, EpShape, LengthShape
<1>5. CASE DataSendClear
  BY <1>5, Parameters DEF DataSendClear, Shape, RxShape, TaskShape, EpShape, LengthShape,
     IInv, Types, TaskType, CdcType, OtherTypes, TaskRuns
<1>6. CASE DataSendDone
  BY <1>6, Parameters DEF DataSendDone, Polling, Shape, RxShape, TaskShape, EpShape, LengthShape
<1>7. QED
  BY <1>1, <1>2, <1>3, <1>4, <1>5, <1>6 DEF Task

LEMMA ShapeStep ==
  ASSUME IInv, Shape, [Next]_vars
  PROVE  Shape'
<1> USE DEF Shape, RxShape, TaskShape, EpShape, LengthShape
<1>1. CASE usb_cdc_tick \/ Task
  BY <1>1, TickShape, TaskStepShape
<1>2. CASE DataOutEnd
  BY <1>2 DEF DataOutEnd, IInv, Types, CdcType
<1>3. CASE Watchdog
  BY <1>3, Parameters DEF Watchdog, NoCdc, NoEp, NoRx, Polling
<1>4. CASE HostSend
  <2>1. host.todo \in Seq(Sent) /\ host.todo # << >> /\ ep.out
    BY <1>4 DEF HostSend, IInv, Types, HostType
  <2>2. Head(host.todo) \in Sent
    BY <2>1
  <2> DEFINE p == Head(host.todo)
  <2>3. p \in Sent /\ Length(p) \in 1 .. USB_CDC_BUF_SIZE
    BY <2>2, SentLength
  <2>4. /\ UNCHANGED <<rx, task>> /\ cdc'.receive_length = cdc.receive_length
        /\ ep'.in = ep.in /\ ep'.out = FALSE /\ ep'.buf = p
        /\ ep'.xfer_count = ep.xfer_count + Length(p)
    BY <1>4 DEF HostSend, IInv, Types, CdcType, EpType
  <2> HIDE DEF p
  <2>5. QED
    BY <2>1, <2>3, <2>4, Parameters
<1>5. CASE HostRead
  BY <1>5 DEF HostRead, IInv, Types, CdcType, EpType
<1>6. CASE SetLineCoding
  BY <1>6 DEF SetLineCoding, IInv, Types, CdcType
<1>7. CASE Begin \/ GiveUp \/ Suspend \/ Resume \/ Settle \/ UNCHANGED vars
  BY <1>7 DEF Begin, GiveUp, Suspend, Resume, Settle, vars
<1>8. CASE BusReset \/ Configure
  <2>1. /\ UNCHANGED <<rx, task, isr>> /\ cdc'.receive_length \in {cdc.receive_length, 0}
        /\ ep'.in = 0 /\ ep'.out = FALSE /\ ep'.buf = ep.buf /\ ep'.xfer_count = ep.xfer_count
    <3>1. CASE BusReset
      BY <3>1 DEF BusReset, IInv, Types, EpType
    <3>2. CASE Configure
      BY <3>2 DEF Configure, IInv, Types, EpType
    <3>3. QED
      BY <1>8, <3>1, <3>2
  <2>2. QED
    BY <2>1, Parameters
<1>9. QED
  BY <1>1, <1>2, <1>3, <1>4, <1>5, <1>6, <1>7, <1>8 DEF Next

-----------------------------------------------------------------------------
(* A request of a polite host over a settled link.                         *)

LEMMA PiecesOf ==
  ASSUME NEW n \in Serials
  PROVE  /\ Prefix(n, 0) = << >> /\ Prefix(n, Len(Requests[n])) = Whole(n)
         /\ \A k \in 1 .. Len(Requests[n]) :
              Append(Prefix(n, k - 1), Piece(<<n, k>>, Requests[n][k])) = Prefix(n, k)
<1>1. DOMAIN Requests[n] = 1 .. Len(Requests[n]) /\ Len(Requests[n]) \in Nat
  BY Parameters
<1>2. Prefix(n, 0) = << >>
  BY DEF Prefix
<1>3. Prefix(n, Len(Requests[n])) = Whole(n)
  BY <1>1 DEF Prefix, Whole
<1>4. ASSUME NEW k \in 1 .. Len(Requests[n])
      PROVE  Append(Prefix(n, k - 1), Piece(<<n, k>>, Requests[n][k])) = Prefix(n, k)
  <2> DEFINE e(i) == Piece(<<n, i>>, Requests[n][i])
             s    == [i \in 1 .. k - 1 |-> e(i)]
  <2>1. k \in Nat \ {0}
    BY <1>1
  <2> HIDE DEF e
  <2>2. s \in Seq({e(i) : i \in 1 .. k}) /\ Len(s) = k - 1
    BY <2>1
  <2>3. Append(s, e(k)) = [i \in 1 .. k |-> e(i)]
    BY <2>1, <2>2
  <2>4. QED
    BY <2>3 DEF e, Prefix
<1>5. QED
  BY <1>2, <1>3, <1>4

LEMMA TailOf ==
  ASSUME NEW S, NEW s \in Seq(S), s # << >>
  PROVE  Tail(s) = [i \in 1 .. Len(s) - 1 |-> s[i + 1]]
<1>1. /\ Tail(s) \in Seq(S) /\ Len(Tail(s)) = Len(s) - 1
      /\ \A i \in 1 .. Len(s) - 1 : Tail(s)[i] = s[i + 1]
  OBVIOUS
<1> DEFINE t == Tail(s)
           m == Len(s) - 1
           e(i) == s[i + 1]
<1>2. t = [i \in 1 .. m |-> t[i]]
  <2>1. \A u \in Seq(S) : u = [i \in 1 .. Len(u) |-> u[i]]
    OBVIOUS
  <2>2. t \in Seq(S) /\ Len(t) = m
    BY <1>1
  <2> HIDE DEF t, m
  <2>3. QED
    BY <2>1, <2>2
<1>3. \A i \in 1 .. m : t[i] = e(i)
  BY <1>1
<1> HIDE DEF t, m, e
<1>4. t = [i \in 1 .. m |-> e(i)]
  BY <1>2, <1>3
<1>5. QED
  BY <1>4 DEF t, m, e

LEMMA RestOf ==
  ASSUME NEW n \in Serials
  PROVE  /\ Rest(n, 0) = Packets(n) /\ Rest(n, Len(Requests[n])) = << >>
         /\ \A k \in 0 .. Len(Requests[n]) - 1 :
              /\ Rest(n, k) # << >>
              /\ Rest(n, k)[1] = <<n, k + 1>> /\ Head(Rest(n, k)) = <<n, k + 1>>
              /\ Tail(Rest(n, k)) = Rest(n, k + 1)
<1>1. DOMAIN Requests[n] = 1 .. Len(Requests[n]) /\ Len(Requests[n]) \in Nat /\ n \in Nat
  BY Parameters
<1>2. Rest(n, 0) = Packets(n)
  BY <1>1 DEF Rest, Packets
<1>3. Rest(n, Len(Requests[n])) = << >>
  BY <1>1 DEF Rest
<1>4. ASSUME NEW k \in 0 .. Len(Requests[n]) - 1
      PROVE  /\ Rest(n, k) # << >>
             /\ Rest(n, k)[1] = <<n, k + 1>> /\ Head(Rest(n, k)) = <<n, k + 1>>
             /\ Tail(Rest(n, k)) = Rest(n, k + 1)
  <2> DEFINE m == Len(Requests[n]) - k
  <2>1. m \in Nat \ {0} /\ k \in Nat
    BY <1>1
  <2>2. Rest(n, k) = [i \in 1 .. m |-> <<n, k + i>>]
    BY DEF Rest
  <2>3. Rest(n, k + 1) = [i \in 1 .. m - 1 |-> <<n, (k + 1) + i>>]
    BY <1>1, <2>1 DEF Rest
  <2> HIDE DEF m
  <2>4. Rest(n, k) \in Seq(Nat \X Nat) /\ Len(Rest(n, k)) = m
    BY <1>1, <2>1, <2>2
  <2>5. Tail(Rest(n, k)) = [i \in 1 .. m - 1 |-> Rest(n, k)[i + 1]]
    <3>1. Rest(n, k) # << >>
      BY <2>1, <2>4
    <3>2. QED
      BY <2>4, <3>1, TailOf
  <2>6. \A i \in 1 .. m - 1 : Rest(n, k)[i + 1] = <<n, (k + 1) + i>>
    <3>1. \A i \in 1 .. m - 1 : i + 1 \in 1 .. m /\ k + (i + 1) = (k + 1) + i
      BY <2>1
    <3>2. QED
      BY <2>2, <3>1
  <2>7. Tail(Rest(n, k)) = Rest(n, k + 1)
    BY <2>3, <2>5, <2>6
  <2>8. 1 \in 1 .. m /\ Rest(n, k)[1] = <<n, k + 1>>
    BY <2>1, <2>2
  <2>9. QED
    BY <2>1, <2>4, <2>7, <2>8
<1>5. QED
  BY <1>2, <1>3, <1>4

LEMMA OffsetsOf ==
  ASSUME NEW n \in Serials
  PROVE  /\ At(n)[0] = 0
         /\ \A k \in 0 .. Len(Requests[n]) : At(n)[k] \in 0 .. USB_CDC_BUF_SIZE
         /\ \A k \in 1 .. Len(Requests[n]) :
              At(n)[k] = At(n)[k - 1] + Requests[n][k] /\ At(n)[k] > 0
              /\ Requests[n][k] \in Nat \ {0}
<1>1. At(n) \in Offsets(n)
  BY PoliteHostAssumption DEF At, Serials
<1>2. /\ At(n) \in [0 .. Len(Requests[n]) -> 0 .. USB_CDC_BUF_SIZE] /\ At(n)[0] = 0
      /\ \A k \in 1 .. Len(Requests[n]) : At(n)[k] = At(n)[k - 1] + Requests[n][k]
  BY <1>1 DEF Offsets
<1>3. Len(Requests[n]) \in Nat /\ \A k \in 1 .. Len(Requests[n]) : Requests[n][k] \in Nat \ {0}
  BY Parameters
<1>4. \A k \in 0 .. Len(Requests[n]) : At(n)[k] \in 0 .. USB_CDC_BUF_SIZE
  BY <1>2
<1>5. ASSUME NEW k \in 1 .. Len(Requests[n])
      PROVE  At(n)[k] > 0
  <2>1. k - 1 \in 0 .. Len(Requests[n])
    BY <1>3
  <2>2. At(n)[k - 1] \in Nat /\ Requests[n][k] \in Nat \ {0}
    BY <1>3, <1>4, <2>1, Parameters
  <2>3. QED
    BY <1>2, <2>2
<1>6. QED
  BY <1>2, <1>3, <1>4, <1>5

LEMMA MannersStep ==
  ASSUME IInv, Manners, [Next]_vars
  PROVE  /\ Manners'
         /\ ~Begin => host'.fair = host.fair /\ host'.waiting \in {host.waiting, 0}
<1>1. /\ host \in [next : Nat \ {0}, todo : Seq(Sent), waiting : Nat,
                   answered : SUBSET Nat, fair : BOOLEAN, gap : Nat,
                   opened : BOOLEAN, since : Nat]
      /\ calm \in BOOLEAN
  BY DEF IInv, Types, HostType, OtherTypes
<1>2. world' = world /\ (calm => calm')
  BY DEF Next, Task, vars, usb_cdc_tick, DataOutEnd, Poll, usb_cdc_receive, modbus_process,
     DataSend, DataSendClear, DataSendDone, Watchdog, HostSend, HostRead, SetLineCoding, Begin,
     GiveUp, Suspend, Resume, BusReset, Configure, Settle
<1>3. CASE Begin
  <2>1. host'.fair = calm /\ calm' = calm
    BY <1>1, <1>3 DEF Begin
  <2>2. QED
    BY <1>2, <1>3, <2>1 DEF Manners
<1>4. ASSUME ~Begin
      PROVE  host'.fair = host.fair /\ host'.waiting \in {host.waiting, 0}
  <2>1. \/ host' = host \/ host' = Forget
        \/ \E gap : host' = [host EXCEPT !.gap = gap]
        \/ \E todo : host' = [host EXCEPT !.todo = todo, !.gap = 0]
        \/ \E answered, waiting :
              /\ host' = [host EXCEPT !.answered = answered, !.waiting = waiting]
              /\ waiting \in {host.waiting, 0}
        \/ host' = [host EXCEPT !.opened = TRUE]
        \/ host' = [host EXCEPT !.since = host.next]
    <3>1. CASE usb_cdc_tick
      <4>1. host' = [host EXCEPT !.gap = IF InPause THEN host.gap + 1 ELSE 0]
        BY <3>1 DEF usb_cdc_tick
      <4>2. QED
        BY <4>1
    <3>2. CASE HostSend
      <4>1. host' = [host EXCEPT !.todo = Tail(host.todo), !.gap = 0]
        BY <3>2 DEF HostSend
      <4>2. QED
        BY <4>1
    <3>3. CASE HostRead
      <4>1. host' = [host EXCEPT !.answered = host.answered \cup {ep.in},
                                 !.waiting = IF host.waiting = ep.in THEN 0 ELSE host.waiting]
        BY <3>3 DEF HostRead
      <4> DEFINE w == IF host.waiting = ep.in THEN 0 ELSE host.waiting
      <4>2. w \in {host.waiting, 0}
        OBVIOUS
      <4>3. QED
        BY <4>1, <4>2
    <3>4. CASE SetLineCoding
      BY <3>4 DEF SetLineCoding
    <3>5. CASE Configure
      BY <3>5 DEF Configure
    <3>6. CASE \/ DataOutEnd \/ Task \/ Watchdog \/ GiveUp \/ Suspend \/ Resume \/ BusReset
               \/ Settle \/ UNCHANGED vars
      <4>1. host' = host \/ host' = Forget
        BY <3>6 DEF Task, vars, DataOutEnd, Poll, usb_cdc_receive, modbus_process,
           DataSend, DataSendClear, DataSendDone, Watchdog, GiveUp, Suspend, Resume, BusReset,
           Settle
      <4>2. QED
        BY <4>1
    <3>7. QED
      BY <1>4, <3>1, <3>2, <3>3, <3>4, <3>5, <3>6 DEF Next
  <2>2. QED
    BY <1>1, <2>1 DEF Forget
<1>5. QED
  BY <1>2, <1>3, <1>4 DEF Manners

\* While a request is on its way the link is not quiet.
LEMMA NotQuiet ==
  ASSUME NEW n \in Serials, OnItsWay(n), Quiet
  PROVE  host.todo # << >>
<1>1. CASE Complete(n)
  BY <1>1 DEF Complete, Ready, Running, Answered, Quiet
<1>2. ASSUME NEW k \in 0 .. Len(Requests[n]), InFlight(n, k)
      PROVE  FALSE
  BY <1>2 DEF InFlight, Quiet
<1>3. ASSUME NEW k \in 0 .. Len(Requests[n]), Between(n, k)
      PROVE  host.todo # << >>
  <2>1. k = 0
    <3>1. At(n)[k] = 0
      BY <1>3 DEF Between, Quiet
    <3>2. k > 0 => At(n)[k] > 0
      BY OffsetsOf, Parameters
    <3>3. QED
      BY <3>1, <3>2
  <2>2. 0 \in 0 .. Len(Requests[n]) - 1
    BY Parameters
  <2>3. Rest(n, k) # << >>
    BY <2>1, <2>2, RestOf
  <2>4. QED
    BY <1>3, <2>3 DEF Between, Collecting
<1>4. QED
  BY <1>1, <1>2, <1>3 DEF OnItsWay

\* On a settled link only what carries the request happens.
LEMMA Undisturbed ==
  ASSUME IInv, Manners, host.fair, NEW n \in Serials, host.waiting = n, Settled(n), Next
  PROVE  usb_cdc_tick \/ DataOutEnd \/ Task \/ HostSend \/ HostRead
<1>1. calm /\ \A d : ~Present(d)
  BY DEF Manners, Present
<1>2. n # 0 /\ Configured
  BY Parameters DEF Settled
<1>3. ~GiveUp
  BY <1>1, NotQuiet DEF GiveUp, Settled
<1>4. ~Begin /\ ~SetLineCoding /\ ~Suspend /\ ~Settle
  BY <1>1, <1>2 DEF Begin, SetLineCoding, Suspend, Settle
<1>5. ~Resume /\ ~BusReset /\ ~Configure /\ ~Watchdog
  BY <1>1, <1>2 DEF Resume, BusReset, Configure, Watchdog, Configured
<1>6. QED
  BY <1>3, <1>4, <1>5 DEF Next

\* A polite host begins on a quiet link.
LEMMA BeginLink ==
  ASSUME IInv, Manners, Begin, host'.fair
  PROVE  Settled(host.waiting)'
<1>0. PICK n \in Serials : n = host.next
  BY DEF Begin
<1>1. /\ n \in Serials /\ host'.waiting = n /\ host'.fair = calm /\ host'.todo = Packets(n)
      /\ UNCHANGED <<dev, cdc, ep, rx, isr, task>>
  BY <1>0 DEF Begin, IInv, Types, HostType
<1>2. Quiet
  BY <1>1 DEF Begin, Present
<1>3. rx.accum = << >> /\ rx.accum_len = 0
  BY <1>2 DEF Quiet, IInv, Types, RxType
<1>4. Between(n, 0)'
  BY <1>1, <1>2, <1>3, PiecesOf, RestOf, OffsetsOf DEF Between, Collecting, Quiet
<1>5. 0 \in 0 .. Len(Requests[n])
  BY <1>1, Parameters
<1>6. Settled(n)'
  BY <1>1, <1>2, <1>4, <1>5 DEF Settled, OnItsWay, Quiet, Configured
<1>7. QED
  BY <1>1, <1>6

\* The tick takes the packet, or counts a millisecond that does not end the
\* frame before its last packet.
LEMMA TickLink ==
  ASSUME IInv, Shape, Manners, host.fair, NEW n \in Serials, Settled(n), usb_cdc_tick
  PROVE  Settled(n)'
<1>1. /\ rx \in [rx_armed : BOOLEAN, accum : Seq(Bytes), accum_len : Nat,
                 frame_ready : BOOLEAN, silence : Nat]
      /\ rx.accum = << >> <=> rx.accum_len = 0
      /\ host.gap \in Nat /\ HostGap \in Nat /\ USB_CDC_SILENCE_MS \in Nat
      /\ HostGap + 1 < USB_CDC_SILENCE_MS /\ Len(Requests[n]) \in Nat
  BY PoliteHostAssumption, Parameters DEF IInv, Types, RxType, HostType
<1>2. Configured /\ rx.rx_armed /\ isr = "idle"
  BY DEF Settled, usb_cdc_tick, Manners, Present
<1>3. /\ UNCHANGED <<dev, isr, task, executed, world, calm>>
      /\ host'.todo = host.todo /\ host'.gap = IF InPause THEN host.gap + 1 ELSE 0
      /\ InPause => host.gap < HostGap
      /\ TakePacket \/ TakeNothing
  BY <1>2 DEF usb_cdc_tick, Arm, Disarm, IInv, Types, HostType
<1>4. Configured' /\ isr' = "idle"
  BY <1>2, <1>3 DEF Configured
<1>5. CASE TakeNothing
  <2>1. /\ rx' = Silent(rx) /\ UNCHANGED <<ep, cdc>> /\ cdc.packet_receive = 0
        /\ rx'.rx_armed /\ rx'.accum = rx.accum /\ rx'.accum_len = rx.accum_len
        /\ rx.frame_ready => rx'.frame_ready
    <3>1. rx' = Silent(rx) /\ UNCHANGED <<ep, cdc>> /\ cdc.packet_receive = 0
      BY <1>5 DEF TakeNothing
    <3>2. Silent(rx).rx_armed /\ Silent(rx).accum = rx.accum /\ Silent(rx).accum_len = rx.accum_len
      BY <1>1, <1>2, SilentType
    <3>3. rx.frame_ready => Silent(rx).frame_ready
      <4>1. \/ Silent(rx) = rx
            \/ Silent(rx) = [rx EXCEPT !.silence = 0, !.frame_ready = TRUE]
            \/ Silent(rx) = [rx EXCEPT !.silence = rx.silence + 1]
        BY <1>1 DEF Silent
      <4>2. QED
        BY <1>1, <4>1
    <3>4. QED
      BY <3>1, <3>2, <3>3
  <2>2. CASE Complete(n)
    <3>1. Complete(n)'
      BY <1>3, <1>4, <2>1, <2>2 DEF Complete, Ready, Running, Answered
    <3>2. QED
      BY <1>4, <2>1, <3>1 DEF Settled, OnItsWay
  <2>3. ASSUME NEW k \in 0 .. Len(Requests[n]), Between(n, k)
        PROVE  Settled(n)'
    <3>1. /\ At(n)[0] = 0 /\ (k > 0 => At(n)[k] > 0) /\ k \in Nat
      BY OffsetsOf, <1>1
    <3>2. rx.accum_len = At(n)[k]
      BY <2>3 DEF Between
    <3>3. CASE k = 0
      <4>1. rx' = rx
        BY <1>1, <2>1, <3>1, <3>2, <3>3 DEF Silent
      <4>2. Between(n, k)'
        BY <1>3, <1>4, <2>1, <2>3, <3>3, <4>1 DEF Between, Collecting
      <4>3. QED
        BY <1>4, <2>1, <4>2 DEF Settled, OnItsWay
    <3>4. CASE 0 < k /\ k < Len(Requests[n])
      <4>1. k \in 0 .. Len(Requests[n]) - 1
        BY <1>1, <3>1, <3>4
      <4>2. host.todo # << >> /\ host.todo[1] = <<n, k + 1>>
        BY <2>3, <4>1, RestOf DEF Between, Collecting
      <4>3. InPause
        BY <2>3, <3>1, <3>4, <4>2 DEF InPause, Between, Present, Manners
      <4>4. rx.silence = host.gap + 1 /\ rx.silence + 1 < USB_CDC_SILENCE_MS
        BY <1>1, <1>3, <2>3, <3>4, <4>3 DEF Between
      <4>5. rx' = [rx EXCEPT !.silence = rx.silence + 1]
        BY <1>1, <2>1, <3>1, <3>2, <3>4, <4>4 DEF Silent
      <4>6. rx'.silence = host'.gap + 1 /\ host'.gap <= HostGap /\ rx'.frame_ready = rx.frame_ready
        BY <1>1, <1>3, <4>3, <4>4, <4>5
      <4>7. Between(n, k)'
        BY <1>3, <1>4, <2>1, <2>3, <4>6 DEF Between, Collecting
      <4>8. QED
        BY <1>4, <2>1, <4>7 DEF Settled, OnItsWay
    <3>5. CASE k = Len(Requests[n]) /\ k > 0
      <4>1. host.todo = << >> /\ rx.accum = Whole(n)
        BY <2>3, <3>5, PiecesOf, RestOf DEF Between, Collecting
      <4>2. CASE rx'.frame_ready
        <5>1. Complete(n)'
          BY <1>3, <1>4, <2>1, <2>3, <4>1, <4>2 DEF Between, Collecting, Complete, Ready
        <5>2. QED
          BY <1>4, <2>1, <5>1 DEF Settled, OnItsWay
      <4>3. CASE ~rx'.frame_ready
        <5>1. Between(n, k)'
          BY <1>3, <1>4, <2>1, <2>3, <3>5, <4>3, <1>1 DEF Between, Collecting
        <5>2. QED
          BY <1>4, <2>1, <5>1 DEF Settled, OnItsWay
      <4>4. QED
        BY <4>2, <4>3
    <3>6. QED
      BY <1>1, <3>1, <3>3, <3>4, <3>5
  <2>4. ASSUME NEW k \in 0 .. Len(Requests[n]), InFlight(n, k)
        PROVE  FALSE
    BY <2>1, <2>4 DEF InFlight
  <2>5. QED
    BY <2>2, <2>3, <2>4 DEF Settled, OnItsWay
<1>6. CASE TakePacket
  <2>1. cdc.packet_receive = 1
    BY <1>6 DEF TakePacket
  <2>2. PICK k \in 0 .. Len(Requests[n]) : InFlight(n, k)
    BY <2>1 DEF Settled, OnItsWay, Between, Complete
  <2>3. /\ k \in 1 .. Len(Requests[n]) /\ k - 1 \in Nat
        /\ At(n)[k] = At(n)[k - 1] + Requests[n][k] /\ At(n)[k] > 0
        /\ At(n)[k] <= USB_CDC_BUF_SIZE /\ Requests[n][k] \in Nat \ {0}
    <3>1. k \in 1 .. Len(Requests[n]) /\ k - 1 \in Nat
      BY <1>1, <2>2 DEF InFlight
    <3>2. QED
      BY <3>1, OffsetsOf
  <2>4. /\ cdc.receive_length = Requests[n][k] /\ ep.buf = <<n, k>> /\ ~ep.out
        /\ rx.accum = Prefix(n, k - 1) /\ rx.accum_len = At(n)[k - 1]
        /\ ~rx.frame_ready
    BY <1>2, <2>2 DEF InFlight, Collecting
  <2> DEFINE whole == Prefix(n, k)
             len   == At(n)[k]
             r     == [Appended EXCEPT !.silence = 0]
  <2>5. Append(rx.accum, Piece(ep.buf, cdc.receive_length)) = whole
    BY <2>3, <2>4, PiecesOf
  <2>6. /\ cdc.receive_length > 0 /\ Fits(cdc.receive_length)
        /\ rx.accum_len + cdc.receive_length = len /\ len \in Nat \ {0}
    <3>1. At(n)[k - 1] \in Nat /\ At(n)[k] \in Nat
      BY <2>3, OffsetsOf, Parameters
    <3>2. QED
      BY <2>3, <2>4, <3>1 DEF Fits
  <2> HIDE DEF whole, len
  <2>7. Appended = [rx EXCEPT !.accum = whole, !.accum_len = len]
    BY <2>5, <2>6 DEF Appended
  <2>8. r = [rx EXCEPT !.accum = whole, !.accum_len = len, !.silence = 0]
    BY <1>1, <2>7
  <2>9. rx' = Silent(r)
    BY <1>6 DEF TakePacket
  <2> HIDE DEF r
  <2>10. r.accum_len = len /\ r.silence = 0
    BY <1>1, <2>8
  <2>11. Silent(r) = [r EXCEPT !.silence = 1]
    BY <1>1, <2>6, <2>10 DEF Silent
  <2>12. rx' = [rx EXCEPT !.accum = whole, !.accum_len = len, !.silence = 1]
    BY <1>1, <2>8, <2>9, <2>11
  <2>13. /\ rx'.rx_armed /\ rx'.accum = whole /\ rx'.accum_len = len /\ rx'.silence = 1
         /\ ~rx'.frame_ready
    BY <1>1, <1>2, <2>4, <2>12
  <2>14. /\ ep'.out /\ ep'.in = ep.in /\ cdc'.packet_receive = 0
    BY <1>6 DEF TakePacket, Armed, Received, IInv, Types, EpType, CdcType
  <2>15. host'.gap = 0
    BY <1>3, <2>4 DEF InPause
  <2>16. Between(n, k)'
    BY <1>1, <1>3, <1>4, <2>2, <2>13, <2>14, <2>15
       DEF Between, Collecting, InFlight, whole, len
  <2>17. QED
    BY <1>4, <2>13, <2>16 DEF Settled, OnItsWay
<1>7. QED
  BY <1>3, <1>5, <1>6

LEMMA DataOutEndLink ==
  ASSUME IInv, NEW n \in Serials, Settled(n), DataOutEnd
  PROVE  Settled(n)'
<1>1. PICK k \in 0 .. Len(Requests[n]) : InFlight(n, k)
  BY DEF Settled, OnItsWay, Between, Complete, DataOutEnd
<1>2. /\ UNCHANGED <<dev, ep, rx, task, host>> /\ cdc'.receive_length = ep.xfer_count
      /\ cdc'.packet_receive = cdc.packet_receive
  BY DEF DataOutEnd, IInv, Types, CdcType
<1>3. InFlight(n, k)'
  BY <1>1, <1>2 DEF InFlight, Collecting
<1>4. QED
  BY <1>2, <1>3 DEF Settled, OnItsWay, Configured

\* The host sends the next packet of the request.
LEMMA HostSendLink ==
  ASSUME IInv, Shape, NEW n \in Serials, Settled(n), HostSend
  PROVE  Settled(n)'
<1>1. PICK k \in 0 .. Len(Requests[n]) : Between(n, k)
  BY DEF Settled, OnItsWay, InFlight, Complete, HostSend
<1>2. k \in 0 .. Len(Requests[n]) - 1 /\ k \in Nat /\ Len(Requests[n]) \in Nat
  <2>1. host.todo # << >> /\ host.todo = Rest(n, k)
    BY <1>1 DEF HostSend, Between, Collecting
  <2>2. k # Len(Requests[n])
    BY <2>1, RestOf
  <2>3. QED
    BY <2>2, Parameters
<1>3. /\ k + 1 \in 0 .. Len(Requests[n]) /\ k + 1 > 0 /\ (k + 1) - 1 = k
  BY <1>2
<1>4. Head(host.todo) = <<n, k + 1>> /\ Tail(host.todo) = Rest(n, k + 1)
  BY <1>1, <1>2, RestOf DEF Between, Collecting
<1>5. Length(Head(host.todo)) = Requests[n][k + 1] /\ Requests[n][k + 1] \in Nat
  <2>1. k + 1 \in 1 .. Len(Requests[n])
    BY <1>2
  <2>2. QED
    BY <1>4, <2>1, OffsetsOf DEF Length
<1>6. ep.xfer_count = 0
  BY DEF HostSend, Shape, EpShape
<1>7. /\ UNCHANGED <<dev, rx, task>> /\ host'.todo = Tail(host.todo) /\ isr' = "data_out"
      /\ ep'.in = ep.in /\ ep'.out = FALSE /\ ep'.buf = Head(host.todo)
      /\ ep'.xfer_count = ep.xfer_count + Length(Head(host.todo))
      /\ cdc'.packet_receive = 1
  BY DEF HostSend, IInv, Types, CdcType, EpType, HostType
<1>8. ep'.xfer_count = Requests[n][k + 1]
  BY <1>5, <1>6, <1>7
<1>9. InFlight(n, k + 1)'
  BY <1>1, <1>3, <1>4, <1>7, <1>8 DEF InFlight, Between, Collecting
<1>10. QED
  BY <1>3, <1>7, <1>9 DEF Settled, OnItsWay, Configured

\* The task takes the frame, finds that it is the request, and answers it.
LEMMA TaskLink ==
  ASSUME IInv, NEW n \in Serials, Settled(n), Task
  PROVE  Settled(n)'
<1>1. /\ UNCHANGED <<dev, isr, host>> /\ isr = "idle" /\ rx'.rx_armed = rx.rx_armed
      /\ cdc'.packet_receive = cdc.packet_receive
  BY DEF Task, Poll, usb_cdc_receive, modbus_process, DataSend, DataSendClear, DataSendDone,
     TaskRuns, IInv, Types, RxType, CdcType
<1>2. ASSUME NEW k \in 0 .. Len(Requests[n]), Between(n, k) \/ InFlight(n, k)
      PROVE  FALSE
  BY <1>2 DEF Between, InFlight, Collecting, Task, Poll, usb_cdc_receive, modbus_process,
     DataSend, DataSendClear, DataSendDone, TaskRuns
<1>3. Complete(n)
  BY <1>2 DEF Settled, OnItsWay
<1>4. Ready(n)' \/ Running(n)' \/ Answered(n)'
  <2>1. CASE Poll
    BY <1>3, <2>1 DEF Poll, TaskRuns, Complete, Ready, Running, Answered, IInv, Types, TaskType
  <2>2. CASE usb_cdc_receive
    <3>1. Ready(n)
      BY <1>3, <2>2 DEF usb_cdc_receive, TaskRuns, Complete, Running, Answered
    <3>2. Running(n)'
      BY <2>2, <3>1 DEF usb_cdc_receive, Ready, Running
    <3>3. QED
      BY <3>2
  <2>3. CASE modbus_process
    <3>1. Running(n)
      BY <1>3, <2>3 DEF modbus_process, TaskRuns, Complete, Ready, Answered
    <3>2. task' = [task EXCEPT !.pc = "send"] /\ ep' = ep
      BY <2>3, <3>1 DEF modbus_process, Running
    <3>3. Running(n)'
      BY <3>1, <3>2 DEF Running, IInv, Types, TaskType
    <3>4. QED
      BY <3>3
  <2>4. CASE DataSend
    <3>1. Running(n)
      BY <1>3, <2>4 DEF DataSend, TaskRuns, Complete, Ready, Answered
    <3>2. task.frame[1].packet[1] = n
      BY <3>1, WholeRequest DEF Running
    <3>3. /\ cdc' = [cdc EXCEPT !.packet_sent = 0] /\ ep' = [ep EXCEPT !.in = n]
          /\ task' = [pc |-> "clear", frame |-> << >>, rx_len |-> 0]
      BY <2>4, <3>2 DEF DataSend, Settled
    <3>4. Answered(n)'
      BY <3>3 DEF Answered, IInv, Types, CdcType, EpType
    <3>5. QED
      BY <3>4
  <2>5. CASE DataSendClear
    <3>1. Answered(n)
      BY <1>3, <2>5 DEF DataSendClear, TaskRuns, Complete, Ready, Running
    <3>2. Answered(n)'
      BY <2>5, <3>1 DEF DataSendClear, Answered, IInv, Types, CdcType, TaskType
    <3>3. QED
      BY <3>2
  <2>6. CASE DataSendDone
    BY <1>3, <2>6 DEF DataSendDone, TaskRuns, Complete, Ready, Running, Answered
  <2>7. QED
    BY <2>1, <2>2, <2>3, <2>4, <2>5, <2>6 DEF Task
<1>5. Complete(n)'
  BY <1>1, <1>3, <1>4 DEF Complete
<1>6. QED
  BY <1>1, <1>5 DEF Settled, OnItsWay, Configured

\* An answer that is read is that of the request.
LEMMA HostReadLink ==
  ASSUME IInv, NEW n \in Serials, Settled(n), host.waiting = n, HostRead
  PROVE  host'.waiting = 0
<1>1. ep.in = n
  BY DEF HostRead, Settled, OnItsWay, Between, InFlight, Collecting, Complete, Ready, Running,
     Answered
<1>2. QED
  BY <1>1 DEF HostRead, IInv, Types, HostType

LEMMA LinkStep ==
  ASSUME IInv, Shape, Link, [Next]_vars
  PROVE  Link'
<1>1. Manners'
  BY MannersStep DEF Link
<1>2. ASSUME host'.fair, host'.waiting # 0
      PROVE  Settled(host.waiting)'
  <2>1. CASE Begin
    BY <1>2, <2>1, BeginLink DEF Link
  <2>2. CASE ~Begin
    <3>1. host.fair /\ host.waiting # 0 /\ host'.waiting = host.waiting
      BY <1>2, <2>2, MannersStep DEF Link
    <3>2. PICK n \in Serials : n = host.waiting
      BY <3>1 DEF Link, Settled
    <3>3. Settled(n)
      BY <3>1, <3>2 DEF Link
    <3>4. Settled(n)'
      <4>1. CASE UNCHANGED vars
        BY <3>3, <4>1 DEF vars, Settled, Configured, OnItsWay, Between, InFlight, Collecting,
           Complete, Ready, Running, Answered
      <4>2. CASE Next
        BY <1>2, <3>1, <3>2, <3>3, <4>2, Undisturbed, TickLink, DataOutEndLink, HostSendLink,
           TaskLink, HostReadLink DEF Link
      <4>3. QED
        BY <4>1, <4>2
    <3>5. QED
      BY <3>1, <3>2, <3>4
  <2>3. QED
    BY <2>1, <2>2
<1>3. QED
  BY <1>1, <1>2 DEF Link

-----------------------------------------------------------------------------
Invariant == IInv /\ Shape

LEMMA Invariance == Spec => []Invariant
<1>1. Init => Invariant
  <2> SUFFICES ASSUME Init PROVE Shape
    BY InitIInv DEF Invariant
  <2>1. QED
    BY Parameters DEF Init, Shape, RxShape, TaskShape, EpShape, LengthShape, NoCdc, NoEp, NoRx,
       Polling
<1>2. Invariant /\ [Next]_vars => Invariant'
  BY StepIInv, ShapeStep DEF Invariant
<1>3. QED
  BY <1>1, <1>2, PTL DEF Spec

LEMMA LinkInvariance == Spec => []Link
<1>1. Init => Link
  <2> SUFFICES ASSUME Init PROVE Link
    OBVIOUS
  <2>1. ~host.fair /\ host.waiting = 0 /\ calm = (world = {})
    BY DEF Init
  <2>2. QED
    BY <2>1 DEF Link, Manners
<1>2. Invariant /\ Link /\ [Next]_vars => Link'
  BY LinkStep DEF Invariant
<1>3. QED
  BY <1>1, <1>2, Invariance, PTL DEF Spec

\* No packet, however long and whenever it comes, takes the accumulator or the
\* frame of the task beyond its buffer, and receive_length and the silence timer
\* stay in their ranges: for any requests, host and disturbances.
THEOREM TypesKept == Spec => []TypeOK
<1>1. Invariant => TypeOK
  <2> SUFFICES ASSUME Invariant PROVE TypeOK
    OBVIOUS
  <2> USE DEF Invariant, IInv, Types, Shape
  <2>1. /\ dev.status \in {"DEFAULT", "CONFIGURED", "SUSPENDED"}
        /\ dev.backup \in {"DEFAULT", "CONFIGURED"}
    BY DEF DevType
  <2>2. /\ cdc.packet_receive \in {0, 1} /\ cdc.packet_sent \in {0, 1}
        /\ cdc.receive_length \in 0 .. USB_CDC_BUF_SIZE
    BY Parameters DEF CdcType, LengthShape
  <2>3. ep.in \in Serials \cup {0} /\ ep.out \in BOOLEAN
    BY DEF EpType, EpShape
  <2>4. /\ rx.silence \in 0 .. USB_CDC_SILENCE_MS - 1
        /\ rx.accum_len \in 0 .. USB_CDC_BUF_SIZE
        /\ \A i \in DOMAIN rx.accum : IsPiece(rx.accum[i])
    BY Parameters DEF RxType, RxShape
  <2>5. /\ task.rx_len \in 0 .. USB_CDC_BUF_SIZE
        /\ \A i \in DOMAIN task.frame : IsPiece(task.frame[i])
        /\ task.pc \in {"poll", "take", "process", "send", "clear", "wait"}
    BY Parameters DEF TaskType, TaskShape
  <2>6. isr \in {"idle", "data_out"}
    BY DEF OtherTypes
  <2>7. QED
    BY <2>1, <2>2, <2>3, <2>4, <2>5, <2>6 DEF TypeOK
<1>2. QED
  BY <1>1, Invariance, PTL

\* A request that a polite host sends over a settled link is never lost, for any
\* requests that fit the buffer: the tick takes each packet before the host sends
\* the next, its silence timer does not cut the request in two, and the link falls
\* quiet only after the answer.
THEOREM NoRequestIsLost == Spec => []NothingLost
<1>1. Link => NothingLost
  <2> SUFFICES ASSUME Link, host.fair \/ world = {}, Lost PROVE FALSE
    BY DEF NothingLost
  <2>1. host.fair /\ host.waiting # 0
    BY DEF Link, Manners, Lost
  <2>2. Settled(host.waiting) /\ host.waiting \in Serials
    BY <2>1 DEF Link, Settled
  <2>3. QED
    BY <2>2, NotQuiet DEF Lost, Settled
<1>2. QED
  BY <1>1, LinkInvariance, PTL

\* For any requests and any size of the buffer.  Where the bus does not sleep,
\* what enters a frame was sent since the last enumeration, after the cable was
\* pulled, after a reset, and even if the port is opened at a bad moment.  Where
\* moreover the port is not opened in the middle of a request, no request is
\* executed twice.  The request of SET_LINE_CODING makes the device take
\* ep_rx_buf again, and the length that cdc_acm_data_send and cdc_acm_init have
\* set to 0 is all that keeps an old packet out; in the behaviours left out it
\* does not, and a request may be executed again.
THEOREM OnlyGenuineRequests == Spec => []RequestsAreGenuine
<1>1. IInv => RequestsAreGenuine
  <2> SUFFICES ASSUME IInv PROVE RequestsAreGenuine
    OBVIOUS
  <2>1. ExecutedOnce
    BY DEF IInv, Spent, Plain, ExecutedOnce
  <2>2. FreshAfterEnumeration
    <3>1. DOMAIN rx.accum = 1 .. Len(rx.accum)
      BY DEF IInv, Types, RxType
    <3>2. QED
      BY <3>1 DEF IInv, Fresh, Young, FreshAfterEnumeration
  <2>3. QED
    BY <2>1, <2>2 DEF RequestsAreGenuine
<1>2. QED
  BY <1>1, InitIInv, StepIInv, PTL DEF Spec
=============================================================================
