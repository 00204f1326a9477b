------------------------------- MODULE UsbCdc -------------------------------
(***************************************************************************)
(* The Modbus frame port over USB CDC: usb_cdc.c, the data path of the     *)
(* CDC-ACM class below it, task_modbus above it, and the host.             *)
(*                                                                         *)
(* Four actors share the CDC handler.  The 1 ms tick (TIMER3, priority 0)  *)
(* is atomic and interrupts everything.  The USB interrupt (priority 6)    *)
(* interrupts the task; its data_out callback is two writes, between which *)
(* the tick may run.  The task is the lowest.  The host sends packets when *)
(* the endpoint is armed, and misbehaves as `world` says, until `calm`.    *)
(*                                                                         *)
(* Data: packet <<n, k>> is the k-th packet of request n, and the host     *)
(* sends each request once.  modbus_process answers a frame that is one    *)
(* whole request and drops any other (its CRC check).                      *)
(*                                                                         *)
(* The fields of the CDC handler are not volatile.  The steps below are    *)
(* the order of the source, which the Debug build (-O0) keeps.             *)
(***************************************************************************)
EXTENDS Naturals, Sequences

CONSTANTS
  USB_CDC_BUF_SIZE,     \* 256 bytes in the code; here in units
  USB_CDC_SILENCE_MS,   \* 3 in the code
  Requests,             \* bound: request n has packets of lengths Requests[n]
  HostGap,              \* ticks a host pauses at most between two packets
  Worlds                \* bound: the sets of disturbances to look at

(* nested: the tick may run inside data_out; hasty: the host reacts to an  *)
(* answer before the task has left cdc_acm_data_send; rude: it does not    *)
(* wait for answers; slow: it pauses within a request; deaf: it does not   *)
(* read; coding: the port is opened again at any time; sleep, unplug.      *)
Disturbances ==
  {"nested", "hasty", "rude", "slow", "deaf", "coding", "sleep", "unplug"}

ASSUME UsbCdcAssumption ==
  /\ USB_CDC_BUF_SIZE \in Nat \ {0} /\ USB_CDC_SILENCE_MS \in Nat \ {0}
  /\ HostGap \in Nat
  /\ Requests \in Seq(Seq(1 .. USB_CDC_BUF_SIZE))
  /\ \A n \in DOMAIN Requests : Requests[n] # << >>
  /\ Worlds \subseteq SUBSET Disturbances

(* A request fits the buffer, as a frame of 256 bytes does: its packets    *)
(* have their offsets there.  A host pauses too short for the silence that *)
(* ends a frame, of which the tick that takes a packet counts the first.   *)
Offsets(n) ==
  {at \in [0 .. Len(Requests[n]) -> 0 .. USB_CDC_BUF_SIZE] :
     /\ at[0] = 0
     /\ \A k \in 1 .. Len(Requests[n]) : at[k] = at[k - 1] + Requests[n][k]}

ASSUME PoliteHostAssumption ==
  /\ \A n \in DOMAIN Requests : Offsets(n) # {}
  /\ HostGap + 1 < USB_CDC_SILENCE_MS

VARIABLES
  dev,       \* usb_device: cur_status, backup_status
  cdc,       \* the CDC handler: packet_receive, packet_sent, receive_length
  ep,        \* the endpoints: OUT armed, ep_rx_buf, xfer_count, IN
  rx,        \* the accumulator: rx_armed, accum, accum_len, frame_ready, silence
  isr,       \* where the USB interrupt is in data_out
  task,      \* where task_modbus is, and its frame
  host,      \* the host
  executed,  \* history: how often each request was executed
  world, calm

vars == <<dev, cdc, ep, rx, isr, task, host, executed, world, calm>>

Serials    == DOMAIN Requests
Present(d) == d \in world /\ ~calm
Packets(n) == [k \in DOMAIN Requests[n] |-> <<n, k>>]
Length(p)  == Requests[p[1]][p[2]]
NoPacket   == <<0, 0>>

(* What a packet leaves in the accumulator: its bytes, or as many bytes of *)
(* ep_rx_buf as receive_length says.                                       *)
Piece(p, len)   == [packet |-> p, len |-> len]
Whole(n)        == [k \in DOMAIN Requests[n] |-> Piece(<<n, k>>, Requests[n][k])]

NoCdc  == [packet_receive |-> 0, packet_sent |-> 1, receive_length |-> 0]
NoEp   == [out |-> FALSE, buf |-> NoPacket, xfer_count |-> 0, in |-> 0]
NoRx   == [rx_armed |-> FALSE, accum |-> << >>, accum_len |-> 0, frame_ready |-> FALSE,
           silence |-> 0]
Polling == [pc |-> "poll", frame |-> << >>, rx_len |-> 0]

Init ==
  /\ dev = [status |-> "DEFAULT", backup |-> "DEFAULT"]
  /\ cdc = NoCdc /\ ep = NoEp /\ rx = NoRx
  /\ isr = "idle" /\ task = Polling
  /\ host = [next |-> 1, todo |-> << >>, waiting |-> 0, answered |-> {},
             fair |-> FALSE, gap |-> 0, opened |-> FALSE, since |-> 1]
  /\ executed = [n \in Serials |-> 0]
  /\ world \in Worlds /\ calm = (world = {})

Configured == dev.status = "CONFIGURED"

(* Nothing is left to do: what a host sees that waits out its timeout.     *)
Quiet ==
  /\ Configured /\ isr = "idle" /\ task.pc = "poll"
  /\ rx.rx_armed /\ rx.accum_len = 0 /\ ~rx.frame_ready
  /\ cdc.packet_receive = 0 /\ ep.out /\ ep.in = 0

-----------------------------------------------------------------------------
(* The tick.                                                               *)

(* cdc_acm_data_receive: arms the endpoint for the next packet.            *)
Armed      == [ep EXCEPT !.out = TRUE, !.xfer_count = 0]
Received   == [cdc EXCEPT !.packet_receive = 0]

(* The accumulator with the packet in ep_rx_buf; what does not fit is      *)
(* dropped.                                                                *)
(* With a fault a run must notice: the length is not looked at.            *)
FitsOnePacketMore(len) == rx.accum_len <= USB_CDC_BUF_SIZE
Fits(len) == rx.accum_len + len <= USB_CDC_BUF_SIZE
Appended ==
  LET n == cdc.receive_length
  IN  IF n > 0 /\ Fits(n)
        THEN [rx EXCEPT !.accum = Append(@, Piece(ep.buf, n)), !.accum_len = @ + n]
        ELSE rx

(* One more millisecond of silence.                                        *)
Silent(r) ==
  CASE r.accum_len = 0 -> r
    [] r.accum_len > 0 /\ r.silence + 1 >= USB_CDC_SILENCE_MS ->
         [r EXCEPT !.silence = 0, !.frame_ready = TRUE]
    [] r.accum_len > 0 /\ r.silence + 1 < USB_CDC_SILENCE_MS ->
         [r EXCEPT !.silence = @ + 1]

Arm ==
  /\ ~rx.rx_armed
  /\ IF Configured
       THEN ep' = Armed /\ cdc' = Received /\ rx' = [rx EXCEPT !.rx_armed = TRUE]
       ELSE UNCHANGED <<ep, cdc, rx>>

Disarm ==
  /\ rx.rx_armed /\ ~Configured
  /\ rx' = NoRx
  /\ UNCHANGED <<ep, cdc>>

(* With a fault: the silence timer goes on, or the endpoint is not armed   *)
(* while the buffer is full.                                               *)
TakeWithoutReset ==
  /\ rx.rx_armed /\ Configured /\ cdc.packet_receive = 1
  /\ ep' = Armed /\ cdc' = Received
  /\ rx' = Silent(Appended)

TakeWhenItFits ==
  /\ rx.rx_armed /\ Configured /\ cdc.packet_receive = 1
  /\ IF Fits(cdc.receive_length)
       THEN ep' = Armed /\ cdc' = Received /\ rx' = Silent([Appended EXCEPT !.silence = 0])
       ELSE rx' = [rx EXCEPT !.silence = 0] /\ UNCHANGED <<ep, cdc>>

TakePacket ==
  /\ rx.rx_armed /\ Configured /\ cdc.packet_receive = 1
  /\ ep' = Armed /\ cdc' = Received
  /\ rx' = Silent([Appended EXCEPT !.silence = 0])

TakeNothing ==
  /\ rx.rx_armed /\ Configured /\ cdc.packet_receive = 0
  /\ rx' = Silent(rx)
  /\ UNCHANGED <<ep, cdc>>

(* A host that is not slow sends its next packet within HostGap ticks.     *)
InPause == ep.out /\ host.todo # << >> /\ host.todo[1][2] > 1 /\ ~Present("slow")

usb_cdc_tick ==
  /\ isr = "idle" \/ Present("nested")
  /\ InPause => host.gap < HostGap
  /\ Arm \/ Disarm \/ TakePacket \/ TakeNothing
  /\ host' = [host EXCEPT !.gap = IF InPause THEN @ + 1 ELSE 0]
  /\ UNCHANGED <<dev, isr, task, executed, world, calm>>

-----------------------------------------------------------------------------
(* The USB interrupt.  It starts when the host has sent a packet.          *)

(* usbd_isr copies the packet and counts it, cdc_acm_data_out sets its     *)
(* flag.                                                                   *)
HostSend ==
  /\ host.todo # << >> /\ Configured /\ ep.out /\ isr = "idle"
  /\ host' = [host EXCEPT !.todo = Tail(@), !.gap = 0]
  /\ ep' = [ep EXCEPT !.out = FALSE, !.buf = Head(host.todo),
                      !.xfer_count = @ + Length(Head(host.todo))]
  /\ cdc' = [cdc EXCEPT !.packet_receive = 1]
  /\ isr' = "data_out"
  /\ UNCHANGED <<dev, rx, task, executed, world, calm>>

(* ... and then the length.                                                *)
DataOutEnd ==
  /\ isr = "data_out"
  /\ cdc' = [cdc EXCEPT !.receive_length = ep.xfer_count]
  /\ isr' = "idle"
  /\ UNCHANGED <<dev, ep, rx, task, host, executed, world, calm>>

(* The host reads the answer; cdc_acm_data_in lets the task go on.         *)
HostRead ==
  /\ ep.in # 0 /\ Configured /\ isr = "idle" /\ ~Present("deaf")
  /\ task.pc = "wait" \/ Present("hasty")
  /\ cdc' = [cdc EXCEPT !.packet_sent = 1]
  /\ ep' = [ep EXCEPT !.in = 0]
  /\ host' = [host EXCEPT !.answered = @ \cup {ep.in},
                          !.waiting = IF @ = ep.in THEN 0 ELSE @]
  /\ UNCHANGED <<dev, rx, isr, task, executed, world, calm>>

(* SET_LINE_CODING, with which a host opens the port: cdc_acm_ctlx_out     *)
(* raises the flag of the data path.                                       *)
SetLineCoding ==
  /\ Configured /\ isr = "idle"
  /\ \/ Quiet /\ host.todo = << >> /\ host.waiting = 0 /\ ~host.opened
     \/ Present("coding")
  /\ cdc' = [cdc EXCEPT !.packet_receive = 1]
  /\ host' = [host EXCEPT !.opened = TRUE]
  /\ UNCHANGED <<dev, ep, rx, isr, task, executed, world, calm>>

(* The bus.  Sleep and re-enumeration take far longer than a tick (3 ms    *)
(* of idle bus, 10 ms of reset, 10 ms of recovery): the tick sees them.    *)
Forget == [host EXCEPT !.todo = << >>, !.waiting = 0, !.gap = 0]

Suspend ==
  /\ Present("sleep") \/ Present("unplug")
  /\ Configured /\ isr = "idle"
  /\ dev' = [status |-> "SUSPENDED", backup |-> dev.status]
  /\ host' = Forget
  /\ UNCHANGED <<cdc, ep, rx, isr, task, executed, world, calm>>

Resume ==
  /\ dev.status = "SUSPENDED" /\ "sleep" \in world /\ ~rx.rx_armed
  /\ dev' = [dev EXCEPT !.status = dev.backup]
  /\ UNCHANGED <<cdc, ep, rx, isr, task, host, executed, world, calm>>

BusReset ==
  /\ \/ dev.status = "SUSPENDED" /\ "unplug" \in world
     \/ Configured /\ Present("unplug")
  /\ isr = "idle"
  /\ dev' = [dev EXCEPT !.status = "DEFAULT"]
  /\ ep' = [ep EXCEPT !.out = FALSE, !.in = 0]
  /\ host' = Forget
  /\ UNCHANGED <<cdc, rx, isr, task, executed, world, calm>>

(* SET_CONFIGURATION: cdc_acm_init.                                        *)
(* With a fault: receive_length survives a new configuration.              *)
ConfigureKeepsLength ==
  /\ dev.status = "DEFAULT" /\ ~rx.rx_armed
  /\ cdc' = [cdc EXCEPT !.packet_receive = 0, !.packet_sent = 1]
  /\ ep' = [ep EXCEPT !.out = FALSE, !.in = 0]
  /\ dev' = [dev EXCEPT !.status = "CONFIGURED"]
  /\ host' = [host EXCEPT !.since = host.next]
  /\ UNCHANGED <<rx, isr, task, executed, world, calm>>

Configure ==
  /\ dev.status = "DEFAULT" /\ ~rx.rx_armed
  /\ cdc' = [packet_receive |-> 0, packet_sent |-> 1, receive_length |-> 0]
  /\ ep' = [ep EXCEPT !.out = FALSE, !.in = 0]
  /\ dev' = [dev EXCEPT !.status = "CONFIGURED"]
  /\ host' = [host EXCEPT !.since = host.next]
  /\ UNCHANGED <<rx, isr, task, executed, world, calm>>

-----------------------------------------------------------------------------
(* task_modbus.  It runs when no interrupt does.                           *)
TaskRuns(from) == task.pc = from /\ isr = "idle"

Poll ==
  /\ TaskRuns("poll") /\ rx.frame_ready
  /\ task' = [task EXCEPT !.pc = "take"]
  /\ UNCHANGED <<dev, cdc, ep, rx, isr, host, executed, world, calm>>

(* With interrupts disabled.                                               *)
usb_cdc_receive ==
  /\ TaskRuns("take")
  /\ task' = [pc |-> "process", frame |-> rx.accum, rx_len |-> rx.accum_len]
  /\ rx' = [rx EXCEPT !.accum = << >>, !.accum_len = 0, !.frame_ready = FALSE, !.silence = 0]
  /\ UNCHANGED <<dev, cdc, ep, isr, host, executed, world, calm>>

modbus_process ==
  /\ TaskRuns("process")
  /\ \/ \E n \in Serials :
          /\ task.frame = Whole(n)
          /\ executed' = [executed EXCEPT ![n] = @ + 1]
          /\ task' = [task EXCEPT !.pc = "send"]
     \/ /\ \A n \in Serials : task.frame # Whole(n)
        /\ task' = Polling /\ UNCHANGED executed
  /\ UNCHANGED <<dev, cdc, ep, rx, isr, host, world, calm>>

(* cdc_acm_data_send: start, forget the length, wait.                      *)
DataSend ==
  /\ TaskRuns("send")
  /\ IF Configured
       THEN /\ cdc' = [cdc EXCEPT !.packet_sent = 0]
            /\ ep' = [ep EXCEPT !.in = task.frame[1].packet[1]]
            /\ task' = [pc |-> "clear", frame |-> << >>, rx_len |-> 0]
       ELSE task' = Polling /\ UNCHANGED <<cdc, ep>>
  /\ UNCHANGED <<dev, rx, isr, host, executed, world, calm>>

(* With a fault: the length of the request is not forgotten.               *)
DataSendKeepsLength ==
  /\ TaskRuns("clear")
  /\ task' = [task EXCEPT !.pc = "wait"]
  /\ UNCHANGED <<dev, cdc, ep, rx, isr, host, executed, world, calm>>

DataSendClear ==
  /\ TaskRuns("clear")
  /\ cdc' = [cdc EXCEPT !.receive_length = 0]
  /\ task' = [task EXCEPT !.pc = "wait"]
  /\ UNCHANGED <<dev, ep, rx, isr, host, executed, world, calm>>

DataSendDone ==
  /\ TaskRuns("wait") /\ cdc.packet_sent = 1
  /\ task' = Polling
  /\ UNCHANGED <<dev, cdc, ep, rx, isr, host, executed, world, calm>>

(* While the task spins no task of lower priority runs, so nobody feeds    *)
(* the watchdog: after 2 s it resets the controller.                       *)
(* With a fault: an interrupt feeds the watchdog as well.                  *)
WatchdogFedElsewhere == FALSE /\ UNCHANGED vars

Watchdog ==
  /\ task.pc = "wait" /\ cdc.packet_sent = 0 /\ isr = "idle"
  /\ ~Configured \/ Present("deaf")
  /\ dev' = [status |-> "DEFAULT", backup |-> "DEFAULT"]
  /\ cdc' = NoCdc /\ ep' = NoEp /\ rx' = NoRx /\ task' = Polling
  /\ host' = Forget
  /\ UNCHANGED <<isr, executed, world, calm>>

-----------------------------------------------------------------------------
(* The host's requests.  A polite host starts one on a quiet link and      *)
(* gives it up when it has become quiet again without an answer.           *)
Begin ==
  /\ host.next \in Serials /\ host.todo = << >> /\ Configured
  /\ \/ host.waiting = 0 /\ (Quiet \/ Present("hasty"))
     \/ Present("rude")
  /\ host' = [host EXCEPT !.next = @ + 1, !.todo = Packets(host.next),
                          !.waiting = host.next, !.fair = calm, !.gap = 0,
                          !.opened = FALSE]
  /\ UNCHANGED <<dev, cdc, ep, rx, isr, task, executed, world, calm>>

GiveUp ==
  /\ host.waiting # 0
  /\ \/ host.todo = << >> /\ Quiet
     \/ Present("rude")
  /\ host' = Forget
  /\ UNCHANGED <<dev, cdc, ep, rx, isr, task, executed, world, calm>>

Settle ==
  /\ ~calm /\ calm' = TRUE
  /\ UNCHANGED <<dev, cdc, ep, rx, isr, task, host, executed, world>>

Task ==
  \/ Poll \/ usb_cdc_receive \/ modbus_process
  \/ DataSend \/ DataSendClear \/ DataSendDone

Next ==
  \/ usb_cdc_tick \/ DataOutEnd \/ Task \/ Watchdog
  \/ HostSend \/ HostRead \/ SetLineCoding \/ Begin \/ GiveUp
  \/ Suspend \/ Resume \/ BusReset \/ Configure \/ Settle

(* The timer and the interrupts happen; the task has the highest priority  *)
(* of all tasks; the watchdog is hardware.  Of the host, only that it goes *)
(* on with what it began and brings the bus back.                          *)
Fairness ==
  /\ WF_vars(usb_cdc_tick) /\ WF_vars(DataOutEnd) /\ WF_vars(Task)
  /\ WF_vars(Watchdog)
  /\ WF_vars(HostSend) /\ SF_vars(HostRead) /\ WF_vars(Begin) /\ WF_vars(GiveUp)
  /\ WF_vars(Resume) /\ WF_vars(BusReset) /\ WF_vars(Configure)

Spec == Init /\ [][Next]_vars /\ Fairness

-----------------------------------------------------------------------------
IsPiece(p) ==
  /\ p.packet[1] \in Serials /\ p.packet[2] \in DOMAIN Requests[p.packet[1]]
  /\ p.len \in 1 .. USB_CDC_BUF_SIZE

(* TypeOK.  The accumulator and the frame handed to modbus_process never   *)
(* exceed their buffers, whatever the host sends and however late the task *)
(* comes: packets are dropped whole when they do not fit.                  *)
TypeOK ==
  /\ dev.status \in {"DEFAULT", "CONFIGURED", "SUSPENDED"}
  /\ dev.backup \in {"DEFAULT", "CONFIGURED"}
  /\ cdc.packet_receive \in {0, 1} /\ cdc.packet_sent \in {0, 1}
  /\ cdc.receive_length \in 0 .. USB_CDC_BUF_SIZE
  /\ ep.in \in Serials \cup {0} /\ ep.out \in BOOLEAN
  /\ rx.silence \in 0 .. USB_CDC_SILENCE_MS - 1
  /\ rx.accum_len \in 0 .. USB_CDC_BUF_SIZE /\ task.rx_len \in 0 .. USB_CDC_BUF_SIZE
  /\ \A i \in DOMAIN rx.accum : IsPiece(rx.accum[i])
  /\ \A i \in DOMAIN task.frame : IsPiece(task.frame[i])
  /\ isr \in {"idle", "data_out"}
  /\ task.pc \in {"poll", "take", "process", "send", "clear", "wait"}

(* ExecutedOnce.  No request is executed twice, although a host that opens *)
(* the port makes the device take ep_rx_buf once more (usb_cdc.c:84): by   *)
(* then cdc_acm_data_send has set its length to 0.  Not so when the port   *)
(* is opened during a request, or the bus sleeps before the answer.        *)
ExecutedOnce ==
  world \cap {"coding", "sleep"} = {} => \A n \in Serials : executed[n] <= 1

(* NothingLost.  A request that a polite host sends over a settled link    *)
(* is answered: the link never falls quiet with it still unanswered.  The  *)
(* silence timer must not cut a request in two, nor the tick lose a packet *)
(* (usb_cdc.c:84-107).                                                     *)
Lost == host.waiting # 0 /\ host.todo = << >> /\ Quiet
NothingLost == (host.fair \/ world = {}) => ~Lost

(* FreshAfterEnumeration.  After the cable was pulled, or the watchdog     *)
(* reset the controller, nothing the host sent before the new enumeration  *)
(* enters a frame, even if the port is opened at a bad moment.             *)
FreshAfterEnumeration ==
  "sleep" \notin world /\ Configured /\ rx.rx_armed =>
    \A i \in DOMAIN rx.accum : rx.accum[i].packet[1] >= host.since

(* RequestsAreGenuine.  What modbus_process executes was sent by this      *)
(* connection, and is not executed again.                                  *)
RequestsAreGenuine == ExecutedOnce /\ FreshAfterEnumeration

(* LinkRecovers.  Whatever went wrong before, once the host, the bus and   *)
(* the port behave, the host's remaining requests are answered: no stale   *)
(* flag, full buffer or half frame blocks the link for ever.               *)
LinkRecovers ==
  \A n \in Serials : calm /\ host.next = n ~> n \in host.answered

(* TaskReturns.  The busy-wait of cdc_acm_data_send ends: by the host      *)
(* reading the answer, by a new enumeration, or by the watchdog.           *)
TaskReturns == (task.pc = "wait") ~> (task.pc = "poll")

(* TickIsSafe.  With a polite host, the tick may interrupt the USB         *)
(* interrupt anywhere and no request is lost: what usb_cdc.c:58-60 says.   *)
TickIsSafe == world \subseteq {"nested"} => ~Lost

=============================================================================
