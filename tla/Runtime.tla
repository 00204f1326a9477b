------------------------------ MODULE Runtime ------------------------------
(***************************************************************************)
(* The two production tasks in real time: task_ui samples the keys every   *)
(* BTN_SCAN_MS and then works, task_modbus is above it and may wait for a  *)
(* host that does not read, and both feed the watchdog.  The scheduler is  *)
(* that of module Scheduler: what is ready and highest runs.  One step of  *)
(* time, Tick, is a fraction of the scan period; what takes much less      *)
(* takes none.                                                             *)
(***************************************************************************)
EXTENDS Integers

CONSTANTS
  BTN_SCAN_MS,      \* the period of task_ui, in steps
  DebTicks,         \* BTN_DEBOUNCE_MS in scans
  LongTicks,        \* BTN_LONG_MS in scans
  Draw,             \* steps it takes to write the display
  Save,             \* steps it takes to save the settings
  WDT_TIMEOUT_MS,   \* the watchdog's time, in steps
  BootTime,         \* steps of menu_init before the loop
  Worlds,           \* sets of "stall", the host stops reading, "hang", the UI
                    \* hangs, and "keys", the key is pressed
  MaxDebt           \* bound: the debt that is explored

ASSUME RuntimeAssumption ==
  /\ {BTN_SCAN_MS, DebTicks, LongTicks, WDT_TIMEOUT_MS, Draw, Save} \subseteq Nat \ {0}
  /\ {BootTime, MaxDebt} \subseteq Nat
  /\ Worlds \subseteq SUBSET {"stall", "hang", "keys"}

VARIABLES
  ui,      \* where task_ui is: "init", "scan", "work", "until", "sleep", "hung"
  left,    \* steps of work it still has
  lag,     \* time since this round of its loop was due; -lag while it sleeps
  stall,   \* task_modbus waits for the host
  dog,     \* steps since the watchdog was fed
  key,     \* a key is down
  btn,     \* its debounce_cnt, hold_cnt and long_fired
  hist,    \* for the properties, see below
  world    \* what may happen in this behaviour

timing == <<ui, left, lag>>
vars   == <<timing, stall, dog, key, btn, hist, world>>

(* hist.age is for how long the key has been down, or the loop has run with *)
(* it down; hist.span, the time since the first of the samples btn counts,  *)
(* up to the long event; hist.first, how late the round of that sample was; *)
(* hist.debt, what stalls and works longer than a period have taken since   *)
(* task_ui last slept.                                                      *)
NoHistory == [age |-> 0, span |-> 0, first |-> 0, debt |-> 0]
NoPress   == [deb |-> 0, hold |-> 0, long |-> FALSE]

Capped(n, cap) == IF n > cap THEN cap ELSE n

Boot ==
  /\ ui' = "init" /\ left' = BootTime /\ lag' = 0
  /\ stall' = FALSE /\ dog' = 0 /\ btn' = NoPress /\ hist' = NoHistory

Init ==
  /\ ui = "init" /\ left = BootTime /\ lag = 0
  /\ stall = FALSE /\ dog = 0 /\ btn = NoPress /\ hist = NoHistory
  /\ world \in Worlds
  /\ key = FALSE

-----------------------------------------------------------------------------
(* task_ui has the processor whenever task_modbus does not wait.           *)
UiAt(pc) == ui = pc /\ ~stall

(* The loop starts with the time it starts at.                             *)
StartLoop ==
  /\ UiAt("init") /\ left = 0
  /\ ui' = "scan" /\ lag' = 0 /\ hist' = NoHistory
  /\ UNCHANGED <<left, stall, dog, key, btn>>

(* btn_scan, for one key.                                                  *)
DownUncapped ==
  LET deb == Capped(btn.deb + 1, DebTicks)
      hold == IF deb = DebTicks THEN btn.hold + 1 ELSE btn.hold
  IN  [deb |-> deb, hold |-> hold, long |-> btn.long \/ hold = LongTicks]

DownAtOnce ==
  [deb |-> DebTicks, hold |-> Capped(btn.hold + 1, LongTicks + 1),
   long |-> btn.long \/ btn.hold + 1 = LongTicks]

Down ==
  LET deb  == Capped(btn.deb + 1, DebTicks)
      hold == IF deb = DebTicks THEN Capped(btn.hold + 1, LongTicks + 1) ELSE btn.hold
  IN  [deb |-> deb, hold |-> hold, long |-> btn.long \/ hold = LongTicks]

Sampled == IF key THEN Down ELSE NoPress

(* menu_process saves the settings at the end of an editor and writes the  *)
(* display at every event and every DISP_TICKS: in any round nothing, or   *)
(* the display, or both.                                                   *)
WorkLengths == {0, Draw, Save + Draw}

(* What a work takes beyond the period the round has.                      *)
Excess(w) == IF w > BTN_SCAN_MS THEN w - BTN_SCAN_MS ELSE 0

Scan ==
  /\ UiAt("scan")
  /\ dog' = 0
  /\ btn' = Sampled
  /\ \E w \in WorkLengths :
       /\ w = 0 \/ hist.debt + Excess(w) <= MaxDebt
       /\ left' = w
       /\ ui' = IF w = 0 THEN "until" ELSE "work"
       /\ hist' = [age   |-> hist.age,
                   span  |-> IF key /\ btn.deb > 0 THEN hist.span ELSE 0,
                   first |-> IF ~key THEN 0 ELSE IF btn.deb = 0 THEN lag ELSE hist.first,
                   debt  |-> hist.debt + Excess(w)]
  /\ UNCHANGED <<lag, stall, key>>

(* vTaskDelayUntil: a round that is due already starts at once.            *)
DelaySkipping ==
  /\ UiAt("until")
  /\ lag' = (lag % BTN_SCAN_MS) - BTN_SCAN_MS /\ ui' = "sleep"
  /\ hist' = [hist EXCEPT !.debt = 0]
  /\ UNCHANGED <<left, stall, dog, key, btn>>

DelayAnyway ==
  /\ UiAt("until")
  /\ lag' = lag - BTN_SCAN_MS /\ ui' = "sleep"
  /\ hist' = [hist EXCEPT !.debt = 0]
  /\ UNCHANGED <<left, stall, dog, key, btn>>

DelayFromOldTime ==
  /\ UiAt("until")
  /\ lag' = IF lag < BTN_SCAN_MS THEN lag - BTN_SCAN_MS ELSE lag
  /\ ui' = IF lag' < 0 THEN "sleep" ELSE "scan"
  /\ hist' = IF lag' < 0 THEN [hist EXCEPT !.debt = 0] ELSE hist
  /\ UNCHANGED <<left, stall, dog, key, btn>>

DelayUntil ==
  /\ UiAt("until")
  /\ lag' = lag - BTN_SCAN_MS
  /\ ui' = IF lag' < 0 THEN "sleep" ELSE "scan"
  /\ hist' = IF lag' < 0 THEN [hist EXCEPT !.debt = 0] ELSE hist
  /\ UNCHANGED <<left, stall, dog, key, btn>>

Hang ==
  /\ "hang" \in world
  /\ UiAt("work")
  /\ ui' = "hung"
  /\ UNCHANGED <<left, lag, stall, dog, key, btn, hist>>

-----------------------------------------------------------------------------
(* usb_cdc_transmit waits for the host, without a limit.                   *)
Stall ==
  /\ "stall" \in world
  /\ ~stall /\ stall' = TRUE
  /\ hist.debt + WDT_TIMEOUT_MS <= MaxDebt
  /\ UNCHANGED <<timing, dog, key, btn, hist>>

HostReads ==
  /\ stall /\ stall' = FALSE
  /\ UNCHANGED <<timing, dog, key, btn, hist>>

(* A step of time: task_modbus, if it loops, feeds the watchdog, and       *)
(* task_ui, if it may run, works.                                          *)
Settled == stall \/ ui \in {"sleep", "hung"} \/ (ui \in {"init", "work"} /\ left > 0)

MaxAge == DebTicks * BTN_SCAN_MS + MaxDebt + BTN_SCAN_MS + 1

Counting == btn.deb > 0 /\ ~btn.long /\ ui # "hung"

Aged ==
  [age   |-> IF key THEN Capped(hist.age + 1, MaxAge) ELSE 0,
   span  |-> IF Counting THEN hist.span + 1 ELSE hist.span,
   first |-> hist.first,
   debt  |-> IF stall /\ ui \notin {"init", "hung"} THEN hist.debt + 1 ELSE hist.debt]

TickFeeding ==
  /\ Settled /\ dog < WDT_TIMEOUT_MS
  /\ dog' = 0 /\ hist' = Aged
  /\ left' = IF ui \in {"init", "work"} /\ ~stall THEN left - 1 ELSE left
  /\ lag' = IF ui \in {"init", "hung"} THEN lag ELSE lag + 1
  /\ ui' = CASE ui = "work" /\ left' = 0 -> "until"
             [] ui = "sleep" /\ lag' = 0 -> "scan"
             [] OTHER -> ui
  /\ UNCHANGED <<stall, key, btn>>

Tick ==
  /\ Settled /\ dog < WDT_TIMEOUT_MS
  /\ dog' = IF stall THEN dog + 1 ELSE 0
  /\ hist' = Aged
  /\ left' = IF ui \in {"init", "work"} /\ ~stall THEN left - 1 ELSE left
  /\ lag' = IF ui \in {"init", "hung"} THEN lag ELSE lag + 1
  /\ ui' = CASE ui = "work" /\ left' = 0 -> "until"
             [] ui = "sleep" /\ lag' = 0 -> "scan"
             [] OTHER -> ui
  /\ UNCHANGED <<stall, key, btn>>

Reset ==
  /\ dog = WDT_TIMEOUT_MS
  /\ Boot
  /\ UNCHANGED key

(* A contact closes or opens, at any time and as often as it likes.        *)
KeyChange ==
  /\ "keys" \in world
  /\ key' = ~key /\ hist' = [hist EXCEPT !.age = 0]
  /\ UNCHANGED <<timing, stall, dog, btn>>

Next ==
  /\ \/ StartLoop \/ Scan \/ DelayUntil \/ Hang
     \/ Stall \/ HostReads \/ Tick \/ Reset \/ KeyChange
  /\ UNCHANGED world

(* The UI's code goes on, time passes, the watchdog is hardware; nothing   *)
(* is asked of the host.                                                   *)
Ui == (StartLoop \/ Scan \/ DelayUntil) /\ UNCHANGED world

Fairness ==
  /\ WF_vars(Ui)
  /\ WF_vars(Tick /\ UNCHANGED world) /\ WF_vars(Reset /\ UNCHANGED world)

Spec == Init /\ [][Next]_vars /\ Fairness

-----------------------------------------------------------------------------
(* Properties.                                                             *)
BtnType  == [deb : 0 .. DebTicks, hold : 0 .. LongTicks + 1, long : BOOLEAN]
HistType == [age : 0 .. MaxAge, span : Nat, first : Nat, debt : Nat]

TypeOK ==
  /\ ui \in {"init", "scan", "work", "until", "sleep", "hung"}
  /\ left \in Nat /\ lag \in Int /\ lag >= -BTN_SCAN_MS
  /\ ui = "sleep" <=> lag < 0
  /\ dog \in 0 .. WDT_TIMEOUT_MS
  /\ stall \in BOOLEAN /\ key \in BOOLEAN
  /\ btn \in BtnType /\ hist \in HistType

(* Lateness does not come from nowhere and is not carried over: a round    *)
(* begins at most as late as the stalls and what works took beyond their   *)
(* periods since the UI last slept, and is at most a period later when its *)
(* work ends.                                                              *)
LagBounded ==
  /\ ui = "scan" => lag <= hist.debt
  /\ ui # "init" => lag <= hist.debt + BTN_SCAN_MS

Inv == TypeOK /\ LagBounded

(* The counts of btn_scan measure time although its rounds may be late and *)
(* then follow at once, whatever the works, the stalls and the bounces of  *)
(* the contact.  No press is overlooked that lasts longer than the         *)
(* debounce time and the lateness of the round at its end.  And a press is *)
(* not recognised, nor a long one reported, before its time has passed     *)
(* since the first of its samples, less the lateness of the round of that  *)
(* sample: only a late round lets a burst of samples stand for a press.    *)
PressMeasured ==
  [][/\ (key /\ ~key' /\ ui \notin {"init", "hung"}
           /\ hist.age > DebTicks * BTN_SCAN_MS + lag) => btn.deb = DebTicks
     /\ (btn'.deb = DebTicks /\ btn.deb # DebTicks)
          => hist'.span >= (DebTicks - 1) * BTN_SCAN_MS - hist'.first
     /\ (btn'.long /\ ~btn.long)
          => hist'.span >= (DebTicks + LongTicks - 2) * BTN_SCAN_MS - hist'.first]_vars

(* A host that stops reading does not stop the panel for good: the wait    *)
(* ends, by the reset if the host does not end it.  When stalls and works  *)
(* longer than a period have an end, the UI makes up for all the rounds it *)
(* missed and sleeps again and again, unless it hangs; and a UI that hangs *)
(* does so for good, as task_modbus feeds the watchdog for it: it comes    *)
(* back only by the reset of a host that stops reading as well.            *)
UiRecovers ==
  /\ stall ~> ~stall
  /\ <>[](~stall /\ left < BTN_SCAN_MS) => ([]<>(ui = "sleep") \/ <>[](ui = "hung"))
  /\ []((ui = "hung" /\ dog = 0 /\ []~stall) => [](ui = "hung"))
=============================================================================
