------------------------------- MODULE Buttons -------------------------------
(***************************************************************************)
(* The button driver of buttons.c: six keys sampled every BTN_SCAN_MS, and *)
(* three registers through which the Modbus master presses keys.           *)
(*                                                                         *)
(* btn_scan turns samples into at most one event per tick.  When it has    *)
(* none, btn_scan_with_cmd serves the registers one after another, each    *)
(* with a read and, if it was not zero, a write of zero.  task_modbus has  *)
(* the higher priority: a write of the master may fall between any two of  *)
(* these accesses, and is itself one step.                                 *)
(***************************************************************************)
EXTENDS Naturals, Sequences

CONSTANTS
  BTN_COUNT,              \* 6 in the code
  LongButtons,            \* the keys with an entry in s_ev_long
  BTN_SCAN_MS,            \* 10 in the code
  DEB_DEFAULT, DEB_MAX,   \* limits on the registers, in ms: 30, 1000
  LONG_DEFAULT, LONG_MIN, LONG_MAX,    \* 3000, 200, 30000
  HOLD_MAX,               \* 0xFFFF, where hold_cnt stops
  Timings,                \* bound: values of BTN_DEBOUNCE_MS, BTN_LONG_MS
  Scenes                  \* bound: what the environment does

Keys  == 1 .. BTN_COUNT
Kinds == {"short", "long"}

(* An event is a key and a kind; the registers hold bits, here a set of    *)
(* events, or (BTN_CMD) one event code.                                    *)
Events  == Keys \X Kinds
NoEvent == <<0, "none">>
Boxes   == {"BTN_LPR_IR", "BTN_PR_IR", "BTN_CMD"}

(* The values a master writes into each register.                          *)
Requests(b) ==
  CASE b = "BTN_LPR_IR" -> (SUBSET (Keys \X {"long"})) \ {{}}
    [] b = "BTN_PR_IR"  -> (SUBSET (Keys \X {"short"})) \ {{}}
    [] b = "BTN_CMD"    ->
         {{<<i, "short">>} : i \in Keys}
           \cup {{<<i, "long">>} : i \in LongButtons}

ServeOrder == <<"BTN_LPR_IR", "BTN_PR_IR", "BTN_CMD">>
DropOrder  == <<"BTN_CMD", "BTN_PR_IR", "BTN_LPR_IR">>

(* presses: keys that are ever down; boxes: registers the master uses;     *)
(* world: whether it changes the timings.                                  *)
AllScenes == [presses : SUBSET Keys, boxes : SUBSET Boxes,
              world : SUBSET {"timing"}]

ASSUME ButtonsAssumption ==
  /\ {BTN_COUNT, BTN_SCAN_MS, DEB_DEFAULT, DEB_MAX, LONG_DEFAULT, LONG_MIN,
      LONG_MAX, HOLD_MAX} \subseteq Nat \ {0}
  /\ LongButtons \subseteq Keys
  /\ Timings \subseteq [deb : Nat, long : Nat] /\ Timings # {}
  /\ \A s \in Scenes : s \in AllScenes

VARIABLES
  btn,     \* s_btn
  sr,      \* the mirrors BTN_PR_SR and BTN_LPR_SR
  box,     \* the three request registers
  timing,  \* BTN_DEBOUNCE_MS and BTN_LONG_MS
  pc,      \* where task_ui is in btn_scan_with_cmd
  todo,    \* the registers it has yet to look at in this call
  seen,    \* the value it read from the first of them
  ev,      \* the event it will return
  hist,    \* history for the properties; no action reads it
  scene    \* the scene of this execution; never changes

vars == <<btn, sr, box, timing, pc, todo, seen, ev, hist, scene>>

-----------------------------------------------------------------------------
(* The registers in ticks; an illegal value counts as the default.         *)
AtLeast1(n) == IF n = 0 THEN 1 ELSE n
DebTicks(ms) ==
  AtLeast1((IF ms = 0 \/ ms > DEB_MAX THEN DEB_DEFAULT ELSE ms)
           \div BTN_SCAN_MS)
LongTicks(ms) ==
  AtLeast1((IF ms < LONG_MIN \/ ms > LONG_MAX THEN LONG_DEFAULT ELSE ms)
           \div BTN_SCAN_MS)

Released == [debounce |-> 0, pressed |-> 0, hold |-> 0, long_fired |-> 0]

(* One sample of a key that is down.  The long event fires when the hold   *)
(* count equals the threshold.  (Mutants: when it has passed it; the hold   *)
(* count has no limit.)                                                    *)
HeldUntil(b, i, threshold) ==
  LET d    == DebTicks(timing.deb)
      deb  == IF b.debounce < d THEN b.debounce + 1 ELSE b.debounce
      on   == deb >= d
      hold == IF on /\ b.hold < HOLD_MAX THEN b.hold + 1 ELSE b.hold
  IN [debounce |-> deb,
      pressed |-> IF on THEN 1 ELSE b.pressed,
      hold |-> hold,
      long_fired |-> IF on /\ hold = threshold /\ i \in LongButtons THEN 1
                     ELSE b.long_fired]
HeldUncapped(b, i) ==
  [HeldUntil(b, i, LongTicks(timing.long)) EXCEPT !.hold = b.hold + 1]
HeldLate(b, i) == HeldUntil(b, i, LongTicks(timing.long) + 1)
Held(b, i)     == HeldUntil(b, i, LongTicks(timing.long))

(* One sample of a key that is up.  (Mutant: the debounce count survives   *)
(* the bounce.)                                                            *)
UpBouncing(b) == IF b.pressed = 1 THEN Released ELSE b
Up(b) == IF b.pressed = 1 THEN Released ELSE [b EXCEPT !.debounce = 0]

Sampled(i, down) == IF i \in down THEN Held(btn[i], i) ELSE Up(btn[i])

(* The event key i asks for in this tick.  (Mutant: a release always gives *)
(* the short event.)                                                       *)
AsksAlways(i, down) ==
  IF i \in down
  THEN IF Sampled(i, down).long_fired > btn[i].long_fired
       THEN <<i, "long">> ELSE NoEvent
  ELSE IF btn[i].pressed = 1 THEN <<i, "short">> ELSE NoEvent
Asks(i, down) ==
  IF i \in down
  THEN IF Sampled(i, down).long_fired > btn[i].long_fired
       THEN <<i, "long">> ELSE NoEvent
  ELSE IF btn[i].pressed = 1 /\ btn[i].long_fired = 0
       THEN <<i, "short">> ELSE NoEvent

(* The first event in the order of the keys.                               *)
First(S) == CHOOSE e \in S : \A f \in S : e[1] <= f[1]

(* bit_to_event, and the cast of BTN_CMD: the lowest bit counts, and a     *)
(* long press of a key that has none is no event.                          *)
BoxEvent(S) ==
  IF First(S)[2] = "long" /\ First(S)[1] \notin LongButtons
  THEN NoEvent ELSE First(S)

-----------------------------------------------------------------------------
Init ==
  /\ btn = [i \in Keys |-> Released]
  /\ sr = [short |-> {}, long |-> {}]
  /\ box = [b \in Boxes |-> {}]
  /\ timing \in Timings
  /\ pc = "scan" /\ todo = <<>> /\ seen = {} /\ ev = NoEvent
  /\ hist = [run |-> [i \in Keys |-> 0], given |-> [i \in Keys |-> 0],
             steady |-> [i \in Keys |-> 1],
             asked |-> [b \in Boxes |-> {}], missed |-> 0,
             key |-> NoEvent, taken |-> {}]
  /\ scene \in Scenes

(* run: samples down in a row, up to HOLD_MAX; given: events asked for by  *)
(* this press; steady: the timings have not changed since it began.  Of    *)
(* the requests, asked: the last one written to each register and not yet  *)
(* taken; missed: it came between the read of its register and the clear.  *)
(* Of the current call, key: the event of btn_scan itself; taken: the      *)
(* requests cleared so far, each with the value that was read.             *)
Remember(down) ==
  hist' = [hist EXCEPT
    !.run = [i \in Keys |-> IF i \in down
                            THEN IF @[i] < HOLD_MAX THEN @[i] + 1 ELSE @[i]
                            ELSE 0],
    !.given = [i \in Keys |->
      (IF btn[i].pressed = 0 THEN 0 ELSE @[i])
        + (IF Asks(i, down) # NoEvent /\ @[i] < 2 THEN 1 ELSE 0)],
    !.steady = [i \in Keys |-> IF btn[i].debounce = 0 THEN 1 ELSE @[i]],
    !.key = ev']

(* btn_scan: every key is sampled, and the first event wins; the others    *)
(* are lost with their press.                                              *)
Scan ==
  /\ pc = "scan"
  /\ \E down \in SUBSET scene.presses :
       LET asked == {Asks(i, down) : i \in Keys} \ {NoEvent}
           on    == {i \in down : btn'[i].debounce >= DebTicks(timing.deb)}
       IN /\ btn' = [i \in Keys |-> Sampled(i, down)]
          /\ sr' = [short |-> on,
                    long |-> {i \in on : btn'[i].hold >= LongTicks(timing.long)
                                         \/ btn[i].long_fired = 1}]
          /\ ev' = IF asked = {} THEN NoEvent ELSE First(asked)
          /\ todo' = IF asked = {} THEN ServeOrder ELSE DropOrder
          /\ Remember(down)
  /\ pc' = "read"
  /\ UNCHANGED <<box, timing, seen, scene>>

(* MB_ReadBits of the next register; zero is passed over.                  *)
ReadBox ==
  /\ pc = "read" /\ todo # <<>>
  /\ seen' = box[Head(todo)]
  /\ IF seen' = {} THEN pc' = "read" /\ todo' = Tail(todo)
                   ELSE pc' = "clear" /\ todo' = todo
  /\ UNCHANGED <<btn, sr, box, timing, ev, hist, scene>>

(* The write of zero, then the event, if the register is served and not    *)
(* dropped in favour of a key.  (Mutants: the call does not return with    *)
(* the first event; a register is not cleared when its bit has no event;   *)
(* both bit registers are cleared at once.)                                *)
Take ==
  hist' = [hist EXCEPT
    !.taken = @ \cup {[box |-> Head(todo), seen |-> seen,
                       asked |-> hist.asked[Head(todo)],
                       missed |-> hist.missed]},
    !.asked = [@ EXCEPT ![Head(todo)] = {}],
    !.missed = 0]
AfterClearFallingOn ==
  /\ ev' = IF ev = NoEvent THEN BoxEvent(seen) ELSE ev
  /\ todo' = Tail(todo)
  /\ pc' = "read"
  /\ Take
  /\ UNCHANGED <<btn, sr, timing, seen, scene>>
AfterClear ==
  /\ ev' = IF ev = NoEvent THEN BoxEvent(seen) ELSE ev
  /\ todo' = IF ev = NoEvent /\ ev' # NoEvent THEN <<>> ELSE Tail(todo)
  /\ pc' = "read"
  /\ Take
  /\ UNCHANGED <<btn, sr, timing, seen, scene>>
ClearBoxIfServed ==
  /\ pc = "clear"
  /\ box' = IF BoxEvent(seen) = NoEvent THEN box
            ELSE [box EXCEPT ![Head(todo)] = {}]
  /\ AfterClear
ClearBothBits ==
  /\ pc = "clear"
  /\ box' = [b \in Boxes |-> IF b = Head(todo) \/ b = "BTN_PR_IR" THEN {}
                             ELSE box[b]]
  /\ AfterClear
ClearBox ==
  /\ pc = "clear"
  /\ box' = [box EXCEPT ![Head(todo)] = {}]
  /\ AfterClear

(* The call returns and menu_process takes the event.                      *)
Return ==
  /\ pc = "read" /\ todo = <<>>
  /\ pc' = "scan" /\ ev' = NoEvent /\ seen' = {}
  /\ hist' = [hist EXCEPT !.key = NoEvent, !.taken = {}]
  /\ UNCHANGED <<btn, sr, box, timing, todo, scene>>

(* A write of the master, over a request that still stands or not.         *)
MasterPress(b, v) ==
  /\ b \in scene.boxes
  /\ box' = [box EXCEPT ![b] = v]
  /\ hist' = [hist EXCEPT
       !.asked = [@ EXCEPT ![b] = v],
       !.missed = IF pc = "clear" /\ b = Head(todo) THEN 1 ELSE @]
  /\ UNCHANGED <<btn, sr, timing, pc, todo, seen, ev, scene>>

MasterTiming(t) ==
  /\ "timing" \in scene.world /\ t # timing
  /\ timing' = t
  /\ hist' = [hist EXCEPT !.steady = [i \in Keys |-> 0]]
  /\ UNCHANGED <<btn, sr, box, pc, todo, seen, ev, scene>>

Ui == Scan \/ ReadBox \/ ClearBox \/ Return

Next ==
  \/ Ui
  \/ \E b \in Boxes : \E v \in Requests(b) : MasterPress(b, v)
  \/ \E t \in Timings : MasterTiming(t)

Spec == Init /\ [][Next]_vars

(* task_ui runs every tick: nothing of higher priority keeps the processor.*)
FairSpec == Spec /\ WF_vars(Ui)

-----------------------------------------------------------------------------
(* Properties.                                                             *)

Button == [debounce : 0 .. DEB_MAX + DEB_DEFAULT, pressed : {0, 1},
           hold : 0 .. HOLD_MAX, long_fired : {0, 1}]

(* The counters keep their ranges, the registers hold key bits, and the    *)
(* call is always at one of its accesses.                                  *)
TypeOK ==
  /\ btn \in [Keys -> Button]
  /\ sr \in [short : SUBSET Keys, long : SUBSET Keys]
  /\ box \in [Boxes -> SUBSET Events]
  /\ timing \in Timings
  /\ pc \in {"scan", "read", "clear"}
  /\ todo \in Seq(Boxes) /\ (pc = "clear" => todo # <<>> /\ seen # {})
  /\ seen \in SUBSET Events /\ ev \in Events \cup {NoEvent}

(* A bounce does not become a press: a key counts as pressed only after as *)
(* many samples in a row as the debounce time asks for, although presses   *)
(* and changes of the register overlap (150-162, 190).                     *)
PressIsDebounced ==
  [][\A i \in Keys : btn'[i].pressed > btn[i].pressed =>
       hist'.run[i] >= DebTicks(timing.deb)]_vars

(* From press to release a key asks for exactly one event, short or long,  *)
(* however long it is held and whatever becomes of the timings; and not    *)
(* for the short one after a hold past the long threshold (buttons.c:43),  *)
(* unless somebody changed the timings meanwhile.                          *)
ShortAfterLongHold(i) ==
  /\ i \in LongButtons /\ btn[i].long_fired = 0
  /\ btn[i].hold >= LongTicks(timing.long)
OnePressOneEvent ==
  [][\A i \in Keys : btn'[i].pressed < btn[i].pressed =>
       /\ hist'.given[i] = 1
       /\ hist.steady[i] = 1 => ~ShortAfterLongHold(i)]_vars

(* A request acts once (211-213).  Between two calls a register holds what *)
(* was asked of it and not taken, so nothing is forgotten, nor left to act *)
(* again.  A call with an event of a key returns that event, whatever it   *)
(* drops (218-219, 243-246).  A call without one returns the event of a    *)
(* request it read, and clears no second request that has an event: the    *)
(* only one it may lose was written between the read of its register and   *)
(* the clear, which 211-213 does not foresee.                              *)
Standing == {r \in hist.taken : r.missed = 0 /\ BoxEvent(r.asked) # NoEvent}
NoneForgotten == pc = "scan" => box = hist.asked
CallServes ==
  pc = "read" /\ todo = <<>> =>
    IF hist.key # NoEvent THEN ev = hist.key
    ELSE /\ \A r \in Standing : ev = BoxEvent(r.asked)
         /\ \A r, s \in Standing : r = s
         /\ ev # NoEvent => \E r \in hist.taken : ev = BoxEvent(r.seen)
RequestsServedOnce == NoneForgotten /\ CallServes

(* When the master stops writing, every register is cleared in the end,    *)
(* whatever keys are pressed meanwhile.                                    *)
MasterWrites == \E b \in Boxes : \E v \in Requests(b) : MasterPress(b, v)
RequestsDrain ==
  <>[][~MasterWrites]_vars => <>[](\A b \in Boxes : box[b] = {})
=============================================================================
