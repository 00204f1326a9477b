---------------------------- MODULE ButtonsProofs ----------------------------
(***************************************************************************)
(* What Buttons keeps for any number of keys, any limits of the two        *)
(* registers and any scene.                                                *)
(***************************************************************************)
EXTENDS Buttons, WellFoundedInduction, TLAPS

USE ButtonsAssumption DEF ButtonsAssumption, Keys, Kinds, Events, Boxes

-----------------------------------------------------------------------------
(* A quotient is no larger than what is divided.                           *)
LEMMA Quotient ==
  ASSUME NEW x \in Nat, NEW n \in Nat \ {0}
  PROVE  x \div n \in Nat /\ x \div n <= x
<1>1. x = n * (x \div n) + (x % n) /\ x \div n \in Nat /\ x % n \in 0 .. n - 1
  BY Z3
<1>2. ASSUME NEW q \in Nat PROVE q <= n * q
  BY <1>2, Z3
<1>3. QED
  BY <1>1, <1>2

LEMMA TicksType ==
  \A ms \in Nat : /\ DebTicks(ms) \in 1 .. DEB_MAX + DEB_DEFAULT
                  /\ LongTicks(ms) \in Nat \ {0}
<1> SUFFICES ASSUME NEW ms \in Nat
             PROVE  /\ DebTicks(ms) \in 1 .. DEB_MAX + DEB_DEFAULT
                    /\ LongTicks(ms) \in Nat \ {0}
  OBVIOUS
<1> DEFINE d == IF ms = 0 \/ ms > DEB_MAX THEN DEB_DEFAULT ELSE ms
           l == IF ms < LONG_MIN \/ ms > LONG_MAX THEN LONG_DEFAULT ELSE ms
<1>1. d \in Nat /\ d <= DEB_MAX + DEB_DEFAULT /\ l \in Nat
  OBVIOUS
<1>2. d \div BTN_SCAN_MS \in Nat /\ d \div BTN_SCAN_MS <= d
  BY <1>1, Quotient
<1>3. l \div BTN_SCAN_MS \in Nat
  BY <1>1, Quotient
<1>4. DebTicks(ms) = AtLeast1(d \div BTN_SCAN_MS) /\ LongTicks(ms) = AtLeast1(l \div BTN_SCAN_MS)
  BY DEF DebTicks, LongTicks
<1> HIDE DEF d, l
<1>5. QED
  BY <1>1, <1>2, <1>3, <1>4 DEF AtLeast1

-----------------------------------------------------------------------------
(* The type of the history beside TypeOK makes the types inductive.        *)
Taken   == [box : Boxes, seen : SUBSET Events, asked : SUBSET Events,
            missed : {0, 1}]
History == [run : [Keys -> 0 .. HOLD_MAX], given : [Keys -> Nat],
            steady : [Keys -> {0, 1}], asked : [Boxes -> SUBSET Events],
            missed : {0, 1}, key : Events \cup {NoEvent},
            taken : SUBSET Taken]
Types == TypeOK /\ hist \in History /\ scene \in Scenes

LEMMA InitTypes == Init => Types
  BY DEF Init, Types, TypeOK, History, Button, Released

(* One sample keeps a key's record within its ranges.                      *)
LEMMA SampleType ==
  ASSUME Types, NEW i \in Keys, NEW down
  PROVE  Sampled(i, down) \in Button
<1>1. btn[i] \in Button /\ timing.deb \in Nat /\ timing.long \in Nat
  BY DEF Types, TypeOK
<1>2. DebTicks(timing.deb) \in 1 .. DEB_MAX + DEB_DEFAULT
  BY <1>1, TicksType
<1>3. Up(btn[i]) \in Button
  BY <1>1 DEF Up, Button, Released
<1>4. Held(btn[i], i) \in Button
  BY <1>1, <1>2 DEF Held, HeldUntil, Button
<1>5. QED
  BY <1>3, <1>4 DEF Sampled

LEMMA AskType ==
  ASSUME NEW i \in Keys, NEW down
  PROVE  Asks(i, down) \in Events \cup {NoEvent}
  BY DEF Asks, NoEvent

(* A set of numbers has a least one, hence a set of events a first.        *)
LEMMA Least ==
  ASSUME NEW T \in SUBSET Nat, T # {}
  PROVE  \E x \in T : \A y \in T : x <= y
<1>1. PICK x \in T : \A y \in T : ~ (<<y, x>> \in OpToRel(<, Nat))
  BY NatLessThanWellFounded, WFMin
<1>2. \A y \in T : ~ (y < x)
  BY <1>1 DEF OpToRel
<1>3. \A y \in T : x <= y
  <2>1. TAKE y \in T
  <2>2. x \in Nat /\ y \in Nat /\ ~ (y < x)
    BY <1>2
  <2>3. QED
    BY <2>2
<1>4. QED
  BY <1>3

LEMMA FirstType ==
  ASSUME NEW S \in SUBSET Events, S # {}
  PROVE  First(S) \in S
<1> DEFINE ks == {e[1] : e \in S}
<1>1. ks \in SUBSET Nat /\ ks # {}
  OBVIOUS
<1>2. PICK k \in ks : \A m \in ks : k <= m
  BY <1>1, Least
<1>3. PICK e \in S : e[1] = k
  OBVIOUS
<1>4. \A f \in S : e[1] <= f[1]
  BY <1>2, <1>3
<1>5. QED
  BY <1>4 DEF First

LEMMA BoxEventType ==
  ASSUME NEW S \in SUBSET Events, S # {}
  PROVE  BoxEvent(S) \in Events \cup {NoEvent}
  BY FirstType DEF BoxEvent

LEMMA OrdersType == ServeOrder \in Seq(Boxes) /\ DropOrder \in Seq(Boxes)
  BY DEF ServeOrder, DropOrder

-----------------------------------------------------------------------------
(* Every step keeps the types: a sample by its ranges, an access because   *)
(* the registers hold events only.                                         *)
LEMMA StepTypes == Types /\ [Next]_vars => Types'
<1> SUFFICES ASSUME Types, [Next]_vars PROVE Types'
  OBVIOUS
<1> USE DEF Types
<1>1. ASSUME Scan PROVE Types'
  <2>1. PICK down \in SUBSET scene.presses :
          /\ btn' = [i \in Keys |-> Sampled(i, down)]
          /\ sr' = [short |-> {i \in down : btn'[i].debounce >= DebTicks(timing.deb)},
                    long |-> {i \in {j \in down : btn'[j].debounce >= DebTicks(timing.deb)} :
                                btn'[i].hold >= LongTicks(timing.long) \/ btn[i].long_fired = 1}]
          /\ LET asked == {Asks(i, down) : i \in Keys} \ {NoEvent}
             IN /\ ev' = IF asked = {} THEN NoEvent ELSE First(asked)
                /\ todo' = IF asked = {} THEN ServeOrder ELSE DropOrder
          /\ Remember(down)
    BY <1>1 DEF Scan
  <2>2. down \in SUBSET Keys
    BY DEF AllScenes
  <2>3. btn' \in [Keys -> Button]
    BY <2>1, SampleType
  <2>4. sr' \in [short : SUBSET Keys, long : SUBSET Keys]
    BY <2>1, <2>2
  <2>5. {Asks(i, down) : i \in Keys} \ {NoEvent} \in SUBSET Events
    BY AskType
  <2>6. ev' \in Events \cup {NoEvent} /\ todo' \in Seq(Boxes)
    BY <2>1, <2>5, FirstType, OrdersType
  <2>7. hist' \in History
    <3> DEFINE run == [i \in Keys |-> IF i \in down
                         THEN IF hist.run[i] < HOLD_MAX THEN hist.run[i] + 1 ELSE hist.run[i]
                         ELSE 0]
               given == [i \in Keys |-> (IF btn[i].pressed = 0 THEN 0 ELSE hist.given[i])
                      + (IF Asks(i, down) # NoEvent /\ hist.given[i] < 2 THEN 1 ELSE 0)]
               steady == [i \in Keys |-> IF btn[i].debounce = 0 THEN 1 ELSE hist.steady[i]]
    <3>1. hist' = [hist EXCEPT !.run = run, !.given = given, !.steady = steady, !.key = ev']
      BY <2>1 DEF Remember
    <3>2. run \in [Keys -> 0 .. HOLD_MAX]
      BY SMTT(30) DEF History
    <3>3. given \in [Keys -> Nat]
      BY SMTT(30) DEF History
    <3>4. steady \in [Keys -> {0, 1}]
      BY DEF History
    <3> HIDE DEF run, given, steady
    <3>5. QED
      BY <2>6, <3>1, <3>2, <3>3, <3>4 DEF History
  <2>8. pc' = "read" /\ UNCHANGED <<box, timing, seen, scene>>
    BY <1>1 DEF Scan
  <2>9. TypeOK'
    BY <2>3, <2>4, <2>6, <2>8 DEF TypeOK
  <2>10. QED
    BY <2>7, <2>8, <2>9
<1>2. ASSUME ReadBox PROVE Types'
  <2>1. Head(todo) \in Boxes /\ Tail(todo) \in Seq(Boxes)
    BY <1>2 DEF ReadBox, TypeOK
  <2>2. QED
    BY <1>2, <2>1 DEF ReadBox, TypeOK
<1>3. ASSUME ClearBox PROVE Types'
  <2>1. Head(todo) \in Boxes /\ Tail(todo) \in Seq(Boxes) /\ <<>> \in Seq(Boxes)
    BY <1>3 DEF ClearBox, TypeOK
  <2>2. BoxEvent(seen) \in Events \cup {NoEvent}
    BY <1>3, BoxEventType DEF ClearBox, TypeOK
  <2>3. TypeOK'
    BY <1>3, <2>1, <2>2 DEF ClearBox, AfterClear, TypeOK
  <2>4. hist' \in History
    <3>1. hist.asked \in [Boxes -> SUBSET Events]
      BY DEF History
    <3>2. [box |-> Head(todo), seen |-> seen, asked |-> hist.asked[Head(todo)],
           missed |-> hist.missed] \in Taken
      BY <2>1, <3>1 DEF Taken, TypeOK, History
    <3>3. [hist.asked EXCEPT ![Head(todo)] = {}] \in [Boxes -> SUBSET Events]
      BY <3>1
    <3>4. QED
      BY <1>3, <3>2, <3>3 DEF ClearBox, AfterClear, Take, History
  <2>5. QED
    BY <1>3, <2>3, <2>4 DEF ClearBox, AfterClear
<1>4. ASSUME Return PROVE Types'
  BY <1>4 DEF Return, TypeOK, History
<1>5. ASSUME NEW b \in Boxes, NEW v \in Requests(b), MasterPress(b, v) PROVE Types'
  <2>1. v \in SUBSET Events
    BY DEF Requests
  <2>2. TypeOK'
    BY <1>5, <2>1, SMTT(30) DEF MasterPress, TypeOK
  <2>3. [hist.asked EXCEPT ![b] = v] \in [Boxes -> SUBSET Events]
    BY <2>1 DEF History
  <2>4. hist' \in History
    BY <1>5, <2>3 DEF MasterPress, History
  <2>5. QED
    BY <1>5, <2>2, <2>4 DEF MasterPress
<1>6. ASSUME NEW t \in Timings, MasterTiming(t) PROVE Types'
  BY <1>6 DEF MasterTiming, TypeOK, History
<1>7. CASE UNCHANGED vars
  BY <1>7 DEF vars, TypeOK
<1>8. QED
  BY <1>1, <1>2, <1>3, <1>4, <1>5, <1>6, <1>7 DEF Next, Ui

LEMMA TypesInvariant == Spec => []Types
  BY InitTypes, StepTypes, PTL DEF Spec

(* The counters of buttons.c keep their ranges whatever becomes of the     *)
(* registers they are compared with, and the registers hold key bits.      *)
THEOREM ButtonsTypeCorrect == Spec => []TypeOK
<1>1. Types => TypeOK
  BY DEF Types
<1>2. QED
  BY <1>1, TypesInvariant, PTL

-----------------------------------------------------------------------------
(* The registers hold what is asked of them.  Of a call, a request that    *)
(* was not overtaken was taken as it was asked; and unless a key has the   *)
(* event, it is that of one of the requests taken, the last: the ones      *)
(* before have none, and none comes after.                                 *)
Serving ==
  /\ box = hist.asked
  /\ pc = "scan" => hist.taken = {}
  /\ pc = "clear" /\ hist.missed = 0 => seen = box[Head(todo)]
  /\ \A r \in hist.taken : r.missed = 0 => r.seen = r.asked
  /\ hist.key # NoEvent => ev = hist.key
  /\ hist.key = NoEvent /\ ev = NoEvent =>
       \A r \in hist.taken : BoxEvent(r.seen) = NoEvent
  /\ hist.key = NoEvent /\ ev # NoEvent =>
       /\ todo = <<>>
       /\ \E r \in hist.taken :
            /\ ev = BoxEvent(r.seen)
            /\ \A s \in hist.taken : s # r => BoxEvent(s.seen) = NoEvent

LEMMA ServingInit == Init => Serving
  BY DEF Init, Serving

LEMMA ServingStep == Types /\ Serving /\ [Next]_vars => Serving'
<1> SUFFICES ASSUME Types, Serving, [Next]_vars PROVE Serving'
  OBVIOUS
<1> USE DEF Types, Serving
<1>1. ASSUME Scan PROVE Serving'
  <2>1. /\ hist'.asked = hist.asked /\ hist'.taken = {} /\ hist'.key = ev'
        /\ box' = box /\ pc' = "read"
    BY <1>1 DEF Scan, Remember, History
  <2>2. QED
    BY <2>1
<1>2. ASSUME ReadBox PROVE Serving'
  <2>1. /\ hist' = hist /\ box' = box /\ ev' = ev /\ todo # <<>> /\ pc = "read"
        /\ seen' = box[Head(todo)]
        /\ \/ pc' = "read"
           \/ pc' = "clear" /\ todo' = todo
    BY <1>2 DEF ReadBox
  <2>2. QED
    BY <2>1
<1>3. ASSUME ClearBox PROVE Serving'
  <2> DEFINE new == [box |-> Head(todo), seen |-> seen,
                     asked |-> hist.asked[Head(todo)], missed |-> hist.missed]
  <2>1. /\ Head(todo) \in Boxes /\ box \in [Boxes -> SUBSET Events]
        /\ box' = [box EXCEPT ![Head(todo)] = {}]
        /\ pc = "clear" /\ pc' = "read" /\ todo # <<>>
        /\ ev' = (IF ev = NoEvent THEN BoxEvent(seen) ELSE ev)
        /\ todo' = (IF ev = NoEvent /\ ev' # NoEvent THEN <<>> ELSE Tail(todo))
    BY <1>3, SMTT(30) DEF ClearBox, AfterClear, TypeOK
  <2>2. /\ hist'.taken = hist.taken \cup {new} /\ hist'.key = hist.key
        /\ hist'.asked = [hist.asked EXCEPT ![Head(todo)] = {}]
    BY <1>3 DEF ClearBox, AfterClear, Take, History
  <2>3. new.missed = 0 => new.seen = new.asked
    BY <2>1
  <2>4. new.seen = seen
    OBVIOUS
  <2> HIDE DEF new
  <2>5. box' = hist'.asked
    BY <2>1, <2>2
  <2>6. \A r \in hist'.taken : r.missed = 0 => r.seen = r.asked
    BY <2>2, <2>3
  <2>7. CASE hist.key # NoEvent
    BY <2>1, <2>2, <2>5, <2>6, <2>7
  <2>8. CASE hist.key = NoEvent
    <3>1. ev = NoEvent
      BY <2>1, <2>8
    <3>2. ev' = BoxEvent(new.seen)
      BY <2>1, <2>4, <3>1
    <3>3. \A r \in hist'.taken : r # new => BoxEvent(r.seen) = NoEvent
      BY <2>2, <2>8, <3>1
    <3>4. new \in hist'.taken
      BY <2>2
    <3>5. ev' # NoEvent => todo' = <<>>
      BY <2>1, <3>1
    <3>6. QED
      BY <2>1, <2>2, <2>5, <2>6, <2>8, <3>2, <3>3, <3>4, <3>5
  <2>9. QED
    BY <2>7, <2>8
<1>4. ASSUME Return PROVE Serving'
  <2>1. /\ pc' = "scan" /\ ev' = NoEvent /\ box' = box
        /\ hist'.taken = {} /\ hist'.key = NoEvent /\ hist'.asked = hist.asked
    BY <1>4 DEF Return, History
  <2>2. QED
    BY <2>1
<1>5. ASSUME NEW b \in Boxes, NEW v \in Requests(b), MasterPress(b, v) PROVE Serving'
  <2>1. /\ hist'.asked = [hist.asked EXCEPT ![b] = v]
        /\ hist'.missed = IF pc = "clear" /\ b = Head(todo) THEN 1 ELSE hist.missed
        /\ hist'.taken = hist.taken /\ hist'.key = hist.key
        /\ box' = [box EXCEPT ![b] = v]
    BY <1>5 DEF MasterPress, History
  <2>2. UNCHANGED <<pc, todo, seen, ev>> /\ (pc = "clear" => Head(todo) \in Boxes) /\ box \in [Boxes -> SUBSET Events]
    BY <1>5 DEF MasterPress, TypeOK
  <2>3. pc = "clear" /\ hist'.missed = 0 => seen = box'[Head(todo)]
    BY <2>1, <2>2
  <2>4. box' = hist'.asked
    BY <2>1
  <2>5. QED
    BY <2>1, <2>2, <2>3, <2>4
<1>6. ASSUME NEW t \in Timings, MasterTiming(t) PROVE Serving'
  BY <1>6 DEF MasterTiming, History
<1>7. CASE UNCHANGED vars
  BY <1>7 DEF vars
<1>8. QED
  BY <1>1, <1>2, <1>3, <1>4, <1>5, <1>6, <1>7 DEF Next, Ui

(* A request acts once (buttons.c:211-213), for any number of keys and any *)
(* order of the master's writes and the task's accesses: it is lost to a   *)
(* key's event in the same call, to a later write, or between the read and *)
(* the clear of its register, and nowhere else; and it never acts twice.   *)
THEOREM RequestsOnce == Spec => []RequestsServedOnce
<1>1. ASSUME Types, Serving PROVE RequestsServedOnce
  <2>1. NoneForgotten
    BY <1>1 DEF Serving, NoneForgotten
  <2>2. ASSUME hist.key = NoEvent, todo = <<>> PROVE
          /\ \A r \in Standing : ev = BoxEvent(r.asked)
          /\ \A r, s \in Standing : r = s
          /\ ev # NoEvent => \E r \in hist.taken : ev = BoxEvent(r.seen)
    <3>1. \A r \in Standing : r \in hist.taken /\ r.seen = r.asked /\ BoxEvent(r.seen) # NoEvent
      BY <1>1 DEF Serving, Standing
    <3>2. CASE ev = NoEvent
      BY <1>1, <2>2, <3>1, <3>2 DEF Serving
    <3>3. CASE ev # NoEvent
      <4>1. PICK r0 \in hist.taken :
              /\ ev = BoxEvent(r0.seen)
              /\ \A s \in hist.taken : s # r0 => BoxEvent(s.seen) = NoEvent
        BY <1>1, <2>2, <3>3 DEF Serving
      <4>2. \A r \in Standing : r = r0
        BY <3>1, <4>1
      <4>3. QED
        BY <3>1, <4>1, <4>2
    <3>4. QED
      BY <3>2, <3>3
  <2>3. CallServes
    BY <1>1, <2>2 DEF CallServes, Serving
  <2>4. QED
    BY <2>1, <2>3 DEF RequestsServedOnce
<1>2. QED
  BY <1>1, ServingInit, ServingStep, TypesInvariant, PTL DEF Spec

-----------------------------------------------------------------------------
(* What a key's counters mean.  A key that is not pressed has no hold; the *)
(* events a press has given are the long one, if it fired; and while the   *)
(* timings stand, a key held to the long threshold has fired.              *)
KeyAgrees(i) ==
  /\ btn[i].pressed = 0 => btn[i].hold = 0 /\ btn[i].long_fired = 0
  /\ btn[i].debounce = 0 => btn[i].pressed = 0
  /\ btn[i].pressed = 1 => hist.given[i] = btn[i].long_fired
  /\ hist.given[i] <= 1
  /\ hist.steady[i] = 1 => ~ ShortAfterLongHold(i)
  /\ btn[i].debounce <= hist.run[i] \/ hist.run[i] = HOLD_MAX

Agree == \A i \in Keys : KeyAgrees(i)

LEMMA AgreeInit == Init => Agree
<1> SUFFICES ASSUME Init, NEW i \in Keys PROVE KeyAgrees(i)
  BY DEF Agree
<1>1. timing.long \in Nat
  BY DEF Init
<1>2. LongTicks(timing.long) \in Nat \ {0}
  BY <1>1, TicksType
<1>3. btn[i] = Released /\ hist.given[i] = 0 /\ hist.run[i] = 0
  BY DEF Init
<1>4. QED
  BY <1>2, <1>3 DEF Released, KeyAgrees, ShortAfterLongHold

(* One sample of one key.                                                  *)
LEMMA SampleAgrees ==
  ASSUME Types, Agree, Scan, NEW i \in Keys
  PROVE  /\ KeyAgrees(i)'
         /\ btn'[i].pressed > btn[i].pressed =>
              btn'[i].debounce >= DebTicks(timing.deb)
         /\ btn'[i].pressed < btn[i].pressed =>
              hist'.given[i] = 1 /\ (hist.steady[i] = 1 => ~ ShortAfterLongHold(i))
<1>1. PICK down \in SUBSET scene.presses :
        btn' = [k \in Keys |-> Sampled(k, down)] /\ Remember(down) /\ timing' = timing
  BY DEF Scan
<1> DEFINE d == DebTicks(timing.deb)
           l == LongTicks(timing.long)
           b == btn[i]
           c == btn'[i]
<1>2. d \in Nat \ {0} /\ l \in Nat \ {0}
  <2>1. timing.deb \in Nat /\ timing.long \in Nat
    BY DEF Types, TypeOK
  <2>2. QED
    BY <2>1, TicksType
<1>3. b \in Button /\ KeyAgrees(i)
  BY DEF Types, TypeOK, Agree
<1>4. /\ hist'.run[i] = IF i \in down
                         THEN IF hist.run[i] < HOLD_MAX THEN hist.run[i] + 1 ELSE hist.run[i]
                         ELSE 0
      /\ hist'.given[i] = (IF b.pressed = 0 THEN 0 ELSE hist.given[i])
                           + (IF Asks(i, down) # NoEvent /\ hist.given[i] < 2 THEN 1 ELSE 0)
      /\ hist'.steady[i] = IF b.debounce = 0 THEN 1 ELSE hist.steady[i]
      /\ hist.run[i] \in 0 .. HOLD_MAX /\ hist.given[i] \in Nat /\ hist.steady[i] \in {0, 1}
  BY <1>1 DEF Remember, Types, History
<1>5. CASE i \in down
  <2>1. c = HeldUntil(b, i, l)
    BY <1>1, <1>5 DEF Sampled, Held
  <2>2. /\ c.debounce = IF b.debounce < d THEN b.debounce + 1 ELSE b.debounce
        /\ c.pressed = IF c.debounce >= d THEN 1 ELSE b.pressed
        /\ c.hold = IF c.debounce >= d /\ b.hold < HOLD_MAX THEN b.hold + 1 ELSE b.hold
        /\ c.long_fired = IF c.debounce >= d /\ c.hold = l /\ i \in LongButtons THEN 1
                          ELSE b.long_fired
    BY <2>1 DEF HeldUntil
  <2>3. (Asks(i, down) # NoEvent) <=> c.long_fired > b.long_fired
    BY <1>1, <1>5 DEF Asks, NoEvent
  <2>8. /\ b.pressed \in {0, 1} /\ b.long_fired \in {0, 1} /\ b.hold \in Nat
        /\ b.pressed = 0 => b.hold = 0 /\ b.long_fired = 0
        /\ b.debounce = 0 => b.pressed = 0
        /\ b.pressed = 1 => hist.given[i] = b.long_fired
        /\ hist.given[i] <= 1
        /\ hist.steady[i] = 1 => ~ (i \in LongButtons /\ b.long_fired = 0 /\ b.hold >= l)
    BY <1>3 DEF KeyAgrees, ShortAfterLongHold, Button
  <2> HIDE DEF d, l, b, c
  <2>4. /\ c.pressed = 0 => c.hold = 0 /\ c.long_fired = 0
        /\ c.debounce = 0 => c.pressed = 0
        /\ c.pressed >= b.pressed
        /\ c.pressed > b.pressed => c.debounce >= d
        /\ c.debounce <= hist'.run[i] \/ hist'.run[i] = HOLD_MAX
    BY <1>2, <1>3, <1>4, <1>5, <2>2 DEF KeyAgrees, Button, b
  <2>5. (c.pressed = 1 => hist'.given[i] = c.long_fired) /\ hist'.given[i] <= 1
    BY <1>4, <2>2, <2>3, <2>8
  <2>6. hist'.steady[i] = 1 => ~ (i \in LongButtons /\ c.long_fired = 0 /\ c.hold >= l)
    BY <1>2, <1>4, <2>2, <2>8
  <2>7. ~ (c.pressed < b.pressed)
    BY <2>2, <2>8, <2>4
  <2>9. KeyAgrees(i)'
    BY <1>1, <2>4, <2>5, <2>6 DEF KeyAgrees, ShortAfterLongHold, c, l
  <2>10. QED
    BY <2>4, <2>7, <2>9 DEF b, c, d
<1>6. CASE i \notin down
  <2>1. c = Up(b)
    BY <1>1, <1>6 DEF Sampled
  <2>2. (Asks(i, down) # NoEvent) <=> b.pressed = 1 /\ b.long_fired = 0
    BY <1>6 DEF Asks, NoEvent
  <2>3. c \in Button /\ c.debounce = 0 /\ c.pressed = 0 /\ c.hold = 0 /\ c.long_fired = 0
    BY <1>3, <2>1 DEF Up, Released, Button, KeyAgrees
  <2>4. (b.pressed = 1 => hist'.given[i] = 1) /\ hist'.given[i] <= 1
    BY <1>3, <1>4, <2>2 DEF KeyAgrees, Button
  <2>5. QED
    BY <1>1, <1>2, <1>3, <1>4, <1>6, <2>3, <2>4, SMTT(30) DEF KeyAgrees, ShortAfterLongHold, Button
<1>7. QED
  BY <1>5, <1>6

LEMMA AgreeStep == Types /\ Agree /\ [Next]_vars => Agree'
<1> SUFFICES ASSUME Types, Agree, [Next]_vars, NEW i \in Keys PROVE KeyAgrees(i)'
  BY DEF Agree
<1>1. ASSUME Scan PROVE KeyAgrees(i)'
  BY <1>1, SampleAgrees
<1>2. ASSUME MasterWrites \/ ClearBox \/ Return PROVE KeyAgrees(i)'
  <2>1. /\ hist'.run = hist.run /\ hist'.given = hist.given /\ hist'.steady = hist.steady
        /\ btn' = btn /\ timing' = timing
    BY <1>2 DEF MasterWrites, MasterPress, ClearBox, AfterClear, Take, Return, Types, History
  <2>2. QED
    BY <2>1 DEF Agree, KeyAgrees, ShortAfterLongHold
<1>3. ASSUME ReadBox \/ UNCHANGED vars PROVE KeyAgrees(i)'
  BY <1>3 DEF ReadBox, vars, Agree, KeyAgrees, ShortAfterLongHold
<1>4. ASSUME NEW t \in Timings, MasterTiming(t) PROVE KeyAgrees(i)'
  BY <1>4 DEF MasterTiming, Agree, KeyAgrees, ShortAfterLongHold, Types, History
<1>5. QED
  BY <1>1, <1>2, <1>3, <1>4 DEF Next, Ui, MasterWrites

LEMMA AgreeInvariant == Spec => []Agree
  BY AgreeInit, AgreeStep, TypesInvariant, PTL DEF Spec

(* Only a sample touches a key.                                            *)
LEMMA OnlyScan == [Next]_vars /\ ~ Scan => btn' = btn
  BY DEF Next, Ui, ReadBox, ClearBox, AfterClear, Return, MasterPress, MasterTiming, vars

(* From press to release a key asks for one event, whatever happens to the *)
(* timings; and if they stand, for the short one only after a short hold.  *)
THEOREM OnePress == Spec => OnePressOneEvent
<1>1. Types /\ Agree /\ [Next]_vars =>
        [\A i \in Keys : btn'[i].pressed < btn[i].pressed =>
           /\ hist'.given[i] = 1
           /\ hist.steady[i] = 1 => ~ ShortAfterLongHold(i)]_vars
  <2> SUFFICES ASSUME Types, Agree, [Next]_vars, NEW i \in Keys, btn'[i].pressed < btn[i].pressed
               PROVE  hist'.given[i] = 1 /\ (hist.steady[i] = 1 => ~ ShortAfterLongHold(i))
    OBVIOUS
  <2>1. btn[i].pressed \in {0, 1}
    BY DEF Types, TypeOK, Button
  <2>2. Scan
    BY <2>1, OnlyScan
  <2>3. QED
    BY <2>2, SampleAgrees
<1>2. QED
  BY <1>1, TypesInvariant, AgreeInvariant, PTL DEF Spec, OnePressOneEvent

(* A key counts as pressed only after as many samples down in a row as the *)
(* debounce time asks for.  The history counts them up to HOLD_MAX.        *)
THEOREM Debounced ==
  ASSUME DEB_MAX + DEB_DEFAULT <= HOLD_MAX
  PROVE  Spec => PressIsDebounced
<1>1. Types /\ Agree /\ [Next]_vars =>
        [\A i \in Keys : btn'[i].pressed > btn[i].pressed =>
           hist'.run[i] >= DebTicks(timing.deb)]_vars
  <2> SUFFICES ASSUME Types, Agree, [Next]_vars, NEW i \in Keys, btn'[i].pressed > btn[i].pressed
               PROVE  hist'.run[i] >= DebTicks(timing.deb)
    OBVIOUS
  <2>1. btn[i].pressed \in {0, 1}
    BY DEF Types, TypeOK, Button
  <2>2. Scan
    BY <2>1, OnlyScan
  <2>3. /\ btn'[i].debounce >= DebTicks(timing.deb)
        /\ btn'[i].debounce <= hist'.run[i] \/ hist'.run[i] = HOLD_MAX
    BY <2>2, SampleAgrees DEF KeyAgrees
  <2>4. btn'[i].debounce \in Nat /\ hist'.run[i] \in Nat
    <3>1. Types'
      BY StepTypes
    <3>2. btn' \in [Keys -> Button] /\ hist'.run \in [Keys -> 0 .. HOLD_MAX]
      BY <3>1 DEF Types, TypeOK, History
    <3>3. QED
      BY <3>2, SMTT(30) DEF Button
  <2>5. DebTicks(timing.deb) \in 1 .. DEB_MAX + DEB_DEFAULT
    <3>1. timing.deb \in Nat
      BY DEF Types, TypeOK
    <3>2. QED
      BY <3>1, TicksType
  <2>6. QED
    BY <2>3, <2>4, <2>5
<1>2. QED
  BY <1>1, TypesInvariant, AgreeInvariant, PTL DEF Spec, PressIsDebounced
=============================================================================
