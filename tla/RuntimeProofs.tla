---------------------------- MODULE RuntimeProofs ----------------------------
(***************************************************************************)
(* How late a round of task_ui can be, and how well the counts of btn_scan *)
(* measure a press, for every period, length of a work and watchdog time,  *)
(* whatever the works, the stalls and the bounces are.                     *)
(***************************************************************************)
EXTENDS Runtime, TLAPS

LEMMA Constants ==
  /\ BTN_SCAN_MS \in Nat \ {0} /\ DebTicks \in Nat \ {0} /\ LongTicks \in Nat \ {0}
  /\ WDT_TIMEOUT_MS \in Nat \ {0} /\ Draw \in Nat \ {0} /\ Save \in Nat \ {0}
  /\ BootTime \in Nat /\ MaxDebt \in Nat
  BY RuntimeAssumption DEF RuntimeAssumption

USE Constants

(* So many periods; a product the provers need not look into.              *)
Periods(k) == k * BTN_SCAN_MS

LEMMA PeriodsAre ==
  ASSUME NEW k \in Nat
  PROVE  /\ Periods(k) \in Nat /\ Periods(k + 1) = Periods(k) + BTN_SCAN_MS
         /\ Periods(0) = 0
BY DEF Periods

LEMMA PeriodsGrow ==
  ASSUME NEW j \in Nat, NEW k \in Nat, j <= k
  PROVE  Periods(j) <= Periods(k)
<1>1. k - j \in Nat /\ k = j + (k - j)
  OBVIOUS
<1>2. \A d \in Nat : d * BTN_SCAN_MS >= 0 /\ (j + d) * BTN_SCAN_MS = j * BTN_SCAN_MS + d * BTN_SCAN_MS
  OBVIOUS
<1>3. QED
  BY <1>1, <1>2 DEF Periods

LEMMA AgeBound == MaxAge \in Nat
<1>1. Periods(DebTicks) \in Nat
  BY PeriodsAre
<1>2. QED
  BY <1>1 DEF MaxAge, Periods

-----------------------------------------------------------------------------
(* The inductive invariant.                                                *)
(* What a round takes beyond its period is in the debt from its beginning. *)
Owes ==
  /\ ui = "scan" => lag <= hist.debt
  /\ ui = "work" => lag + left <= hist.debt + BTN_SCAN_MS
  /\ ui \in {"until", "hung"} => lag <= hist.debt + BTN_SCAN_MS

(* The counters of btn_scan go one after the other; none of them counts    *)
(* before the loop.                                                        *)
CountersAgree ==
  /\ btn.deb < DebTicks => btn.hold = 0 /\ ~btn.long
  /\ btn.deb = DebTicks => btn.hold >= 1
  /\ ~btn.long => btn.hold < LongTicks
  /\ ui = "init" => btn = NoPress

(* How far the next sample is ahead of what the counters stand for.        *)
Pending == IF ui \in {"scan", "sleep"} THEN BTN_SCAN_MS ELSE 0

(* A key that is down has one sample for each period but the lateness.     *)
NotOverlooked ==
  (key /\ ui \notin {"init", "hung"} /\ btn.deb < DebTicks)
    => hist.age <= Periods(btn.deb) + lag + Pending

(* Samples in the press, and the time from the first to the last of them.  *)
Samples(b) == IF b.deb < DebTicks THEN b.deb ELSE DebTicks + b.hold - 1

SpanExact ==
  (btn.deb > 0 /\ ~btn.long)
    => hist.span = Periods(Samples(btn) - 1) + lag + Pending - hist.first

IInv == TypeOK /\ Owes /\ CountersAgree /\ NotOverlooked /\ SpanExact

LEMMA TypeParts ==
  ASSUME TypeOK
  PROVE  /\ btn \in BtnType /\ hist \in HistType
         /\ btn.deb \in 0 .. DebTicks /\ btn.hold \in 0 .. LongTicks + 1 /\ btn.long \in BOOLEAN
         /\ hist.age \in 0 .. MaxAge /\ hist.span \in Nat /\ hist.first \in Nat /\ hist.debt \in Nat
         /\ left \in Nat /\ lag \in Int /\ lag >= -BTN_SCAN_MS
BY AgeBound DEF TypeOK, BtnType, HistType

LEMMA NoPressIs ==
  /\ NoPress \in BtnType /\ NoPress.deb = 0 /\ NoPress.hold = 0 /\ NoPress.long = FALSE
  /\ NoHistory \in HistType
  /\ NoHistory.age = 0 /\ NoHistory.span = 0 /\ NoHistory.first = 0 /\ NoHistory.debt = 0
BY AgeBound DEF NoPress, NoHistory, BtnType, HistType

(* A boot leaves nothing counted.                                          *)
LEMMA Booted ==
  ASSUME ui = "init", left = BootTime, lag = 0, stall = FALSE, dog = 0, btn = NoPress,
         hist = NoHistory, key \in BOOLEAN
  PROVE  IInv
<1>1. TypeOK
  <2>1. btn \in BtnType /\ hist \in HistType
    BY NoPressIs
  <2>2. lag \in Int /\ lag >= -BTN_SCAN_MS /\ ~(lag < 0) /\ dog \in 0 .. WDT_TIMEOUT_MS
    BY DEF TypeOK
  <2>3. QED
    BY <2>1, <2>2 DEF TypeOK
<1>2. QED
  BY <1>1, NoPressIs DEF IInv, Owes, CountersAgree, NotOverlooked, SpanExact

LEMMA InitInv == Init => IInv
BY Booted DEF Init

-----------------------------------------------------------------------------
(* A sample.                                                               *)
LEMMA SampleIs ==
  ASSUME IInv, key
  PROVE  /\ Sampled \in BtnType
         /\ Sampled.deb = IF btn.deb = DebTicks THEN DebTicks ELSE btn.deb + 1
         /\ Sampled.deb = DebTicks =>
              Sampled.hold = IF btn.hold = LongTicks + 1 THEN LongTicks + 1 ELSE btn.hold + 1
         /\ Sampled.deb # DebTicks => Sampled.hold = btn.hold
         /\ Sampled.long = (btn.long \/ Sampled.hold = LongTicks)
<1> DEFINE deb == Capped(btn.deb + 1, DebTicks)
           hold == IF deb = DebTicks THEN Capped(btn.hold + 1, LongTicks + 1) ELSE btn.hold
<1>1. btn.deb \in 0 .. DebTicks /\ btn.hold \in 0 .. LongTicks + 1 /\ btn.long \in BOOLEAN
  BY TypeParts DEF IInv
<1>2. /\ deb \in 0 .. DebTicks /\ deb = IF btn.deb = DebTicks THEN DebTicks ELSE btn.deb + 1
      /\ hold \in 0 .. LongTicks + 1
      /\ deb = DebTicks => hold = IF btn.hold = LongTicks + 1 THEN LongTicks + 1 ELSE btn.hold + 1
      /\ deb # DebTicks => hold = btn.hold
  BY <1>1 DEF Capped
<1>3. Sampled = [deb |-> deb, hold |-> hold, long |-> btn.long \/ hold = LongTicks]
  BY DEF Down, Sampled
<1> HIDE DEF deb, hold
<1>4. QED
  BY <1>1, <1>2, <1>3 DEF BtnType

LEMMA SampledType ==
  ASSUME IInv PROVE Sampled \in BtnType
<1>1. CASE key
  BY <1>1, SampleIs
<1>2. CASE ~key
  BY <1>2, NoPressIs DEF Sampled
<1>3. QED
  BY <1>1, <1>2

LEMMA ScanIs ==
  ASSUME IInv, Scan
  PROVE  /\ ui = "scan" /\ lag \in Nat /\ btn' = Sampled /\ dog' = 0 /\ UNCHANGED <<lag, stall, key>>
         /\ left' \in Nat /\ ui' \in {"until", "work"}
         /\ hist' \in HistType
         /\ hist'.age = hist.age
         /\ key /\ btn.deb > 0 => hist'.span = hist.span /\ hist'.first = hist.first
         /\ key /\ btn.deb = 0 => hist'.span = 0 /\ hist'.first = lag
         /\ hist'.debt + BTN_SCAN_MS >= hist.debt + left'
         /\ hist'.debt >= hist.debt
<1>1. /\ ui = "scan" /\ btn' = Sampled /\ dog' = 0 /\ UNCHANGED <<lag, stall, key>>
  BY DEF Scan, UiAt
<1>2. lag \in Nat
  BY <1>1, TypeParts DEF IInv, TypeOK
<1>3. PICK w \in WorkLengths :
        /\ left' = w /\ ui' = IF w = 0 THEN "until" ELSE "work"
        /\ hist' = [age   |-> hist.age,
                    span  |-> IF key /\ btn.deb > 0 THEN hist.span ELSE 0,
                    first |-> IF ~key THEN 0 ELSE IF btn.deb = 0 THEN lag ELSE hist.first,
                    debt  |-> hist.debt + Excess(w)]
  BY DEF Scan
<1>4. w \in Nat
  BY DEF WorkLengths
<1>5. Excess(w) \in Nat /\ Excess(w) + BTN_SCAN_MS >= w
  BY <1>4 DEF Excess
<1> DEFINE x == Excess(w)
<1> HIDE DEF x
<1>6. x \in Nat /\ x + BTN_SCAN_MS >= w /\ hist'.debt = hist.debt + x
  BY <1>3, <1>5 DEF x
<1>7. hist.age \in 0 .. MaxAge /\ hist.span \in Nat /\ hist.first \in Nat /\ hist.debt \in Nat
      /\ btn.deb \in 0 .. DebTicks
  BY TypeParts DEF IInv
<1>8. hist' \in HistType
  BY <1>2, <1>3, <1>5, <1>7 DEF HistType
<1>9. /\ hist'.age = hist.age
      /\ key /\ btn.deb > 0 => hist'.span = hist.span /\ hist'.first = hist.first
      /\ key /\ btn.deb = 0 => hist'.span = 0 /\ hist'.first = lag
  BY <1>3, <1>7
<1>10. hist'.debt + BTN_SCAN_MS >= hist.debt + left' /\ hist'.debt >= hist.debt
  BY <1>3, <1>4, <1>6, <1>7
<1>11. left' \in Nat /\ ui' \in {"until", "work"}
  BY <1>3, <1>4
<1>12. QED
  BY <1>1, <1>2, <1>8, <1>9, <1>10, <1>11

(* A sample of a key that is down is one more of the press, and it comes   *)
(* as late as its round.                                                   *)
LEMMA ScanSpan ==
  ASSUME IInv, Scan, key, ~btn.long
  PROVE  /\ Samples(btn') \in Nat \ {0}
         /\ hist'.span = Periods(Samples(btn') - 1) + lag - hist'.first
<1>1. /\ ui = "scan" /\ lag \in Nat /\ btn' = Sampled
      /\ key /\ btn.deb > 0 => hist'.span = hist.span /\ hist'.first = hist.first
      /\ key /\ btn.deb = 0 => hist'.span = 0 /\ hist'.first = lag
  BY ScanIs
<1>2. /\ btn.deb \in 0 .. DebTicks /\ btn.hold \in 0 .. LongTicks + 1
      /\ hist.span \in Nat /\ hist.first \in Nat
  BY TypeParts DEF IInv
<1>3. /\ btn.deb < DebTicks => btn.hold = 0
      /\ btn.deb = DebTicks => btn.hold >= 1
      /\ btn.hold < LongTicks
  BY DEF IInv, CountersAgree
<1>4. /\ btn'.deb = IF btn.deb = DebTicks THEN DebTicks ELSE btn.deb + 1
      /\ btn'.deb = DebTicks =>
           btn'.hold = IF btn.hold = LongTicks + 1 THEN LongTicks + 1 ELSE btn.hold + 1
  BY <1>1, SampleIs
<1>5. CASE btn.deb = 0
  <2>1. Samples(btn') = 1
    BY <1>2, <1>3, <1>4, <1>5 DEF Samples
  <2>2. Periods(0) = 0
    BY PeriodsAre
  <2>3. QED
    BY <1>1, <1>5, <2>1, <2>2
<1>6. CASE btn.deb > 0
  <2>1. Samples(btn) \in Nat \ {0} /\ Samples(btn') = Samples(btn) + 1
    <3>1. CASE btn.deb = DebTicks
      <4>1. btn'.deb = DebTicks /\ btn'.hold = btn.hold + 1 /\ btn.hold \in Nat \ {0}
        BY <1>2, <1>3, <1>4, <3>1
      <4>2. QED
        BY <3>1, <4>1 DEF Samples
    <3>2. CASE btn.deb + 1 = DebTicks
      <4>1. btn'.deb = DebTicks /\ btn'.hold = 1 /\ btn.deb \in Nat
        BY <1>2, <1>3, <1>4, <3>2
      <4>2. QED
        BY <1>6, <3>2, <4>1 DEF Samples
    <3>3. CASE btn.deb + 1 < DebTicks
      <4>1. btn'.deb = btn.deb + 1 /\ btn.deb \in Nat
        BY <1>2, <1>4, <3>3
      <4>2. QED
        BY <1>6, <3>3, <4>1 DEF Samples
    <3>4. QED
      BY <1>2, <3>1, <3>2, <3>3
  <2> DEFINE n == Samples(btn) - 1
  <2>2. n \in Nat /\ Samples(btn') - 1 = n + 1
    BY <2>1
  <2>3. hist.span = Periods(n) + lag + BTN_SCAN_MS - hist.first
    BY <1>1, <1>6 DEF IInv, SpanExact, Pending
  <2> HIDE DEF n
  <2>4. Periods(n) \in Nat /\ Periods(n + 1) = Periods(n) + BTN_SCAN_MS
    BY <2>2, PeriodsAre
  <2>5. hist'.span = Periods(n + 1) + lag - hist'.first
    BY <1>1, <1>2, <1>6, <2>3, <2>4
  <2>6. QED
    BY <2>1, <2>2, <2>5
<1>7. QED
  BY <1>2, <1>5, <1>6

LEMMA ScanKeeps == ASSUME IInv, Scan PROVE IInv'
<1>1. /\ ui = "scan" /\ lag \in Nat /\ btn' = Sampled /\ dog' = 0 /\ UNCHANGED <<lag, stall, key>>
      /\ left' \in Nat /\ ui' \in {"until", "work"} /\ hist' \in HistType /\ hist'.age = hist.age
      /\ hist'.debt + BTN_SCAN_MS >= hist.debt + left' /\ hist'.debt >= hist.debt
  BY ScanIs
<1>2. TypeOK'
  BY <1>1, SampledType DEF IInv, TypeOK
<1>3. /\ btn.deb \in 0 .. DebTicks /\ btn.hold \in 0 .. LongTicks + 1 /\ btn.long \in BOOLEAN
      /\ hist.age \in 0 .. MaxAge /\ hist.debt \in Nat /\ hist'.debt \in Nat
  BY <1>1, TypeParts DEF IInv, HistType
<1>4. Owes'
  <2>1. lag <= hist.debt
    BY <1>1 DEF IInv, Owes
  <2>2. lag + left' <= hist'.debt + BTN_SCAN_MS /\ lag <= hist'.debt + BTN_SCAN_MS
    BY <1>1, <1>3, <2>1
  <2>3. QED
    BY <1>1, <2>2 DEF Owes
<1>5. CASE ~key
  <2>1. btn' = NoPress /\ btn'.deb = 0 /\ btn'.hold = 0 /\ ~btn'.long
    BY <1>1, <1>5, NoPressIs DEF Sampled
  <2>2. QED
    BY <1>1, <1>2, <1>4, <1>5, <2>1
       DEF IInv, CountersAgree, NotOverlooked, SpanExact
<1>6. CASE key
  <2>1. /\ btn'.deb = IF btn.deb = DebTicks THEN DebTicks ELSE btn.deb + 1
        /\ btn'.deb = DebTicks =>
             btn'.hold = IF btn.hold = LongTicks + 1 THEN LongTicks + 1 ELSE btn.hold + 1
        /\ btn'.deb # DebTicks => btn'.hold = btn.hold
        /\ btn'.long = (btn.long \/ btn'.hold = LongTicks)
    BY <1>1, <1>6, SampleIs
  <2>2. /\ btn.deb < DebTicks => btn.hold = 0 /\ ~btn.long
        /\ btn.deb = DebTicks => btn.hold >= 1
        /\ ~btn.long => btn.hold < LongTicks
    BY DEF IInv, CountersAgree
  <2>3. CountersAgree'
    <3>1. ui' # "init"
      BY <1>1
    <3>2. btn'.deb < DebTicks => btn'.hold = 0 /\ ~btn'.long
      BY <1>3, <2>1, <2>2
    <3>3. btn'.deb = DebTicks => btn'.hold >= 1
      BY <1>3, <2>1, <2>2
    <3>4. ~btn'.long => btn'.hold < LongTicks
      <4>1. SUFFICES ASSUME ~btn'.long PROVE btn'.hold < LongTicks
        OBVIOUS
      <4>2. btn.hold < LongTicks /\ btn'.hold # LongTicks
        BY <2>1, <2>2, <4>1
      <4>3. CASE btn'.deb = DebTicks
        BY <1>3, <2>1, <4>2, <4>3
      <4>4. CASE btn'.deb # DebTicks
        BY <2>1, <4>2, <4>4
      <4>5. QED
        BY <4>3, <4>4
    <3>5. QED
      BY <3>1, <3>2, <3>3, <3>4 DEF CountersAgree
  <2>4. NotOverlooked'
    <3>6. Pending' = 0
      BY <1>1 DEF Pending
    <3>1. SUFFICES ASSUME btn'.deb < DebTicks
                   PROVE  hist'.age <= Periods(btn'.deb) + lag' + 0
      BY <3>6 DEF NotOverlooked
    <3>2. btn.deb < DebTicks /\ btn'.deb = btn.deb + 1
      BY <1>3, <2>1, <3>1
    <3>3. hist.age <= Periods(btn.deb) + lag + BTN_SCAN_MS
      BY <1>1, <1>6, <3>2 DEF IInv, NotOverlooked, Pending
    <3>4. Periods(btn.deb) \in Nat /\ Periods(btn.deb + 1) = Periods(btn.deb) + BTN_SCAN_MS
      BY <1>3, PeriodsAre
    <3>5. QED
      BY <1>1, <1>3, <3>2, <3>3, <3>4, AgeBound
  <2>5. SpanExact'
    <3>1. Pending' = 0 /\ lag' = lag
      BY <1>1 DEF Pending
    <3>2. SUFFICES ASSUME ~btn'.long
                   PROVE  hist'.span = Periods(Samples(btn') - 1) + lag + 0 - hist'.first
      BY <3>1 DEF SpanExact
    <3>3. ~btn.long
      BY <2>1, <3>2
    <3>4. /\ Samples(btn') \in Nat \ {0}
          /\ hist'.span = Periods(Samples(btn') - 1) + lag - hist'.first
      BY <1>6, <3>3, ScanSpan
    <3>5. lag + 0 = lag
      BY <1>1
    <3> DEFINE n == Periods(Samples(btn') - 1)
    <3>6. n \in Nat
      BY <3>4, PeriodsAre
    <3>7. hist'.span = n + lag - hist'.first /\ hist'.first \in Nat
      BY <1>1, <3>4 DEF HistType
    <3> HIDE DEF n
    <3>8. hist'.span = n + lag + 0 - hist'.first
      BY <1>1, <3>6, <3>7
    <3>9. QED
      BY <3>8 DEF n
  <2>6. QED
    BY <1>2, <1>4, <2>3, <2>4, <2>5 DEF IInv
<1>7. QED
  BY <1>3, <1>5, <1>6

-----------------------------------------------------------------------------
(* Time passes.                                                            *)
LEMMA TickKeeps == ASSUME IInv, Tick PROVE IInv'
<1>1. /\ Settled /\ dog < WDT_TIMEOUT_MS /\ dog' = (IF stall THEN dog + 1 ELSE 0) /\ hist' = Aged
      /\ left' = (IF ui \in {"init", "work"} /\ ~stall THEN left - 1 ELSE left)
      /\ lag' = (IF ui \in {"init", "hung"} THEN lag ELSE lag + 1)
      /\ ui' = (IF ui = "work" /\ left' = 0 THEN "until"
                ELSE IF ui = "sleep" /\ lag' = 0 THEN "scan" ELSE ui)
      /\ UNCHANGED <<stall, key, btn>>
  BY DEF Tick
<1>2. /\ btn.deb \in 0 .. DebTicks /\ btn.hold \in 0 .. LongTicks + 1 /\ btn.long \in BOOLEAN
      /\ hist.age \in 0 .. MaxAge /\ hist.span \in Nat /\ hist.first \in Nat /\ hist.debt \in Nat
      /\ left \in Nat /\ lag \in Int /\ lag >= -BTN_SCAN_MS
      /\ dog \in 0 .. WDT_TIMEOUT_MS /\ stall \in BOOLEAN /\ key \in BOOLEAN
      /\ ui \in {"init", "scan", "work", "until", "sleep", "hung"} /\ (ui = "sleep" <=> lag < 0)
  BY TypeParts DEF IInv, TypeOK
<1>3. /\ hist'.age = IF key THEN Capped(hist.age + 1, MaxAge) ELSE 0
      /\ hist'.span = IF Counting THEN hist.span + 1 ELSE hist.span
      /\ hist'.first = hist.first
      /\ hist'.debt = IF stall /\ ui \notin {"init", "hung"} THEN hist.debt + 1 ELSE hist.debt
      /\ hist' = [age |-> hist'.age, span |-> hist'.span, first |-> hist'.first, debt |-> hist'.debt]
  BY <1>1 DEF Aged
<1>4. hist'.age \in 0 .. MaxAge /\ (key => hist'.age <= hist.age + 1)
  BY <1>2, <1>3, AgeBound DEF Capped
<1>5. hist' \in HistType
  <2>1. hist'.span \in Nat /\ hist'.first \in Nat /\ hist'.debt \in Nat
    BY <1>2, <1>3
  <2>2. QED
    BY <1>3, <1>4, <2>1 DEF HistType
<1>6. left' \in Nat
  <2>1. CASE ui \in {"init", "work"} /\ ~stall
    BY <1>1, <1>2, <2>1 DEF Settled
  <2>2. CASE ~(ui \in {"init", "work"} /\ ~stall)
    BY <1>1, <1>2, <2>2
  <2>3. QED
    BY <2>1, <2>2
<1>7. TypeOK'
  <2>1. lag' \in Int /\ lag' >= -BTN_SCAN_MS /\ dog' \in 0 .. WDT_TIMEOUT_MS
    BY <1>1, <1>2
  <2>2. ui' \in {"init", "scan", "work", "until", "sleep", "hung"} /\ (ui' = "sleep" <=> lag' < 0)
    BY <1>1, <1>2
  <2>3. btn' \in BtnType
    BY <1>1, TypeParts DEF IInv
  <2>4. QED
    BY <1>1, <1>2, <1>5, <1>6, <2>1, <2>2, <2>3 DEF TypeOK
<1>8. Owes'
  <2>1. Owes
    BY DEF IInv
  <2>2. CASE ui \in {"work", "until", "scan"}
    <3>1. lag' = lag + 1
      BY <1>1, <2>2
    <3>2. CASE stall
      BY <1>1, <1>2, <1>3, <2>1, <2>2, <3>1, <3>2 DEF Owes
    <3>3. CASE ~stall
      <4>1. ui = "work" /\ left > 0 /\ left' = left - 1
        BY <1>1, <1>2, <2>2, <3>3 DEF Settled
      <4>2. QED
        BY <1>1, <1>2, <1>3, <2>1, <3>1, <3>3, <4>1 DEF Owes
    <3>4. QED
      BY <1>2, <3>2, <3>3
  <2>3. CASE ui = "sleep"
    BY <1>1, <1>2, <1>3, <2>3 DEF Owes
  <2>4. CASE ui \in {"init", "hung"}
    BY <1>1, <1>2, <1>3, <2>1, <2>4 DEF Owes
  <2>5. QED
    BY <1>2, <2>2, <2>3, <2>4
<1>9. CountersAgree'
  BY <1>1, <1>2 DEF IInv, CountersAgree
<1>10. Pending' = Pending
  BY <1>1, <1>2 DEF Pending
<1>11. Pending \in Int
  BY DEF Pending
<1>12. NotOverlooked'
  <2>1. SUFFICES ASSUME key, ui' \notin {"init", "hung"}, btn.deb < DebTicks
                 PROVE  hist'.age <= Periods(btn.deb) + lag' + Pending
    BY <1>1, <1>10 DEF NotOverlooked
  <2>2. ui \notin {"init", "hung"}
    BY <1>1, <1>2, <2>1
  <2>3. hist.age <= Periods(btn.deb) + lag + Pending
    BY <2>1, <2>2 DEF IInv, NotOverlooked
  <2>4. Periods(btn.deb) \in Nat
    BY <1>2, PeriodsAre
  <2>5. QED
    BY <1>1, <1>2, <1>4, <1>11, <2>1, <2>2, <2>3, <2>4
<1>13. SpanExact'
  <2>1. SUFFICES ASSUME btn.deb > 0, ~btn.long
                 PROVE  hist'.span = Periods(Samples(btn) - 1) + lag' + Pending - hist.first
    BY <1>1, <1>3, <1>10 DEF SpanExact
  <2>2. hist.span = Periods(Samples(btn) - 1) + lag + Pending - hist.first
    BY <2>1 DEF IInv, SpanExact
  <2>3. ui # "init"
    BY <2>1, NoPressIs DEF IInv, CountersAgree
  <2>4. Samples(btn) - 1 \in Nat
    BY <1>2, <2>1 DEF IInv, CountersAgree, Samples
  <2>5. Periods(Samples(btn) - 1) \in Nat
    BY <2>4, PeriodsAre
  <2>6. CASE ui = "hung"
    BY <1>1, <1>3, <2>2, <2>6 DEF Counting
  <2>7. CASE ui # "hung"
    <3>1. hist'.span = hist.span + 1 /\ lag' = lag + 1
      BY <1>1, <1>3, <2>1, <2>3, <2>7 DEF Counting
    <3>2. QED
      BY <1>2, <1>11, <2>2, <2>5, <3>1
  <2>8. QED
    BY <2>6, <2>7
<1>14. QED
  BY <1>7, <1>8, <1>9, <1>12, <1>13 DEF IInv

-----------------------------------------------------------------------------
(* The other steps.                                                        *)
LEMMA StartKeeps == ASSUME IInv, StartLoop PROVE IInv'
<1>1. /\ ui = "init" /\ ui' = "scan" /\ lag' = 0 /\ hist' = NoHistory
      /\ UNCHANGED <<left, stall, dog, key, btn>>
  BY DEF StartLoop, UiAt
<1>2. btn = NoPress
  BY <1>1 DEF IInv, CountersAgree
<1>3. TypeOK'
  BY <1>1, NoPressIs DEF IInv, TypeOK
<1>4. Periods(0) = 0 /\ Pending' = BTN_SCAN_MS
  BY <1>1, PeriodsAre DEF Pending
<1>5. QED
  BY <1>1, <1>2, <1>3, <1>4, NoPressIs DEF IInv, Owes, CountersAgree, NotOverlooked, SpanExact

LEMMA DelayKeeps == ASSUME IInv, DelayUntil PROVE IInv'
<1>1. /\ ui = "until" /\ lag' = lag - BTN_SCAN_MS
      /\ ui' = (IF lag' < 0 THEN "sleep" ELSE "scan")
      /\ hist' = (IF lag' < 0 THEN [hist EXCEPT !.debt = 0] ELSE hist)
      /\ UNCHANGED <<left, stall, dog, key, btn>>
  BY DEF DelayUntil, UiAt
<1>2. /\ btn.deb \in 0 .. DebTicks /\ btn.hold \in 0 .. LongTicks + 1 /\ btn.long \in BOOLEAN
      /\ hist \in HistType
      /\ hist.age \in 0 .. MaxAge /\ hist.span \in Nat /\ hist.first \in Nat /\ hist.debt \in Nat
      /\ lag \in Int /\ lag >= 0
  BY <1>1, TypeParts DEF IInv, TypeOK
<1>3. /\ hist' \in HistType /\ hist'.age = hist.age /\ hist'.span = hist.span
      /\ hist'.first = hist.first /\ (lag' >= 0 => hist'.debt = hist.debt)
  BY <1>1, <1>2 DEF HistType
<1>4. TypeOK'
  BY <1>1, <1>2, <1>3 DEF IInv, TypeOK
<1>5. Owes'
  <2>1. lag <= hist.debt + BTN_SCAN_MS
    BY <1>1 DEF IInv, Owes
  <2>2. QED
    BY <1>1, <1>2, <1>3, <2>1 DEF Owes
<1>6. CountersAgree'
  BY <1>1 DEF IInv, CountersAgree
<1>7. lag' + Pending' = lag + Pending /\ Pending \in Int /\ Pending' \in Int /\ lag' \in Int
  BY <1>1, <1>2 DEF Pending
<1>8. NotOverlooked'
  <2>1. SUFFICES ASSUME key, btn.deb < DebTicks
                 PROVE  hist.age <= Periods(btn.deb) + lag' + Pending'
    BY <1>1, <1>3 DEF NotOverlooked
  <2>2. hist.age <= Periods(btn.deb) + lag + Pending
    BY <1>1, <2>1 DEF IInv, NotOverlooked
  <2>3. Periods(btn.deb) \in Nat /\ hist.age \in Int /\ lag \in Int
    BY <1>2, PeriodsAre, AgeBound
  <2> DEFINE n == Periods(btn.deb)
             x == lag'
             y == Pending'
             z == Pending
  <2>4. n \in Nat /\ x \in Int /\ y \in Int /\ z \in Int /\ x + y = lag + z
    BY <1>7, <2>3
  <2>5. hist.age <= n + lag + z
    BY <2>2
  <2> HIDE DEF n, x, y, z
  <2>6. hist.age <= n + x + y
    BY <2>3, <2>4, <2>5
  <2>7. QED
    BY <2>6 DEF n, x, y
<1>9. SpanExact'
  <2>1. SUFFICES ASSUME btn.deb > 0, ~btn.long
                 PROVE  hist.span = Periods(Samples(btn) - 1) + lag' + Pending' - hist.first
    BY <1>1, <1>3 DEF SpanExact
  <2>2. hist.span = Periods(Samples(btn) - 1) + lag + Pending - hist.first
    BY <2>1 DEF IInv, SpanExact
  <2>3. Samples(btn) - 1 \in Nat
    BY <1>2, <2>1 DEF IInv, CountersAgree, Samples
  <2> DEFINE n == Periods(Samples(btn) - 1)
             x == lag'
             y == Pending'
             z == Pending
  <2>4. n \in Nat /\ hist.first \in Nat /\ lag \in Int
    BY <1>2, <2>3, PeriodsAre
  <2>5. x \in Int /\ y \in Int /\ z \in Int /\ x + y = lag + z
    BY <1>7
  <2>6. hist.span = n + lag + z - hist.first
    BY <2>2
  <2> HIDE DEF n, x, y, z
  <2>7. n + lag + z = n + x + y
    BY <2>4, <2>5
  <2>8. hist.span = n + x + y - hist.first
    BY <2>4, <2>5, <2>6, <2>7
  <2>9. QED
    BY <2>8 DEF n, x, y
<1>10. QED
  BY <1>4, <1>5, <1>6, <1>8, <1>9 DEF IInv

LEMMA HangKeeps == ASSUME IInv, Hang PROVE IInv'
<1>1. ui = "work" /\ ui' = "hung" /\ UNCHANGED <<left, lag, stall, dog, key, btn, hist>>
  BY DEF Hang, UiAt
<1>2. TypeOK'
  BY <1>1 DEF IInv, TypeOK
<1>3. Owes'
  BY <1>1, TypeParts DEF IInv, Owes
<1>4. Pending' = Pending
  BY <1>1 DEF Pending
<1>5. QED
  BY <1>1, <1>2, <1>3, <1>4 DEF IInv, CountersAgree, NotOverlooked, SpanExact

LEMMA HostKeeps == ASSUME IInv, Stall \/ HostReads PROVE IInv'
<1>1. stall' \in BOOLEAN /\ UNCHANGED <<ui, left, lag, dog, key, btn, hist>>
  BY DEF Stall, HostReads, timing
<1>2. Pending' = Pending
  BY <1>1 DEF Pending
<1>3. QED
  BY <1>1, <1>2 DEF IInv, TypeOK, Owes, CountersAgree, NotOverlooked, SpanExact

LEMMA KeyKeeps == ASSUME IInv, KeyChange PROVE IInv'
<1>1. key' = ~key /\ hist' = [hist EXCEPT !.age = 0] /\ UNCHANGED <<ui, left, lag, stall, dog, btn>>
  BY DEF KeyChange, timing
<1>2. /\ hist' \in HistType /\ hist'.age = 0 /\ hist'.span = hist.span
      /\ hist'.first = hist.first /\ hist'.debt = hist.debt
  BY <1>1, TypeParts, AgeBound DEF IInv, HistType
<1>3. TypeOK'
  BY <1>1, <1>2 DEF IInv, TypeOK
<1>4. Owes' /\ CountersAgree'
  BY <1>1, <1>2 DEF IInv, Owes, CountersAgree
<1>5. Pending' = Pending
  BY <1>1 DEF Pending
<1>6. SpanExact'
  BY <1>1, <1>2, <1>5 DEF IInv, SpanExact
<1>7. NotOverlooked'
  <2>1. lag >= -BTN_SCAN_MS /\ lag \in Int /\ (ui = "sleep" <=> lag < 0) /\ btn.deb \in 0 .. DebTicks
    BY TypeParts DEF IInv, TypeOK
  <2>2. lag + Pending >= 0 /\ Pending \in Int
    BY <2>1 DEF Pending
  <2>3. Periods(btn.deb) \in Nat
    BY <2>1, PeriodsAre
  <2>4. QED
    BY <1>1, <1>2, <1>5, <2>1, <2>2, <2>3 DEF NotOverlooked
<1>8. QED
  BY <1>3, <1>4, <1>6, <1>7 DEF IInv

LEMMA ResetKeeps == ASSUME IInv, Reset PROVE IInv'
<1>1. /\ ui' = "init" /\ left' = BootTime /\ lag' = 0 /\ stall' = FALSE /\ dog' = 0 /\ btn' = NoPress
      /\ hist' = NoHistory /\ key' \in BOOLEAN
  BY DEF Reset, Boot, IInv, TypeOK
<1>2. TypeOK'
  <2>1. btn' \in BtnType /\ hist' \in HistType
    BY <1>1, NoPressIs
  <2>2. lag' \in Int /\ lag' >= -BTN_SCAN_MS /\ ~(lag' < 0) /\ dog' \in 0 .. WDT_TIMEOUT_MS
    BY <1>1
  <2>3. QED
    BY <1>1, <2>1, <2>2 DEF TypeOK
<1>3. QED
  BY <1>1, <1>2, NoPressIs DEF IInv, Owes, CountersAgree, NotOverlooked, SpanExact

LEMMA NextInv == IInv /\ [Next]_vars => IInv'
<1> SUFFICES ASSUME IInv, [Next]_vars PROVE IInv'
  OBVIOUS
<1>1. CASE UNCHANGED vars
  <2>1. UNCHANGED <<ui, left, lag, stall, dog, key, btn, hist>>
    BY <1>1 DEF vars, timing
  <2>2. Pending' = Pending
    BY <2>1 DEF Pending
  <2>3. QED
    BY <2>1, <2>2 DEF IInv, TypeOK, Owes, CountersAgree, NotOverlooked, SpanExact
<1>2. CASE Next
  BY <1>2, StartKeeps, ScanKeeps, DelayKeeps, HangKeeps, HostKeeps, TickKeeps, ResetKeeps, KeyKeeps
     DEF Next
<1>3. QED
  BY <1>1, <1>2

LEMMA Invariant == Spec => []IInv
<1>1. QED
  BY InitInv, NextInv, PTL DEF Spec

-----------------------------------------------------------------------------
(* A round begins at most as late as stalls and long works since the UI    *)
(* last slept make it: the loop of task_ui neither adds lateness nor       *)
(* carries it over a sleep, whatever a round does.                         *)
THEOREM RoundsPunctual == Spec => []Inv
<1>1. ASSUME IInv PROVE Inv
  <2>1. /\ left \in Nat /\ lag \in Int /\ hist.debt \in Nat
        /\ ui \in {"init", "scan", "work", "until", "sleep", "hung"} /\ (ui = "sleep" => lag < 0)
    BY <1>1, TypeParts DEF IInv, TypeOK
  <2>2. LagBounded
    BY <1>1, <2>1 DEF IInv, Owes, LagBounded
  <2>3. QED
    BY <1>1, <2>2 DEF IInv, Inv
<1>2. QED
  BY <1>1, Invariant, PTL

LEMMA StepMeasured ==
  ASSUME IInv, [Next]_vars
  PROVE  /\ (key /\ ~key' /\ ui \notin {"init", "hung"}
              /\ hist.age > DebTicks * BTN_SCAN_MS + lag) => btn.deb = DebTicks
         /\ (btn'.deb = DebTicks /\ btn.deb # DebTicks)
              => hist'.span >= (DebTicks - 1) * BTN_SCAN_MS - hist'.first
         /\ (btn'.long /\ ~btn.long)
              => hist'.span >= (DebTicks + LongTicks - 2) * BTN_SCAN_MS - hist'.first
<1>1. /\ btn.deb \in 0 .. DebTicks /\ btn.hold \in 0 .. LongTicks + 1 /\ btn.long \in BOOLEAN
      /\ hist.age \in Int /\ lag \in Int
  BY TypeParts, AgeBound DEF IInv
<1>2. ASSUME key, ui \notin {"init", "hung"}, hist.age > DebTicks * BTN_SCAN_MS + lag
      PROVE  btn.deb = DebTicks
  <2>1. SUFFICES ASSUME btn.deb < DebTicks PROVE FALSE
    BY <1>1
  <2>2. hist.age <= Periods(btn.deb) + lag + Pending
    BY <1>2, <2>1 DEF IInv, NotOverlooked
  <2>3. Pending \in Int /\ Pending <= BTN_SCAN_MS
    BY DEF Pending
  <2>4. /\ Periods(btn.deb) \in Nat /\ Periods(btn.deb + 1) = Periods(btn.deb) + BTN_SCAN_MS
        /\ Periods(btn.deb + 1) <= Periods(DebTicks) /\ Periods(DebTicks) \in Nat
    <3>1. btn.deb \in Nat /\ btn.deb + 1 \in Nat /\ btn.deb + 1 <= DebTicks
      BY <1>1, <2>1
    <3>2. QED
      BY <3>1, PeriodsAre, PeriodsGrow
  <2>5. hist.age > Periods(DebTicks) + lag
    BY <1>2 DEF Periods
  <2>6. QED
    BY <1>1, <2>2, <2>3, <2>4, <2>5
<1>3. ASSUME (btn'.deb = DebTicks /\ btn.deb # DebTicks) \/ (btn'.long /\ ~btn.long)
      PROVE  Scan /\ key /\ ~btn.long
  <2>1. btn' # btn
    BY <1>3
  <2>2. btn' # NoPress
    BY <1>3, NoPressIs
  <2>3. Scan
    BY <2>1, <2>2 DEF Next, vars, StartLoop, DelayUntil, Hang, Stall, HostReads, Tick, Reset, Boot,
                      KeyChange
  <2>4. key
    BY <2>2, <2>3 DEF Scan, Sampled
  <2>5. ~btn.long
    BY <1>1, <1>3 DEF IInv, CountersAgree
  <2>6. QED
    BY <2>3, <2>4, <2>5
<1>4. ASSUME Scan, key, ~btn.long, NEW n \in Nat, Samples(btn') = n + 1
      PROVE  hist'.span >= n * BTN_SCAN_MS - hist'.first
  <2>1. hist'.span = Periods(n) + lag - hist'.first
    <3>1. Samples(btn') - 1 = n
      BY <1>4
    <3>2. QED
      BY <1>4, <3>1, ScanSpan
  <2>2. lag \in Nat /\ hist'.first \in Nat /\ hist' \in HistType
    BY <1>4, ScanIs DEF HistType
  <2>3. Periods(n) \in Nat
    BY PeriodsAre
  <2>4. hist'.span >= Periods(n) - hist'.first
    BY <2>1, <2>2, <2>3
  <2>5. QED
    BY <2>4 DEF Periods
<1>5. ASSUME btn'.deb = DebTicks, btn.deb # DebTicks
      PROVE  hist'.span >= (DebTicks - 1) * BTN_SCAN_MS - hist'.first
  <2>1. Scan /\ key /\ ~btn.long
    BY <1>3, <1>5
  <2>2. btn' = Sampled
    BY <2>1, ScanIs
  <2>3. btn.hold = 0
    BY <1>1, <1>5 DEF IInv, CountersAgree
  <2>4. btn'.hold = 1
    BY <1>5, <2>1, <2>2, <2>3, SampleIs
  <2>5. DebTicks - 1 \in Nat /\ Samples(btn') = (DebTicks - 1) + 1
    BY <1>5, <2>4 DEF Samples
  <2>6. QED
    BY <1>4, <2>1, <2>5
<1>6. ASSUME btn'.long, ~btn.long
      PROVE  hist'.span >= (DebTicks + LongTicks - 2) * BTN_SCAN_MS - hist'.first
  <2>1. Scan /\ key /\ ~btn.long
    BY <1>3, <1>6
  <2>2. btn' = Sampled
    BY <2>1, ScanIs
  <2>3. btn'.hold = LongTicks
    BY <1>6, <2>1, <2>2, SampleIs
  <2>4. btn'.deb = DebTicks
    <3>1. btn.hold < LongTicks
      BY <1>6 DEF IInv, CountersAgree
    <3>2. QED
      BY <1>1, <2>1, <2>2, <2>3, <3>1, SampleIs
  <2>5. DebTicks + LongTicks - 2 \in Nat /\ Samples(btn') = (DebTicks + LongTicks - 2) + 1
    BY <2>3, <2>4 DEF Samples
  <2>6. QED
    BY <1>4, <2>1, <2>5
<1>7. QED
  BY <1>2, <1>5, <1>6

(* The counts of btn_scan measure time: no press is overlooked that lasts  *)
(* longer than the debounce time and the lateness of the round at its end, *)
(* and neither a press nor a long one is reported before its time has      *)
(* passed since its first sample, but for the lateness of that sample's    *)
(* round.                                                                  *)
THEOREM PressesMeasured == Spec => PressMeasured
<1>1. IInv /\ [Next]_vars =>
        [/\ (key /\ ~key' /\ ui \notin {"init", "hung"}
              /\ hist.age > DebTicks * BTN_SCAN_MS + lag) => btn.deb = DebTicks
         /\ (btn'.deb = DebTicks /\ btn.deb # DebTicks)
              => hist'.span >= (DebTicks - 1) * BTN_SCAN_MS - hist'.first
         /\ (btn'.long /\ ~btn.long)
              => hist'.span >= (DebTicks + LongTicks - 2) * BTN_SCAN_MS - hist'.first]_vars
  BY StepMeasured
<1>2. QED
  BY <1>1, Invariant, PTL DEF Spec, PressMeasured
=============================================================================
