----------------------------- MODULE MenuProofs -----------------------------
(***************************************************************************)
(* Proofs about Menu, for every value of its timers, levels and scenes.    *)
(*                                                                         *)
(* The invariant is a predicate Good on the state record, and a tick is a  *)
(* pipeline of operators on that record; so one lemma per operator says    *)
(* that it keeps Good, and a tick keeps it because all its stages do.      *)
(***************************************************************************)
EXTENDS Menu, TLAPS

(* A password screen that is shown has a try left: the count starts again  *)
(* on entry, and the third wrong code leaves.                              *)
TriesLeft(t) == t.st = "PASSWORD" => t.attempts < 3

(* u shows what t shows, with the same cursor and the same tries.          *)
SameView(u, t) ==
  u.st = t.st /\ u.listIdx = t.listIdx /\ u.attempts = t.attempts

Good(t) ==
  t \in State /\ ModesAgree(t) /\ CursorInZone(t) /\ TriesLeft(t)

-----------------------------------------------------------------------------
(* The PASS tables.                                                        *)

(* The sizes of the four PASS tables.                                      *)
LEMMA Sizes ==
  /\ Size(1) = 6 /\ Size(2) = 7 /\ Size(3) = 2 /\ Size(4) = 1
  /\ \A z \in Zones : Size(z) \in 1 .. 7
<1>1. Size(1) = 6 /\ Size(2) = 7 /\ Size(3) = 2 /\ Size(4) = 1
  BY DEF Size, PASSES
<1> QED BY <1>1 DEF Zones

(* Every entry of a table is a parameter, and every zone has a list.       *)
LEMMA Entries ==
  /\ \A z \in Zones : \A i \in 1 .. Size(z) : PASSES[z][i] \in Params
  /\ \A z \in Zones : PassList[z] \in Lists
BY DEF Params, ParamsOf, Lists

(* The screens of the configuration by name.                               *)
LEMMA ScreenNames ==
  /\ Lists = {"SETTINGS", "SETTINGS_P2", "SETTINGS_P3", "SETTINGS_P4"}
  /\ Params = {"SET_FLOW_SP", "SET_FLOW_SPR", "SET_ALARM_LOW",
       "SET_ALARM_LOWR", "SET_ALARM_TIME", "SET_MEM_NOR",
       "SET_SENSOR_Z", "SET_SENSOR_S", "SET_OUT_Z", "SET_OUT_S",
       "SET_PID_TI", "SET_PID_BAND", "SET_BLACKOUT",
       "SET_MAINT", "SET_COUNT_MAX", "SET_DATALOG"}
<1>1. Lists = {"SETTINGS", "SETTINGS_P2", "SETTINGS_P3", "SETTINGS_P4"}
  BY DEF Lists, PassList, Zones
<1>2. \A z \in Zones : z = 1 \/ z = 2 \/ z = 3 \/ z = 4
  BY DEF Zones
<1> QED BY <1>1, <1>2, Sizes DEF Params, ParamsOf, PASSES, Zones

(* list_pass_idx and locate_param find the zone of a screen and the place  *)
(* of a parameter in it.                                                   *)
LEMMA ZoneOfScreen ==
  ASSUME NEW s \in Lists \cup Params
  PROVE  /\ ZoneOf(s) \in Zones
         /\ s = PassList[ZoneOf(s)] \/ s \in ParamsOf(ZoneOf(s))
<1>1. \E z \in Zones : s = PassList[z] \/ s \in ParamsOf(z)
  BY DEF Lists, Params
<1> QED BY <1>1 DEF ZoneOf

LEMMA IndexOfParam ==
  ASSUME NEW p \in Params
  PROVE  /\ IndexOf(p) \in 0 .. Size(ZoneOf(p)) - 1
         /\ PASSES[ZoneOf(p)][IndexOf(p) + 1] = p
<1> DEFINE z == ZoneOf(p)
<1>1. z \in Zones /\ p \in ParamsOf(z)
  <2>1. p \notin Lists
    BY ScreenNames
  <2> QED BY ZoneOfScreen, <2>1, Entries
<1>2. PICK i \in 1 .. Size(z) : PASSES[z][i] = p
  BY <1>1 DEF ParamsOf
<1>3. i - 1 \in 0 .. Size(z) - 1 /\ PASSES[z][(i - 1) + 1] = p
  BY <1>1, <1>2, Sizes
<1> QED BY <1>3 DEF IndexOf

(* The list screen of a zone is a list of that zone.                       *)
LEMMA ZoneOfList ==
  ASSUME NEW z \in Zones
  PROVE  PassList[z] \in Lists /\ ZoneOf(PassList[z]) = z
<1>1. z = 1 \/ z = 2 \/ z = 3 \/ z = 4
  BY DEF Zones
<1>2. PassList[z] \in Lists \ Params
  BY Entries, ScreenNames
<1>3. PassList[z] = PassList[ZoneOf(PassList[z])] /\ ZoneOf(PassList[z]) \in Zones
  BY <1>2, ZoneOfScreen DEF Params
<1> QED BY <1>1, <1>2, <1>3 DEF PassList, Zones

-----------------------------------------------------------------------------
(* The operators every stage uses.                                         *)

(* The constants as numbers.                                               *)
LEMMA Constants ==
  /\ POWERON_TICKS \in Nat \ {0} /\ WORK_GRACE_TICKS \in Nat \ {0}
  /\ BOOST_TICKS \in Nat \ {0} /\ LAMP_AUTO_OFF_TICKS \in Nat \ {0}
  /\ SOCKET_DELAY_TICKS \in Nat \ {0} /\ INACT_TIMEOUT_TICKS \in Nat \ {0}
  /\ BUZZER_PERIOD_TICKS \in Nat \ {0} /\ BUZZER_ON_TICKS \in Nat \ {0}
  /\ Base \in Nat \ {0} /\ Top \in Nat \ {0}
  /\ 0 \in Levels /\ FULL \in Levels
BY MenuAssumption DEF MenuAssumption

(* The limits of the editors, and the value no comparison tells.           *)
LEMMA LimitsAre ==
  /\ NaN \notin Int /\ Written \subseteq Int \cup {NaN} /\ Steps \subseteq Nat \ {0}
  /\ Values \subseteq Int \cup {NaN} /\ 0 .. Top \subseteq Values /\ NaN \in Values
  /\ \A p \in Params : /\ Low(p) \in 0 .. 1 /\ Limit(p) \in 1 .. Top
                       /\ p \in Toggles => Low(p) = 0 /\ Limit(p) = 1
                       /\ p \notin Toggles => Limit(p) = Top
<1>1. NaN \notin Int /\ Written \subseteq Int \cup {NaN} /\ Steps \subseteq Nat \ {0}
  BY MenuAssumption DEF MenuAssumption
<1>2. Top \in Nat \ {0}
  BY Constants
<1>3. Values \subseteq Int \cup {NaN} /\ 0 .. Top \subseteq Values /\ NaN \in Values
  <2>1. 0 .. Top \subseteq Int
    BY <1>2
  <2> DEFINE tops == 0 .. Top
  <2>2. Values = Written \cup tops \cup {NaN} /\ tops \subseteq Int
    BY <2>1 DEF Values
  <2> HIDE DEF tops
  <2>3. Values \subseteq Int \cup {NaN} /\ tops \subseteq Values /\ NaN \in Values
    BY <1>1, <2>2, Zenon
  <2> QED BY <2>3 DEF tops
<1>4. "SET_PID_BAND" \notin Toggles
  BY DEF Toggles
<1>5. \A p \in Params : /\ Low(p) \in 0 .. 1 /\ Limit(p) \in 1 .. Top
                        /\ p \in Toggles => Low(p) = 0 /\ Limit(p) = 1
                        /\ p \notin Toggles => Limit(p) = Top
  BY <1>2, <1>4 DEF Low, Limit
<1> QED BY <1>1, <1>3, <1>5

(* What the clamps of an opened editor leave.                              *)
LEMMA ClampedType ==
  ASSUME NEW p \in Params, NEW v \in Values
  PROVE  LET d == AtMost(AtLeast(v, Low(p)), Limit(p)) IN
         d \in Low(p) .. Limit(p) \/ (d = NaN /\ v = NaN)
<1>1. NaN \notin Int /\ Low(p) \in 0 .. 1 /\ Limit(p) \in 1 .. Top
  BY LimitsAre
<1>2. CASE v = NaN
  BY <1>2 DEF AtMost, AtLeast
<1>3. CASE v # NaN
  <2>1. v \in Int
    BY <1>3, LimitsAre
  <2>2. AtLeast(v, Low(p)) \in Int /\ AtLeast(v, Low(p)) >= Low(p)
    BY <1>1, <2>1 DEF AtLeast
  <2> DEFINE x == AtLeast(v, Low(p))
  <2>3. x \in Int /\ x >= Low(p)
    BY <2>2
  <2> HIDE DEF x
  <2>4. AtMost(x, Limit(p)) \in Low(p) .. Limit(p)
    BY <1>1, <2>3 DEF AtMost
  <2> QED BY <2>4 DEF x
<1> QED BY <1>2, <1>3

(* What a press leaves of a value inside the limits.                       *)
LEMMA SteppedType ==
  ASSUME NEW p \in Params, NEW v \in (0 .. Top) \cup {NaN}, NEW ev, NEW step \in Steps
  PROVE  LET d == Stepped(p, v, ev, step) IN
         /\ d \in (0 .. Top) \cup {NaN}
         /\ v \in Low(p) .. Limit(p) => d \in Low(p) .. Limit(p)
         /\ d = NaN => v = NaN
         /\ v = NaN => d = NaN \/ d \in Low(p) .. Limit(p)
<1>1. /\ NaN \notin Int /\ Low(p) \in 0 .. 1 /\ Limit(p) \in 1 .. Top
      /\ step \in Nat /\ step > 0 /\ Top \in Nat
      /\ p \in Toggles => Low(p) = 0 /\ Limit(p) = 1
      /\ p \notin Toggles => Limit(p) = Top
  BY LimitsAre, Constants
<1>2. CASE p \in Toggles
  <2>1. Stepped(p, v, ev, step) \in 0 .. 1
    BY <1>2 DEF Stepped
  <2> QED BY <1>1, <1>2, <2>1
<1>3. CASE p \notin Toggles /\ v = NaN
  <2>1. Stepped(p, v, ev, step) = NaN
    BY <1>3 DEF Stepped, Moved, AtMost, AtLeast
  <2> QED BY <1>1, <1>3, <2>1
<1>4. CASE p \notin Toggles /\ v # NaN
  <2>1. v \in 0 .. Top
    BY <1>4
  <2>2. v - step # NaN /\ v + step # NaN
    BY <1>1, <2>1
  <2>3. CASE ev = "ONOFF"
    <3>1. Stepped(p, v, ev, step) = IF v - step < Low(p) THEN Low(p) ELSE v - step
      BY <1>4, <2>2, <2>3 DEF Stepped, Moved, AtLeast
    <3> QED BY <1>1, <1>4, <2>1, <3>1
  <2>4. CASE ev # "ONOFF"
    <3>1. Stepped(p, v, ev, step) = IF v + step > Limit(p) THEN Limit(p) ELSE v + step
      BY <1>4, <2>2, <2>4 DEF Stepped, Moved, AtMost
    <3> QED BY <1>1, <1>4, <2>1, <3>1
  <2> QED BY <2>3, <2>4
<1> QED BY <1>2, <1>3, <1>4

LEMMA CappedType ==
  ASSUME NEW n \in Nat, NEW c \in Nat
  PROVE  Capped(n, c) \in 0 .. c /\ Capped(n, c) <= n
BY DEF Capped

LEMMA DecType ==
  ASSUME NEW c \in Nat, NEW n \in 0 .. c
  PROVE  Dec(n) \in 0 .. c
BY DEF Dec

LEMMA OpenedType ==
  ASSUME NEW s \in Screens
  PROVE  Opened(s) \in Screens /\ (s \notin Lists => Opened(s) = s)
<1>1. CASE s \in Lists
  <2>1. ZoneOf(s) \in Zones
    BY <1>1, ZoneOfScreen
  <2>2. 1 \in 1 .. Size(ZoneOf(s))
    BY <2>1, Sizes
  <2> QED BY <2>1, <2>2, Entries DEF Opened, Screens, Config
<1> QED BY <1>1 DEF Opened

(* Whatever the screen, enter_state leaves a good state, provided the bits *)
(* POWER and STANDBY were opposite and WORK needed POWER before it.        *)
LEMMA EnterState ==
  ASSUME NEW t \in State, NEW s \in Screens,
         "WORK" \in t.sr => "POWER" \in t.sr,
         "POWER" \in t.sr <=> "STANDBY" \notin t.sr
  PROVE  Good(enter_state(t, s))
<1> DEFINE o == Opened(s)
           e == enter_state(t, s)
<1>1. o \in Screens
  BY OpenedType
<1>2. ModesOn(t.sr, o) \in SUBSET Modes
  BY <1>1 DEF ModesOn, Modes, State
<1>3. CursorOn(t, o) \in 0 .. 6 /\ (o \in Lists => CursorOn(t, o) < Size(ZoneOf(o)))
  <2>1. CASE o \in Lists
    <3>1. Size(ZoneOf(o)) \in 1 .. 7
      BY <2>1, ZoneOfScreen, Sizes
    <3> QED BY <2>1, <3>1 DEF CursorOn, State
  <2> QED BY <2>1 DEF CursorOn, State
<1>4. DraftOn(t, o) \in (0 .. Top) \cup {NaN}
  <2>1. CASE o \in Params
    <3>1. t.par[o] \in Values
      BY <2>1 DEF State
    <3>2. Low(o) .. Limit(o) \subseteq 0 .. Top
      BY <2>1, LimitsAre
    <3> QED BY <2>1, <3>1, <3>2, ClampedType DEF DraftOn
  <2> QED BY <2>1 DEF DraftOn, State
<1>5. 0 \in 0 .. Base - 1 /\ 0 \in 0 .. POWERON_TICKS
  BY Constants
<1>6. e \in State
  <2>1. (IF o = "PASSWORD" THEN [f \in 0 .. 3 |-> 0] ELSE t.digits)
           \in [0 .. 3 -> 0 .. Base - 1]
    BY <1>5 DEF State
  <2> DEFINE sr == ModesOn(t.sr, o)
             cursor == CursorOn(t, o)
             draft == DraftOn(t, o)
             digits == IF o = "PASSWORD" THEN [f \in 0 .. 3 |-> 0] ELSE t.digits
             field == IF o = "PASSWORD" THEN 0 ELSE t.field
             attempts == IF o = "PASSWORD" THEN 0 ELSE t.attempts
  <2>2. e = [t EXCEPT !.st = o, !.ticks = 0, !.sr = sr, !.listIdx = cursor,
                      !.draft = draft, !.digits = digits, !.field = field,
                      !.attempts = attempts]
    BY DEF enter_state
  <2>3. field \in 0 .. 3 /\ attempts \in 0 .. 3
    BY DEF State
  <2> HIDE DEF o, e, sr, cursor, draft, digits, field, attempts
  <2> QED BY <1>1, <1>2, <1>3, <1>4, <1>5, <2>1, <2>2, <2>3, ZenonT(60)
          DEF State, sr, cursor, draft, digits
<1>7. e.st = o /\ e.sr = ModesOn(t.sr, o) /\ e.listIdx = CursorOn(t, o)
  BY DEF enter_state, State
<1>8. ModesAgree(e)
  BY <1>7 DEF ModesAgree, ModesOn
<1>9. CursorInZone(e)
  BY <1>3, <1>7 DEF CursorInZone
<1>10. TriesLeft(e)
  BY <1>6 DEF TriesLeft, enter_state, State
<1> QED BY <1>6, <1>8, <1>9, <1>10 DEF Good

(* The same from a good state.                                             *)
LEMMA EnterFromGood ==
  ASSUME NEW t, Good(t), NEW s \in Screens
  PROVE  Good(enter_state(t, s))
BY EnterState DEF Good, ModesAgree

(* A change of fields that neither the modes nor the cursor depend on.     *)
LEMMA SameScreen ==
  ASSUME NEW t, Good(t), NEW u \in State,
         SameView(u, t),
         u.sr \cap {"POWER", "WORK", "STANDBY"}
           = t.sr \cap {"POWER", "WORK", "STANDBY"}
  PROVE  Good(u)
BY DEF Good, ModesAgree, CursorInZone, TriesLeft, SameView

-----------------------------------------------------------------------------
(* The stages of menu_process.                                             *)

LEMMA CountGood ==
  ASSUME NEW t, Good(t)
  PROVE  Good(Count(t))
<1>1. t \in State
  BY DEF Good
<1>2. Capped(t.ticks + 1, POWERON_TICKS) \in 0 .. POWERON_TICKS
  BY <1>1, Constants DEF Capped, State
<1>3. Count(t) \in State
  BY <1>1, <1>2 DEF Count, State
<1> QED BY <1>1, <1>3, SameScreen DEF Count, State, SameView

LEMMA ToggleModes ==
  ASSUME NEW S, NEW T \in SUBSET S, NEW b \in S
  PROVE  Toggle(T, b) \in SUBSET S
BY DEF Toggle

(* Every command, and every cmd that is none, leaves a good state.         *)
LEMMA CommandGood ==
  ASSUME NEW t, Good(t), NEW cmd
  PROVE  Good(handle_modbus_cmd(t, cmd))
<1> DEFINE r == handle_modbus_cmd(t, cmd)
<1>1. t \in State
  BY DEF Good
<1>2. "POWER_ON" \in Screens /\ "STANDBY" \in Screens /\ "MAIN" \in Screens
  BY DEF Screens
<1>3. CASE cmd = "POWER_ON"
  BY <1>2, <1>3, EnterFromGood DEF handle_modbus_cmd
<1>4. CASE cmd = "STANDBY"
  BY <1>2, <1>4, EnterFromGood DEF handle_modbus_cmd
<1>5. CASE cmd = "START"
  <2>1. CASE t.st = "MAIN"
    <3>1. r = [t EXCEPT !.sr = @ \cup {"WORK"}]
      BY <1>5, <2>1 DEF handle_modbus_cmd
    <3>2. r \in State
      BY <1>1, <3>1 DEF State, Modes
    <3> QED BY <1>1, <2>1, <3>1, <3>2, SMTT(30) DEF Good, ModesAgree, CursorInZone, TriesLeft, State
  <2> QED BY <1>5, <2>1 DEF handle_modbus_cmd
<1>6. CASE cmd = "STOP"
  <2>1. r = [t EXCEPT !.sr = @ \ {"WORK"}]
    BY <1>6 DEF handle_modbus_cmd
  <2>2. r \in State
    BY <1>1, <2>1 DEF State
  <2> QED BY <1>1, <2>1, <2>2, SMTT(30) DEF Good, ModesAgree, CursorInZone, TriesLeft, State
<1>7. CASE cmd \in {"SET_AUTO", "SET_MANUAL"}
  <2> DEFINE M == IF cmd = "SET_AUTO" THEN t.sr \ {"MANUAL"}
                  ELSE t.sr \cup {"MANUAL"}
  <2>1. r = [t EXCEPT !.sr = M]
    <3>1. CASE cmd = "SET_AUTO"
      BY <3>1 DEF handle_modbus_cmd
    <3>2. CASE cmd = "SET_MANUAL"
      BY <3>2 DEF handle_modbus_cmd
    <3> QED BY <1>7, <3>1, <3>2
  <2>2. M \in SUBSET Modes /\ M \ {"MANUAL"} = t.sr \ {"MANUAL"}
    BY <1>1 DEF State, Modes
  <2> HIDE DEF M
  <2>3. r \in State
    BY <1>1, <2>1, <2>2 DEF State
  <2> QED BY <1>1, <2>1, <2>2, <2>3, SameScreen DEF State, SameView
<1>8. CASE cmd = "ACK_ALARM"
  <2> DEFINE a == [t EXCEPT !.flags = {}, !.sr = @ \ {"ALARM"}]
  <2>1. r = IF t.st = "ALARM" THEN enter_state(a, "MAIN") ELSE a
    BY <1>8 DEF handle_modbus_cmd
  <2>2. a \in State
    BY <1>1 DEF State
  <2>3. Good(a)
    BY <1>1, <2>2, SameScreen, ZenonT(60) DEF State, SameView
  <2> QED BY <1>2, <2>1, <2>3, EnterFromGood
<1>9. CASE cmd \in {"NIGHT_TOGGLE", "EMERGENCY_TOGGLE"}
  <2> DEFINE b == IF cmd = "NIGHT_TOGGLE" THEN "NIGHT" ELSE "EMERGENCY"
  <2>1. r = [t EXCEPT !.sr = Toggle(@, b)]
    <3>1. CASE cmd = "NIGHT_TOGGLE"
      BY <3>1 DEF handle_modbus_cmd
    <3>2. CASE cmd = "EMERGENCY_TOGGLE"
      BY <3>2 DEF handle_modbus_cmd
    <3> QED BY <1>9, <3>1, <3>2
  <2>2. b \in Modes \ {"POWER", "WORK", "STANDBY"}
    BY DEF Modes
  <2> HIDE DEF b
  <2>3. r \in State
    BY <1>1, <2>1, <2>2, ToggleModes DEF State
  <2> QED BY <1>1, <2>1, <2>2, <2>3, SameScreen, SMTT(30) DEF State, SameView, Toggle
<1>10. CASE cmd \in {"LAMP_TOGGLE", "SOCKET_TOGGLE"}
  <2> DEFINE b == IF cmd = "LAMP_TOGGLE" THEN "LAMP" ELSE "SOCKET"
  <2>1. r = [t EXCEPT !.osr = Toggle(@, b)]
    <3>1. CASE cmd = "LAMP_TOGGLE"
      BY <3>1 DEF handle_modbus_cmd
    <3>2. CASE cmd = "SOCKET_TOGGLE"
      BY <3>2 DEF handle_modbus_cmd
    <3> QED BY <1>10, <3>1, <3>2
  <2>2. b \in OutputBits
    BY DEF OutputBits
  <2> HIDE DEF b
  <2>3. r \in State
    BY <1>1, <2>1, <2>2, ToggleModes DEF State
  <2> QED BY <1>1, <2>1, <2>3, SameScreen DEF State, SameView
<1>11. CASE cmd = "BUZZER_MUTE"
  <2>1. r = [t EXCEPT !.muted = 1, !.buz = "OFF"]
    BY <1>11 DEF handle_modbus_cmd
  <2>2. "OFF" \in Sounds
    BY DEF Sounds
  <2> HIDE DEF r
  <2>3. r \in State
    BY <1>1, <2>1, <2>2, ZenonT(60) DEF State
  <2>4. SameView(r, t) /\ r.sr = t.sr
    BY <1>1, <2>1 DEF State, SameView
  <2> QED BY <2>3, <2>4, SameScreen DEF r
<1>12. CASE cmd \notin Commands \ {"NONE"}
  BY <1>12 DEF handle_modbus_cmd, Commands
<1> QED BY <1>3, <1>4, <1>5, <1>6, <1>7, <1>8, <1>9, <1>10, <1>11, <1>12
        DEF Commands

(* Every jump to a screen leaves a good state.                             *)
LEMMA GotoGood ==
  ASSUME NEW t, Good(t), NEW goto \in Screens \cup {"NONE"}
  PROVE  Good(handle_menu_goto(t, goto))
BY EnterFromGood DEF handle_menu_goto

LEMMA BoostGood ==
  ASSUME NEW t, Good(t)
  PROVE  Good(Boost(t))
<1> DEFINE rise == "WORK" \in t.sr /\ "WORK" \notin t.was
           left == IF rise THEN BOOST_TICKS ELSE t.boost
           back == IF rise THEN t.out ELSE t.boostSave
           grace == Dec(IF rise THEN WORK_GRACE_TICKS ELSE t.grace)
           boost == Dec(left)
           out == IF left = 1 THEN back ELSE IF rise THEN FULL ELSE t.out
           lamp == IF "WORK" \in t.was \ t.sr THEN 0 ELSE t.lampTick
           was == (t.was \ {"WORK"}) \cup (t.sr \cap {"WORK"})
           r == Boost(t)
<1>1. t \in State
  BY DEF Good
<1>2. r = [t EXCEPT !.grace = grace, !.boost = boost, !.boostSave = back,
                    !.out = out, !.lampTick = lamp, !.was = was]
  BY DEF Boost, BoostStage
<1>3. grace \in 0 .. WORK_GRACE_TICKS /\ boost \in 0 .. BOOST_TICKS
  BY <1>1, Constants, DecType DEF State
<1>4. back \in Levels /\ out \in Levels
  BY <1>1, Constants DEF State
<1>5. lamp \in 0 .. LAMP_AUTO_OFF_TICKS /\ was \in SUBSET Latched
  BY <1>1, Constants DEF State, Latched
<1> HIDE DEF grace, boost, back, out, lamp, was, r
<1>6. r \in State
  BY <1>1, <1>2, <1>3, <1>4, <1>5, ZenonT(60) DEF State
<1>7. SameView(r, t) /\ r.sr = t.sr
  BY <1>1, <1>2 DEF State, SameView
<1> QED BY <1>6, <1>7, SameScreen DEF r

LEMMA EmergencyGood ==
  ASSUME NEW t, Good(t)
  PROVE  Good(Emergency(t))
<1> DEFINE now == "EMERGENCY" \in t.sr
           enter == now /\ "EMERGENCY" \notin t.was
           leave == ~now /\ "EMERGENCY" \in t.was
           save == IF enter THEN t.out ELSE t.emergOut
           man == IF enter THEN t.sr \cap {"MANUAL"} ELSE t.emergMan
           sr == IF enter THEN t.sr \cup {"MANUAL"}
                 ELSE IF leave THEN (t.sr \ {"MANUAL"}) \cup t.emergMan
                 ELSE t.sr
           out == IF enter \/ (now /\ TRUE) THEN FULL
                  ELSE IF leave THEN t.emergOut ELSE t.out
           was == (t.was \ {"EMERGENCY"}) \cup (t.sr \cap {"EMERGENCY"})
           r == Emergency(t)
<1>1. t \in State
  BY DEF Good
<1>2. r = [t EXCEPT !.emergOut = save, !.emergMan = man, !.sr = sr,
                    !.out = out, !.was = was]
  BY DEF Emergency, EmergencyStage
<1>3. save \in Levels /\ out \in Levels
  BY <1>1, Constants DEF State
<1>4. man \in SUBSET {"MANUAL"} /\ was \in SUBSET Latched
  BY <1>1 DEF State, Latched
<1>5. sr \in SUBSET Modes /\ sr \ {"MANUAL"} = t.sr \ {"MANUAL"}
  BY <1>1 DEF State, Modes
<1> HIDE DEF save, man, sr, out, was, r
<1>6. r \in State
  BY <1>1, <1>2, <1>3, <1>4, <1>5, ZenonT(60) DEF State
<1>7. SameView(r, t) /\ r.sr = sr
  BY <1>1, <1>2 DEF State, SameView
<1> QED BY <1>5, <1>6, <1>7, SameScreen DEF r

LEMMA SocketGood ==
  ASSUME NEW t, Good(t)
  PROVE  Good(Socket(t))
<1> DEFINE pend == Dec(t.sockPend)
           osr == IF t.sockPend = 1
                  THEN (t.osr \ {"SOCKET"}) \cup t.sockOn ELSE t.osr
           r == Socket(t)
<1>1. t \in State
  BY DEF Good
<1>2. r = [t EXCEPT !.sockPend = pend, !.osr = osr]
  BY DEF Socket
<1>3. pend \in 0 .. SOCKET_DELAY_TICKS
  BY <1>1, Constants, DecType DEF State
<1>4. osr \in SUBSET OutputBits
  BY <1>1 DEF State, OutputBits
<1> HIDE DEF pend, osr, r
<1>5. r \in State
  BY <1>1, <1>2, <1>3, <1>4, ZenonT(60) DEF State
<1>6. SameView(r, t) /\ r.sr = t.sr
  BY <1>1, <1>2 DEF State, SameView
<1> QED BY <1>5, <1>6, SameScreen DEF r

LEMMA LampGood ==
  ASSUME NEW t, Good(t)
  PROVE  Good(LampOff(t))
<1> DEFINE count == "LAMP" \in t.osr /\ "WORK" \notin t.sr
           due == count /\ t.lampTick + 1 >= LAMP_AUTO_OFF_TICKS
           osr == IF due THEN t.osr \ {"LAMP"} ELSE t.osr
           lamp == IF count /\ ~due THEN t.lampTick + 1 ELSE 0
           r == LampOff(t)
<1>1. t \in State
  BY DEF Good
<1>2. r = [t EXCEPT !.osr = osr, !.lampTick = lamp]
  BY DEF LampOff, LampStage
<1>3. t.lampTick \in 0 .. LAMP_AUTO_OFF_TICKS /\ t.osr \in SUBSET OutputBits
  BY <1>1 DEF State
<1>4. lamp \in 0 .. LAMP_AUTO_OFF_TICKS
  BY <1>3, Constants
<1>5. osr \in SUBSET OutputBits
  BY <1>3
<1> HIDE DEF osr, lamp, r
<1>6. r \in State
  BY <1>1, <1>2, <1>4, <1>5, ZenonT(60) DEF State
<1>7. SameView(r, t) /\ r.sr = t.sr
  BY <1>1, <1>2 DEF State, SameView
<1> QED BY <1>6, <1>7, SameScreen DEF r

LEMMA AlarmBitGood ==
  ASSUME NEW t, Good(t)
  PROVE  Good(AlarmBit(t))
<1> DEFINE sr == IF t.flags # {} /\ t.grace = 0
                 THEN t.sr \cup {"ALARM"} ELSE t.sr \ {"ALARM"}
           r == AlarmBit(t)
<1>1. t \in State
  BY DEF Good
<1>2. r = [t EXCEPT !.sr = sr]
  BY DEF AlarmBit
<1>3. sr \in SUBSET Modes /\ sr \ {"ALARM"} = t.sr \ {"ALARM"}
  BY <1>1 DEF State, Modes
<1> HIDE DEF sr, r
<1>4. r \in State
  BY <1>1, <1>2, <1>3 DEF State
<1>5. SameView(r, t) /\ r.sr = sr
  BY <1>1, <1>2 DEF State, SameView
<1> QED BY <1>3, <1>4, <1>5, SameScreen DEF r

LEMMA BuzzerGood ==
  ASSUME NEW t, Good(t)
  PROVE  Good(Buzzer(t))
<1> DEFINE now == "ALARM" \in t.sr
           new == now /\ "ALARM" \notin t.was
           mute == IF new /\ TRUE THEN 0 ELSE t.muted
           sound == now /\ mute = 0
           next == (IF new THEN 0 ELSE t.buzTick) + 1
           tick == IF sound /\ next < BUZZER_PERIOD_TICKS THEN next ELSE 0
           buz == IF sound /\ tick < BUZZER_ON_TICKS THEN "ON" ELSE "OFF"
           was == (t.was \ {"ALARM"}) \cup (t.sr \cap {"ALARM"})
           r == Buzzer(t)
<1>1. t \in State
  BY DEF Good
<1>2. r = [t EXCEPT !.muted = mute, !.buzTick = tick, !.buz = buz, !.was = was]
  BY DEF Buzzer, BuzzerStage
<1>3. t.buzTick \in 0 .. BUZZER_PERIOD_TICKS /\ t.muted \in {0, 1}
  BY <1>1 DEF State
<1>4. mute \in {0, 1} /\ tick \in 0 .. BUZZER_PERIOD_TICKS
  BY <1>3, Constants
<1>5. buz \in Sounds /\ was \in SUBSET Latched
  BY <1>1 DEF State, Latched, Sounds
<1> HIDE DEF mute, tick, buz, was, r
<1>6. r \in State
  BY <1>1, <1>2, <1>4, <1>5, ZenonT(60) DEF State
<1>7. SameView(r, t) /\ r.sr = t.sr
  BY <1>1, <1>2 DEF State, SameView
<1> QED BY <1>6, <1>7, SameScreen DEF r

LEMMA InactivityGood ==
  ASSUME NEW t, Good(t), NEW ev
  PROVE  Good(Inactivity(t, ev))
<1> DEFINE n == IF ev = "NONE" THEN t.inact + 1 ELSE 0
           zero == [t EXCEPT !.inact = 0]
           more == [t EXCEPT !.inact = n]
<1>1. t \in State
  BY DEF Good
<1>2. n \in Nat /\ 0 \in 0 .. INACT_TIMEOUT_TICKS
  BY <1>1, Constants DEF State
<1>3. Good(zero)
  <2>1. zero \in State
    BY <1>1, <1>2 DEF State
  <2>2. SameView(zero, t) /\ zero.sr = t.sr
    BY <1>1 DEF State, SameView
  <2> QED BY <2>1, <2>2, SameScreen
<1>4. n < INACT_TIMEOUT_TICKS => Good(more)
  <2> SUFFICES ASSUME n < INACT_TIMEOUT_TICKS PROVE Good(more)
    OBVIOUS
  <2>1. n \in 0 .. INACT_TIMEOUT_TICKS
    BY <1>2, Constants
  <2> HIDE DEF n
  <2>2. more \in State
    BY <1>1, <2>1 DEF State
  <2>3. SameView(more, t) /\ more.sr = t.sr
    BY <1>1 DEF State, SameView
  <2> QED BY <2>2, <2>3, SameScreen
<1>5. Good(enter_state(zero, "MAIN"))
  BY <1>3, EnterFromGood DEF Screens
<1> QED BY <1>3, <1>4, <1>5 DEF Inactivity

(* The state the screen's switch sees is good.                             *)
LEMMA UpkeepGood ==
  ASSUME Good(m), NEW cmd, NEW goto \in Screens \cup {"NONE"}, NEW ev,
         NEW t \in Upkeep(cmd, goto, ev)
  PROVE  Good(t)
<1>1. PICK a : a = handle_menu_goto(handle_modbus_cmd(Count(m), cmd), goto)
  OBVIOUS
<1>2. Good(a)
  BY <1>1, CountGood, CommandGood, GotoGood
<1>3. Good(Emergency(Boost(a)))
  BY <1>2, BoostGood, EmergencyGood
<1>4. Good(LampOff(Socket(Emergency(Boost(a)))))
  BY <1>3, SocketGood, LampGood
<1>5. Good(Buzzer(AlarmBit(LampOff(Socket(Emergency(Boost(a)))))))
  BY <1>4, AlarmBitGood, BuzzerGood
<1>6. t = Inactivity(Buzzer(AlarmBit(LampOff(Socket(Emergency(Boost(a)))))), ev)
  BY <1>1 DEF Upkeep
<1> QED BY <1>5, <1>6, InactivityGood

-----------------------------------------------------------------------------
(* The switch on the screen.                                               *)

(* The bits MANUAL, NIGHT, EMERGENCY and ALARM may change freely.          *)
LEMMA ModesOnly ==
  ASSUME NEW t, Good(t), NEW sr \in SUBSET Modes,
         sr \cap {"POWER", "WORK", "STANDBY"}
           = t.sr \cap {"POWER", "WORK", "STANDBY"}
  PROVE  Good([t EXCEPT !.sr = sr])
<1> DEFINE r == [t EXCEPT !.sr = sr]
<1>1. t \in State
  BY DEF Good
<1>2. r \in State
  BY <1>1 DEF State
<1>3. SameView(r, t) /\ r.sr = sr
  BY <1>1 DEF State, SameView
<1> QED BY <1>2, <1>3, SameScreen

(* The keys of the standby, main and alarm screens.                        *)
LEMMA MainKeysGood ==
  ASSUME NEW t, Good(t), NEW ev,
         \/ SplashEnds(t)         \/ SwitchOn(t, ev)     \/ MainOnOff(t, ev)
         \/ MainNight(t, ev)      \/ MainAutoMan(t, ev)  \/ MainShowAlarm(t, ev)
         \/ MainPassword(t, ev)   \/ MainLamp(t, ev)     \/ MainSocket(t, ev)
         \/ PressEmergency(t, ev) \/ AlarmAck(t, ev)     \/ AlarmAutoMan(t, ev)
  PROVE  Good(m')
<1>1. t \in State /\ t.sr \in SUBSET Modes
  BY DEF Good, State
<1>2. {"POWER_ON", "STANDBY", "MAIN", "ALARM", "PASSWORD"} \subseteq Screens
  BY DEF Screens, Config
<1>3. \A b \in {"NIGHT", "MANUAL", "EMERGENCY"} :
        Good([t EXCEPT !.sr = Toggle(@, b)])
  <2> TAKE b \in {"NIGHT", "MANUAL", "EMERGENCY"}
  <2> DEFINE sr == Toggle(t.sr, b)
  <2>1. sr \in SUBSET Modes /\ sr \cap {"POWER", "WORK", "STANDBY"}
                                = t.sr \cap {"POWER", "WORK", "STANDBY"}
    BY <1>1 DEF Toggle, Modes
  <2> HIDE DEF sr
  <2>2. Good([t EXCEPT !.sr = sr])
    BY <2>1, ModesOnly
  <2> QED BY <2>2 DEF sr
<1>4. ASSUME NEW F \in SUBSET AlarmBits, NEW sr \in SUBSET Modes,
             sr \cap {"POWER", "WORK", "STANDBY"}
               = t.sr \cap {"POWER", "WORK", "STANDBY"}
      PROVE  Good([t EXCEPT !.muted = 1, !.buz = "OFF", !.flags = F, !.sr = sr])
  <2> DEFINE r == [t EXCEPT !.muted = 1, !.buz = "OFF", !.flags = F, !.sr = sr]
  <2>1. "OFF" \in Sounds
    BY DEF Sounds
  <2>2. r \in State
    BY <1>1, <2>1 DEF State
  <2>3. SameView(r, t) /\ r.sr = sr
    BY <1>1 DEF State, SameView
  <2> QED BY <1>4, <2>2, <2>3, SameScreen
<1>5. CASE SplashEnds(t) \/ SwitchOn(t, ev) \/ MainPassword(t, ev)
  BY <1>2, <1>5, EnterFromGood DEF SplashEnds, SwitchOn, MainPassword
<1>6. CASE MainOnOff(t, ev)
  <2>1. CASE "NIGHT" \in t.sr
    <3> DEFINE sr == t.sr \ {"NIGHT", "WORK"}
               a == [t EXCEPT !.sr = sr]
    <3>1. m' = enter_state(a, "STANDBY")
      BY <1>6, <2>1 DEF MainOnOff
    <3>2. sr \in SUBSET Modes /\ "WORK" \notin sr
          /\ ("POWER" \in sr <=> "POWER" \in t.sr)
          /\ ("STANDBY" \in sr <=> "STANDBY" \in t.sr)
      BY <1>1
    <3> HIDE DEF sr
    <3>3. a \in State /\ a.sr = sr
      BY <1>1, <3>2 DEF State
    <3> HIDE DEF a
    <3> QED BY <1>2, <3>1, <3>2, <3>3, EnterState DEF Good, ModesAgree
  <2>2. CASE "NIGHT" \notin t.sr
    <3> DEFINE sr == Toggle(t.sr, "WORK")
               r == [t EXCEPT !.sr = sr]
    <3>1. m' = r /\ t.st = "MAIN"
      BY <1>6, <2>2 DEF MainOnOff
    <3>2. sr \in SUBSET Modes /\ sr \ {"WORK"} = t.sr \ {"WORK"}
      BY <1>1 DEF Toggle, Modes
    <3> HIDE DEF sr
    <3>3. r \in State /\ r.sr = sr /\ SameView(r, t)
      BY <1>1, <3>2 DEF State, SameView
    <3>4. "POWER" \in t.sr /\ "STANDBY" \notin t.sr
      BY <3>1 DEF Good, ModesAgree
    <3> HIDE DEF r
    <3>5. ModesAgree(r) /\ CursorInZone(r) /\ TriesLeft(r)
      BY <3>1, <3>2, <3>3, <3>4
      DEF Good, ModesAgree, CursorInZone, TriesLeft, SameView
    <3> QED BY <3>1, <3>3, <3>5 DEF Good
  <2> QED BY <2>1, <2>2
<1>7. CASE MainNight(t, ev) \/ PressEmergency(t, ev) \/ AlarmAutoMan(t, ev)
  BY <1>3, <1>7 DEF MainNight, PressEmergency, AlarmAutoMan
<1>8. CASE MainAutoMan(t, ev)
  <2> DEFINE sr == Toggle(t.sr, "MANUAL")
             out == IF ChoosesZero(t, ev) THEN 0 ELSE t.out
             r == [t EXCEPT !.sr = sr, !.out = out]
  <2>1. m' = r
    BY <1>8 DEF MainAutoMan
  <2>2. sr \in SUBSET Modes /\ sr \ {"MANUAL"} = t.sr \ {"MANUAL"}
    BY <1>1 DEF Toggle, Modes
  <2>3. out \in Levels
    BY <1>1, Constants DEF State
  <2> HIDE DEF sr, out
  <2>4. r \in State
    BY <1>1, <2>2, <2>3 DEF State
  <2>5. SameView(r, t) /\ r.sr = sr
    BY <1>1 DEF State, SameView
  <2> HIDE DEF r
  <2> QED BY <2>1, <2>2, <2>4, <2>5, SameScreen
<1>9. CASE MainShowAlarm(t, ev)
  <2> DEFINE a == [t EXCEPT !.muted = 1, !.buz = "OFF"]
  <2>1. m' = enter_state(a, "ALARM")
    BY <1>9 DEF MainShowAlarm
  <2>2. a = [t EXCEPT !.muted = 1, !.buz = "OFF", !.flags = t.flags, !.sr = t.sr]
    BY <1>1 DEF State
  <2>3. t.flags \in SUBSET AlarmBits
    BY <1>1 DEF State
  <2> HIDE DEF a
  <2>4. Good(a)
    BY <1>1, <1>4, <2>2, <2>3
  <2> QED BY <1>2, <2>1, <2>4, EnterFromGood
<1>10. CASE MainLamp(t, ev)
  <2> DEFINE osr == Toggle(t.osr, "LAMP")
             r == [t EXCEPT !.osr = osr]
  <2>1. m' = r
    BY <1>10 DEF MainLamp
  <2>2. osr \in SUBSET OutputBits
    BY <1>1 DEF Toggle, OutputBits, State
  <2> HIDE DEF osr
  <2>3. r \in State
    BY <1>1, <2>2 DEF State
  <2>4. SameView(r, t) /\ r.sr = t.sr
    BY <1>1 DEF State, SameView
  <2> HIDE DEF r
  <2> QED BY <2>1, <2>3, <2>4, SameScreen
<1>11. CASE MainSocket(t, ev)
  <2> DEFINE on == {"SOCKET"} \ t.osr
             r == [t EXCEPT !.sockOn = on, !.sockPend = SOCKET_DELAY_TICKS]
  <2>1. m' = r
    BY <1>11 DEF MainSocket
  <2>2. on \in SUBSET {"SOCKET"} /\ SOCKET_DELAY_TICKS \in 0 .. SOCKET_DELAY_TICKS
    BY Constants
  <2> HIDE DEF on
  <2>3. r \in State
    BY <1>1, <2>2 DEF State
  <2>4. SameView(r, t) /\ r.sr = t.sr
    BY <1>1 DEF State, SameView
  <2> HIDE DEF r
  <2> QED BY <2>1, <2>3, <2>4, SameScreen
<1>12. CASE AlarmAck(t, ev)
  <2> DEFINE sr == t.sr \ {"ALARM"}
  <2>1. sr \in SUBSET Modes /\ sr \cap {"POWER", "WORK", "STANDBY"}
                                = t.sr \cap {"POWER", "WORK", "STANDBY"}
    BY <1>1
  <2>2. m' = enter_state([t EXCEPT !.muted = 1, !.buz = "OFF", !.flags = {},
                                   !.sr = sr], "MAIN")
    BY <1>12 DEF AlarmAck
  <2> HIDE DEF sr
  <2>3. Good([t EXCEPT !.muted = 1, !.buz = "OFF", !.flags = {}, !.sr = sr])
    BY <1>4, <2>1
  <2> QED BY <1>2, <2>2, <2>3, EnterFromGood
<1> QED BY <1>5, <1>6, <1>7, <1>8, <1>9, <1>10, <1>11, <1>12

(* A table opens on a parameter: entering a zone by its code.              *)
LEMMA EnterPassGood ==
  ASSUME NEW t, Good(t), NEW z \in Zones
  PROVE  Good(enter_pass(t, z))
<1> DEFINE i == IF Size(z) <= 1 THEN t.listIdx ELSE 0
           a == [t EXCEPT !.listIdx = i]
<1>1. t \in State
  BY DEF Good
<1>2. i \in 0 .. 6
  BY <1>1 DEF State
<1> HIDE DEF i
<1>3. a \in State /\ a.sr = t.sr
  BY <1>1, <1>2 DEF State
<1>4. PassList[z] \in Screens
  BY Entries DEF Screens, Config
<1> HIDE DEF a
<1>5. Good(enter_state(a, PassList[z]))
  BY <1>3, <1>4, EnterState DEF Good, ModesAgree
<1> QED BY <1>5 DEF enter_pass, a, i

(* Leaving an editor needs a good state but for what the cursor was.       *)
LEMMA EditorBackGood ==
  ASSUME NEW t, Good(t), t.st \in Params
  PROVE  Good(editor_back(t))
<1> DEFINE z == ZoneOf(t.st)
           i == IndexOf(t.st)
           a == [t EXCEPT !.listIdx = i]
<1>1. t \in State
  BY DEF Good
<1>2. z \in Zones /\ PassList[z] \in Screens /\ "MAIN" \in Screens
  BY ZoneOfScreen, Entries DEF Screens, Config
<1>3. i \in 0 .. 6
  BY <1>2, IndexOfParam, Sizes
<1> HIDE DEF z, i
<1>4. a \in State /\ a.sr = t.sr
  BY <1>1, <1>3 DEF State
<1> HIDE DEF a
<1>5. Good(enter_state(a, PassList[z])) /\ Good(enter_state(t, "MAIN"))
  BY <1>2, <1>4, EnterState, EnterFromGood DEF Good, ModesAgree
<1> QED BY <1>5 DEF editor_back, a, i, z

LEMMA CommitDraftGood ==
  ASSUME NEW t, Good(t), t.st \in Params
  PROVE  /\ Good(editor_commit_draft(t))
         /\ editor_commit_draft(t).st = t.st
<1> DEFINE par == [t.par EXCEPT ![t.st] = t.draft]
           r == [t EXCEPT !.par = par]
<1>1. t \in State
  BY DEF Good
<1>2. t.draft \in Values
  BY <1>1, LimitsAre DEF State
<1>3. par \in [Params -> Values]
  BY <1>1, <1>2 DEF State
<1>4. editor_commit_draft(t) = r
  BY DEF editor_commit_draft
<1> HIDE DEF par
<1>5. r \in State /\ SameView(r, t) /\ r.sr = t.sr
  BY <1>1, <1>3 DEF State, SameView
<1> HIDE DEF r
<1> QED BY <1>4, <1>5, SameScreen DEF SameView

(* The keys of the lists, the password screen and the editors.             *)
LEMMA ConfigKeysGood ==
  ASSUME NEW t, Good(t), NEW ev,
         \/ ListMove(t, ev)   \/ ListOpen(t, ev)    \/ LeaveConfig(t, ev)
         \/ PwDigit(t, ev)    \/ PwField(t, ev)     \/ PwConfirm(t, ev)
         \/ EditorValue(t, ev) \/ EditorCommit(t, ev) \/ EditorSave(t, ev)
         \/ EditorLeave(t, ev) \/ NoKey(t, ev)
  PROVE  Good(m')
<1>1. t \in State
  BY DEF Good
<1>2. "MAIN" \in Screens /\ "PASSWORD" \notin Lists \cup Params
  BY ScreenNames DEF Screens
<1>3. CASE ListMove(t, ev)
  <2> DEFINE n == Size(ZoneOf(t.st))
             i == IF ev = "ONOFF" THEN (t.listIdx + 1) % n
                  ELSE IF t.listIdx = 0 THEN n - 1 ELSE t.listIdx - 1
             r == [t EXCEPT !.listIdx = i]
  <2>1. m' = r /\ t.st \in Lists
    BY <1>3 DEF ListMove
  <2>2. n \in 1 .. 7 /\ t.listIdx \in 0 .. n - 1
    <3>1. n \in 1 .. 7
      BY <2>1, ZoneOfScreen, Sizes
    <3> QED BY <1>1, <2>1, <3>1 DEF Good, CursorInZone, State
  <2>3. i \in 0 .. n - 1
    BY <2>2
  <2>4. i \in 0 .. 6
    BY <2>2, <2>3
  <2> HIDE DEF i
  <2>5. r \in State /\ r.listIdx = i /\ r.st = t.st /\ r.sr = t.sr
        /\ r.attempts = t.attempts
    BY <1>1, <2>4 DEF State
  <2> HIDE DEF r
  <2>6. CursorInZone(r)
    BY <2>2, <2>3, <2>5 DEF CursorInZone
  <2> QED BY <2>1, <2>5, <2>6 DEF Good, ModesAgree, TriesLeft
<1>4. CASE ListOpen(t, ev)
  <2>1. ZoneOf(t.st) \in Zones /\ t.st \in Lists
    BY <1>4, ZoneOfScreen DEF ListOpen
  <2>2. t.listIdx + 1 \in 1 .. Size(ZoneOf(t.st))
    BY <1>1, <2>1, Sizes DEF Good, CursorInZone, State
  <2>3. PASSES[ZoneOf(t.st)][t.listIdx + 1] \in Screens
    BY <2>1, <2>2, Entries DEF Screens, Config
  <2> QED BY <1>4, <2>3, EnterFromGood DEF ListOpen
<1>5. CASE LeaveConfig(t, ev)
  BY <1>2, <1>5, EnterFromGood DEF LeaveConfig
<1>6. CASE PwDigit(t, ev)
  <2> DEFINE d == (t.digits[t.field]
                   + (IF ev = "ONOFF" THEN Base - 1 ELSE 1)) % Base
             digits == [t.digits EXCEPT ![t.field] = d]
             r == [t EXCEPT !.digits = digits]
  <2>1. m' = r
    BY <1>6 DEF PwDigit
  <2>2. t.digits[t.field] \in 0 .. Base - 1 /\ t.field \in 0 .. 3
        /\ t.digits \in [0 .. 3 -> 0 .. Base - 1]
    BY <1>1 DEF State
  <2>3. d \in 0 .. Base - 1
    BY <2>2, Constants
  <2> HIDE DEF d
  <2>4. digits \in [0 .. 3 -> 0 .. Base - 1]
    BY <2>2, <2>3
  <2> HIDE DEF digits
  <2>5. r \in State /\ SameView(r, t) /\ r.sr = t.sr
    BY <1>1, <2>4 DEF State, SameView
  <2> HIDE DEF r
  <2> QED BY <2>1, <2>5, SameScreen
<1>7. CASE PwField(t, ev)
  <2> DEFINE f == (t.field + (IF ev = "RB" THEN 3 ELSE 1)) % 4
             r == [t EXCEPT !.field = f]
  <2>1. m' = r
    BY <1>7 DEF PwField
  <2>2. f \in 0 .. 3
    BY <1>1 DEF State
  <2> HIDE DEF f
  <2>3. r \in State /\ SameView(r, t) /\ r.sr = t.sr
    BY <1>1, <2>2 DEF State, SameView
  <2> HIDE DEF r
  <2> QED BY <2>1, <2>3, SameScreen
<1>8. CASE PwConfirm(t, ev)
  <2> DEFINE z == ZoneOfCode(Code(t.digits))
             k == t.attempts + 1
             wrong == [t EXCEPT !.attempts = k]
             zeros == [f \in 0 .. 3 |-> 0]
             again == [wrong EXCEPT !.digits = zeros, !.field = 0]
  <2>1. /\ t.st = "PASSWORD" /\ t.attempts \in 0 .. 2
        /\ m' = IF z # 0 THEN enter_pass(t, z)
                ELSE IF wrong.attempts >= 3 THEN enter_state(wrong, "MAIN")
                ELSE again
    BY <1>1, <1>8 DEF PwConfirm, Good, TriesLeft, State
  <2>2. z # 0 => Good(enter_pass(t, z))
    BY EnterPassGood DEF ZoneOfCode, Zones
  <2>3. k \in 0 .. 3 /\ zeros \in [0 .. 3 -> 0 .. Base - 1]
    BY <2>1, Constants
  <2> HIDE DEF z, k, zeros
  <2>4. wrong \in State /\ wrong.attempts = k /\ wrong.sr = t.sr
        /\ wrong.st = t.st
    BY <1>1, <2>3 DEF State
  <2> HIDE DEF wrong
  <2>5. Good(enter_state(wrong, "MAIN"))
    BY <1>2, <2>4, EnterState DEF Good, ModesAgree
  <2>6. k < 3 => Good(again)
    <3> DEFINE cleared == [wrong EXCEPT !.digits = zeros]
    <3>1. cleared \in State
      BY <2>3, <2>4 DEF State
    <3>2. again \in State
      <4>1. again = [cleared EXCEPT !.field = 0]
        OBVIOUS
      <4> HIDE DEF cleared, again
      <4> QED BY <3>1, <4>1 DEF State
    <3>3. again.attempts = k /\ again.sr = t.sr /\ again.st = t.st
      BY <2>4 DEF State
    <3> HIDE DEF again
    <3> QED BY <1>2, <2>1, <3>2, <3>3
        DEF Good, ModesAgree, CursorInZone, TriesLeft
  <2> QED BY <2>1, <2>2, <2>3, <2>4, <2>5, <2>6
<1>9. CASE EditorValue(t, ev)
  <2>0. PICK step \in Steps : m' = [t EXCEPT !.draft = Stepped(t.st, t.draft, ev, step)]
    BY <1>9 DEF EditorValue
  <2> DEFINE d == Stepped(t.st, t.draft, ev, step)
             r == [t EXCEPT !.draft = d]
  <2>1. m' = r
    BY <2>0
  <2>2. d \in (0 .. Top) \cup {NaN}
    <3>1. t.st \in Params /\ t.draft \in (0 .. Top) \cup {NaN}
      BY <1>1, <1>9, MenuAssumption DEF EditorValue, MenuAssumption, State
    <3> QED BY <3>1, SteppedType
  <2> HIDE DEF d
  <2>3. r \in State /\ SameView(r, t) /\ r.sr = t.sr
    BY <1>1, <2>2 DEF State, SameView
  <2> HIDE DEF r
  <2> QED BY <2>1, <2>3, SameScreen
<1>10. CASE EditorCommit(t, ev)
  BY <1>10, CommitDraftGood, EditorBackGood DEF EditorCommit
<1>11. CASE EditorSave(t, ev)
  <2> DEFINE c == editor_commit_draft(t)
             r == [c EXCEPT !.stored = c.par]
  <2>1. Good(c) /\ m' = enter_state(r, "MAIN")
    BY <1>11, CommitDraftGood DEF EditorSave
  <2> HIDE DEF c
  <2>2. r \in State /\ SameView(r, c) /\ r.sr = c.sr
    BY <2>1 DEF Good, State, SameView
  <2> HIDE DEF r
  <2>3. Good(r)
    BY <2>1, <2>2, SameScreen
  <2> QED BY <1>2, <2>1, <2>3, EnterFromGood
<1>12. CASE EditorLeave(t, ev)
  BY <1>12, EditorBackGood DEF EditorLeave
<1>13. CASE NoKey(t, ev)
  BY <1>13 DEF NoKey
<1> QED BY <1>3, <1>4, <1>5, <1>6, <1>7, <1>8, <1>9, <1>10, <1>11, <1>12, <1>13

-----------------------------------------------------------------------------
(* The steps.                                                              *)

(* The scene of an execution, taken apart.                                 *)
LEMMA SceneType ==
  ASSUME scene \in Scenes
  PROVE  /\ scene.keys \subseteq Keys /\ scene.cmds \subseteq Commands
         /\ scene.gotos \subseteq Screens \cup {"NONE"}
BY SceneAssumption DEF AllScenes, SceneAssumption

(* One call of menu_process.                                               *)
LEMMA TickGood ==
  ASSUME Good(m), NEW cmd, NEW goto \in Screens \cup {"NONE"}, NEW ev,
         Tick(cmd, goto, ev)
  PROVE  Good(m')
<1>1. PICK t \in Upkeep(cmd, goto, ev) : ScreenKey(t, ev)
  BY DEF Tick
<1>2. Good(t)
  BY UpkeepGood
<1> QED BY <1>1, <1>2, MainKeysGood, ConfigKeysGood DEF ScreenKey

(* A boot with any image of the parameters.                                *)
LEMMA BootGood ==
  ASSUME NEW image \in [Params -> Values]
  PROVE  Good(Boot(image, image))
<1> DEFINE b == Boot(image, image)
           zeros == [f \in 0 .. 3 |-> 0]
<1>1. zeros \in [0 .. 3 -> 0 .. Base - 1]
  BY Constants
<1>2. "POWER_ON" \in Screens /\ {"POWER"} \in SUBSET Modes /\ "OFF" \in Sounds
  BY DEF Screens, Modes, Sounds
<1> HIDE DEF zeros
<1>3. b = [st |-> "POWER_ON", ticks |-> 0, sr |-> {"POWER"}, out |-> 0,
           osr |-> {}, flags |-> {}, buz |-> "OFF", grace |-> 0, boost |-> 0,
           boostSave |-> 0, was |-> {}, emergOut |-> 0, emergMan |-> {},
           lampTick |-> 0, sockPend |-> 0, sockOn |-> {}, buzTick |-> 0,
           muted |-> 0, inact |-> 0, listIdx |-> 0, digits |-> zeros,
           field |-> 0, attempts |-> 0, draft |-> 0, par |-> image,
           stored |-> image]
  BY DEF Boot, zeros
<1>4. /\ 0 \in 0 .. POWERON_TICKS /\ 0 \in 0 .. WORK_GRACE_TICKS
      /\ 0 \in 0 .. BOOST_TICKS /\ 0 \in 0 .. LAMP_AUTO_OFF_TICKS
      /\ 0 \in 0 .. SOCKET_DELAY_TICKS /\ 0 \in 0 .. BUZZER_PERIOD_TICKS
      /\ 0 \in 0 .. INACT_TIMEOUT_TICKS /\ 0 \in (0 .. Top) \cup {NaN}
      /\ 0 \in Levels
  BY Constants
<1>5. b \in State
  BY <1>1, <1>2, <1>3, <1>4 DEF State
<1>6. b.st = "POWER_ON" /\ b.sr = {"POWER"}
  BY <1>3
<1> HIDE DEF b
<1> QED BY <1>2, <1>5, <1>6, ScreenNames
        DEF Good, ModesAgree, CursorInZone, TriesLeft, b

(* Registers written by another party.                                     *)
LEMMA WorldGood ==
  ASSUME Good(m),
         \/ \E v \in Levels : WriteOut(v)
         \/ WriteAlarm
         \/ \E p \in EditedParams : \E v \in Writable(p) : WriteParam(p, v)
  PROVE  Good(m')
<1>1. m \in State
  BY DEF Good
<1>2. CASE \E v \in Levels : WriteOut(v)
  <2>1. PICK v \in Levels : m' = [m EXCEPT !.out = v]
    BY <1>2 DEF WriteOut
  <2>2. m' \in State /\ SameView(m', m) /\ m'.sr = m.sr
    BY <1>1, <2>1 DEF State, SameView
  <2> QED BY <2>2, SameScreen
<1>3. CASE WriteAlarm
  <2> DEFINE F == Toggle(m.flags, "low")
  <2>1. m' = [m EXCEPT !.flags = F]
    BY <1>3 DEF WriteAlarm
  <2>2. F \in SUBSET AlarmBits
    BY <1>1 DEF Toggle, AlarmBits, State
  <2> HIDE DEF F
  <2>3. m' \in State /\ SameView(m', m) /\ m'.sr = m.sr
    BY <1>1, <2>1, <2>2 DEF State, SameView
  <2> QED BY <2>3, SameScreen
<1>4. CASE \E p \in EditedParams : \E v \in Writable(p) : WriteParam(p, v)
  <2>1. PICK p \in EditedParams : \E v \in Values : m' = [m EXCEPT !.par[p] = v]
    BY <1>4 DEF WriteParam, Writable, Values
  <2>0. PICK v \in Values : m' = [m EXCEPT !.par[p] = v]
    BY <2>1
  <2> DEFINE par == [m.par EXCEPT ![p] = v]
  <2>2. m' = [m EXCEPT !.par = par]
    BY <2>0
  <2>3. par \in [Params -> Values]
    BY <1>1 DEF State
  <2> HIDE DEF par
  <2>4. m' \in State /\ SameView(m', m) /\ m'.sr = m.sr
    BY <1>1, <2>2, <2>3 DEF State, SameView
  <2> QED BY <2>4, SameScreen
<1> QED BY <1>2, <1>3, <1>4

(* The factory settings are an image of the parameters.                    *)
LEMMA FactoryType == Factory \in [Params -> Values]
<1>1. \A p \in Params : Low(p) \in Values
  BY LimitsAre, Constants
<1> QED BY <1>1 DEF Factory

(* What the ghost record holds.                                            *)
LEMMA HistoryType ==
  ASSUME Good(m), hist \in History, NEW t \in State, NEW ev, Remember(t, ev)
  PROVE  hist' \in History
<1> DEFINE out == IF ChoosesZero(t, ev) THEN 0 ELSE hist.out
           work == IF "WORK" \in m'.sr /\ "WORK" \notin m.sr \cap t.was THEN 0
                   ELSE Capped(hist.work + 1, WORK_GRACE_TICKS)
           rb == IF t.st = "MAIN" /\ ev = "RB" THEN 0
                 ELSE Capped(hist.rb + 1, SOCKET_DELAY_TICKS)
           before == IF t.ticks = 0 THEN 0 ELSE hist.wrong
           wrong == IF m'.st # "PASSWORD" THEN 0
                    ELSE IF t.st = "PASSWORD" /\ ev = "PRG"
                    THEN Capped(before + 1, 3) ELSE before
           down == IF "ALARM" \in m.sr \cup t.sr THEN 0 ELSE 1
           nan == {p \in hist.nan : m'.par[p] = NaN \/ m'.st = p}
<1>1. \E o, n \in {0, 1} :
        hist' = [out |-> out, overlap |-> o, work |-> work, unseen |-> n,
                 rb |-> rb, wrong |-> wrong, down |-> down, nan |-> nan]
  BY DEF Remember, History
<1>2. out \in Levels /\ down \in 0 .. 1
  BY Constants DEF History
<1>3. work \in 0 .. WORK_GRACE_TICKS
  BY Constants DEF History, Capped
<1>4. rb \in 0 .. SOCKET_DELAY_TICKS
  BY Constants DEF History, Capped
<1>5. wrong \in 0 .. 3
  BY DEF History, Capped
<1>6. nan \in SUBSET Params
  BY DEF History
<1> HIDE DEF out, work, rb, wrong, down, nan
<1> QED BY <1>1, <1>2, <1>3, <1>4, <1>5, <1>6 DEF History

-----------------------------------------------------------------------------
IInv == Good(m) /\ hist \in History /\ scene \in Scenes

LEMMA InitIInv == Init => IInv
<1> SUFFICES ASSUME Init PROVE IInv
  OBVIOUS
<1>1. Good(m)
  BY FactoryType, BootGood DEF Init
<1>2. NewHistory \in History
  BY Constants DEF NewHistory, History
<1> QED BY <1>1, <1>2 DEF Init, IInv

LEMMA NextIInv == IInv /\ [Next]_vars => IInv'
<1> SUFFICES ASSUME IInv, [Next]_vars PROVE IInv'
  OBVIOUS
<1>1. CASE Process
  <2>1. PICK cmd \in scene.cmds, goto \in scene.gotos, ev \in scene.keys :
          Tick(cmd, goto, ev)
    BY <1>1 DEF Process
  <2>2. goto \in Screens \cup {"NONE"}
    BY SceneType DEF IInv
  <2>3. Good(m')
    BY <2>1, <2>2, TickGood DEF IInv
  <2>4. PICK t \in Upkeep(cmd, goto, ev) : Remember(t, ev) /\ UNCHANGED scene
    BY <2>1 DEF Tick
  <2>5. t \in State
    BY <2>2, UpkeepGood DEF IInv, Good
  <2>6. hist' \in History
    BY <2>4, <2>5, HistoryType DEF IInv
  <2> QED BY <2>3, <2>4, <2>6 DEF IInv
<1>2. CASE \E v \in Levels : WriteOut(v)
  <2>1. PICK v \in Levels : WriteOut(v)
    BY <1>2
  <2>2. hist' \in History /\ scene' = scene
    BY <2>1 DEF WriteOut, History, IInv
  <2> QED BY <1>2, <2>2, WorldGood DEF IInv
<1>3. CASE WriteAlarm
  BY <1>3, WorldGood DEF IInv, WriteAlarm
<1>4. CASE \E p \in EditedParams : \E v \in Writable(p) : WriteParam(p, v)
  <2>1. PICK p \in EditedParams : \E v \in Writable(p) : WriteParam(p, v)
    BY <1>4
  <2>2. \E n \in {hist.nan, hist.nan \cup {p}, hist.nan \ {p}} :
          hist' = [hist EXCEPT !.nan = n]
    BY <2>1 DEF WriteParam
  <2>3. p \in Params
    BY MenuAssumption DEF MenuAssumption
  <2>4. hist' \in History /\ scene' = scene
    BY <2>1, <2>2, <2>3 DEF History, IInv, WriteParam
  <2> QED BY <1>4, <2>4, WorldGood DEF IInv
<1>5. CASE \E image \in {m.stored, Factory} : Reset(image)
  <2>1. PICK image \in {m.stored, Factory} : Reset(image)
    BY <1>5
  <2>2. image \in [Params -> Values]
    BY FactoryType DEF IInv, Good, State
  <2>3. Good(m')
    BY <2>1, <2>2, BootGood DEF Reset
  <2> DEFINE nan == {p \in Params : image[p] = NaN}
  <2>4. [NewHistory EXCEPT !.nan = nan] \in History
    <3>1. nan \in SUBSET Params
      OBVIOUS
    <3> HIDE DEF nan
    <3> QED BY <3>1, Constants DEF NewHistory, History
  <2>5. hist' = [NewHistory EXCEPT !.nan = nan] /\ scene' = scene
    BY <2>1 DEF Reset
  <2> QED BY <2>3, <2>4, <2>5 DEF IInv
<1>6. CASE UNCHANGED vars
  BY <1>6 DEF IInv, Good, ModesAgree, CursorInZone, TriesLeft, vars
<1> QED BY <1>1, <1>2, <1>3, <1>4, <1>5, <1>6 DEF Next

LEMMA Invariant == Spec => []IInv
BY InitIInv, NextIInv, PTL DEF Spec

(* Every static and register of menu.c keeps its type and range, whatever  *)
(* the scene: no timer runs past its period, no digit past the base, no    *)
(* index past its array.                                                   *)
THEOREM MenuTypeCorrect == Spec => []TypeOK
<1>1. IInv => TypeOK
  BY DEF IInv, Good, TypeOK
<1> QED BY <1>1, Invariant, PTL

(* The mode bits agree on every path in and out of standby, jumps of the   *)
(* master included (enter_state).                                          *)
THEOREM MenuModesAgree == Spec => []WorkOnlyWhenPowered
<1>1. IInv => WorkOnlyWhenPowered
  BY DEF IInv, Good, WorkOnlyWhenPowered
<1> QED BY <1>1, Invariant, PTL

(* A list that is shown never indexes past its PASS table.                 *)
THEOREM MenuCursorInZone == Spec => []ListCursorInZone
<1>1. IInv => ListCursorInZone
  BY DEF IInv, Good, ListCursorInZone
<1> QED BY <1>1, Invariant, PTL

-----------------------------------------------------------------------------
(***************************************************************************)
(* What the panel promises its operator, for every scene.                  *)
(*                                                                         *)
(* The third wrong code leaves.  `attempts` belongs to the panel, the      *)
(* history counts on its own; they agree while the screen is shown.  What  *)
(* has to be shown is that no stage of a tick leaves the screen, or enters *)
(* it again, behind the back of the count: the time in the state, `ticks`, *)
(* is 0 exactly when one did.                                              *)
(*                                                                         *)
(* The buzzer sounds for an alarm that is up and was not muted.  A command *)
(* may break that for a while, but the buzzer's stage comes later in the   *)
(* same tick, and no key undoes what it did.                               *)
(***************************************************************************)

Fields == {"st", "ticks", "attempts"}

(* u is a state that has just been entered.                                *)
Entered(u) == u.ticks = 0 /\ (u.st = "PASSWORD" => u.attempts = 0)

(* u is in the same state as t, for as long, and with as many tries.       *)
SameEntry(u, t) ==
  Fields \subseteq DOMAIN u /\ u.st = t.st /\ u.ticks = t.ticks
  /\ u.attempts = t.attempts

(* What a stage may do to the state t it is given.                         *)
Follows(u, t) ==
  Fields \subseteq DOMAIN u /\ (Entered(u) \/ SameEntry(u, t))

LEMMA StateFields ==
  ASSUME NEW t \in State
  PROVE  Fields \subseteq DOMAIN t
BY DEF State, Fields

LEMMA EnterFollows ==
  ASSUME NEW x, Fields \subseteq DOMAIN x, NEW s, NEW t
  PROVE  Follows(enter_state(x, s), t) /\ Entered(enter_state(x, s))
<1> DEFINE o == Opened(s)
           sr == ModesOn(x.sr, o)
           cursor == CursorOn(x, o)
           draft == DraftOn(x, o)
           digits == IF o = "PASSWORD" THEN [f \in 0 .. 3 |-> 0] ELSE x.digits
           field == IF o = "PASSWORD" THEN 0 ELSE x.field
           attempts == IF o = "PASSWORD" THEN 0 ELSE x.attempts
           e == enter_state(x, s)
<1>1. e = [x EXCEPT !.st = o, !.ticks = 0, !.sr = sr, !.listIdx = cursor,
                    !.draft = draft, !.digits = digits, !.field = field,
                    !.attempts = attempts]
  BY DEF enter_state
<1>2. o = "PASSWORD" => attempts = 0
  OBVIOUS
<1> HIDE DEF o, sr, cursor, draft, digits, field, attempts, e
<1>3. DOMAIN e = DOMAIN x
  BY <1>1
<1>4. e.st = o /\ e.ticks = 0 /\ e.attempts = attempts
  BY <1>1 DEF Fields
<1> QED BY <1>2, <1>3, <1>4 DEF Follows, Entered, e

(* The stages that drive outputs and count alarms leave the screen alone.  *)
LEMMA StagesKeepEntry ==
  ASSUME NEW t, Fields \subseteq DOMAIN t
  PROVE  /\ SameEntry(Boost(t), t) /\ SameEntry(Emergency(t), t)
         /\ SameEntry(Socket(t), t) /\ SameEntry(LampOff(t), t)
         /\ SameEntry(AlarmBit(t), t) /\ SameEntry(Buzzer(t), t)
<1>1. SameEntry(Boost(t), t)
  BY DEF Boost, BoostStage, SameEntry, Fields
<1>2. SameEntry(Emergency(t), t)
  BY DEF Emergency, EmergencyStage, SameEntry, Fields
<1>3. SameEntry(Socket(t), t)
  BY DEF Socket, SameEntry, Fields
<1>4. SameEntry(LampOff(t), t)
  BY DEF LampOff, LampStage, SameEntry, Fields
<1>5. SameEntry(AlarmBit(t), t)
  BY DEF AlarmBit, SameEntry, Fields
<1>6. SameEntry(Buzzer(t), t)
  BY DEF Buzzer, BuzzerStage, SameEntry, Fields
<1> QED BY <1>1, <1>2, <1>3, <1>4, <1>5, <1>6

(* A command changes the screen only by entering another one.              *)
LEMMA CommandFollows ==
  ASSUME NEW t, Fields \subseteq DOMAIN t, NEW cmd
  PROVE  Follows(handle_modbus_cmd(t, cmd), t)
<1> DEFINE r == handle_modbus_cmd(t, cmd)
           a == [t EXCEPT !.flags = {}, !.sr = @ \ {"ALARM"}]
<1>1. SameEntry(t, t) /\ SameEntry(a, t) /\ Fields \subseteq DOMAIN a
  BY DEF SameEntry, Fields
<1>2. \/ \E x, s : Fields \subseteq DOMAIN x /\ r = enter_state(x, s)
      \/ SameEntry(r, t)
  <2>1. CASE cmd \in {"POWER_ON", "STANDBY"}
    <3>1. \/ r = t \/ r = enter_state(t, "POWER_ON")
          \/ r = enter_state(t, "STANDBY")
      BY <2>1 DEF handle_modbus_cmd
    <3> QED BY <1>1, <3>1
  <2>2. CASE cmd = "ACK_ALARM"
    <3>1. r = IF t.st = "ALARM" THEN enter_state(a, "MAIN") ELSE a
      BY <2>2 DEF handle_modbus_cmd
    <3> HIDE DEF r, a
    <3> QED BY <1>1, <3>1
  <2>3. CASE cmd \in {"START", "STOP", "SET_AUTO", "SET_MANUAL",
                      "NIGHT_TOGGLE", "EMERGENCY_TOGGLE"}
    <3>1. \/ r = t \/ \E b : r = [t EXCEPT !.sr = b]
      BY <2>3 DEF handle_modbus_cmd
    <3> QED BY <1>1, <3>1 DEF SameEntry, Fields
  <2>4. CASE cmd \in {"LAMP_TOGGLE", "SOCKET_TOGGLE"}
    <3>1. \E b : r = [t EXCEPT !.osr = b]
      BY <2>4 DEF handle_modbus_cmd
    <3> QED BY <3>1 DEF SameEntry, Fields
  <2>5. CASE cmd = "BUZZER_MUTE"
    <3>1. r = [t EXCEPT !.muted = 1, !.buz = "OFF"]
      BY <2>5 DEF handle_modbus_cmd
    <3> QED BY <3>1 DEF SameEntry, Fields
  <2>6. CASE cmd \notin Commands \ {"NONE"}
    <3>1. r = t
      BY <2>6 DEF handle_modbus_cmd, Commands
    <3> QED BY <1>1, <3>1
  <2> QED BY <2>1, <2>2, <2>3, <2>4, <2>5, <2>6 DEF Commands
<1> HIDE DEF r
<1>3. CASE SameEntry(r, t)
  BY <1>3 DEF Follows, SameEntry, r
<1>4. CASE \E x, s : Fields \subseteq DOMAIN x /\ r = enter_state(x, s)
  BY <1>4, EnterFollows DEF r
<1> QED BY <1>2, <1>3, <1>4

(* So does the inactivity timeout.                                         *)
LEMMA InactivityFollows ==
  ASSUME NEW t, Fields \subseteq DOMAIN t, NEW ev
  PROVE  Follows(Inactivity(t, ev), t)
<1> DEFINE n == IF ev = "NONE" THEN t.inact + 1 ELSE 0
           zero == [t EXCEPT !.inact = 0]
           more == [t EXCEPT !.inact = n]
<1>1. SameEntry(zero, t) /\ SameEntry(more, t) /\ Fields \subseteq DOMAIN zero
  BY DEF SameEntry, Fields
<1>2. Inactivity(t, ev) \in {zero, more, enter_state(zero, "MAIN")}
  BY DEF Inactivity
<1> HIDE DEF n, zero, more
<1> QED BY <1>1, <1>2, EnterFollows DEF Follows, SameEntry

(* The state the keys see, compared with the last tick's: either it was    *)
(* entered in this tick, or nothing about it changed but the time.         *)
Tracks(t) ==
  /\ t.ticks = 0 => Entered(t)
  /\ t.ticks # 0 => t.st = m.st /\ t.attempts = m.attempts

LEMMA FollowsTracks ==
  ASSUME NEW t, Tracks(t), NEW u, Follows(u, t)
  PROVE  Tracks(u)
BY DEF Tracks, Follows, Entered, SameEntry

LEMMA UpkeepTracks ==
  ASSUME m \in State, NEW cmd, NEW goto, NEW ev,
         NEW t \in Upkeep(cmd, goto, ev)
  PROVE  Tracks(t) /\ Fields \subseteq DOMAIN t
<1> DEFINE c == Count(m)
           d == handle_modbus_cmd(c, cmd)
           g == handle_menu_goto(d, goto)
           h == Emergency(Boost(g))
           k == LampOff(Socket(h))
           l == Buzzer(AlarmBit(k))
<1>1. Tracks(c) /\ Fields \subseteq DOMAIN c
  <2>1. Fields \subseteq DOMAIN m /\ m.ticks \in Nat
    BY StateFields, Constants DEF State
  <2>2. Capped(m.ticks + 1, POWERON_TICKS) # 0
    BY <2>1, Constants DEF Capped
  <2> QED BY <2>1, <2>2 DEF Count, Tracks, Fields
<1> HIDE DEF c
<1>2. Tracks(d) /\ Fields \subseteq DOMAIN d
  BY <1>1, CommandFollows, FollowsTracks DEF Follows
<1> HIDE DEF d
<1>3. Follows(g, d)
  BY <1>2, EnterFollows DEF handle_menu_goto, Follows, SameEntry
<1>4. Tracks(g) /\ Fields \subseteq DOMAIN g
  BY <1>2, <1>3, FollowsTracks DEF Follows
<1> HIDE DEF g
<1>5. SameEntry(Boost(g), g) /\ SameEntry(h, Boost(g))
  BY <1>4, StagesKeepEntry DEF SameEntry
<1>6. SameEntry(h, g)
  BY <1>5 DEF SameEntry
<1> HIDE DEF h
<1>7. SameEntry(Socket(h), h) /\ SameEntry(k, Socket(h))
  BY <1>6, StagesKeepEntry DEF SameEntry
<1>8. SameEntry(k, g)
  BY <1>6, <1>7 DEF SameEntry
<1> HIDE DEF k
<1>9. SameEntry(AlarmBit(k), k) /\ SameEntry(l, AlarmBit(k))
  BY <1>8, StagesKeepEntry DEF SameEntry
<1>10. SameEntry(l, g)
  BY <1>8, <1>9 DEF SameEntry
<1>11. t = Inactivity(l, ev)
  BY DEF Upkeep, l, k, h, g, d, c
<1> HIDE DEF l
<1>12. Tracks(l) /\ Fields \subseteq DOMAIN l
  BY <1>4, <1>10, FollowsTracks DEF Follows, SameEntry
<1> QED BY <1>11, <1>12, InactivityFollows, FollowsTracks DEF Follows

-----------------------------------------------------------------------------
(* The keys.                                                               *)

(* Outside the password screen no key finds tries used up on the password  *)
(* screen: it either stays where it is or enters a state.                  *)
LEMMA OtherKeysEnter ==
  ASSUME NEW t \in State, t.st # "PASSWORD", NEW ev, ScreenKey(t, ev)
  PROVE  m'.st = "PASSWORD" => m'.attempts = 0
<1>1. Fields \subseteq DOMAIN t
  BY StateFields
<1>2. \/ \E x, s : Fields \subseteq DOMAIN x /\ m' = enter_state(x, s)
      \/ m'.st = t.st
  <2>1. CASE SplashEnds(t) \/ SwitchOn(t, ev) \/ MainPassword(t, ev)
             \/ ListOpen(t, ev) \/ LeaveConfig(t, ev)
    BY <1>1, <2>1
    DEF SplashEnds, SwitchOn, MainPassword, ListOpen, LeaveConfig
  <2>2. CASE MainOnOff(t, ev)
    <3> DEFINE a == [t EXCEPT !.sr = @ \ {"NIGHT", "WORK"}]
    <3>1. Fields \subseteq DOMAIN a
      BY <1>1
    <3>2. CASE "NIGHT" \in t.sr
      <4>1. m' = enter_state(a, "STANDBY")
        BY <2>2, <3>2 DEF MainOnOff
      <4> HIDE DEF a
      <4> QED BY <3>1, <4>1
    <3>3. CASE "NIGHT" \notin t.sr
      BY <1>1, <2>2, <3>3 DEF MainOnOff, Fields
    <3> QED BY <3>2, <3>3
  <2>3. CASE MainNight(t, ev) \/ PressEmergency(t, ev) \/ AlarmAutoMan(t, ev)
    BY <1>1, <2>3 DEF MainNight, PressEmergency, AlarmAutoMan, Fields
  <2>4. CASE MainAutoMan(t, ev) \/ MainLamp(t, ev) \/ MainSocket(t, ev)
    BY <1>1, <2>4 DEF MainAutoMan, MainLamp, MainSocket, Fields
  <2>5. CASE MainShowAlarm(t, ev)
    <3> DEFINE a == [t EXCEPT !.muted = 1, !.buz = "OFF"]
    <3>1. Fields \subseteq DOMAIN a /\ m' = enter_state(a, "ALARM")
      BY <1>1, <2>5 DEF MainShowAlarm
    <3> HIDE DEF a
    <3> QED BY <3>1
  <2>6. CASE AlarmAck(t, ev)
    <3> DEFINE a == [t EXCEPT !.muted = 1, !.buz = "OFF", !.flags = {},
                              !.sr = @ \ {"ALARM"}]
    <3>1. Fields \subseteq DOMAIN a /\ m' = enter_state(a, "MAIN")
      BY <1>1, <2>6 DEF AlarmAck
    <3> HIDE DEF a
    <3> QED BY <3>1
  <2>7. CASE ListMove(t, ev) \/ EditorValue(t, ev)
    <3>1. \/ \E i : m' = [t EXCEPT !.listIdx = i]
          \/ \E d : m' = [t EXCEPT !.draft = d]
      BY <2>7 DEF ListMove, EditorValue
    <3> QED BY <1>1, <3>1 DEF Fields
  <2>8. CASE PwDigit(t, ev) \/ PwField(t, ev) \/ PwConfirm(t, ev)
    BY <2>8 DEF PwDigit, PwField, PwConfirm
  <2>9. ASSUME NEW x, Fields \subseteq DOMAIN x
        PROVE  \E y, s : Fields \subseteq DOMAIN y
                         /\ editor_back(x) = enter_state(y, s)
    <3> DEFINE z == ZoneOf(x.st)
               i == IndexOf(x.st)
               a == [x EXCEPT !.listIdx = i]
    <3>1. Fields \subseteq DOMAIN a
      BY <2>9
    <3>2. editor_back(x) = IF Size(z) > 1 THEN enter_state(a, PassList[z])
                           ELSE enter_state(x, "MAIN")
      BY DEF editor_back
    <3> HIDE DEF a, z, i
    <3> QED BY <2>9, <3>1, <3>2
  <2>10. CASE EditorCommit(t, ev) \/ EditorLeave(t, ev)
    <3>1. Fields \subseteq DOMAIN editor_commit_draft(t)
      BY <1>1 DEF editor_commit_draft
    <3> QED BY <1>1, <2>9, <2>10, <3>1 DEF EditorCommit, EditorLeave
  <2>11. CASE EditorSave(t, ev)
    <3> DEFINE c == editor_commit_draft(t)
               a == [c EXCEPT !.stored = c.par]
    <3>1. Fields \subseteq DOMAIN c
      BY <1>1 DEF editor_commit_draft
    <3>2. m' = enter_state(a, "MAIN")
      BY <2>11 DEF EditorSave
    <3> HIDE DEF c
    <3>3. Fields \subseteq DOMAIN a
      BY <3>1
    <3> HIDE DEF a
    <3> QED BY <3>2, <3>3
  <2>12. CASE NoKey(t, ev)
    BY <2>12 DEF NoKey
  <2> QED BY <2>1, <2>2, <2>3, <2>4, <2>5, <2>6, <2>7, <2>8, <2>10, <2>11,
             <2>12 DEF ScreenKey
<1> QED BY <1>2, EnterFollows DEF Entered

(* On the password screen a key uses up a try exactly when it confirms a   *)
(* wrong code and stays; to use up the third is to leave.                  *)
LEMMA PasswordKeysCount ==
  ASSUME NEW t, Good(t), t.st = "PASSWORD", NEW ev, ScreenKey(t, ev),
         m'.st = "PASSWORD"
  PROVE  m'.attempts = IF ev = "PRG" THEN t.attempts + 1 ELSE t.attempts
<1>1. t \in State /\ t.attempts \in 0 .. 2 /\ Fields \subseteq DOMAIN t
  BY StateFields DEF Good, TriesLeft, State
<1>2. t.st \notin Lists \cup Params
                     \cup {"POWER_ON", "STANDBY", "MAIN", "ALARM"}
  BY ScreenNames
<1>3. CASE PwDigit(t, ev) \/ PwField(t, ev)
  <2>1. \/ \E d : m' = [t EXCEPT !.digits = d]
        \/ \E f : m' = [t EXCEPT !.field = f]
    BY <1>3 DEF PwDigit, PwField
  <2>2. ev # "PRG"
    BY <1>3 DEF PwDigit, PwField
  <2> QED BY <1>1, <2>1, <2>2 DEF Fields
<1>4. CASE LeaveConfig(t, ev)
  <2>1. Opened("MAIN") = "MAIN"
    BY OpenedType, ScreenNames DEF Screens
  <2>2. m'.st = "MAIN"
    BY <1>1, <1>4, <2>1 DEF LeaveConfig, enter_state, Fields
  <2> QED BY <2>2
<1>5. CASE NoKey(t, ev)
  BY <1>2, <1>5 DEF NoKey, KeysOf
<1>6. CASE PwConfirm(t, ev)
  <2> DEFINE z == ZoneOfCode(Code(t.digits))
             k == t.attempts + 1
             wrong == [t EXCEPT !.attempts = k]
             zeros == [f \in 0 .. 3 |-> 0]
             again == [wrong EXCEPT !.digits = zeros, !.field = 0]
  <2>1. /\ ev = "PRG"
        /\ m' = IF z # 0 THEN enter_pass(t, z)
                ELSE IF wrong.attempts >= 3 THEN enter_state(wrong, "MAIN")
                ELSE again
    BY <1>6 DEF PwConfirm
  <2>2. z # 0 => z \in Zones
    BY DEF ZoneOfCode, Zones
  <2> HIDE DEF z, k, zeros
  <2>3. again.attempts = k /\ Fields \subseteq DOMAIN wrong
    BY <1>1 DEF Fields
  <2> HIDE DEF wrong, again
  <2>4. ASSUME z \in Zones PROVE enter_pass(t, z).st # "PASSWORD"
    <3> DEFINE l == PassList[z]
               i == IF Size(z) <= 1 THEN t.listIdx ELSE 0
               a == [t EXCEPT !.listIdx = i]
    <3>1. l \in Lists
      BY <2>4, Entries
    <3>2. Opened(l) \in Lists \cup Params
      <4>1. 1 \in 1 .. Size(ZoneOf(l)) /\ ZoneOf(l) \in Zones
        BY <3>1, ZoneOfScreen, Sizes
      <4> QED BY <3>1, <4>1, Entries DEF Opened
    <3>3. enter_pass(t, z) = enter_state(a, l)
      BY DEF enter_pass
    <3> HIDE DEF l, i
    <3>4. Fields \subseteq DOMAIN a
      BY <1>1
    <3> HIDE DEF a
    <3>5. enter_state(a, l).st = Opened(l)
      BY <3>4 DEF enter_state, Fields
    <3> QED BY <3>2, <3>3, <3>5, ScreenNames
  <2>5. enter_state(wrong, "MAIN").st # "PASSWORD"
    <3>1. Opened("MAIN") = "MAIN"
      BY OpenedType, ScreenNames DEF Screens
    <3> QED BY <2>3, <3>1 DEF enter_state, Fields
  <2> QED BY <2>1, <2>2, <2>3, <2>4, <2>5 DEF k
<1>7. ~(\/ SplashEnds(t)         \/ SwitchOn(t, ev)     \/ MainOnOff(t, ev)
        \/ MainNight(t, ev)      \/ MainAutoMan(t, ev)  \/ MainShowAlarm(t, ev)
        \/ MainPassword(t, ev)   \/ MainLamp(t, ev)     \/ MainSocket(t, ev)
        \/ PressEmergency(t, ev) \/ AlarmAck(t, ev)     \/ AlarmAutoMan(t, ev))
  BY <1>2
  DEF SplashEnds, SwitchOn, MainOnOff, MainNight, MainAutoMan, MainShowAlarm,
      MainPassword, MainLamp, MainSocket, PressEmergency, AlarmAck,
      AlarmAutoMan
<1>8. ~(\/ ListMove(t, ev)    \/ ListOpen(t, ev)     \/ EditorValue(t, ev)
        \/ EditorCommit(t, ev) \/ EditorSave(t, ev)  \/ EditorLeave(t, ev))
  <2>1. EditedParams \subseteq Params
    BY MenuAssumption DEF MenuAssumption
  <2> QED BY <1>2, <2>1 DEF ListMove, ListOpen, EditorValue, EditorCommit,
             EditorSave, EditorLeave
<1> QED BY <1>3, <1>4, <1>5, <1>6, <1>7, <1>8 DEF ScreenKey

-----------------------------------------------------------------------------
(* The invariant: the history's count of wrong codes is the panel's.       *)
CountAgrees ==
  hist.wrong = IF m.st = "PASSWORD" THEN m.attempts ELSE 0

LEMMA TickCounts ==
  ASSUME IInv, CountAgrees, NEW cmd, NEW goto \in Screens \cup {"NONE"},
         NEW ev, Tick(cmd, goto, ev), IInv'
  PROVE  CountAgrees'
<1>1. PICK t \in Upkeep(cmd, goto, ev) : ScreenKey(t, ev) /\ Remember(t, ev)
  BY DEF Tick
<1> DEFINE before == IF t.ticks = 0 THEN 0 ELSE hist.wrong
<1>2. Good(t) /\ t \in State /\ m' \in State
  BY UpkeepGood DEF IInv, Good
<1>3. Tracks(t)
  BY UpkeepTracks DEF IInv, Good
<1>4. before = IF t.st = "PASSWORD" THEN t.attempts ELSE 0
  BY <1>3 DEF Tracks, Entered, CountAgrees
<1>5. hist'.wrong = IF m'.st # "PASSWORD" THEN 0
                    ELSE IF t.st = "PASSWORD" /\ ev = "PRG"
                    THEN Capped(before + 1, 3) ELSE before
  BY <1>1 DEF Remember
<1> HIDE DEF before
<1>6. CASE m'.st # "PASSWORD"
  BY <1>5, <1>6 DEF CountAgrees
<1>7. CASE m'.st = "PASSWORD" /\ t.st # "PASSWORD"
  BY <1>1, <1>2, <1>4, <1>5, <1>7, OtherKeysEnter DEF CountAgrees
<1>8. CASE m'.st = "PASSWORD" /\ t.st = "PASSWORD"
  <2>1. m'.attempts = IF ev = "PRG" THEN t.attempts + 1 ELSE t.attempts
    BY <1>1, <1>2, <1>8, PasswordKeysCount
  <2>2. m'.attempts \in 0 .. 2 /\ t.attempts \in Nat
    BY <1>2, <1>8 DEF IInv, Good, TriesLeft, State
  <2> QED BY <1>4, <1>5, <1>8, <2>1, <2>2 DEF CountAgrees, Capped
<1> QED BY <1>6, <1>7, <1>8

LEMMA NextCounts == IInv /\ CountAgrees /\ [Next]_vars /\ IInv' => CountAgrees'
<1> SUFFICES ASSUME IInv, CountAgrees, [Next]_vars, IInv' PROVE CountAgrees'
  OBVIOUS
<1>1. m \in State /\ Fields \subseteq DOMAIN m
  BY StateFields DEF IInv, Good
<1>2. CASE Process
  <2>1. PICK cmd \in scene.cmds, goto \in scene.gotos, ev \in scene.keys :
          Tick(cmd, goto, ev)
    BY <1>2 DEF Process
  <2>2. goto \in Screens \cup {"NONE"}
    BY SceneType DEF IInv
  <2> QED BY <2>1, <2>2, TickCounts
<1>3. CASE \E v \in Levels : WriteOut(v)
  <2>1. /\ \E v : m' = [m EXCEPT !.out = v]
        /\ hist'.wrong = hist.wrong
    BY <1>3 DEF WriteOut, IInv, History
  <2> QED BY <1>1, <2>1 DEF CountAgrees, Fields
<1>4. CASE WriteAlarm
  BY <1>1, <1>4 DEF WriteAlarm, CountAgrees, Fields
<1>5. CASE \E p \in EditedParams : \E v \in Writable(p) : WriteParam(p, v)
  <2>1. (\E q : m' = [m EXCEPT !.par = q]) /\ (\E n : hist' = [hist EXCEPT !.nan = n])
    BY <1>5 DEF WriteParam
  <2>2. hist'.wrong = hist.wrong
    BY <2>1 DEF IInv, History
  <2> QED BY <1>1, <2>1, <2>2 DEF CountAgrees, Fields
<1>6. CASE \E image \in {m.stored, Factory} : Reset(image)
  BY <1>6 DEF Reset, Boot, NewHistory, CountAgrees
<1>7. CASE UNCHANGED vars
  BY <1>7 DEF vars, CountAgrees
<1> QED BY <1>2, <1>3, <1>4, <1>5, <1>6, <1>7 DEF Next

(* A wrong code can be entered at most twice: the third one closes the     *)
(* panel, whatever the keys, commands, jumps and timeouts in between.      *)
THEOREM ThirdWrongCode == Spec => []ThirdWrongCodeLeaves
<1>1. Init => CountAgrees
  BY DEF Init, Boot, NewHistory, CountAgrees
<1>2. IInv /\ CountAgrees => ThirdWrongCodeLeaves
  BY DEF IInv, Good, TriesLeft, State, CountAgrees, ThirdWrongCodeLeaves
<1> QED BY <1>1, <1>2, NextCounts, Invariant, PTL DEF Spec

-----------------------------------------------------------------------------
(* The buzzer.                                                             *)
Honest(t) == t.buz = "ON" => "ALARM" \in t.sr /\ t.muted = 0

AlarmFields == {"sr", "buz", "muted"}

LEMMA BuzzerHonest ==
  ASSUME NEW t \in State
  PROVE  Honest(Buzzer(t)) /\ AlarmFields \subseteq DOMAIN Buzzer(t)
<1> DEFINE now == "ALARM" \in t.sr
           new == now /\ "ALARM" \notin t.was
           mute == IF new THEN 0 ELSE t.muted
           sound == now /\ mute = 0
           next == (IF new THEN 0 ELSE t.buzTick) + 1
           tick == IF sound /\ next < BUZZER_PERIOD_TICKS THEN next ELSE 0
           buz == IF sound /\ tick < BUZZER_ON_TICKS THEN "ON" ELSE "OFF"
           was == (t.was \ {"ALARM"}) \cup (t.sr \cap {"ALARM"})
           r == Buzzer(t)
<1>1. r = [t EXCEPT !.muted = mute, !.buzTick = tick, !.buz = buz, !.was = was]
  BY DEF Buzzer, BuzzerStage
<1>2. buz = "ON" => "ALARM" \in t.sr /\ mute = 0
  OBVIOUS
<1> HIDE DEF mute, tick, buz, was, r
<1>3. r.buz = buz /\ r.muted = mute /\ r.sr = t.sr /\ DOMAIN r = DOMAIN t
  BY <1>1 DEF State
<1> QED BY <1>2, <1>3 DEF Honest, AlarmFields, State, r

(* No screen takes the alarm bit away.                                     *)
LEMMA EnterHonest ==
  ASSUME NEW t, AlarmFields \subseteq DOMAIN t, Honest(t), NEW s
  PROVE  Honest(enter_state(t, s)) /\ AlarmFields \subseteq DOMAIN enter_state(t, s)
<1> DEFINE o == Opened(s)
           sr == ModesOn(t.sr, o)
           cursor == CursorOn(t, o)
           draft == DraftOn(t, o)
           digits == IF o = "PASSWORD" THEN [f \in 0 .. 3 |-> 0] ELSE t.digits
           field == IF o = "PASSWORD" THEN 0 ELSE t.field
           attempts == IF o = "PASSWORD" THEN 0 ELSE t.attempts
           e == enter_state(t, s)
<1>1. e = [t EXCEPT !.st = o, !.ticks = 0, !.sr = sr, !.listIdx = cursor,
                    !.draft = draft, !.digits = digits, !.field = field,
                    !.attempts = attempts]
  BY DEF enter_state
<1>2. "ALARM" \in t.sr => "ALARM" \in sr
  BY DEF ModesOn
<1> HIDE DEF o, sr, cursor, draft, digits, field, attempts, e
<1>3. e.buz = t.buz /\ e.muted = t.muted /\ e.sr = sr /\ DOMAIN e = DOMAIN t
  BY <1>1 DEF AlarmFields
<1> QED BY <1>2, <1>3 DEF Honest, e

(* After a tick's upkeep the buzzer is honest, whatever it was before.     *)
LEMMA UpkeepHonest ==
  ASSUME Good(m), NEW cmd, NEW goto \in Screens \cup {"NONE"}, NEW ev,
         NEW t \in Upkeep(cmd, goto, ev)
  PROVE  Honest(t) /\ AlarmFields \subseteq DOMAIN t
<1>1. PICK a : a = handle_menu_goto(handle_modbus_cmd(Count(m), cmd), goto)
  OBVIOUS
<1> DEFINE k == AlarmBit(LampOff(Socket(Emergency(Boost(a)))))
           l == Buzzer(k)
           n == IF ev = "NONE" THEN l.inact + 1 ELSE 0
           zero == [l EXCEPT !.inact = 0]
           more == [l EXCEPT !.inact = n]
<1>2. Good(a)
  BY <1>1, CountGood, CommandGood, GotoGood
<1>3. Good(LampOff(Socket(Emergency(Boost(a)))))
  BY <1>2, BoostGood, EmergencyGood, SocketGood, LampGood
<1>4. k \in State
  BY <1>3, AlarmBitGood DEF Good
<1>5. t = Inactivity(l, ev)
  BY <1>1 DEF Upkeep
<1>6. t \in {zero, more, enter_state(zero, "MAIN")}
  BY <1>5 DEF Inactivity
<1> HIDE DEF k
<1>7. Honest(l) /\ AlarmFields \subseteq DOMAIN l
  BY <1>4, BuzzerHonest
<1> HIDE DEF l, n
<1>8. Honest(zero) /\ Honest(more) /\ AlarmFields \subseteq DOMAIN zero
      /\ AlarmFields \subseteq DOMAIN more
  BY <1>7 DEF Honest, AlarmFields
<1> HIDE DEF zero, more
<1> QED BY <1>6, <1>8, EnterHonest

(* No key gives the buzzer a voice or takes its alarm away.                *)
LEMMA KeysHonest ==
  ASSUME NEW t, AlarmFields \subseteq DOMAIN t, Honest(t), NEW ev,
         ScreenKey(t, ev)
  PROVE  Honest(m')
<1> DEFINE Kept(x) == AlarmFields \subseteq DOMAIN x /\ Honest(x)
<1>1. Kept(t)
  OBVIOUS
<1>2. \A x, s : Kept(x) => Honest(enter_state(x, s))
  BY EnterHonest
<1>3. ASSUME NEW b \in {"NIGHT", "MANUAL", "EMERGENCY", "WORK"}
      PROVE  Kept([t EXCEPT !.sr = Toggle(@, b)])
  BY <1>3 DEF Toggle, Honest, AlarmFields
<1>4. CASE SplashEnds(t) \/ SwitchOn(t, ev) \/ MainPassword(t, ev)
           \/ ListOpen(t, ev) \/ LeaveConfig(t, ev)
  BY <1>1, <1>2, <1>4
  DEF SplashEnds, SwitchOn, MainPassword, ListOpen, LeaveConfig
<1>5. CASE MainOnOff(t, ev)
  <2> DEFINE a == [t EXCEPT !.sr = @ \ {"NIGHT", "WORK"}]
  <2>1. Kept(a)
    BY DEF Honest, AlarmFields
  <2>2. m' \in {enter_state(a, "STANDBY"), [t EXCEPT !.sr = Toggle(@, "WORK")]}
    BY <1>5 DEF MainOnOff
  <2> HIDE DEF a
  <2> QED BY <1>2, <1>3, <2>1, <2>2
<1>6. CASE MainNight(t, ev) \/ PressEmergency(t, ev) \/ AlarmAutoMan(t, ev)
  BY <1>3, <1>6 DEF MainNight, PressEmergency, AlarmAutoMan
<1>7. CASE MainAutoMan(t, ev)
  <2> DEFINE out == IF ChoosesZero(t, ev) THEN 0 ELSE t.out
             a == [t EXCEPT !.sr = Toggle(@, "MANUAL")]
  <2>1. m' = [a EXCEPT !.out = out]
    BY <1>7 DEF MainAutoMan
  <2>2. Kept(a)
    BY <1>3
  <2> HIDE DEF a, out
  <2> QED BY <2>1, <2>2 DEF Honest, AlarmFields
<1>8. CASE MainLamp(t, ev) \/ MainSocket(t, ev)
  BY <1>8 DEF MainLamp, MainSocket, Honest, AlarmFields
<1>9. CASE MainShowAlarm(t, ev) \/ AlarmAck(t, ev)
  <2> DEFINE a == [t EXCEPT !.muted = 1, !.buz = "OFF"]
             b == [t EXCEPT !.muted = 1, !.buz = "OFF", !.flags = {},
                            !.sr = @ \ {"ALARM"}]
  <2>1. Kept(a) /\ Kept(b)
    BY DEF Honest, AlarmFields
  <2>2. m' \in {enter_state(a, "ALARM"), enter_state(b, "MAIN")}
    BY <1>9 DEF MainShowAlarm, AlarmAck
  <2> HIDE DEF a, b
  <2> QED BY <1>2, <2>1, <2>2
<1>10. CASE ListMove(t, ev) \/ PwDigit(t, ev) \/ PwField(t, ev)
            \/ EditorValue(t, ev)
  <2>1. \/ \E i : m' = [t EXCEPT !.listIdx = i]
        \/ \E d : m' = [t EXCEPT !.digits = d]
        \/ \E f : m' = [t EXCEPT !.field = f]
        \/ \E v : m' = [t EXCEPT !.draft = v]
    BY <1>10 DEF ListMove, PwDigit, PwField, EditorValue
  <2> QED BY <2>1 DEF Honest, AlarmFields
<1>11. CASE PwConfirm(t, ev)
  <2> DEFINE z == ZoneOfCode(Code(t.digits))
             i == IF Size(z) <= 1 THEN t.listIdx ELSE 0
             a == [t EXCEPT !.listIdx = i]
             wrong == [t EXCEPT !.attempts = @ + 1]
             zeros == [f \in 0 .. 3 |-> 0]
             again == [wrong EXCEPT !.digits = zeros, !.field = 0]
  <2>1. m' \in {enter_state(a, PassList[z]), enter_state(wrong, "MAIN"), again}
    BY <1>11 DEF PwConfirm, enter_pass
  <2> HIDE DEF z, i, zeros
  <2>2. Kept(a) /\ Kept(wrong)
    BY DEF Honest, AlarmFields
  <2> HIDE DEF a, wrong
  <2>3. Honest(again)
    BY <2>2 DEF Honest, AlarmFields
  <2> HIDE DEF again
  <2> QED BY <1>2, <2>1, <2>2, <2>3
<1>12. Kept(editor_commit_draft(t))
  BY DEF editor_commit_draft, Honest, AlarmFields
<1>13. ASSUME NEW x, Kept(x)
       PROVE  Honest(editor_back(x))
  <2> DEFINE z == ZoneOf(x.st)
             i == IndexOf(x.st)
             a == [x EXCEPT !.listIdx = i]
  <2>1. editor_back(x) \in {enter_state(a, PassList[z]), enter_state(x, "MAIN")}
    BY DEF editor_back
  <2> HIDE DEF z, i
  <2>2. Kept(a)
    BY <1>13 DEF Honest, AlarmFields
  <2> HIDE DEF a
  <2> QED BY <1>2, <1>13, <2>1, <2>2
<1>14. CASE EditorCommit(t, ev) \/ EditorLeave(t, ev)
  BY <1>1, <1>12, <1>13, <1>14 DEF EditorCommit, EditorLeave
<1>15. CASE EditorSave(t, ev)
  <2> DEFINE c == editor_commit_draft(t)
             a == [c EXCEPT !.stored = c.par]
  <2>1. m' = enter_state(a, "MAIN")
    BY <1>15 DEF EditorSave
  <2> HIDE DEF c
  <2>2. Kept(a)
    BY <1>12 DEF Honest, AlarmFields, c
  <2> HIDE DEF a
  <2> QED BY <1>2, <2>1, <2>2
<1>16. CASE NoKey(t, ev)
  BY <1>16 DEF NoKey
<1> QED BY <1>4, <1>5, <1>6, <1>7, <1>8, <1>9, <1>10, <1>11, <1>14, <1>15,
           <1>16 DEF ScreenKey

(* On every screen and through every acknowledgement, command and jump,    *)
(* the buzzer sounds only for an alarm that is up and was not muted.       *)
THEOREM BuzzerHasCause == Spec => []BuzzerOnlyForUnmutedAlarm
<1>1. Init => Honest(m)
  BY DEF Init, Boot, Honest
<1>2. IInv /\ Honest(m) /\ [Next]_vars => Honest(m)'
  <2> SUFFICES ASSUME IInv, Honest(m), [Next]_vars PROVE Honest(m')
    OBVIOUS
  <2>1. AlarmFields \subseteq DOMAIN m
    BY DEF IInv, Good, State, AlarmFields
  <2>2. CASE Process
    <3>1. PICK cmd \in scene.cmds, goto \in scene.gotos, ev \in scene.keys :
            Tick(cmd, goto, ev)
      BY <2>2 DEF Process
    <3>2. goto \in Screens \cup {"NONE"}
      BY SceneType DEF IInv
    <3>3. PICK t \in Upkeep(cmd, goto, ev) : ScreenKey(t, ev)
      BY <3>1 DEF Tick
    <3> QED BY <3>2, <3>3, UpkeepHonest, KeysHonest DEF IInv
  <2>3. CASE \E v \in Levels : WriteOut(v)
    BY <2>1, <2>3 DEF WriteOut, Honest, AlarmFields
  <2>4. CASE WriteAlarm
    BY <2>1, <2>4 DEF WriteAlarm, Honest, AlarmFields
  <2>5. CASE \E p \in EditedParams : \E v \in Writable(p) : WriteParam(p, v)
    <3>1. \E q : m' = [m EXCEPT !.par = q]
      BY <2>5 DEF WriteParam
    <3> QED BY <2>1, <3>1 DEF Honest, AlarmFields
  <2>6. CASE \E image \in {m.stored, Factory} : Reset(image)
    BY <2>6 DEF Reset, Boot, Honest
  <2>7. CASE UNCHANGED vars
    BY <2>7 DEF vars, Honest
  <2> QED BY <2>2, <2>3, <2>4, <2>5, <2>6, <2>7 DEF Next
<1>3. Honest(m) => BuzzerOnlyForUnmutedAlarm
  BY DEF Honest, BuzzerOnlyForUnmutedAlarm
<1> QED BY <1>1, <1>2, <1>3, Invariant, PTL DEF Spec

-----------------------------------------------------------------------------
(***************************************************************************)
(* Outputs, delays and alarms across a whole tick.                         *)
(*                                                                         *)
(* Each of them is driven by one or two stages; the others only have to    *)
(* leave it alone.  What is left alone is a relation between two states,   *)
(* a lemma says which operator keeps which relation, and the effect of a   *)
(* whole upkeep follows from the one or two stages that matter.            *)
(***************************************************************************)

(* The overrides of MANUAL_OUT: the same output, timers and saved values.  *)
SameDrive(u, t) ==
  /\ u.out = t.out /\ u.boost = t.boost /\ u.boostSave = t.boostSave
  /\ u.emergOut = t.emergOut /\ u.grace = t.grace
  /\ u.was \ {"ALARM"} = t.was \ {"ALARM"}

(* The socket: the same delay and the same relay.                          *)
SameSocket(u, t) ==
  u.sockPend = t.sockPend /\ ("SOCKET" \in u.osr <=> "SOCKET" \in t.osr)

(* The alarm: the same bit, sound and memory of the bit.                   *)
SameAlarm(u, t) ==
  /\ "ALARM" \in u.sr <=> "ALARM" \in t.sr
  /\ u.buz = t.buz /\ u.was = t.was /\ u.grace = t.grace

(* The buzzer's memory of the alarm bit is the same.                       *)
SameMemory(u, t) == "ALARM" \in u.was <=> "ALARM" \in t.was

(* The editor: the same screen, draft, digits and parameters.              *)
SameEditor(u, t) ==
  u.st = t.st /\ u.draft = t.draft /\ u.digits = t.digits /\ u.par = t.par

(* The registers that hold a NaN are known.                                *)
NaNsKnown(t) == \A p \in Params : t.par[p] = NaN => p \in hist.nan

(* An open editor's draft is inside the limits of its parameter, or is a   *)
(* NaN that its register has held.                                         *)
DraftOk(t) ==
  (NaNsKnown(t) /\ t.st \in Params) =>
    \/ t.draft \in Low(t.st) .. Limit(t.st)
    \/ t.draft = NaN /\ t.st \in hist.nan

(* enter_state touches the screen, the mode bits and the drafts.           *)
LEMMA EnterKeeps ==
  ASSUME NEW t \in State, NEW s \in Screens
  PROVE  LET e == enter_state(t, s) IN
         /\ SameDrive(e, t) /\ SameSocket(e, t)
         /\ e.par = t.par /\ e.buz = t.buz /\ e.was = t.was
         /\ e.st = Opened(s) /\ DraftOk(e)
         /\ e.st # "ALARM" => SameAlarm(e, t)
         /\ "EMERGENCY" \in e.sr <=> "EMERGENCY" \in t.sr
<1> DEFINE o == Opened(s)
           sr == ModesOn(t.sr, o)
           cursor == CursorOn(t, o)
           draft == DraftOn(t, o)
           digits == IF o = "PASSWORD" THEN [f \in 0 .. 3 |-> 0] ELSE t.digits
           field == IF o = "PASSWORD" THEN 0 ELSE t.field
           attempts == IF o = "PASSWORD" THEN 0 ELSE t.attempts
           e == enter_state(t, s)
<1>1. e = [t EXCEPT !.st = o, !.ticks = 0, !.sr = sr, !.listIdx = cursor,
                    !.draft = draft, !.digits = digits, !.field = field,
                    !.attempts = attempts]
  BY DEF enter_state
<1>2. /\ o # "ALARM" => ("ALARM" \in sr <=> "ALARM" \in t.sr)
      /\ "EMERGENCY" \in sr <=> "EMERGENCY" \in t.sr
  BY DEF ModesOn
<1>3. o \in Params => draft \in Low(o) .. Limit(o) \/ (draft = NaN /\ t.par[o] = NaN)
  <2> SUFFICES ASSUME o \in Params
               PROVE  draft \in Low(o) .. Limit(o) \/ (draft = NaN /\ t.par[o] = NaN)
    OBVIOUS
  <2>1. t.par[o] \in Values
    BY DEF State
  <2> QED BY <2>1, ClampedType DEF DraftOn
<1> HIDE DEF o, sr, cursor, draft, digits, field, attempts, e
<1>4. /\ e.st = o /\ e.draft = draft /\ e.sr = sr /\ e.out = t.out
      /\ e.boost = t.boost /\ e.boostSave = t.boostSave
      /\ e.emergOut = t.emergOut /\ e.grace = t.grace /\ e.was = t.was
      /\ e.sockPend = t.sockPend /\ e.osr = t.osr /\ e.par = t.par
      /\ e.buz = t.buz
  BY <1>1 DEF State
<1>5. SameDrive(e, t) /\ SameSocket(e, t) /\ DraftOk(e)
      /\ (o # "ALARM" => SameAlarm(e, t))
  BY <1>2, <1>3, <1>4 DEF SameDrive, SameSocket, DraftOk, NaNsKnown, SameAlarm
<1> QED BY <1>2, <1>4, <1>5 DEF e, o

(* What a command does beside the mode bits.                               *)
LEMMA CommandKeeps ==
  ASSUME NEW t, Good(t), NEW cmd
  PROVE  LET r == handle_modbus_cmd(t, cmd) IN
         /\ SameDrive(r, t) /\ SameMemory(r, t)
         /\ r.par = t.par /\ r.sockPend = t.sockPend
         /\ cmd # "SOCKET_TOGGLE" => SameSocket(r, t)
         /\ DraftOk(t) => DraftOk(r)
         /\ \/ r.st = t.st /\ r.digits = t.digits
            \/ r.st \in {"POWER_ON", "STANDBY", "MAIN"}
<1> DEFINE r == handle_modbus_cmd(t, cmd)
           a == [t EXCEPT !.flags = {}, !.sr = @ \ {"ALARM"}]
<1>1. t \in State
  BY DEF Good
<1>2. a \in State /\ SameDrive(a, t) /\ SameSocket(a, t) /\ SameEditor(a, t)
      /\ SameMemory(a, t)
  BY <1>1 DEF State, SameDrive, SameSocket, SameEditor, SameMemory
<1>3. {"POWER_ON", "STANDBY", "MAIN"} \subseteq Screens \ Lists
  BY ScreenNames DEF Screens
<1>4. \/ /\ SameDrive(r, t) /\ SameMemory(r, t) /\ SameEditor(r, t)
         /\ r.sockPend = t.sockPend
         /\ cmd # "SOCKET_TOGGLE" => SameSocket(r, t)
      \/ \E x \in {t, a}, s \in {"POWER_ON", "STANDBY", "MAIN"} :
           r = enter_state(x, s)
  <2>1. CASE cmd \in {"POWER_ON", "STANDBY"}
    <3>1. \/ r = t \/ r = enter_state(t, "POWER_ON")
          \/ r = enter_state(t, "STANDBY")
      BY <2>1 DEF handle_modbus_cmd
    <3> QED BY <3>1 DEF SameDrive, SameSocket, SameEditor, SameMemory
  <2>2. CASE cmd = "ACK_ALARM"
    <3>1. r = IF t.st = "ALARM" THEN enter_state(a, "MAIN") ELSE a
      BY <2>2 DEF handle_modbus_cmd
    <3> HIDE DEF r, a
    <3> QED BY <1>2, <3>1 DEF SameSocket
  <2>3. CASE cmd \in {"START", "STOP", "SET_AUTO", "SET_MANUAL",
                      "NIGHT_TOGGLE", "EMERGENCY_TOGGLE"}
    <3>1. \/ r = t \/ \E b : r = [t EXCEPT !.sr = b]
      BY <2>3 DEF handle_modbus_cmd
    <3> HIDE DEF r
    <3> QED BY <1>1, <3>1 DEF State, SameDrive, SameSocket, SameEditor, SameMemory
  <2>4. CASE cmd \in {"LAMP_TOGGLE", "SOCKET_TOGGLE"}
    <3>1. \/ cmd = "SOCKET_TOGGLE" /\ r = [t EXCEPT !.osr = Toggle(@, "SOCKET")]
          \/ r = [t EXCEPT !.osr = Toggle(@, "LAMP")]
      BY <2>4 DEF handle_modbus_cmd
    <3> HIDE DEF r
    <3> QED BY <1>1, <3>1 DEF State, SameDrive, SameSocket, SameEditor, SameMemory,
                          Toggle
  <2>5. CASE cmd = "BUZZER_MUTE"
    <3>1. r = [t EXCEPT !.muted = 1, !.buz = "OFF"]
      BY <2>5 DEF handle_modbus_cmd
    <3> HIDE DEF r
    <3> QED BY <1>1, <3>1 DEF State, SameDrive, SameSocket, SameEditor, SameMemory
  <2>6. CASE cmd \notin Commands \ {"NONE"}
    <3>1. r = t
      BY <2>6 DEF handle_modbus_cmd, Commands
    <3> QED BY <3>1 DEF SameDrive, SameSocket, SameEditor, SameMemory
  <2> QED BY <2>1, <2>2, <2>3, <2>4, <2>5, <2>6 DEF Commands
<1> HIDE DEF r, a
<1>5. ASSUME NEW x \in {t, a}, NEW s \in {"POWER_ON", "STANDBY", "MAIN"},
             r = enter_state(x, s)
      PROVE  /\ SameDrive(r, t) /\ SameSocket(r, t) /\ SameMemory(r, t)
             /\ r.par = t.par /\ DraftOk(r) /\ r.st \in {"POWER_ON", "STANDBY", "MAIN"}
  <2>1. x \in State /\ s \in Screens /\ Opened(s) = s
    BY <1>1, <1>2, <1>3, OpenedType
  <2>2. /\ SameDrive(r, x) /\ SameSocket(r, x) /\ r.was = x.was
        /\ r.par = x.par /\ DraftOk(r) /\ r.st = s
    BY <1>5, <2>1, EnterKeeps
  <2> QED BY <1>2, <2>2 DEF SameDrive, SameSocket, SameEditor, SameMemory
<1>6. CASE \E x \in {t, a}, s \in {"POWER_ON", "STANDBY", "MAIN"} :
             r = enter_state(x, s)
  BY <1>5, <1>6 DEF r, SameSocket
<1>7. CASE /\ SameDrive(r, t) /\ SameMemory(r, t) /\ SameEditor(r, t)
           /\ r.sockPend = t.sockPend
           /\ cmd # "SOCKET_TOGGLE" => SameSocket(r, t)
  BY <1>7 DEF r, SameEditor, DraftOk, NaNsKnown
<1> QED BY <1>4, <1>6, <1>7

(* What each stage after the jump leaves alone.                            *)
LEMMA StagesKeep ==
  ASSUME NEW t \in State
  PROVE  /\ LET b == Boost(t) IN
            SameSocket(b, t) /\ SameEditor(b, t) /\ SameMemory(b, t)
         /\ LET e == Emergency(t) IN
            SameSocket(e, t) /\ SameEditor(e, t) /\ SameMemory(e, t)
         /\ LET s == Socket(t) IN
            SameDrive(s, t) /\ SameEditor(s, t) /\ SameMemory(s, t)
         /\ LET l == LampOff(t) IN
            /\ SameDrive(l, t) /\ SameSocket(l, t)
            /\ SameEditor(l, t) /\ SameMemory(l, t)
         /\ LET a == AlarmBit(t) IN
            /\ SameDrive(a, t) /\ SameSocket(a, t)
            /\ SameEditor(a, t) /\ SameMemory(a, t)
         /\ LET z == Buzzer(t) IN
            SameDrive(z, t) /\ SameSocket(z, t) /\ SameEditor(z, t)
<1>1. LET b == Boost(t) IN
      SameSocket(b, t) /\ SameEditor(b, t) /\ SameMemory(b, t)
  BY DEF Boost, BoostStage, SameSocket, SameEditor, SameMemory, State
<1>2. LET e == Emergency(t) IN
      SameSocket(e, t) /\ SameEditor(e, t) /\ SameMemory(e, t)
  BY DEF Emergency, EmergencyStage, SameSocket, SameEditor, SameMemory, State
<1>3. LET s == Socket(t) IN
      SameDrive(s, t) /\ SameEditor(s, t) /\ SameMemory(s, t)
  BY DEF Socket, SameDrive, SameEditor, SameMemory, State
<1>4. LET l == LampOff(t) IN
      /\ SameDrive(l, t) /\ SameSocket(l, t)
      /\ SameEditor(l, t) /\ SameMemory(l, t)
  <2> DEFINE count == "LAMP" \in t.osr /\ "WORK" \notin t.sr
             due == count /\ t.lampTick + 1 >= LAMP_AUTO_OFF_TICKS
             osr == IF due THEN t.osr \ {"LAMP"} ELSE t.osr
             lamp == IF count /\ ~due THEN t.lampTick + 1 ELSE 0
             l == LampOff(t)
  <2>1. l = [t EXCEPT !.osr = osr, !.lampTick = lamp]
    BY DEF LampOff, LampStage
  <2>2. "SOCKET" \in osr <=> "SOCKET" \in t.osr
    OBVIOUS
  <2> HIDE DEF l, osr, lamp
  <2> QED BY <2>1, <2>2 DEF SameDrive, SameSocket, SameEditor, SameMemory, State, l
<1>5. LET a == AlarmBit(t) IN
      /\ SameDrive(a, t) /\ SameSocket(a, t)
      /\ SameEditor(a, t) /\ SameMemory(a, t)
  BY DEF AlarmBit, SameDrive, SameSocket, SameEditor, SameMemory, State
<1>6. LET z == Buzzer(t) IN
      SameDrive(z, t) /\ SameSocket(z, t) /\ SameEditor(z, t)
  <2> DEFINE now == "ALARM" \in t.sr
             new == now /\ "ALARM" \notin t.was
             mute == IF new THEN 0 ELSE t.muted
             sound == now /\ mute = 0
             next == (IF new THEN 0 ELSE t.buzTick) + 1
             tick == IF sound /\ next < BUZZER_PERIOD_TICKS THEN next ELSE 0
             buz == IF sound /\ tick < BUZZER_ON_TICKS THEN "ON" ELSE "OFF"
             was == (t.was \ {"ALARM"}) \cup (t.sr \cap {"ALARM"})
             z == Buzzer(t)
  <2>1. z = [t EXCEPT !.muted = mute, !.buzTick = tick, !.buz = buz, !.was = was]
    BY DEF Buzzer, BuzzerStage
  <2>2. was \ {"ALARM"} = t.was \ {"ALARM"}
    OBVIOUS
  <2> HIDE DEF z, mute, tick, buz, was
  <2> QED BY <2>1, <2>2 DEF SameDrive, SameSocket, SameEditor, State, z
<1> QED BY <1>1, <1>2, <1>3, <1>4, <1>5, <1>6

(* The inactivity timeout goes to the main screen or nowhere.              *)
LEMMA InactivityKeeps ==
  ASSUME NEW t \in State, NEW ev
  PROVE  LET r == Inactivity(t, ev) IN
         /\ SameDrive(r, t) /\ SameSocket(r, t) /\ SameAlarm(r, t)
         /\ r.par = t.par /\ (DraftOk(t) => DraftOk(r))
         /\ (r.st = t.st /\ r.digits = t.digits) \/ r.st = "MAIN"
<1> DEFINE n == IF ev = "NONE" THEN t.inact + 1 ELSE 0
           zero == [t EXCEPT !.inact = 0]
           more == [t EXCEPT !.inact = n]
           r == Inactivity(t, ev)
<1>1. r \in {zero, more, enter_state(zero, "MAIN")}
  BY DEF Inactivity
<1> HIDE DEF n, r
<1>2. \A x \in {zero, more} : /\ SameDrive(x, t) /\ SameSocket(x, t)
                              /\ SameAlarm(x, t) /\ SameEditor(x, t)
  BY DEF State, SameDrive, SameSocket, SameAlarm, SameEditor
<1>3. zero \in State
  BY Constants DEF State
<1> HIDE DEF zero, more
<1>4. Opened("MAIN") = "MAIN" /\ "MAIN" \in Screens
  BY OpenedType, ScreenNames DEF Screens
<1>5. LET e == enter_state(zero, "MAIN") IN
      /\ SameDrive(e, zero) /\ SameSocket(e, zero) /\ SameAlarm(e, zero)
      /\ e.par = zero.par /\ DraftOk(e) /\ e.st = "MAIN"
  BY <1>3, <1>4, EnterKeeps
<1>6. CASE r = enter_state(zero, "MAIN")
  BY <1>2, <1>5, <1>6
  DEF r, SameDrive, SameSocket, SameAlarm, SameEditor
<1>7. CASE r \in {zero, more}
  BY <1>2, <1>7 DEF r, SameEditor, DraftOk, NaNsKnown
<1> QED BY <1>1, <1>6, <1>7


(* The alarm bit and the buzzer after their two stages: an alarm is up only*)
(* out of grace, it is remembered, and a new one sounds.                   *)
LEMMA AlarmHeard ==
  ASSUME NEW t \in State
  PROVE  LET z == Buzzer(AlarmBit(t)) IN
         /\ "ALARM" \in z.sr <=> "ALARM" \in z.was
         /\ "ALARM" \in z.sr => z.grace = 0
         /\ "ALARM" \in z.sr /\ "ALARM" \notin t.was => z.buz = "ON"
<1> DEFINE a == AlarmBit(t)
<1>1. /\ "ALARM" \in a.sr => a.grace = 0
      /\ a.was = t.was /\ a.grace = t.grace /\ a.muted = t.muted
      /\ DOMAIN a = DOMAIN t
  BY DEF AlarmBit, State
<1> HIDE DEF a
<1> DEFINE now == "ALARM" \in a.sr
           new == now /\ "ALARM" \notin a.was
           mute == IF new THEN 0 ELSE a.muted
           sound == now /\ mute = 0
           next == (IF new THEN 0 ELSE a.buzTick) + 1
           tick == IF sound /\ next < BUZZER_PERIOD_TICKS THEN next ELSE 0
           buz == IF sound /\ tick < BUZZER_ON_TICKS THEN "ON" ELSE "OFF"
           was == (a.was \ {"ALARM"}) \cup (a.sr \cap {"ALARM"})
           z == Buzzer(a)
<1>2. z = [a EXCEPT !.muted = mute, !.buzTick = tick, !.buz = buz, !.was = was]
  BY DEF Buzzer, BuzzerStage
<1>3. new => buz = "ON"
  <2> SUFFICES ASSUME new PROVE buz = "ON"
    OBVIOUS
  <2>1. sound /\ next = 1
    OBVIOUS
  <2>2. tick < BUZZER_ON_TICKS
    BY <2>1, Constants, MenuAssumption DEF MenuAssumption
  <2> QED BY <2>1, <2>2
<1>4. "ALARM" \in was <=> "ALARM" \in a.sr
  OBVIOUS
<1> HIDE DEF mute, tick, buz, was, z
<1>5. z.sr = a.sr /\ z.was = was /\ z.buz = buz /\ z.grace = a.grace
  BY <1>1, <1>2 DEF State
<1> QED BY <1>1, <1>3, <1>4, <1>5 DEF a, z

(* What the upkeep of a tick does to outputs, delays, alarm and editor; a  *)
(* is the state its boost stage is given.                                  *)
LEMMA UpkeepEffects ==
  ASSUME Good(m), NEW cmd, NEW goto \in Screens \cup {"NONE"}, NEW ev,
         NEW t \in Upkeep(cmd, goto, ev)
  PROVE  /\ \E a \in State : SameDrive(a, m) /\ SameDrive(t, Emergency(Boost(a)))
         /\ t.sockPend = Dec(m.sockPend)
         /\ cmd # "SOCKET_TOGGLE" =>
              \/ "SOCKET" \in t.osr <=> "SOCKET" \in m.osr
              \/ m.sockPend = 1
         /\ "ALARM" \in t.sr <=> "ALARM" \in t.was
         /\ "ALARM" \in t.sr => t.grace = 0
         /\ "ALARM" \in t.sr /\ "ALARM" \notin m.was => t.buz = "ON"
         /\ t.par = m.par
         /\ DraftOk(m) => DraftOk(t)
         /\ goto = "NONE" => \/ t.st = m.st /\ t.digits = m.digits
                             \/ t.st \in {"POWER_ON", "STANDBY", "MAIN"}
<1> DEFINE c == Count(m)
           d == handle_modbus_cmd(c, cmd)
           g == handle_menu_goto(d, goto)
           b == Boost(g)
           h == Emergency(b)
           k == Socket(h)
           l == LampOff(k)
           z == Buzzer(AlarmBit(l))
<1>1. t = Inactivity(z, ev)
  BY DEF Upkeep
<1>2. Good(c) /\ SameDrive(c, m) /\ SameSocket(c, m) /\ SameEditor(c, m)
      /\ SameMemory(c, m)
  BY CountGood, ZenonT(60) DEF Good, Count, State, SameDrive, SameSocket, SameEditor,
                   SameMemory
<1> HIDE DEF c
<1>3. /\ Good(d) /\ SameDrive(d, c) /\ SameMemory(d, c) /\ d.par = c.par
      /\ d.sockPend = c.sockPend
      /\ cmd # "SOCKET_TOGGLE" => SameSocket(d, c)
      /\ DraftOk(c) => DraftOk(d)
      /\ \/ d.st = c.st /\ d.digits = c.digits
         \/ d.st \in {"POWER_ON", "STANDBY", "MAIN"}
  BY <1>2, CommandGood, CommandKeeps
<1> HIDE DEF d
<1>4. /\ Good(g) /\ SameDrive(g, d) /\ SameMemory(g, d) /\ g.par = d.par
      /\ SameSocket(g, d) /\ (DraftOk(d) => DraftOk(g))
      /\ goto = "NONE" => g = d
  <2>1. CASE goto = "NONE"
    BY <1>3, <2>1 DEF handle_menu_goto, SameDrive, SameMemory, SameSocket
  <2>2. CASE goto # "NONE"
    <3>1. g = enter_state(d, goto) /\ goto \in Screens /\ d \in State
      BY <1>3, <2>2 DEF handle_menu_goto, Good
    <3> HIDE DEF g
    <3> QED BY <1>3, <2>2, <3>1, EnterKeeps, EnterFromGood DEF SameMemory
  <2> QED BY <2>1, <2>2
<1> HIDE DEF g
<1>5. Good(b) /\ SameSocket(b, g) /\ SameEditor(b, g) /\ SameMemory(b, g)
  BY <1>4, BoostGood, StagesKeep DEF Good
<1>6. Good(h) /\ SameSocket(h, b) /\ SameEditor(h, b) /\ SameMemory(h, b)
  <2> HIDE DEF b
  <2> QED BY <1>5, EmergencyGood, StagesKeep DEF Good
<1>7. SameDrive(g, m) /\ SameMemory(h, m) /\ h.par = m.par
      /\ h.sockPend = m.sockPend
      /\ (cmd # "SOCKET_TOGGLE" => SameSocket(h, m))
      /\ (DraftOk(m) => DraftOk(h))
      /\ (goto = "NONE" => \/ h.st = m.st /\ h.digits = m.digits
                           \/ h.st \in {"POWER_ON", "STANDBY", "MAIN"})
  <2> HIDE DEF h, b
  <2>1. SameDrive(g, m) /\ SameMemory(h, m)
    BY <1>2, <1>3, <1>4, <1>5, <1>6 DEF SameDrive, SameMemory
  <2>2. h.sockPend = m.sockPend /\ (cmd # "SOCKET_TOGGLE" => SameSocket(h, m))
    BY <1>2, <1>3, <1>4, <1>5, <1>6 DEF SameSocket
  <2>3. SameEditor(h, g)
    BY <1>5, <1>6 DEF SameEditor
  <2>4. /\ DraftOk(g) => DraftOk(h)
        /\ DraftOk(m) => DraftOk(c)
    BY <1>2, <2>3 DEF SameEditor, DraftOk, NaNsKnown
  <2>5. h.par = m.par
    BY <1>2, <1>3, <1>4, <2>3 DEF SameEditor
  <2>6. goto = "NONE" => \/ h.st = m.st /\ h.digits = m.digits
                         \/ h.st \in {"POWER_ON", "STANDBY", "MAIN"}
    BY <1>2, <1>3, <1>4, <2>3 DEF SameEditor
  <2> QED BY <1>3, <1>4, <2>1, <2>2, <2>4, <2>5, <2>6
<1> HIDE DEF h
<1>8. Good(k) /\ SameDrive(k, h) /\ SameEditor(k, h) /\ SameMemory(k, h)
      /\ k.sockPend = Dec(h.sockPend)
      /\ (h.sockPend = 1 \/ ("SOCKET" \in k.osr <=> "SOCKET" \in h.osr))
  <2>1. Good(k) /\ SameDrive(k, h) /\ SameEditor(k, h) /\ SameMemory(k, h)
    BY <1>6, SocketGood, StagesKeep DEF Good
  <2>2. k.sockPend = Dec(h.sockPend)
        /\ (h.sockPend = 1 \/ ("SOCKET" \in k.osr <=> "SOCKET" \in h.osr))
    BY <1>6 DEF Socket, Good, State
  <2> QED BY <2>1, <2>2
<1> HIDE DEF k
<1>9. Good(l) /\ SameDrive(l, k) /\ SameSocket(l, k) /\ SameEditor(l, k)
      /\ SameMemory(l, k)
  BY <1>8, LampGood, StagesKeep DEF Good
<1> HIDE DEF l
<1> DEFINE a == AlarmBit(l)
<1>10. Good(a) /\ SameDrive(a, l) /\ SameSocket(a, l) /\ SameEditor(a, l)
  BY <1>9, AlarmBitGood, StagesKeep DEF Good
<1>11. Good(z) /\ SameDrive(z, a) /\ SameSocket(z, a) /\ SameEditor(z, a)
  <2> HIDE DEF a
  <2>1. z = Buzzer(a)
    BY DEF a
  <2> QED BY <1>10, <2>1, BuzzerGood, StagesKeep DEF Good
<1>12. /\ "ALARM" \in z.sr <=> "ALARM" \in z.was
       /\ "ALARM" \in z.sr => z.grace = 0
       /\ "ALARM" \in z.sr /\ "ALARM" \notin l.was => z.buz = "ON"
  BY <1>9, AlarmHeard DEF Good
<1> HIDE DEF a, z
<1>13. /\ SameDrive(t, z) /\ SameSocket(t, z) /\ SameAlarm(t, z)
       /\ t.par = z.par /\ (DraftOk(z) => DraftOk(t))
       /\ (t.st = z.st /\ t.digits = z.digits) \/ t.st = "MAIN"
  BY <1>1, <1>11, InactivityKeeps DEF Good
<1>14. SameDrive(z, h) /\ SameEditor(z, h)
  BY <1>8, <1>9, <1>10, <1>11 DEF SameDrive, SameEditor
<1>15. /\ g \in State /\ SameDrive(g, m) /\ SameDrive(t, Emergency(Boost(g)))
  BY <1>4, <1>7, <1>13, <1>14 DEF Good, SameDrive, h, b
<1>16. /\ t.sockPend = Dec(m.sockPend)
       /\ cmd # "SOCKET_TOGGLE" =>
            \/ "SOCKET" \in t.osr <=> "SOCKET" \in m.osr
            \/ m.sockPend = 1
  BY <1>7, <1>8, <1>9, <1>10, <1>11, <1>13 DEF SameSocket
<1>17. /\ "ALARM" \in t.sr <=> "ALARM" \in t.was
       /\ "ALARM" \in t.sr => t.grace = 0
       /\ "ALARM" \in t.sr /\ "ALARM" \notin m.was => t.buz = "ON"
  BY <1>7, <1>8, <1>9, <1>12, <1>13 DEF SameAlarm, SameMemory
<1>18. t.par = m.par /\ (DraftOk(m) => DraftOk(t))
       /\ (goto = "NONE" => \/ t.st = m.st /\ t.digits = m.digits
                            \/ t.st \in {"POWER_ON", "STANDBY", "MAIN"})
  BY <1>7, <1>13, <1>14 DEF SameEditor, DraftOk, NaNsKnown
<1> QED BY <1>15, <1>16, <1>17, <1>18

-----------------------------------------------------------------------------
(* What a key does to outputs, delays, alarm and editor.                   *)

(* The state x is made from t without touching any of them, or is left.    *)
KeyKeeps(u, t) ==
  SameDrive(u, t) /\ SameSocket(u, t) /\ SameAlarm(u, t) /\ u.par = t.par

LEMMA EnterKeyKeeps ==
  ASSUME NEW t, NEW x \in State, KeyKeeps(x, t),
         NEW s \in Screens, Opened(s) # "ALARM"
  PROVE  KeyKeeps(enter_state(x, s), t) /\ DraftOk(enter_state(x, s))
<1> DEFINE e == enter_state(x, s)
<1>1. /\ SameDrive(e, x) /\ SameSocket(e, x) /\ e.par = x.par
      /\ SameAlarm(e, x) /\ DraftOk(e)
  BY EnterKeeps
<1> HIDE DEF e
<1>2. KeyKeeps(e, t)
  BY <1>1 DEF KeyKeeps, SameDrive, SameSocket, SameAlarm
<1> QED BY <1>1, <1>2 DEF e

(* No screen is opened as the alarm screen but that one.                   *)
LEMMA OpenedScreens ==
  /\ Opened("MAIN") = "MAIN" /\ Opened("POWER_ON") = "POWER_ON"
  /\ Opened("STANDBY") = "STANDBY" /\ Opened("PASSWORD") = "PASSWORD"
  /\ Opened("ALARM") = "ALARM"
  /\ \A s \in Lists \cup Params : Opened(s) \in Lists \cup Params
  /\ {"MAIN", "POWER_ON", "STANDBY", "PASSWORD", "ALARM"} \subseteq Screens
  /\ Lists \cup Params \subseteq Screens
<1>1. {"MAIN", "POWER_ON", "STANDBY", "PASSWORD", "ALARM"} \subseteq Screens
      /\ Lists \cup Params \subseteq Screens
  BY DEF Screens, Config
<1>2. \A s \in {"MAIN", "POWER_ON", "STANDBY", "PASSWORD", "ALARM"} : Opened(s) = s
  BY <1>1, OpenedType, ScreenNames
<1>3. ASSUME NEW s \in Lists \cup Params
      PROVE  Opened(s) \in Lists \cup Params
  <2>1. ZoneOf(s) \in Zones /\ 1 \in 1 .. Size(ZoneOf(s))
    BY ZoneOfScreen, Sizes
  <2> QED BY <2>1, Entries DEF Opened
<1> QED BY <1>1, <1>2, <1>3

(* What follows for the state after a key, from the state t it acts on.    *)
Outcome(t, ev) ==
  /\ m'.boost = t.boost /\ m'.boostSave = t.boostSave
  /\ m'.emergOut = t.emergOut /\ m'.grace = t.grace /\ m'.was = t.was
  /\ m'.out = IF ChoosesZero(t, ev) THEN 0 ELSE t.out
  /\ m'.sockPend = IF t.st = "MAIN" /\ ev = "RB" THEN SOCKET_DELAY_TICKS
                   ELSE t.sockPend
  /\ "SOCKET" \in m'.osr <=> "SOCKET" \in t.osr
  /\ "ALARM" \in m'.sr => "ALARM" \in t.sr
  /\ m'.buz = t.buz \/ m'.st = "ALARM" \/ "ALARM" \notin m'.sr
  /\ \/ m'.par = t.par
     \/ t.st \in Params /\ m'.par = [t.par EXCEPT ![t.st] = t.draft]
  /\ DraftOk(t) => DraftOk(m')

(* A key that only moves between screens, or touches none of it.           *)
LEMMA KeepsOutcome ==
  ASSUME NEW t, NEW ev, KeyKeeps(m', t), m'.was = t.was,
         DraftOk(t) => DraftOk(m'),
         ~ChoosesZero(t, ev), ~(t.st = "MAIN" /\ ev = "RB")
  PROVE  Outcome(t, ev)
BY DEF Outcome, KeyKeeps, SameDrive, SameSocket, SameAlarm

(* The keys of the standby, main and alarm screens.                        *)
LEMMA MainKeyEffects ==
  ASSUME NEW t, Good(t), NEW ev,
         \/ SplashEnds(t)         \/ SwitchOn(t, ev)     \/ MainOnOff(t, ev)
         \/ MainNight(t, ev)      \/ MainAutoMan(t, ev)  \/ MainShowAlarm(t, ev)
         \/ MainPassword(t, ev)   \/ MainLamp(t, ev)     \/ MainSocket(t, ev)
         \/ PressEmergency(t, ev) \/ AlarmAck(t, ev)     \/ AlarmAutoMan(t, ev)
  PROVE  Outcome(t, ev)
<1>1. t \in State /\ KeyKeeps(t, t)
  BY DEF Good, KeyKeeps, SameDrive, SameSocket, SameAlarm
<1>2. \A x : KeyKeeps(x, t) => x.was = t.was
  BY DEF KeyKeeps, SameAlarm
<1>3. ASSUME NEW b \in {"NIGHT", "MANUAL", "EMERGENCY", "WORK"}
      PROVE  LET r == [t EXCEPT !.sr = Toggle(@, b)] IN
             KeyKeeps(r, t) /\ SameEditor(r, t)
  BY <1>1, <1>3
  DEF Toggle, State, KeyKeeps, SameDrive, SameSocket, SameAlarm, SameEditor
<1>4. CASE SplashEnds(t) \/ SwitchOn(t, ev) \/ MainPassword(t, ev)
  <2>1. \E s \in {"MAIN", "POWER_ON", "PASSWORD"} : m' = enter_state(t, s)
    BY <1>4 DEF SplashEnds, SwitchOn, MainPassword
  <2>2. KeyKeeps(m', t) /\ DraftOk(m')
    BY <1>1, <2>1, OpenedScreens, EnterKeyKeeps
  <2>3. ~ChoosesZero(t, ev) /\ ~(t.st = "MAIN" /\ ev = "RB")
    BY <1>4 DEF SplashEnds, SwitchOn, MainPassword, ChoosesZero
  <2> QED BY <1>2, <2>2, <2>3, KeepsOutcome
<1>5. CASE MainOnOff(t, ev)
  <2> DEFINE a == [t EXCEPT !.sr = @ \ {"NIGHT", "WORK"}]
  <2>1. a \in State /\ KeyKeeps(a, t)
    BY <1>1 DEF State, KeyKeeps, SameDrive, SameSocket, SameAlarm
  <2>2. m' \in {enter_state(a, "STANDBY"), [t EXCEPT !.sr = Toggle(@, "WORK")]}
    BY <1>5 DEF MainOnOff
  <2> HIDE DEF a
  <2>3. KeyKeeps(m', t) /\ (DraftOk(t) => DraftOk(m'))
    <3>1. CASE m' = enter_state(a, "STANDBY")
      BY <2>1, <3>1, OpenedScreens, EnterKeyKeeps
    <3>2. CASE m' = [t EXCEPT !.sr = Toggle(@, "WORK")]
      <4>1. KeyKeeps(m', t) /\ SameEditor(m', t)
        BY <1>3, <3>2
      <4> QED BY <4>1 DEF SameEditor, DraftOk, NaNsKnown
    <3> QED BY <2>2, <3>1, <3>2
  <2>4. ~ChoosesZero(t, ev) /\ ~(t.st = "MAIN" /\ ev = "RB")
    BY <1>5 DEF MainOnOff, ChoosesZero
  <2> QED BY <1>2, <2>3, <2>4, KeepsOutcome
<1>6. CASE MainNight(t, ev) \/ PressEmergency(t, ev) \/ AlarmAutoMan(t, ev)
  <2>1. KeyKeeps(m', t) /\ SameEditor(m', t)
    BY <1>3, <1>6 DEF MainNight, PressEmergency, AlarmAutoMan
  <2>2. ~ChoosesZero(t, ev) /\ ~(t.st = "MAIN" /\ ev = "RB")
    BY <1>6 DEF MainNight, PressEmergency, AlarmAutoMan, ChoosesZero
  <2> QED BY <1>2, <2>1, <2>2, KeepsOutcome DEF SameEditor, DraftOk, NaNsKnown
<1>7. CASE MainAutoMan(t, ev)
  <2> DEFINE out == IF ChoosesZero(t, ev) THEN 0 ELSE t.out
             a == [t EXCEPT !.sr = Toggle(@, "MANUAL")]
  <2>1. m' = [a EXCEPT !.out = out] /\ ev = "AUTO_MAN"
    BY <1>7 DEF MainAutoMan
  <2>2. KeyKeeps(a, t) /\ SameEditor(a, t) /\ DOMAIN a = DOMAIN t
    BY <1>3
  <2> HIDE DEF a, out
  <2>3. /\ m'.out = out /\ m'.boost = a.boost /\ m'.boostSave = a.boostSave
        /\ m'.emergOut = a.emergOut /\ m'.grace = a.grace /\ m'.was = a.was
        /\ m'.sockPend = a.sockPend /\ m'.osr = a.osr /\ m'.sr = a.sr
        /\ m'.buz = a.buz /\ m'.par = a.par /\ m'.st = a.st
        /\ m'.draft = a.draft
    BY <1>1, <2>1, <2>2 DEF State
  <2> QED BY <2>1, <2>2, <2>3
          DEF Outcome, KeyKeeps, SameDrive, SameSocket, SameAlarm, SameEditor,
              DraftOk, NaNsKnown, out
<1>8. CASE MainShowAlarm(t, ev)
  <2> DEFINE a == [t EXCEPT !.muted = 1, !.buz = "OFF"]
  <2>1. m' = enter_state(a, "ALARM") /\ "ALARM" \in t.sr /\ ev = "PRG"
    BY <1>8 DEF MainShowAlarm
  <2>2. a \in State /\ SameDrive(a, t) /\ SameSocket(a, t) /\ a.par = t.par
        /\ a.was = t.was
    BY <1>1 DEF State, SameDrive, SameSocket, Sounds
  <2> HIDE DEF a
  <2>3. /\ SameDrive(m', a) /\ SameSocket(m', a) /\ m'.par = a.par
        /\ m'.was = a.was /\ m'.st = "ALARM" /\ DraftOk(m')
    BY <2>1, <2>2, OpenedScreens, EnterKeeps
  <2> QED BY <2>1, <2>2, <2>3
          DEF Outcome, SameDrive, SameSocket, ChoosesZero
<1>9. CASE MainLamp(t, ev)
  <2>1. KeyKeeps(m', t) /\ SameEditor(m', t)
    BY <1>1, <1>9
    DEF MainLamp, Toggle, State, KeyKeeps, SameDrive, SameSocket, SameAlarm,
        SameEditor
  <2>2. ~ChoosesZero(t, ev) /\ ~(t.st = "MAIN" /\ ev = "RB")
    BY <1>9 DEF MainLamp, ChoosesZero
  <2> QED BY <1>2, <2>1, <2>2, KeepsOutcome DEF SameEditor, DraftOk, NaNsKnown
<1>10. CASE MainSocket(t, ev)
  <2>1. /\ m' = [t EXCEPT !.sockOn = {"SOCKET"} \ t.osr,
                          !.sockPend = SOCKET_DELAY_TICKS]
        /\ t.st = "MAIN" /\ ev = "RB"
    BY <1>10 DEF MainSocket
  <2> QED BY <1>1, <2>1 DEF Outcome, State, ChoosesZero, DraftOk, NaNsKnown
<1>11. CASE AlarmAck(t, ev)
  <2> DEFINE a == [t EXCEPT !.muted = 1, !.buz = "OFF", !.flags = {},
                            !.sr = @ \ {"ALARM"}]
  <2>1. m' = enter_state(a, "MAIN") /\ t.st = "ALARM" /\ ev = "PRG"
    BY <1>11 DEF AlarmAck
  <2>2. a \in State /\ SameDrive(a, t) /\ SameSocket(a, t) /\ a.par = t.par
        /\ a.was = t.was /\ "ALARM" \notin a.sr
    BY <1>1 DEF State, SameDrive, SameSocket, Sounds
  <2> HIDE DEF a
  <2>3. /\ SameDrive(m', a) /\ SameSocket(m', a) /\ m'.par = a.par
        /\ m'.was = a.was /\ "ALARM" \notin m'.sr /\ DraftOk(m')
    BY <2>1, <2>2, OpenedScreens, EnterKeeps DEF SameAlarm
  <2> QED BY <2>1, <2>2, <2>3
          DEF Outcome, SameDrive, SameSocket, ChoosesZero
<1> QED BY <1>4, <1>5, <1>6, <1>7, <1>8, <1>9, <1>10, <1>11

(* The keys of the lists, the password screen and the editors.             *)
LEMMA ConfigKeyEffects ==
  ASSUME NEW t, Good(t), NEW ev,
         \/ ListMove(t, ev)   \/ ListOpen(t, ev)    \/ LeaveConfig(t, ev)
         \/ PwDigit(t, ev)    \/ PwField(t, ev)     \/ PwConfirm(t, ev)
         \/ EditorValue(t, ev) \/ EditorCommit(t, ev) \/ EditorSave(t, ev)
         \/ EditorLeave(t, ev) \/ NoKey(t, ev)
  PROVE  Outcome(t, ev)
<1>1. t \in State /\ KeyKeeps(t, t)
  BY DEF Good, KeyKeeps, SameDrive, SameSocket, SameAlarm
<1>2. \A x : KeyKeeps(x, t) => x.was = t.was
  BY DEF KeyKeeps, SameAlarm
<1>3. EditedParams \subseteq Params
  BY MenuAssumption DEF MenuAssumption
<1>4. ~ChoosesZero(t, ev) /\ ~(t.st = "MAIN" /\ ev = "RB")
  <2>1. CASE NoKey(t, ev)
    <3>1. ASSUME t.st = "MAIN" PROVE {"AUTO_MAN", "RB"} \subseteq KeysOf(t)
      <4> DEFINE more == IF "ALARM" \in t.sr THEN {"PRG"} ELSE {}
      <4>1. KeysOf(t) = {"ONOFF", "ONOFF_LONG", "AUTO_MAN", "PRG_LONG",
                         "LAMP", "RB", "E"} \cup more
        BY <3>1, ScreenNames DEF KeysOf
      <4> HIDE DEF more
      <4> QED BY <4>1
    <3>2. ev \notin KeysOf(t)
      BY <2>1 DEF NoKey
    <3> HIDE DEF KeysOf
    <3> QED BY <3>1, <3>2 DEF ChoosesZero
  <2>2. CASE ~NoKey(t, ev)
    <3>1. t.st # "MAIN"
      BY <1>3, <2>2, ScreenNames
      DEF ListMove, ListOpen, LeaveConfig, PwDigit, PwField, PwConfirm,
          EditorValue, EditorCommit, EditorSave, EditorLeave
    <3> QED BY <3>1 DEF ChoosesZero
  <2> QED BY <2>1, <2>2
<1>5. ASSUME NEW i \in 0 .. 6
      PROVE  LET a == [t EXCEPT !.listIdx = i] IN a \in State /\ KeyKeeps(a, t)
  BY <1>1, <1>5 DEF State, KeyKeeps, SameDrive, SameSocket, SameAlarm
<1>6. CASE ListMove(t, ev) \/ PwDigit(t, ev) \/ PwField(t, ev)
  <2>1. \/ \E i : m' = [t EXCEPT !.listIdx = i]
        \/ \E d : m' = [t EXCEPT !.digits = d]
        \/ \E f : m' = [t EXCEPT !.field = f]
    BY <1>6 DEF ListMove, PwDigit, PwField
  <2>2. KeyKeeps(m', t) /\ (DraftOk(t) => DraftOk(m'))
    BY <1>1, <2>1
    DEF State, KeyKeeps, SameDrive, SameSocket, SameAlarm, DraftOk, NaNsKnown
  <2> QED BY <1>2, <1>4, <2>2, KeepsOutcome
<1>7. CASE ListOpen(t, ev) \/ LeaveConfig(t, ev)
  <2>1. CASE ListOpen(t, ev)
    <3>1. ZoneOf(t.st) \in Zones /\ t.st \in Lists
      BY <2>1, ZoneOfScreen DEF ListOpen
    <3>2. t.listIdx + 1 \in 1 .. Size(ZoneOf(t.st))
      BY <1>1, <3>1, Sizes DEF Good, CursorInZone, State
    <3>3. PASSES[ZoneOf(t.st)][t.listIdx + 1] \in Params
      BY <3>1, <3>2, Entries
    <3> DEFINE p == PASSES[ZoneOf(t.st)][t.listIdx + 1]
    <3>4. m' = enter_state(t, p)
      BY <2>1 DEF ListOpen
    <3> HIDE DEF p
    <3>5. p \in Screens /\ Opened(p) # "ALARM"
      BY <3>3, OpenedScreens, ScreenNames DEF p
    <3> QED BY <1>1, <1>2, <1>4, <3>4, <3>5, EnterKeyKeeps, KeepsOutcome
  <2>2. CASE LeaveConfig(t, ev)
    <3>1. m' = enter_state(t, "MAIN")
      BY <2>2 DEF LeaveConfig
    <3>2. KeyKeeps(m', t) /\ DraftOk(m')
      BY <1>1, <3>1, OpenedScreens, EnterKeyKeeps
    <3> QED BY <1>2, <1>4, <3>2, KeepsOutcome
  <2> QED BY <1>7, <2>1, <2>2
<1>8. CASE PwConfirm(t, ev)
  <2> DEFINE z == ZoneOfCode(Code(t.digits))
             i == IF Size(z) <= 1 THEN t.listIdx ELSE 0
             a == [t EXCEPT !.listIdx = i]
             k == t.attempts + 1
             wrong == [t EXCEPT !.attempts = k]
             zeros == [f \in 0 .. 3 |-> 0]
             again == [wrong EXCEPT !.digits = zeros, !.field = 0]
  <2>1. /\ t.st = "PASSWORD" /\ k \in 0 .. 3
        /\ \/ z # 0 /\ m' = enter_state(a, PassList[z])
           \/ m' = enter_state(wrong, "MAIN") \/ m' = again
    BY <1>1, <1>8 DEF PwConfirm, enter_pass, Good, TriesLeft, State
  <2>2. z # 0 => z \in Zones /\ i \in 0 .. 6
    BY <1>1 DEF ZoneOfCode, Zones, State
  <2> HIDE DEF z, i, zeros, k
  <2>3. wrong \in State /\ KeyKeeps(wrong, t) /\ wrong.st = t.st
    BY <1>1, <2>1 DEF State, KeyKeeps, SameDrive, SameSocket, SameAlarm
  <2>4. KeyKeeps(again, t) /\ again.st = "PASSWORD"
    <3> HIDE DEF wrong
    <3> QED BY <2>1, <2>3
            DEF State, KeyKeeps, SameDrive, SameSocket, SameAlarm
  <2>5. DraftOk(again)
    BY <2>4, ScreenNames DEF DraftOk
  <2> HIDE DEF wrong, again
  <2>6. z # 0 => KeyKeeps(enter_state(a, PassList[z]), t)
                 /\ DraftOk(enter_state(a, PassList[z]))
    <3> SUFFICES ASSUME z # 0
                 PROVE  KeyKeeps(enter_state(a, PassList[z]), t)
                        /\ DraftOk(enter_state(a, PassList[z]))
      OBVIOUS
    <3>1. a \in State /\ KeyKeeps(a, t)
      BY <1>5, <2>2
    <3>2. PassList[z] \in Screens /\ Opened(PassList[z]) # "ALARM"
      BY <2>2, Entries, OpenedScreens, ScreenNames
    <3> HIDE DEF a
    <3> QED BY <3>1, <3>2, EnterKeyKeeps
  <2>7. KeyKeeps(enter_state(wrong, "MAIN"), t)
        /\ DraftOk(enter_state(wrong, "MAIN"))
    BY <2>3, OpenedScreens, EnterKeyKeeps
  <2> HIDE DEF a
  <2>8. KeyKeeps(m', t) /\ DraftOk(m')
    BY <2>1, <2>4, <2>5, <2>6, <2>7
  <2> QED BY <1>2, <1>4, <2>8, KeepsOutcome
<1>9. CASE EditorValue(t, ev)
  <2>0. PICK step \in Steps : m' = [t EXCEPT !.draft = Stepped(t.st, t.draft, ev, step)]
    BY <1>9 DEF EditorValue
  <2> DEFINE d == Stepped(t.st, t.draft, ev, step)
  <2>1. m' = [t EXCEPT !.draft = d] /\ t.st \in Params
    BY <1>3, <1>9, <2>0 DEF EditorValue
  <2>2. /\ t.draft \in Low(t.st) .. Limit(t.st) => d \in Low(t.st) .. Limit(t.st)
        /\ t.draft = NaN => d = NaN \/ d \in Low(t.st) .. Limit(t.st)
    <3>1. t.draft \in (0 .. Top) \cup {NaN}
      BY <1>1 DEF State
    <3> QED BY <2>1, <3>1, SteppedType
  <2> HIDE DEF d
  <2>3. KeyKeeps(m', t) /\ m'.st = t.st /\ m'.draft = d /\ m'.par = t.par
    BY <1>1, <2>1 DEF State, KeyKeeps, SameDrive, SameSocket, SameAlarm
  <2>4. DraftOk(t) => DraftOk(m')
    BY <2>2, <2>3 DEF DraftOk, NaNsKnown
  <2> QED BY <1>2, <1>4, <2>3, <2>4, KeepsOutcome
<1>10. CASE EditorLeave(t, ev)
  <2>1. t.st \in Params /\ m' = editor_back(t)
    BY <1>10 DEF EditorLeave
  <2> DEFINE z == ZoneOf(t.st)
             i == IndexOf(t.st)
             a == [t EXCEPT !.listIdx = i]
  <2>2. m' \in {enter_state(a, PassList[z]), enter_state(t, "MAIN")}
    BY <2>1 DEF editor_back
  <2>3. z \in Zones /\ i \in 0 .. 6
    BY <2>1, ZoneOfScreen, IndexOfParam, Sizes
  <2>4. PassList[z] \in Screens /\ Opened(PassList[z]) # "ALARM"
    BY <2>3, Entries, OpenedScreens, ScreenNames
  <2> HIDE DEF z, i
  <2>5. a \in State /\ KeyKeeps(a, t)
    BY <1>5, <2>3
  <2> HIDE DEF a
  <2>6. KeyKeeps(m', t) /\ DraftOk(m')
    BY <1>1, <2>2, <2>4, <2>5, OpenedScreens, EnterKeyKeeps
  <2> QED BY <1>2, <1>4, <2>6, KeepsOutcome
<1>11. CASE EditorCommit(t, ev) \/ EditorSave(t, ev)
  <2> DEFINE c == editor_commit_draft(t)
             z == ZoneOf(c.st)
             i == IndexOf(c.st)
             a == [c EXCEPT !.listIdx = i]
             b == [c EXCEPT !.stored = c.par]
  <2>1. /\ t.st \in Params
        /\ m' \in {enter_state(a, PassList[z]), enter_state(c, "MAIN"),
                   enter_state(b, "MAIN")}
    BY <1>11 DEF EditorCommit, EditorSave, editor_back
  <2>2. Good(c) /\ c.st = t.st
    BY <2>1, CommitDraftGood
  <2>3. SameDrive(c, t) /\ SameSocket(c, t) /\ SameAlarm(c, t)
        /\ c.par = [t.par EXCEPT ![t.st] = t.draft]
    BY <1>1 DEF editor_commit_draft, State, SameDrive, SameSocket, SameAlarm
  <2>4. z \in Zones /\ i \in 0 .. 6
    BY <2>1, <2>2, ZoneOfScreen, IndexOfParam, Sizes
  <2>5. PassList[z] \in Screens /\ Opened(PassList[z]) # "ALARM"
    BY <2>4, Entries, OpenedScreens, ScreenNames
  <2> HIDE DEF c, z, i
  <2>6. c \in State /\ KeyKeeps(c, c)
    BY <2>2 DEF Good, KeyKeeps, SameDrive, SameSocket, SameAlarm
  <2>7. a \in State /\ KeyKeeps(a, c) /\ b \in State /\ KeyKeeps(b, c)
    BY <2>4, <2>6 DEF State, KeyKeeps, SameDrive, SameSocket, SameAlarm
  <2> HIDE DEF a, b
  <2>8. KeyKeeps(m', c) /\ DraftOk(m')
    BY <2>1, <2>5, <2>6, <2>7, OpenedScreens, EnterKeyKeeps
  <2> QED BY <1>4, <2>1, <2>3, <2>8
          DEF Outcome, KeyKeeps, SameDrive, SameSocket, SameAlarm
<1>12. CASE NoKey(t, ev)
  BY <1>1, <1>4, <1>12, KeepsOutcome DEF NoKey
<1> QED BY <1>6, <1>7, <1>8, <1>9, <1>10, <1>11, <1>12

LEMMA KeyEffects ==
  ASSUME NEW t, Good(t), NEW ev, ScreenKey(t, ev)
  PROVE  Outcome(t, ev)
BY MainKeyEffects, ConfigKeyEffects DEF ScreenKey

-----------------------------------------------------------------------------
(***************************************************************************)
(* The invariants behind the promises about outputs, delays and alarms.    *)
(***************************************************************************)

(* While overrides do not meet, at most one is on, and it has saved the    *)
(* chosen output; without one the output is the chosen one.                *)
OutputInv ==
  hist.overlap = 0 =>
    /\ ~(m.boost > 0 /\ "EMERGENCY" \in m.was)
    /\ ~Overriding(m) => m.out = hist.out
    /\ m.boost > 0 => m.boostSave = hist.out
    /\ "EMERGENCY" \in m.was => m.emergOut = hist.out

(* What is left of the grace and the time since WORK rose cover the period,*)
(* and an alarm is up only when nothing is left.                           *)
GraceInv ==
  /\ hist.unseen = 0 /\ "WORK" \in m.sr \cap m.was =>
       m.grace + hist.work + 1 >= WORK_GRACE_TICKS
  /\ "ALARM" \in m.sr => m.grace = 0

(* The same of a relay that waits and the time since RB was pressed.       *)
SocketInv == m.sockPend > 0 => hist.rb + m.sockPend >= SOCKET_DELAY_TICKS

(* An alarm that was down in the last tick is neither up nor remembered.   *)
AlarmInv == hist.down = 1 => "ALARM" \notin m.sr \cup m.was

DraftInv == NaNsKnown(m) /\ DraftOk(m)

Promises == OutputInv /\ GraceInv /\ SocketInv /\ AlarmInv /\ DraftInv

(* What a tick hands to the proofs below: the state t of the keys, and the *)
(* state a of the boost stage.                                             *)
LEMMA TickParts ==
  ASSUME IInv, Process
  PROVE  \E cmd \in scene.cmds, goto \in scene.gotos, ev \in scene.keys :
         \E t \in Upkeep(cmd, goto, ev) :
           /\ goto \in Screens \cup {"NONE"}
           /\ Good(t) /\ Outcome(t, ev) /\ ScreenKey(t, ev) /\ Remember(t, ev)
<1>1. PICK cmd \in scene.cmds, goto \in scene.gotos, ev \in scene.keys :
        Tick(cmd, goto, ev)
  BY DEF Process
<1>2. PICK t \in Upkeep(cmd, goto, ev) : ScreenKey(t, ev) /\ Remember(t, ev)
  BY <1>1 DEF Tick
<1>3. goto \in Screens \cup {"NONE"}
  BY SceneType DEF IInv
<1>4. Good(t)
  BY <1>3, UpkeepGood DEF IInv
<1> QED BY <1>2, <1>3, <1>4, KeyEffects

(* The boost and the emergency stage on the fields they drive.             *)
LEMMA BoostDrives ==
  ASSUME NEW a \in State
  PROVE  LET b == Boost(a)
             rise == "WORK" \in a.sr /\ "WORK" \notin a.was
             left == IF rise THEN BOOST_TICKS ELSE a.boost
         IN  /\ b.boost = Dec(left)
             /\ b.boostSave = IF rise THEN a.out ELSE a.boostSave
             /\ b.out = IF left = 1 THEN b.boostSave
                        ELSE IF rise THEN FULL ELSE a.out
             /\ b.grace = Dec(IF rise THEN WORK_GRACE_TICKS ELSE a.grace)
             /\ b.emergOut = a.emergOut /\ b.sr = a.sr
             /\ "WORK" \in b.was <=> "WORK" \in a.sr
             /\ "EMERGENCY" \in b.was <=> "EMERGENCY" \in a.was
             /\ DOMAIN b = DOMAIN a
<1> DEFINE rise == "WORK" \in a.sr /\ "WORK" \notin a.was
           left == IF rise THEN BOOST_TICKS ELSE a.boost
           back == IF rise THEN a.out ELSE a.boostSave
           grace == Dec(IF rise THEN WORK_GRACE_TICKS ELSE a.grace)
           boost == Dec(left)
           out == IF left = 1 THEN back ELSE IF rise THEN FULL ELSE a.out
           lamp == IF "WORK" \in a.was \ a.sr THEN 0 ELSE a.lampTick
           was == (a.was \ {"WORK"}) \cup (a.sr \cap {"WORK"})
           b == Boost(a)
<1>1. b = [a EXCEPT !.grace = grace, !.boost = boost, !.boostSave = back,
                    !.out = out, !.lampTick = lamp, !.was = was]
  BY DEF Boost, BoostStage
<1>2. /\ "WORK" \in was <=> "WORK" \in a.sr
      /\ "EMERGENCY" \in was <=> "EMERGENCY" \in a.was
  OBVIOUS
<1> HIDE DEF grace, boost, back, out, lamp, was, b
<1>3. /\ b.grace = grace /\ b.boost = boost /\ b.boostSave = back
      /\ b.out = out /\ b.was = was /\ b.emergOut = a.emergOut
      /\ b.sr = a.sr /\ DOMAIN b = DOMAIN a
  BY <1>1 DEF State
<1> QED BY <1>2, <1>3 DEF b, grace, boost, back, out

LEMMA EmergencyDrives ==
  ASSUME NEW b, {"sr", "was", "out", "emergOut", "emergMan", "boost",
                 "boostSave", "grace"} \subseteq DOMAIN b
  PROVE  LET e == Emergency(b)
             now == "EMERGENCY" \in b.sr
             held == "EMERGENCY" \in b.was
         IN  /\ e.boost = b.boost /\ e.boostSave = b.boostSave
             /\ e.grace = b.grace
             /\ e.emergOut = IF now /\ ~held THEN b.out ELSE b.emergOut
             /\ e.out = IF now THEN FULL ELSE IF held THEN b.emergOut ELSE b.out
             /\ "EMERGENCY" \in e.was <=> now
             /\ "WORK" \in e.was <=> "WORK" \in b.was
<1> DEFINE now == "EMERGENCY" \in b.sr
           enter == now /\ "EMERGENCY" \notin b.was
           leave == ~now /\ "EMERGENCY" \in b.was
           save == IF enter THEN b.out ELSE b.emergOut
           man == IF enter THEN b.sr \cap {"MANUAL"} ELSE b.emergMan
           sr == IF enter THEN b.sr \cup {"MANUAL"}
                 ELSE IF leave THEN (b.sr \ {"MANUAL"}) \cup b.emergMan
                 ELSE b.sr
           out == IF enter \/ (now /\ TRUE) THEN FULL
                  ELSE IF leave THEN b.emergOut ELSE b.out
           was == (b.was \ {"EMERGENCY"}) \cup (b.sr \cap {"EMERGENCY"})
           e == Emergency(b)
<1>1. e = [b EXCEPT !.emergOut = save, !.emergMan = man, !.sr = sr,
                    !.out = out, !.was = was]
  BY DEF Emergency, EmergencyStage
<1>2. /\ "EMERGENCY" \in was <=> now
      /\ "WORK" \in was <=> "WORK" \in b.was
      /\ out = IF now THEN FULL
               ELSE IF "EMERGENCY" \in b.was THEN b.emergOut ELSE b.out
  OBVIOUS
<1> HIDE DEF man, sr, out, was, e
<1>3. /\ e.emergOut = save /\ e.out = out /\ e.was = was
      /\ e.boost = b.boost /\ e.boostSave = b.boostSave /\ e.grace = b.grace
  BY <1>1
<1> QED BY <1>2, <1>3 DEF e

(* Both together, over a whole upkeep: `rise` is a rise of WORK seen by the*)
(* boost stage, `b` the output it leaves.                                  *)
LEMMA UpkeepDrives ==
  ASSUME Good(m), NEW cmd, NEW goto \in Screens \cup {"NONE"}, NEW ev,
         NEW t \in Upkeep(cmd, goto, ev)
  PROVE  LET rise == "WORK" \in t.was /\ "WORK" \notin m.was
             left == IF rise THEN BOOST_TICKS ELSE m.boost
             now  == "EMERGENCY" \in t.was
             held == "EMERGENCY" \in m.was
         IN  /\ t.boost = Dec(left)
             /\ t.boostSave = IF rise THEN m.out ELSE m.boostSave
             /\ t.grace = Dec(IF rise THEN WORK_GRACE_TICKS ELSE m.grace)
             /\ \E b : /\ b = IF left = 1 THEN t.boostSave
                              ELSE IF rise THEN FULL ELSE m.out
                       /\ t.emergOut = IF now /\ ~held THEN b ELSE m.emergOut
                       /\ t.out = IF now THEN FULL
                                  ELSE IF held THEN m.emergOut ELSE b
<1>1. PICK a \in State : SameDrive(a, m) /\ SameDrive(t, Emergency(Boost(a)))
  BY UpkeepEffects
<1> DEFINE b == Boost(a)
           e == Emergency(b)
           rise == "WORK" \in a.sr /\ "WORK" \notin a.was
           left == IF rise THEN BOOST_TICKS ELSE a.boost
<1>2. /\ b.boost = Dec(left)
      /\ b.boostSave = IF rise THEN a.out ELSE a.boostSave
      /\ b.out = IF left = 1 THEN b.boostSave ELSE IF rise THEN FULL ELSE a.out
      /\ b.grace = Dec(IF rise THEN WORK_GRACE_TICKS ELSE a.grace)
      /\ b.emergOut = a.emergOut /\ b.sr = a.sr
      /\ "WORK" \in b.was <=> "WORK" \in a.sr
      /\ "EMERGENCY" \in b.was <=> "EMERGENCY" \in a.was
      /\ DOMAIN b = DOMAIN a
  BY BoostDrives
<1> HIDE DEF b
<1>3. {"sr", "was", "out", "emergOut", "emergMan", "boost", "boostSave",
       "grace"} \subseteq DOMAIN b
  BY <1>2 DEF State
<1>4. /\ e.boost = b.boost /\ e.boostSave = b.boostSave /\ e.grace = b.grace
      /\ e.emergOut = IF "EMERGENCY" \in b.sr /\ "EMERGENCY" \notin b.was
                      THEN b.out ELSE b.emergOut
      /\ e.out = IF "EMERGENCY" \in b.sr THEN FULL
                 ELSE IF "EMERGENCY" \in b.was THEN b.emergOut ELSE b.out
      /\ "EMERGENCY" \in e.was <=> "EMERGENCY" \in b.sr
      /\ "WORK" \in e.was <=> "WORK" \in b.was
  BY <1>3, EmergencyDrives
<1> HIDE DEF e
<1>5. /\ a.out = m.out /\ a.boost = m.boost /\ a.boostSave = m.boostSave
      /\ a.emergOut = m.emergOut /\ a.grace = m.grace
      /\ "WORK" \in a.was <=> "WORK" \in m.was
      /\ "EMERGENCY" \in a.was <=> "EMERGENCY" \in m.was
  BY <1>1 DEF SameDrive
<1>6. /\ t.out = e.out /\ t.boost = e.boost /\ t.boostSave = e.boostSave
      /\ t.emergOut = e.emergOut /\ t.grace = e.grace
      /\ "WORK" \in t.was <=> "WORK" \in e.was
      /\ "EMERGENCY" \in t.was <=> "EMERGENCY" \in e.was
  BY <1>1 DEF SameDrive, e, b
<1>7. rise <=> "WORK" \in t.was /\ "WORK" \notin m.was
  BY <1>2, <1>4, <1>5, <1>6
<1> QED BY <1>2, <1>4, <1>5, <1>6, <1>7

(* One tick keeps them: t is the state the key acts on.                    *)
LEMMA TickOutput ==
  ASSUME IInv, OutputInv, NEW cmd, NEW goto \in Screens \cup {"NONE"}, NEW ev,
         NEW t \in Upkeep(cmd, goto, ev), Outcome(t, ev), Remember(t, ev)
  PROVE  OutputInv'
<1> DEFINE rise == "WORK" \in t.was /\ "WORK" \notin m.was
           left == IF rise THEN BOOST_TICKS ELSE m.boost
           now  == "EMERGENCY" \in t.was
           held == "EMERGENCY" \in m.was
           zero == ChoosesZero(t, ev)
<1>1. PICK b :
        /\ t.boost = Dec(left)
        /\ t.boostSave = IF rise THEN m.out ELSE m.boostSave
        /\ b = IF left = 1 THEN t.boostSave ELSE IF rise THEN FULL ELSE m.out
        /\ t.emergOut = IF now /\ ~held THEN b ELSE m.emergOut
        /\ t.out = IF now THEN FULL ELSE IF held THEN m.emergOut ELSE b
  BY UpkeepDrives DEF IInv
<1>2. m.boost \in Nat /\ BOOST_TICKS \in Nat \ {0}
  BY Constants DEF IInv, Good, State
<1>3. hist'.out = IF zero THEN 0 ELSE hist.out
  BY DEF Remember
<1>4. SUFFICES ASSUME hist'.overlap = 0
               PROVE  /\ ~(m'.boost > 0 /\ "EMERGENCY" \in m'.was)
                      /\ ~Overriding(m') => m'.out = hist'.out
                      /\ m'.boost > 0 => m'.boostSave = hist'.out
                      /\ "EMERGENCY" \in m'.was => m'.emergOut = hist'.out
  BY DEF OutputInv, Overriding
<1>5. /\ hist.overlap = 0
      /\ ~(rise /\ (m.boost > 0 \/ held))
      /\ ~(now /\ ~held /\ t.boost > 0)
      /\ ~(zero /\ (t.boost > 0 \/ now))
  <2>1. hist'.overlap = IF \/ rise /\ (m.boost > 0 \/ held)
                           \/ (now /\ ~held) /\ t.boost > 0
                           \/ zero /\ Overriding(t)
                        THEN 1 ELSE hist.overlap
    BY DEF Remember
  <2> HIDE DEF rise, now, held, zero
  <2>2. Overriding(t) <=> t.boost > 0 \/ now
    BY DEF Overriding, now
  <2> QED BY <1>4, <2>1, <2>2
<1>6. /\ ~(m.boost > 0 /\ held)
      /\ ~(m.boost > 0 \/ held) => m.out = hist.out
      /\ m.boost > 0 => m.boostSave = hist.out
      /\ held => m.emergOut = hist.out
  BY <1>5 DEF OutputInv, Overriding
<1>7. /\ m'.boost = t.boost /\ m'.boostSave = t.boostSave
      /\ m'.emergOut = t.emergOut
      /\ "EMERGENCY" \in m'.was <=> now
      /\ m'.out = IF zero THEN 0 ELSE t.out
      /\ Overriding(m') <=> t.boost > 0 \/ now
  BY DEF Outcome, Overriding
<1> HIDE DEF rise, now, held, zero
<1>8. t.boost > 0 => left > 1
  BY <1>1, <1>2 DEF Dec
<1>9. ~(t.boost > 0 /\ now)
  BY <1>2, <1>5, <1>6, <1>8
<1>10. t.boost > 0 => t.boostSave = hist.out
  BY <1>1, <1>2, <1>5, <1>6, <1>8
<1>11. t.boost = 0 /\ ~held => b = hist.out
  BY <1>1, <1>2, <1>5, <1>6 DEF Dec
<1>12. t.boost \in Nat
  BY <1>1, <1>2 DEF Dec
<1>13. now => t.emergOut = hist.out
  BY <1>1, <1>5, <1>6, <1>9, <1>11, <1>12
<1>14. ~(t.boost > 0 \/ now) => t.out = hist.out
  BY <1>1, <1>6, <1>11, <1>12
<1> QED BY <1>3, <1>5, <1>7, <1>9, <1>10, <1>13, <1>14

LEMMA TickGrace ==
  ASSUME IInv, GraceInv, NEW cmd, NEW goto \in Screens \cup {"NONE"}, NEW ev,
         NEW t \in Upkeep(cmd, goto, ev), Outcome(t, ev), Remember(t, ev)
  PROVE  GraceInv'
<1> DEFINE rise == "WORK" \in t.was /\ "WORK" \notin m.was
<1>1. t.grace = Dec(IF rise THEN WORK_GRACE_TICKS ELSE m.grace)
  BY UpkeepDrives DEF IInv
<1>2. /\ m.grace \in Nat /\ hist.work \in Nat /\ hist.unseen \in {0, 1}
      /\ WORK_GRACE_TICKS \in Nat \ {0}
  BY Constants DEF IInv, Good, State, History
<1>3. "ALARM" \in m'.sr => m'.grace = 0
  BY UpkeepEffects DEF IInv, Outcome
<1>4. ASSUME hist'.unseen = 0, "WORK" \in m'.sr \cap m'.was
      PROVE  m'.grace + hist'.work + 1 >= WORK_GRACE_TICKS
  <2>1. m'.grace = t.grace /\ "WORK" \in t.was
    BY <1>4 DEF Outcome
  <2>2. hist'.work = IF "WORK" \notin m.sr THEN 0
                     ELSE Capped(hist.work + 1, WORK_GRACE_TICKS)
    BY <1>4, <2>1 DEF Remember
  <2>3. hist'.unseen = IF rise THEN 0
                       ELSE IF "WORK" \in (m.was \cap t.was) \ m.sr THEN 1
                       ELSE hist.unseen
    BY DEF Remember
  <2>4. hist'.work \in Nat
    BY <1>2, <2>2 DEF Capped
  <2>5. CASE rise
    BY <1>1, <1>2, <2>1, <2>4, <2>5 DEF Dec
  <2>6. CASE ~rise
    <3>1. "WORK" \in m.was /\ "WORK" \in m.sr /\ hist.unseen = 0
      BY <1>4, <2>1, <2>3, <2>6
    <3>2. m.grace + hist.work + 1 >= WORK_GRACE_TICKS
      BY <3>1 DEF GraceInv
    <3>3. hist'.work = Capped(hist.work + 1, WORK_GRACE_TICKS)
      BY <2>2, <3>1
    <3>4. t.grace = Dec(m.grace)
      BY <1>1, <2>6
    <3> HIDE DEF rise
    <3> QED BY <1>2, <2>1, <3>2, <3>3, <3>4 DEF Dec, Capped
  <2> QED BY <2>5, <2>6
<1> QED BY <1>3, <1>4 DEF GraceInv

LEMMA TickPromises ==
  ASSUME IInv, Promises, NEW cmd, NEW goto \in Screens \cup {"NONE"}, NEW ev,
         NEW t \in Upkeep(cmd, goto, ev), Outcome(t, ev), Remember(t, ev)
  PROVE  Promises'
<1>1. OutputInv' /\ GraceInv'
  BY TickOutput, TickGrace DEF Promises
<1>2. SocketInv'
  <2>1. t.sockPend = Dec(m.sockPend)
    BY UpkeepEffects DEF IInv
  <2>2. /\ m.sockPend \in Nat /\ hist.rb \in Nat
        /\ SOCKET_DELAY_TICKS \in Nat \ {0}
    BY Constants DEF IInv, Good, State, History
  <2>3. m.sockPend > 0 => hist.rb + m.sockPend >= SOCKET_DELAY_TICKS
    BY DEF Promises, SocketInv
  <2>4. CASE t.st = "MAIN" /\ ev = "RB"
    BY <2>2, <2>4 DEF Outcome, Remember, SocketInv
  <2>5. CASE ~(t.st = "MAIN" /\ ev = "RB")
    <3>1. /\ m'.sockPend = Dec(m.sockPend)
          /\ hist'.rb = Capped(hist.rb + 1, SOCKET_DELAY_TICKS)
      BY <2>1, <2>5 DEF Outcome, Remember
    <3> QED BY <2>2, <2>3, <3>1 DEF SocketInv, Dec, Capped
  <2> QED BY <2>4, <2>5
<1>3. AlarmInv'
  <2>1. hist'.down = IF "ALARM" \in m.sr \cup t.sr THEN 0 ELSE 1
    BY DEF Remember
  <2>2. /\ "ALARM" \in m'.sr => "ALARM" \in t.sr
        /\ m'.was = t.was
        /\ "ALARM" \in t.sr <=> "ALARM" \in t.was
    BY UpkeepEffects DEF IInv, Outcome
  <2> QED BY <2>1, <2>2 DEF AlarmInv
<1>4. DraftInv'
  <2>1. t.par = m.par /\ DraftOk(t) /\ NaNsKnown(m)
    BY UpkeepEffects DEF IInv, Promises, DraftInv
  <2>2. NaNsKnown(t)
    BY <2>1 DEF NaNsKnown
  <2>3. \/ m'.par = t.par
        \/ t.st \in Params /\ m'.par = [t.par EXCEPT ![t.st] = t.draft]
    BY DEF Outcome
  <2>4. m.par \in [Params -> Values]
    BY DEF IInv, Good, State
  <2>5. NaNsKnown(m')
    <3>1. SUFFICES ASSUME NEW p \in Params, m'.par[p] = NaN PROVE p \in hist.nan
      BY DEF NaNsKnown
    <3>2. CASE m'.par[p] = t.par[p]
      BY <2>2, <3>1, <3>2 DEF NaNsKnown
    <3>3. CASE m'.par[p] # t.par[p]
      <4>1. t.st = p /\ m'.par[p] = t.draft
        BY <2>1, <2>3, <2>4, <3>3
      <4>2. NaN \notin Low(p) .. Limit(p)
        BY LimitsAre
      <4> QED BY <2>1, <2>2, <3>1, <4>1, <4>2 DEF DraftOk
    <3> QED BY <3>2, <3>3
  <2>6. DraftOk(m')
    BY <2>1 DEF Outcome
  <2>7. hist'.nan = {p \in hist.nan : m'.par[p] = NaN \/ m'.st = p}
    BY DEF Remember
  <2> QED BY <2>5, <2>6, <2>7 DEF DraftInv, NaNsKnown, DraftOk
<1> QED BY <1>1, <1>2, <1>3, <1>4 DEF Promises

LEMMA NextPromises == IInv /\ Promises /\ [Next]_vars => Promises'
<1> SUFFICES ASSUME IInv, Promises, [Next]_vars PROVE Promises'
  OBVIOUS
<1>1. m \in State /\ hist \in History
  BY DEF IInv, Good
<1>2. CASE Process
  BY <1>2, TickParts, TickPromises
<1>3. CASE \E v \in Levels : WriteOut(v)
  <2>1. PICK v \in Levels : WriteOut(v)
    BY <1>3
  <2>2. /\ m'.out = v /\ m'.boost = m.boost /\ m'.boostSave = m.boostSave
        /\ m'.emergOut = m.emergOut /\ m'.was = m.was /\ m'.sr = m.sr
        /\ m'.grace = m.grace /\ m'.sockPend = m.sockPend
        /\ m'.st = m.st /\ m'.draft = m.draft /\ m'.par = m.par
    BY <1>1, <2>1 DEF WriteOut, State
  <2>3. /\ hist'.out = v /\ hist'.work = hist.work
        /\ hist'.unseen = hist.unseen /\ hist'.rb = hist.rb
        /\ hist'.down = hist.down /\ hist'.nan = hist.nan
        /\ hist'.overlap = IF Overriding(m) THEN 1 ELSE hist.overlap
    BY <1>1, <2>1 DEF WriteOut, History
  <2>4. GraceInv' /\ SocketInv' /\ AlarmInv' /\ DraftInv'
    BY <2>2, <2>3 DEF Promises, GraceInv, SocketInv, AlarmInv, DraftInv, DraftOk, NaNsKnown
  <2>5. OutputInv'
    BY <2>2, <2>3 DEF Promises, OutputInv, Overriding
  <2> QED BY <2>4, <2>5 DEF Promises
<1>4. CASE WriteAlarm
  BY <1>1, <1>4 DEF WriteAlarm, Promises, OutputInv, Overriding, GraceInv,
     SocketInv, AlarmInv, DraftInv, DraftOk, NaNsKnown, State
<1>5. CASE \E p \in EditedParams : \E v \in Writable(p) : WriteParam(p, v)
  <2>1. PICK p \in EditedParams : \E v \in Writable(p) : WriteParam(p, v)
    BY <1>5
  <2>2. PICK v \in Writable(p) : WriteParam(p, v)
    BY <2>1
  <2> DEFINE n == IF v = NaN THEN hist.nan \cup {p}
                  ELSE IF m.st = p THEN hist.nan ELSE hist.nan \ {p}
  <2>3. m' = [m EXCEPT !.par[p] = v] /\ hist' = [hist EXCEPT !.nan = n]
    BY <2>2 DEF WriteParam
  <2>4. hist'.nan = n
    BY <1>1, <2>3 DEF History
  <2>5. /\ m'.par = [m.par EXCEPT ![p] = v] /\ m.par \in [Params -> Values]
        /\ m'.st = m.st /\ m'.draft = m.draft
    BY <1>1, <2>3 DEF State
  <2>6. NaNsKnown(m) /\ DraftOk(m)
    BY DEF Promises, DraftInv
  <2>7. NaNsKnown(m)'
    BY <2>4, <2>5, <2>6 DEF NaNsKnown
  <2>8. DraftOk(m)'
    BY <2>4, <2>5, <2>6 DEF DraftOk
  <2>9. (\E q : m' = [m EXCEPT !.par = q]) /\ (\E k : hist' = [hist EXCEPT !.nan = k])
    BY <2>3
  <2>10. OutputInv' /\ GraceInv' /\ SocketInv' /\ AlarmInv'
    BY <1>1, <2>9 DEF Promises, OutputInv, Overriding, GraceInv, SocketInv, AlarmInv,
       State, History
  <2> QED BY <2>7, <2>8, <2>10 DEF Promises, DraftInv
<1>6. CASE \E image \in {m.stored, Factory} : Reset(image)
  <2>1. /\ m'.st = "POWER_ON" /\ m'.sr = {"POWER"} /\ m'.was = {}
        /\ m'.boost = 0 /\ m'.out = 0 /\ m'.sockPend = 0 /\ m'.grace = 0
        /\ hist' = [NewHistory EXCEPT !.nan = {p \in Params : m'.par[p] = NaN}]
    BY <1>6 DEF Reset, Boot
  <2>2. /\ hist'.out = 0 /\ hist'.down = 0 /\ hist'.unseen = 0 /\ hist'.overlap = 0
        /\ hist'.nan = {p \in Params : m'.par[p] = NaN}
    BY <2>1 DEF NewHistory
  <2> QED BY <2>1, <2>2, ScreenNames DEF Promises, OutputInv,
     Overriding, GraceInv, SocketInv, AlarmInv, DraftInv, DraftOk, NaNsKnown
<1>7. CASE UNCHANGED vars
  BY <1>7 DEF vars, Promises, OutputInv, Overriding, GraceInv, SocketInv,
     AlarmInv, DraftInv, DraftOk, NaNsKnown
<1> QED BY <1>2, <1>3, <1>4, <1>5, <1>6, <1>7 DEF Next

LEMMA PromisesKept == Spec => []Promises
<1>1. Init => Promises
  <2>1. Init => /\ m.st = "POWER_ON" /\ m.sr = {"POWER"} /\ m.was = {}
                /\ m.boost = 0 /\ m.out = 0 /\ m.sockPend = 0 /\ m.grace = 0
                /\ m.par = Factory /\ hist = NewHistory
    BY DEF Init, Boot
  <2>2. \A p \in Params : Factory[p] # NaN
    BY LimitsAre DEF Factory
  <2> QED BY <2>1, <2>2, ScreenNames DEF NewHistory, Promises, OutputInv,
     Overriding, GraceInv, SocketInv, AlarmInv, DraftInv, DraftOk, NaNsKnown
<1> QED BY <1>1, NextPromises, Invariant, PTL DEF Spec

(* The output the operator or the master chose is back as soon as neither  *)
(* boost nor emergency overrides it, provided two overrides never met      *)
(* (menu_process).                                                         *)
THEOREM OutputComesBack == Spec => []OutputReturned
<1>1. Promises => OutputReturned
  BY DEF Promises, OutputInv, OutputReturned
<1> QED BY <1>1, PromisesKept, PTL

(* The two delays are kept in full: no alarm is up over a working fan      *)
(* before its grace period has run, and the relay of the socket waits      *)
(* after every press of RB, whatever commands, keys and jumps come between.*)
THEOREM MenuDelays == Spec => DelaysKept
<1>1. Promises' /\ IInv' => GraceHidesAlarm
  <2> SUFFICES ASSUME Promises', IInv', "ALARM" \in m'.sr,
                      "WORK" \in m'.was \cap m'.sr, hist'.unseen = 0
               PROVE  hist'.work + 1 >= WORK_GRACE_TICKS
    BY DEF GraceHidesAlarm
  <2>1. m'.grace = 0 /\ m'.grace + hist'.work + 1 >= WORK_GRACE_TICKS
    BY DEF Promises, GraceInv
  <2>2. hist'.work \in Nat
    BY Constants DEF IInv, History
  <2> QED BY <2>1, <2>2
<1>2. IInv /\ Promises /\ [Next]_vars => SocketWaits
  <2> SUFFICES ASSUME IInv, Promises, [Next]_vars,
                      "SOCKET_TOGGLE" \notin scene.cmds,
                      "reset" \notin scene.world,
                      ("SOCKET" \in m.osr) # ("SOCKET" \in m'.osr)
               PROVE  hist.rb + 1 >= SOCKET_DELAY_TICKS
    BY DEF SocketWaits
  <2>1. m \in State
    BY DEF IInv, Good
  <2>2. CASE Process
    <3>1. PICK cmd \in scene.cmds, goto \in scene.gotos, ev \in scene.keys :
          \E t \in Upkeep(cmd, goto, ev) :
            goto \in Screens \cup {"NONE"} /\ Outcome(t, ev)
      BY <2>2, TickParts
    <3>2. PICK t \in Upkeep(cmd, goto, ev) :
            goto \in Screens \cup {"NONE"} /\ Outcome(t, ev)
      BY <3>1
    <3>3. "SOCKET" \in m'.osr <=> "SOCKET" \in t.osr
      BY <3>2 DEF Outcome
    <3>4. m.sockPend = 1
      BY <3>2, <3>3, UpkeepEffects DEF IInv
    <3> QED BY <3>4, Constants DEF Promises, SocketInv
  <2>3. CASE \E v \in Levels : WriteOut(v)
    BY <2>1, <2>3 DEF WriteOut, State
  <2>4. CASE WriteAlarm
    BY <2>1, <2>4 DEF WriteAlarm, State
  <2>5. CASE \E p \in EditedParams : \E v \in Writable(p) : WriteParam(p, v)
    <3>1. \E q : m' = [m EXCEPT !.par = q]
      BY <2>5 DEF WriteParam
    <3> QED BY <2>1, <3>1 DEF State
  <2>6. CASE \E image \in {m.stored, Factory} : Reset(image)
    BY <2>6 DEF Reset
  <2>7. CASE UNCHANGED vars
    BY <2>7 DEF vars
  <2> QED BY <2>2, <2>3, <2>4, <2>5, <2>6, <2>7 DEF Next
<1>3. IInv /\ Promises /\ IInv' /\ Promises' /\ [Next]_vars =>
        [GraceHidesAlarm /\ SocketWaits]_vars
  BY <1>1, <1>2
<1> QED BY <1>3, Invariant, PromisesKept, PTL DEF Spec, DelaysKept

(* An alarm that was down for a whole tick sounds at once when it comes    *)
(* back, although the last one was muted or acknowledged.                  *)
THEOREM AlarmSoundsAgain == Spec => AlarmAfterPauseSounds
<1>1. ASSUME IInv, Promises, [Next]_vars, hist.down = 1, "ALARM" \in m'.sr,
             m'.st # "ALARM"
      PROVE  m'.buz = "ON"
  <2>1. m \in State /\ "ALARM" \notin m.sr \cup m.was
    BY <1>1 DEF IInv, Good, Promises, AlarmInv
  <2>2. CASE Process
    <3>1. PICK cmd \in scene.cmds, goto \in scene.gotos, ev \in scene.keys :
          \E t \in Upkeep(cmd, goto, ev) :
            goto \in Screens \cup {"NONE"} /\ Outcome(t, ev)
      BY <1>1, <2>2, TickParts
    <3>2. PICK t \in Upkeep(cmd, goto, ev) :
            goto \in Screens \cup {"NONE"} /\ Outcome(t, ev)
      BY <3>1
    <3>3. "ALARM" \in t.sr /\ m'.buz = t.buz
      BY <1>1, <3>2 DEF Outcome
    <3> QED BY <1>1, <2>1, <3>2, <3>3, UpkeepEffects DEF IInv
  <2>3. CASE \E v \in Levels : WriteOut(v)
    BY <1>1, <2>1, <2>3 DEF WriteOut, State
  <2>4. CASE WriteAlarm
    BY <1>1, <2>1, <2>4 DEF WriteAlarm, State
  <2>5. CASE \E p \in EditedParams : \E v \in Writable(p) : WriteParam(p, v)
    <3>1. \E q : m' = [m EXCEPT !.par = q]
      BY <2>5 DEF WriteParam
    <3> QED BY <1>1, <2>1, <3>1 DEF State
  <2>6. CASE \E image \in {m.stored, Factory} : Reset(image)
    BY <1>1, <2>6 DEF Reset, Boot
  <2>7. CASE UNCHANGED vars
    BY <1>1, <2>1, <2>7 DEF vars
  <2> QED BY <1>1, <2>2, <2>3, <2>4, <2>5, <2>6, <2>7 DEF Next
<1>2. IInv /\ Promises /\ [Next]_vars =>
        [hist.down = 1 /\ "ALARM" \in m'.sr /\ m'.st # "ALARM"
           => m'.buz = "ON"]_vars
  BY <1>1
<1> QED BY <1>2, Invariant, PromisesKept, PTL DEF Spec, AlarmAfterPauseSounds

(* A call of menu_process changes at most one parameter register, and      *)
(* leaves it inside the editor's limits whatever the master had written    *)
(* there; a NaN comes back only to a register that held one.               *)
THEOREM PanelWrites == Spec => PanelWritesInRange
<1>1. ASSUME IInv, Promises, m'.par # m.par, Process
      PROVE  \E p \in Params :
               /\ m'.par = [m.par EXCEPT ![p] = m'.par[p]]
               /\ \/ m'.par[p] \in Low(p) .. Limit(p)
                  \/ m'.par[p] = NaN /\ p \in hist.nan
  <2>1. m \in State /\ NaNsKnown(m) /\ DraftOk(m)
    BY <1>1 DEF IInv, Good, Promises, DraftInv
  <2>2. PICK cmd \in scene.cmds, goto \in scene.gotos, ev \in scene.keys :
        \E t \in Upkeep(cmd, goto, ev) :
          goto \in Screens \cup {"NONE"} /\ Good(t) /\ Outcome(t, ev)
    BY <1>1, TickParts
  <2>3. PICK t \in Upkeep(cmd, goto, ev) :
          goto \in Screens \cup {"NONE"} /\ Good(t) /\ Outcome(t, ev)
    BY <2>2
  <2>4. t.par = m.par /\ DraftOk(t)
    BY <1>1, <2>1, <2>3, UpkeepEffects DEF IInv
  <2>5. NaNsKnown(t)
    BY <2>1, <2>4 DEF NaNsKnown
  <2>6. t.st \in Params /\ m'.par = [m.par EXCEPT ![t.st] = t.draft]
    BY <1>1, <2>3, <2>4 DEF Outcome
  <2>7. m'.par[t.st] = t.draft
    BY <2>1, <2>6 DEF State
  <2> QED BY <2>4, <2>5, <2>6, <2>7 DEF DraftOk
<1>2. IInv /\ Promises /\ [Next]_vars =>
        [(m'.par # m.par /\ Process) =>
           \E p \in Params :
             /\ m'.par = [m.par EXCEPT ![p] = m'.par[p]]
             /\ m'.par[p] \in Low(p) .. Limit(p) \/ (m'.par[p] = NaN /\ p \in hist.nan)]_vars
  BY <1>1
<1> QED BY <1>2, Invariant, PromisesKept, PTL DEF Spec, PanelWritesInRange

-----------------------------------------------------------------------------
(* The zones and their passwords.                                          *)
Outside == {"MAIN", "POWER_ON", "STANDBY", "ALARM", "PASSWORD"}

(* A screen is in one zone at most, and none of those outside is in any.   *)
LEMMA ZonesApart ==
  /\ \A z, y \in Zones : \A s \in ScreensOf(z) \cap ScreensOf(y) : z = y
  /\ \A z \in Zones : ScreensOf(z) \cap Outside = {}
<1>1. \A z \in Zones : z = 1 \/ z = 2 \/ z = 3 \/ z = 4
  BY DEF Zones
<1>2. /\ ScreensOf(1) = {"SETTINGS", "SET_FLOW_SP", "SET_FLOW_SPR",
           "SET_ALARM_LOW", "SET_ALARM_LOWR", "SET_ALARM_TIME", "SET_MEM_NOR"}
      /\ ScreensOf(2) = {"SETTINGS_P2", "SET_SENSOR_Z", "SET_SENSOR_S",
           "SET_OUT_Z", "SET_OUT_S", "SET_PID_TI", "SET_PID_BAND",
           "SET_BLACKOUT"}
      /\ ScreensOf(3) = {"SETTINGS_P3", "SET_MAINT", "SET_COUNT_MAX"}
      /\ ScreensOf(4) = {"SETTINGS_P4", "SET_DATALOG"}
  BY Sizes DEF ScreensOf, ParamsOf, PassList, PASSES
<1> QED BY <1>1, <1>2 DEF Outside

(* The screen a list or an editor belongs to is in its zone.               *)
LEMMA OwnZone ==
  ASSUME NEW s \in Lists \cup Params
  PROVE  ZoneOf(s) \in Zones /\ s \in ScreensOf(ZoneOf(s))
BY ZoneOfScreen DEF ScreensOf

(* Opening the list of a zone shows a screen of that zone.                 *)
LEMMA ListInZone ==
  ASSUME NEW z \in Zones
  PROVE  PassList[z] \in Screens /\ Opened(PassList[z]) \in ScreensOf(z)
<1>1. PassList[z] \in Lists /\ ZoneOf(PassList[z]) = z
  BY ZoneOfList
<1>2. 1 \in 1 .. Size(z)
  BY Sizes
<1> QED BY <1>1, <1>2, OpenedScreens DEF Opened, ScreensOf, ParamsOf

(* Where a key may lead.                                                   *)
Reaches(t, s) ==
  \/ s = t.st \/ s \in Outside
  \/ \E z \in Zones :
       /\ s \in ScreensOf(z)
       /\ \/ t.st \in ScreensOf(z)
          \/ t.st = "PASSWORD" /\ Code(t.digits) \in CodesOf[z]

LEMMA EnterShows ==
  ASSUME NEW x, Fields \subseteq DOMAIN x, NEW s
  PROVE  enter_state(x, s).st = Opened(s)
BY DEF enter_state, Fields

LEMMA BackReaches ==
  ASSUME NEW t, NEW x, Fields \subseteq DOMAIN x, x.st = t.st, t.st \in Params
  PROVE  Reaches(t, editor_back(x).st)
<1> DEFINE z == ZoneOf(x.st)
           i == IndexOf(x.st)
           a == [x EXCEPT !.listIdx = i]
<1>1. editor_back(x) \in {enter_state(a, PassList[z]), enter_state(x, "MAIN")}
  BY DEF editor_back
<1>2. Fields \subseteq DOMAIN a
  OBVIOUS
<1>3. z \in Zones /\ t.st \in ScreensOf(z)
  BY OwnZone
<1> HIDE DEF a, z
<1>4. /\ enter_state(a, PassList[z]).st \in ScreensOf(z)
      /\ enter_state(x, "MAIN").st \in Outside
  BY <1>2, <1>3, EnterShows, ListInZone, OpenedScreens DEF Outside
<1> QED BY <1>1, <1>3, <1>4 DEF Reaches

LEMMA KeyReaches ==
  ASSUME NEW t, Good(t), NEW ev, ScreenKey(t, ev)
  PROVE  Reaches(t, m'.st)
<1>1. Fields \subseteq DOMAIN t /\ t \in State
  BY StateFields DEF Good
<1>2. ASSUME NEW x, NEW s, Fields \subseteq DOMAIN x, s \in Outside,
             m' = enter_state(x, s)
      PROVE  Reaches(t, m'.st)
  BY <1>2, EnterShows, OpenedScreens DEF Reaches, Outside
<1>3. CASE SplashEnds(t) \/ SwitchOn(t, ev) \/ MainPassword(t, ev)
           \/ LeaveConfig(t, ev)
  <2>1. \E s \in Outside : m' = enter_state(t, s)
    BY <1>3 DEF SplashEnds, SwitchOn, MainPassword, LeaveConfig, Outside
  <2> QED BY <1>1, <1>2, <2>1
<1>4. CASE MainOnOff(t, ev)
  <2> DEFINE a == [t EXCEPT !.sr = @ \ {"NIGHT", "WORK"}]
  <2>1. Fields \subseteq DOMAIN a
    BY <1>1
  <2>2. \/ m' = enter_state(a, "STANDBY")
        \/ m' = [t EXCEPT !.sr = Toggle(@, "WORK")]
    BY <1>4 DEF MainOnOff
  <2> HIDE DEF a
  <2> QED BY <1>1, <1>2, <2>1, <2>2 DEF Outside, Reaches, Fields
<1>5. CASE MainNight(t, ev) \/ PressEmergency(t, ev) \/ AlarmAutoMan(t, ev)
           \/ NoKey(t, ev)
  BY <1>1, <1>5
  DEF MainNight, PressEmergency, AlarmAutoMan, NoKey, Fields, Reaches
<1>6. CASE MainAutoMan(t, ev) \/ MainLamp(t, ev) \/ MainSocket(t, ev)
  BY <1>1, <1>6 DEF MainAutoMan, MainLamp, MainSocket, Fields, Reaches
<1>7. CASE MainShowAlarm(t, ev)
  <2> DEFINE a == [t EXCEPT !.muted = 1, !.buz = "OFF"]
  <2>1. Fields \subseteq DOMAIN a /\ m' = enter_state(a, "ALARM")
    BY <1>1, <1>7 DEF MainShowAlarm
  <2> HIDE DEF a
  <2> QED BY <1>2, <2>1 DEF Outside
<1>8. CASE AlarmAck(t, ev)
  <2> DEFINE a == [t EXCEPT !.muted = 1, !.buz = "OFF", !.flags = {},
                            !.sr = @ \ {"ALARM"}]
  <2>1. Fields \subseteq DOMAIN a /\ m' = enter_state(a, "MAIN")
    BY <1>1, <1>8 DEF AlarmAck
  <2> HIDE DEF a
  <2> QED BY <1>2, <2>1 DEF Outside
<1>9. CASE ListMove(t, ev) \/ EditorValue(t, ev) \/ PwDigit(t, ev)
           \/ PwField(t, ev)
  <2>1. \/ \E i : m' = [t EXCEPT !.listIdx = i]
        \/ \E d : m' = [t EXCEPT !.draft = d]
        \/ \E d : m' = [t EXCEPT !.digits = d]
        \/ \E f : m' = [t EXCEPT !.field = f]
    BY <1>9 DEF ListMove, EditorValue, PwDigit, PwField
  <2> QED BY <1>1, <2>1 DEF Fields, Reaches
<1>10. CASE ListOpen(t, ev)
  <2> DEFINE z == ZoneOf(t.st)
             p == PASSES[z][t.listIdx + 1]
  <2>1. t.st \in Lists /\ m' = enter_state(t, p)
    BY <1>10 DEF ListOpen
  <2>2. z \in Zones /\ t.st \in ScreensOf(z)
    BY <2>1, OwnZone
  <2>3. t.listIdx + 1 \in 1 .. Size(z)
    BY <2>1, <2>2, Sizes DEF Good, CursorInZone, State
  <2>4. p \in ParamsOf(z) /\ p \in Params
    BY <2>2, <2>3, Entries DEF ParamsOf
  <2>5. m'.st = p
    <3> HIDE DEF p
    <3>1. p \in Screens /\ p \notin Lists
      BY <2>4, OpenedScreens, ScreenNames
    <3> QED BY <1>1, <2>1, <3>1, EnterShows, OpenedType
  <2> QED BY <2>2, <2>4, <2>5 DEF Reaches, ScreensOf
<1>11. CASE PwConfirm(t, ev)
  <2> DEFINE c == Code(t.digits)
             z == ZoneOfCode(c)
             i == IF Size(z) <= 1 THEN t.listIdx ELSE 0
             a == [t EXCEPT !.listIdx = i]
             k == t.attempts + 1
             wrong == [t EXCEPT !.attempts = k]
             zeros == [f \in 0 .. 3 |-> 0]
             again == [wrong EXCEPT !.digits = zeros, !.field = 0]
  <2>1. /\ t.st = "PASSWORD"
        /\ \/ z # 0 /\ m' = enter_state(a, PassList[z])
           \/ m' = enter_state(wrong, "MAIN") \/ m' = again
    BY <1>11 DEF PwConfirm, enter_pass
  <2>2. z # 0 => z \in Zones /\ c \in CodesOf[z]
    <3> HIDE DEF c
    <3> QED BY DEF ZoneOfCode, Zones, CodesOf
  <2> HIDE DEF c, z, i, k, zeros
  <2>3. Fields \subseteq DOMAIN a /\ Fields \subseteq DOMAIN wrong
        /\ wrong.st = t.st
    BY <1>1 DEF Fields
  <2>4. again.st = t.st
    <3> HIDE DEF wrong
    <3> QED BY <2>3 DEF Fields
  <2> HIDE DEF a, wrong, again
  <2>5. CASE z # 0 /\ m' = enter_state(a, PassList[z])
    <3>1. m'.st \in ScreensOf(z)
      BY <2>2, <2>3, <2>5, EnterShows, ListInZone
    <3> QED BY <2>1, <2>2, <2>5, <3>1 DEF Reaches, c
  <2>6. CASE m' = enter_state(wrong, "MAIN") \/ m' = again
    BY <1>2, <2>3, <2>4, <2>6 DEF Outside, Reaches
  <2> QED BY <2>1, <2>5, <2>6
<1>12. CASE EditorCommit(t, ev) \/ EditorLeave(t, ev)
  <2>1. Fields \subseteq DOMAIN editor_commit_draft(t)
        /\ editor_commit_draft(t).st = t.st
    BY <1>1 DEF editor_commit_draft, Fields
  <2> QED BY <1>1, <1>12, <2>1, BackReaches DEF EditorCommit, EditorLeave
<1>13. CASE EditorSave(t, ev)
  <2> DEFINE c == editor_commit_draft(t)
             a == [c EXCEPT !.stored = c.par]
  <2>1. Fields \subseteq DOMAIN c
    BY <1>1 DEF editor_commit_draft
  <2>2. m' = enter_state(a, "MAIN")
    BY <1>13 DEF EditorSave
  <2> HIDE DEF c
  <2>3. Fields \subseteq DOMAIN a
    BY <2>1
  <2> HIDE DEF a
  <2> QED BY <1>2, <2>2, <2>3 DEF Outside
<1> QED BY <1>3, <1>4, <1>5, <1>6, <1>7, <1>8, <1>9, <1>10, <1>11, <1>12,
           <1>13 DEF ScreenKey

(* With no jump of the master, the screens of a zone are entered from      *)
(* outside the zone only from the password screen, with that zone's code.  *)
THEOREM ZoneLocked == Spec => ZoneNeedsItsPassword
<1>1. ASSUME IInv, [Next]_vars, scene.gotos = {"NONE"}, NEW z \in Zones,
             m'.st \in ScreensOf(z), m.st \notin ScreensOf(z)
      PROVE  m.st = "PASSWORD" /\ Code(m.digits) \in CodesOf[z]
  <2>1. m \in State
    BY <1>1 DEF IInv, Good
  <2>2. CASE Process
    <3>1. PICK cmd \in scene.cmds, goto \in scene.gotos, ev \in scene.keys :
          \E t \in Upkeep(cmd, goto, ev) :
            goto = "NONE" /\ Good(t) /\ ScreenKey(t, ev)
      BY <1>1, <2>2, TickParts
    <3>2. PICK t \in Upkeep(cmd, goto, ev) :
            goto = "NONE" /\ Good(t) /\ ScreenKey(t, ev)
      BY <3>1
    <3>3. \/ t.st = m.st /\ t.digits = m.digits
          \/ t.st \in {"POWER_ON", "STANDBY", "MAIN"}
      BY <1>1, <3>2, UpkeepEffects DEF IInv
    <3>4. Reaches(t, m'.st)
      BY <3>2, KeyReaches
    <3>5. t.st \notin ScreensOf(z) /\ m'.st \notin Outside
      BY <1>1, <3>3, ZonesApart DEF Outside
    <3>6. t.st = "PASSWORD" /\ Code(t.digits) \in CodesOf[z]
      BY <1>1, <3>4, <3>5, ZonesApart DEF Reaches
    <3> QED BY <3>3, <3>6
  <2>3. CASE \E v \in Levels : WriteOut(v)
    BY <1>1, <2>1, <2>3 DEF WriteOut, State
  <2>4. CASE WriteAlarm
    BY <1>1, <2>1, <2>4 DEF WriteAlarm, State
  <2>5. CASE \E p \in EditedParams : \E v \in Writable(p) : WriteParam(p, v)
    <3>1. \E q : m' = [m EXCEPT !.par = q]
      BY <2>5 DEF WriteParam
    <3> QED BY <1>1, <2>1, <3>1 DEF State
  <2>6. CASE \E image \in {m.stored, Factory} : Reset(image)
    <3>1. m'.st \in Outside
      BY <2>6 DEF Reset, Boot, Outside
    <3> QED BY <1>1, <3>1, ZonesApart
  <2>7. CASE UNCHANGED vars
    BY <1>1, <2>1, <2>7 DEF vars
  <2> QED BY <1>1, <2>2, <2>3, <2>4, <2>5, <2>6, <2>7 DEF Next
<1>2. IInv /\ [Next]_vars =>
        [scene.gotos = {"NONE"} =>
           \A z \in Zones :
             (m'.st \in ScreensOf(z) /\ m.st \notin ScreensOf(z)) =>
               m.st = "PASSWORD" /\ Code(m.digits) \in CodesOf[z]]_vars
  BY <1>1
<1> QED BY <1>2, Invariant, PTL DEF Spec, ZoneNeedsItsPassword
=============================================================================
