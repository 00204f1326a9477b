-------------------------------- MODULE Menu --------------------------------
(***************************************************************************)
(* The operator panel and the process control of menu.c.                   *)
(*                                                                         *)
(* task_ui calls menu_process once per 10 ms tick with at most one button  *)
(* event.  A call is a pipeline: the tick counter, the master's command    *)
(* (MODE_CR), its jump (MENU_GOTO), start-up boost and grace, emergency,   *)
(* socket delay, lamp timeout, alarm bit, buzzer, inactivity, and last the *)
(* switch on the screen.  Each stage is an operator from state to state;   *)
(* Upkeep composes them, and one action per key finishes the tick.         *)
(*                                                                         *)
(* Left out: the layout of the display, blinking, LEDs, and which digit of *)
(* an editor is under edit (a press moves the value by any of the steps).  *)
(***************************************************************************)
EXTENDS Integers, Sequences

CONSTANTS
  POWERON_TICKS, WORK_GRACE_TICKS, BOOST_TICKS, LAMP_AUTO_OFF_TICKS,
  SOCKET_DELAY_TICKS, INACT_TIMEOUT_TICKS, BUZZER_PERIOD_TICKS,
  BUZZER_ON_TICKS,
  Base,         \* digits of a password are 0..Base-1 (10 in the code)
  Top,          \* the largest value an editor accepts
  Steps,        \* the steps of an editor's digits
  NaN,          \* what a float register may hold and no comparison tells
  Written,      \* bound: what the master writes to parameter registers
  Levels,       \* values of MANUAL_OUT, per cent
  EditedFields, \* bound: password fields in which a digit key is pressed
  EditedParams, \* bound: parameters whose editor is given a value key
  Scenes        \* bound: what the environment does in one execution

Worlds == {"out", "alarm", "param", "reset"}

(* The PASS tables: the parameters of each zone, in list order.            *)
PASSES == << <<"SET_FLOW_SP", "SET_FLOW_SPR", "SET_ALARM_LOW",
               "SET_ALARM_LOWR", "SET_ALARM_TIME", "SET_MEM_NOR">>,
             <<"SET_SENSOR_Z", "SET_SENSOR_S", "SET_OUT_Z", "SET_OUT_S",
               "SET_PID_TI", "SET_PID_BAND", "SET_BLACKOUT">>,
             <<"SET_MAINT", "SET_COUNT_MAX">>,
             <<"SET_DATALOG">> >>
PassList == <<"SETTINGS", "SETTINGS_P2", "SETTINGS_P3", "SETTINGS_P4">>

Zones       == 1 .. 4
Size(z)     == Len(PASSES[z])
ParamsOf(z) == {PASSES[z][i] : i \in 1 .. Size(z)}
Params      == UNION {ParamsOf(z) : z \in Zones}
Lists       == {PassList[z] : z \in Zones}
Toggles     == {"SET_MEM_NOR", "SET_BLACKOUT", "SET_DATALOG"}
Config      == Lists \cup Params \cup {"PASSWORD"}
Screens     == {"POWER_ON", "STANDBY", "MAIN", "ALARM"} \cup Config

(* list_pass_idx, and locate_param with its two results.                   *)
ZoneOf(s)  == CHOOSE z \in Zones : s = PassList[z] \/ s \in ParamsOf(z)
IndexOf(p) == CHOOSE i \in 0 .. Size(ZoneOf(p)) - 1 :
                PASSES[ZoneOf(p)][i + 1] = p

(* The limits of an editor.  Six parameters are single bytes.              *)
Bytes    == Toggles \cup {"SET_ALARM_TIME", "SET_OUT_Z", "SET_OUT_S"}
Low(p)   == IF p = "SET_PID_BAND" THEN 1 ELSE 0
Limit(p) == IF p \in Toggles THEN 1 ELSE Top
Values   == Written \cup (0 .. Top) \cup {NaN}
Writable(p) == {v \in Written : p \in Bytes => v \in Nat}
NOR      == 0
FULL     == 100

Modes   == {"POWER", "WORK", "ALARM", "MANUAL", "STANDBY", "NIGHT",
            "EMERGENCY"}
Keys    == {"NONE", "PRG", "ONOFF", "LAMP", "AUTO_MAN", "RB", "E",
            "PRG_LONG", "ONOFF_LONG", "LAMP_LONG", "E_LONG"}
Commands == {"NONE", "POWER_ON", "STANDBY", "START", "STOP", "SET_AUTO",
             "SET_MANUAL", "ACK_ALARM", "NIGHT_TOGGLE", "LAMP_TOGGLE",
             "SOCKET_TOGGLE", "EMERGENCY_TOGGLE", "BUZZER_MUTE"}

(* A scene: the keys pressed, those of them that are pressed on the main   *)
(* screen, the master's commands and jumps, and what else may happen.      *)
AllScenes ==
  [keys : SUBSET Keys, main : SUBSET Keys, cmds : SUBSET Commands,
   gotos : SUBSET ((Screens \ {"POWER_ON"}) \cup {"NONE"}),
   world : SUBSET Worlds]

ASSUME MenuAssumption ==
  /\ {POWERON_TICKS, WORK_GRACE_TICKS, BOOST_TICKS, LAMP_AUTO_OFF_TICKS,
      SOCKET_DELAY_TICKS, INACT_TIMEOUT_TICKS, BUZZER_PERIOD_TICKS,
      BUZZER_ON_TICKS} \subseteq Nat \ {0}
  /\ 1 < BUZZER_ON_TICKS /\ BUZZER_ON_TICKS < BUZZER_PERIOD_TICKS
  /\ Base \in Nat \ {0} /\ Top \in Nat \ {0}
  /\ Levels \subseteq 0 .. FULL /\ {0, FULL} \subseteq Levels
  /\ EditedFields \subseteq 0 .. 3 /\ EditedParams \subseteq Params
  /\ Steps \subseteq Nat \ {0}
  /\ NaN \notin Int /\ Written \subseteq Int \cup {NaN}

ASSUME SceneAssumption == \A s \in Scenes : s \in AllScenes

(* The registers OUTPUT_STATE, ALARM_FLAGS and BUZZER_STATE, and the bits   *)
(* of which menu.c keeps the last value (s_work_was, s_emerg_was,          *)
(* s_alarm_was_on).                                                        *)
OutputBits == {"LAMP", "SOCKET"}
AlarmBits  == {"low"}
Sounds     == {"ON", "OFF"}
Latched    == {"WORK", "EMERGENCY", "ALARM"}

VARIABLES
  m,     \* the statics of menu.c and the registers it owns, see State
  hist,  \* history for the properties, see History; no action reads it
  scene  \* the scene of this execution; never changes

vars == <<m, hist, scene>>

State ==
  [st        : Screens,                 \* s_state
   ticks     : 0 .. POWERON_TICKS,      \* s_state_ticks, capped
   sr        : SUBSET Modes,            \* register MODE_SR
   out       : Levels,                  \* register MANUAL_OUT
   osr       : SUBSET OutputBits,       \* register OUTPUT_STATE
   flags     : SUBSET AlarmBits,        \* register ALARM_FLAGS
   buz       : Sounds,                  \* register BUZZER_STATE
   grace     : 0 .. WORK_GRACE_TICKS,
   boost     : 0 .. BOOST_TICKS,
   boostSave : Levels,
   was       : SUBSET Latched,          \* s_..._was, _was_on
   emergOut  : Levels,
   emergMan  : SUBSET {"MANUAL"},
   lampTick  : 0 .. LAMP_AUTO_OFF_TICKS,
   sockPend  : 0 .. SOCKET_DELAY_TICKS,
   sockOn    : SUBSET {"SOCKET"},
   buzTick   : 0 .. BUZZER_PERIOD_TICKS,
   muted     : {0, 1},
   inact     : 0 .. INACT_TIMEOUT_TICKS,
   listIdx   : 0 .. 6,
   digits    : [0 .. 3 -> 0 .. Base - 1],
   field     : 0 .. 3,
   attempts  : 0 .. 3,
   draft     : (0 .. Top) \cup {NaN},   \* the value in the editor
   par       : [Params -> Values],      \* the parameter registers
   stored    : [Params -> Values]]      \* their copy in the EEPROM

(* out: MANUAL_OUT as last chosen by operator or master; overlap: two      *)
(* overrides of it have met; work, rb: ticks since WORK rose, RB pressed;  *)
(* unseen: 1 when the stop before that rise fell between two samplings of  *)
(* WORK; wrong: wrong codes confirmed since the password screen was        *)
(* entered; down: 1 when the alarm bit was not up in the last tick; nan:   *)
(* parameters that hold a NaN, or held it while their editor has been open.*)
History ==
  [out : Levels, overlap : {0, 1},
   work : 0 .. WORK_GRACE_TICKS, unseen : {0, 1},
   rb : 0 .. SOCKET_DELAY_TICKS,
   wrong : 0 .. 3, down : 0 .. 1, nan : SUBSET Params]

-----------------------------------------------------------------------------
Dec(n)       == IF n > 0 THEN n - 1 ELSE 0
Capped(n, c) == IF n < c THEN n ELSE c
Toggle(S, b) == IF b \in S THEN S \ {b} ELSE S \cup {b}

(* enter_state: the mode bits a screen sets and clears.                    *)
ModesOn(sr, s) ==
  CASE s = "POWER_ON" -> (sr \cup {"POWER"}) \ {"WORK", "STANDBY"}
    [] s = "STANDBY"  -> (sr \cup {"STANDBY"}) \ {"POWER", "WORK"}
    [] s = "MAIN"     -> (sr \cup {"POWER"}) \ {"STANDBY"}
    [] s = "ALARM"    -> sr \cup {"ALARM"}
    [] OTHER          -> sr

(* A list of one parameter opens that parameter's editor instead.          *)
Opened(s) == IF s \in Lists /\ Size(ZoneOf(s)) <= 1
             THEN PASSES[ZoneOf(s)][1] ELSE s

(* (Mutant: the cursor is not brought back inside a shorter list.)         *)
CursorOnAny(t, s) == t.listIdx
CursorOn(t, s) ==
  IF s \in Lists /\ t.listIdx >= Size(ZoneOf(s)) THEN 0 ELSE t.listIdx

(* A NaN is neither below nor above a limit.  (Mutants: the draft is not   *)
(* limited when the editor opens, or only from above.)                     *)
AtLeast(v, lo) == IF v # NaN /\ v < lo THEN lo ELSE v
AtMost(v, hi)  == IF v # NaN /\ v > hi THEN hi ELSE v
DraftAny(t, s) == IF s \in Params THEN t.par[s] ELSE t.draft
DraftOnlyCapped(t, s) ==
  IF s \in Params THEN AtMost(t.par[s], Limit(s)) ELSE t.draft
DraftOn(t, s) ==
  IF s \in Params THEN AtMost(AtLeast(t.par[s], Low(s)), Limit(s)) ELSE t.draft

enter_state(t, s) ==
  LET o == Opened(s) IN
  [t EXCEPT !.st = o,
            !.ticks = 0,
            !.sr = ModesOn(@, o),
            !.listIdx = CursorOn(t, o),
            !.draft = DraftOn(t, o),
            !.digits = IF o = "PASSWORD" THEN [f \in 0 .. 3 |-> 0] ELSE @,
            !.field = IF o = "PASSWORD" THEN 0 ELSE @,
            !.attempts = IF o = "PASSWORD" THEN 0 ELSE @]

enter_pass(t, z) ==
  enter_state([t EXCEPT !.listIdx = IF Size(z) <= 1 THEN @ ELSE 0],
              PassList[z])

editor_back(t) ==
  LET z == ZoneOf(t.st) IN
  IF Size(z) > 1
  THEN enter_state([t EXCEPT !.listIdx = IndexOf(t.st)], PassList[z])
  ELSE enter_state(t, "MAIN")

(* The defaults are inside the limits of the editors.                      *)
Factory == [p \in Params |-> Low(p)]

(* menu_init after the parameters were loaded.                             *)
Boot(params, image) ==
  [st |-> "POWER_ON", ticks |-> 0, sr |-> {"POWER"}, out |-> 0, osr |-> {},
   flags |-> {}, buz |-> "OFF", grace |-> 0, boost |-> 0, boostSave |-> 0,
   was |-> {}, emergOut |-> 0, emergMan |-> {}, lampTick |-> 0,
   sockPend |-> 0, sockOn |-> {}, buzTick |-> 0, muted |-> 0, inact |-> 0,
   listIdx |-> 0, digits |-> [f \in 0 .. 3 |-> 0], field |-> 0,
   attempts |-> 0, draft |-> 0, par |-> params, stored |-> image]

NewHistory == [out |-> 0, overlap |-> 0, work |-> 0, unseen |-> 0,
               rb |-> 0, wrong |-> 0, down |-> 0, nan |-> {}]

Init ==
  /\ m = Boot(Factory, Factory)
  /\ hist = NewHistory
  /\ scene \in Scenes

-----------------------------------------------------------------------------
(* The stages of menu_process, in their order.                             *)

Count(t) == [t EXCEPT !.ticks = Capped(@ + 1, POWERON_TICKS)]

handle_modbus_cmd(t, cmd) ==
  CASE cmd = "POWER_ON" /\ t.st = "STANDBY" -> enter_state(t, "POWER_ON")
    [] cmd = "STANDBY"    -> enter_state(t, "STANDBY")
    [] cmd = "START" /\ t.st = "MAIN" -> [t EXCEPT !.sr = @ \cup {"WORK"}]
    [] cmd = "STOP"       -> [t EXCEPT !.sr = @ \ {"WORK"}]
    [] cmd = "SET_AUTO"   -> [t EXCEPT !.sr = @ \ {"MANUAL"}]
    [] cmd = "SET_MANUAL" -> [t EXCEPT !.sr = @ \cup {"MANUAL"}]
    [] cmd = "ACK_ALARM"  ->
         LET a == [t EXCEPT !.flags = {}, !.sr = @ \ {"ALARM"}]
         IN IF t.st = "ALARM" THEN enter_state(a, "MAIN") ELSE a
    [] cmd = "NIGHT_TOGGLE"     -> [t EXCEPT !.sr = Toggle(@, "NIGHT")]
    [] cmd = "LAMP_TOGGLE"      -> [t EXCEPT !.osr = Toggle(@, "LAMP")]
    [] cmd = "SOCKET_TOGGLE"    -> [t EXCEPT !.osr = Toggle(@, "SOCKET")]
    [] cmd = "EMERGENCY_TOGGLE" -> [t EXCEPT !.sr = Toggle(@, "EMERGENCY")]
    [] cmd = "BUZZER_MUTE"      -> [t EXCEPT !.muted = 1, !.buz = "OFF"]
    [] OTHER -> t

(* A code above MENU_PASSWORD has no effect, and 0 is no request.          *)
handle_menu_goto(t, goto) == IF goto = "NONE" THEN t ELSE enter_state(t, goto)

(* A rise of WORK starts the grace period and the boost, which borrows     *)
(* MANUAL_OUT and gives it back at its end.  (Mutants: the boost gives     *)
(* back what it wrote itself; WORK's edge starts no grace.)                *)
BoostStage(t, saved, graceTicks) ==
  LET rise == "WORK" \in t.sr /\ "WORK" \notin t.was
      left == IF rise THEN BOOST_TICKS ELSE t.boost
      back == IF rise THEN saved ELSE t.boostSave
  IN [t EXCEPT
        !.grace = Dec(IF rise THEN graceTicks ELSE @),
        !.boost = Dec(left),
        !.boostSave = back,
        !.out = IF left = 1 THEN back ELSE IF rise THEN FULL ELSE @,
        !.lampTick = IF "WORK" \in t.was \ t.sr THEN 0 ELSE @,
        !.was = (@ \ {"WORK"}) \cup (t.sr \cap {"WORK"})]
BoostKeepsFull(t) == BoostStage(t, FULL, WORK_GRACE_TICKS)
BoostNoGrace(t)   == BoostStage(t, t.out, 0)
Boost(t)          == BoostStage(t, t.out, WORK_GRACE_TICKS)

(* E saves MANUAL_OUT and MANUAL, forces FULL while it lasts, restores     *)
(* both.  (Mutant: FULL is written once and not held.)                     *)
EmergencyStage(t, held) ==
  LET now   == "EMERGENCY" \in t.sr
      enter == now /\ "EMERGENCY" \notin t.was
      leave == ~now /\ "EMERGENCY" \in t.was
  IN [t EXCEPT
        !.emergOut = IF enter THEN t.out ELSE @,
        !.emergMan = IF enter THEN t.sr \cap {"MANUAL"} ELSE @,
        !.sr = IF enter THEN @ \cup {"MANUAL"}
               ELSE IF leave THEN (@ \ {"MANUAL"}) \cup t.emergMan ELSE @,
        !.out = IF enter \/ (now /\ held) THEN FULL
                ELSE IF leave THEN t.emergOut ELSE @,
        !.was = (@ \ {"EMERGENCY"}) \cup (t.sr \cap {"EMERGENCY"})]
EmergencyOnce(t) == EmergencyStage(t, FALSE)
Emergency(t)     == EmergencyStage(t, TRUE)

(* (Mutant: the relay is driven at once.)                                  *)
SocketAtOnce(t) ==
  [t EXCEPT !.sockPend = 0,
            !.osr = IF t.sockPend > 0
                    THEN (@ \ {"SOCKET"}) \cup t.sockOn ELSE @]
Socket(t) ==
  [t EXCEPT !.sockPend = Dec(@),
            !.osr = IF t.sockPend = 1
                    THEN (@ \ {"SOCKET"}) \cup t.sockOn ELSE @]

(* (Mutant: the lamp is timed only while the fan works.)                   *)
LampStage(t, timed) ==
  LET count == "LAMP" \in t.osr /\ timed
      due   == count /\ t.lampTick + 1 >= LAMP_AUTO_OFF_TICKS
  IN [t EXCEPT !.osr = IF due THEN @ \ {"LAMP"} ELSE @,
               !.lampTick = IF count /\ ~due THEN @ + 1 ELSE 0]
LampOffWorking(t) == LampStage(t, "WORK" \in t.sr)
LampOff(t)        == LampStage(t, "WORK" \notin t.sr)

(* (Mutant: grace is not consulted.)                                       *)
AlarmBitNoGrace(t) ==
  [t EXCEPT !.sr = IF t.flags # {} THEN @ \cup {"ALARM"} ELSE @ \ {"ALARM"}]
AlarmBit(t) ==
  [t EXCEPT !.sr = IF t.flags # {} /\ t.grace = 0
                   THEN @ \cup {"ALARM"} ELSE @ \ {"ALARM"}]

(* (Mutants: the buzzer is only ever switched on; a new alarm leaves the   *)
(* mute in place; the sound has no pauses.)                                *)
BuzzerStage(t, unmute, onTicks) ==
  LET now   == "ALARM" \in t.sr
      new   == now /\ "ALARM" \notin t.was
      mute  == IF new /\ unmute THEN 0 ELSE t.muted
      sound == now /\ mute = 0
      next  == (IF new THEN 0 ELSE t.buzTick) + 1
      tick  == IF sound /\ next < BUZZER_PERIOD_TICKS THEN next ELSE 0
  IN [t EXCEPT !.muted = mute,
               !.buzTick = tick,
               !.buz = IF sound /\ tick < onTicks THEN "ON" ELSE "OFF",
               !.was = (@ \ {"ALARM"}) \cup (t.sr \cap {"ALARM"})]
BuzzerNeverCut(t) ==
  LET b == BuzzerStage(t, TRUE, BUZZER_ON_TICKS)
  IN [b EXCEPT !.buz = IF t.buz = "ON" THEN "ON" ELSE @]
BuzzerStaysMuted(t) == BuzzerStage(t, FALSE, BUZZER_ON_TICKS)
BuzzerNonStop(t)    == BuzzerStage(t, TRUE, BUZZER_PERIOD_TICKS)
Buzzer(t)           == BuzzerStage(t, TRUE, BUZZER_ON_TICKS)

(* (Mutant: every tick counts as activity.)                                *)
InactivityNever(t, ev) == [t EXCEPT !.inact = 0]
Inactivity(t, ev) ==
  LET n == IF ev = "NONE" THEN t.inact + 1 ELSE 0 IN
  IF t.st \notin Config THEN [t EXCEPT !.inact = 0]
  ELSE IF n < INACT_TIMEOUT_TICKS THEN [t EXCEPT !.inact = n]
  ELSE enter_state([t EXCEPT !.inact = 0], "MAIN")

(* The state the stages lead to, in a set of its own: each stage is        *)
(* evaluated once.                                                         *)
Upkeep(cmd, goto, ev) ==
  LET asked  == {handle_menu_goto(t, goto) :
                   t \in {handle_modbus_cmd(Count(m), cmd)}}
      driven == {Emergency(t) : t \in {Boost(u) : u \in asked}}
      relays == {LampOff(t) : t \in {Socket(u) : u \in driven}}
      heard  == {Buzzer(t) : t \in {AlarmBit(u) : u \in relays}}
  IN {Inactivity(t, ev) : t \in heard}

-----------------------------------------------------------------------------
(* The switch on the screen: t is the state after Upkeep, ev the key.      *)

SplashEnds(t) ==
  /\ t.st = "POWER_ON" /\ t.ticks >= POWERON_TICKS
  /\ m' = enter_state(t, "MAIN")

SwitchOn(t, ev) ==
  /\ t.st = "STANDBY" /\ ev \in {"ONOFF", "ONOFF_LONG"}
  /\ m' = enter_state(t, "POWER_ON")

(* (Mutant: the fan is left working when the panel goes to standby.)       *)
MainOnOffKeepsWork(t, ev) ==
  /\ t.st = "MAIN" /\ ev = "ONOFF"
  /\ m' = IF "NIGHT" \in t.sr
          THEN [t EXCEPT !.sr = (@ \ {"NIGHT"}) \cup {"STANDBY"}, !.st = "STANDBY"]
          ELSE [t EXCEPT !.sr = Toggle(@, "WORK")]
MainOnOff(t, ev) ==
  /\ t.st = "MAIN" /\ ev = "ONOFF"
  /\ m' = IF "NIGHT" \in t.sr
          THEN enter_state([t EXCEPT !.sr = @ \ {"NIGHT", "WORK"}], "STANDBY")
          ELSE [t EXCEPT !.sr = Toggle(@, "WORK")]

MainNight(t, ev) ==
  /\ t.st = "MAIN" /\ ev = "ONOFF_LONG"
  /\ m' = [t EXCEPT !.sr = Toggle(@, "NIGHT")]

(* AUTO to MANUAL in NOR mode starts from an output of zero.               *)
ChoosesZero(t, ev) ==
  /\ t.st = "MAIN" /\ ev = "AUTO_MAN"
  /\ "MANUAL" \notin t.sr /\ t.par["SET_MEM_NOR"] = NOR

MainAutoMan(t, ev) ==
  /\ t.st = "MAIN" /\ ev = "AUTO_MAN"
  /\ m' = [t EXCEPT !.sr = Toggle(@, "MANUAL"),
                    !.out = IF ChoosesZero(t, ev) THEN 0 ELSE @]

MainShowAlarm(t, ev) ==
  /\ t.st = "MAIN" /\ ev = "PRG" /\ "ALARM" \in t.sr
  /\ m' = enter_state([t EXCEPT !.muted = 1, !.buz = "OFF"], "ALARM")

MainPassword(t, ev) ==
  /\ t.st = "MAIN" /\ ev = "PRG_LONG"
  /\ m' = enter_state(t, "PASSWORD")

MainLamp(t, ev) ==
  /\ t.st = "MAIN" /\ ev = "LAMP"
  /\ m' = [t EXCEPT !.osr = Toggle(@, "LAMP")]

MainSocket(t, ev) ==
  /\ t.st = "MAIN" /\ ev = "RB"
  /\ m' = [t EXCEPT !.sockOn = {"SOCKET"} \ t.osr,
                    !.sockPend = SOCKET_DELAY_TICKS]

PressEmergency(t, ev) ==
  /\ t.st \in {"MAIN", "ALARM"} /\ ev = "E"
  /\ m' = [t EXCEPT !.sr = Toggle(@, "EMERGENCY")]

(* (Mutant: the buzzer is not muted with the alarm.)                       *)
AlarmAckLoud(t, ev) ==
  /\ t.st = "ALARM" /\ ev = "PRG"
  /\ m' = enter_state([t EXCEPT !.flags = {}, !.sr = @ \ {"ALARM"}], "MAIN")
AlarmAck(t, ev) ==
  /\ t.st = "ALARM" /\ ev = "PRG"
  /\ m' = enter_state([t EXCEPT !.muted = 1, !.buz = "OFF", !.flags = {},
                                !.sr = @ \ {"ALARM"}], "MAIN")

AlarmAutoMan(t, ev) ==
  /\ t.st = "ALARM" /\ ev = "AUTO_MAN"
  /\ m' = [t EXCEPT !.sr = Toggle(@, "MANUAL")]

(* The cursor wraps at both ends of the list.                              *)
ListMove(t, ev) ==
  /\ t.st \in Lists /\ ev \in {"LAMP", "LAMP_LONG", "ONOFF"}
  /\ LET n == Size(ZoneOf(t.st)) IN
     m' = [t EXCEPT !.listIdx =
             IF ev = "ONOFF" THEN (@ + 1) % n
             ELSE IF @ = 0 THEN n - 1 ELSE @ - 1]

ListOpen(t, ev) ==
  /\ t.st \in Lists /\ ev = "PRG"
  /\ m' = enter_state(t, PASSES[ZoneOf(t.st)][t.listIdx + 1])

LeaveConfig(t, ev) ==
  /\ t.st \in Lists \cup {"PASSWORD"} /\ ev \in {"PRG_LONG", "E"}
  /\ m' = enter_state(t, "MAIN")

PwDigit(t, ev) ==
  /\ t.st = "PASSWORD" /\ ev \in {"LAMP", "LAMP_LONG", "ONOFF"}
  /\ t.field \in EditedFields
  /\ m' = [t EXCEPT !.digits[t.field] =
             (@ + (IF ev = "ONOFF" THEN Base - 1 ELSE 1)) % Base]

(* (Mutant: the field runs past the last digit.)                           *)
PwFieldRuns(t, ev) ==
  /\ t.st = "PASSWORD" /\ ev \in {"AUTO_MAN", "RB"}
  /\ m' = [t EXCEPT !.field = @ + (IF ev = "RB" THEN 3 ELSE 1)]
PwField(t, ev) ==
  /\ t.st = "PASSWORD" /\ ev \in {"AUTO_MAN", "RB"}
  /\ m' = [t EXCEPT !.field = (@ + (IF ev = "RB" THEN 3 ELSE 1)) % 4]

(* The zone a password opens, or 0.  (Mutant: the default digits 0000      *)
(* open the last zone.)                                                    *)
Code(digits) ==
  digits[0] * 1000 + digits[1] * 100 + digits[2] * 10 + digits[3]
ZoneOfCodeFrom0(code) ==
  IF code = 0 THEN 4 ELSE IF code \in Zones THEN code ELSE 0
ZoneOfCode(code) ==
  IF code = 0 THEN 1 ELSE IF code \in Zones THEN code ELSE 0

(* (Mutant: the wrong entries are not counted.)                            *)
PwConfirmForgets(t, ev) ==
  /\ t.st = "PASSWORD" /\ ev = "PRG"
  /\ LET z == ZoneOfCode(Code(t.digits)) IN
     m' = IF z # 0 THEN enter_pass(t, z) ELSE enter_state(t, "PASSWORD")
PwConfirm(t, ev) ==
  /\ t.st = "PASSWORD" /\ ev = "PRG"
  /\ LET z == ZoneOfCode(Code(t.digits))
         wrong == [t EXCEPT !.attempts = @ + 1]
     IN m' = IF z # 0 THEN enter_pass(t, z)
             ELSE IF wrong.attempts >= 3 THEN enter_state(wrong, "MAIN")
             ELSE [wrong EXCEPT !.digits = [f \in 0 .. 3 |-> 0], !.field = 0]

(* A toggle flips on either key; a number moves by a step and stops at the *)
(* limit; a NaN stays.  (Mutant: the way down does not stop at the limit.) *)
Moved(v, ev, step) ==
  IF v = NaN THEN NaN ELSE IF ev = "ONOFF" THEN v - step ELSE v + step
SteppedBelow(p, v, ev, step) ==
  IF p \in Toggles THEN IF v = 0 THEN 1 ELSE 0
  ELSE AtMost(Moved(v, ev, step), Limit(p))
Stepped(p, v, ev, step) ==
  IF p \in Toggles THEN IF v = 0 THEN 1 ELSE 0
  ELSE IF ev = "ONOFF" THEN AtLeast(Moved(v, ev, step), Low(p))
  ELSE AtMost(Moved(v, ev, step), Limit(p))

EditorValue(t, ev) ==
  /\ t.st \in EditedParams /\ ev \in {"LAMP", "LAMP_LONG", "ONOFF"}
  /\ \E step \in Steps : m' = [t EXCEPT !.draft = Stepped(t.st, @, ev, step)]

editor_commit_draft(t) == [t EXCEPT !.par[t.st] = t.draft]

EditorCommit(t, ev) ==
  /\ t.st \in Params /\ ev = "PRG"
  /\ m' = editor_back(editor_commit_draft(t))

(* settings_save copies every parameter; its failure is not looked at.     *)
EditorSave(t, ev) ==
  /\ t.st \in Params /\ ev = "PRG_LONG"
  /\ LET c == editor_commit_draft(t) IN
     m' = enter_state([c EXCEPT !.stored = c.par], "MAIN")

EditorLeave(t, ev) ==
  /\ t.st \in Params /\ ev = "E"
  /\ m' = editor_back(t)

(* The keys a screen answers; the cursor keys of an editor move only the   *)
(* digit under edit, which is not modelled.                                *)
ValueKeys == {"LAMP", "LAMP_LONG", "ONOFF"}
KeysOf(t) ==
  CASE t.st = "STANDBY" -> {"ONOFF", "ONOFF_LONG"}
    [] t.st = "MAIN" -> {"ONOFF", "ONOFF_LONG", "AUTO_MAN", "PRG_LONG",
                         "LAMP", "RB", "E"}
                        \cup (IF "ALARM" \in t.sr THEN {"PRG"} ELSE {})
    [] t.st = "ALARM" -> {"PRG", "AUTO_MAN", "E"}
    [] t.st \in Lists \cup Params -> ValueKeys \cup {"PRG", "PRG_LONG", "E"}
    [] t.st = "PASSWORD" ->
         ValueKeys \cup {"AUTO_MAN", "RB", "PRG", "PRG_LONG", "E"}
    [] OTHER -> {}

NoKey(t, ev) ==
  /\ ev \notin KeysOf(t)
  /\ ~(t.st = "POWER_ON" /\ t.ticks >= POWERON_TICKS)
  /\ m' = t

ScreenKey(t, ev) ==
  \/ SplashEnds(t)         \/ SwitchOn(t, ev)      \/ MainOnOff(t, ev)
  \/ MainNight(t, ev)      \/ MainAutoMan(t, ev)   \/ MainShowAlarm(t, ev)
  \/ MainPassword(t, ev)   \/ MainLamp(t, ev)      \/ MainSocket(t, ev)
  \/ PressEmergency(t, ev) \/ AlarmAck(t, ev)      \/ AlarmAutoMan(t, ev)
  \/ ListMove(t, ev)       \/ ListOpen(t, ev)      \/ LeaveConfig(t, ev)
  \/ PwDigit(t, ev)        \/ PwField(t, ev)       \/ PwConfirm(t, ev)
  \/ EditorValue(t, ev)    \/ EditorCommit(t, ev)  \/ EditorSave(t, ev)
  \/ EditorLeave(t, ev)    \/ NoKey(t, ev)

-----------------------------------------------------------------------------
Overriding(t) == t.boost > 0 \/ "EMERGENCY" \in t.was

(* What the tick from m over t to m' adds to the history.                  *)
Remember(t, ev) ==
  LET boosts == "WORK" \in t.was /\ "WORK" \notin m.was
      forces == "EMERGENCY" \in t.was /\ "EMERGENCY" \notin m.was
      meets  == \/ boosts /\ (m.boost > 0 \/ "EMERGENCY" \in m.was)
                \/ forces /\ t.boost > 0
                \/ ChoosesZero(t, ev) /\ Overriding(t)
      before == IF t.ticks = 0 THEN 0 ELSE hist.wrong \* screen just entered
  IN hist' =
       [out     |-> IF ChoosesZero(t, ev) THEN 0 ELSE hist.out,
        overlap |-> IF meets THEN 1 ELSE hist.overlap,
        work    |-> IF "WORK" \in m'.sr /\ "WORK" \notin m.sr \cap t.was THEN 0
                    ELSE Capped(hist.work + 1, WORK_GRACE_TICKS),
        unseen  |-> IF boosts THEN 0
                    ELSE IF "WORK" \in (m.was \cap t.was) \ m.sr THEN 1
                    ELSE hist.unseen,
        rb      |-> IF t.st = "MAIN" /\ ev = "RB" THEN 0
                    ELSE Capped(hist.rb + 1, SOCKET_DELAY_TICKS),
        wrong   |-> IF m'.st # "PASSWORD" THEN 0
                    ELSE IF t.st = "PASSWORD" /\ ev = "PRG"
                    THEN Capped(before + 1, 3) ELSE before,
        down    |-> IF "ALARM" \in m.sr \cup t.sr THEN 0 ELSE 1,
        nan     |-> {p \in hist.nan : m'.par[p] = NaN \/ m'.st = p}]

Tick(cmd, goto, ev) ==
  \E t \in Upkeep(cmd, goto, ev) :
    /\ t.st = "MAIN" => ev \in scene.main
    /\ ScreenKey(t, ev)
    /\ Remember(t, ev)
    /\ UNCHANGED scene

(* One call of menu_process.                                               *)
Process ==
  \E cmd \in scene.cmds, goto \in scene.gotos, ev \in scene.keys :
    Tick(cmd, goto, ev)

(* A call that finds no command, no jump and no button event.              *)
Quiet == Tick("NONE", "NONE", "NONE")

(* Registers other parties write: the master sets MANUAL_OUT and the       *)
(* parameters; ALARM_FLAGS is set and cleared by nothing in src/, so by    *)
(* the master or a sensor board.                                           *)
WriteOut(v) ==
  /\ "out" \in scene.world /\ v # m.out
  /\ m' = [m EXCEPT !.out = v]
  /\ hist' = [hist EXCEPT !.out = v,
                          !.overlap = IF Overriding(m) THEN 1 ELSE @]
  /\ UNCHANGED scene

WriteAlarm ==
  /\ "alarm" \in scene.world
  /\ m' = [m EXCEPT !.flags = Toggle(@, "low")]
  /\ UNCHANGED <<hist, scene>>

WriteParam(p, v) ==
  /\ "param" \in scene.world /\ p \in EditedParams
  /\ m' = [m EXCEPT !.par[p] = v]
  /\ hist' = [hist EXCEPT !.nan =
                IF v = NaN THEN @ \cup {p} ELSE IF m.st = p THEN @ ELSE @ \ {p}]
  /\ UNCHANGED scene

(* Power loss or watchdog reset, and a boot that loads the stored image or *)
(* the factory settings (module Settings).                                 *)
Reset(image) ==
  /\ "reset" \in scene.world /\ image \in {m.stored, Factory}
  /\ m' = Boot(image, image)
  /\ hist' = [NewHistory EXCEPT !.nan = {p \in Params : image[p] = NaN}]
  /\ UNCHANGED scene

Next ==
  \/ Process
  \/ \E v \in Levels : WriteOut(v)
  \/ WriteAlarm
  \/ \E p \in EditedParams : \E v \in Writable(p) : WriteParam(p, v)
  \/ \E image \in {m.stored, Factory} : Reset(image)

Spec == Init /\ [][Next]_vars

(* task_ui calls menu_process every 10 ms for ever, input or not.  Fairness*)
(* is asked of the calls without input only: no operator has to press a    *)
(* key, and the liveness properties are about a panel left alone.          *)
FairSpec == Spec /\ WF_vars(Quiet)
LeftAlone == <>[][Quiet]_vars

-----------------------------------------------------------------------------
(* Properties.                                                             *)

(* Every static and register of menu.c keeps its type and range.           *)
TypeOK == m \in State /\ hist \in History /\ scene \in Scenes

(* On every path in and out of standby, the master's jumps included, the   *)
(* mode bits stay consistent: the fan works only while the unit is powered,*)
(* POWER and STANDBY are opposite, and neither the splash nor the standby  *)
(* screen is shown over a working fan (enter_state, 520-541).              *)
ModesAgree(t) ==
  /\ "WORK" \in t.sr => "POWER" \in t.sr
  /\ "POWER" \in t.sr <=> "STANDBY" \notin t.sr
  /\ t.st \in {"POWER_ON", "STANDBY"} => "WORK" \notin t.sr
  /\ t.st \in {"POWER_ON", "MAIN"} => "POWER" \in t.sr
  /\ t.st = "STANDBY" => "STANDBY" \in t.sr
WorkOnlyWhenPowered == ModesAgree(m)

(* The list cursor survives changes of zone, MENU_GOTO jumps between lists *)
(* and returns from editors; a list that is shown never indexes past its   *)
(* PASS table (the read PASSES[p].seq[s_pass_list_idx], 1097).             *)
CursorInZone(t) == t.st \in Lists => t.listIdx < Size(ZoneOf(t.st))
ListCursorInZone == CursorInZone(m)

(* With no MENU_GOTO, the screens of a zone are entered from outside the   *)
(* zone only from the password screen, with that zone's code in it         *)
(* (enter_pass, editor_back, and the inactivity timeout).                  *)
ScreensOf(z) == {PassList[z]} \cup ParamsOf(z)
CodesOf == <<{0, 1}, {2}, {3}, {4}>>
ZoneNeedsItsPassword ==
  [][scene.gotos = {"NONE"} =>
     \A z \in Zones : (m'.st \in ScreensOf(z) /\ m.st \notin ScreensOf(z)) =>
       m.st = "PASSWORD" /\ Code(m.digits) \in CodesOf[z]]_vars

(* A wrong code can be entered at most twice: the third one closes the     *)
(* panel, although the digits start again in between (1137-1145).          *)
ThirdWrongCodeLeaves == hist.wrong < 3

(* A call of menu_process changes at most one parameter register, and      *)
(* leaves it inside the editor's limits whatever the master had written    *)
(* there; a NaN, which the clamps let through, can come back only to a     *)
(* register that held one when its editor was opened (555-695, 799-831,    *)
(* 1175-1183).                                                             *)
PanelWritesInRange ==
  [][(m'.par # m.par /\ Process) =>
       \E p \in Params :
         /\ m'.par = [m.par EXCEPT ![p] = m'.par[p]]
         /\ m'.par[p] \in Low(p) .. Limit(p) \/ (m'.par[p] = NaN /\ p \in hist.nan)]_vars

(* The output the operator or the master chose is back as soon as neither  *)
(* boost nor emergency overrides it, provided two overrides never met      *)
(* (882-911).                                                              *)
OutputReturned == hist.overlap = 0 /\ ~Overriding(m) => m.out = hist.out

(* passport_v1.5 5.6 and 6.4: after the boost comes the set output, after  *)
(* the emergency the state before, whatever happened in between.           *)
OutputAlwaysReturned == ~Overriding(m) => m.out = hist.out

(* Two delays that commands, keys and jumps restart and cut short are kept *)
(* in full.  No alarm is up over a working fan, its WORK sampled, before   *)
(* the grace period has run since WORK was last set (882-893, 936-939); a  *)
(* master's START counts from its own tick, a key's from the next, hence   *)
(* the 1.  A stop by key that a START undoes before WORK is sampled starts *)
(* no grace.  Without the master's SOCKET_TOGGLE, the socket relay moves   *)
(* only when its delay has passed since the last press of RB (913-921,     *)
(* 1037-1042).                                                             *)
GraceHidesAlarm ==
  ("ALARM" \in m'.sr /\ "WORK" \in m'.was \cap m'.sr /\ hist'.unseen = 0)
    => hist'.work + 1 >= WORK_GRACE_TICKS
SocketWaits ==
  ("SOCKET_TOGGLE" \notin scene.cmds /\ "reset" \notin scene.world
   /\ ("SOCKET" \in m.osr) # ("SOCKET" \in m'.osr))
    => hist.rb + 1 >= SOCKET_DELAY_TICKS
DelaysKept == [][GraceHidesAlarm /\ SocketWaits]_vars

(* The buzzer sounds only for an alarm that is up and was not muted, on    *)
(* every screen and through every acknowledgement (947-966, 1053-1062).    *)
BuzzerOnlyForUnmutedAlarm ==
  m.buz = "ON" => "ALARM" \in m.sr /\ m.muted = 0

(* An alarm that was down for a whole tick sounds at once when it comes    *)
(* back, although the last one was muted or acknowledged, unless the       *)
(* operator opens the alarm screen in that very tick (949-953).            *)
AlarmAfterPauseSounds ==
  [][/\ hist.down = 1 /\ "ALARM" \in m'.sr /\ m'.st # "ALARM"
     => m'.buz = "ON"]_vars

(* Left alone, the device comes to rest: the panel leaves the splash, the  *)
(* password screen, the lists and the editors (968-989); a boost ends, and *)
(* an emergency holds the output at FULL whatever was written (889-911); a *)
(* lamp over a stopped fan goes out (923-934); the buzzer falls silent     *)
(* with its cause, and pulses as long as an alarm stands unmuted (947-966).*)
AbandonedPanelSettles ==
  LeftAlone =>
    /\ <>[](/\ m.st \in {"STANDBY", "MAIN", "ALARM"}
            /\ m.boost = 0 /\ ("EMERGENCY" \in m.sr => m.out = FULL)
            /\ ("LAMP" \in m.osr => "WORK" \in m.sr))
    /\ <>[](m.flags = {}) => <>[](m.buz = "OFF")
    /\ <>[]("ALARM" \in m.sr /\ m.muted = 0) =>
         []<>(m.buz = "ON") /\ []<>(m.buz = "OFF")
=============================================================================
