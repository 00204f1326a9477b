------------------------------- MODULE MCMenu -------------------------------
(* Small instances of Menu.  Each scene takes the keys, commands and jumps *)
(* of one concern and all their interleavings; timers last a few ticks.    *)
EXTENDS Menu

Scene(keys, main, cmds, gotos, world) ==
  [keys |-> {"NONE"} \cup keys, main |-> {"NONE"} \cup main,
   cmds |-> {"NONE"} \cup cmds, gotos |-> {"NONE"} \cup gotos,
   world |-> world]

(* Through the password into every list and editor, and back.              *)
Panel ==
  Scene({"PRG", "ONOFF", "LAMP", "RB", "AUTO_MAN", "E", "PRG_LONG"},
        {"PRG_LONG"}, {}, {}, {})
(* Editors over registers the master writes, with saves and resets.        *)
Editor ==
  Scene({"PRG", "ONOFF", "LAMP", "E", "PRG_LONG"}, {}, {},
        {"SET_PID_BAND", "SET_DATALOG", "PASSWORD"}, {"param", "reset"})
(* Keys against the master's power commands and jumps.                     *)
Remote ==
  Scene({"ONOFF"}, {"ONOFF"}, {"POWER_ON", "STANDBY", "START", "NIGHT_TOGGLE"},
        {"ALARM", "SETTINGS_P2", "SETTINGS_P3"}, {})
(* Everything that drives MANUAL_OUT.                                      *)
Output ==
  Scene({"ONOFF", "E", "AUTO_MAN"}, {"ONOFF", "E", "AUTO_MAN"},
        {"SET_AUTO", "SET_MANUAL", "EMERGENCY_TOGGLE"}, {}, {"out"})
(* The two relays.                                                         *)
Relays ==
  Scene({"ONOFF", "LAMP", "RB"}, {"ONOFF", "LAMP", "RB"},
        {"LAMP_TOGGLE", "STANDBY", "POWER_ON"}, {}, {})
(* Alarms handled at the panel, and by the master while both start and     *)
(* stop the fan.                                                           *)
AlarmKeys ==
  Scene({"ONOFF", "PRG", "AUTO_MAN", "ONOFF_LONG"},
        {"ONOFF", "PRG", "ONOFF_LONG"}, {}, {}, {"alarm"})
AlarmCmds ==
  Scene({"ONOFF"}, {"ONOFF"}, {"START", "STOP", "ACK_ALARM", "BUZZER_MUTE"},
        {"ALARM"}, {"alarm"})
(* For the violation: one key, and a master that writes nothing.           *)
StartStop   == Scene({"ONOFF"}, {"ONOFF"}, {}, {}, {})

EveryScene    == {Panel, Editor, Remote, Output, Relays, AlarmKeys, AlarmCmds}
OnlyStartStop == {StartStop}

Nothing     == {}
LastField   == {3}
(* The parameter whose least value is not 0, and what is outside its limits.*)
OneParam    == {"SET_PID_BAND"}
OneStep     == {2}
OutOfLimits == {-1, 3, NaN}
ThreeLevels == {0, 40, 100}
TwoLevels   == {0, 100}
=============================================================================
