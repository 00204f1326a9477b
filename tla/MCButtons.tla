----------------------------- MODULE MCButtons -----------------------------
(* Two keys, one with a long event; thresholds of a few ticks.             *)
EXTENDS Buttons

(* Keys alone, with the master changing the timings under a held key.      *)
Pressing == [presses |-> Keys, boxes |-> {}, world |-> {"timing"}]
(* Keys and requests through all three registers, also over requests that  *)
(* were not taken yet.                                                     *)
Requesting == [presses |-> {2}, boxes |-> Boxes, world |-> {}]

BothScenes  == {Pressing, Requesting}
OnlyPresses == {Pressing}

FirstKey   == {1}
TwoTimings == {[deb |-> 20, long |-> 40], [deb |-> 0, long |-> 20]}
=============================================================================
