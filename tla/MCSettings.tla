----------------------------- MODULE MCSettings -----------------------------
(* Small instances of Settings: three pages, of which the last is spare,   *)
(* and two values for a page, so that any page may differ from any other.  *)
EXTENDS Settings

CONSTANTS def, zero

MCValues     == {def, zero}
MCParamPages == {0, 1}
EveryFault   == {{"i2c", "power"}, {"i2c", "power", "master"}}
OnlyMaster   == {{"master"}}
=============================================================================
