----------------------------- MODULE MCRuntime -----------------------------
(* The constants of Runtime are numbers and sets of strings, which the      *)
(* .cfg gives: a scan period of two steps (5 ms each), a long event at a    *)
(* hold of 3 scans instead of 300, works of half a period and of 3.5        *)
(* periods.                                                                 *)
EXTENDS Runtime
=============================================================================
