------------------------------ MODULE MCKernel ------------------------------
(* The tasks of the production mode, with short periods and a tick count    *)
(* that overflows after a few ticks.                                        *)
EXTENDS Kernel

Delay(n) == [kind |-> "delay", n |-> n]
Until(n) == [kind |-> "until", n |-> n]
Block    == [kind |-> "block", n |-> 1]

(* Production: vTaskStartScheduler creates the idle and the timer task.     *)
Production == {"modbus", "ui", "timer", "idle"}
ProductionCreation == <<"modbus", "ui", "idle", "timer">>
ProductionPriority ==
  [t \in Production |-> CASE t = "modbus" -> 3 [] t = "idle" -> 0 [] OTHER -> 2]
ProductionCalls ==
  [t \in Production |-> CASE t = "modbus" -> {Delay(1)}
                          [] t = "ui" -> {Until(2), Delay(3)}
                          [] t = "timer" -> {Block}
                          [] t = "idle" -> {}]
=============================================================================
