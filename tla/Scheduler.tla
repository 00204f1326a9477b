----------------------------- MODULE Scheduler -----------------------------
(***************************************************************************)
(* What the kernel promises its tasks.  A task that asks to be delayed by  *)
(* n ticks sleeps for n of them; one that asks for its period sleeps for   *)
(* what is left of it, and not at all when it is over already; one that    *)
(* blocks sleeps without end.  The processor goes to one of the tasks of   *)
(* highest priority that are awake.                                        *)
(***************************************************************************)
EXTENDS Integers

CONSTANTS Tasks, Priority, Calls, Horizon, MaxLate, None

VARIABLES
  left,     \* ticks each task still has to sleep, Horizon for one without end
  running,  \* the task that has the processor
  request,  \* the sleep a task has asked for and not been given yet
  behind    \* ticks since a periodic task should have woken, counted to MaxLate

schedulerVars == <<left, running, request, behind>>

Awake(t) == left[t] = 0

Prevails(t) == Awake(t) /\ \A u \in Tasks : Awake(u) => Priority[u] <= Priority[t]

SchedulerInit ==
  /\ left = [t \in Tasks |-> 0]
  /\ running = None
  /\ request = [t \in Tasks |-> None]
  /\ behind = [t \in Tasks |-> None]

Acts == running # None /\ Awake(running) /\ request[running] = None

(* A periodic task counts its first period from here.                      *)
Begin ==
  /\ Acts /\ behind[running] = None
  /\ \E c \in Calls[running] : c.kind = "until"
  /\ behind' = [behind EXCEPT ![running] = 0]
  /\ UNCHANGED <<left, running, request>>

Ask(c) ==
  /\ Acts /\ c \in Calls[running]
  /\ c.kind = "until" => behind[running] # None /\ behind[running] < MaxLate
  /\ request' = [request EXCEPT ![running] = c]
  /\ UNCHANGED <<left, running, behind>>

(* How long the sleep asked for has to last.                               *)
Due(c, b) ==
  CASE c.kind = "delay" -> c.n
    [] c.kind = "until" -> IF b < c.n THEN c.n - b ELSE 0
    [] c.kind = "block" -> Horizon

(* The running task goes to sleep; it keeps the processor until Dispatch.  *)
Sleep ==
  /\ running # None /\ request[running] # None
  /\ LET c == request[running]
         b == behind[running]
     IN  /\ left' = [left EXCEPT ![running] = Due(c, b)]
         /\ behind' = [behind EXCEPT ![running] = IF c.kind = "until" THEN b - c.n ELSE b]
  /\ request' = [request EXCEPT ![running] = None]
  /\ UNCHANGED running

(* A tick brings every sleeper one tick nearer to its end.                 *)
Pass ==
  /\ left' = [t \in Tasks |-> IF left[t] \in 1 .. Horizon - 1
                              THEN left[t] - 1 ELSE left[t]]
  /\ behind' = [t \in Tasks |-> IF behind[t] = None \/ behind[t] = MaxLate
                                THEN behind[t] ELSE behind[t] + 1]
  /\ UNCHANGED <<running, request>>

Dispatch ==
  /\ \E t \in Tasks : Prevails(t) /\ running' = t
  /\ UNCHANGED <<left, request, behind>>

SchedulerNext ==
  \/ Begin \/ Sleep \/ Pass \/ Dispatch
  \/ running # None /\ \E c \in Calls[running] : Ask(c)

SchedulerSpec == SchedulerInit /\ [][SchedulerNext]_schedulerVars
=============================================================================
