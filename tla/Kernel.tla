------------------------------- MODULE Kernel -------------------------------
(***************************************************************************)
(* The FreeRTOS kernel as this firmware configures and uses it: tasks that *)
(* sleep with vTaskDelay and xTaskDelayUntil, one that blocks for ever     *)
(* (the timer daemon on its empty queue), critical sections, the tick      *)
(* interrupt and PendSV.  One core, preemption and time slices.            *)
(*                                                                         *)
(* What runs with interrupts masked is still cut into the iterations of    *)
(* its loops (`busy`), as nothing else moves meanwhile.                    *)
(***************************************************************************)
EXTENDS Integers, Sequences, FiniteSets

CONSTANTS
  Tasks,        \* the tasks that are created
  Creation,     \* the order in which they are
  Priority,     \* their priorities
  Calls,        \* the sleeping calls a task's code makes
  Critical,     \* tasks whose code has critical sections
  Polite,       \* tasks that always come to a sleeping call
  MaxTick,      \* portMAX_DELAY, the greatest tick count
  MaxPended,    \* bound: ticks that come while the scheduler is suspended
  MaxLate,      \* bound: a periodic task is late by less, or never comes back
  None

M == MaxTick + 1
Levels == {Priority[t] : t \in Tasks}
CallSet == UNION {Calls[t] : t \in Tasks}

ASSUME KernelAssumption ==
  /\ Creation \in Seq(Tasks) /\ {Creation[i] : i \in DOMAIN Creation} = Tasks
  /\ \A i, j \in DOMAIN Creation : Creation[i] = Creation[j] => i = j
  /\ Priority \in [Tasks -> Nat] /\ None \notin Tasks \cup Int \cup CallSet
  /\ \E t \in Tasks : Calls[t] = {}  \* the idle task
  /\ Calls \in [Tasks -> SUBSET [kind : {"delay", "until", "block"}, n : Nat]]
  /\ \A c \in CallSet : c.n \in 1 .. MaxTick
  /\ Critical \subseteq Tasks /\ Polite \subseteq Tasks
  /\ MaxTick \in Nat \ {0} /\ MaxPended \in Nat \ {0} /\ MaxLate \in 0 .. MaxTick

VARIABLES
  created,      \* how many tasks exist
  started,      \* xSchedulerRunning
  current,      \* pxCurrentTCB
  ready,        \* pxReadyTasksLists
  top,          \* uxTopReadyPriority, the set of its bits
  delayed,      \* *pxDelayedTaskList
  overflow,     \* *pxOverflowDelayedTaskList
  blocked,      \* xSuspendedTaskList
  wake,         \* the value of each task's xStateListItem
  tick,         \* xTickCount
  nextUnblock,  \* xNextTaskUnblockTime
  pended,       \* xPendedTicks
  suspended,    \* uxSchedulerSuspended
  yieldPending, \* xYieldPendings[0]
  pendSV,       \* the PendSV exception is pending
  masked,       \* BASEPRI is raised: uxCriticalNesting is not 0
  busy,         \* who is inside xTaskIncrementTick: "no", "isr", "resume"
  switch,       \* xSwitchRequired in there
  pc, call,     \* where each task's code is, and its call
  lastWake,     \* the variable a periodic task gives to xTaskDelayUntil
  clock,        \* tick interrupts since the start (modulo M)
  late          \* ticks since the time a periodic task should have woken

lists == <<ready, top, delayed, overflow, blocked, wake>>
code  == <<pc, call, lastWake>>
cpu   == <<pendSV, masked>>
time  == <<tick, nextUnblock, pended, clock, late>>
vars  == <<created, started, current, lists, time, suspended, yieldPending,
           cpu, busy, switch, code>>

-----------------------------------------------------------------------------
(* list.c.  A list is its items from the marker on and the position of     *)
(* pxIndex, 0 being the marker.                                            *)
EmptyList == [items |-> << >>, index |-> 0]

InsertAt(s, k, t) == SubSeq(s, 1, k) \o <<t>> \o SubSeq(s, k + 1, Len(s))
RemoveAt(s, k)    == SubSeq(s, 1, k - 1) \o SubSeq(s, k + 1, Len(s))
Place(s, t)       == CHOOSE k \in DOMAIN s : s[k] = t
Members(s)        == {s[k] : k \in DOMAIN s}

(* Just before pxIndex: the last to have its turn.                         *)
vListInsertEnd(l, t) ==
  IF l.index = 0 THEN [l EXCEPT !.items = Append(@, t)]
  ELSE [items |-> InsertAt(l.items, l.index - 1, t), index |-> l.index + 1]

vListInsertLast(s, t, value) == Append(s, t)

(* Behind the items of the same value and the smaller ones it meets first. *)
vListInsert(s, t, value) ==
  LET passed(k) == \A i \in 1 .. k : value[s[i]] <= value[t]
      k == CHOOSE k \in 0 .. Len(s) :
             passed(k) /\ (k < Len(s) => ~passed(k + 1))
  IN  InsertAt(s, k, t)

uxListRemoveOnly(l, t) ==
  [items |-> RemoveAt(l.items, Place(l.items, t)), index |-> l.index]

uxListRemove(l, t) ==
  LET k == Place(l.items, t)
  IN  [items |-> RemoveAt(l.items, k),
       index |-> IF k <= l.index THEN l.index - 1 ELSE l.index]

NextIndexStays(l) == IF l.index = 0 THEN 1 ELSE l.index

NextIndex(l) == IF l.index = Len(l.items) THEN 1 ELSE l.index + 1

prvAddTaskToReadyList(t) ==
  /\ ready' = [ready EXCEPT ![Priority[t]] = vListInsertEnd(@, t)]
  /\ top' = top \cup {Priority[t]}

prvResetNextTaskUnblockTime(s) == IF s = << >> THEN MaxTick ELSE wake[Head(s)]

-----------------------------------------------------------------------------
(* Start.                                                                  *)
Init ==
  /\ created = 0 /\ started = FALSE /\ current = None
  /\ ready = [p \in Levels |-> EmptyList] /\ top = {}
  /\ delayed = << >> /\ overflow = << >> /\ blocked = << >>
  /\ wake = [t \in Tasks |-> 0]
  /\ tick = 0 /\ nextUnblock = 0 /\ pended = 0 /\ suspended = 0
  /\ yieldPending = FALSE /\ pendSV = FALSE /\ masked = TRUE
  /\ busy = "no" /\ switch = FALSE
  /\ pc = [t \in Tasks |-> "run"] /\ call = [t \in Tasks |-> None]
  /\ lastWake = [t \in Tasks |-> None]
  /\ clock = 0 /\ late = [t \in Tasks |-> 0]

xTaskCreate ==
  /\ ~started /\ created < Len(Creation)
  /\ created' = created + 1
  /\ LET t == Creation[created + 1]
     IN  /\ current' = IF current = None THEN t
                       ELSE IF Priority[current] <= Priority[t] THEN t
                       ELSE current
         /\ prvAddTaskToReadyList(t)
  /\ UNCHANGED <<started, delayed, overflow, blocked, wake, time, suspended,
                 yieldPending, cpu, busy, switch, code>>

(* The masking of the creations ends with the first task's start.          *)
vTaskStartScheduler ==
  /\ ~started /\ created = Len(Creation)
  /\ started' = TRUE /\ masked' = FALSE
  /\ tick' = 0 /\ nextUnblock' = MaxTick
  /\ UNCHANGED <<created, current, lists, pended, clock, late, suspended,
                 yieldPending, pendSV, busy, switch, code>>

-----------------------------------------------------------------------------
(* xTaskIncrementTick: the count, then the loop over the sleepers.         *)
Older(t) == IF lastWake[t] = None \/ late[t] = MaxLate THEN late[t]
            ELSE late[t] + 1

CountTickNoSwap ==
  /\ tick' = (tick + 1) % M /\ switch' = FALSE
  /\ late' = [t \in Tasks |-> Older(t)]
  /\ UNCHANGED <<lists, nextUnblock>>

CountTick ==
  LET now     == (tick + 1) % M
      swapped == now = 0
      list    == IF swapped THEN overflow ELSE delayed
  IN  /\ tick' = now
      /\ delayed' = list
      /\ overflow' = IF swapped THEN delayed ELSE overflow
      /\ nextUnblock' = IF swapped THEN prvResetNextTaskUnblockTime(list)
                        ELSE nextUnblock
      /\ switch' = FALSE
      /\ late' = [t \in Tasks |-> Older(t)]
      /\ UNCHANGED <<ready, top, blocked, wake>>

(* While the scheduler is suspended a tick is only counted.                *)
SysTick_Handler ==
  /\ started /\ ~masked /\ ~pendSV /\ busy = "no"
  /\ clock' = (clock + 1) % M
  /\ \/ /\ suspended = 0
        /\ busy' = "isr" /\ CountTick
        /\ UNCHANGED pended
     \/ /\ suspended # 0 /\ pended < MaxPended
        /\ pended' = pended + 1
        /\ UNCHANGED <<lists, tick, nextUnblock, late, busy, switch>>
  /\ UNCHANGED <<created, started, current, suspended, yieldPending, cpu, code>>

(* An iteration that wakes a task.  The value of its item is not read any  *)
(* more, so none is kept.                                                  *)

Due == tick >= nextUnblock /\ delayed # << >> /\ wake[Head(delayed)] <= tick

WakeOne ==
  /\ busy # "no" /\ Due
  /\ LET t == Head(delayed)
     IN  /\ prvAddTaskToReadyList(t)
         /\ switch' = (switch \/ Priority[t] > Priority[current])
         /\ wake' = [wake EXCEPT ![t] = 0]
  /\ delayed' = Tail(delayed)
  /\ UNCHANGED <<created, started, current, overflow, blocked, time,
                 suspended, yieldPending, cpu, busy, code>>

(* The end of the loop and of the function; a slice ends with the tick     *)
(* when another task of the same priority is ready.                        *)
SwitchWantedBySlice == Len(ready[Priority[current]].items) > 1 \/ yieldPending

SwitchWanted ==
  switch \/ Len(ready[Priority[current]].items) > 1 \/ yieldPending

EndTickAllAtOnce ==
  /\ busy # "no" /\ ~Due
  /\ nextUnblock' = IF tick < nextUnblock THEN nextUnblock
                    ELSE prvResetNextTaskUnblockTime(delayed)
  /\ busy' = "no" /\ switch' = FALSE
  /\ pended' = 0
  /\ pendSV' = (busy = "isr" /\ SwitchWanted)
  /\ yieldPending' = (busy = "resume" /\ (yieldPending \/ SwitchWanted))
  /\ UNCHANGED <<created, started, current, lists, tick, clock, late,
                 suspended, masked, code>>

EndTick ==
  /\ busy # "no" /\ ~Due
  /\ nextUnblock' = IF tick < nextUnblock THEN nextUnblock
                    ELSE prvResetNextTaskUnblockTime(delayed)
  /\ busy' = "no" /\ switch' = FALSE
  /\ \/ /\ busy = "isr"
        /\ pendSV' = SwitchWanted
        /\ UNCHANGED <<pended, yieldPending>>
     \/ /\ busy = "resume"
        /\ pended' = pended - 1
        /\ yieldPending' = (yieldPending \/ SwitchWanted)
        /\ UNCHANGED pendSV
  /\ UNCHANGED <<created, started, current, lists, tick, clock, late,
                 suspended, masked, code>>

(* PendSV_Handler: vTaskSwitchContext.                                     *)
PendSV_Handler ==
  /\ pendSV /\ ~masked /\ busy = "no"
  /\ pendSV' = FALSE
  /\ yieldPending' = (suspended # 0)
  /\ IF suspended # 0 THEN UNCHANGED <<ready, current>>
     ELSE LET p == CHOOSE p \in top : \A q \in top : q <= p
              k == NextIndex(ready[p])
          IN  /\ ready' = [ready EXCEPT ![p].index = k]
              /\ current' = ready[p].items[k]
  /\ UNCHANGED <<created, started, top, delayed, overflow, blocked, wake, time,
                 suspended, masked, busy, switch, code>>

-----------------------------------------------------------------------------
(* What the running task does.                                             *)
Runs(t, at) == started /\ current = t /\ ~pendSV /\ busy = "no" /\ pc[t] = at

Goto(t, at) == pc' = [pc EXCEPT ![t] = at]

vPortEnterCritical(t) ==
  /\ Runs(t, "run") /\ t \in Critical /\ ~masked
  /\ masked' = TRUE
  /\ UNCHANGED <<created, started, current, lists, time, suspended,
                 yieldPending, pendSV, busy, switch, code>>

vPortExitCritical(t) ==
  /\ Runs(t, "run") /\ masked
  /\ masked' = FALSE
  /\ UNCHANGED <<created, started, current, lists, time, suspended,
                 yieldPending, pendSV, busy, switch, code>>

(* A periodic task notes the time before its loop.                         *)
Periodic(t) == \E c \in Calls[t] : c.kind = "until"

xTaskGetTickCount(t) ==
  /\ Runs(t, "run") /\ ~masked /\ Periodic(t) /\ lastWake[t] = None
  /\ lastWake' = [lastWake EXCEPT ![t] = tick]
  /\ late' = [late EXCEPT ![t] = 0]
  /\ UNCHANGED <<created, started, current, lists, tick, nextUnblock, pended,
                 clock, suspended, yieldPending, cpu, busy, switch, pc, call>>

(* A sleeping call begins with vTaskSuspendAll.                            *)
vTaskSuspendAll(t) ==
  /\ Runs(t, "run") /\ ~masked
  /\ \E c \in Calls[t] :
       /\ c.kind = "until" => lastWake[t] # None /\ late[t] < MaxLate
       /\ call' = [call EXCEPT ![t] = c]
  /\ suspended' = suspended + 1
  /\ Goto(t, "place")
  /\ UNCHANGED <<created, started, current, lists, time, yieldPending, cpu,
                 busy, switch, lastWake>>

(* prvAddCurrentTaskToDelayedList: for n ticks, or without end.            *)
LeaveReadyKeepsBit(t) ==
  /\ ready' = [ready EXCEPT ![Priority[t]] = uxListRemove(@, t)]
  /\ UNCHANGED top

LeaveReady(t) ==
  LET p == Priority[t]
      l == uxListRemove(ready[p], t)
  IN  /\ ready' = [ready EXCEPT ![p] = l]
      /\ top' = IF l.items = << >> THEN top \ {p} ELSE top

TimeToWakeOneLate(n) == (tick + n + 1) % M

TimeToWake(n) == (tick + n) % M

prvAddCurrentTaskToDelayedList(t, n) ==
  LET at    == TimeToWake(n)
      value == [wake EXCEPT ![t] = at]
  IN  /\ LeaveReady(t)
      /\ wake' = value
      /\ IF at < tick
         THEN /\ overflow' = vListInsert(overflow, t, value)
              /\ UNCHANGED <<delayed, nextUnblock>>
         ELSE /\ delayed' = vListInsert(delayed, t, value)
              /\ nextUnblock' = IF at < nextUnblock THEN at ELSE nextUnblock
              /\ UNCHANGED overflow
      /\ UNCHANGED blocked

BlockForever(t) ==
  /\ LeaveReady(t)
  /\ blocked' = Append(blocked, t)
  /\ UNCHANGED <<delayed, overflow, wake, nextUnblock>>

(* xTaskDelayUntil compares times that may have wrapped.                   *)
ShouldDelayNaive(last, at) == at > tick

ShouldDelay(last, at) ==
  IF tick < last THEN at < last /\ at > tick ELSE at < last \/ at > tick

vTaskDelay(t) ==
  /\ call[t].kind = "delay"
  /\ prvAddCurrentTaskToDelayedList(t, call[t].n)
  /\ UNCHANGED <<lastWake, late>>

xTaskDelayUntil(t) ==
  LET at == (lastWake[t] + call[t].n) % M
  IN  /\ call[t].kind = "until"
      /\ lastWake' = [lastWake EXCEPT ![t] = at]
      /\ late' = [late EXCEPT ![t] = @ - call[t].n]
      /\ IF ShouldDelay(lastWake[t], at)
         THEN prvAddCurrentTaskToDelayedList(t, (at - tick) % M)
         ELSE UNCHANGED <<lists, nextUnblock>>

vTaskPlaceOnEventListRestricted(t) ==
  /\ call[t].kind = "block"
  /\ BlockForever(t)
  /\ UNCHANGED <<lastWake, late>>

PlaceTask(t) ==
  /\ Runs(t, "place")
  /\ vTaskDelay(t) \/ xTaskDelayUntil(t) \/ vTaskPlaceOnEventListRestricted(t)
  /\ Goto(t, "resume")
  /\ UNCHANGED <<created, started, current, tick, pended, clock, suspended,
                 yieldPending, cpu, busy, switch, call>>

(* xTaskResumeAll works through the ticks that came meanwhile.             *)
xTaskResumeAll(t) ==
  /\ Runs(t, "resume")
  /\ suspended' = suspended - 1
  /\ masked' = TRUE
  /\ Goto(t, "unwind")
  /\ UNCHANGED <<created, started, current, lists, time, yieldPending, pendSV,
                 busy, switch, call, lastWake>>

UnwindTick(t) ==
  /\ Runs(t, "unwind") /\ pended > 0
  /\ busy' = "resume" /\ CountTick
  /\ UNCHANGED <<created, started, current, pended, clock, suspended,
                 yieldPending, cpu, code>>

UnwindEnd(t) ==
  /\ Runs(t, "unwind") /\ pended = 0
  /\ pendSV' = yieldPending
  /\ masked' = FALSE
  /\ Goto(t, IF yieldPending THEN "run" ELSE "yield")
  /\ UNCHANGED <<created, started, current, lists, time, suspended,
                 yieldPending, busy, switch, call, lastWake>>

(* portYIELD_WITHIN_API, unless the resumption has yielded already.        *)
Yield(t) ==
  /\ Runs(t, "yield")
  /\ pendSV' = TRUE
  /\ Goto(t, "run")
  /\ UNCHANGED <<created, started, current, lists, time, suspended,
                 yieldPending, masked, busy, switch, call, lastWake>>

Finish(t) ==
  \/ PlaceTask(t) \/ xTaskResumeAll(t) \/ UnwindTick(t) \/ UnwindEnd(t)
  \/ Yield(t) \/ vPortExitCritical(t)

Next ==
  \/ xTaskCreate \/ vTaskStartScheduler
  \/ SysTick_Handler \/ WakeOne \/ EndTick \/ PendSV_Handler
  \/ \E t \in Tasks : \/ vPortEnterCritical(t) \/ xTaskGetTickCount(t)
                        \/ vTaskSuspendAll(t) \/ Finish(t)

(* Handlers and the code of the tasks go on; so does the tick; a polite    *)
(* task comes to its calls.                                                *)
Handle  == xTaskCreate \/ vTaskStartScheduler \/ WakeOne \/ EndTick \/ PendSV_Handler
Call(t) == xTaskGetTickCount(t) \/ vTaskSuspendAll(t)

Fairness ==
  /\ WF_vars(Handle)
  /\ SF_vars(SysTick_Handler)
  /\ SF_vars(\E t \in Tasks : Finish(t))
  /\ \A t \in Polite : SF_vars(Call(t))

Spec == Init /\ [][Next]_vars /\ Fairness

-----------------------------------------------------------------------------
(* Properties.                                                             *)
ListType == [items : Seq(Tasks), index : Nat]

TypeOK ==
  /\ created \in 0 .. Len(Creation) /\ started \in BOOLEAN
  /\ current \in Tasks \cup {None}
  /\ ready \in [Levels -> ListType] /\ top \subseteq Levels
  /\ \A p \in Levels : ready[p].index <= Len(ready[p].items)
  /\ {delayed, overflow, blocked} \subseteq Seq(Tasks)
  /\ wake \in [Tasks -> 0 .. MaxTick] /\ {tick, nextUnblock, clock} \subseteq 0 .. MaxTick
  /\ pended \in 0 .. MaxPended /\ suspended \in 0 .. 1
  /\ {yieldPending, pendSV, masked, switch} \subseteq BOOLEAN
  /\ busy \in {"no", "isr", "resume"}
  /\ pc \in [Tasks -> {"run", "place", "resume", "unwind", "yield"}]
  /\ call \in [Tasks -> CallSet \cup {None}]
  /\ lastWake \in [Tasks -> 0 .. MaxTick \cup {None}]
  /\ late \in [Tasks -> -MaxTick .. MaxLate]

Exists(t)  == \E i \in 1 .. created : Creation[i] = t
Asleep(t)  == t \in Members(delayed) \cup Members(overflow)
Waiting    == delayed \o overflow \o blocked
Remaining(t) == (wake[t] - tick) % M

(* A task that exists is in exactly one of the kernel's lists, once, and   *)
(* uxTopReadyPriority has the bits of the ready lists that are not empty:  *)
(* no sleep, wake or change of lists at the tick's overflow loses a task.  *)
ListsAgree ==
  /\ top = {p \in Levels : ready[p].items # << >>}
  /\ \A t \in Tasks :
       LET p == Priority[t]
           n == Cardinality({i \in DOMAIN ready[p].items : ready[p].items[i] = t})
                + Cardinality({i \in DOMAIN Waiting : Waiting[i] = t})
       IN  n = IF Exists(t) THEN 1 ELSE 0

(* The sleepers of the current list end after now and those of the         *)
(* overflow list before it, each list is in the order of its ends, and     *)
(* xNextTaskUnblockTime is not behind the first of them: a tick that skips *)
(* the loop skips nobody, at the overflow of the count too.                *)
SleepersInOrder ==
  busy = "no" =>
    /\ \A s \in {delayed, overflow} : \A i, j \in DOMAIN s :
         i < j => wake[s[i]] <= wake[s[j]]
    /\ \A t \in Members(delayed) : wake[t] > tick
    /\ \A t \in Members(overflow) : wake[t] < tick
    /\ delayed # << >> => nextUnblock \in tick + 1 .. wake[Head(delayed)]

(* With no switch under way the task that runs outranks every ready one:   *)
(* a preemption asked for by a tick, by a tick counted late or during a    *)
(* suspension is not lost.                                                 *)
HighestRuns ==
  (started /\ ~pendSV /\ busy = "no" /\ suspended = 0 /\ pc[current] = "run") =>
    /\ Priority[current] \in top
    /\ \A p \in top : p <= Priority[current]

(* No task is lost between the lists, no sleeper hidden behind another, no *)
(* preemption forgotten: all of the above, which rest on one another.      *)
ListsSound == TypeOK /\ ListsAgree /\ SleepersInOrder /\ HighestRuns

(* Every tick interrupt is counted, once, in xTickCount or in              *)
(* xPendedTicks; one that is being worked off is in both for a while.      *)
NoTickLost ==
  clock = (tick + pended - (IF busy = "resume" THEN 1 ELSE 0)) % M

(* A periodic task sleeps exactly up to the next multiple of its period,   *)
(* over the overflow of the tick count as well, and not at all when that   *)
(* time has passed: lateness does not add up.                              *)
PeriodKept ==
  \A t \in Tasks : lastWake[t] # None =>
    /\ late[t] < MaxLate => (tick - lastWake[t] - late[t]) % M = 0
    /\ (Asleep(t) /\ call[t].kind = "until") => Remaining(t) = -late[t]
    /\ (pc[t] = "run" /\ Exists(t) /\ ~pendSV /\ busy = "no" /\ current = t) => late[t] >= 0

(* No tick is lost and no period drifts, over every overflow of the count  *)
(* and through every suspension of the scheduler.                          *)
TimeKept == NoTickLost /\ PeriodKept

(* What the application sees of the kernel.                                *)
left == [t \in Tasks |-> IF Asleep(t) THEN Remaining(t)
                         ELSE IF t \in Members(blocked) THEN M ELSE 0]
running == IF started THEN current ELSE None
request == [t \in Tasks |-> IF pc[t] = "place" THEN call[t] ELSE None]
behind  == [t \in Tasks |-> IF lastWake[t] = None THEN None ELSE late[t]]

S == INSTANCE Scheduler WITH Horizon <- M

(* The kernel is a scheduler in that sense: a vTaskDelay(n) sleeps through *)
(* n ticks, an xTaskDelayUntil through what its period has left, and only  *)
(* the highest of those awake is dispatched.                               *)
ImplementsScheduler == S!SchedulerSpec

(* Tasks of one priority share the processor: one that stays ready, at a   *)
(* level that goes on running, runs again and again, whatever its equals   *)
(* do and whether they ever sleep or not.                                  *)
InReady(t) == t \in Members(ready[Priority[t]].items)

EqualsShare ==
  \A t \in Tasks :
    (<>[]InReady(t) /\ []<>(started /\ Priority[current] = Priority[t]))
      => []<>(current = t)

(* A task that always comes back to a sleeping call is woken and run again *)
(* and again, as long as those above it leave the processor: no sleep of   *)
(* theirs, no overflow of the count and no pended tick leaves it asleep.   *)
Leaves(t) == started /\ current # None /\ Priority[current] < Priority[t]

EverySleeperWakes ==
  \A t \in Polite :
    (\A u \in Polite : Priority[u] > Priority[t] => []<>Leaves(u))
      => []<>(started /\ current = t)

(* Nobody starves: equals share the processor and sleepers come back.      *)
NobodyStarves == EqualsShare /\ EverySleeperWakes
=============================================================================
