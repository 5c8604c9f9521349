----------------------------- MODULE KernelMutex -----------------------------
(***************************************************************************)
(* Mutexes of the kernel (FreeRTOS/queue.c, tasks.c), which the locks of    *)
(* the driver and of the MQTT library are: whoever holds one inherits the   *)
(* priority of the tasks that wait for it.  The processor goes to a ready   *)
(* task of the highest priority.  While the scheduler is suspended nothing  *)
(* else touches a mutex, so that what a task does then is one step.         *)
(***************************************************************************)
EXTENDS Integers, Sequences, FiniteSets

CONSTANTS
    Users,          \* tasks
    NoUser,
    Mutexes,        \* numbers: a task takes them in increasing order
    BasePriority,   \* of each task
    Uses,           \* how mutexes are used, one choice per behaviour: for how long
                    \* the calls wait, and whether a task takes one with another held
    MaxTakes        \* bound on the calls

ASSUME KernelMutexAssumption ==
    /\ NoUser \notin Users /\ Mutexes \subseteq Nat /\ IsFiniteSet(Mutexes) /\ MaxTakes \in Nat
    /\ BasePriority \in [Users -> Nat \ {0}]
    /\ Uses \subseteq [waits : SUBSET {"none", "finite", "forever"}, nested : BOOLEAN]

VARIABLES
    use,
    xMutexHolder,             \* per mutex; NoUser when it can be taken
    xWaitingForMutex,         \* per mutex: xTasksWaitingToReceive
    uxPriority,               \* per task
    userAt,                   \* per task: in which part of xQueueSemaphoreTake
    wants, xTicksToWait,      \* per task: the arguments of its call
    timedOut,                 \* per task: its time is over
    xInheritanceOccurred,     \* per task
    takes

takeVars == <<wants, xTicksToWait, timedOut, xInheritanceOccurred>>
mutexVars == <<use, xMutexHolder, xWaitingForMutex, uxPriority, userAt, takeVars, takes>>

NoMutex == 0

MutexInit ==
    /\ use \in Uses
    /\ xMutexHolder = [m \in Mutexes |-> NoUser] /\ xWaitingForMutex = [m \in Mutexes |-> <<>>]
    /\ uxPriority = BasePriority /\ userAt = [t \in Users |-> "asleep"]
    /\ wants = [t \in Users |-> NoMutex] /\ xTicksToWait = [t \in Users |-> "none"]
    /\ timedOut = [t \in Users |-> FALSE] /\ xInheritanceOccurred = [t \in Users |-> FALSE]
    /\ takes = 0

Held(t) == {m \in Mutexes : xMutexHolder[m] = t}
uxMutexesHeld(t) == Cardinality(Held(t))
Free(m) == xMutexHolder[m] = NoUser

WaitsFor(t, m) == \E i \in DOMAIN xWaitingForMutex[m] : xWaitingForMutex[m][i] = t
Waits(t) == \E m \in Mutexes : WaitsFor(t, m)

\* A task that has failed an assertion loops for ever, at its priority.
Ready(t) == userAt[t] # "asleep" /\ ~Waits(t)
Running(t) == Ready(t) /\ \A u \in Users : Ready(u) => uxPriority[u] <= uxPriority[t]
UserGoes(t, from, to) == Running(t) /\ userAt[t] = from /\ userAt' = [userAt EXCEPT ![t] = to]

-----------------------------------------------------------------------------
(* Priorities.                                                             *)

\* xTaskPriorityInherit: what t, about to wait, does to the holder.
PriorityInherit(t, holder) ==
    /\ uxPriority' = [uxPriority EXCEPT ![holder] = IF @ < uxPriority[t] THEN uxPriority[t] ELSE @]
    /\ xInheritanceOccurred' = [xInheritanceOccurred EXCEPT ![t] =
           uxPriority[holder] < uxPriority[t] \/ BasePriority[holder] < uxPriority[t]]

\* xTaskPriorityDisinherit: only with the last mutex.
PriorityDisinherit(t) ==
    uxPriority' = IF uxMutexesHeld(t) = 1 THEN [uxPriority EXCEPT ![t] = BasePriority[t]] ELSE uxPriority

\* prvGetDisinheritPriorityAfterTimeout: the first of the list, which was in
\* order of priority when it was filled.
GetDisinheritPriorityAfterTimeout(m) ==
    IF xWaitingForMutex[m] = <<>> THEN 0 ELSE uxPriority[Head(xWaitingForMutex[m])]

\* Faulty variant: whoever else waits is forgotten.
PriorityDisinheritToBase(holder, highest) ==
    uxPriority' = IF holder # NoUser /\ uxMutexesHeld(holder) = 1
                  THEN [uxPriority EXCEPT ![holder] = BasePriority[holder]]
                  ELSE uxPriority

\* vTaskPriorityDisinheritAfterTimeout
PriorityDisinheritAfterTimeout(holder, highest) ==
    LET base == BasePriority[holder]
    IN  uxPriority' = IF holder # NoUser /\ uxMutexesHeld(holder) = 1
                      THEN [uxPriority EXCEPT ![holder] = IF base < highest THEN highest ELSE base]
                      ELSE uxPriority

\* vListInsert: in front of the first of a lower priority.
InsertedByPriority(list, t) ==
    LET n == Cardinality({i \in DOMAIN list :
                 \A j \in 1..i : uxPriority[list[j]] >= uxPriority[t]})
    IN  SubSeq(list, 1, n) \o <<t>> \o SubSeq(list, n + 1, Len(list))

-----------------------------------------------------------------------------
(* xQueueSemaphoreTake.                                                    *)

Take(t, m, wait) ==
    /\ UserGoes(t, "runs", "try") /\ takes < MaxTakes /\ takes' = takes + 1
    /\ wait \in use.waits /\ \A h \in Held(t) : use.nested /\ h < m
    /\ wants' = [wants EXCEPT ![t] = m] /\ xTicksToWait' = [xTicksToWait EXCEPT ![t] = wait]
    /\ UNCHANGED <<use, xMutexHolder, xWaitingForMutex, uxPriority, timedOut, xInheritanceOccurred>>

\* The locals of a call end with it.
TakeReturns(t, from) ==
    /\ UserGoes(t, from, "runs")
    /\ wants' = [wants EXCEPT ![t] = NoMutex] /\ xTicksToWait' = [xTicksToWait EXCEPT ![t] = "none"]
    /\ timedOut' = [timedOut EXCEPT ![t] = FALSE]
    /\ xInheritanceOccurred' = [xInheritanceOccurred EXCEPT ![t] = FALSE]

TakesIt(t) ==
    /\ TakeReturns(t, "try") /\ Free(wants[t])
    /\ xMutexHolder' = [xMutexHolder EXCEPT ![wants[t]] = t]
    /\ UNCHANGED <<use, xWaitingForMutex, uxPriority, takes>>

\* No time left, or none given; with the assertion of line 1505.
Refused(t) ==
    /\ userAt[t] = "try" /\ ~Free(wants[t]) /\ xTicksToWait[t] = "none"
    /\ IF xInheritanceOccurred[t]
       THEN UserGoes(t, "try", "asserted") /\ UNCHANGED takeVars
       ELSE TakeReturns(t, "try")
    /\ UNCHANGED <<use, xMutexHolder, xWaitingForMutex, uxPriority, takes>>

\* The end of the critical section: others may run before the scheduler is
\* suspended.
MustWait(t) ==
    /\ UserGoes(t, "try", "block") /\ ~Free(wants[t]) /\ xTicksToWait[t] # "none"
    /\ UNCHANGED <<use, xMutexHolder, xWaitingForMutex, uxPriority, takeVars, takes>>

\* xTaskCheckForTimeOut: the time is over.
TimesOut(t) ==
    /\ xTicksToWait[t] = "finite" /\ UserGoes(t, "block", "late")
    /\ xTicksToWait' = [xTicksToWait EXCEPT ![t] = "none"]
    /\ UNCHANGED <<use, xMutexHolder, xWaitingForMutex, uxPriority, wants, timedOut,
                   xInheritanceOccurred, takes>>

\* Otherwise the task waits, or tries again.
Block(t) ==
    /\ ~timedOut[t] /\ UserGoes(t, "block", "try")
    /\ IF Free(wants[t])
       THEN UNCHANGED <<xWaitingForMutex, uxPriority, xInheritanceOccurred>>
       ELSE /\ PriorityInherit(t, xMutexHolder[wants[t]])
            /\ xWaitingForMutex' = [xWaitingForMutex EXCEPT ![wants[t]] = InsertedByPriority(@, t)]
    /\ UNCHANGED <<use, xMutexHolder, wants, xTicksToWait, timedOut, takes>>

\* prvIsQueueEmpty after the time is over: fail, or try once more.
Late(t) ==
    /\ userAt[t] = "late"
    /\ \/ Free(wants[t]) /\ UserGoes(t, "late", "try") /\ UNCHANGED takeVars
       \/ ~Free(wants[t]) /\ xInheritanceOccurred[t] /\ UserGoes(t, "late", "disinherit")
              /\ UNCHANGED takeVars
       \/ ~Free(wants[t]) /\ ~xInheritanceOccurred[t] /\ TakeReturns(t, "late")
    /\ UNCHANGED <<use, xMutexHolder, xWaitingForMutex, uxPriority, takes>>

Disinherit(t) ==
    /\ TakeReturns(t, "disinherit")
    /\ PriorityDisinheritAfterTimeout(xMutexHolder[wants[t]], GetDisinheritPriorityAfterTimeout(wants[t]))
    /\ UNCHANGED <<use, xMutexHolder, xWaitingForMutex, takes>>

-----------------------------------------------------------------------------
\* xQueueGenericSend of a mutex: the first task on the list is woken.
Give(t, m) ==
    /\ UserGoes(t, "runs", "runs") /\ m \in Held(t)
    /\ PriorityDisinherit(t)
    /\ xMutexHolder' = [xMutexHolder EXCEPT ![m] = NoUser]
    /\ xWaitingForMutex' = [xWaitingForMutex EXCEPT ![m] = IF @ = <<>> THEN @ ELSE Tail(@)]
    /\ UNCHANGED <<use, takeVars, takes>>

\* A task waits for something else, with its mutexes held, and goes on.
Sleeps(t) ==
    /\ UserGoes(t, "runs", "asleep")
    /\ UNCHANGED <<use, xMutexHolder, xWaitingForMutex, uxPriority, takeVars, takes>>

WakesUp(t) ==
    /\ userAt[t] = "asleep" /\ userAt' = [userAt EXCEPT ![t] = "runs"]
    /\ UNCHANGED <<use, xMutexHolder, xWaitingForMutex, uxPriority, takeVars, takes>>

\* uxListRemove: a task is on a list once.
TakenOff(list, t) == LET k == CHOOSE i \in DOMAIN list : list[i] = t
                     IN  SubSeq(list, 1, k - 1) \o SubSeq(list, k + 1, Len(list))

\* xTaskIncrementTick takes a task whose time has come off its list.
TickTakesOff(t) ==
    /\ Waits(t) /\ xTicksToWait[t] = "finite" /\ timedOut' = [timedOut EXCEPT ![t] = TRUE]
    /\ xWaitingForMutex' = [xWaitingForMutex EXCEPT ![wants[t]] = TakenOff(@, t)]
    /\ UNCHANGED <<use, xMutexHolder, uxPriority, userAt, wants, xTicksToWait, xInheritanceOccurred, takes>>

SemaphoreTake(t) == \/ TakesIt(t) \/ Refused(t) \/ MustWait(t) \/ TimesOut(t) \/ Block(t)
                    \/ Late(t) \/ Disinherit(t)

MutexNext == \E t \in Users :
    \/ SemaphoreTake(t) \/ Sleeps(t) \/ WakesUp(t) \/ TickTakesOff(t)
    \/ \E m \in Mutexes : Give(t, m) \/ \E w \in use.waits : Take(t, m, w)

MutexSpec == MutexInit /\ [][MutexNext]_mutexVars

-----------------------------------------------------------------------------
(* What must hold.                                                         *)

\* The type of every variable.
MutexTypeOK ==
    /\ use \in Uses /\ xMutexHolder \in [Mutexes -> Users \cup {NoUser}]
    /\ xWaitingForMutex \in [Mutexes -> Seq(Users)] /\ uxPriority \in [Users -> Nat \ {0}]
    /\ userAt \in [Users -> {"asleep", "runs", "try", "block", "late", "disinherit", "asserted"}]
    /\ wants \in [Users -> Mutexes \cup {NoMutex}]
    /\ xTicksToWait \in [Users -> {"none", "finite", "forever"}]
    /\ timedOut \in [Users -> BOOLEAN] /\ xInheritanceOccurred \in [Users -> BOOLEAN]
    /\ takes \in 0..MaxTakes

\* A task that holds mutexes has at least the priority of every task that waits
\* for one of them, although waiting tasks come, time out and take over in any
\* order, and a task that holds none has its own.
InheritanceHolds ==
    /\ \A m \in Mutexes, t \in Users :
           ~Free(m) /\ WaitsFor(t, m) => uxPriority[xMutexHolder[m]] >= BasePriority[t]
    /\ \A t \in Users : Held(t) = {} => uxPriority[t] = BasePriority[t]

\* The assertion of xQueueSemaphoreTake: no call that made another task inherit
\* comes to its test for time left with none.
TimeLeftAfterInheritance == \A t \in Users : userAt[t] # "asserted"
=============================================================================
