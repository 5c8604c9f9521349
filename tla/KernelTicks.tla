----------------------------- MODULE KernelTicks -----------------------------
(***************************************************************************)
(* Time in the kernel (FreeRTOS/tasks.c): vTaskDelay, and waits for an      *)
(* event with a time-out, over a counter of ticks that wraps.  Tasks asleep *)
(* are on two lists, one for wake times of this round of the counter and    *)
(* one for the next; a tick that finds the scheduler suspended is only      *)
(* counted, and so is a task that an event wakes then.                      *)
(***************************************************************************)
EXTENDS Integers, Sequences

CONSTANTS
    Sleepers,    \* tasks
    NoSleeper,
    TickWord,    \* the counter of ticks is kept modulo TickWord, 2^32 in the code
    MaxTicks,    \* bound on the ticks
    MaxAsks      \* bound on the calls

ASSUME KernelTicksAssumption == TickWord \in Nat \ {0, 1} /\ {MaxTicks, MaxAsks} \subseteq Nat /\ NoSleeper \notin Sleepers

VARIABLES
    xTickCount, xNumOfOverflows, uxPendedTicks, xNextTaskUnblockTime,
    uxSchedulerSuspended,     \* the task that has suspended the scheduler
    pxDelayedTaskList, pxOverflowDelayedTaskList, xSuspendedTaskList, xPendingReadyList,
    wakeTime,                 \* per task: the value of its list item
    awaited,                  \* tasks on the list of an event
    sleepPc, asks,            \* per task: where it is; "delay" or "wait"
    ticksToWait, timeOut,     \* per task: what is left, and since when
    sleeps,
    asked, waited             \* history: ticks asked for, how many of them have passed

clockVars == <<xTickCount, xNumOfOverflows, uxPendedTicks, xNextTaskUnblockTime>>
delayLists == <<pxDelayedTaskList, pxOverflowDelayedTaskList, xSuspendedTaskList, wakeTime>>
timeVars == <<ticksToWait, timeOut>>
askVars == <<asks, asked, waited, sleeps>>
tickVars == <<clockVars, uxSchedulerSuspended, delayLists, xPendingReadyList, awaited, sleepPc,
              timeVars, askVars>>

portMAX_DELAY == TickWord - 1
Now == [xOverflowCount |-> xNumOfOverflows, xTimeOnEntering |-> xTickCount]
NoTime == [xOverflowCount |-> 0, xTimeOnEntering |-> 0]
OnDelay(list, t) == \E i \in DOMAIN list : list[i] = t

\* The list without the tasks that are gone.
Off(list, gone) ==
    LET kept[n \in 0..Len(list)] == IF n = 0 THEN <<>>
                                    ELSE IF list[n] \in gone THEN kept[n - 1]
                                    ELSE Append(kept[n - 1], list[n])
    IN  kept[Len(list)]

TicksInit ==
    /\ xTickCount = 0 /\ xNumOfOverflows = 0 /\ uxPendedTicks = 0
    /\ xNextTaskUnblockTime = portMAX_DELAY /\ uxSchedulerSuspended = NoSleeper
    /\ pxDelayedTaskList = <<>> /\ pxOverflowDelayedTaskList = <<>> /\ xSuspendedTaskList = {}
    /\ xPendingReadyList = {} /\ wakeTime = [t \in Sleepers |-> 0] /\ awaited = {}
    /\ sleepPc = [t \in Sleepers |-> "runs"] /\ asks = [t \in Sleepers |-> "delay"]
    /\ ticksToWait = [t \in Sleepers |-> 0] /\ timeOut = [t \in Sleepers |-> NoTime]
    /\ asked = [t \in Sleepers |-> 0] /\ waited = [t \in Sleepers |-> 0] /\ sleeps = 0

-----------------------------------------------------------------------------
(* xTaskIncrementTick, applied to the state s of the lists and the counter. *)

\* The tasks at the head of the list whose time has come.
Woken(s) == {s.list[i] : i \in {k \in DOMAIN s.list : \A j \in 1..k : s.now >= wakeTime[s.list[j]]}}

HeadTime(list) == IF list = <<>> THEN portMAX_DELAY ELSE wakeTime[Head(list)]

\* taskSWITCH_DELAYED_LISTS
Switched(s) == [s EXCEPT !.list = s.overflow, !.overflow = s.list, !.rounds = @ + 1,
                         !.next = HeadTime(s.overflow)]

Advanced(s) ==
    LET plus == [s EXCEPT !.now = (@ + 1) % TickWord]
        turned == IF plus.now = 0 THEN Switched(plus) ELSE plus
        left == Off(turned.list, Woken(turned))
    IN  IF turned.now >= turned.next
        THEN [turned EXCEPT !.list = left, !.next = HeadTime(left), !.woken = @ \cup Woken(turned)]
        ELSE turned

\* The effect of n ticks on lists from which the tasks "gone" were taken before.
Tick(n, gone, next) ==
    LET before == [now |-> xTickCount, rounds |-> xNumOfOverflows, next |-> next,
                   list |-> Off(pxDelayedTaskList, gone),
                   overflow |-> Off(pxOverflowDelayedTaskList, gone), woken |-> {}]
        ticked[i \in 0..n] == IF i = 0 THEN before ELSE Advanced(ticked[i - 1])
        s == ticked[n]
    IN  /\ xTickCount' = s.now /\ xNumOfOverflows' = s.rounds /\ xNextTaskUnblockTime' = s.next
        /\ pxDelayedTaskList' = s.list /\ pxOverflowDelayedTaskList' = s.overflow
        /\ awaited' = awaited \ (s.woken \cup gone)
        /\ xSuspendedTaskList' = xSuspendedTaskList \ gone /\ UNCHANGED wakeTime

Elapses == /\ \E t \in Sleepers : sleepPc[t] # "runs"
           /\ xNumOfOverflows * TickWord + xTickCount + uxPendedTicks < MaxTicks
           /\ waited' = [t \in Sleepers |-> IF waited[t] < asked[t] THEN waited[t] + 1 ELSE waited[t]]

\* The interrupt of the clock.
xTaskIncrementTick ==
    /\ Elapses /\ UNCHANGED <<uxSchedulerSuspended, xPendingReadyList, sleepPc, timeVars, asks, asked, sleeps>>
    /\ IF uxSchedulerSuspended = NoSleeper
       THEN Tick(1, {}, xNextTaskUnblockTime) /\ UNCHANGED uxPendedTicks
       ELSE uxPendedTicks' = uxPendedTicks + 1
            /\ UNCHANGED <<xTickCount, xNumOfOverflows, xNextTaskUnblockTime, delayLists, awaited>>

\* xTaskRemoveFromEventList, called by an interrupt handler or by another task.
RemoveFromEventList(t) ==
    /\ t \in awaited /\ awaited' = awaited \ {t}
    /\ IF uxSchedulerSuspended = NoSleeper
       THEN /\ pxDelayedTaskList' = Off(pxDelayedTaskList, {t})
            /\ pxOverflowDelayedTaskList' = Off(pxOverflowDelayedTaskList, {t})
            /\ xSuspendedTaskList' = xSuspendedTaskList \ {t} /\ UNCHANGED <<xPendingReadyList, wakeTime>>
       ELSE xPendingReadyList' = xPendingReadyList \cup {t} /\ UNCHANGED delayLists
    /\ UNCHANGED <<clockVars, uxSchedulerSuspended, sleepPc, timeVars, askVars>>

-----------------------------------------------------------------------------
(* A task.                                                                 *)

Awake(t) == /\ uxSchedulerSuspended \in {NoSleeper, t} /\ t \notin xSuspendedTaskList
            /\ ~OnDelay(pxDelayedTaskList \o pxOverflowDelayedTaskList, t)
SleepTo(t, from, to) == Awake(t) /\ sleepPc[t] = from /\ sleepPc' = [sleepPc EXCEPT ![t] = to]

\* vTaskDelay suspends the scheduler at once; a wait first notes the time
\* (vTaskInternalSetTimeOutState), and suspends the scheduler later.
Ask(t) ==
    \E n \in 1..portMAX_DELAY, what \in {"delay", "wait"} :
        /\ uxSchedulerSuspended = NoSleeper /\ sleeps < MaxAsks /\ sleeps' = sleeps + 1
        /\ SleepTo(t, "runs", IF what = "delay" THEN "add" ELSE "noted")
        /\ uxSchedulerSuspended' = IF what = "delay" THEN t ELSE NoSleeper
        /\ asks' = [asks EXCEPT ![t] = what] /\ ticksToWait' = [ticksToWait EXCEPT ![t] = n]
        /\ asked' = [asked EXCEPT ![t] = n] /\ waited' = [waited EXCEPT ![t] = 0]
        /\ timeOut' = [timeOut EXCEPT ![t] = IF what = "wait" THEN Now ELSE @]
        /\ UNCHANGED <<clockVars, delayLists, xPendingReadyList, awaited>>

SuspendAll(t) ==
    /\ uxSchedulerSuspended = NoSleeper /\ SleepTo(t, "noted", "check") /\ uxSchedulerSuspended' = t
    /\ UNCHANGED <<clockVars, delayLists, xPendingReadyList, awaited, timeVars, askVars>>

Elapsed(t) == (xTickCount - timeOut[t].xTimeOnEntering + TickWord) % TickWord
WrappedPast(t) == /\ xNumOfOverflows # timeOut[t].xOverflowCount
                  /\ xTickCount >= timeOut[t].xTimeOnEntering

\* Faulty variant: what has elapsed is taken off, and counted again next time.
CheckForTimeOutStale(t) ==
    IF ticksToWait[t] = portMAX_DELAY
    THEN SleepTo(t, "check", "add") /\ UNCHANGED timeVars
    ELSE IF ~WrappedPast(t) /\ Elapsed(t) < ticksToWait[t]
    THEN /\ SleepTo(t, "check", "add") /\ UNCHANGED timeOut
         /\ ticksToWait' = [ticksToWait EXCEPT ![t] = @ - Elapsed(t)]
    ELSE SleepTo(t, "check", "late") /\ UNCHANGED timeVars

\* xTaskCheckForTimeOut
CheckForTimeOut(t) ==
    IF ticksToWait[t] = portMAX_DELAY
    THEN SleepTo(t, "check", "add") /\ UNCHANGED timeVars
    ELSE IF ~WrappedPast(t) /\ Elapsed(t) < ticksToWait[t]
    THEN /\ SleepTo(t, "check", "add") /\ timeOut' = [timeOut EXCEPT ![t] = Now]
         /\ ticksToWait' = [ticksToWait EXCEPT ![t] = @ - Elapsed(t)]
    ELSE SleepTo(t, "check", "late") /\ UNCHANGED timeVars

CheckWait(t) ==
    /\ CheckForTimeOut(t)
    /\ UNCHANGED <<clockVars, uxSchedulerSuspended, delayLists, xPendingReadyList, awaited, askVars>>

\* vListInsert: before the first whose time is later.
Inserted(list, t, time) ==
    LET n == CHOOSE k \in 0..Len(list) : /\ \A j \in 1..k : wakeTime[list[j]] <= time
                                         /\ k < Len(list) => wakeTime[list[k + 1]] > time
    IN  SubSeq(list, 1, n) \o <<t>> \o SubSeq(list, n + 1, Len(list))

\* prvAddCurrentTaskToDelayedList, when the wait is not for ever.
AddToDelayedList(t, time) ==
    IF time < xTickCount
    THEN /\ pxOverflowDelayedTaskList' = Inserted(pxOverflowDelayedTaskList, t, time)
         /\ UNCHANGED <<pxDelayedTaskList, xNextTaskUnblockTime>>
    ELSE /\ pxDelayedTaskList' = Inserted(pxDelayedTaskList, t, time)
         /\ xNextTaskUnblockTime' = IF time < xNextTaskUnblockTime THEN time ELSE xNextTaskUnblockTime
         /\ UNCHANGED pxOverflowDelayedTaskList

\* The same, and vTaskPlaceOnEventList for a wait.
Add(t) ==
    /\ SleepTo(t, "add", "resume")
    /\ IF asks[t] = "wait" /\ ticksToWait[t] = portMAX_DELAY
       THEN /\ xSuspendedTaskList' = xSuspendedTaskList \cup {t}
            /\ UNCHANGED <<wakeTime, pxDelayedTaskList, pxOverflowDelayedTaskList, xNextTaskUnblockTime>>
       ELSE LET time == (xTickCount + ticksToWait[t]) % TickWord IN
            /\ wakeTime' = [wakeTime EXCEPT ![t] = time] /\ AddToDelayedList(t, time)
            /\ UNCHANGED xSuspendedTaskList
    /\ awaited' = IF asks[t] = "wait" THEN awaited \cup {t} ELSE awaited
    /\ UNCHANGED <<xTickCount, xNumOfOverflows, uxPendedTicks, uxSchedulerSuspended, xPendingReadyList, timeVars, askVars>>

\* Faulty variant: the ticks that were pended are one tick.
PendedOnce == IF uxPendedTicks > 0 THEN 1 ELSE 0

Pended == uxPendedTicks

\* xTaskResumeAll: first the tasks that events woke, then the ticks.
ResumeAll(t) ==
    /\ uxSchedulerSuspended = t /\ sleepPc[t] \in {"resume", "late"}
    /\ uxSchedulerSuspended' = NoSleeper /\ xPendingReadyList' = {} /\ uxPendedTicks' = 0
    /\ Tick(Pended, xPendingReadyList, IF xPendingReadyList = {} THEN xNextTaskUnblockTime
                                       ELSE HeadTime(Off(pxDelayedTaskList, xPendingReadyList)))
    /\ sleepPc' = [sleepPc EXCEPT ![t] = IF @ = "late" THEN "timed out" ELSE "asleep"]
    /\ UNCHANGED <<timeVars, askVars>>

\* The task is awake: a delay is over; a wait has what it waited for, or goes
\* round again because somebody else took it.
Returns(t, from) ==
    /\ uxSchedulerSuspended = NoSleeper /\ SleepTo(t, from, "runs")
    /\ asked' = [asked EXCEPT ![t] = 0] /\ waited' = [waited EXCEPT ![t] = 0]
    /\ ticksToWait' = [ticksToWait EXCEPT ![t] = 0] /\ asks' = [asks EXCEPT ![t] = "delay"]
    /\ timeOut' = [timeOut EXCEPT ![t] = NoTime]
    /\ UNCHANGED <<clockVars, uxSchedulerSuspended, delayLists, xPendingReadyList, awaited, sleeps>>

Again(t) ==
    /\ asks[t] = "wait" /\ uxSchedulerSuspended = NoSleeper /\ SleepTo(t, "asleep", "noted")
    /\ UNCHANGED <<clockVars, uxSchedulerSuspended, delayLists, xPendingReadyList, awaited, timeVars, askVars>>

TicksNext ==
    \/ xTaskIncrementTick
    \/ \E t \in Sleepers : \/ RemoveFromEventList(t) \/ Ask(t) \/ SuspendAll(t) \/ CheckWait(t) \/ Add(t)
                           \/ ResumeAll(t) \/ Returns(t, "asleep") \/ Returns(t, "timed out") \/ Again(t)

TicksSpec == TicksInit /\ [][TicksNext]_tickVars

-----------------------------------------------------------------------------
(* What must hold.                                                         *)

\* The type of every variable.
TicksTypeOK ==
    /\ xTickCount \in 0..TickWord - 1 /\ xNextTaskUnblockTime \in 0..TickWord - 1
    /\ uxPendedTicks \in 0..MaxTicks /\ xNumOfOverflows \in 0..MaxTicks
    /\ uxSchedulerSuspended \in Sleepers \cup {NoSleeper}
    /\ {xSuspendedTaskList, xPendingReadyList, awaited} \subseteq SUBSET Sleepers
    /\ pxDelayedTaskList \in Seq(Sleepers) /\ pxOverflowDelayedTaskList \in Seq(Sleepers)
    /\ \A t \in Sleepers : wakeTime[t] \in 0..TickWord - 1 /\ ticksToWait[t] \in 0..TickWord - 1
    /\ sleepPc \in [Sleepers -> {"runs", "noted", "check", "add", "resume", "late", "asleep", "timed out"}]
    /\ sleeps \in 0..MaxAsks

\* A delay and a time-out last at least what was asked for, in however many
\* rounds and across whatever wraps and suspensions.
NotEarly ==
    [][\A t \in Sleepers :
           /\ sleepPc[t] # "runs" /\ sleepPc'[t] = "runs"
           /\ sleepPc[t] = "timed out" \/ asks[t] = "delay"
           => waited[t] >= asked[t]]_tickVars

\* And no longer: whoever is still asleep has not been for that long.
NotLate ==
    uxSchedulerSuspended = NoSleeper =>
        \A t \in Sleepers : OnDelay(pxDelayedTaskList \o pxOverflowDelayedTaskList, t) => waited[t] < asked[t]

=============================================================================
