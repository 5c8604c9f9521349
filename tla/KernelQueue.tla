----------------------------- MODULE KernelQueue -----------------------------
(***************************************************************************)
(* A queue of the kernel (FreeRTOS/queue.c): the calls of tasks, which may  *)
(* block, and of interrupt handlers, which do not.  A task that is about to *)
(* block suspends the scheduler and locks the queue; handlers then count    *)
(* what they move instead of waking anybody, and prvUnlockQueue makes up    *)
(* for it.  A semaphore is a queue whose items do not matter.  A step of a  *)
(* task is one critical section; handlers run between any two.             *)
(***************************************************************************)
EXTENDS Integers, Sequences, FiniteSets

CONSTANTS
    Tasks, Items, None,
    Priority,       \* of each task
    Lengths,        \* the lengths a queue is created with
    Waits,          \* how long the calls wait: "none", "finite", "forever"
    MaxCalls,       \* bound on the calls of tasks
    MaxIsrs         \* bound on the calls of interrupt handlers, per place of the queue

ASSUME KernelQueueAssumption ==
    /\ Lengths \subseteq Nat \ {0} /\ Items # {}
    /\ IsFiniteSet(Tasks) /\ None \notin Tasks
    /\ Waits \subseteq {"none", "finite", "forever"}
    /\ Priority \in [Tasks -> Nat] /\ MaxCalls \in Nat /\ MaxIsrs \in Nat

VARIABLES
    uxLength, ring, pcWriteTo, pcReadFrom, uxMessagesWaiting,
    cTxLock, cRxLock,
    xTasksWaitingToSend, xTasksWaitingToReceive,
    suspended,              \* the task that has suspended the scheduler
    pc, op, item, wait,     \* per task: its call, what it sends, how long it waits
    expired,                \* per task: its time is over
    got, result,            \* per task: what it received, what the call returned
    calls, isrs

storage == <<ring, pcWriteTo, pcReadFrom, uxMessagesWaiting>>
lists == <<xTasksWaitingToSend, xTasksWaitingToReceive>>
locks == <<cTxLock, cRxLock>>
callVars == <<op, item, wait, expired>>
ends == <<got, result>>
vars == <<uxLength, storage, lists, locks, suspended, pc, callVars, ends, calls, isrs>>

queueUNLOCKED == -1
queueLOCKED_UNMODIFIED == 0
SomeItem == CHOOSE i \in Items : TRUE
IsrCalls == MaxIsrs * uxLength   \* bound on the calls of interrupt handlers

\* xQueueGenericReset of a new queue
Init ==
    /\ uxLength \in Lengths /\ ring = [i \in 0..uxLength - 1 |-> SomeItem]
    /\ uxMessagesWaiting = 0 /\ pcWriteTo = 0 /\ pcReadFrom = uxLength - 1
    /\ cTxLock = queueUNLOCKED /\ cRxLock = queueUNLOCKED
    /\ xTasksWaitingToSend = <<>> /\ xTasksWaitingToReceive = <<>> /\ suspended = None
    /\ pc = [t \in Tasks |-> "idle"] /\ op = [t \in Tasks |-> "send"]
    /\ item = [t \in Tasks |-> SomeItem] /\ wait = [t \in Tasks |-> "none"]
    /\ expired = [t \in Tasks |-> FALSE]
    /\ got = [t \in Tasks |-> SomeItem] /\ result = [t \in Tasks |-> "pass"]
    /\ calls = 0 /\ isrs = 0

-----------------------------------------------------------------------------
(* Storage, and the lists of waiting tasks.                                *)

HasRoom == uxMessagesWaiting < uxLength
HasItem == uxMessagesWaiting > 0

\* Faulty variant: the write position does not come round in time.
CopyToBackLate(x) ==
    /\ ring' = [ring EXCEPT ![pcWriteTo] = x]
    /\ pcWriteTo' = IF pcWriteTo = uxLength - 1 /\ uxLength > 1 THEN 1 ELSE (pcWriteTo + 1) % uxLength
    /\ uxMessagesWaiting' = uxMessagesWaiting + 1 /\ UNCHANGED pcReadFrom

\* prvCopyDataToQueue, queueSEND_TO_BACK
CopyToBack(x) ==
    /\ ring' = [ring EXCEPT ![pcWriteTo] = x]
    /\ pcWriteTo' = (pcWriteTo + 1) % uxLength
    /\ uxMessagesWaiting' = uxMessagesWaiting + 1 /\ UNCHANGED pcReadFrom

\* prvCopyDataToQueue, queueOVERWRITE
CopyOver(x) ==
    /\ ring' = [ring EXCEPT ![pcReadFrom] = x]
    /\ pcReadFrom' = (pcReadFrom + uxLength - 1) % uxLength
    /\ uxMessagesWaiting' = (IF HasItem THEN uxMessagesWaiting - 1 ELSE uxMessagesWaiting) + 1
    /\ UNCHANGED pcWriteTo

\* prvCopyDataFromQueue
CopyFrom == /\ pcReadFrom' = (pcReadFrom + 1) % uxLength
            /\ uxMessagesWaiting' = uxMessagesWaiting - 1
            /\ UNCHANGED <<ring, pcWriteTo>>

Oldest == ring[(pcReadFrom + 1) % uxLength]

\* xTaskRemoveFromEventList, when the list is not empty
Wake(list) == IF list = <<>> THEN list ELSE Tail(list)

OnList(list, t) == \E i \in DOMAIN list : list[i] = t
Blocked(t) == OnList(xTasksWaitingToSend, t) \/ OnList(xTasksWaitingToReceive, t)

\* uxListRemove
Without(list, t) ==
    LET i == CHOOSE k \in DOMAIN list : list[k] = t
    IN  IF OnList(list, t) THEN SubSeq(list, 1, i - 1) \o SubSeq(list, i + 1, Len(list)) ELSE list

\* vTaskPlaceOnEventList: in front of the first of a lower priority
Placed(list, t) ==
    LET n == Cardinality({i \in DOMAIN list : \A j \in 1..i : Priority[list[j]] >= Priority[t]})
    IN  SubSeq(list, 1, n) \o <<t>> \o SubSeq(list, n + 1, Len(list))

-----------------------------------------------------------------------------
(* Calls of tasks: xQueueGenericSend, xQueueReceive, xQueueSemaphoreTake    *)
(* and xQueuePeek.                                                         *)

Runs(t) == suspended \in {None, t} /\ ~Blocked(t)
StepsTo(t, from, to) == Runs(t) /\ pc[t] = from /\ pc' = [pc EXCEPT ![t] = to]

Sends(t) == op[t] \in {"send", "overwrite"}

Begin(t) ==
    /\ StepsTo(t, "idle", "try") /\ calls < MaxCalls /\ calls' = calls + 1
    /\ \E o \in {"send", "receive", "peek"} \cup (IF uxLength = 1 THEN {"overwrite"} ELSE {}),
          x \in Items, w \in Waits \cup {"none"} :
           /\ o \in {"receive", "peek"} => x = item[t]
           /\ IF o = "overwrite" THEN w = "none" ELSE w \in Waits
           /\ op' = [op EXCEPT ![t] = o] /\ item' = [item EXCEPT ![t] = x]
           /\ wait' = [wait EXCEPT ![t] = w] /\ expired' = [expired EXCEPT ![t] = FALSE]
    /\ result' = [result EXCEPT ![t] = "open"]
    /\ UNCHANGED <<uxLength, storage, lists, locks, suspended, got, isrs>>

\* The locals of a call end with it.
Returns(t, from, how) ==
    /\ StepsTo(t, from, "idle") /\ result' = [result EXCEPT ![t] = how]
    /\ op' = [op EXCEPT ![t] = "send"] /\ item' = [item EXCEPT ![t] = SomeItem]
    /\ wait' = [wait EXCEPT ![t] = "none"] /\ expired' = [expired EXCEPT ![t] = FALSE]

Sent(t) ==
    /\ Sends(t) /\ Returns(t, "try", "pass")
    /\ \/ op[t] = "send" /\ HasRoom /\ CopyToBack(item[t])
       \/ op[t] = "overwrite" /\ CopyOver(item[t])
    /\ xTasksWaitingToReceive' = Wake(xTasksWaitingToReceive)
    /\ UNCHANGED <<uxLength, xTasksWaitingToSend, locks, suspended, got, calls, isrs>>

Received(t) ==
    /\ op[t] = "receive" /\ HasItem /\ Returns(t, "try", "pass")
    /\ CopyFrom /\ got' = [got EXCEPT ![t] = Oldest]
    /\ xTasksWaitingToSend' = Wake(xTasksWaitingToSend)
    /\ UNCHANGED <<uxLength, xTasksWaitingToReceive, locks, suspended, calls, isrs>>

\* The item stays: the next waiting task is woken for it.
Peeked(t) ==
    /\ op[t] = "peek" /\ HasItem /\ Returns(t, "try", "pass")
    /\ got' = [got EXCEPT ![t] = Oldest]
    /\ xTasksWaitingToReceive' = Wake(xTasksWaitingToReceive)
    /\ UNCHANGED <<uxLength, storage, xTasksWaitingToSend, locks, suspended, calls, isrs>>

MustWait(t) == IF Sends(t) THEN op[t] = "send" /\ ~HasRoom ELSE ~HasItem

Refused(t) ==
    /\ MustWait(t) /\ wait[t] = "none" /\ Returns(t, "try", "fail")
    /\ UNCHANGED <<uxLength, storage, lists, locks, suspended, got, calls, isrs>>

\* vTaskSuspendAll and prvLockQueue
Lock(t) ==
    /\ MustWait(t) /\ wait[t] # "none" /\ StepsTo(t, "try", "locked")
    /\ suspended' = t /\ cTxLock' = queueLOCKED_UNMODIFIED /\ cRxLock' = queueLOCKED_UNMODIFIED
    /\ UNCHANGED <<uxLength, storage, lists, callVars, ends, calls, isrs>>

\* xTaskCheckForTimeOut
CheckForTimeOut(t) ==
    /\ wait[t] = "finite"
    /\ \/ StepsTo(t, "locked", "late") /\ expired' = [expired EXCEPT ![t] = TRUE]
       \/ StepsTo(t, "locked", "check") /\ ~expired[t] /\ UNCHANGED expired
    /\ UNCHANGED <<uxLength, storage, lists, locks, suspended, op, item, wait, ends, calls, isrs>>

\* prvIsQueueFull or prvIsQueueEmpty: block, or try again.
Check(t) ==
    /\ StepsTo(t, IF wait[t] = "finite" THEN "check" ELSE "locked", IF MustWait(t) THEN "place" ELSE "unlock")
    /\ UNCHANGED <<uxLength, storage, lists, locks, suspended, callVars, ends, calls, isrs>>

Place(t) ==
    /\ pc[t] = "place" /\ suspended = t /\ pc' = [pc EXCEPT ![t] = "unlock"]
    /\ IF Sends(t)
       THEN xTasksWaitingToSend' = Placed(xTasksWaitingToSend, t) /\ UNCHANGED xTasksWaitingToReceive
       ELSE xTasksWaitingToReceive' = Placed(xTasksWaitingToReceive, t) /\ UNCHANGED xTasksWaitingToSend
    /\ UNCHANGED <<uxLength, storage, locks, suspended, callVars, ends, calls, isrs>>

\* Faulty variant: what was moved meanwhile wakes nobody.
MadeUpNothing(list, lock) == list

\* As many waiting tasks as items were moved while the queue was locked.
MadeUp(list, lock) ==
    IF lock > queueLOCKED_UNMODIFIED
    THEN SubSeq(list, (IF lock < Len(list) THEN lock ELSE Len(list)) + 1, Len(list))
    ELSE list

\* The two critical sections of prvUnlockQueue, with the scheduler suspended.
UnlockTx(t) ==
    /\ suspended = t /\ pc[t] \in {"unlock", "late"} /\ cTxLock # queueUNLOCKED
    /\ xTasksWaitingToReceive' = MadeUp(xTasksWaitingToReceive, cTxLock)
    /\ cTxLock' = queueUNLOCKED
    /\ UNCHANGED <<uxLength, storage, xTasksWaitingToSend, cRxLock, suspended, pc, callVars, ends, calls, isrs>>

UnlockRx(t) ==
    /\ suspended = t /\ cTxLock = queueUNLOCKED /\ cRxLock # queueUNLOCKED
    /\ xTasksWaitingToSend' = MadeUp(xTasksWaitingToSend, cRxLock)
    /\ cRxLock' = queueUNLOCKED
    /\ UNCHANGED <<uxLength, storage, xTasksWaitingToReceive, cTxLock, suspended, pc, callVars, ends, calls, isrs>>

\* xTaskResumeAll; whoever was put on a list yields until it is taken off.
Resume(t) ==
    /\ suspended = t /\ cTxLock = queueUNLOCKED /\ cRxLock = queueUNLOCKED /\ suspended' = None
    /\ pc' = [pc EXCEPT ![t] = IF @ = "late" THEN "over" ELSE "try"]
    /\ UNCHANGED <<uxLength, storage, lists, locks, callVars, ends, calls, isrs>>

\* The time is over: a sender leaves, a receiver looks once more.
Over(t) ==
    /\ IF Sends(t) \/ ~HasItem
       THEN Returns(t, "over", "fail")
       ELSE StepsTo(t, "over", "try") /\ wait' = [wait EXCEPT ![t] = "none"] /\ UNCHANGED <<op, item, expired, result>>
    /\ UNCHANGED <<uxLength, storage, lists, locks, suspended, got, calls, isrs>>

\* Faulty variant: only tasks that wait to receive time out.
TickReceivers(t) ==
    /\ suspended = None /\ OnList(xTasksWaitingToReceive, t) /\ wait[t] = "finite"
    /\ xTasksWaitingToReceive' = Without(xTasksWaitingToReceive, t)
    /\ expired' = [expired EXCEPT ![t] = TRUE]
    /\ UNCHANGED <<uxLength, storage, xTasksWaitingToSend, locks, suspended, pc, op, item, wait, ends, calls, isrs>>

\* xTaskIncrementTick: a waiting task whose time has come is taken off its list.
Tick(t) ==
    /\ suspended = None /\ Blocked(t) /\ wait[t] = "finite"
    /\ xTasksWaitingToSend' = Without(xTasksWaitingToSend, t)
    /\ xTasksWaitingToReceive' = Without(xTasksWaitingToReceive, t)
    /\ expired' = [expired EXCEPT ![t] = TRUE]
    /\ UNCHANGED <<uxLength, storage, locks, suspended, pc, op, item, wait, ends, calls, isrs>>

Call(t) == \/ Sent(t) \/ Received(t) \/ Peeked(t) \/ Refused(t) \/ Lock(t) \/ CheckForTimeOut(t)
           \/ Check(t) \/ Place(t) \/ UnlockTx(t) \/ UnlockRx(t) \/ Resume(t) \/ Over(t)

-----------------------------------------------------------------------------
(* Calls of interrupt handlers, and of tasks that use them not to wait.    *)

\* Wake a task, or count it for the task that holds the lock.
SendFromISR ==
    /\ isrs < IsrCalls /\ isrs' = isrs + 1
    /\ \E x \in Items : (HasRoom /\ CopyToBack(x)) \/ (uxLength = 1 /\ CopyOver(x))
    /\ IF cTxLock = queueUNLOCKED
       THEN xTasksWaitingToReceive' = Wake(xTasksWaitingToReceive) /\ UNCHANGED cTxLock
       ELSE cTxLock' = cTxLock + 1 /\ UNCHANGED xTasksWaitingToReceive
    /\ UNCHANGED <<uxLength, xTasksWaitingToSend, cRxLock, suspended, pc, callVars, ends, calls>>

ReceiveFromISR ==
    /\ isrs < IsrCalls /\ isrs' = isrs + 1 /\ HasItem /\ CopyFrom
    /\ IF cRxLock = queueUNLOCKED
       THEN xTasksWaitingToSend' = Wake(xTasksWaitingToSend) /\ UNCHANGED cRxLock
       ELSE cRxLock' = cRxLock + 1 /\ UNCHANGED xTasksWaitingToSend
    /\ UNCHANGED <<uxLength, xTasksWaitingToReceive, cTxLock, suspended, pc, callVars, ends, calls>>

Next == \/ \E t \in Tasks : Begin(t) \/ Call(t) \/ Tick(t)
        \/ SendFromISR \/ ReceiveFromISR

Spec == Init /\ [][Next]_vars

\* Some task gets its turn, and time passes; nobody has to call.
FairSpec == Spec /\ WF_vars(\E t \in Tasks : Call(t) \/ Tick(t))

-----------------------------------------------------------------------------
(* What must hold.                                                         *)

\* The type of every variable, the length of the queue included.
TypeOK ==
    /\ uxLength \in Lengths /\ ring \in [0..uxLength - 1 -> Items]
    /\ pcWriteTo \in 0..uxLength - 1 /\ pcReadFrom \in 0..uxLength - 1
    /\ uxMessagesWaiting \in 0..uxLength
    /\ cTxLock \in -1..IsrCalls /\ cRxLock \in -1..IsrCalls
    /\ xTasksWaitingToSend \in Seq(Tasks) /\ xTasksWaitingToReceive \in Seq(Tasks)
    /\ suspended \in Tasks \cup {None}
    /\ pc \in [Tasks -> {"idle", "try", "locked", "check", "place", "unlock", "late", "over"}]
    /\ op \in [Tasks -> {"send", "overwrite", "receive", "peek"}]
    /\ wait \in [Tasks -> {"none", "finite", "forever"}] /\ expired \in [Tasks -> BOOLEAN]
    /\ item \in [Tasks -> Items] /\ got \in [Tasks -> Items]
    /\ result \in [Tasks -> {"open", "pass", "fail"}] /\ calls \in 0..MaxCalls /\ isrs \in 0..IsrCalls

\* A task does not stay on a list with nobody about to wake it while what it
\* waits for is there: some task of its kind has been woken, or is trying.
NoLostWakeUp ==
    suspended = None =>
        /\ HasItem /\ xTasksWaitingToReceive # <<>> =>
               \E t \in Tasks : ~Sends(t) /\ pc[t] \in {"try", "over"} /\ ~Blocked(t)
        /\ HasRoom /\ xTasksWaitingToSend # <<>> =>
               \E t \in Tasks : Sends(t) /\ pc[t] = "try" /\ ~Blocked(t)

\* Every call takes effect at one moment on a first-in first-out buffer, or
\* fails without effect: the queue implements BoundedQueue.
Contents == [i \in 1..uxMessagesWaiting |-> ring[(pcReadFrom + i) % uxLength]]
Fifo == INSTANCE BoundedQueue WITH length <- uxLength, buffer <- Contents
QueueIsFifo == Fifo!Spec

\* A call that does not wait for ever returns: again and again all have.
FiniteCallsReturn == []<>(\A t \in Tasks : pc[t] # "idle" => wait[t] = "forever")
=============================================================================
