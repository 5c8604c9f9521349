----------------------------- MODULE QueueProofs -----------------------------
(***************************************************************************)
(* Theorems of KernelQueue, for every length of the queue, every set of    *)
(* tasks and items and every number of calls: a queue implements            *)
(* BoundedQueue, and no wake-up is lost.                                    *)
(***************************************************************************)
EXTENDS KernelQueue, ListFacts, TLAPS

Places == {"idle", "try", "locked", "check", "place", "unlock", "late", "over"}

-----------------------------------------------------------------------------
(* Types.                                                                  *)

\* The type invariant in parts: the length, the ring, the counts of a locked
\* queue (bounded because the calls of handlers are), the lists, the calls.
LengthOK == uxLength \in Lengths /\ calls \in 0..MaxCalls /\ isrs \in 0..IsrCalls
StorageOK == /\ ring \in [0..uxLength - 1 -> Items]
             /\ pcWriteTo \in 0..uxLength - 1 /\ pcReadFrom \in 0..uxLength - 1
             /\ uxMessagesWaiting \in 0..uxLength
LocksOK == cTxLock \in -1..isrs /\ cRxLock \in -1..isrs
ListsOK == /\ xTasksWaitingToSend \in Seq(Tasks) /\ xTasksWaitingToReceive \in Seq(Tasks)
           /\ suspended \in Tasks \cup {None}
CallsOK == /\ pc \in [Tasks -> Places] /\ op \in [Tasks -> {"send", "overwrite", "receive", "peek"}]
           /\ wait \in [Tasks -> {"none", "finite", "forever"}] /\ expired \in [Tasks -> BOOLEAN]
           /\ item \in [Tasks -> Items] /\ \A t \in Tasks : op[t] = "overwrite" => uxLength = 1
EndsOK == got \in [Tasks -> Items] /\ result \in [Tasks -> {"open", "pass", "fail"}]
TypeInv == LengthOK /\ StorageOK /\ LocksOK /\ ListsOK /\ CallsOK /\ EndsOK

LEMMA SomeItemType == SomeItem \in Items
BY KernelQueueAssumption DEF SomeItem

\* The length of a queue is positive, and never changes.
LEMMA LengthType == LengthOK => uxLength \in Nat \ {0} /\ isrs \in Nat /\ IsrCalls \in Nat
<1> SUFFICES ASSUME LengthOK PROVE uxLength \in Nat \ {0} /\ isrs \in Nat /\ IsrCalls \in Nat
  OBVIOUS
<1>1. uxLength \in Nat \ {0} /\ MaxIsrs \in Nat /\ isrs \in 0..IsrCalls
  BY KernelQueueAssumption DEF LengthOK
<1> QED BY <1>1 DEF IsrCalls

LEMMA TypeInvType == TypeInv => TypeOK
<1> SUFFICES ASSUME TypeInv PROVE TypeOK
  OBVIOUS
<1>1. isrs \in 0..IsrCalls /\ isrs \in Nat /\ IsrCalls \in Nat
  BY LengthType DEF TypeInv, LengthOK
<1>2. cTxLock \in -1..IsrCalls /\ cRxLock \in -1..IsrCalls
  BY <1>1 DEF TypeInv, LocksOK
<1> QED BY <1>1, <1>2 DEF TypeInv, TypeOK, LengthOK, StorageOK, ListsOK, CallsOK, EndsOK, Places

LEMMA LengthStays == [Next]_vars => uxLength' = uxLength /\ IsrCalls' = IsrCalls
<1> SUFFICES ASSUME [Next]_vars PROVE uxLength' = uxLength
  BY DEF IsrCalls
<1>1. ASSUME NEW t \in Tasks, Call(t) PROVE uxLength' = uxLength
  BY <1>1 DEF Call, Sent, Received, Peeked, Refused, Lock, CheckForTimeOut, Check, Place,
              UnlockTx, UnlockRx, Resume, Over
<1> QED BY <1>1 DEF Next, Begin, Tick, SendFromISR, ReceiveFromISR, vars

\* What the operations on lists of tasks return.
LEMMA WakeType ==
    ASSUME NEW list \in Seq(Tasks) PROVE Wake(list) \in Seq(Tasks)
BY DEF Wake

\* Taking a task off a list takes one place out of it.
LEMMA WithoutAt ==
    ASSUME NEW list \in Seq(Tasks), NEW t, OnList(list, t)
    PROVE  \E i \in 1..Len(list) : /\ list[i] = t
                                   /\ Without(list, t) = SubSeq(list, 1, i - 1) \o SubSeq(list, i + 1, Len(list))
<1> DEFINE i == CHOOSE k \in DOMAIN list : list[k] = t
<1>1. i \in 1..Len(list) /\ list[i] = t
  BY DEF OnList
<1>2. Without(list, t) = SubSeq(list, 1, i - 1) \o SubSeq(list, i + 1, Len(list))
  BY Zenon DEF Without
<1> HIDE DEF i
<1> QED BY <1>1, <1>2, Zenon

LEMMA WithoutType ==
    ASSUME NEW list \in Seq(Tasks), NEW t PROVE Without(list, t) \in Seq(Tasks)
<1>1. CASE OnList(list, t)
  <2>1. PICK i \in 1..Len(list) :
          Without(list, t) = SubSeq(list, 1, i - 1) \o SubSeq(list, i + 1, Len(list))
    BY <1>1, WithoutAt, Zenon
  <2> QED BY <2>1, Cut, Zenon
<1>2. CASE ~OnList(list, t)
  BY <1>2, Zenon DEF Without
<1> QED BY <1>1, <1>2

LEMMA MadeUpType ==
    ASSUME NEW list \in Seq(Tasks), NEW lock \in Int PROVE MadeUp(list, lock) \in Seq(Tasks)
BY DEF MadeUp, queueLOCKED_UNMODIFIED

\* Where a task is placed: behind the first n of the list.
LEMMA PlacedAt ==
    ASSUME NEW list \in Seq(Tasks), NEW t \in Tasks
    PROVE  \E n \in 0..Len(list) :
             Placed(list, t) = SubSeq(list, 1, n) \o <<t>> \o SubSeq(list, n + 1, Len(list))
<1> DEFINE I == {i \in DOMAIN list : \A j \in 1..i : Priority[list[j]] >= Priority[t]}
<1>1. I \subseteq 1..Len(list) /\ Len(list) \in Nat
  OBVIOUS
<1>2. IsFiniteSet(1..Len(list)) /\ Cardinality(1..Len(list)) = Len(list)
  <2>1. 1 \in Int /\ Len(list) \in Int /\ (1 > Len(list) => Len(list) = 0)
    BY <1>1
  <2>2. /\ IsFiniteSet(1..Len(list))
        /\ Cardinality(1..Len(list)) = IF 1 > Len(list) THEN 0 ELSE Len(list) - 1 + 1
    BY <2>1, FS_Interval, Zenon
  <2> QED BY <1>1, <2>2
<1>3. Cardinality(I) \in 0..Len(list)
  BY <1>1, <1>2, FS_Subset, FS_CardinalityType
<1> QED BY <1>3 DEF Placed

LEMMA PlacedType ==
    ASSUME NEW list \in Seq(Tasks), NEW t \in Tasks PROVE Placed(list, t) \in Seq(Tasks)
<1>1. PICK n \in 0..Len(list) :
        Placed(list, t) = SubSeq(list, 1, n) \o <<t>> \o SubSeq(list, n + 1, Len(list))
  BY PlacedAt, Zenon
<1>2. SubSeq(list, 1, n) \o <<t>> \o SubSeq(list, n + 1, Len(list)) \in Seq(Tasks)
  BY PutIn, Zenon
<1> QED BY <1>1, <1>2

\* What the operations on the ring leave of its type.
LEMMA CopyToBackType ==
    ASSUME LengthOK, StorageOK, HasRoom, NEW x \in Items, CopyToBack(x), uxLength' = uxLength
    PROVE  StorageOK'
<1>1. uxLength \in Nat \ {0}
  BY LengthType
<1>2. (pcWriteTo + 1) % uxLength \in 0..uxLength - 1
  BY <1>1, Round DEF StorageOK
<1> QED BY <1>1, <1>2 DEF StorageOK, HasRoom, CopyToBack

LEMMA CopyOverType ==
    ASSUME LengthOK, StorageOK, uxLength = 1, NEW x \in Items, CopyOver(x), uxLength' = uxLength
    PROVE  StorageOK'
<1>1. pcReadFrom' = 0
  BY DEF CopyOver, StorageOK
<1> QED BY <1>1 DEF StorageOK, HasItem, CopyOver

LEMMA CopyFromType ==
    ASSUME LengthOK, StorageOK, HasItem, CopyFrom, uxLength' = uxLength
    PROVE  StorageOK'
<1>1. uxLength \in Nat \ {0}
  BY LengthType
<1>2. (pcReadFrom + 1) % uxLength \in 0..uxLength - 1
  BY <1>1, Round DEF StorageOK
<1> QED BY <1>1, <1>2 DEF StorageOK, HasItem, CopyFrom

LEMMA OldestType == ASSUME LengthOK, StorageOK PROVE Oldest \in Items
<1>1. uxLength \in Nat \ {0}
  BY LengthType
<1>2. (pcReadFrom + 1) % uxLength \in 0..uxLength - 1
  BY <1>1, Round DEF StorageOK
<1> QED BY <1>1, <1>2 DEF StorageOK, Oldest

\* The return of a call keeps the types of the calls.
LEMMA ReturnsType ==
    ASSUME CallsOK, EndsOK, NEW t \in Tasks, NEW from, NEW how \in {"pass", "fail"}, Returns(t, from, how),
           uxLength' = uxLength, got' = got \/ \E x \in Items : got' = [got EXCEPT ![t] = x]
    PROVE  CallsOK' /\ EndsOK'
BY SomeItemType DEF CallsOK, EndsOK, Returns, StepsTo, Places


LEMMA TypeInit == Init => TypeInv
<1> SUFFICES ASSUME Init PROVE TypeInv
  OBVIOUS
<1>1. uxLength \in Nat \ {0} /\ MaxIsrs \in Nat /\ MaxCalls \in Nat
  BY KernelQueueAssumption DEF Init
<1>2. LengthOK
  BY <1>1 DEF Init, LengthOK, IsrCalls
<1>3. StorageOK /\ EndsOK
  BY <1>1, SomeItemType DEF Init, StorageOK, EndsOK
<1>4. CallsOK
  BY SomeItemType DEF Init, CallsOK, Places
<1> QED BY <1>2, <1>3, <1>4 DEF Init, TypeInv, LocksOK, ListsOK, queueUNLOCKED

\* Calls of tasks keep the types.
LEMMA CallType ==
    ASSUME TypeInv, NEW t \in Tasks, Call(t), uxLength' = uxLength, IsrCalls' = IsrCalls
    PROVE  TypeInv'
<1> USE DEF TypeInv
<1>1. CASE Sent(t)
  <2>1. StorageOK'
    <3>1. item[t] \in Items
      BY DEF CallsOK
    <3>2. (HasRoom /\ CopyToBack(item[t])) \/ (uxLength = 1 /\ CopyOver(item[t]))
      BY <1>1 DEF Sent, CallsOK
    <3>3. CASE HasRoom /\ CopyToBack(item[t])
      BY <3>1, <3>3, CopyToBackType
    <3>4. CASE uxLength = 1 /\ CopyOver(item[t])
      BY <3>1, <3>4, CopyOverType
    <3> QED BY <3>2, <3>3, <3>4
  <2>2. CallsOK' /\ EndsOK'
    BY <1>1, ReturnsType DEF Sent
  <2> QED BY <1>1, <2>1, <2>2, WakeType DEF Sent, LengthOK, LocksOK, ListsOK, locks
<1>2. CASE Received(t)
  <2>1. StorageOK'
    BY <1>2, CopyFromType DEF Received
  <2>2. CallsOK' /\ EndsOK'
    BY <1>2, ReturnsType, OldestType DEF Received
  <2> QED BY <1>2, <2>1, <2>2, WakeType DEF Received, LengthOK, LocksOK, ListsOK, locks
<1>3. CASE Peeked(t)
  <2>2. CallsOK' /\ EndsOK'
    BY <1>3, ReturnsType, OldestType DEF Peeked
  <2> QED BY <1>3, <2>2, WakeType DEF Peeked, LengthOK, StorageOK, LocksOK, ListsOK, locks, storage
<1>4. CASE Refused(t)
  <2>2. CallsOK' /\ EndsOK'
    BY <1>4, ReturnsType DEF Refused
  <2> QED BY <1>4, <2>2 DEF Refused, LengthOK, StorageOK, LocksOK, ListsOK, locks, storage, lists
<1>5. CASE Lock(t)
  <2>1. isrs \in Nat
    BY LengthType
  <2>2. CallsOK' /\ EndsOK'
    BY <1>5 DEF Lock, StepsTo, CallsOK, EndsOK, Places, callVars, ends
  <2> QED BY <1>5, <2>1, <2>2
          DEF Lock, LengthOK, StorageOK, LocksOK, ListsOK, storage, lists, queueLOCKED_UNMODIFIED
<1>6. CASE CheckForTimeOut(t)
  <2>2. CallsOK' /\ EndsOK'
    BY <1>6 DEF CheckForTimeOut, StepsTo, CallsOK, EndsOK, Places, ends
  <2> QED BY <1>6, <2>2 DEF CheckForTimeOut, LengthOK, StorageOK, LocksOK, ListsOK, locks, storage, lists
<1>7. CASE Check(t)
  <2>2. CallsOK' /\ EndsOK'
    BY <1>7 DEF Check, StepsTo, CallsOK, EndsOK, Places, callVars, ends
  <2> QED BY <1>7, <2>2 DEF Check, LengthOK, StorageOK, LocksOK, ListsOK, locks, storage, lists
<1>8. CASE Place(t)
  <2>2. CallsOK' /\ EndsOK'
    BY <1>8 DEF Place, CallsOK, EndsOK, Places, callVars, ends
  <2>3. ListsOK'
    BY <1>8, PlacedType DEF Place, ListsOK
  <2> QED BY <1>8, <2>2, <2>3 DEF Place, LengthOK, StorageOK, LocksOK, locks, storage
<1>9. CASE UnlockTx(t)
  <2>1. isrs \in Nat
    BY LengthType
  <2>2. CallsOK' /\ EndsOK'
    BY <1>9 DEF UnlockTx, CallsOK, EndsOK, Places, callVars, ends
  <2>3. ListsOK'
    BY <1>9, <2>1, MadeUpType DEF UnlockTx, ListsOK, LocksOK
  <2> QED BY <1>9, <2>1, <2>2, <2>3 DEF UnlockTx, LengthOK, StorageOK, LocksOK, storage, queueUNLOCKED
<1>10. CASE UnlockRx(t)
  <2>1. isrs \in Nat
    BY LengthType
  <2>2. CallsOK' /\ EndsOK'
    BY <1>10 DEF UnlockRx, CallsOK, EndsOK, Places, callVars, ends
  <2>3. ListsOK'
    BY <1>10, <2>1, MadeUpType DEF UnlockRx, ListsOK, LocksOK
  <2> QED BY <1>10, <2>1, <2>2, <2>3 DEF UnlockRx, LengthOK, StorageOK, LocksOK, storage, queueUNLOCKED
<1>11. CASE Resume(t)
  <2>2. CallsOK' /\ EndsOK'
    BY <1>11 DEF Resume, CallsOK, EndsOK, Places, callVars, ends
  <2> QED BY <1>11, <2>2 DEF Resume, LengthOK, StorageOK, LocksOK, ListsOK, storage, lists, locks
<1>12. CASE Over(t)
  <2>2. CallsOK' /\ EndsOK'
    <3>1. CASE Returns(t, "over", "fail")
      BY <1>12, <3>1, ReturnsType DEF Over
    <3>2. CASE ~Returns(t, "over", "fail")
      BY <1>12, <3>2 DEF Over, StepsTo, CallsOK, EndsOK, Places
    <3> QED BY <3>1, <3>2
  <2> QED BY <1>12, <2>2 DEF Over, LengthOK, StorageOK, LocksOK, ListsOK, storage, lists, locks
<1> QED BY <1>1, <1>2, <1>3, <1>4, <1>5, <1>6, <1>7, <1>8, <1>9, <1>10, <1>11, <1>12 DEF Call

LEMMA TypeNext == TypeInv /\ [Next]_vars => TypeInv'
<1> SUFFICES ASSUME TypeInv, [Next]_vars PROVE TypeInv'
  OBVIOUS
<1> USE DEF TypeInv
<1>0. uxLength' = uxLength /\ IsrCalls' = IsrCalls /\ isrs \in Nat /\ IsrCalls \in Nat
  BY LengthStays, LengthType
<1>1. ASSUME NEW t \in Tasks, Begin(t) PROVE TypeInv'
  <2>1. CallsOK' /\ EndsOK'
    BY <1>1, KernelQueueAssumption DEF Begin, StepsTo, CallsOK, EndsOK, Places
  <2>2. LengthOK'
    BY <1>0, <1>1, KernelQueueAssumption DEF Begin, LengthOK
  <2> QED BY <1>1, <2>1, <2>2 DEF Begin, StorageOK, LocksOK, ListsOK, storage, lists, locks
<1>2. ASSUME NEW t \in Tasks, Tick(t) PROVE TypeInv'
  <2>1. CallsOK' /\ EndsOK'
    BY <1>2 DEF Tick, CallsOK, EndsOK, ends
  <2>2. ListsOK'
    BY <1>2, WithoutType DEF Tick, ListsOK
  <2> QED BY <1>0, <1>2, <2>1, <2>2 DEF Tick, LengthOK, StorageOK, LocksOK, storage, locks
<1>3. CASE SendFromISR
  <2>1. StorageOK'
    BY <1>0, <1>3, CopyToBackType, CopyOverType DEF SendFromISR
  <2>2. LengthOK' /\ LocksOK'
    BY <1>0, <1>3 DEF SendFromISR, LengthOK, LocksOK, queueUNLOCKED
  <2> QED BY <1>3, <2>1, <2>2, WakeType DEF SendFromISR, ListsOK, CallsOK, EndsOK, callVars, ends
<1>4. CASE ReceiveFromISR
  <2>1. StorageOK'
    BY <1>0, <1>4, CopyFromType DEF ReceiveFromISR
  <2>2. LengthOK' /\ LocksOK'
    BY <1>0, <1>4 DEF ReceiveFromISR, LengthOK, LocksOK, queueUNLOCKED
  <2> QED BY <1>4, <2>1, <2>2, WakeType DEF ReceiveFromISR, ListsOK, CallsOK, EndsOK, callVars, ends
<1>5. CASE UNCHANGED vars
  BY <1>5, <1>0 DEF vars, storage, lists, locks, callVars, ends, LengthOK, StorageOK, LocksOK, ListsOK, CallsOK, EndsOK
<1>6. ASSUME NEW t \in Tasks, Call(t) PROVE TypeInv'
  BY <1>0, <1>6, CallType
<1> QED BY <1>1, <1>2, <1>3, <1>4, <1>5, <1>6 DEF Next

\* Every variable of the queue keeps its type: the positions stay on the ring,
\* the count of items between nought and the length, the counts of a locked
\* queue within the calls of handlers.
THEOREM TypeCorrect == Spec => []TypeOK
<1>1. Init => TypeInv
  BY TypeInit
<1>2. TypeInv /\ [Next]_vars => TypeInv'
  BY TypeNext
<1>3. TypeInv => TypeOK
  BY TypeInvType
<1> QED BY <1>1, <1>2, <1>3, PTL DEF Spec

-----------------------------------------------------------------------------
(* Who holds the queue locked.                                             *)

\* A task has suspended the scheduler exactly while it is between prvLockQueue
\* and xTaskResumeAll; the queue is locked until it gets to prvUnlockQueue, and
\* only then; a call that overwrites never waits.
Locked == {"locked", "check", "place", "unlock", "late"}
HeldOK ==
    /\ \A t \in Tasks : pc[t] \in Locked <=> suspended = t
    /\ \A t \in Tasks : pc[t] \in {"locked", "check", "place"} =>
          cTxLock # queueUNLOCKED /\ cRxLock # queueUNLOCKED /\ op[t] # "overwrite"
    /\ suspended = None => cTxLock = queueUNLOCKED /\ cRxLock = queueUNLOCKED

LEMMA HeldInit == Init => HeldOK
BY KernelQueueAssumption DEF Init, HeldOK, Locked

LEMMA HeldNext == TypeInv /\ HeldOK /\ [Next]_vars => HeldOK'
<1> SUFFICES ASSUME TypeInv, HeldOK, [Next]_vars PROVE HeldOK'
  OBVIOUS
<1> USE DEF TypeInv
<1>0. isrs \in Nat /\ None \notin Tasks
  BY LengthType, KernelQueueAssumption
<1>1. ASSUME NEW t \in Tasks, Begin(t) PROVE HeldOK'
  BY <1>1 DEF Begin, StepsTo, HeldOK, CallsOK, Locked, locks
<1>2. ASSUME NEW t \in Tasks, Tick(t) PROVE HeldOK'
  BY <1>2 DEF Tick, HeldOK, locks
<1>3. CASE SendFromISR
  BY <1>0, <1>3 DEF SendFromISR, HeldOK, LocksOK, queueUNLOCKED, callVars
<1>4. CASE ReceiveFromISR
  BY <1>0, <1>4 DEF ReceiveFromISR, HeldOK, LocksOK, queueUNLOCKED, callVars
<1>5. CASE UNCHANGED vars
  BY <1>5 DEF vars, HeldOK, locks, callVars
<1>6. ASSUME NEW t \in Tasks, Call(t) PROVE HeldOK'
  <2>1. ASSUME NEW from \in {"try", "over"}, NEW how, Returns(t, from, how), UNCHANGED <<locks, suspended>> PROVE HeldOK'
    BY <2>1 DEF Returns, StepsTo, HeldOK, CallsOK, Locked, locks
  <2>2. CASE Sent(t) \/ Received(t) \/ Peeked(t) \/ Refused(t)
    BY <2>1, <2>2 DEF Sent, Received, Peeked, Refused
  <2>3. CASE Lock(t)
    BY <1>0, <2>3 DEF Lock, MustWait, Sends, StepsTo, Runs, HeldOK, CallsOK, Locked, callVars,
                      queueUNLOCKED, queueLOCKED_UNMODIFIED
  <2>4. CASE CheckForTimeOut(t)
    BY <2>4 DEF CheckForTimeOut, StepsTo, HeldOK, CallsOK, Locked, locks
  <2>5. CASE Check(t)
    BY <2>5 DEF Check, StepsTo, HeldOK, CallsOK, Locked, locks, callVars
  <2>6. CASE Place(t)
    BY <2>6 DEF Place, HeldOK, CallsOK, Locked, locks, callVars
  <2>7. CASE UnlockTx(t)
    BY <1>0, <2>7 DEF UnlockTx, HeldOK, Locked, callVars
  <2>8. CASE UnlockRx(t)
    BY <1>0, <2>8 DEF UnlockRx, HeldOK, Locked, callVars
  <2>9. CASE Resume(t)
    BY <1>0, <2>9 DEF Resume, HeldOK, CallsOK, Locked, locks, callVars
  <2>10. CASE Over(t)
    <3>1. CASE Returns(t, "over", "fail")
      BY <2>1, <2>10, <3>1 DEF Over
    <3>2. CASE ~Returns(t, "over", "fail")
      BY <2>10, <3>2 DEF Over, StepsTo, HeldOK, CallsOK, Locked, locks
    <3> QED BY <3>1, <3>2
  <2> QED BY <1>6, <2>2, <2>3, <2>4, <2>5, <2>6, <2>7, <2>8, <2>9, <2>10 DEF Call
<1> QED BY <1>1, <1>2, <1>3, <1>4, <1>5, <1>6 DEF Next

-----------------------------------------------------------------------------
(* The ring is a first-in first-out buffer.                                *)

\* The next item is written behind the last of those that are queued.
RingOK == pcWriteTo = (pcReadFrom + 1 + uxMessagesWaiting) % uxLength

\* The place of the i-th item, and of the next one to be written.
LEMMA PlaceOf ==
    ASSUME LengthOK, StorageOK, NEW i \in 0..uxLength + 1
    PROVE  /\ (pcReadFrom + i) % uxLength \in 0..uxLength - 1
           /\ (pcReadFrom + i) % uxLength =
                IF pcReadFrom + i < uxLength THEN pcReadFrom + i
                ELSE IF pcReadFrom + i < 2 * uxLength THEN pcReadFrom + i - uxLength ELSE 0
<1>1. uxLength \in Nat \ {0} /\ pcReadFrom \in 0..uxLength - 1
  BY LengthType DEF StorageOK
<1>2. pcReadFrom + i \in 0..2 * uxLength
  BY <1>1
<1>3. (pcReadFrom + i) % uxLength =
        IF pcReadFrom + i < uxLength THEN pcReadFrom + i
        ELSE IF pcReadFrom + i < 2 * uxLength THEN pcReadFrom + i - uxLength ELSE 0
  BY <1>1, <1>2
<1> QED BY <1>1, <1>2, <1>3

\* What is queued is a sequence of items.
ContentsAre == /\ Contents \in Seq(Items) /\ Len(Contents) = uxMessagesWaiting
               /\ \A i \in 1..uxMessagesWaiting : Contents[i] = ring[(pcReadFrom + i) % uxLength]

LEMMA ContentsType == LengthOK /\ StorageOK => ContentsAre
<1> SUFFICES ASSUME LengthOK, StorageOK PROVE ContentsAre
  OBVIOUS
<1>1. uxLength \in Nat \ {0} /\ uxMessagesWaiting \in 0..uxLength
  BY LengthType DEF StorageOK
<1>2. \A i \in 1..uxMessagesWaiting : ring[(pcReadFrom + i) % uxLength] \in Items
  BY <1>1, PlaceOf DEF StorageOK
<1>3. Contents \in [1..uxMessagesWaiting -> Items]
  BY <1>2 DEF Contents
<1> QED BY <1>1, <1>3 DEF Contents, ContentsAre

LEMMA ContentsLater == (LengthOK /\ StorageOK)' => ContentsAre'
BY ContentsType, PTL

\* A copy to the back appends to what is queued.
LEMMA CopyToBackAppends ==
    ASSUME LengthOK, StorageOK, RingOK, HasRoom, NEW x \in Items, CopyToBack(x), uxLength' = uxLength,
           LengthOK', StorageOK'
    PROVE  RingOK' /\ Contents' = Append(Contents, x)
<1>1. /\ uxLength \in Nat \ {0} /\ pcReadFrom \in 0..uxLength - 1
      /\ uxMessagesWaiting \in 0..uxLength - 1 /\ uxMessagesWaiting' = uxMessagesWaiting + 1
      /\ pcReadFrom' = pcReadFrom /\ pcWriteTo' = (pcWriteTo + 1) % uxLength
      /\ pcWriteTo \in 0..uxLength - 1
  BY LengthType DEF StorageOK, HasRoom, CopyToBack
<1>2. pcWriteTo = IF pcReadFrom + (1 + uxMessagesWaiting) < uxLength
                  THEN pcReadFrom + (1 + uxMessagesWaiting)
                  ELSE pcReadFrom + (1 + uxMessagesWaiting) - uxLength
  <2>1. 1 + uxMessagesWaiting \in 0..uxLength + 1
    BY <1>1
  <2>2. pcWriteTo = (pcReadFrom + (1 + uxMessagesWaiting)) % uxLength
    BY <1>1 DEF RingOK
  <2> QED BY <1>1, <2>1, <2>2, PlaceOf
<1>3. RingOK'
  <2>1. 2 + uxMessagesWaiting \in 0..uxLength + 1 /\ pcWriteTo + 1 \in 0..2 * uxLength
    BY <1>1
  <2>2. (pcWriteTo + 1) % uxLength = IF pcWriteTo + 1 < uxLength THEN pcWriteTo + 1 ELSE 0
    <3>1. (pcWriteTo + 1) % uxLength = IF pcWriteTo + 1 < uxLength THEN pcWriteTo + 1
            ELSE IF pcWriteTo + 1 < 2 * uxLength THEN pcWriteTo + 1 - uxLength ELSE 0
      BY <1>1, <2>1
    <3> QED BY <1>1, <3>1
  <2>3. (pcReadFrom + (2 + uxMessagesWaiting)) % uxLength =
          IF pcReadFrom + (2 + uxMessagesWaiting) < uxLength THEN pcReadFrom + (2 + uxMessagesWaiting)
          ELSE IF pcReadFrom + (2 + uxMessagesWaiting) < 2 * uxLength
               THEN pcReadFrom + (2 + uxMessagesWaiting) - uxLength ELSE 0
    BY <1>1, <2>1, PlaceOf
  <2>4. (pcWriteTo + 1) % uxLength = (pcReadFrom + (2 + uxMessagesWaiting)) % uxLength
    BY <1>1, <1>2, <2>2, <2>3
  <2>5. pcReadFrom' + 1 + uxMessagesWaiting' = pcReadFrom + (2 + uxMessagesWaiting)
    BY <1>1
  <2> QED BY <1>1, <2>4, <2>5 DEF RingOK
<1>4. ContentsAre /\ ContentsAre'
  BY ContentsType, ContentsLater
<1>5. /\ Contents' \in Seq(Items) /\ Len(Contents') = uxMessagesWaiting + 1
      /\ \A i \in 1..uxMessagesWaiting + 1 : Contents'[i] = ring'[(pcReadFrom + i) % uxLength]
  BY <1>1, <1>4 DEF ContentsAre
<1>6. ASSUME NEW i \in 1..uxMessagesWaiting PROVE Contents'[i] = Contents[i]
  <2>1. /\ i \in 0..uxLength + 1
        /\ (pcReadFrom + i) % uxLength = IF pcReadFrom + i < uxLength THEN pcReadFrom + i
             ELSE IF pcReadFrom + i < 2 * uxLength THEN pcReadFrom + i - uxLength ELSE 0
        /\ (pcReadFrom + i) % uxLength \in 0..uxLength - 1
    BY <1>1, PlaceOf
  <2>2. (pcReadFrom + i) % uxLength # pcWriteTo
    BY <1>1, <1>2, <2>1
  <2>3. ring'[(pcReadFrom + i) % uxLength] = ring[(pcReadFrom + i) % uxLength]
    BY <2>1, <2>2 DEF CopyToBack, StorageOK
  <2> QED BY <1>1, <1>4, <1>5, <2>3 DEF ContentsAre
<1>7. Contents'[uxMessagesWaiting + 1] = x
  <2>1. (pcReadFrom + (1 + uxMessagesWaiting)) % uxLength = pcWriteTo
    BY <1>1 DEF RingOK
  <2>2. Contents'[uxMessagesWaiting + 1] = ring'[pcWriteTo]
    BY <1>1, <1>5, <2>1
  <2> QED BY <1>1, <2>2 DEF CopyToBack, StorageOK
<1>8. Contents' = Append(Contents, x)
  <2>1. /\ Append(Contents, x) \in Seq(Items) /\ Len(Append(Contents, x)) = uxMessagesWaiting + 1
        /\ \A i \in 1..uxMessagesWaiting : Append(Contents, x)[i] = Contents[i]
        /\ Append(Contents, x)[uxMessagesWaiting + 1] = x
    BY <1>4, AppendProperties DEF ContentsAre
  <2>2. \A i \in 1..uxMessagesWaiting + 1 : Contents'[i] = Append(Contents, x)[i]
    BY <1>1, <1>6, <1>7, <2>1
  <2> QED BY <1>5, <2>1, <2>2, SeqEqual
<1> QED BY <1>3, <1>8


\* What is received is what has been queued longest; it is taken out of what is queued.
LEMMA OldestIsHead ==
    ASSUME LengthOK, StorageOK, HasItem
    PROVE  Contents # <<>> /\ Oldest = Head(Contents)
<1>1. uxMessagesWaiting \in Nat \ {0}
  BY LengthType DEF StorageOK, HasItem
<1>2. ContentsAre
  BY ContentsType
<1> QED BY <1>1, <1>2 DEF ContentsAre, Oldest

LEMMA CopyFromRemoves ==
    ASSUME LengthOK, StorageOK, RingOK, HasItem, CopyFrom, uxLength' = uxLength,
           LengthOK', StorageOK'
    PROVE  RingOK' /\ Contents' = Tail(Contents)
<1>1. /\ uxLength \in Nat \ {0} /\ pcReadFrom \in 0..uxLength - 1
      /\ uxMessagesWaiting \in 1..uxLength /\ uxMessagesWaiting' = uxMessagesWaiting - 1
      /\ pcReadFrom' = (pcReadFrom + 1) % uxLength /\ pcWriteTo' = pcWriteTo /\ ring' = ring
  BY LengthType DEF StorageOK, HasItem, CopyFrom
<1>2. pcReadFrom' = IF pcReadFrom + 1 < uxLength THEN pcReadFrom + 1 ELSE 0
  <2>1. 1 \in 0..uxLength + 1
    BY <1>1
  <2>2. pcReadFrom' = IF pcReadFrom + 1 < uxLength THEN pcReadFrom + 1
          ELSE IF pcReadFrom + 1 < 2 * uxLength THEN pcReadFrom + 1 - uxLength ELSE 0
    BY <1>1, <2>1, PlaceOf
  <2> QED BY <1>1, <2>2
<1>3. ASSUME NEW i \in 0..uxMessagesWaiting
      PROVE  (pcReadFrom' + i) % uxLength = (pcReadFrom + (i + 1)) % uxLength
  <2>1. i + 1 \in 0..uxLength + 1 /\ i \in 0..uxLength
    BY <1>1
  <2>2. (pcReadFrom + (i + 1)) % uxLength =
          IF pcReadFrom + (i + 1) < uxLength THEN pcReadFrom + (i + 1)
          ELSE IF pcReadFrom + (i + 1) < 2 * uxLength THEN pcReadFrom + (i + 1) - uxLength ELSE 0
    BY <2>1, PlaceOf
  <2>3. (pcReadFrom' + i) % uxLength =
          IF pcReadFrom' + i < uxLength THEN pcReadFrom' + i
          ELSE IF pcReadFrom' + i < 2 * uxLength THEN pcReadFrom' + i - uxLength ELSE 0
    <3>1. pcReadFrom' \in 0..uxLength - 1 /\ pcReadFrom' + i \in 0..2 * uxLength
      BY <1>1, <1>2, <2>1
    <3> QED BY <1>1, <2>1, <3>1
  <2> QED BY <1>1, <1>2, <2>1, <2>2, <2>3
<1>4. RingOK'
  <2>0. uxMessagesWaiting \in 0..uxMessagesWaiting
    BY <1>1
  <2>1. (pcReadFrom' + uxMessagesWaiting) % uxLength = (pcReadFrom + (uxMessagesWaiting + 1)) % uxLength
    BY <1>3, <2>0, Zenon
  <2>2. /\ pcReadFrom' + 1 + uxMessagesWaiting' = pcReadFrom' + uxMessagesWaiting
        /\ pcReadFrom + (uxMessagesWaiting + 1) = pcReadFrom + 1 + uxMessagesWaiting
    BY <1>1, <1>2
  <2> QED BY <1>1, <2>1, <2>2 DEF RingOK
<1>5. ContentsAre /\ ContentsAre'
  BY ContentsType, ContentsLater
<1>6. /\ Contents # <<>> /\ Tail(Contents) \in Seq(Items) /\ Len(Tail(Contents)) = uxMessagesWaiting - 1
      /\ \A i \in 1..uxMessagesWaiting - 1 : Tail(Contents)[i] = Contents[i + 1]
  BY <1>1, <1>5 DEF ContentsAre
<1>7. /\ Contents' \in Seq(Items) /\ Len(Contents') = uxMessagesWaiting - 1
      /\ \A i \in 1..uxMessagesWaiting - 1 : Contents'[i] = ring[(pcReadFrom' + i) % uxLength]
  BY <1>1, <1>5 DEF ContentsAre
<1>8. ASSUME NEW i \in 1..uxMessagesWaiting - 1 PROVE Contents'[i] = Tail(Contents)[i]
  <2>1. i \in 0..uxMessagesWaiting /\ i + 1 \in 1..uxMessagesWaiting
    BY <1>1
  <2>2. (pcReadFrom' + i) % uxLength = (pcReadFrom + (i + 1)) % uxLength
    BY <1>3, <2>1, Zenon
  <2>3. Contents[i + 1] = ring[(pcReadFrom + (i + 1)) % uxLength]
    BY <1>5, <2>1, Zenon DEF ContentsAre
  <2> QED BY <1>6, <1>7, <2>2, <2>3
<1> QED BY <1>4, <1>6, <1>7, <1>8, SeqEqual

\* An overwrite, of a queue of one place, leaves the new item alone in it.
LEMMA CopyOverReplaces ==
    ASSUME LengthOK, StorageOK, RingOK, uxLength = 1, NEW x \in Items, CopyOver(x), uxLength' = uxLength,
           LengthOK', StorageOK'
    PROVE  RingOK' /\ Contents' = <<x>>
<1>1. /\ pcReadFrom = 0 /\ pcReadFrom' = 0 /\ pcWriteTo' = 0
      /\ uxMessagesWaiting' = 1 /\ ring' = [ring EXCEPT ![0] = x] /\ ring \in [{0} -> Items]
  BY DEF StorageOK, HasItem, CopyOver
<1>2. RingOK'
  BY <1>1 DEF RingOK
<1>3. ContentsAre'
  BY ContentsLater
<1>4. Contents' \in Seq(Items) /\ Len(Contents') = 1 /\ Contents'[1] = ring'[(0 + 1) % 1]
  BY <1>1, <1>3 DEF ContentsAre
<1>5. Contents'[1] = x
  BY <1>1, <1>4
<1> QED BY <1>2, <1>4, <1>5

\* The calls that have begun and not returned are those that are somewhere.
OpenOK == \A t \in Tasks : result[t] = "open" <=> pc[t] # "idle"

FifoInv == TypeInv /\ HeldOK /\ RingOK /\ OpenOK

LEMMA FifoInit == Init => FifoInv /\ Fifo!Init
<1> SUFFICES ASSUME Init PROVE FifoInv /\ Fifo!Init
  OBVIOUS
<1>1. TypeInv /\ HeldOK /\ uxLength \in Nat \ {0}
  BY TypeInit, HeldInit, LengthType DEF TypeInv
<1>2. RingOK
  BY <1>1 DEF Init, RingOK
<1>3. ContentsAre
  BY <1>1, ContentsType DEF TypeInv
<1>4. Contents = <<>>
  BY <1>3 DEF Init, ContentsAre
<1> QED BY <1>1, <1>2, <1>4 DEF Init, FifoInv, OpenOK, Fifo!Init

LEMMA SameContents == uxLength' = uxLength /\ UNCHANGED storage => Contents' = Contents
BY DEF Contents, storage

\* Each step is one of BoundedQueue, or changes nothing of it, and keeps the invariant.
LEMMA CallIsFifo ==
    ASSUME FifoInv, TypeInv', NEW t \in Tasks, Call(t), uxLength' = uxLength
    PROVE  RingOK' /\ OpenOK' /\ [Fifo!Next]_(Fifo!bufferVars)
<1> USE DEF FifoInv, TypeInv
<1>1. CASE Sent(t)
  <2>1. item[t] \in Items
    BY DEF CallsOK
  <2>2. /\ RingOK'
        /\ \/ op[t] = "send" /\ HasRoom /\ Contents' = Append(Contents, item[t])
           \/ op[t] = "overwrite" /\ uxLength = 1 /\ Contents' = <<item[t]>>
    <3>1. CASE op[t] = "send" /\ HasRoom /\ CopyToBack(item[t])
      BY <2>1, <3>1, CopyToBackAppends
    <3>2. CASE op[t] = "overwrite" /\ CopyOver(item[t])
      BY <2>1, <3>2, CopyOverReplaces DEF CallsOK
    <3> QED BY <1>1, <3>1, <3>2 DEF Sent
  <2>3. OpenOK'
    BY <1>1 DEF Sent, Returns, StepsTo, OpenOK, CallsOK, EndsOK
  <2>4. Fifo!Ends(t, "pass") /\ got' = got
    BY <1>1 DEF Sent, Returns, StepsTo, OpenOK, CallsOK, Fifo!Ends, Fifo!Others
  <2>5. Len(Contents) < uxLength \/ ~HasRoom
    BY ContentsType DEF ContentsAre, HasRoom
  <2>6. Fifo!Send(t)
    BY <2>2, <2>4, <2>5 DEF Fifo!Send, Fifo!Append1, Fifo!Overwrite
  <2> QED BY <2>2, <2>3, <2>6 DEF Fifo!Next
<1>2. CASE Received(t)
  <2>1. RingOK' /\ Contents' = Tail(Contents)
    BY <1>2, CopyFromRemoves DEF Received
  <2>2. Contents # <<>> /\ Oldest = Head(Contents)
    BY <1>2, OldestIsHead DEF Received
  <2>3. OpenOK'
    BY <1>2 DEF Received, Returns, StepsTo, OpenOK, CallsOK, EndsOK
  <2>4. Fifo!Ends(t, "pass")
    BY <1>2 DEF Received, Returns, StepsTo, OpenOK, CallsOK, Fifo!Ends, Fifo!Others
  <2>5. Fifo!Receive(t)
    BY <1>2, <2>1, <2>2, <2>4 DEF Received, Fifo!Receive, Fifo!Remove
  <2> QED BY <2>1, <2>3, <2>5 DEF Fifo!Next
<1>3. CASE Peeked(t)
  <2>1. RingOK' /\ Contents' = Contents
    BY <1>3, SameContents DEF Peeked, RingOK, storage
  <2>2. Contents # <<>> /\ Oldest = Head(Contents)
    BY <1>3, OldestIsHead DEF Peeked
  <2>3. OpenOK'
    BY <1>3 DEF Peeked, Returns, StepsTo, OpenOK, CallsOK, EndsOK
  <2>4. Fifo!Ends(t, "pass")
    BY <1>3 DEF Peeked, Returns, StepsTo, OpenOK, CallsOK, Fifo!Ends, Fifo!Others
  <2>5. Fifo!Receive(t)
    BY <1>3, <2>1, <2>2, <2>4 DEF Peeked, Fifo!Receive
  <2> QED BY <2>1, <2>3, <2>5 DEF Fifo!Next
<1>4. ASSUME UNCHANGED <<storage, got>>, NEW from, from # "idle", Returns(t, from, "fail")
      PROVE  RingOK' /\ OpenOK' /\ [Fifo!Next]_(Fifo!bufferVars)
  <2>1. RingOK' /\ Contents' = Contents
    BY <1>4, SameContents DEF RingOK, storage
  <2>3. OpenOK'
    BY <1>4 DEF Returns, StepsTo, OpenOK, CallsOK, EndsOK
  <2>4. Fifo!Fail(t)
    BY <1>4, <2>1 DEF Returns, StepsTo, OpenOK, CallsOK, Fifo!Fail, Fifo!Ends, Fifo!Others
  <2> QED BY <2>1, <2>3, <2>4 DEF Fifo!Next
<1>5. ASSUME UNCHANGED <<storage, op, item, ends>>, \A u \in Tasks : pc'[u] = "idle" <=> pc[u] = "idle"
      PROVE  RingOK' /\ OpenOK' /\ [Fifo!Next]_(Fifo!bufferVars)
  <2>1. RingOK' /\ Contents' = Contents
    BY <1>5, SameContents DEF RingOK, storage
  <2> QED BY <1>5, <2>1 DEF OpenOK, ends, Fifo!bufferVars
<1>6. CASE Refused(t)
  BY <1>4, <1>6 DEF Refused
<1>7. CASE Lock(t)
  <2>1. UNCHANGED <<storage, op, item, ends>> /\ \A u \in Tasks : pc'[u] = "idle" <=> pc[u] = "idle"
    BY <1>7 DEF Lock, StepsTo, CallsOK, callVars
  <2> QED BY <1>5, <2>1
<1>8. CASE CheckForTimeOut(t)
  <2>1. UNCHANGED <<storage, op, item, ends>> /\ \A u \in Tasks : pc'[u] = "idle" <=> pc[u] = "idle"
    BY <1>8 DEF CheckForTimeOut, StepsTo, CallsOK
  <2> QED BY <1>5, <2>1
<1>9. CASE Check(t)
  <2>1. UNCHANGED <<storage, op, item, ends>> /\ \A u \in Tasks : pc'[u] = "idle" <=> pc[u] = "idle"
    BY <1>9 DEF Check, StepsTo, CallsOK, callVars
  <2> QED BY <1>5, <2>1
<1>10. CASE Place(t)
  <2>1. UNCHANGED <<storage, op, item, ends>> /\ \A u \in Tasks : pc'[u] = "idle" <=> pc[u] = "idle"
    BY <1>10 DEF Place, CallsOK, callVars
  <2> QED BY <1>5, <2>1
<1>11. CASE UnlockTx(t) \/ UnlockRx(t)
  <2>1. UNCHANGED <<storage, op, item, ends>> /\ \A u \in Tasks : pc'[u] = "idle" <=> pc[u] = "idle"
    BY <1>11 DEF UnlockTx, UnlockRx, callVars
  <2> QED BY <1>5, <2>1
<1>12. CASE Resume(t)
  <2>1. UNCHANGED <<storage, op, item, ends>> /\ \A u \in Tasks : pc'[u] = "idle" <=> pc[u] = "idle"
    BY <1>12 DEF Resume, HeldOK, Locked, CallsOK, callVars
  <2> QED BY <1>5, <2>1
<1>13. CASE Over(t)
  <2>1. CASE Returns(t, "over", "fail")
    BY <1>4, <1>13, <2>1 DEF Over
  <2>2. CASE ~Returns(t, "over", "fail")
    <3>1. UNCHANGED <<storage, op, item, ends>> /\ \A u \in Tasks : pc'[u] = "idle" <=> pc[u] = "idle"
      BY <1>13, <2>2 DEF Over, StepsTo, CallsOK, ends
    <3> QED BY <1>5, <3>1
  <2> QED BY <2>1, <2>2
<1> QED BY <1>1, <1>2, <1>3, <1>6, <1>7, <1>8, <1>9, <1>10, <1>11, <1>12, <1>13 DEF Call

LEMMA FifoNext == FifoInv /\ [Next]_vars => FifoInv' /\ [Fifo!Next]_(Fifo!bufferVars)
<1> SUFFICES ASSUME FifoInv, [Next]_vars PROVE FifoInv' /\ [Fifo!Next]_(Fifo!bufferVars)
  OBVIOUS
<1> USE DEF FifoInv, TypeInv
<1>0. TypeInv' /\ HeldOK' /\ uxLength' = uxLength
  BY TypeNext, HeldNext, LengthStays
<1>1. ASSUME NEW t \in Tasks, Begin(t) PROVE RingOK' /\ OpenOK' /\ [Fifo!Next]_(Fifo!bufferVars)
  <2>1. RingOK' /\ Contents' = Contents
    BY <1>1, SameContents DEF Begin, RingOK, storage
  <2>2. OpenOK'
    BY <1>1 DEF Begin, StepsTo, OpenOK, CallsOK, EndsOK
  <2>3. Fifo!Ask(t)
    BY <1>1, <2>1 DEF Begin, StepsTo, OpenOK, CallsOK, Fifo!Ask, Fifo!Others
  <2> QED BY <2>1, <2>2, <2>3 DEF Fifo!Next
<1>2. ASSUME NEW t \in Tasks, Tick(t) PROVE RingOK' /\ OpenOK' /\ [Fifo!Next]_(Fifo!bufferVars)
  <2>1. RingOK' /\ Contents' = Contents
    BY <1>2, SameContents DEF Tick, RingOK, storage
  <2> QED BY <1>2, <2>1 DEF Tick, OpenOK, ends, Fifo!bufferVars
<1>3. CASE SendFromISR
  <2>1. PICK x \in Items : (HasRoom /\ CopyToBack(x)) \/ (uxLength = 1 /\ CopyOver(x))
    BY <1>3 DEF SendFromISR
  <2>2. RingOK' /\ ((HasRoom /\ Contents' = Append(Contents, x)) \/ (uxLength = 1 /\ Contents' = <<x>>))
    BY <1>0, <2>1, CopyToBackAppends, CopyOverReplaces
  <2>3. Len(Contents) < uxLength \/ ~HasRoom
    BY ContentsType DEF ContentsAre, HasRoom
  <2>4. Fifo!Append1(x) \/ Fifo!Overwrite(x)
    BY <2>2, <2>3 DEF Fifo!Append1, Fifo!Overwrite
  <2>5. UNCHANGED <<uxLength, op, item, result, got>>
    BY <1>3 DEF SendFromISR, callVars, ends
  <2>6. Fifo!Handler
    BY <2>4, <2>5 DEF Fifo!Handler
  <2> QED BY <1>0, <1>3, <2>2, <2>6 DEF SendFromISR, OpenOK, ends, Fifo!Next
<1>4. CASE ReceiveFromISR
  <2>1. RingOK' /\ Contents' = Tail(Contents)
    BY <1>0, <1>4, CopyFromRemoves DEF ReceiveFromISR
  <2>2. Contents # <<>>
    BY <1>4, OldestIsHead DEF ReceiveFromISR
  <2>3. UNCHANGED <<uxLength, op, item, result, got>>
    BY <1>4 DEF ReceiveFromISR, callVars, ends
  <2>4. Fifo!Handler
    BY <2>1, <2>2, <2>3 DEF Fifo!Handler, Fifo!Remove
  <2> QED BY <1>0, <1>4, <2>1, <2>4 DEF ReceiveFromISR, OpenOK, ends, Fifo!Next
<1>5. CASE UNCHANGED vars
  <2>1. RingOK' /\ Contents' = Contents
    BY <1>5, SameContents DEF vars, RingOK, storage
  <2> QED BY <1>0, <1>5, <2>1 DEF vars, callVars, ends, OpenOK, Fifo!bufferVars
<1>6. ASSUME NEW t \in Tasks, Call(t) PROVE RingOK' /\ OpenOK' /\ [Fifo!Next]_(Fifo!bufferVars)
  BY <1>0, <1>6, CallIsFifo
<1> QED BY <1>0, <1>1, <1>2, <1>3, <1>4, <1>5, <1>6 DEF Next

\* A queue implements BoundedQueue: whatever tasks and interrupt handlers do,
\* and whenever they do it, each call takes effect at one moment on a first-in
\* first-out buffer of the length of the queue, or fails without effect.
THEOREM ImplementsBoundedQueue == Spec => QueueIsFifo
<1>1. Init => FifoInv /\ Fifo!Init
  BY FifoInit
<1>2. FifoInv /\ [Next]_vars => FifoInv' /\ [Fifo!Next]_(Fifo!bufferVars)
  BY FifoNext
<1> QED BY <1>1, <1>2, PTL DEF Spec, QueueIsFifo, Fifo!Spec

-----------------------------------------------------------------------------
(* Lists of tasks on which nobody is twice.                                *)

Distinct(list) == \A i, j \in DOMAIN list : list[i] = list[j] => i = j

\* One element is taken, put, or the first are taken.
LEMMA CutOn ==
    ASSUME NEW list \in Seq(Tasks), Distinct(list), NEW i \in 1..Len(list),
           NEW cut \in Seq(Tasks), IsCut(cut, list, i)
    PROVE  Distinct(cut) /\ \A u : OnList(cut, u) <=> OnList(list, u) /\ u # list[i]
<1>1. Len(cut) = Len(list) - 1 /\ Len(list) \in Nat
  BY DEF IsCut
<1>2. ASSUME NEW k \in 1..Len(list) - 1 PROVE cut[k] = IF k < i THEN list[k] ELSE list[k + 1]
  BY DEF IsCut
<1>3. \A m \in 1..Len(list), n \in 1..Len(list) : list[m] = list[n] => m = n
  BY DEF Distinct
<1>4. Distinct(cut)
  <2> SUFFICES ASSUME NEW k \in 1..Len(list) - 1, NEW l \in 1..Len(list) - 1, cut[k] = cut[l]
               PROVE  k = l
    BY <1>1 DEF Distinct
  <2>1. k + 1 \in 1..Len(list) /\ l + 1 \in 1..Len(list) /\ k \in 1..Len(list) /\ l \in 1..Len(list)
    BY <1>1
  <2> QED BY <1>2, <1>3, <2>1
<1>5. ASSUME NEW u, OnList(cut, u) PROVE OnList(list, u) /\ u # list[i]
  <2>1. PICK k \in 1..Len(list) - 1 : cut[k] = u
    BY <1>1, <1>5 DEF OnList
  <2>2. PICK m \in 1..Len(list) : u = list[m] /\ m # i
    BY <1>1, <1>2, <2>1
  <2> QED BY <1>3, <2>2 DEF OnList
<1>6. ASSUME NEW u, OnList(list, u), u # list[i] PROVE OnList(cut, u)
  <2>1. PICK m \in 1..Len(list) : list[m] = u /\ m # i
    BY <1>6 DEF OnList
  <2>2. CASE m < i
    <3>1. m \in 1..Len(list) - 1 /\ cut[m] = u
      BY <1>1, <1>2, <2>1, <2>2
    <3> QED BY <1>1, <3>1 DEF OnList
  <2>3. CASE m > i
    <3>1. m - 1 \in 1..Len(list) - 1 /\ cut[m - 1] = u
      BY <1>1, <1>2, <2>1, <2>3
    <3> QED BY <1>1, <3>1 DEF OnList
  <2> QED BY <2>1, <2>2, <2>3
<1> QED BY <1>4, <1>5, <1>6

LEMMA PutOn ==
    ASSUME NEW list \in Seq(Tasks), Distinct(list), NEW t, ~OnList(list, t), NEW n \in 0..Len(list),
           NEW put \in Seq(Tasks), IsPut(put, list, n, t)
    PROVE  Distinct(put) /\ \A u : OnList(put, u) <=> OnList(list, u) \/ u = t
<1>1. Len(put) = Len(list) + 1 /\ Len(list) \in Nat
  BY DEF IsPut
<1>2. ASSUME NEW k \in 1..Len(list) + 1
      PROVE  put[k] = IF k <= n THEN list[k] ELSE IF k = n + 1 THEN t ELSE list[k - 1]
  BY DEF IsPut
<1>3. /\ \A m \in 1..Len(list) : list[m] # t
      /\ \A m \in 1..Len(list), o \in 1..Len(list) : list[m] = list[o] => m = o
  BY DEF OnList, Distinct
<1>4. Distinct(put)
  <2> SUFFICES ASSUME NEW k \in 1..Len(list) + 1, NEW l \in 1..Len(list) + 1, put[k] = put[l]
               PROVE  k = l
    BY <1>1 DEF Distinct
  <2>1. (k <= n => k \in 1..Len(list)) /\ (k > n + 1 => k - 1 \in 1..Len(list))
    BY <1>1
  <2>2. (l <= n => l \in 1..Len(list)) /\ (l > n + 1 => l - 1 \in 1..Len(list))
    BY <1>1
  <2>3. CASE k <= n
    BY <1>2, <1>3, <2>1, <2>2, <2>3
  <2>4. CASE k = n + 1
    BY <1>2, <1>3, <2>1, <2>2, <2>4
  <2>5. CASE k > n + 1
    <3>1. put[k] = list[k - 1] /\ k - 1 \in 1..Len(list)
      BY <1>2, <2>1, <2>5
    <3>2. put[l] = IF l <= n THEN list[l] ELSE IF l = n + 1 THEN t ELSE list[l - 1]
      BY <1>2
    <3>3. CASE l <= n
      <4>1. list[k - 1] = list[l] /\ l \in 1..Len(list)
        BY <2>2, <3>1, <3>2, <3>3
      <4>2. k - 1 = l
        BY <1>3, <3>1, <4>1
      <4> QED BY <2>5, <3>3, <4>2
    <3>4. CASE l = n + 1
      <4>1. n \in Int /\ ~(l <= n)
        BY <1>1, <3>4
      <4>2. put[l] = t
        BY <3>2, <3>4, <4>1
      <4>3. list[k - 1] = t
        BY <3>1, <4>2
      <4> QED BY <1>3, <3>1, <4>3
    <3>5. CASE l > n + 1
      <4>1. n \in Int /\ ~(l <= n) /\ l # n + 1 /\ k \in Int /\ l \in Int
        BY <1>1, <3>5
      <4>2. put[l] = list[l - 1] /\ l - 1 \in 1..Len(list)
        BY <2>2, <3>2, <3>5, <4>1
      <4>3. list[k - 1] = list[l - 1]
        BY <3>1, <4>2
      <4>4. k - 1 = l - 1
        BY <1>3, <3>1, <4>2, <4>3
      <4> QED BY <4>1, <4>4
    <3> QED BY <1>1, <3>3, <3>4, <3>5
  <2> QED BY <2>3, <2>4, <2>5
<1>5. ASSUME NEW u, OnList(put, u), u # t PROVE OnList(list, u)
  <2>1. PICK k \in 1..Len(list) + 1 : put[k] = u
    BY <1>1, <1>5 DEF OnList
  <2>2. \E m \in 1..Len(list) : list[m] = u
    BY <1>1, <1>2, <1>5, <2>1
  <2> QED BY <2>2 DEF OnList
<1>6. ASSUME NEW u, OnList(list, u) PROVE OnList(put, u)
  <2>1. PICK m \in 1..Len(list) : list[m] = u
    BY <1>6 DEF OnList
  <2>2. CASE m <= n
    <3>1. m \in 1..Len(list) + 1 /\ put[m] = u
      BY <1>1, <1>2, <2>1, <2>2
    <3> QED BY <1>1, <3>1 DEF OnList
  <2>3. CASE m > n
    <3>1. m + 1 \in 1..Len(list) + 1 /\ put[m + 1] = list[m + 1 - 1] /\ m + 1 - 1 = m
      BY <1>1, <1>2, <2>3
    <3> QED BY <1>1, <2>1, <3>1 DEF OnList
  <2> QED BY <2>1, <2>2, <2>3
<1>7. OnList(put, t)
  <2>1. n + 1 \in 1..Len(list) + 1 /\ put[n + 1] = t
    BY <1>1, <1>2
  <2> QED BY <1>1, <2>1 DEF OnList
<1> QED BY <1>4, <1>5, <1>6, <1>7

LEMMA RestOn ==
    ASSUME NEW list \in Seq(Tasks), Distinct(list), NEW n \in 0..Len(list),
           NEW rest \in Seq(Tasks), IsRest(rest, list, n)
    PROVE  /\ Distinct(rest) /\ \A u : OnList(rest, u) => OnList(list, u)
           /\ \E gone : /\ IsFiniteSet(gone) /\ Cardinality(gone) = n
                        /\ \A u \in gone : u \in Tasks /\ OnList(list, u) /\ ~OnList(rest, u)
<1>1. Len(rest) = Len(list) - n /\ Len(list) \in Nat
  BY DEF IsRest
<1>2. \A k \in 1..Len(list) - n : rest[k] = list[n + k]
  BY DEF IsRest
<1>3. \A m \in 1..Len(list), o \in 1..Len(list) : list[m] = list[o] => m = o
  BY DEF Distinct
<1>4. Distinct(rest)
  BY <1>1, <1>2, <1>3 DEF Distinct
<1>5. ASSUME NEW u, OnList(rest, u) PROVE \E m \in n + 1..Len(list) : list[m] = u
  BY <1>1, <1>2, <1>5 DEF OnList
<1>6. \A u : OnList(rest, u) => OnList(list, u)
  BY <1>1, <1>5 DEF OnList
<1> DEFINE gone == {list[i] : i \in 1..n}
           f == [i \in 1..n |-> list[i]]
<1>7. f \in Bijection(1..n, gone)
  <2>1. \A i, j \in 1..n : list[i] = list[j] => i = j
    BY <1>1, <1>3
  <2> QED BY <2>1 DEF Bijection, Injection, Surjection, IsInjective
<1>8. IsFiniteSet(1..n) /\ Cardinality(1..n) = n
  <2>1. 1 \in Int /\ n \in Int /\ (1 > n => n = 0)
    BY <1>1
  <2>2. IsFiniteSet(1..n) /\ Cardinality(1..n) = IF 1 > n THEN 0 ELSE n - 1 + 1
    BY <2>1, FS_Interval, Zenon
  <2> QED BY <2>1, <2>2
<1>9. IsFiniteSet(gone) /\ Cardinality(gone) = n
  BY <1>7, <1>8, FS_Bijection DEF ExistsBijection
<1>10. ASSUME NEW i \in 1..n PROVE list[i] \in Tasks /\ OnList(list, list[i]) /\ ~OnList(rest, list[i])
  <2>1. i \in 1..Len(list) /\ \A m \in n + 1..Len(list) : m \in 1..Len(list) /\ m # i
    BY <1>1
  <2>2. list[i] \in Tasks /\ OnList(list, list[i])
    BY <2>1 DEF OnList
  <2>3. \A m \in n + 1..Len(list) : list[m] # list[i]
    BY <1>3, <2>1
  <2>4. ~OnList(rest, list[i])
    BY <1>5, <2>3
  <2> QED BY <2>2, <2>4
<1> QED BY <1>4, <1>6, <1>9, <1>10

\* The first of a list leaves it, the others stay.
LEMMA WakeOn ==
    ASSUME NEW list \in Seq(Tasks), Distinct(list), list # <<>>
    PROVE  /\ Distinct(Wake(list)) /\ Head(list) \in Tasks /\ OnList(list, Head(list))
           /\ \A u : OnList(Wake(list), u) <=> OnList(list, u) /\ u # Head(list)
<1>1. /\ Tail(list) \in Seq(Tasks) /\ IsCut(Tail(list), list, 1)
      /\ Head(list) = list[1] /\ 1 \in 1..Len(list) /\ Wake(list) = Tail(list)
  BY TailIsCut DEF Wake
<1>2. Head(list) \in Tasks /\ OnList(list, Head(list))
  BY <1>1 DEF OnList
<1> QED BY <1>1, <1>2, CutOn, Zenon

\* Who is taken off a list leaves it, the others stay.
LEMMA WithoutOn ==
    ASSUME NEW list \in Seq(Tasks), Distinct(list), NEW t
    PROVE  /\ Distinct(Without(list, t))
           /\ \A u : OnList(Without(list, t), u) <=> OnList(list, u) /\ u # t
<1>1. CASE ~OnList(list, t)
  BY <1>1, Zenon DEF Without
<1>2. CASE OnList(list, t)
  <2>1. PICK i \in 1..Len(list) :
          list[i] = t /\ Without(list, t) = SubSeq(list, 1, i - 1) \o SubSeq(list, i + 1, Len(list))
    BY <1>2, WithoutAt, Zenon
  <2>2. Without(list, t) \in Seq(Tasks) /\ IsCut(Without(list, t), list, i)
    BY <2>1, Cut, Zenon
  <2> QED BY <2>1, <2>2, CutOn, Zenon
<1> QED BY <1>1, <1>2

\* Who is placed on a list is on it, with those that were.
LEMMA PlacedOn ==
    ASSUME NEW list \in Seq(Tasks), Distinct(list), NEW t \in Tasks, ~OnList(list, t)
    PROVE  /\ Distinct(Placed(list, t))
           /\ \A u : OnList(Placed(list, t), u) <=> OnList(list, u) \/ u = t
<1>1. PICK n \in 0..Len(list) :
        Placed(list, t) = SubSeq(list, 1, n) \o <<t>> \o SubSeq(list, n + 1, Len(list))
  BY PlacedAt, Zenon
<1>2. Placed(list, t) \in Seq(Tasks) /\ IsPut(Placed(list, t), list, n, t)
  BY <1>1, PutIn, Zenon
<1> QED BY <1>2, PutOn, Zenon

\* Those that are made up for leave the list, as many as were counted, the others stay.
LEMMA MadeUpOn ==
    ASSUME NEW list \in Seq(Tasks), Distinct(list), NEW lock \in Nat
    PROVE  /\ Distinct(MadeUp(list, lock))
           /\ \A u : OnList(MadeUp(list, lock), u) => OnList(list, u)
           /\ MadeUp(list, lock) # <<>> =>
                \E gone : /\ IsFiniteSet(gone) /\ Cardinality(gone) = lock
                          /\ \A u \in gone : u \in Tasks /\ OnList(list, u) /\ ~OnList(MadeUp(list, lock), u)
<1>1. PICK n : n = IF lock < Len(list) THEN lock ELSE Len(list)
  OBVIOUS
<1>2. n \in 0..Len(list) /\ Len(list) \in Nat
  BY <1>1
<1>3. MadeUp(list, lock) = SubSeq(list, n + 1, Len(list))
  <2>1. CASE lock > 0
    BY <1>1, <2>1 DEF MadeUp, queueLOCKED_UNMODIFIED
  <2>2. CASE lock = 0
    <3>1. n = 0 /\ MadeUp(list, lock) = list
      BY <1>1, <1>2, <2>2 DEF MadeUp, queueLOCKED_UNMODIFIED
    <3>2. SubSeq(list, 1, Len(list)) = list
      BY SubSeqFull
    <3> QED BY <3>1, <3>2
  <2> QED BY <2>1, <2>2
<1>4. MadeUp(list, lock) \in Seq(Tasks) /\ IsRest(MadeUp(list, lock), list, n)
  BY <1>2, <1>3, Rest, Zenon
<1>5. MadeUp(list, lock) # <<>> => n = lock
  BY <1>1, <1>2, <1>4 DEF IsRest
<1>6. /\ Distinct(MadeUp(list, lock)) /\ \A u : OnList(MadeUp(list, lock), u) => OnList(list, u)
      /\ \E gone : /\ IsFiniteSet(gone) /\ Cardinality(gone) = n
                   /\ \A u \in gone : u \in Tasks /\ OnList(list, u) /\ ~OnList(MadeUp(list, lock), u)
  BY <1>2, <1>4, RestOn, Zenon
<1> QED BY <1>5, <1>6, Zenon

LEMMA MadeUpEmpty == \A lock \in Nat : MadeUp(<<>>, lock) = <<>>
BY DEF MadeUp, queueLOCKED_UNMODIFIED

-----------------------------------------------------------------------------
(* Who waits, and who has been woken.                                      *)

\* A task is once on a list, where it belongs, and only while it waits.
WaitersOK ==
    /\ Distinct(xTasksWaitingToSend) /\ Distinct(xTasksWaitingToReceive)
    /\ \A t \in Tasks : OnList(xTasksWaitingToSend, t) => op[t] = "send" /\ pc[t] \in {"try", "unlock"}
    /\ \A t \in Tasks : OnList(xTasksWaitingToReceive, t) =>
          op[t] \in {"receive", "peek"} /\ pc[t] \in {"try", "unlock"}

LEMMA NoneOnEmpty == \A u : ~OnList(<<>>, u)
BY DEF OnList

LEMMA WaitersInit == Init => WaitersOK
BY DEF Init, WaitersOK, Distinct, OnList

\* What happens to the lists: the first is woken, one is placed, one is taken off.
LEMMA WakeEither ==
    ASSUME NEW list \in Seq(Tasks), Distinct(list)
    PROVE  Distinct(Wake(list)) /\ \A u : OnList(Wake(list), u) => OnList(list, u)
<1>1. CASE list = <<>>
  BY <1>1 DEF Wake
<1>2. CASE list # <<>>
  BY <1>2, WakeOn
<1> QED BY <1>1, <1>2

LEMMA WaitersNext == TypeInv /\ HeldOK /\ WaitersOK /\ [Next]_vars => WaitersOK'
<1> SUFFICES ASSUME TypeInv, HeldOK, WaitersOK, [Next]_vars PROVE WaitersOK'
  OBVIOUS
<1>0. /\ xTasksWaitingToSend \in Seq(Tasks) /\ xTasksWaitingToReceive \in Seq(Tasks)
      /\ cTxLock \in Int /\ cRxLock \in Int /\ cTxLock >= -1 /\ cRxLock >= -1 /\ CallsOK
  BY LengthType DEF TypeInv, ListsOK, LocksOK
<1>1. ASSUME NEW t \in Tasks, Begin(t) PROVE WaitersOK'
  BY <1>0, <1>1 DEF Begin, StepsTo, WaitersOK, CallsOK, lists
<1>2. ASSUME NEW t \in Tasks, Tick(t) PROVE WaitersOK'
  <2>1. /\ Distinct(xTasksWaitingToSend') /\ Distinct(xTasksWaitingToReceive')
        /\ \A u : OnList(xTasksWaitingToSend', u) => OnList(xTasksWaitingToSend, u)
        /\ \A u : OnList(xTasksWaitingToReceive', u) => OnList(xTasksWaitingToReceive, u)
    BY <1>0, <1>2, WithoutOn DEF Tick, WaitersOK
  <2> QED BY <1>2, <2>1 DEF Tick, WaitersOK
<1>3. CASE SendFromISR
  <2>1. /\ Distinct(xTasksWaitingToReceive')
        /\ \A u : OnList(xTasksWaitingToReceive', u) => OnList(xTasksWaitingToReceive, u)
    BY <1>0, <1>3, WakeEither DEF SendFromISR, WaitersOK
  <2> QED BY <1>3, <2>1 DEF SendFromISR, WaitersOK, callVars
<1>4. CASE ReceiveFromISR
  <2>1. /\ Distinct(xTasksWaitingToSend')
        /\ \A u : OnList(xTasksWaitingToSend', u) => OnList(xTasksWaitingToSend, u)
    BY <1>0, <1>4, WakeEither DEF ReceiveFromISR, WaitersOK
  <2> QED BY <1>4, <2>1 DEF ReceiveFromISR, WaitersOK, callVars
<1>5. CASE UNCHANGED vars
  BY <1>5 DEF vars, lists, callVars, WaitersOK
<1>6. ASSUME NEW t \in Tasks, Call(t) PROVE WaitersOK'
  <2>1. ASSUME NEW from \in {"try", "over"}, NEW how, Returns(t, from, how),
               Distinct(xTasksWaitingToSend'), Distinct(xTasksWaitingToReceive'),
               \A u : OnList(xTasksWaitingToSend', u) => OnList(xTasksWaitingToSend, u),
               \A u : OnList(xTasksWaitingToReceive', u) => OnList(xTasksWaitingToReceive, u)
        PROVE  WaitersOK'
    BY <1>0, <2>1 DEF Returns, StepsTo, Runs, Blocked, WaitersOK, CallsOK
  <2>2. CASE Sent(t)
    BY <1>0, <2>1, <2>2, WakeEither DEF Sent, WaitersOK
  <2>3. CASE Received(t)
    BY <1>0, <2>1, <2>3, WakeEither DEF Received, WaitersOK
  <2>4. CASE Peeked(t)
    BY <1>0, <2>1, <2>4, WakeEither DEF Peeked, WaitersOK
  <2>5. CASE Refused(t)
    BY <2>1, <2>5 DEF Refused, WaitersOK, lists
  <2>6. CASE Lock(t)
    BY <1>0, <2>6 DEF Lock, StepsTo, Runs, Blocked, WaitersOK, CallsOK, callVars, lists
  <2>7. CASE CheckForTimeOut(t)
    BY <1>0, <2>7 DEF CheckForTimeOut, StepsTo, Runs, Blocked, WaitersOK, CallsOK, lists
  <2>8. CASE Check(t)
    BY <1>0, <2>8 DEF Check, StepsTo, Runs, Blocked, WaitersOK, CallsOK, lists, callVars
  <2>9. CASE Place(t)
    <3>1. /\ op[t] # "overwrite" /\ pc[t] = "place" /\ pc' = [pc EXCEPT ![t] = "unlock"]
          /\ ~OnList(xTasksWaitingToSend, t) /\ ~OnList(xTasksWaitingToReceive, t)
      BY <2>9 DEF Place, HeldOK, WaitersOK
    <3>2. CASE Sends(t)
      <4>1. /\ Distinct(xTasksWaitingToSend')
            /\ \A u : OnList(xTasksWaitingToSend', u) <=> OnList(xTasksWaitingToSend, u) \/ u = t
        BY <1>0, <2>9, <3>1, <3>2, PlacedOn DEF Place, WaitersOK
      <4> QED BY <1>0, <2>9, <3>1, <3>2, <4>1 DEF Place, Sends, WaitersOK, callVars, CallsOK
    <3>3. CASE ~Sends(t)
      <4>1. /\ Distinct(xTasksWaitingToReceive')
            /\ \A u : OnList(xTasksWaitingToReceive', u) <=> OnList(xTasksWaitingToReceive, u) \/ u = t
        BY <1>0, <2>9, <3>1, <3>3, PlacedOn DEF Place, WaitersOK
      <4> QED BY <1>0, <2>9, <3>1, <3>3, <4>1 DEF Place, Sends, WaitersOK, callVars, CallsOK
    <3> QED BY <3>2, <3>3
  <2>10. CASE UnlockTx(t)
    <3>1. cTxLock \in Nat
      BY <1>0, <2>10 DEF UnlockTx, queueUNLOCKED
    <3>2. /\ Distinct(xTasksWaitingToReceive')
          /\ \A u : OnList(xTasksWaitingToReceive', u) => OnList(xTasksWaitingToReceive, u)
      BY <1>0, <2>10, <3>1, MadeUpOn DEF UnlockTx, WaitersOK
    <3> QED BY <2>10, <3>2 DEF UnlockTx, WaitersOK, callVars
  <2>11. CASE UnlockRx(t)
    <3>1. cRxLock \in Nat
      BY <1>0, <2>11 DEF UnlockRx, queueUNLOCKED
    <3>2. /\ Distinct(xTasksWaitingToSend')
          /\ \A u : OnList(xTasksWaitingToSend', u) => OnList(xTasksWaitingToSend, u)
      BY <1>0, <2>11, <3>1, MadeUpOn DEF UnlockRx, WaitersOK
    <3> QED BY <2>11, <3>2 DEF UnlockRx, WaitersOK, callVars
  <2>12. CASE Resume(t)
    BY <1>0, <2>12 DEF Resume, WaitersOK, CallsOK, lists, callVars
  <2>13. CASE Over(t)
    <3>1. CASE Returns(t, "over", "fail")
      BY <2>1, <2>13, <3>1 DEF Over, WaitersOK, lists
    <3>2. CASE ~Returns(t, "over", "fail")
      BY <1>0, <2>13, <3>2 DEF Over, StepsTo, Runs, Blocked, WaitersOK, CallsOK, lists
    <3> QED BY <3>1, <3>2
  <2> QED BY <1>6, <2>2, <2>3, <2>4, <2>5, <2>6, <2>7, <2>8, <2>9, <2>10, <2>11, <2>12, <2>13 DEF Call
<1> QED BY <1>1, <1>2, <1>3, <1>4, <1>5, <1>6 DEF Next

-----------------------------------------------------------------------------
(* Counting those that have been woken or are trying.                      *)

\* A set of tasks that others join or leave.
LEMMA TasksCount ==
    ASSUME NEW A \in SUBSET Tasks PROVE IsFiniteSet(A) /\ Cardinality(A) \in Nat
BY KernelQueueAssumption, FS_Subset, FS_CardinalityType

LEMMA Grows ==
    ASSUME NEW A \in SUBSET Tasks, NEW B \in SUBSET Tasks, A \subseteq B
    PROVE  Cardinality(A) <= Cardinality(B)
BY TasksCount, FS_Subset

LEMMA GrowsByMany ==
    ASSUME NEW A \in SUBSET Tasks, NEW B \in SUBSET Tasks, NEW more \in SUBSET Tasks,
           A \cup more \subseteq B, A \cap more = {}
    PROVE  Cardinality(A) + Cardinality(more) <= Cardinality(B)
<1>1. Cardinality(A \cup more) = Cardinality(A) + Cardinality(more) - Cardinality({})
  BY TasksCount, FS_Union
<1>2. Cardinality({}) = 0 /\ Cardinality(A) \in Nat /\ Cardinality(more) \in Nat
  BY TasksCount, FS_EmptySet
<1>3. Cardinality(A \cup more) <= Cardinality(B)
  BY Grows
<1> QED BY <1>1, <1>2, <1>3

LEMMA GrowsByOne ==
    ASSUME NEW A \in SUBSET Tasks, NEW B \in SUBSET Tasks, NEW x \in B, A \subseteq B, x \notin A
    PROVE  Cardinality(A) + 1 <= Cardinality(B)
<1>1. Cardinality({x}) = 1
  BY FS_Singleton
<1>2. {x} \in SUBSET Tasks /\ A \cup {x} \subseteq B /\ A \cap {x} = {}
  OBVIOUS
<1> QED BY <1>1, <1>2, GrowsByMany

LEMMA ShrinksByOne ==
    ASSUME NEW A \in SUBSET Tasks, NEW B \in SUBSET Tasks, NEW x, A \ {x} \subseteq B
    PROVE  Cardinality(A) <= Cardinality(B) + 1
<1>1. Cardinality(A \ {x}) = (IF x \in A THEN Cardinality(A) - 1 ELSE Cardinality(A))
  BY TasksCount, FS_RemoveElement
<1>2. A \ {x} \in SUBSET Tasks /\ Cardinality(A) \in Nat /\ Cardinality(B) \in Nat
  BY TasksCount
<1>3. Cardinality(A \ {x}) <= Cardinality(B)
  BY <1>2, Grows
<1> QED BY <1>1, <1>2, <1>3

LEMMA Exchange ==
    ASSUME NEW A \in SUBSET Tasks, NEW B \in SUBSET Tasks, NEW x \in A, NEW y \in B,
           A \ {x} \subseteq B, y \notin A
    PROVE  Cardinality(A) <= Cardinality(B)
<1>1. Cardinality(A \ {x}) = Cardinality(A) - 1
  BY TasksCount, FS_RemoveElement
<1>2. A \ {x} \in SUBSET Tasks /\ y \notin A \ {x} /\ Cardinality(A) \in Nat /\ Cardinality(B) \in Nat
  BY TasksCount
<1>3. Cardinality(A \ {x}) + 1 <= Cardinality(B)
  BY <1>2, GrowsByOne
<1> QED BY <1>1, <1>2, <1>3

\* What handlers have moved while the queue was locked.
Counted(lock) == IF lock > 0 THEN lock ELSE 0

\* Those that will look for an item, or for room, without being woken for it.
Receivers == {t \in Tasks : /\ op[t] \in {"receive", "peek"} /\ pc[t] \in {"try", "unlock", "late", "over"}
                            /\ ~OnList(xTasksWaitingToReceive, t)}
Senders == {t \in Tasks : op[t] = "send" /\ pc[t] \in {"try", "unlock"} /\ ~OnList(xTasksWaitingToSend, t)}

\* Some wait, or are about to.
ReceiversWait == xTasksWaitingToReceive # <<>> \/ \E t \in Tasks : pc[t] = "place" /\ ~Sends(t)
SendersWait == xTasksWaitingToSend # <<>> \/ \E t \in Tasks : pc[t] = "place" /\ Sends(t)

\* While some wait, others will look after every item, and after all the room.
ReceiversOK == ReceiversWait => uxMessagesWaiting <= Cardinality(Receivers) + Counted(cTxLock)
SendersOK == SendersWait => uxLength - uxMessagesWaiting <= Cardinality(Senders) + Counted(cRxLock)

WakeInv == TypeInv /\ HeldOK /\ WaitersOK

CountsOK == /\ Receivers \in SUBSET Tasks /\ Cardinality(Receivers) \in Nat
            /\ Senders \in SUBSET Tasks /\ Cardinality(Senders) \in Nat
            /\ uxMessagesWaiting \in 0..uxLength /\ uxLength \in Nat \ {0}
            /\ cTxLock \in Int /\ cRxLock \in Int /\ cTxLock >= -1 /\ cRxLock >= -1
            /\ Counted(cTxLock) \in Nat /\ Counted(cRxLock) \in Nat

LEMMA CountTypes == WakeInv => CountsOK
<1> SUFFICES ASSUME WakeInv PROVE CountsOK
  OBVIOUS
<1>1. Receivers \in SUBSET Tasks /\ Senders \in SUBSET Tasks
  BY DEF Receivers, Senders
<1>2. uxLength \in Nat \ {0} /\ isrs \in Nat
  BY LengthType DEF WakeInv, TypeInv
<1>3. cTxLock \in -1..isrs /\ cRxLock \in -1..isrs /\ uxMessagesWaiting \in 0..uxLength
  BY DEF WakeInv, TypeInv, LocksOK, StorageOK
<1> QED BY <1>1, <1>2, <1>3, TasksCount DEF Counted, CountsOK

LEMMA CountTypesLater == WakeInv' => CountsOK'
BY CountTypes, PTL

\* Nobody is between prvLockQueue and xTaskResumeAll while another task runs.
LEMMA NobodyPlaces ==
    ASSUME WakeInv, NEW t \in Tasks, Runs(t), pc[t] \notin Locked
    PROVE  /\ suspended = None /\ cTxLock = -1 /\ cRxLock = -1
           /\ \A u \in Tasks : pc[u] \notin Locked
BY KernelQueueAssumption DEF WakeInv, HeldOK, Runs, queueUNLOCKED

LEMMA ReceiversCall ==
    ASSUME WakeInv, WakeInv', ReceiversOK, NEW t \in Tasks, Call(t), uxLength' = uxLength
    PROVE  ReceiversOK'
<1>0. CountsOK /\ CountsOK' /\ CallsOK /\ HeldOK /\ WaitersOK
  BY CountTypes, CountTypesLater DEF WakeInv, TypeInv
\* Nobody leaves.
<1>1. ASSUME ReceiversWait' => ReceiversWait, uxMessagesWaiting' <= uxMessagesWaiting,
             Receivers \subseteq Receivers', cTxLock' = cTxLock
      PROVE  ReceiversOK'
  <2>1. Cardinality(Receivers) <= Cardinality(Receivers')
    BY <1>0, <1>1, Grows DEF CountsOK
  <2> QED BY <1>0, <1>1, <2>1 DEF ReceiversOK, CountsOK
<1>2. ASSUME uxMessagesWaiting = 0, uxMessagesWaiting' = uxMessagesWaiting PROVE ReceiversOK'
  BY <1>0, <1>2 DEF ReceiversOK, CountsOK
<1>3. ASSUME NEW how, Returns(t, "try", how)
      PROVE  /\ cTxLock = -1 /\ pc' = [pc EXCEPT ![t] = "idle"] /\ op' = [op EXCEPT ![t] = "send"]
             /\ ~OnList(xTasksWaitingToReceive, t)
             /\ \A u \in Tasks : pc[u] # "place" /\ pc'[u] # "place"
  BY <1>0, <1>3, NobodyPlaces DEF Returns, StepsTo, Runs, Blocked, Locked, CallsOK
<1>4. CASE Sent(t)
  <2>1. Sends(t) /\ Returns(t, "try", "pass") /\ xTasksWaitingToReceive' = Wake(xTasksWaitingToReceive) /\ cTxLock' = cTxLock
    BY <1>4 DEF Sent, locks
  <2>2. uxMessagesWaiting' <= uxMessagesWaiting + 1
    BY <1>0, <1>4 DEF Sent, CopyToBack, CopyOver, HasItem, CountsOK
  <2> SUFFICES ASSUME ReceiversWait' PROVE uxMessagesWaiting' <= Cardinality(Receivers') + Counted(cTxLock')
    BY DEF ReceiversOK
  <2>3. xTasksWaitingToReceive # <<>>
    BY <1>3, <2>1 DEF ReceiversWait, Wake
  <2> DEFINE first == Head(xTasksWaitingToReceive)
  <2>4. /\ first \in Tasks /\ OnList(xTasksWaitingToReceive, first)
        /\ \A u : OnList(xTasksWaitingToReceive', u) <=> OnList(xTasksWaitingToReceive, u) /\ u # first
    BY <2>1, <2>3, WakeOn DEF WakeInv, TypeInv, ListsOK, WaitersOK
  <2> HIDE DEF first
  <2>5. Receivers \subseteq Receivers' /\ first \in Receivers' /\ first \notin Receivers
    BY <1>0, <1>3, <2>1, <2>4 DEF Receivers, Sends, WaitersOK, CallsOK
  <2>6. Cardinality(Receivers) + 1 <= Cardinality(Receivers')
    BY <1>0, <2>5, GrowsByOne DEF CountsOK
  <2>7. uxMessagesWaiting <= Cardinality(Receivers) + Counted(cTxLock)
    BY <2>3 DEF ReceiversOK, ReceiversWait
  <2> QED BY <1>0, <2>1, <2>2, <2>6, <2>7 DEF CountsOK
<1>5. CASE Received(t)
  <2>1. /\ op[t] = "receive" /\ Returns(t, "try", "pass") /\ cTxLock' = cTxLock
        /\ xTasksWaitingToReceive' = xTasksWaitingToReceive /\ uxMessagesWaiting' = uxMessagesWaiting - 1
    BY <1>5 DEF Received, CopyFrom, locks
  <2>2. Receivers \ {t} \subseteq Receivers'
    BY <1>0, <1>3, <2>1 DEF Receivers, CallsOK
  <2>3. Cardinality(Receivers) <= Cardinality(Receivers') + 1
    BY <1>0, <2>2, ShrinksByOne DEF CountsOK
  <2>4. ReceiversWait' => ReceiversWait
    BY <1>3, <2>1 DEF ReceiversWait
  <2> QED BY <1>0, <2>1, <2>3, <2>4 DEF ReceiversOK, CountsOK
<1>6. CASE Peeked(t)
  <2>1. /\ op[t] = "peek" /\ pc[t] = "try" /\ Returns(t, "try", "pass") /\ cTxLock' = cTxLock
        /\ xTasksWaitingToReceive' = Wake(xTasksWaitingToReceive) /\ uxMessagesWaiting' = uxMessagesWaiting
    BY <1>6 DEF Peeked, Returns, StepsTo, storage, locks
  <2> SUFFICES ASSUME ReceiversWait' PROVE uxMessagesWaiting' <= Cardinality(Receivers') + Counted(cTxLock')
    BY DEF ReceiversOK
  <2>3. xTasksWaitingToReceive # <<>>
    BY <1>3, <2>1 DEF ReceiversWait, Wake
  <2> DEFINE first == Head(xTasksWaitingToReceive)
  <2>4. /\ first \in Tasks /\ OnList(xTasksWaitingToReceive, first)
        /\ \A u : OnList(xTasksWaitingToReceive', u) <=> OnList(xTasksWaitingToReceive, u) /\ u # first
    BY <2>1, <2>3, WakeOn DEF WakeInv, TypeInv, ListsOK, WaitersOK
  <2> HIDE DEF first
  <2>5. Receivers \ {t} \subseteq Receivers' /\ t \in Receivers /\ first \in Receivers' /\ first \notin Receivers
    BY <1>0, <1>3, <2>1, <2>4 DEF Receivers, WaitersOK, CallsOK
  <2>6. Cardinality(Receivers) <= Cardinality(Receivers')
    BY <1>0, <2>5, Exchange DEF CountsOK
  <2>7. uxMessagesWaiting <= Cardinality(Receivers) + Counted(cTxLock)
    BY <2>3 DEF ReceiversOK, ReceiversWait
  <2> QED BY <1>0, <2>1, <2>6, <2>7 DEF CountsOK
<1>7. CASE Refused(t)
  <2>1. /\ UNCHANGED <<uxMessagesWaiting, xTasksWaitingToReceive, cTxLock>>
        /\ Returns(t, "try", "fail") /\ MustWait(t)
    BY <1>7 DEF Refused, storage, lists, locks
  <2>2. CASE Sends(t)
    BY <1>0, <1>1, <1>3, <2>1, <2>2 DEF ReceiversWait, Receivers, Sends, CallsOK, CountsOK
  <2>3. CASE ~Sends(t)
    BY <1>0, <1>2, <2>1, <2>3 DEF MustWait, HasItem, CountsOK
  <2> QED BY <2>2, <2>3
<1>8. CASE Lock(t)
  <2>1. /\ UNCHANGED <<uxMessagesWaiting, xTasksWaitingToReceive, op>> /\ MustWait(t) /\ cTxLock' = 0
        /\ pc' = [pc EXCEPT ![t] = "locked"] /\ StepsTo(t, "try", "locked")
    BY <1>8 DEF Lock, StepsTo, storage, lists, callVars, queueLOCKED_UNMODIFIED
  <2>2. CASE Sends(t)
    <3>1. cTxLock = -1
      BY <2>1, NobodyPlaces DEF StepsTo, Locked
    <3>2. Receivers \subseteq Receivers' /\ (ReceiversWait' => ReceiversWait)
      BY <1>0, <2>1, <2>2 DEF Receivers, ReceiversWait, Sends, CallsOK
    <3>3. Cardinality(Receivers) <= Cardinality(Receivers')
      BY <1>0, <3>2, Grows DEF CountsOK
    <3> QED BY <1>0, <2>1, <3>1, <3>2, <3>3 DEF ReceiversOK, CountsOK, Counted
  <2>3. CASE ~Sends(t)
    BY <1>0, <1>2, <2>1, <2>3 DEF MustWait, HasItem, CountsOK
  <2> QED BY <2>2, <2>3
<1>9. CASE CheckForTimeOut(t)
  <2>1. /\ UNCHANGED <<uxMessagesWaiting, xTasksWaitingToReceive, cTxLock, op>> /\ pc[t] = "locked"
        /\ \E to \in {"late", "check"} : pc' = [pc EXCEPT ![t] = to]
    BY <1>9 DEF CheckForTimeOut, StepsTo, storage, lists, locks
  <2>2. Receivers \subseteq Receivers' /\ (ReceiversWait' => ReceiversWait)
    BY <1>0, <2>1 DEF Receivers, ReceiversWait, Sends, CallsOK
  <2> QED BY <1>0, <1>1, <2>1, <2>2 DEF CountsOK
<1>10. CASE Check(t)
  <2>1. /\ UNCHANGED <<uxMessagesWaiting, xTasksWaitingToReceive, cTxLock, op>> /\ pc[t] \in {"locked", "check"}
        /\ pc' = [pc EXCEPT ![t] = IF MustWait(t) THEN "place" ELSE "unlock"]
    BY <1>10 DEF Check, StepsTo, storage, lists, locks, callVars
  <2>2. CASE ~Sends(t) /\ MustWait(t)
    BY <1>0, <1>2, <2>1, <2>2 DEF MustWait, HasItem, CountsOK
  <2>3. CASE Sends(t) \/ ~MustWait(t)
    <3>1. Receivers \subseteq Receivers' /\ (ReceiversWait' => ReceiversWait)
      BY <1>0, <2>1, <2>3 DEF Receivers, ReceiversWait, Sends, CallsOK
    <3> QED BY <1>0, <1>1, <2>1, <3>1 DEF CountsOK
  <2> QED BY <2>2, <2>3
<1>11. CASE Place(t)
  <2>1. /\ UNCHANGED <<uxMessagesWaiting, cTxLock, op>> /\ pc[t] = "place" /\ pc' = [pc EXCEPT ![t] = "unlock"]
        /\ ~OnList(xTasksWaitingToReceive, t)
        /\ IF Sends(t) THEN xTasksWaitingToReceive' = xTasksWaitingToReceive
           ELSE xTasksWaitingToReceive' = Placed(xTasksWaitingToReceive, t)
    BY <1>0, <1>11 DEF Place, storage, locks, callVars, WaitersOK
  <2>2. \A u \in Tasks : u # t => (OnList(xTasksWaitingToReceive', u) <=> OnList(xTasksWaitingToReceive, u))
    BY <2>1, PlacedOn DEF WakeInv, WaitersOK, TypeInv, ListsOK
  <2>3. Receivers \subseteq Receivers'
    BY <1>0, <2>1, <2>2 DEF Receivers, CallsOK
  <2>4. ReceiversWait' => ReceiversWait
    BY <1>0, <2>1 DEF ReceiversWait, Sends, CallsOK
  <2> QED BY <1>0, <1>1, <2>1, <2>3, <2>4 DEF CountsOK
<1>12. CASE UnlockTx(t)
  <2>1. /\ UNCHANGED <<uxMessagesWaiting, pc, op>> /\ pc[t] \in {"unlock", "late"} /\ suspended = t
        /\ xTasksWaitingToReceive' = MadeUp(xTasksWaitingToReceive, cTxLock) /\ cTxLock' = -1 /\ cTxLock \in Nat
    BY <1>0, <1>12 DEF UnlockTx, storage, callVars, queueUNLOCKED, CountsOK
  <2> SUFFICES ASSUME ReceiversWait' PROVE uxMessagesWaiting' <= Cardinality(Receivers') + Counted(cTxLock')
    BY DEF ReceiversOK
  <2>2. \A u \in Tasks : pc[u] # "place"
    BY <1>0, <2>1 DEF HeldOK, Locked
  <2>3. xTasksWaitingToReceive' # <<>> /\ xTasksWaitingToReceive # <<>>
    BY <2>1, <2>2, MadeUpEmpty DEF ReceiversWait
  <2>4. \A u : OnList(xTasksWaitingToReceive', u) => OnList(xTasksWaitingToReceive, u)
    BY <2>1, MadeUpOn DEF WakeInv, WaitersOK, TypeInv, ListsOK
  <2>5. PICK gone : /\ IsFiniteSet(gone) /\ Cardinality(gone) = cTxLock
                    /\ \A u \in gone : /\ u \in Tasks /\ OnList(xTasksWaitingToReceive, u)
                                       /\ ~OnList(xTasksWaitingToReceive', u)
    <3>1. xTasksWaitingToReceive \in Seq(Tasks) /\ Distinct(xTasksWaitingToReceive) /\ cTxLock \in Nat
      BY <2>1 DEF WakeInv, WaitersOK, TypeInv, ListsOK
    <3>2. MadeUp(xTasksWaitingToReceive, cTxLock) # <<>>
      BY <2>1, <2>3
    <3> HIDE DEF MadeUp
    <3> QED BY <2>1, <3>1, <3>2, MadeUpOn, Zenon
  <2>6. gone \in SUBSET Tasks /\ Receivers \cup gone \subseteq Receivers' /\ Receivers \cap gone = {}
    BY <1>0, <2>1, <2>4, <2>5 DEF Receivers, WaitersOK
  <2>7. Cardinality(Receivers) + cTxLock <= Cardinality(Receivers')
    BY <1>0, <2>5, <2>6, GrowsByMany DEF CountsOK
  <2>8. uxMessagesWaiting <= Cardinality(Receivers) + Counted(cTxLock)
    BY <2>3 DEF ReceiversOK, ReceiversWait
  <2> QED BY <1>0, <2>1, <2>7, <2>8 DEF CountsOK, Counted
<1>13. CASE UnlockRx(t)
  <2>1. UNCHANGED <<uxMessagesWaiting, xTasksWaitingToReceive, cTxLock, op, pc>>
    BY <1>13 DEF UnlockRx, storage, callVars
  <2>2. Receivers \subseteq Receivers' /\ (ReceiversWait' => ReceiversWait)
    BY <2>1 DEF Receivers, ReceiversWait, Sends
  <2> QED BY <1>0, <1>1, <2>1, <2>2 DEF CountsOK
<1>14. CASE Resume(t)
  <2>1. /\ UNCHANGED <<uxMessagesWaiting, xTasksWaitingToReceive, cTxLock, op>>
        /\ pc' = [pc EXCEPT ![t] = IF @ = "late" THEN "over" ELSE "try"]
    BY <1>14 DEF Resume, storage, lists, locks, callVars
  <2>2. Receivers \subseteq Receivers' /\ (ReceiversWait' => ReceiversWait)
    BY <1>0, <2>1 DEF Receivers, ReceiversWait, Sends, CallsOK
  <2> QED BY <1>0, <1>1, <2>1, <2>2 DEF CountsOK
<1>15. CASE Over(t)
  <2>1. UNCHANGED <<uxMessagesWaiting, xTasksWaitingToReceive, cTxLock>>
    BY <1>15 DEF Over, storage, lists, locks
  <2>2. CASE ~Sends(t) /\ ~HasItem
    BY <1>0, <1>2, <2>1, <2>2 DEF HasItem, CountsOK
  <2>3. CASE Sends(t)
    <3>1. pc' = [pc EXCEPT ![t] = "idle"] /\ op' = [op EXCEPT ![t] = "send"]
      BY <1>15, <2>3 DEF Over, Returns, StepsTo
    <3>2. Receivers \subseteq Receivers' /\ (ReceiversWait' => ReceiversWait)
      BY <1>0, <2>1, <2>3, <3>1 DEF Receivers, ReceiversWait, Sends, CallsOK
    <3> QED BY <1>0, <1>1, <2>1, <3>2 DEF CountsOK
  <2>4. CASE ~Sends(t) /\ HasItem
    <3>1. pc' = [pc EXCEPT ![t] = "try"] /\ op' = op
      BY <1>15, <2>4 DEF Over, StepsTo
    <3>2. Receivers \subseteq Receivers' /\ (ReceiversWait' => ReceiversWait)
      BY <1>0, <2>1, <3>1 DEF Receivers, ReceiversWait, Sends, CallsOK
    <3> QED BY <1>0, <1>1, <2>1, <3>2 DEF CountsOK
  <2> QED BY <2>2, <2>3, <2>4
<1> QED BY <1>4, <1>5, <1>6, <1>7, <1>8, <1>9, <1>10, <1>11, <1>12, <1>13, <1>14, <1>15 DEF Call

LEMMA ReceiversNext ==
    ASSUME WakeInv, WakeInv', ReceiversOK, [Next]_vars PROVE ReceiversOK'
<1>0. CountsOK /\ CountsOK' /\ CallsOK /\ HeldOK /\ WaitersOK /\ uxLength' = uxLength
  BY CountTypes, CountTypesLater, LengthStays DEF WakeInv, TypeInv
<1>1. ASSUME ReceiversWait' => ReceiversWait, uxMessagesWaiting' <= uxMessagesWaiting,
             Receivers \subseteq Receivers', cTxLock' = cTxLock
      PROVE  ReceiversOK'
  <2>1. Cardinality(Receivers) <= Cardinality(Receivers')
    BY <1>0, <1>1, Grows DEF CountsOK
  <2> QED BY <1>0, <1>1, <2>1 DEF ReceiversOK, CountsOK
<1>2. ASSUME NEW t \in Tasks, Begin(t) PROVE ReceiversOK'
  <2>1. /\ UNCHANGED <<uxMessagesWaiting, xTasksWaitingToReceive, cTxLock>> /\ pc[t] = "idle"
        /\ pc' = [pc EXCEPT ![t] = "try"] /\ \E o : op' = [op EXCEPT ![t] = o]
    BY <1>2 DEF Begin, StepsTo, storage, lists, locks
  <2>2. Receivers \subseteq Receivers' /\ (ReceiversWait' => ReceiversWait)
    BY <1>0, <2>1 DEF Receivers, ReceiversWait, Sends, CallsOK
  <2> QED BY <1>0, <1>1, <2>1, <2>2 DEF CountsOK
<1>3. ASSUME NEW t \in Tasks, Tick(t) PROVE ReceiversOK'
  <2>1. /\ UNCHANGED <<uxMessagesWaiting, cTxLock, pc, op>>
        /\ xTasksWaitingToReceive' = Without(xTasksWaitingToReceive, t)
    BY <1>3 DEF Tick, storage, locks
  <2>2. \A u : OnList(xTasksWaitingToReceive', u) => OnList(xTasksWaitingToReceive, u)
    BY <2>1, WithoutOn DEF WakeInv, WaitersOK, TypeInv, ListsOK
  <2>3. xTasksWaitingToReceive = <<>> => xTasksWaitingToReceive' = <<>>
    BY <2>1, NoneOnEmpty DEF Without
  <2>4. Receivers \subseteq Receivers' /\ (ReceiversWait' => ReceiversWait)
    BY <2>1, <2>2, <2>3 DEF Receivers, ReceiversWait, Sends
  <2> QED BY <1>0, <1>1, <2>1, <2>4 DEF CountsOK
<1>4. CASE SendFromISR
  <2>1. uxMessagesWaiting' <= uxMessagesWaiting + 1 /\ UNCHANGED <<pc, op>>
    BY <1>0, <1>4 DEF SendFromISR, CopyToBack, CopyOver, HasItem, CountsOK, callVars
  <2> SUFFICES ASSUME ReceiversWait' PROVE uxMessagesWaiting' <= Cardinality(Receivers') + Counted(cTxLock')
    BY DEF ReceiversOK
  <2>2. CASE cTxLock = -1
    <3>1. xTasksWaitingToReceive' = Wake(xTasksWaitingToReceive) /\ cTxLock' = -1
      BY <1>4, <2>2 DEF SendFromISR, queueUNLOCKED
    <3>2. xTasksWaitingToReceive # <<>>
      BY <1>0, <2>1, <2>2, <3>1 DEF ReceiversWait, Wake, HeldOK, queueUNLOCKED
    <3> DEFINE first == Head(xTasksWaitingToReceive)
    <3>3. /\ first \in Tasks /\ OnList(xTasksWaitingToReceive, first)
          /\ \A u : OnList(xTasksWaitingToReceive', u) <=> OnList(xTasksWaitingToReceive, u) /\ u # first
      BY <3>1, <3>2, WakeOn DEF WakeInv, TypeInv, ListsOK, WaitersOK
    <3> HIDE DEF first
    <3>4. Receivers \subseteq Receivers' /\ first \in Receivers' /\ first \notin Receivers
      BY <1>0, <2>1, <3>3 DEF Receivers, WaitersOK
    <3>5. Cardinality(Receivers) + 1 <= Cardinality(Receivers')
      BY <1>0, <3>4, GrowsByOne DEF CountsOK
    <3>6. uxMessagesWaiting <= Cardinality(Receivers) + Counted(cTxLock)
      BY <3>2 DEF ReceiversOK, ReceiversWait
    <3> QED BY <1>0, <2>1, <2>2, <3>1, <3>5, <3>6 DEF CountsOK
  <2>3. CASE cTxLock # -1
    <3>1. xTasksWaitingToReceive' = xTasksWaitingToReceive /\ cTxLock' = cTxLock + 1
      BY <1>4, <2>3 DEF SendFromISR, queueUNLOCKED
    <3>2. Receivers' = Receivers /\ ReceiversWait
      BY <2>1, <3>1 DEF Receivers, ReceiversWait, Sends
    <3>3. Counted(cTxLock') = Counted(cTxLock) + 1
      BY <1>0, <2>3, <3>1 DEF Counted, CountsOK
    <3> QED BY <1>0, <2>1, <3>2, <3>3 DEF ReceiversOK, CountsOK
  <2> QED BY <2>2, <2>3
<1>5. CASE ReceiveFromISR
  <2>1. /\ UNCHANGED <<xTasksWaitingToReceive, cTxLock, pc, op>> /\ uxMessagesWaiting' = uxMessagesWaiting - 1
    BY <1>5 DEF ReceiveFromISR, CopyFrom, callVars
  <2>2. Receivers \subseteq Receivers' /\ (ReceiversWait' => ReceiversWait)
    BY <2>1 DEF Receivers, ReceiversWait, Sends
  <2> QED BY <1>0, <1>1, <2>1, <2>2 DEF CountsOK
<1>6. CASE UNCHANGED vars
  <2>1. UNCHANGED <<uxMessagesWaiting, xTasksWaitingToReceive, cTxLock, pc, op>>
    BY <1>6 DEF vars, storage, lists, locks, callVars
  <2>2. Receivers \subseteq Receivers' /\ (ReceiversWait' => ReceiversWait)
    BY <2>1 DEF Receivers, ReceiversWait, Sends
  <2> QED BY <1>0, <1>1, <2>1, <2>2 DEF CountsOK
<1>7. ASSUME NEW t \in Tasks, Call(t) PROVE ReceiversOK'
  BY <1>0, <1>7, ReceiversCall
<1> QED BY <1>2, <1>3, <1>4, <1>5, <1>6, <1>7 DEF Next

LEMMA SendersCall ==
    ASSUME WakeInv, WakeInv', SendersOK, NEW t \in Tasks, Call(t), uxLength' = uxLength
    PROVE  SendersOK'
<1>0. CountsOK /\ CountsOK' /\ CallsOK /\ HeldOK /\ WaitersOK
  BY CountTypes, CountTypesLater DEF WakeInv, TypeInv
\* Nobody leaves.
<1>1. ASSUME SendersWait' => SendersWait, uxMessagesWaiting' >= uxMessagesWaiting,
             Senders \subseteq Senders', Counted(cRxLock') = Counted(cRxLock)
      PROVE  SendersOK'
  <2>1. Cardinality(Senders) <= Cardinality(Senders')
    BY <1>0, <1>1, Grows DEF CountsOK
  <2> QED BY <1>0, <1>1, <2>1 DEF SendersOK, CountsOK
<1>2. ASSUME uxMessagesWaiting = uxLength, uxMessagesWaiting' = uxMessagesWaiting PROVE SendersOK'
  BY <1>0, <1>2 DEF SendersOK, CountsOK
<1>3. ASSUME NEW how, Returns(t, "try", how)
      PROVE  /\ cRxLock = -1 /\ pc' = [pc EXCEPT ![t] = "idle"] /\ op' = [op EXCEPT ![t] = "send"]
             /\ ~OnList(xTasksWaitingToSend, t)
             /\ \A u \in Tasks : pc[u] # "place" /\ pc'[u] # "place"
  BY <1>0, <1>3, NobodyPlaces DEF Returns, StepsTo, Runs, Blocked, Locked, CallsOK
<1>4. CASE Sent(t)
  <2>1. /\ Returns(t, "try", "pass") /\ UNCHANGED <<xTasksWaitingToSend, cRxLock>>
        /\ \/ op[t] = "send" /\ uxMessagesWaiting' = uxMessagesWaiting + 1
           \/ op[t] = "overwrite" /\ uxMessagesWaiting' >= uxMessagesWaiting
    BY <1>0, <1>4 DEF Sent, CopyToBack, CopyOver, HasItem, CountsOK, locks
  <2>2. SendersWait' => SendersWait
    BY <1>3, <2>1 DEF SendersWait
  <2>3. CASE op[t] = "send"
    <3>1. Senders \ {t} \subseteq Senders'
      BY <1>0, <1>3, <2>1 DEF Senders, CallsOK
    <3>2. Cardinality(Senders) <= Cardinality(Senders') + 1
      BY <1>0, <3>1, ShrinksByOne DEF CountsOK
    <3> QED BY <1>0, <2>1, <2>2, <2>3, <3>2 DEF SendersOK, CountsOK
  <2>4. CASE op[t] # "send"
    <3>1. Senders \subseteq Senders'
      BY <1>0, <1>3, <2>1, <2>4 DEF Senders, CallsOK
    <3> QED BY <1>1, <2>1, <2>2, <2>4, <3>1
  <2> QED BY <2>3, <2>4
<1>5. CASE Received(t)
  <2>1. /\ op[t] = "receive" /\ Returns(t, "try", "pass") /\ cRxLock' = cRxLock
        /\ xTasksWaitingToSend' = Wake(xTasksWaitingToSend) /\ uxMessagesWaiting' = uxMessagesWaiting - 1
    BY <1>5 DEF Received, CopyFrom, locks
  <2> SUFFICES ASSUME SendersWait'
               PROVE  uxLength' - uxMessagesWaiting' <= Cardinality(Senders') + Counted(cRxLock')
    BY DEF SendersOK
  <2>2. xTasksWaitingToSend # <<>>
    BY <1>3, <2>1 DEF SendersWait, Wake
  <2> DEFINE first == Head(xTasksWaitingToSend)
  <2>3. /\ first \in Tasks /\ OnList(xTasksWaitingToSend, first)
        /\ \A u : OnList(xTasksWaitingToSend', u) <=> OnList(xTasksWaitingToSend, u) /\ u # first
    BY <2>1, <2>2, WakeOn DEF WakeInv, TypeInv, ListsOK, WaitersOK
  <2> HIDE DEF first
  <2>4. Senders \subseteq Senders' /\ first \in Senders' /\ first \notin Senders
    BY <1>0, <1>3, <2>1, <2>3 DEF Senders, WaitersOK, CallsOK
  <2>5. Cardinality(Senders) + 1 <= Cardinality(Senders')
    BY <1>0, <2>4, GrowsByOne DEF CountsOK
  <2>6. uxLength - uxMessagesWaiting <= Cardinality(Senders) + Counted(cRxLock)
    BY <2>2 DEF SendersOK, SendersWait
  <2> QED BY <1>0, <2>1, <2>5, <2>6 DEF CountsOK
<1>6. CASE Peeked(t)
  <2>1. /\ op[t] = "peek" /\ Returns(t, "try", "pass")
        /\ UNCHANGED <<uxMessagesWaiting, xTasksWaitingToSend, cRxLock>>
    BY <1>6 DEF Peeked, storage, locks
  <2>2. Senders \subseteq Senders' /\ (SendersWait' => SendersWait)
    BY <1>0, <1>3, <2>1 DEF Senders, SendersWait, CallsOK
  <2> QED BY <1>0, <1>1, <2>1, <2>2 DEF CountsOK
<1>7. CASE Refused(t)
  <2>1. /\ UNCHANGED <<uxMessagesWaiting, xTasksWaitingToSend, cRxLock>>
        /\ Returns(t, "try", "fail") /\ MustWait(t)
    BY <1>7 DEF Refused, storage, lists, locks
  <2>2. CASE Sends(t)
    BY <1>0, <1>2, <2>1, <2>2 DEF MustWait, HasRoom, CountsOK
  <2>3. CASE ~Sends(t)
    <3>1. Senders \subseteq Senders' /\ (SendersWait' => SendersWait)
      BY <1>0, <1>3, <2>1, <2>3 DEF Senders, SendersWait, Sends, CallsOK
    <3> QED BY <1>0, <1>1, <2>1, <3>1 DEF CountsOK
  <2> QED BY <2>2, <2>3
<1>8. CASE Lock(t)
  <2>1. /\ UNCHANGED <<uxMessagesWaiting, xTasksWaitingToSend, op>> /\ MustWait(t) /\ cRxLock' = 0
        /\ pc' = [pc EXCEPT ![t] = "locked"] /\ StepsTo(t, "try", "locked")
    BY <1>8 DEF Lock, StepsTo, storage, lists, callVars, queueLOCKED_UNMODIFIED
  <2>2. CASE ~Sends(t)
    <3>1. cRxLock = -1
      BY <2>1, NobodyPlaces DEF StepsTo, Locked
    <3>2. Senders \subseteq Senders' /\ (SendersWait' => SendersWait)
      BY <1>0, <2>1, <2>2 DEF Senders, SendersWait, Sends, CallsOK
    <3> QED BY <1>0, <1>1, <2>1, <3>1, <3>2 DEF CountsOK, Counted
  <2>3. CASE Sends(t)
    BY <1>0, <1>2, <2>1, <2>3 DEF MustWait, HasRoom, CountsOK
  <2> QED BY <2>2, <2>3
<1>9. CASE CheckForTimeOut(t)
  <2>1. /\ UNCHANGED <<uxMessagesWaiting, xTasksWaitingToSend, cRxLock, op>> /\ pc[t] = "locked"
        /\ \E to \in {"late", "check"} : pc' = [pc EXCEPT ![t] = to]
    BY <1>9 DEF CheckForTimeOut, StepsTo, storage, lists, locks
  <2>2. Senders \subseteq Senders' /\ (SendersWait' => SendersWait)
    BY <1>0, <2>1 DEF Senders, SendersWait, Sends, CallsOK
  <2> QED BY <1>0, <1>1, <2>1, <2>2 DEF CountsOK
<1>10. CASE Check(t)
  <2>1. /\ UNCHANGED <<uxMessagesWaiting, xTasksWaitingToSend, cRxLock, op>> /\ pc[t] \in {"locked", "check"}
        /\ pc' = [pc EXCEPT ![t] = IF MustWait(t) THEN "place" ELSE "unlock"]
    BY <1>10 DEF Check, StepsTo, storage, lists, locks, callVars
  <2>2. CASE Sends(t) /\ MustWait(t)
    BY <1>0, <1>2, <2>1, <2>2 DEF MustWait, HasRoom, CountsOK
  <2>3. CASE ~Sends(t) \/ ~MustWait(t)
    <3>1. Senders \subseteq Senders' /\ (SendersWait' => SendersWait)
      BY <1>0, <2>1, <2>3 DEF Senders, SendersWait, Sends, CallsOK
    <3> QED BY <1>0, <1>1, <2>1, <3>1 DEF CountsOK
  <2> QED BY <2>2, <2>3
<1>11. CASE Place(t)
  <2>1. /\ UNCHANGED <<uxMessagesWaiting, cRxLock, op>> /\ pc[t] = "place" /\ pc' = [pc EXCEPT ![t] = "unlock"]
        /\ ~OnList(xTasksWaitingToSend, t)
        /\ IF ~Sends(t) THEN xTasksWaitingToSend' = xTasksWaitingToSend
           ELSE xTasksWaitingToSend' = Placed(xTasksWaitingToSend, t)
    BY <1>0, <1>11 DEF Place, storage, locks, callVars, WaitersOK
  <2>2. \A u \in Tasks : u # t => (OnList(xTasksWaitingToSend', u) <=> OnList(xTasksWaitingToSend, u))
    BY <2>1, PlacedOn DEF WakeInv, WaitersOK, TypeInv, ListsOK
  <2>3. Senders \subseteq Senders'
    BY <1>0, <2>1, <2>2 DEF Senders, CallsOK
  <2>4. SendersWait' => SendersWait
    BY <1>0, <2>1 DEF SendersWait, Sends, CallsOK
  <2> QED BY <1>0, <1>1, <2>1, <2>3, <2>4 DEF CountsOK
<1>12. CASE UnlockRx(t)
  <2>1. /\ UNCHANGED <<uxMessagesWaiting, pc, op>> /\ pc[t] \in {"unlock", "late"} /\ suspended = t
        /\ xTasksWaitingToSend' = MadeUp(xTasksWaitingToSend, cRxLock) /\ cRxLock' = -1 /\ cRxLock \in Nat
    <3>1. UNCHANGED <<uxMessagesWaiting, pc, op>> /\ cTxLock = queueUNLOCKED /\ suspended = t
      BY <1>12 DEF UnlockRx, storage, callVars
    <3>2. pc[t] \in {"unlock", "late"}
      BY <1>0, <3>1 DEF HeldOK, Locked
    <3> QED BY <1>0, <1>12, <3>1, <3>2 DEF UnlockRx, queueUNLOCKED, CountsOK
  <2> SUFFICES ASSUME SendersWait'
               PROVE  uxLength' - uxMessagesWaiting' <= Cardinality(Senders') + Counted(cRxLock')
    BY DEF SendersOK
  <2>2. \A u \in Tasks : pc[u] # "place"
    BY <1>0, <2>1 DEF HeldOK, Locked
  <2>3. xTasksWaitingToSend' # <<>> /\ xTasksWaitingToSend # <<>>
    BY <2>1, <2>2, MadeUpEmpty DEF SendersWait
  <2>4. \A u : OnList(xTasksWaitingToSend', u) => OnList(xTasksWaitingToSend, u)
    BY <2>1, MadeUpOn DEF WakeInv, WaitersOK, TypeInv, ListsOK
  <2>5. PICK gone : /\ IsFiniteSet(gone) /\ Cardinality(gone) = cRxLock
                    /\ \A u \in gone : /\ u \in Tasks /\ OnList(xTasksWaitingToSend, u)
                                       /\ ~OnList(xTasksWaitingToSend', u)
    BY <2>1, <2>3, MadeUpOn DEF WakeInv, WaitersOK, TypeInv, ListsOK
  <2>6. gone \in SUBSET Tasks /\ Senders \cup gone \subseteq Senders' /\ Senders \cap gone = {}
    BY <1>0, <2>1, <2>4, <2>5 DEF Senders, WaitersOK
  <2>7. Cardinality(Senders) + cRxLock <= Cardinality(Senders')
    BY <1>0, <2>5, <2>6, GrowsByMany DEF CountsOK
  <2>8. uxLength - uxMessagesWaiting <= Cardinality(Senders) + Counted(cRxLock)
    BY <2>3 DEF SendersOK, SendersWait
  <2> QED BY <1>0, <2>1, <2>7, <2>8 DEF CountsOK, Counted
<1>13. CASE UnlockTx(t)
  <2>1. UNCHANGED <<uxMessagesWaiting, xTasksWaitingToSend, cRxLock, op, pc>>
    BY <1>13 DEF UnlockTx, storage, callVars
  <2>2. Senders \subseteq Senders' /\ (SendersWait' => SendersWait)
    BY <2>1 DEF Senders, SendersWait, Sends
  <2> QED BY <1>0, <1>1, <2>1, <2>2 DEF CountsOK
<1>14. CASE Resume(t)
  <2>1. /\ UNCHANGED <<uxMessagesWaiting, xTasksWaitingToSend, cRxLock, op>>
        /\ pc' = [pc EXCEPT ![t] = IF @ = "late" THEN "over" ELSE "try"]
    BY <1>14 DEF Resume, storage, lists, locks, callVars
  <2>2. Senders \subseteq Senders' /\ (SendersWait' => SendersWait)
    BY <1>0, <2>1 DEF Senders, SendersWait, Sends, CallsOK
  <2> QED BY <1>0, <1>1, <2>1, <2>2 DEF CountsOK
<1>15. CASE Over(t)
  <2>1. /\ UNCHANGED <<uxMessagesWaiting, xTasksWaitingToSend, cRxLock>> /\ pc[t] = "over"
        /\ \/ pc' = [pc EXCEPT ![t] = "idle"] /\ op' = [op EXCEPT ![t] = "send"]
           \/ pc' = [pc EXCEPT ![t] = "try"] /\ op' = op
    BY <1>15 DEF Over, Returns, StepsTo, storage, lists, locks
  <2>2. Senders \subseteq Senders' /\ (SendersWait' => SendersWait)
    BY <1>0, <2>1 DEF Senders, SendersWait, Sends, CallsOK
  <2> QED BY <1>0, <1>1, <2>1, <2>2 DEF CountsOK
<1> QED BY <1>4, <1>5, <1>6, <1>7, <1>8, <1>9, <1>10, <1>11, <1>12, <1>13, <1>14, <1>15 DEF Call

LEMMA SendersNext ==
    ASSUME WakeInv, WakeInv', SendersOK, [Next]_vars PROVE SendersOK'
<1>0. CountsOK /\ CountsOK' /\ CallsOK /\ HeldOK /\ WaitersOK /\ uxLength' = uxLength
  BY CountTypes, CountTypesLater, LengthStays DEF WakeInv, TypeInv
<1>1. ASSUME SendersWait' => SendersWait, uxMessagesWaiting' >= uxMessagesWaiting,
             Senders \subseteq Senders', cRxLock' = cRxLock
      PROVE  SendersOK'
  <2>1. Cardinality(Senders) <= Cardinality(Senders')
    BY <1>0, <1>1, Grows DEF CountsOK
  <2> QED BY <1>0, <1>1, <2>1 DEF SendersOK, CountsOK
<1>2. ASSUME NEW t \in Tasks, Begin(t) PROVE SendersOK'
  <2>1. /\ UNCHANGED <<uxMessagesWaiting, xTasksWaitingToSend, cRxLock>> /\ pc[t] = "idle"
        /\ pc' = [pc EXCEPT ![t] = "try"] /\ \E o : op' = [op EXCEPT ![t] = o]
    BY <1>2 DEF Begin, StepsTo, storage, lists, locks
  <2>2. Senders \subseteq Senders' /\ (SendersWait' => SendersWait)
    BY <1>0, <2>1 DEF Senders, SendersWait, Sends, CallsOK
  <2> QED BY <1>0, <1>1, <2>1, <2>2 DEF CountsOK
<1>3. ASSUME NEW t \in Tasks, Tick(t) PROVE SendersOK'
  <2>1. /\ UNCHANGED <<uxMessagesWaiting, cRxLock, pc, op>>
        /\ xTasksWaitingToSend' = Without(xTasksWaitingToSend, t)
    BY <1>3 DEF Tick, storage, locks
  <2>2. \A u : OnList(xTasksWaitingToSend', u) => OnList(xTasksWaitingToSend, u)
    BY <2>1, WithoutOn DEF WakeInv, WaitersOK, TypeInv, ListsOK
  <2>3. xTasksWaitingToSend = <<>> => xTasksWaitingToSend' = <<>>
    BY <2>1, NoneOnEmpty DEF Without
  <2>4. Senders \subseteq Senders' /\ (SendersWait' => SendersWait)
    BY <2>1, <2>2, <2>3 DEF Senders, SendersWait, Sends
  <2> QED BY <1>0, <1>1, <2>1, <2>4 DEF CountsOK
<1>4. CASE ReceiveFromISR
  <2>1. uxMessagesWaiting' = uxMessagesWaiting - 1 /\ UNCHANGED <<pc, op>>
    BY <1>0, <1>4 DEF ReceiveFromISR, CopyFrom, callVars
  <2> SUFFICES ASSUME SendersWait'
               PROVE  uxLength' - uxMessagesWaiting' <= Cardinality(Senders') + Counted(cRxLock')
    BY DEF SendersOK
  <2>2. CASE cRxLock = -1
    <3>1. xTasksWaitingToSend' = Wake(xTasksWaitingToSend) /\ cRxLock' = -1
      BY <1>4, <2>2 DEF ReceiveFromISR, queueUNLOCKED
    <3>2. xTasksWaitingToSend # <<>>
      BY <1>0, <2>1, <2>2, <3>1 DEF SendersWait, Wake, HeldOK, queueUNLOCKED
    <3> DEFINE first == Head(xTasksWaitingToSend)
    <3>3. /\ first \in Tasks /\ OnList(xTasksWaitingToSend, first)
          /\ \A u : OnList(xTasksWaitingToSend', u) <=> OnList(xTasksWaitingToSend, u) /\ u # first
      BY <3>1, <3>2, WakeOn DEF WakeInv, TypeInv, ListsOK, WaitersOK
    <3> HIDE DEF first
    <3>4. Senders \subseteq Senders' /\ first \in Senders' /\ first \notin Senders
      BY <1>0, <2>1, <3>3 DEF Senders, WaitersOK
    <3>5. Cardinality(Senders) + 1 <= Cardinality(Senders')
      BY <1>0, <3>4, GrowsByOne DEF CountsOK
    <3>6. uxLength - uxMessagesWaiting <= Cardinality(Senders) + Counted(cRxLock)
      BY <3>2 DEF SendersOK, SendersWait
    <3> QED BY <1>0, <2>1, <2>2, <3>1, <3>5, <3>6 DEF CountsOK
  <2>3. CASE cRxLock # -1
    <3>1. xTasksWaitingToSend' = xTasksWaitingToSend /\ cRxLock' = cRxLock + 1
      BY <1>4, <2>3 DEF ReceiveFromISR, queueUNLOCKED
    <3>2. Senders' = Senders /\ SendersWait
      BY <2>1, <3>1 DEF Senders, SendersWait, Sends
    <3>3. Counted(cRxLock') = Counted(cRxLock) + 1
      BY <1>0, <2>3, <3>1 DEF Counted, CountsOK
    <3> QED BY <1>0, <2>1, <3>2, <3>3 DEF SendersOK, CountsOK
  <2> QED BY <2>2, <2>3
<1>5. CASE SendFromISR
  <2>1. UNCHANGED <<xTasksWaitingToSend, cRxLock, pc, op>> /\ uxMessagesWaiting' >= uxMessagesWaiting
    BY <1>0, <1>5 DEF SendFromISR, CopyToBack, CopyOver, HasItem, CountsOK, callVars
  <2>2. Senders \subseteq Senders' /\ (SendersWait' => SendersWait)
    BY <2>1 DEF Senders, SendersWait, Sends
  <2> QED BY <1>1, <2>1, <2>2
<1>6. CASE UNCHANGED vars
  <2>1. UNCHANGED <<uxMessagesWaiting, xTasksWaitingToSend, cRxLock, pc, op>>
    BY <1>6 DEF vars, storage, lists, locks, callVars
  <2>2. Senders \subseteq Senders' /\ (SendersWait' => SendersWait)
    BY <2>1 DEF Senders, SendersWait, Sends
  <2> QED BY <1>0, <1>1, <2>1, <2>2 DEF CountsOK
<1>7. ASSUME NEW t \in Tasks, Call(t) PROVE SendersOK'
  BY <1>0, <1>7, SendersCall
<1> QED BY <1>2, <1>3, <1>4, <1>5, <1>6, <1>7 DEF Next

-----------------------------------------------------------------------------
(* No wake-up is lost.                                                     *)

LEMMA CountsGiveWakeUp == WakeInv /\ ReceiversOK /\ SendersOK => NoLostWakeUp
<1> SUFFICES ASSUME WakeInv, ReceiversOK, SendersOK, suspended = None PROVE NoLostWakeUp
  BY DEF NoLostWakeUp
<1>1. CountsOK /\ HeldOK /\ WaitersOK /\ cTxLock = -1 /\ cRxLock = -1
  BY CountTypes DEF WakeInv, HeldOK, queueUNLOCKED
<1>2. \A t \in Tasks : pc[t] \notin Locked
  BY <1>1, KernelQueueAssumption DEF HeldOK
<1>3. ASSUME HasItem, xTasksWaitingToReceive # <<>>
      PROVE  \E t \in Tasks : ~Sends(t) /\ pc[t] \in {"try", "over"} /\ ~Blocked(t)
  <2>1. Cardinality(Receivers) >= 1
    BY <1>1, <1>3 DEF ReceiversOK, ReceiversWait, HasItem, Counted, CountsOK
  <2>2. PICK t : t \in Receivers
    BY <2>1, FS_EmptySet
  <2> QED BY <1>1, <1>2, <2>2 DEF Receivers, Sends, Blocked, WaitersOK, Locked
<1>4. ASSUME HasRoom, xTasksWaitingToSend # <<>>
      PROVE  \E t \in Tasks : Sends(t) /\ pc[t] = "try" /\ ~Blocked(t)
  <2>1. Cardinality(Senders) >= 1
    BY <1>1, <1>4 DEF SendersOK, SendersWait, HasRoom, Counted, CountsOK
  <2>2. PICK t : t \in Senders
    BY <2>1, FS_EmptySet
  <2> QED BY <1>1, <1>2, <2>2 DEF Senders, Sends, Blocked, WaitersOK, Locked
<1> QED BY <1>3, <1>4 DEF NoLostWakeUp

\* No task waits for ever for what is there: whenever the scheduler runs and
\* tasks wait to receive from a queue that has an item, or to send to one that
\* has room, another of their kind has been woken or is about to look.
THEOREM NoWakeUpIsLost == Spec => []NoLostWakeUp
<1>1. Init => WakeInv /\ ReceiversOK /\ SendersOK
  <2>1. Init => WakeInv
    BY TypeInit, HeldInit, WaitersInit DEF WakeInv
  <2>2. Init => ReceiversOK /\ SendersOK
    BY DEF Init, ReceiversOK, SendersOK, ReceiversWait, SendersWait
  <2> QED BY <2>1, <2>2
<1>2. WakeInv /\ ReceiversOK /\ SendersOK /\ [Next]_vars => (WakeInv /\ ReceiversOK /\ SendersOK)'
  <2> SUFFICES ASSUME WakeInv, ReceiversOK, SendersOK, [Next]_vars
               PROVE  (WakeInv /\ ReceiversOK /\ SendersOK)'
    OBVIOUS
  <2>1. WakeInv'
    BY TypeNext, HeldNext, WaitersNext DEF WakeInv
  <2>2. ReceiversOK' /\ SendersOK'
    BY <2>1, ReceiversNext, SendersNext
  <2> QED BY <2>1, <2>2
<1>3. WakeInv /\ ReceiversOK /\ SendersOK => NoLostWakeUp
  BY CountsGiveWakeUp
<1> QED BY <1>1, <1>2, <1>3, PTL DEF Spec

=============================================================================
