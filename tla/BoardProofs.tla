----------------------------- MODULE BoardProofs -----------------------------
(***************************************************************************)
(* Proofs about what the tasks stand on: the level sensor, the mutexes, the *)
(* heap and the clock of the kernel, the I2C bus.                           *)
(***************************************************************************)
EXTENDS WaterLevel, KernelMutex, I2cBus, Heap4, KernelTicks, ListFacts

-----------------------------------------------------------------------------
(* The level sensor.                                                       *)

\* The echo has been measured, and the reader has yet to be told or has been told.
Announced == "ECHO_DONE" \in bits \/ \E k \in DOMAIN deferred : deferred[k] = <<"set", "ECHO_DONE">>

\* Between two calls nothing is under way: no pulse, no interrupt, no deferred
\* operation.  Within a call ECHO_DONE means that the pulse of this call is over.
LevelInv ==
    /\ deferred \in Seq(Operations)
    /\ (sensor = "armed" => irq = FALSE) /\ (sensor = "pulse" => pin = "high")
    /\ sensor \in {"quiet", "armed", "pulse"}
    /\ reader \in {"idle", "trigger", "waiting", "measured"}
    /\ reader # "waiting" => sensor = "quiet" /\ irq = FALSE /\ deferred = <<>>
    /\ reader \in {"idle", "trigger"} => "ECHO_DONE" \notin bits
    /\ reader = "waiting" /\ Announced => sensor = "quiet" /\ irq = FALSE /\ fresh = TRUE
    /\ reader = "measured" => fresh = TRUE

\* What a handler of an interrupt appends to the queue of the timer task.
LEMMA Deferring ==
    ASSUME NEW q \in Seq(Operations), NEW op \in Operations
    PROVE  /\ Defer(q, op) \in Seq(Operations)
           /\ op # <<"set", "ECHO_DONE">> /\ (\E k \in DOMAIN Defer(q, op) : Defer(q, op)[k] = <<"set", "ECHO_DONE">>)
                 => \E k \in DOMAIN q : q[k] = <<"set", "ECHO_DONE">>
<1>1. CASE Defer(q, op) = q
  BY <1>1
<1>2. CASE Defer(q, op) = Append(q, op)
  <2>1. /\ Append(q, op) \in Seq(Operations) /\ Len(q) \in Nat /\ DOMAIN q = 1..Len(q)
        /\ DOMAIN Append(q, op) = 1..Len(q) + 1
        /\ \A k \in 1..Len(q) + 1 : Append(q, op)[k] = IF k <= Len(q) THEN q[k] ELSE op
    OBVIOUS
  <2> DEFINE done == <<"set", "ECHO_DONE">>
             t == Append(q, op)
  <2> HIDE DEF done, t
  <2>2. ASSUME op # done, NEW k \in DOMAIN t, t[k] = done
        PROVE  k \in DOMAIN q /\ q[k] = done
    BY <2>1, <2>2 DEF t
  <2> QED BY <1>2, <2>1, <2>2 DEF done, t
<1> QED BY <1>1, <1>2 DEF Defer

LEMMA LevelNext == LevelInv /\ [Next]_vars => LevelInv'
<1> SUFFICES ASSUME LevelInv, [Next]_vars PROVE LevelInv'
  OBVIOUS
<1>1. CASE ReadWaterLevel
  <2>1. deferred = <<>> /\ UNCHANGED deferred
    BY <1>1 DEF ReadWaterLevel, Call, Trigger, Wake, Return, ReaderRuns
  <2>2. Announced => "ECHO_DONE" \in bits
    BY <2>1 DEF Announced
  <2>3. Announced' => "ECHO_DONE" \in bits'
    BY <2>1 DEF Announced
  <2>4. CASE Call
    BY <2>1, <2>4 DEF Call, LevelInv
  <2>5. CASE Trigger
    BY <2>1, <2>3, <2>5 DEF Trigger, LevelInv
  <2>6. CASE Wake
    BY <2>1, <2>6 DEF Wake, LevelInv, Announced
  <2>7. CASE Return
    BY <2>1, <2>7 DEF Return, LevelInv
  <2> QED BY <1>1, <2>4, <2>5, <2>6, <2>7 DEF ReadWaterLevel
<1>2. CASE Sensor
  <2>1. reader = "waiting" /\ ~Announced /\ UNCHANGED <<reader, deferred, bits>>
    BY <1>2 DEF Sensor, Rise, Fall, NoAnswer, LevelInv
  <2>2. ~Announced'
    BY <2>1 DEF Announced
  <2> QED BY <1>2, <2>1, <2>2 DEF LevelInv, Sensor, Rise, Fall, NoAnswer
<1>3. CASE RisingEdge
  <2>1. /\ reader = "waiting" /\ ~Announced /\ UNCHANGED <<reader, bits, sensor, pin>> /\ irq' = FALSE
        /\ deferred' = Defer(deferred, <<"set", "ECHO_WAIT">>)
    BY <1>3 DEF RisingEdge, LevelInv
  <2>2. <<"set", "ECHO_WAIT">> \in Operations /\ <<"set", "ECHO_WAIT">> # <<"set", "ECHO_DONE">>
    BY DEF Operations
  <2>3. deferred' \in Seq(Operations) /\ ~Announced'
    BY <2>1, <2>2, Deferring DEF Announced, LevelInv
  <2> QED BY <2>1, <2>3 DEF LevelInv
<1>4. CASE FallingEdge
  <2>1. reader = "waiting" /\ ~Announced /\ sensor = "quiet" /\ irq' = FALSE /\ UNCHANGED <<reader, bits, sensor, pin>>
    BY <1>4 DEF FallingEdge, LevelInv
  <2>2. {<<"set", "ECHO_DONE">>, <<"clear", "ECHO_WAIT">>} \subseteq Operations
    BY DEF Operations
  <2>3. CASE "ECHO_WAIT" \in bits
    <3>1. fresh' = TRUE /\ deferred' = Defer(Defer(deferred, <<"set", "ECHO_DONE">>), <<"clear", "ECHO_WAIT">>)
      BY <1>4, <2>3 DEF FallingEdge
    <3>2. deferred' \in Seq(Operations)
      BY <2>2, <3>1, Deferring DEF LevelInv
    <3> QED BY <2>1, <3>1, <3>2 DEF LevelInv
  <2>4. CASE "ECHO_WAIT" \notin bits
    <3>1. UNCHANGED <<fresh, deferred>>
      BY <1>4, <2>4 DEF FallingEdge
    <3> QED BY <2>1, <3>1 DEF LevelInv, Announced
  <2> QED BY <2>3, <2>4
<1>5. CASE Apply
  <2>1. deferred # <<>> /\ deferred \in Seq(Operations)
    BY <1>5 DEF Apply, LevelInv
  <2>2. /\ reader = "waiting" /\ UNCHANGED <<reader, sensor, irq, fresh, pin>>
        /\ deferred' = Tail(deferred)
        /\ bits' = IF deferred[1][1] = "set" THEN bits \cup {deferred[1][2]} ELSE bits \ {deferred[1][2]}
    <3>1. Head(deferred) = deferred[1]
      BY <2>1
    <3> QED BY <1>5, <2>1, <3>1 DEF Apply, LevelInv
  <2>3. Tail(deferred) \in Seq(Operations) /\ IsCut(Tail(deferred), deferred, 1) /\ 1 \in 1..Len(deferred)
    BY <2>1, TailIsCut
  <2>4. /\ DOMAIN deferred = 1..Len(deferred) /\ DOMAIN Tail(deferred) = 1..Len(deferred) - 1 /\ Len(deferred) \in Nat
        /\ \A k \in 1..Len(deferred) - 1 : Tail(deferred)[k] = deferred[k + 1] /\ k + 1 \in 1..Len(deferred)
    BY <2>1
  <2>5. \A k \in DOMAIN deferred' : deferred'[k] = <<"set", "ECHO_DONE">> => Announced
    BY <2>2, <2>4 DEF Announced
  <2>6. deferred[1] \in {"set", "clear"} \X {"ECHO_DONE", "ECHO_WAIT"}
    BY <2>1, <2>3 DEF Operations
  <2>7. "ECHO_DONE" \in bits' => "ECHO_DONE" \in bits \/ deferred[1] = <<"set", "ECHO_DONE">>
    BY <2>2, <2>6
  <2>8. Announced' => Announced
    BY <2>3, <2>4, <2>5, <2>7 DEF Announced
  <2> QED BY <2>2, <2>3, <2>8 DEF LevelInv
<1>6. CASE UNCHANGED vars
  BY <1>6 DEF vars, LevelInv, Announced
<1> QED BY <1>1, <1>2, <1>3, <1>4, <1>5, <1>6 DEF Next, EchoInt

\* A width that readWaterLevel converts is that of the pulse its own trigger
\* caused: whatever the timer task was late with, ECHO_DONE of an earlier pulse
\* does not end the wait of a later call.
THEOREM ReadingsAreFresh == Spec => []ReadingIsFresh
<1>1. Init => LevelInv
  BY DEF Init, LevelInv, Announced
<1>2. LevelInv => ReadingIsFresh
  BY DEF LevelInv, ReadingIsFresh
<1> QED BY <1>1, <1>2, LevelNext, PTL DEF Spec

-----------------------------------------------------------------------------
(* The mutexes.                                                            *)

\* A task that may hold one mutex while it takes another waits for ever: a
\* time-out would bring a holder that itself waits back to its own priority,
\* and the list it is on is not sorted again.
NestedForEver == \A u \in Uses : u.nested => "finite" \notin u.waits

Calling == {"try", "block", "late", "disinherit", "asserted"}

\* A call is for a mutex its task does not hold.
MutexTyped ==
    /\ use \in Uses
    /\ xMutexHolder \in [Mutexes -> Users \cup {NoUser}] /\ xWaitingForMutex \in [Mutexes -> Seq(Users)]
    /\ uxPriority \in [Users -> Nat] /\ userAt \in [Users -> Calling \cup {"asleep", "runs"}]
    /\ wants \in [Users -> Mutexes \cup {NoMutex}]
    /\ xTicksToWait \in [Users -> {"none", "finite", "forever"}]
    /\ \A t \in Users : userAt[t] \in Calling => wants[t] \in Mutexes /\ xMutexHolder[wants[t]] # t

\* A priority is the task's own or one it inherited.
OwnOrInherited ==
    \A t \in Users : /\ uxPriority[t] >= BasePriority[t]
                     /\ Held(t) = {} => uxPriority[t] = BasePriority[t]

\* What a task may do with a mutex held, in either way of using them.
WhileHeld ==
    /\ ~use.nested => \A t \in Users : /\ \A m, n \in Held(t) : m = n
                                       /\ userAt[t] \in Calling => Held(t) = {}
    /\ use.nested => \A t \in Users : xTicksToWait[t] # "finite" /\ userAt[t] \notin {"late", "disinherit"}

\* Who is on a list is there once, for the mutex of its call, and no task
\* behind it has a higher base priority than it has.
ListSorted(m) ==
    \A i \in DOMAIN xWaitingForMutex[m] :
        /\ userAt[xWaitingForMutex[m][i]] = "try" /\ wants[xWaitingForMutex[m][i]] = m
        /\ \A j \in DOMAIN xWaitingForMutex[m] : i < j =>
               /\ xWaitingForMutex[m][i] # xWaitingForMutex[m][j]
               /\ uxPriority[xWaitingForMutex[m][i]] >= BasePriority[xWaitingForMutex[m][j]]
ListsSorted == \A m \in Mutexes : ListSorted(m)

\* The holder's priority is at least that of every task on the list.
HolderInherits == \A m \in Mutexes : ~Free(m) =>
    \A i \in DOMAIN xWaitingForMutex[m] : uxPriority[xMutexHolder[m]] >= BasePriority[xWaitingForMutex[m][i]]

\* A mutex that is free while tasks wait for it has a task about to try it that
\* is at least as important: the one that was woken.
SuccessorOf(a, m) ==
    /\ userAt[a] = "try" /\ wants[a] = m /\ ~Waits(a)
    /\ \A i \in DOMAIN xWaitingForMutex[m] : uxPriority[a] >= BasePriority[xWaitingForMutex[m][i]]
HasSuccessor == \A m \in Mutexes : Free(m) /\ xWaitingForMutex[m] # <<>> => \E a \in Users : SuccessorOf(a, m)

MutexInv == /\ MutexTyped /\ OwnOrInherited /\ WhileHeld
            /\ ListsSorted /\ HolderInherits /\ HasSuccessor

LEMMA UpTo ==
    ASSUME NEW n \in Nat
    PROVE  IsFiniteSet(1..n) /\ Cardinality(1..n) = n
<1>1. 1 \in Int /\ n \in Int
  OBVIOUS
<1>2. IsFiniteSet(1..n) /\ Cardinality(1..n) = IF 1 > n THEN 0 ELSE n - 1 + 1
  BY <1>1, FS_Interval, Zenon
<1> QED BY <1>2

\* Where vListInsert puts a task: behind all of its priority or a higher one
\* up to the first of a lower priority.
LEMMA InsertedBehind ==
    ASSUME NEW list \in Seq(Users), NEW t \in Users, uxPriority \in [Users -> Nat]
    PROVE  \E n \in 0..Len(list) :
               /\ InsertedByPriority(list, t) = SubSeq(list, 1, n) \o <<t>> \o SubSeq(list, n + 1, Len(list))
               /\ \A i \in 1..n : uxPriority[list[i]] >= uxPriority[t]
               /\ n < Len(list) => uxPriority[list[n + 1]] < uxPriority[t]
<1> DEFINE above == {i \in DOMAIN list : \A j \in 1..i : uxPriority[list[j]] >= uxPriority[t]}
           n == Cardinality(above)
<1>1. DOMAIN list = 1..Len(list) /\ Len(list) \in Nat
  OBVIOUS
<1>2. above \in SUBSET (1..Len(list)) /\ \A i \in above : \A j \in 1..i : j \in above
  BY <1>1
<1>3. \A i \in DOMAIN list : i \in above <=> \A j \in 1..i : uxPriority[list[j]] >= uxPriority[t]
  OBVIOUS
<1> HIDE DEF above
<1>4. IsFiniteSet(above) /\ n \in Nat /\ n <= Len(list)
  <2>1. IsFiniteSet(1..Len(list)) /\ Cardinality(1..Len(list)) = Len(list)
    BY <1>1, UpTo, Zenon
  <2>2. IsFiniteSet(above) /\ n <= Len(list)
    <3>1. above \in SUBSET (1..Len(list))
      BY <1>2
    <3>2. IsFiniteSet(above) /\ Cardinality(above) <= Cardinality(1..Len(list))
      BY <2>1, <3>1, FS_Subset, Zenon
    <3> QED BY <2>1, <3>2
  <2> QED BY <2>2, FS_CardinalityType
<1> HIDE DEF n
<1>5. \A i \in above : i <= n
  <2> SUFFICES ASSUME NEW i \in above PROVE i <= n
    OBVIOUS
  <2>1. i \in Nat /\ 1..i \in SUBSET above
    BY <1>2
  <2>2. Cardinality(1..i) = i
    BY <2>1, UpTo, Zenon
  <2> QED BY <1>4, <2>1, <2>2, FS_Subset DEF n
<1>6. above = 1..n
  <2>1. above \in SUBSET (1..n)
    BY <1>2, <1>5
  <2>2. IsFiniteSet(1..n) /\ Cardinality(1..n) = n
    BY <1>4, UpTo, Zenon
  <2> QED BY <2>1, <2>2, FS_Subset DEF n
<1>7. \A i \in 1..n : uxPriority[list[i]] >= uxPriority[t]
  BY <1>1, <1>3, <1>4, <1>6
<1>8. n < Len(list) => uxPriority[list[n + 1]] < uxPriority[t]
  <2> SUFFICES ASSUME n < Len(list), ~(uxPriority[list[n + 1]] < uxPriority[t]) PROVE FALSE
    OBVIOUS
  <2>1. n + 1 \in DOMAIN list /\ list[n + 1] \in Users
    BY <1>1, <1>4
  <2>2. uxPriority[list[n + 1]] >= uxPriority[t]
    BY <2>1
  <2>3. \A j \in 1..n + 1 : uxPriority[list[j]] >= uxPriority[t]
    BY <1>4, <1>7, <2>2
  <2>4. n + 1 \in above
    BY <1>3, <2>1, <2>3
  <2> QED BY <1>4, <1>6, <2>4
<1>9. InsertedByPriority(list, t) = SubSeq(list, 1, n) \o <<t>> \o SubSeq(list, n + 1, Len(list))
  BY Zenon DEF InsertedByPriority, n, above
<1>10. n \in 0..Len(list)
  BY <1>1, <1>4
<1> QED BY <1>7, <1>8, <1>9, <1>10, Zenon

\* A task that holds as many as one mutex holds that one only.
LEMMA HoldsOne ==
    ASSUME NEW t, NEW m \in Held(t), uxMutexesHeld(t) = 1
    PROVE  Held(t) = {m}
<1>1. IsFiniteSet(Held(t))
  BY KernelMutexAssumption, FS_Subset DEF Held
<1>2. PICK n : Held(t) = {n}
  BY <1>1, FS_Singleton DEF uxMutexesHeld
<1> QED BY <1>2

LEMMA HoldsMore ==
    ASSUME NEW t, NEW m \in Held(t), uxMutexesHeld(t) # 1
    PROVE  Held(t) \ {m} # {}
<1>1. Held(t) = {m} => uxMutexesHeld(t) = 1
  BY FS_Singleton DEF uxMutexesHeld
<1> QED BY <1>1

\* A step of a call that changes no mutex and no list, and the priority of no
\* task that waits or is about to try.
LEMMA CallStep ==
    ASSUME MutexInv, NEW t \in Users, NEW p \in Calling \cup {"asleep", "runs"}, ~Waits(t),
           UNCHANGED <<use, xMutexHolder, xWaitingForMutex>>,
           uxPriority' \in [Users -> Nat], OwnOrInherited', HolderInherits',
           \A u \in Users : userAt[u] = "try" => uxPriority'[u] = uxPriority[u],
           userAt' = [userAt EXCEPT ![t] = p],
           wants' \in [Users -> Mutexes \cup {NoMutex}],
           xTicksToWait' \in [Users -> {"none", "finite", "forever"}],
           \A u \in Users : u # t => wants'[u] = wants[u] /\ xTicksToWait'[u] = xTicksToWait[u],
           userAt[t] = "try" => ~Free(wants[t]),
           p \in Calling => /\ wants'[t] \in Mutexes /\ xMutexHolder[wants'[t]] # t
                            /\ ~use.nested => Held(t) = {},
           use.nested => xTicksToWait'[t] # "finite" /\ p \notin {"late", "disinherit"}
    PROVE  MutexInv'
<1>1. MutexTyped'
  BY DEF MutexInv, MutexTyped, Calling
<1>2. WhileHeld'
  BY DEF MutexInv, MutexTyped, WhileHeld, Held
<1>3. \A m \in Mutexes : \A i \in DOMAIN xWaitingForMutex[m] :
          xWaitingForMutex[m][i] \in Users /\ xWaitingForMutex[m][i] # t
  BY DEF Waits, WaitsFor, MutexInv, MutexTyped
<1>4. ListsSorted'
  <2> SUFFICES ASSUME NEW m \in Mutexes PROVE ListSorted(m)'
    BY DEF ListsSorted
  <2>1. ListSorted(m)
    BY DEF MutexInv, ListsSorted
  <2> QED BY <1>3, <2>1 DEF ListSorted, MutexInv, MutexTyped
<1>5. HasSuccessor'
  <2> SUFFICES ASSUME NEW m \in Mutexes, Free(m), xWaitingForMutex[m] # <<>>
               PROVE  \E a \in Users : SuccessorOf(a, m)'
    BY DEF HasSuccessor, Free
  <2>1. PICK a \in Users : SuccessorOf(a, m)
    BY DEF MutexInv, HasSuccessor
  <2>2. a # t
    BY <2>1 DEF SuccessorOf
  <2>3. userAt'[a] = userAt[a] /\ wants'[a] = wants[a]
    BY <2>2 DEF MutexInv, MutexTyped
  <2>4. SuccessorOf(a, m)'
    BY <2>1, <2>3 DEF SuccessorOf, Waits, WaitsFor
  <2> QED BY <2>4
<1> QED BY <1>1, <1>2, <1>4, <1>5 DEF MutexInv

\* A step of a call that changes no mutex, no list and no priority.
LEMMA LocalStep ==
    ASSUME MutexInv, NEW t \in Users, NEW p \in Calling \cup {"asleep", "runs"}, ~Waits(t),
           UNCHANGED <<use, xMutexHolder, xWaitingForMutex, uxPriority>>,
           userAt' = [userAt EXCEPT ![t] = p],
           wants' \in [Users -> Mutexes \cup {NoMutex}],
           xTicksToWait' \in [Users -> {"none", "finite", "forever"}],
           \A u \in Users : u # t => wants'[u] = wants[u] /\ xTicksToWait'[u] = xTicksToWait[u],
           userAt[t] = "try" => ~Free(wants[t]),
           p \in Calling => /\ wants'[t] \in Mutexes /\ xMutexHolder[wants'[t]] # t
                            /\ ~use.nested => Held(t) = {},
           use.nested => xTicksToWait'[t] # "finite" /\ p \notin {"late", "disinherit"}
    PROVE  MutexInv'
<1>1. OwnOrInherited' /\ HolderInherits' /\ uxPriority' \in [Users -> Nat]
  BY DEF MutexInv, MutexTyped, OwnOrInherited, HolderInherits, Free, Held
<1> QED BY <1>1, CallStep

\* A task on a list is in a call that waits, for the mutex of the list.
LEMMA WhoWaits ==
    ASSUME MutexInv, NEW t \in Users, Waits(t)
    PROVE  userAt[t] = "try" /\ wants[t] \in Mutexes /\ WaitsFor(t, wants[t])
                             /\ \A m \in Mutexes : WaitsFor(t, m) => m = wants[t]
BY DEF MutexInv, ListsSorted, ListSorted, Waits, WaitsFor

\* The type of whether mutexes are nested.
LEMMA NestedType == MutexInv => use.nested \in BOOLEAN /\ use.waits \subseteq {"none", "finite", "forever"}
BY KernelMutexAssumption DEF MutexInv, MutexTyped

LEMMA LocalSteps ==
    ASSUME MutexInv, NestedForEver, NEW t \in Users,
           \/ Refused(t) \/ MustWait(t) \/ TimesOut(t) \/ Late(t) \/ Sleeps(t) \/ WakesUp(t)
           \/ \E m \in Mutexes, w \in use.waits : Take(t, m, w)
    PROVE  MutexInv'
<1> USE NestedType
<1>1. CASE Refused(t)
  <2>1. ~Waits(t) /\ userAt[t] = "try" /\ ~Free(wants[t])
    BY <1>1 DEF Refused, TakeReturns, UserGoes, Running, Ready
  <2>2. CASE UserGoes(t, "try", "asserted") /\ UNCHANGED takeVars
    BY <1>1, <2>1, <2>2, LocalStep DEF Refused, UserGoes, takeVars, MutexInv, MutexTyped, WhileHeld, Calling
  <2>3. CASE TakeReturns(t, "try")
    BY <1>1, <2>1, <2>3, LocalStep DEF Refused, TakeReturns, UserGoes, MutexInv, MutexTyped, Calling
  <2> QED BY <1>1, <2>2, <2>3 DEF Refused
<1>2. CASE MustWait(t)
  BY <1>2, LocalStep DEF MustWait, UserGoes, Running, Ready, takeVars, MutexInv, MutexTyped, WhileHeld, Calling
<1>3. CASE TimesOut(t)
  BY <1>3, LocalStep DEF TimesOut, UserGoes, Running, Ready, MutexInv, MutexTyped, WhileHeld, Calling
<1>4. CASE Late(t)
  <2>1. ~Waits(t) /\ userAt[t] = "late" /\ ~use.nested
    BY <1>4 DEF Late, TakeReturns, UserGoes, Running, Ready, MutexInv, WhileHeld
  <2>2. CASE (UserGoes(t, "late", "try") \/ UserGoes(t, "late", "disinherit")) /\ UNCHANGED takeVars
    BY <1>4, <2>1, <2>2, LocalStep DEF Late, UserGoes, takeVars, MutexInv, MutexTyped, WhileHeld, Calling
  <2>3. CASE TakeReturns(t, "late")
    BY <1>4, <2>1, <2>3, LocalStep DEF Late, TakeReturns, UserGoes, MutexInv, MutexTyped, Calling
  <2> QED BY <1>4, <2>2, <2>3 DEF Late
<1>5. CASE Sleeps(t)
  BY <1>5, LocalStep DEF Sleeps, UserGoes, Running, Ready, takeVars, MutexInv, MutexTyped, WhileHeld, Calling
<1>6. CASE WakesUp(t)
  <2>1. ~Waits(t)
    BY <1>6, WhoWaits DEF WakesUp
  <2> QED BY <1>6, <2>1, LocalStep DEF WakesUp, takeVars, MutexInv, MutexTyped, WhileHeld, Calling
<1>7. ASSUME NEW m \in Mutexes, NEW w \in use.waits, Take(t, m, w)
      PROVE  MutexInv'
  <2>1. ~Waits(t) /\ userAt[t] = "runs"
    BY <1>7 DEF Take, UserGoes, Running, Ready
  <2>2. xMutexHolder[m] # t /\ (~use.nested => Held(t) = {})
    <3>1. \A h \in Held(t) : use.nested /\ h < m
      BY <1>7 DEF Take
    <3>2. m \notin Held(t)
      BY <3>1, KernelMutexAssumption
    <3> QED BY <3>1, <3>2 DEF Held
  <2>3. w \in {"none", "finite", "forever"} /\ (use.nested => w # "finite")
    BY DEF NestedForEver, MutexInv, MutexTyped
  <2> QED BY <1>7, <2>1, <2>2, <2>3, LocalStep DEF Take, UserGoes, MutexInv, MutexTyped, Calling
<1> QED BY <1>1, <1>2, <1>3, <1>4, <1>5, <1>6, <1>7

\* The task that takes a free mutex is the most important one about to try it,
\* whoever was woken.
LEMMA TakingStep ==
    ASSUME MutexInv, NEW t \in Users, TakesIt(t)
    PROVE  MutexInv'
<1> DEFINE m == wants[t]
<1>1. /\ m \in Mutexes /\ Free(m) /\ ~Waits(t) /\ userAt[t] = "try"
      /\ userAt' = [userAt EXCEPT ![t] = "runs"] /\ wants' = [wants EXCEPT ![t] = NoMutex]
      /\ xTicksToWait' = [xTicksToWait EXCEPT ![t] = "none"]
      /\ xMutexHolder' = [xMutexHolder EXCEPT ![m] = t]
      /\ UNCHANGED <<use, xWaitingForMutex, uxPriority>>
      /\ \A u \in Users : Ready(u) => uxPriority[u] <= uxPriority[t]
  BY DEF TakesIt, TakeReturns, UserGoes, Running, Ready, MutexInv, MutexTyped, Calling
<1> HIDE DEF m
<1>2. t # NoUser /\ xMutexHolder[m] = NoUser
  BY <1>1, KernelMutexAssumption DEF Free
<1>3. MutexTyped'
  <2>1. /\ xMutexHolder' \in [Mutexes -> Users \cup {NoUser}] /\ xWaitingForMutex' \in [Mutexes -> Seq(Users)]
        /\ uxPriority' \in [Users -> Nat] /\ userAt' \in [Users -> Calling \cup {"asleep", "runs"}]
        /\ wants' \in [Users -> Mutexes \cup {NoMutex}] /\ use' \in Uses
        /\ xTicksToWait' \in [Users -> {"none", "finite", "forever"}]
    BY <1>1 DEF MutexInv, MutexTyped
  <2>2. ASSUME NEW u \in Users, userAt'[u] \in Calling
        PROVE  wants'[u] \in Mutexes /\ xMutexHolder'[wants'[u]] # u
    BY <1>1, <1>2, <2>2 DEF MutexInv, MutexTyped, Calling
  <2> QED BY <2>1, <2>2 DEF MutexTyped
<1>4. \A u \in Users : Held(u)' = IF u = t THEN Held(u) \cup {m} ELSE Held(u)
  <2>1. \A u \in Users : u # NoUser
    BY KernelMutexAssumption
  <2> QED BY <1>1, <1>2, <2>1 DEF Held, MutexInv, MutexTyped
<1>5. OwnOrInherited'
  BY <1>1, <1>4 DEF MutexInv, OwnOrInherited
<1>6. WhileHeld'
  <2>1. ~use.nested => Held(t) = {}
    BY <1>1 DEF MutexInv, WhileHeld, Calling
  <2>2. ASSUME ~use.nested, NEW u \in Users
        PROVE  (\A h, n \in Held(u)' : h = n) /\ (userAt'[u] \in Calling => Held(u)' = {})
    <3>1. CASE u = t
      <4>1. Held(u)' = {m}
        BY <1>4, <2>1, <2>2, <3>1
      <4>2. userAt'[u] = "runs"
        BY <1>1, <3>1 DEF MutexInv, MutexTyped
      <4> QED BY <4>1, <4>2 DEF Calling
    <3>2. CASE u # t
      <4>1. Held(u)' = Held(u) /\ userAt'[u] = userAt[u]
        BY <1>1, <1>4, <3>2 DEF MutexInv, MutexTyped
      <4> QED BY <2>2, <4>1 DEF MutexInv, WhileHeld
    <3> QED BY <3>1, <3>2
  <2>3. ASSUME use.nested, NEW u \in Users
        PROVE  xTicksToWait'[u] # "finite" /\ userAt'[u] \notin {"late", "disinherit"}
    BY <1>1, <2>3 DEF MutexInv, MutexTyped, WhileHeld
  <2> QED BY <1>1, <2>2, <2>3 DEF WhileHeld
<1>7. \A n \in Mutexes : \A i \in DOMAIN xWaitingForMutex[n] :
          xWaitingForMutex[n][i] \in Users /\ xWaitingForMutex[n][i] # t
  BY <1>1 DEF Waits, WaitsFor, MutexInv, MutexTyped
<1>8. ListsSorted'
  BY <1>1, <1>7 DEF MutexInv, MutexTyped, ListsSorted, ListSorted
<1>9. HolderInherits'
  <2> SUFFICES ASSUME NEW n \in Mutexes, ~Free(n)', NEW i \in DOMAIN xWaitingForMutex[n]
               PROVE  uxPriority[xMutexHolder'[n]] >= BasePriority[xWaitingForMutex[n][i]]
    BY <1>1 DEF HolderInherits
  <2>1. CASE n = m
    <3>1. PICK a \in Users : SuccessorOf(a, m)
      BY <1>1, <2>1 DEF MutexInv, HasSuccessor, MutexTyped
    <3>2. Ready(a)
      BY <3>1 DEF SuccessorOf, Ready
    <3>3. uxPriority[a] <= uxPriority[t] /\ uxPriority[a] >= BasePriority[xWaitingForMutex[n][i]]
      BY <1>1, <2>1, <3>1, <3>2 DEF SuccessorOf
    <3>4. uxPriority[a] \in Int /\ uxPriority[t] \in Int
      BY DEF MutexInv, MutexTyped
    <3>5. BasePriority[xWaitingForMutex[n][i]] \in Int
      BY <1>7, KernelMutexAssumption
    <3>6. xMutexHolder'[n] = t
      BY <1>1, <2>1 DEF MutexInv, MutexTyped
    <3> QED BY <3>3, <3>4, <3>5, <3>6
  <2>2. CASE n # m
    BY <1>1, <2>2 DEF MutexInv, MutexTyped, HolderInherits, Free
  <2> QED BY <2>1, <2>2
<1>10. HasSuccessor'
  <2> SUFFICES ASSUME NEW n \in Mutexes, Free(n)', xWaitingForMutex[n] # <<>>
               PROVE  \E a \in Users : SuccessorOf(a, n)'
    BY <1>1 DEF HasSuccessor
  <2>1. n # m /\ Free(n)
    BY <1>1, <1>2 DEF Free, MutexInv, MutexTyped
  <2>2. PICK a \in Users : SuccessorOf(a, n)
    BY <2>1 DEF MutexInv, HasSuccessor
  <2>3. a # t
    BY <2>1, <2>2 DEF SuccessorOf, m
  <2>4. SuccessorOf(a, n)'
    BY <1>1, <2>2, <2>3 DEF SuccessorOf, Waits, WaitsFor, MutexInv, MutexTyped
  <2> QED BY <2>4
<1> QED BY <1>3, <1>5, <1>6, <1>8, <1>9, <1>10 DEF MutexInv

\* What is left of a list is in the order it was in.
InOrder(new, old) ==
    \A i, j \in DOMAIN new : \E p, q \in DOMAIN old : new[i] = old[p] /\ new[j] = old[q] /\ (i < j => p < q)

LEMMA CutInOrder ==
    ASSUME NEW S, NEW s \in Seq(S), NEW c \in Seq(S), NEW k \in 1..Len(s), IsCut(c, s, k)
    PROVE  InOrder(c, s)
<1> DEFINE from(i) == IF i < k THEN i ELSE i + 1
<1>1. DOMAIN c = 1..Len(s) - 1 /\ DOMAIN s = 1..Len(s) /\ Len(s) \in Nat
  BY DEF IsCut
<1>2. ASSUME NEW i \in DOMAIN c PROVE from(i) \in DOMAIN s /\ c[i] = s[from(i)]
  BY <1>1 DEF IsCut
<1>3. ASSUME NEW i \in DOMAIN c, NEW j \in DOMAIN c PROVE i < j => from(i) < from(j)
  BY <1>1
<1> HIDE DEF from
<1> QED BY <1>2, <1>3, Zenon DEF InOrder

LEMMA SameInOrder ==
    ASSUME NEW S, NEW s \in Seq(S)
    PROVE  InOrder(s, s)
BY DEF InOrder

\* One list is cut, or none.
LEMMA ListsInOrder ==
    ASSUME MutexInv, NEW m \in Mutexes, NEW rest \in Seq(Users),
           rest = xWaitingForMutex[m] \/ \E k \in 1..Len(xWaitingForMutex[m]) : IsCut(rest, xWaitingForMutex[m], k),
           xWaitingForMutex' = [xWaitingForMutex EXCEPT ![m] = rest]
    PROVE  /\ xWaitingForMutex' \in [Mutexes -> Seq(Users)] /\ xWaitingForMutex'[m] = rest
           /\ \A n \in Mutexes : InOrder(xWaitingForMutex'[n], xWaitingForMutex[n])
<1>1. /\ xWaitingForMutex' \in [Mutexes -> Seq(Users)] /\ xWaitingForMutex'[m] = rest
      /\ \A n \in Mutexes : n # m => xWaitingForMutex'[n] = xWaitingForMutex[n]
  BY DEF MutexInv, MutexTyped
<1>2. \A n \in Mutexes : xWaitingForMutex[n] \in Seq(Users)
  BY DEF MutexInv, MutexTyped
<1>3. InOrder(rest, xWaitingForMutex[m])
  BY <1>2, SameInOrder, CutInOrder
<1> QED BY <1>1, <1>2, <1>3, SameInOrder

\* A step after which every list has at most the tasks it had, in their order.
LEMMA ListsShrink ==
    ASSUME MutexInv, UNCHANGED <<userAt, wants>>,
           \A u \in Users : Waits(u) => uxPriority'[u] = uxPriority[u],
           xWaitingForMutex' \in [Mutexes -> Seq(Users)],
           \A m \in Mutexes : InOrder(xWaitingForMutex'[m], xWaitingForMutex[m])
    PROVE  ListsSorted' /\ \A u \in Users : \A m \in Mutexes : WaitsFor(u, m)' => WaitsFor(u, m)
<1>1. ASSUME NEW m \in Mutexes, NEW i \in DOMAIN xWaitingForMutex'[m], NEW j \in DOMAIN xWaitingForMutex'[m]
      PROVE  LET a == xWaitingForMutex'[m][i]
                 b == xWaitingForMutex'[m][j]
             IN  /\ userAt'[a] = "try" /\ wants'[a] = m
                 /\ i < j => a # b /\ uxPriority'[a] >= BasePriority[b]
  <2>1. PICK p \in DOMAIN xWaitingForMutex[m], q \in DOMAIN xWaitingForMutex[m] :
            /\ xWaitingForMutex'[m][i] = xWaitingForMutex[m][p]
            /\ xWaitingForMutex'[m][j] = xWaitingForMutex[m][q] /\ (i < j => p < q)
    BY DEF InOrder
  <2>2. ListSorted(m) /\ xWaitingForMutex[m][p] \in Users
    BY DEF MutexInv, MutexTyped, ListsSorted
  <2>3. Waits(xWaitingForMutex[m][p])
    BY DEF Waits, WaitsFor
  <2> QED BY <2>1, <2>2, <2>3 DEF ListSorted
<1>2. ListsSorted'
  BY <1>1 DEF ListsSorted, ListSorted
<1>3. ASSUME NEW u \in Users, NEW m \in Mutexes, WaitsFor(u, m)' PROVE WaitsFor(u, m)
  BY <1>3 DEF WaitsFor, InOrder
<1> QED BY <1>2, <1>3

\* The successor of a mutex after such a step.
LEMMA SuccessorStays ==
    ASSUME MutexInv, UNCHANGED <<userAt, wants>>, NEW n \in Mutexes, Free(n), xWaitingForMutex'[n] # <<>>,
           \A u \in Users : userAt[u] = "try" => uxPriority'[u] = uxPriority[u],
           xWaitingForMutex' \in [Mutexes -> Seq(Users)],
           \A m \in Mutexes : InOrder(xWaitingForMutex'[m], xWaitingForMutex[m]),
           \A u \in Users : \A m \in Mutexes : WaitsFor(u, m)' => WaitsFor(u, m)
    PROVE  \E a \in Users : SuccessorOf(a, n)'
<1>1. xWaitingForMutex[n] # <<>>
  <2>1. xWaitingForMutex'[n] \in Seq(Users)
    OBVIOUS
  <2>2. 1 \in DOMAIN xWaitingForMutex'[n]
    BY <2>1
  <2> QED BY <2>2 DEF InOrder
<1>2. PICK a \in Users : SuccessorOf(a, n)
  BY <1>1 DEF MutexInv, HasSuccessor
<1>3. ~Waits(a)'
  BY <1>2 DEF SuccessorOf, Waits
<1>4. userAt'[a] = "try" /\ wants'[a] = n /\ uxPriority'[a] = uxPriority[a]
  BY <1>2 DEF SuccessorOf
<1>5. ASSUME NEW i \in DOMAIN xWaitingForMutex'[n]
      PROVE  uxPriority'[a] >= BasePriority[xWaitingForMutex'[n][i]]
  <2>1. PICK p \in DOMAIN xWaitingForMutex[n] : xWaitingForMutex'[n][i] = xWaitingForMutex[n][p]
    BY DEF InOrder
  <2> QED BY <1>2, <1>4, <2>1 DEF SuccessorOf
<1>6. SuccessorOf(a, n)'
  BY <1>3, <1>4, <1>5 DEF SuccessorOf
<1> QED BY <1>6

\* A task whose time has come leaves its list, and tries once more.
LEMMA TickStep ==
    ASSUME MutexInv, NEW t \in Users, TickTakesOff(t)
    PROVE  MutexInv'
<1> DEFINE m == wants[t]
           list == xWaitingForMutex[m]
           k == CHOOSE i \in DOMAIN list : list[i] = t
           off == TakenOff(list, t)
<1>1. m \in Mutexes /\ WaitsFor(t, m)
  BY WhoWaits DEF TickTakesOff
<1>2. k \in DOMAIN list /\ list[k] = t /\ list \in Seq(Users)
  BY <1>1 DEF WaitsFor, MutexInv, MutexTyped
<1>3. off = SubSeq(list, 1, k - 1) \o SubSeq(list, k + 1, Len(list))
  BY DEF TakenOff
<1>4. /\ xWaitingForMutex' = [xWaitingForMutex EXCEPT ![m] = off]
      /\ UNCHANGED <<use, xMutexHolder, uxPriority, userAt, wants, xTicksToWait>>
  BY DEF TickTakesOff
<1> HIDE DEF k, m, list, off
<1>5. off \in Seq(Users) /\ IsCut(off, list, k) /\ k \in 1..Len(list)
  <2>1. k \in 1..Len(list)
    BY <1>2
  <2> QED BY <1>2, <1>3, <2>1, Cut, Zenon
<1>6. /\ xWaitingForMutex' \in [Mutexes -> Seq(Users)]
      /\ \A n \in Mutexes : InOrder(xWaitingForMutex'[n], xWaitingForMutex[n])
  BY <1>1, <1>4, <1>5, ListsInOrder DEF list
<1>7. ListsSorted' /\ \A u \in Users : \A n \in Mutexes : WaitsFor(u, n)' => WaitsFor(u, n)
  <2>1. \A u \in Users : Waits(u) => uxPriority'[u] = uxPriority[u]
    BY <1>4
  <2> QED BY <1>4, <1>6, <2>1, ListsShrink
<1>8. MutexTyped' /\ OwnOrInherited' /\ WhileHeld'
  BY <1>4, <1>6 DEF MutexInv, MutexTyped, OwnOrInherited, WhileHeld, Held
<1>9. HolderInherits'
  <2> SUFFICES ASSUME NEW n \in Mutexes, ~Free(n), NEW i \in DOMAIN xWaitingForMutex'[n]
               PROVE  uxPriority[xMutexHolder[n]] >= BasePriority[xWaitingForMutex'[n][i]]
    BY <1>4 DEF HolderInherits, Free
  <2>1. PICK p \in DOMAIN xWaitingForMutex[n] : xWaitingForMutex'[n][i] = xWaitingForMutex[n][p]
    BY <1>6 DEF InOrder
  <2>2. uxPriority[xMutexHolder[n]] >= BasePriority[xWaitingForMutex[n][p]]
    BY DEF MutexInv, HolderInherits
  <2> QED BY <2>1, <2>2
<1>10. HasSuccessor'
  <2> SUFFICES ASSUME NEW n \in Mutexes, Free(n), xWaitingForMutex'[n] # <<>>
               PROVE  \E a \in Users : SuccessorOf(a, n)'
    BY <1>4 DEF HasSuccessor, Free
  <2> QED BY <1>4, <1>6, <1>7, SuccessorStays
<1> QED BY <1>7, <1>8, <1>9, <1>10 DEF MutexInv

\* A mutex given goes to the first task on its list or to one as important; the
\* giver keeps what it inherited until it has given the last.
LEMMA GiveStep ==
    ASSUME MutexInv, NEW t \in Users, NEW m \in Mutexes, Give(t, m)
    PROVE  MutexInv'
<1> DEFINE list == xWaitingForMutex[m]
           rest == IF list = <<>> THEN list ELSE Tail(list)
<1>1. /\ ~Waits(t) /\ userAt[t] = "runs" /\ m \in Held(t) /\ xMutexHolder[m] = t
      /\ xMutexHolder' = [xMutexHolder EXCEPT ![m] = NoUser]
      /\ xWaitingForMutex' = [xWaitingForMutex EXCEPT ![m] = rest]
      /\ UNCHANGED <<use, userAt, wants, xTicksToWait>>
  BY DEF Give, UserGoes, Running, Ready, Held, takeVars, MutexInv, MutexTyped
<1>2. list \in Seq(Users)
  BY DEF MutexInv, MutexTyped
<1> HIDE DEF list, rest
<1>3. /\ rest \in Seq(Users) /\ (rest = list \/ \E k \in 1..Len(list) : IsCut(rest, list, k))
      /\ list # <<>> => /\ IsCut(rest, list, 1) /\ 1 \in DOMAIN list /\ DOMAIN list = 1..Len(list)
                        /\ DOMAIN rest = 1..Len(list) - 1
  <2>1. CASE list = <<>>
    BY <1>2, <2>1 DEF rest
  <2>2. CASE list # <<>>
    <3>1. Tail(list) \in Seq(Users) /\ IsCut(Tail(list), list, 1) /\ 1 \in 1..Len(list)
      BY <1>2, <2>2, TailIsCut
    <3>2. rest = Tail(list)
      BY <2>2 DEF rest
    <3>3. Len(list) \in Nat /\ DOMAIN list = 1..Len(list) /\ DOMAIN Tail(list) = 1..Len(list) - 1
      BY <1>2, <2>2
    <3> QED BY <3>1, <3>2, <3>3
  <2> QED BY <2>1, <2>2
<1>4. /\ xWaitingForMutex' \in [Mutexes -> Seq(Users)] /\ xWaitingForMutex'[m] = rest
      /\ \A n \in Mutexes : InOrder(xWaitingForMutex'[n], xWaitingForMutex[n])
  <2>1. rest = xWaitingForMutex[m] \/ \E k \in 1..Len(xWaitingForMutex[m]) : IsCut(rest, xWaitingForMutex[m], k)
    BY <1>3 DEF list
  <2>2. xWaitingForMutex' = [xWaitingForMutex EXCEPT ![m] = rest] /\ rest \in Seq(Users)
    BY <1>1, <1>3
  <2> QED BY <2>1, <2>2, ListsInOrder, Zenon
<1>5. /\ uxPriority' \in [Users -> Nat] /\ \A u \in Users : u # t => uxPriority'[u] = uxPriority[u]
      /\ \/ Held(t) = {m} /\ uxPriority'[t] = BasePriority[t]
         \/ Held(t) \ {m} # {} /\ uxPriority'[t] = uxPriority[t]
  <2>1. uxPriority \in [Users -> Nat] /\ BasePriority \in [Users -> Nat]
    BY KernelMutexAssumption DEF MutexInv, MutexTyped
  <2>2. CASE uxMutexesHeld(t) = 1
    <3>1. Held(t) = {m}
      BY <1>1, <2>2, HoldsOne
    <3>2. uxPriority' = [uxPriority EXCEPT ![t] = BasePriority[t]]
      BY <2>2 DEF Give, PriorityDisinherit
    <3> QED BY <2>1, <3>1, <3>2
  <2>3. CASE uxMutexesHeld(t) # 1
    <3>1. Held(t) \ {m} # {}
      BY <1>1, <2>3, HoldsMore
    <3>2. uxPriority' = uxPriority
      BY <2>3 DEF Give, PriorityDisinherit
    <3> QED BY <2>1, <3>1, <3>2
  <2> QED BY <2>2, <2>3
<1>6. /\ \A u \in Users : u # NoUser
      /\ \A u \in Users : Held(u)' = IF u = t THEN Held(u) \ {m} ELSE Held(u)
  <2>1. \A u \in Users : u # NoUser
    BY KernelMutexAssumption
  <2> QED BY <1>1, <2>1 DEF Held, MutexInv, MutexTyped
<1>7. ListsSorted' /\ \A u \in Users : \A n \in Mutexes : WaitsFor(u, n)' => WaitsFor(u, n)
  <2>1. \A u \in Users : Waits(u) => uxPriority'[u] = uxPriority[u]
    BY <1>1, <1>5
  <2> QED BY <1>1, <1>4, <2>1, ListsShrink
<1>8. MutexTyped'
  <2>1. /\ xMutexHolder' \in [Mutexes -> Users \cup {NoUser}] /\ userAt' \in [Users -> Calling \cup {"asleep", "runs"}]
        /\ wants' \in [Users -> Mutexes \cup {NoMutex}] /\ use' \in Uses
        /\ xTicksToWait' \in [Users -> {"none", "finite", "forever"}]
    BY <1>1 DEF MutexInv, MutexTyped
  <2>2. ASSUME NEW u \in Users, userAt'[u] \in Calling
        PROVE  wants'[u] \in Mutexes /\ xMutexHolder'[wants'[u]] # u
    BY <1>1, <1>6, <2>2 DEF MutexInv, MutexTyped
  <2> QED BY <1>4, <1>5, <2>1, <2>2 DEF MutexTyped
<1>9. OwnOrInherited'
  <2> SUFFICES ASSUME NEW u \in Users
               PROVE  uxPriority'[u] >= BasePriority[u] /\ (Held(u)' = {} => uxPriority'[u] = BasePriority[u])
    BY DEF OwnOrInherited
  <2>1. BasePriority[u] \in Int
    BY KernelMutexAssumption
  <2>2. uxPriority[u] >= BasePriority[u] /\ (Held(u) = {} => uxPriority[u] = BasePriority[u])
    BY DEF MutexInv, OwnOrInherited
  <2>3. CASE u = t
    <3>1. Held(u)' = Held(u) \ {m}
      BY <1>6, <2>3
    <3>2. CASE Held(t) = {m} /\ uxPriority'[t] = BasePriority[t]
      BY <2>1, <2>3, <3>2
    <3>3. CASE Held(t) \ {m} # {} /\ uxPriority'[t] = uxPriority[t]
      BY <2>2, <2>3, <3>1, <3>3
    <3> QED BY <1>5, <3>2, <3>3
  <2>4. CASE u # t
    <3>1. Held(u)' = Held(u) /\ uxPriority'[u] = uxPriority[u]
      BY <1>5, <1>6, <2>4
    <3> QED BY <2>2, <3>1
  <2> QED BY <2>3, <2>4
<1>10. WhileHeld'
  BY <1>1, <1>6 DEF MutexInv, WhileHeld
<1>11. HolderInherits'
  <2> SUFFICES ASSUME NEW n \in Mutexes, ~Free(n)', NEW i \in DOMAIN xWaitingForMutex'[n]
               PROVE  uxPriority'[xMutexHolder'[n]] >= BasePriority[xWaitingForMutex'[n][i]]
    BY DEF HolderInherits
  <2>1. n # m /\ xMutexHolder'[n] = xMutexHolder[n] /\ ~Free(n) /\ xMutexHolder[n] \in Users
    BY <1>1 DEF Free, MutexInv, MutexTyped
  <2>2. PICK p \in DOMAIN xWaitingForMutex[n] : xWaitingForMutex'[n][i] = xWaitingForMutex[n][p]
    BY <1>4 DEF InOrder
  <2>3. uxPriority[xMutexHolder[n]] >= BasePriority[xWaitingForMutex[n][p]]
    BY <2>1 DEF MutexInv, HolderInherits
  <2>4. uxPriority'[xMutexHolder[n]] = uxPriority[xMutexHolder[n]]
    <3>1. CASE xMutexHolder[n] = t
      <4>1. n \in Held(t) \ {m}
        BY <2>1, <3>1 DEF Held
      <4> QED BY <1>5, <3>1, <4>1
    <3> QED BY <1>5, <2>1, <3>1
  <2> QED BY <2>1, <2>2, <2>3, <2>4
<1>12. HasSuccessor'
  <2> SUFFICES ASSUME NEW n \in Mutexes, Free(n)', xWaitingForMutex'[n] # <<>>
               PROVE  \E a \in Users : SuccessorOf(a, n)'
    BY DEF HasSuccessor
  <2>1. \A u \in Users : userAt[u] = "try" => uxPriority'[u] = uxPriority[u]
    BY <1>1, <1>5
  <2>2. CASE n # m
    <3>1. Free(n)
      BY <1>1, <2>2 DEF Free, MutexInv, MutexTyped
    <3> QED BY <1>1, <1>4, <1>7, <2>1, <3>1, SuccessorStays
  <2>3. CASE n = m
    <3>1. list # <<>>
      BY <1>4, <2>3 DEF rest
    <3>2. list[1] \in Users
      BY <1>2, <1>3, <3>1
    <3>3. PICK a \in Users : a = list[1]
      BY <3>2
    <3>4. ListSorted(m)
      BY DEF MutexInv, ListsSorted
    <3>5. userAt[a] = "try" /\ wants[a] = m
      BY <1>3, <3>1, <3>4, <3>3 DEF ListSorted, list
    <3>6. \A i \in DOMAIN rest : i + 1 \in DOMAIN list /\ 1 < i + 1 /\ rest[i] = list[i + 1]
      BY <1>2, <1>3, <3>1 DEF IsCut
    <3>7. \A i \in DOMAIN rest : a # rest[i] /\ uxPriority[a] >= BasePriority[rest[i]]
      BY <1>3, <3>1, <3>4, <3>6, <3>3 DEF ListSorted, list
    <3>8. ~Waits(a)'
      <4>1. ASSUME NEW h \in Mutexes, WaitsFor(a, h)' PROVE h = m
        <5>1. WaitsFor(a, h) /\ Waits(a)
          BY <1>7, <4>1 DEF Waits
        <5> QED BY <3>5, <5>1, WhoWaits
      <4>2. ~WaitsFor(a, m)'
        BY <1>4, <3>7 DEF WaitsFor
      <4> QED BY <4>1, <4>2 DEF Waits
    <3>9. SuccessorOf(a, m)'
      BY <1>1, <1>4, <2>1, <3>5, <3>7, <3>8 DEF SuccessorOf
    <3> QED BY <2>3, <3>9
  <2> QED BY <2>2, <2>3
<1> QED BY <1>7, <1>8, <1>9, <1>10, <1>11, <1>12 DEF MutexInv

\* A task that waits raises the holder of the mutex, and finds its place on the
\* list behind those that are more important.
LEMMA BlockStep ==
    ASSUME MutexInv, NEW t \in Users, Block(t)
    PROVE  MutexInv'
<1> DEFINE m == wants[t]
           holder == xMutexHolder[m]
           list == xWaitingForMutex[m]
<1>1. /\ m \in Mutexes /\ ~Waits(t) /\ userAt[t] = "block" /\ holder # t
      /\ userAt' = [userAt EXCEPT ![t] = "try"]
      /\ UNCHANGED <<use, xMutexHolder, wants, xTicksToWait>>
      /\ ~use.nested => Held(t) = {}
  BY NestedType DEF Block, UserGoes, Running, Ready, MutexInv, MutexTyped, WhileHeld, Calling
<1>2. CASE Free(m)
  <2>1. UNCHANGED <<xWaitingForMutex, uxPriority>>
    BY <1>2 DEF Block
  <2>2. "try" \in Calling
    BY DEF Calling
  <2> QED BY <1>1, <2>1, <2>2, LocalStep, NestedType DEF MutexInv, MutexTyped, WhileHeld
<1>3. CASE ~Free(m)
  <2>1. /\ PriorityInherit(t, holder)
        /\ xWaitingForMutex' = [xWaitingForMutex EXCEPT ![m] = InsertedByPriority(list, t)]
    BY <1>3 DEF Block
  <2>2. holder \in Users /\ list \in Seq(Users) /\ uxPriority \in [Users -> Nat] /\ BasePriority \in [Users -> Nat]
    BY <1>1, <1>3, KernelMutexAssumption DEF Free, MutexInv, MutexTyped
  <2> HIDE DEF m, holder, list
  <2>3. /\ uxPriority' \in [Users -> Nat] /\ \A u \in Users : uxPriority'[u] >= uxPriority[u]
        /\ \A u \in Users : u # holder => uxPriority'[u] = uxPriority[u]
        /\ uxPriority'[holder] >= uxPriority[t]
    BY <2>1, <2>2 DEF PriorityInherit
  <2>4. PICK n \in 0..Len(list) :
            /\ InsertedByPriority(list, t) = SubSeq(list, 1, n) \o <<t>> \o SubSeq(list, n + 1, Len(list))
            /\ \A i \in 1..n : uxPriority[list[i]] >= uxPriority[t]
            /\ n < Len(list) => uxPriority[list[n + 1]] < uxPriority[t]
    BY <2>2, InsertedBehind
  <2> DEFINE more == InsertedByPriority(list, t)
  <2>5. more \in Seq(Users) /\ IsPut(more, list, n, t)
    BY <2>2, <2>4, PutIn, Zenon
  <2> HIDE DEF more
  <2>6. /\ xWaitingForMutex' \in [Mutexes -> Seq(Users)] /\ xWaitingForMutex'[m] = more
        /\ \A h \in Mutexes : h # m => xWaitingForMutex'[h] = xWaitingForMutex[h]
    BY <1>1, <2>1, <2>5 DEF MutexInv, MutexTyped, more
  <2>7. /\ DOMAIN more = 1..Len(list) + 1 /\ DOMAIN list = 1..Len(list) /\ Len(list) \in Nat
        /\ \A i \in 1..Len(list) + 1 : more[i] = IF i <= n THEN list[i] ELSE IF i = n + 1 THEN t ELSE list[i - 1]
    <3>1. DOMAIN more = 1..Len(more) /\ DOMAIN list = 1..Len(list) /\ Len(list) \in Nat
      BY <2>2, <2>5
    <3> QED BY <2>5, <3>1, Zenon DEF IsPut
  <2>8. /\ ListSorted(m)
        /\ \A h \in Mutexes : \A i \in DOMAIN xWaitingForMutex[h] :
               xWaitingForMutex[h][i] \in Users /\ xWaitingForMutex[h][i] # t
    BY <1>1 DEF MutexInv, MutexTyped, ListsSorted, Waits, WaitsFor
  <2>9. \A u \in Users : /\ uxPriority[u] \in Nat /\ uxPriority'[u] \in Nat /\ BasePriority[u] \in Nat
                         /\ uxPriority[u] >= BasePriority[u]
    BY <2>2, <2>3 DEF MutexInv, OwnOrInherited
  <2>10. \A i, j \in DOMAIN list : i < j => list[i] # list[j] /\ uxPriority[list[i]] >= BasePriority[list[j]]
    BY <2>8 DEF ListSorted, list
  <2>11. \A i \in DOMAIN list : list[i] \in Users /\ list[i] # t
    BY <1>1, <2>8 DEF list, m
  <2>12. \A i \in DOMAIN list : i > n => uxPriority[t] >= BasePriority[list[i]]
    <3> SUFFICES ASSUME NEW i \in DOMAIN list, i > n PROVE uxPriority[t] >= BasePriority[list[i]]
      OBVIOUS
    <3>1. n < Len(list) /\ n + 1 \in DOMAIN list
      BY <2>7
    <3>2. uxPriority[list[n + 1]] < uxPriority[t]
      BY <2>4, <3>1
    <3>3. uxPriority[list[n + 1]] >= BasePriority[list[i]]
      <4>1. CASE i = n + 1
        BY <2>9, <2>11, <4>1
      <4>2. CASE i # n + 1
        <5>1. n + 1 < i
          BY <2>7, <4>2
        <5> QED BY <2>10, <3>1, <5>1
      <4> QED BY <4>1, <4>2
    <3>4. uxPriority[list[n + 1]] \in Nat /\ BasePriority[list[i]] \in Nat
      BY <2>9, <2>11, <3>1
    <3> QED BY <2>9, <3>2, <3>3, <3>4
  <2>13. \A i \in 1..n : uxPriority[list[i]] >= BasePriority[t]
    <3> SUFFICES ASSUME NEW i \in 1..n PROVE uxPriority[list[i]] >= BasePriority[t]
      OBVIOUS
    <3>1. uxPriority[list[i]] >= uxPriority[t] /\ list[i] \in Users
      <4>1. i \in DOMAIN list
        BY <2>7
      <4>2. list[i] \in Users
        BY <2>11, <4>1
      <4>3. uxPriority[list[i]] >= uxPriority[t]
        BY <2>4
      <4> QED BY <4>2, <4>3
    <3> QED BY <2>9, <3>1
  <2>14. ASSUME NEW i \in DOMAIN more, NEW j \in DOMAIN more, i < j
         PROVE  more[i] \in Users /\ more[j] \in Users /\ more[i] # more[j] /\ uxPriority[more[i]] >= BasePriority[more[j]]
    <3>1. CASE j <= n
      <4>1. i \in DOMAIN list /\ j \in DOMAIN list /\ more[i] = list[i] /\ more[j] = list[j]
        BY <2>7, <2>14, <3>1
      <4> QED BY <2>10, <2>11, <2>14, <4>1
    <3>2. CASE j = n + 1
      <4>1. i \in DOMAIN list /\ i \in 1..n /\ more[i] = list[i] /\ more[j] = t
        BY <2>7, <2>14, <3>2
      <4> QED BY <2>11, <2>13, <4>1
    <3>3. CASE j > n + 1 /\ i = n + 1
      <4>1. j - 1 \in DOMAIN list /\ j - 1 > n /\ more[i] = t /\ more[j] = list[j - 1]
        BY <2>7, <3>3
      <4> QED BY <2>11, <2>12, <4>1
    <3>4. CASE j > n + 1 /\ i <= n
      <4>1. i \in DOMAIN list /\ j - 1 \in DOMAIN list /\ i < j - 1 /\ more[i] = list[i] /\ more[j] = list[j - 1]
        BY <2>7, <3>4
      <4> QED BY <2>10, <2>11, <4>1
    <3>5. CASE j > n + 1 /\ i > n + 1
      <4>1. /\ i - 1 \in DOMAIN list /\ j - 1 \in DOMAIN list /\ i - 1 < j - 1
            /\ more[i] = list[i - 1] /\ more[j] = list[j - 1]
        BY <2>7, <2>14, <3>5
      <4> QED BY <2>10, <2>11, <4>1
    <3> QED BY <2>7, <2>14, <3>1, <3>2, <3>3, <3>4, <3>5
  <2>15. \A i \in DOMAIN more : more[i] = t \/ \E p \in DOMAIN list : more[i] = list[p]
    <3> SUFFICES ASSUME NEW i \in DOMAIN more PROVE more[i] = t \/ \E p \in DOMAIN list : more[i] = list[p]
      OBVIOUS
    <3>1. CASE i <= n
      BY <2>7, <3>1
    <3>2. CASE i > n + 1
      <4>1. i - 1 \in DOMAIN list /\ more[i] = list[i - 1]
        BY <2>7, <3>2
      <4> QED BY <4>1
    <3> QED BY <2>7, <3>1, <3>2
  <2>16. MutexTyped'
    <3>1. /\ xMutexHolder' \in [Mutexes -> Users \cup {NoUser}] /\ userAt' \in [Users -> Calling \cup {"asleep", "runs"}]
          /\ wants' \in [Users -> Mutexes \cup {NoMutex}] /\ use' \in Uses
          /\ xTicksToWait' \in [Users -> {"none", "finite", "forever"}]
      BY <1>1 DEF MutexInv, MutexTyped, Calling
    <3>2. ASSUME NEW u \in Users, userAt'[u] \in Calling
          PROVE  wants'[u] \in Mutexes /\ xMutexHolder'[wants'[u]] # u
      BY <1>1, <3>2 DEF MutexInv, MutexTyped, Calling
    <3> QED BY <2>3, <2>6, <3>1, <3>2 DEF MutexTyped
  <2>17. OwnOrInherited'
    <3>1. Held(holder) # {} /\ \A u \in Users : Held(u)' = Held(u)
      BY <1>1 DEF Held, holder
    <3>2. \A u \in Users : uxPriority'[u] >= BasePriority[u]
      BY <2>3, <2>9
    <3>3. \A u \in Users : u # holder /\ Held(u) = {} => uxPriority'[u] = BasePriority[u]
      BY <2>3 DEF MutexInv, OwnOrInherited
    <3> QED BY <3>1, <3>2, <3>3 DEF OwnOrInherited
  <2>18. WhileHeld'
    BY <1>1 DEF MutexInv, MutexTyped, WhileHeld, Held, Calling
  <2>19. ListsSorted'
    <3>1. \A u \in Users : u # t => userAt'[u] = userAt[u] /\ wants'[u] = wants[u]
      BY <1>1 DEF MutexInv, MutexTyped
    <3>2. ASSUME NEW h \in Mutexes, h # m PROVE ListSorted(h)'
      <4>1. ListSorted(h) /\ xWaitingForMutex[h] \in Seq(Users)
        BY DEF MutexInv, MutexTyped, ListsSorted
      <4>2. \A i, j \in DOMAIN xWaitingForMutex[h] : i < j =>
                uxPriority'[xWaitingForMutex[h][i]] >= BasePriority[xWaitingForMutex[h][j]]
        <5> SUFFICES ASSUME NEW i \in DOMAIN xWaitingForMutex[h], NEW j \in DOMAIN xWaitingForMutex[h], i < j
                     PROVE  uxPriority'[xWaitingForMutex[h][i]] >= BasePriority[xWaitingForMutex[h][j]]
          OBVIOUS
        <5>1. xWaitingForMutex[h][i] \in Users /\ xWaitingForMutex[h][j] \in Users
          BY <4>1
        <5>2. uxPriority[xWaitingForMutex[h][i]] >= BasePriority[xWaitingForMutex[h][j]]
          BY <4>1 DEF ListSorted
        <5> QED BY <2>3, <2>9, <5>1, <5>2
      <4> QED BY <2>6, <2>8, <3>1, <3>2, <4>1, <4>2 DEF ListSorted
    <3>3. ASSUME NEW h \in Mutexes, h = m PROVE ListSorted(h)'
      <4>1. ASSUME NEW i \in DOMAIN more PROVE userAt'[more[i]] = "try" /\ wants'[more[i]] = m
        <5>1. userAt'[t] = "try" /\ wants'[t] = m
          BY <1>1 DEF MutexInv, MutexTyped, m
        <5>2. \A p \in DOMAIN list : userAt'[list[p]] = "try" /\ wants'[list[p]] = m
          BY <2>8, <2>11, <3>1 DEF ListSorted, list
        <5> QED BY <2>15, <5>1, <5>2
      <4>2. ASSUME NEW i \in DOMAIN more, NEW j \in DOMAIN more, i < j
            PROVE  more[i] # more[j] /\ uxPriority'[more[i]] >= BasePriority[more[j]]
        <5>1. more[i] \in Users /\ more[j] \in Users /\ more[i] # more[j] /\ uxPriority[more[i]] >= BasePriority[more[j]]
          BY <2>14, <4>2
        <5> QED BY <2>3, <2>9, <5>1
      <4> QED BY <2>6, <3>3, <4>1, <4>2 DEF ListSorted
    <3> QED BY <3>2, <3>3 DEF ListsSorted
  <2>20. HolderInherits'
    <3> SUFFICES ASSUME NEW h \in Mutexes, ~Free(h)', NEW i \in DOMAIN xWaitingForMutex'[h]
                 PROVE  uxPriority'[xMutexHolder'[h]] >= BasePriority[xWaitingForMutex'[h][i]]
      BY DEF HolderInherits
    <3>1. xMutexHolder'[h] = xMutexHolder[h] /\ xMutexHolder[h] \in Users /\ ~Free(h)
      BY <1>1 DEF Free, MutexInv, MutexTyped
    <3>2. \A k \in DOMAIN xWaitingForMutex[h] :
              /\ uxPriority[xMutexHolder[h]] >= BasePriority[xWaitingForMutex[h][k]]
              /\ xWaitingForMutex[h][k] \in Users
      BY <2>8, <3>1 DEF MutexInv, HolderInherits
    <3>3. \A k \in DOMAIN xWaitingForMutex[h] : uxPriority'[xMutexHolder[h]] >= BasePriority[xWaitingForMutex[h][k]]
      <4> SUFFICES ASSUME NEW k \in DOMAIN xWaitingForMutex[h]
                   PROVE  uxPriority'[xMutexHolder[h]] >= BasePriority[xWaitingForMutex[h][k]]
        OBVIOUS
      <4>1. /\ uxPriority'[xMutexHolder[h]] >= uxPriority[xMutexHolder[h]]
            /\ uxPriority'[xMutexHolder[h]] \in Nat /\ uxPriority[xMutexHolder[h]] \in Nat
        BY <2>3, <2>9, <3>1
      <4>2. /\ uxPriority[xMutexHolder[h]] >= BasePriority[xWaitingForMutex[h][k]]
            /\ BasePriority[xWaitingForMutex[h][k]] \in Nat
        BY <2>9, <3>2
      <4> QED BY <4>1, <4>2
    <3>4. CASE h # m
      BY <2>6, <3>1, <3>3, <3>4
    <3>5. CASE h = m
      <4>1. uxPriority'[holder] >= BasePriority[t]
        BY <2>2, <2>3, <2>9
      <4>2. \A p \in DOMAIN list : uxPriority'[holder] >= BasePriority[list[p]]
        BY <3>3, <3>5 DEF holder, list
      <4>3. i \in DOMAIN more /\ xWaitingForMutex'[h] = more /\ xMutexHolder'[h] = holder
        BY <2>6, <3>1, <3>5 DEF holder
      <4> QED BY <2>15, <4>1, <4>2, <4>3
    <3> QED BY <3>4, <3>5
  <2>21. HasSuccessor'
    <3> SUFFICES ASSUME NEW h \in Mutexes, Free(h)', xWaitingForMutex'[h] # <<>>
                 PROVE  \E a \in Users : SuccessorOf(a, h)'
      BY DEF HasSuccessor
    <3>1. h # m /\ Free(h) /\ xWaitingForMutex'[h] = xWaitingForMutex[h]
      BY <1>1, <1>3, <2>6 DEF Free, m
    <3>2. PICK a \in Users : SuccessorOf(a, h)
      BY <3>1 DEF MutexInv, HasSuccessor
    <3>3. a # t
      BY <1>1, <3>2 DEF SuccessorOf
    <3>4. userAt'[a] = "try" /\ wants'[a] = h
      BY <1>1, <3>2, <3>3 DEF SuccessorOf, MutexInv, MutexTyped
    <3>5. ~Waits(a)'
      <4> SUFFICES ASSUME NEW g \in Mutexes, WaitsFor(a, g)' PROVE FALSE
        BY DEF Waits
      <4>1. ~WaitsFor(a, g)
        BY <3>2 DEF SuccessorOf, Waits
      <4>2. CASE g = m
        BY <2>6, <2>15, <3>3, <4>1, <4>2 DEF WaitsFor, list
      <4>3. CASE g # m
        BY <2>6, <4>1, <4>3 DEF WaitsFor
      <4> QED BY <4>2, <4>3
    <3>6. ASSUME NEW i \in DOMAIN xWaitingForMutex[h] PROVE uxPriority'[a] >= BasePriority[xWaitingForMutex[h][i]]
      <4>1. uxPriority[a] >= BasePriority[xWaitingForMutex[h][i]] /\ xWaitingForMutex[h][i] \in Users
        BY <2>8, <3>2 DEF SuccessorOf
      <4> QED BY <2>3, <2>9, <4>1
    <3>7. SuccessorOf(a, h)'
      BY <3>1, <3>4, <3>5, <3>6 DEF SuccessorOf
    <3> QED BY <3>7
  <2> QED BY <2>16, <2>17, <2>18, <2>19, <2>20, <2>21 DEF MutexInv
<1> QED BY <1>2, <1>3

\* A call that gives up takes from the holder what it inherited from this task,
\* and leaves it what it inherited from the first on the list.  The holder has
\* one mutex and is in no call, so that it is on no list itself.
LEMMA DisinheritStep ==
    ASSUME MutexInv, NEW t \in Users, Disinherit(t)
    PROVE  MutexInv'
<1> DEFINE m == wants[t]
           holder == xMutexHolder[m]
           list == xWaitingForMutex[m]
           highest == IF list = <<>> THEN 0 ELSE uxPriority[Head(list)]
<1>1. /\ m \in Mutexes /\ ~Waits(t) /\ userAt[t] = "disinherit" /\ ~use.nested
      /\ userAt' = [userAt EXCEPT ![t] = "runs"] /\ wants' = [wants EXCEPT ![t] = NoMutex]
      /\ xTicksToWait' = [xTicksToWait EXCEPT ![t] = "none"]
      /\ UNCHANGED <<use, xMutexHolder, xWaitingForMutex>>
      /\ PriorityDisinheritAfterTimeout(holder, highest)
  BY DEF Disinherit, TakeReturns, UserGoes, Running, Ready, GetDisinheritPriorityAfterTimeout,
         MutexInv, MutexTyped, WhileHeld, Calling
<1>2. CASE holder # NoUser /\ uxMutexesHeld(holder) = 1
  <2>1. holder \in Users /\ list \in Seq(Users) /\ ListSorted(m)
    BY <1>1, <1>2 DEF MutexInv, MutexTyped, ListsSorted
  <2>2. Held(holder) = {m}
    <3>1. m \in Held(holder)
      BY <1>1 DEF Held
    <3> HIDE DEF holder, m
    <3> QED BY <1>2, <3>1, HoldsOne
  <2>3. userAt[holder] # "try"
    BY <1>1, <2>1, <2>2 DEF MutexInv, WhileHeld, Calling
  <2> HIDE DEF m, holder, list
  <2>4. /\ uxPriority \in [Users -> Nat] /\ BasePriority \in [Users -> Nat]
        /\ list # <<>> => Head(list) = list[1] /\ list[1] \in Users
        /\ DOMAIN list = 1..Len(list) /\ Len(list) \in Nat /\ \A i \in DOMAIN list : list[i] \in Users
    BY <2>1, KernelMutexAssumption DEF MutexInv, MutexTyped
  <2>5. highest \in Nat
    BY <2>4
  <2>6. /\ uxPriority' \in [Users -> Nat] /\ \A u \in Users : u # holder => uxPriority'[u] = uxPriority[u]
        /\ uxPriority'[holder] >= highest /\ uxPriority'[holder] >= BasePriority[holder]
    <3> HIDE DEF highest
    <3> QED BY <1>1, <1>2, <2>1, <2>4, <2>5 DEF PriorityDisinheritAfterTimeout
  <2>7. \A i \in DOMAIN list : highest >= BasePriority[list[i]]
    <3> SUFFICES ASSUME NEW i \in DOMAIN list PROVE highest >= BasePriority[list[i]]
      OBVIOUS
    <3>1. list # <<>> /\ highest = uxPriority[list[1]] /\ 1 \in DOMAIN list
      BY <2>4
    <3>2. CASE i = 1
      BY <2>4, <3>1, <3>2 DEF MutexInv, OwnOrInherited
    <3>3. CASE 1 < i
      BY <2>1, <3>1, <3>3 DEF ListSorted, list
    <3> QED BY <2>4, <3>2, <3>3
  <2>8. OwnOrInherited'
    <3>1. Held(holder) # {} /\ \A u \in Users : Held(u)' = Held(u)
      BY <1>1, <2>2 DEF Held
    <3>2. \A u \in Users : u # holder => uxPriority'[u] >= BasePriority[u]
                                         /\ (Held(u) = {} => uxPriority'[u] = BasePriority[u])
      BY <2>6 DEF MutexInv, OwnOrInherited
    <3> QED BY <2>6, <3>1, <3>2 DEF OwnOrInherited
  <2>9. HolderInherits'
    <3> SUFFICES ASSUME NEW h \in Mutexes, ~Free(h)', NEW i \in DOMAIN xWaitingForMutex[h]
                 PROVE  uxPriority'[xMutexHolder[h]] >= BasePriority[xWaitingForMutex[h][i]]
      BY <1>1 DEF HolderInherits
    <3>1. ~Free(h) /\ xMutexHolder[h] \in Users
      BY <1>1 DEF Free, MutexInv, MutexTyped
    <3>2. CASE xMutexHolder[h] = holder
      <4>1. h = m
        BY <2>2, <3>2 DEF Held
      <4>2. xWaitingForMutex[h] = list
        BY <4>1 DEF list
      <4>3. list[i] \in Users /\ highest >= BasePriority[list[i]]
        BY <2>4, <2>7, <4>2
      <4> HIDE DEF highest
      <4>4. uxPriority'[holder] \in Nat /\ BasePriority[list[i]] \in Nat
        BY <2>1, <2>4, <2>6, <4>3
      <4>5. uxPriority'[holder] >= BasePriority[list[i]]
        BY <2>5, <2>6, <4>3, <4>4
      <4> QED BY <3>2, <4>2, <4>5
    <3>3. CASE xMutexHolder[h] # holder
      BY <2>6, <3>1, <3>3 DEF MutexInv, HolderInherits
    <3> QED BY <3>2, <3>3
  <2> QED BY <1>1, <2>3, <2>6, <2>8, <2>9, CallStep DEF MutexInv, MutexTyped, Calling
<1>3. CASE ~(holder # NoUser /\ uxMutexesHeld(holder) = 1)
  <2>1. UNCHANGED uxPriority
    BY <1>1, <1>3 DEF PriorityDisinheritAfterTimeout
  <2> QED BY <1>1, <2>1, LocalStep DEF MutexInv, MutexTyped, Calling
<1> QED BY <1>2, <1>3

LEMMA MutexSteps == MutexInv /\ NestedForEver /\ [MutexNext]_mutexVars => MutexInv'
<1> SUFFICES ASSUME MutexInv, NestedForEver, [MutexNext]_mutexVars PROVE MutexInv'
  OBVIOUS
<1>1. CASE UNCHANGED mutexVars
  BY <1>1 DEF mutexVars, takeVars, MutexInv, MutexTyped, OwnOrInherited, WhileHeld, ListsSorted, ListSorted,
              HolderInherits, HasSuccessor, SuccessorOf, Held, Free, Waits, WaitsFor
<1>2. ASSUME NEW t \in Users,
             \/ SemaphoreTake(t) \/ Sleeps(t) \/ WakesUp(t) \/ TickTakesOff(t)
             \/ \E m \in Mutexes : Give(t, m) \/ \E w \in use.waits : Take(t, m, w)
      PROVE  MutexInv'
  BY <1>2, LocalSteps, TakingStep, BlockStep, DisinheritStep, TickStep, GiveStep DEF SemaphoreTake
<1> QED BY <1>1, <1>2 DEF MutexNext

LEMMA MutexStarts == MutexInit => MutexInv
<1> SUFFICES ASSUME MutexInit PROVE MutexInv
  OBVIOUS
<1>1. /\ \A m \in Mutexes : xWaitingForMutex[m] = <<>> /\ xMutexHolder[m] = NoUser
      /\ \A t \in Users : userAt[t] = "asleep" /\ xTicksToWait[t] = "none"
      /\ uxPriority = BasePriority /\ BasePriority \in [Users -> Nat]
  BY KernelMutexAssumption DEF MutexInit
<1>2. \A t \in Users : Held(t) = {}
  BY <1>1, KernelMutexAssumption DEF Held
<1>3. <<>> \in Seq(Users)
  OBVIOUS
<1>4. MutexTyped
  BY <1>1, <1>3 DEF MutexInit, MutexTyped, Calling
<1>5. OwnOrInherited
  BY <1>1 DEF OwnOrInherited
<1>6. WhileHeld
  BY <1>1, <1>2 DEF WhileHeld
<1>7. ListsSorted /\ HolderInherits /\ HasSuccessor
  BY <1>1 DEF ListsSorted, ListSorted, HolderInherits, HasSuccessor, Free
<1> QED BY <1>4, <1>5, <1>6, <1>7 DEF MutexInv

\* Priority inheritance holds for every set of tasks and of mutexes and all
\* priorities, whoever comes, times out, gives and takes in between: the holder
\* of a mutex has at least the priority of every task on its list, and who holds
\* none has its own.
THEOREM HoldersInherit == ASSUME NestedForEver PROVE MutexSpec => []InheritanceHolds
<1>1. MutexInv => InheritanceHolds
  BY DEF MutexInv, InheritanceHolds, HolderInherits, OwnOrInherited, WaitsFor
<1>2. MutexInv /\ [MutexNext]_mutexVars => MutexInv'
  BY MutexSteps
<1> QED BY <1>1, <1>2, MutexStarts, PTL DEF MutexSpec

-----------------------------------------------------------------------------
(* The I2C bus.                                                            *)

Transactions == [task : BusTasks, r : [command : {"WRITE", "READ", "READ_FROM"}, txlenght : Lengths, rxlenght : Lengths]]

InQueue(t) == \E i \in DOMAIN g_I2Cqueue : g_I2Cqueue[i].task = t

\* A task has one transaction queued at most, the one it asked for, and has not
\* been notified of it.
Queued ==
    /\ g_I2Cqueue \in Seq([task : BusTasks, r : Requests])
    /\ \A i, j \in DOMAIN g_I2Cqueue : i # j => g_I2Cqueue[i].task # g_I2Cqueue[j].task
    /\ \A i \in DOMAIN g_I2Cqueue : LET t == g_I2Cqueue[i].task IN
           g_I2Cqueue[i].r = request[t] /\ busPc[t] # "idle" /\ notified[t] = {}

\* Whose transaction is over has been notified of how it ended, and of nothing
\* else; outside a call nothing is left of it.
Answered ==
    /\ busPc \in [BusTasks -> {"idle", "test", "pend", "wait"}]
    /\ request \in [BusTasks -> Requests \cup {NoRequest}]
    /\ notified \in [BusTasks -> SUBSET {"ERR", "WRITE", "READ"}]
    /\ outcome \in [BusTasks -> {"none", "ERR", "WRITE", "READ"} \X Nat]
    /\ \A t \in BusTasks : ~InQueue(t) =>
           IF busPc[t] = "idle" THEN notified[t] = {}
           ELSE notified[t] = {outcome[t][1]} /\ outcome[t][1] \in Awaited(t)

\* In a transaction the handler works for the first in the queue, in the states of
\* its command.
Working(state, tr) ==
    /\ state \in {"WRITE_NEXT", "WRITE_FINAL", "READ_NEXT", "READ_FINAL"}
    /\ tr \in Transactions /\ tr.r.command = g_I2Cqueue[1].r.command
    /\ tr.r.command # IF state \in {"READ_NEXT", "READ_FINAL"} THEN "WRITE" ELSE "READ"

Handled ==
    /\ enabled = TRUE => g_i2cisrstate # "IDLE"
    /\ moved \in Nat
    /\ g_i2cisrstate # "IDLE" => g_I2Cqueue # <<>> /\ Working(g_i2cisrstate, transaction)

BusInv == Queued /\ Answered /\ Handled

LEMMA BusPause ==
    ASSUME BusInv,
           UNCHANGED <<busPc, request, notified, g_I2Cqueue, g_i2cisrstate, transaction, enabled, moved, outcome>>
    PROVE  BusInv'
<1>1. Queued'
  BY DEF BusInv, Queued
<1>2. Answered'
  <2>1. \A t \in BusTasks : InQueue(t)' = InQueue(t) /\ Awaited(t)' = Awaited(t)
    BY DEF InQueue, Awaited
  <2> QED BY <2>1 DEF BusInv, Answered
<1>3. Handled'
  BY DEF BusInv, Handled, Working
<1> QED BY <1>1, <1>2, <1>3 DEF BusInv

LEMMA QueueTyped ==
    ASSUME BusInv
    PROVE  \A i \in DOMAIN g_I2Cqueue : /\ g_I2Cqueue[i] \in [task : BusTasks, r : Requests]
                                        /\ g_I2Cqueue[i].task \in BusTasks /\ i \in Nat
<1> DEFINE Q == [task : BusTasks, r : Requests]
<1>1. g_I2Cqueue \in Seq(Q)
  BY DEF BusInv, Queued
<1>2. \A i \in DOMAIN g_I2Cqueue : g_I2Cqueue[i] \in Q /\ i \in Nat
  <2> HIDE DEF Q
  <2> QED BY <1>1
<1> QED BY <1>2

\* The end of a transaction: its task leaves the queue, notified of how it ended.
LEMMA FinishStep ==
    ASSUME BusInv, g_I2Cqueue # <<>>, NEW bit \in {"ERR", "WRITE", "READ"}, NEW bytes \in Nat,
           NEW closes, Finish(bit, bytes, closes), UNCHANGED <<busPc, request>>,
           bit \in Awaited(g_I2Cqueue[1].task)
    PROVE  BusInv'
<1> DEFINE Q == [task : BusTasks, r : Requests]
<1>1. /\ g_I2Cqueue \in Seq(Q) /\ Tail(g_I2Cqueue) \in Seq(Q) /\ Head(g_I2Cqueue) = g_I2Cqueue[1]
      /\ 1 \in DOMAIN g_I2Cqueue /\ g_I2Cqueue[1] \in Q
      /\ DOMAIN g_I2Cqueue = 1..Len(g_I2Cqueue) /\ Len(g_I2Cqueue) \in Nat
      /\ DOMAIN Tail(g_I2Cqueue) = 1..Len(g_I2Cqueue) - 1
      /\ \A i \in DOMAIN Tail(g_I2Cqueue) : i + 1 \in DOMAIN g_I2Cqueue /\ Tail(g_I2Cqueue)[i] = g_I2Cqueue[i + 1]
  <2>1. g_I2Cqueue \in Seq(Q) /\ g_I2Cqueue # <<>>
    BY DEF BusInv, Queued
  <2> HIDE DEF Q
  <2> QED BY <2>1
<1>2. PICK t \in BusTasks : t = g_I2Cqueue[1].task
  BY <1>1
<1>3. /\ g_I2Cqueue' = Tail(g_I2Cqueue) /\ notified' = [notified EXCEPT ![t] = @ \cup {bit}]
      /\ outcome' = [outcome EXCEPT ![t] = <<bit, bytes>>]
      /\ g_i2cisrstate' = "IDLE" /\ enabled' = FALSE /\ moved' = bytes
  BY <1>1, <1>2 DEF Finish
<1>4. notified[t] = {} /\ busPc[t] # "idle" /\ g_I2Cqueue[1].r = request[t]
  BY <1>1, <1>2 DEF BusInv, Queued
<1>5. \A i \in DOMAIN g_I2Cqueue' : /\ i + 1 \in DOMAIN g_I2Cqueue /\ g_I2Cqueue'[i] = g_I2Cqueue[i + 1]
                                    /\ i + 1 # 1 /\ i \in Nat
  BY <1>1, <1>3
<1>6. \A i \in DOMAIN g_I2Cqueue' : g_I2Cqueue'[i].task # t
  BY <1>1, <1>2, <1>5 DEF BusInv, Queued
<1>7. \A i, j \in DOMAIN g_I2Cqueue' : i # j => g_I2Cqueue'[i].task # g_I2Cqueue'[j].task
  <2> SUFFICES ASSUME NEW i \in DOMAIN g_I2Cqueue', NEW j \in DOMAIN g_I2Cqueue', i # j
               PROVE  g_I2Cqueue'[i].task # g_I2Cqueue'[j].task
    OBVIOUS
  <2>1. i + 1 # j + 1
    BY <1>5
  <2> QED BY <1>5, <2>1 DEF BusInv, Queued
<1>8. notified \in [BusTasks -> SUBSET {"ERR", "WRITE", "READ"}] /\ outcome \in [BusTasks -> {"none", "ERR", "WRITE", "READ"} \X Nat]
  BY DEF BusInv, Answered
<1>9. /\ notified'[t] = {bit} /\ outcome'[t] = <<bit, bytes>>
      /\ \A u \in BusTasks : u # t => notified'[u] = notified[u] /\ outcome'[u] = outcome[u]
      /\ notified' \in [BusTasks -> SUBSET {"ERR", "WRITE", "READ"}]
      /\ outcome' \in [BusTasks -> {"none", "ERR", "WRITE", "READ"} \X Nat]
  BY <1>3, <1>4, <1>8
<1>10. Queued'
  <2>1. \A i \in DOMAIN g_I2Cqueue' : /\ g_I2Cqueue'[i].task \in BusTasks
                                      /\ g_I2Cqueue'[i].r = request[g_I2Cqueue'[i].task]
                                      /\ busPc[g_I2Cqueue'[i].task] # "idle" /\ notified[g_I2Cqueue'[i].task] = {}
    <3> SUFFICES ASSUME NEW i \in DOMAIN g_I2Cqueue', NEW t1, NEW q, q = g_I2Cqueue[i + 1], t1 = q.task
                 PROVE  t1 \in BusTasks /\ q.r = request[t1] /\ busPc[t1] # "idle" /\ notified[t1] = {}
      BY <1>5
    <3>1. i + 1 \in DOMAIN g_I2Cqueue
      BY <1>5
    <3>2. q \in Q
      BY <3>1, QueueTyped
    <3> QED BY <3>1, <3>2 DEF BusInv, Queued
  <2> QED BY <1>1, <1>3, <1>6, <1>7, <1>9, <2>1 DEF Queued
<1>11. Answered'
  <2>1. ASSUME NEW u \in BusTasks, u # t, ~InQueue(u)' PROVE ~InQueue(u)
    <3> SUFFICES ASSUME NEW i \in DOMAIN g_I2Cqueue, g_I2Cqueue[i].task = u PROVE FALSE
      BY DEF InQueue
    <3>1. i # 1
      BY <1>2, <2>1
    <3>2. i - 1 \in DOMAIN g_I2Cqueue' /\ (i - 1) + 1 = i
      BY <1>1, <1>3, <3>1
    <3> QED BY <1>5, <2>1, <3>2 DEF InQueue
  <2>2. ASSUME NEW u \in BusTasks, ~InQueue(u)'
        PROVE  IF busPc[u] = "idle" THEN notified'[u] = {}
               ELSE notified'[u] = {outcome'[u][1]} /\ outcome'[u][1] \in Awaited(u)
    <3>1. CASE u = t
      BY <1>2, <1>4, <1>9, <3>1
    <3>2. CASE u # t
      BY <1>9, <2>1, <2>2, <3>2 DEF BusInv, Answered
    <3> QED BY <3>1, <3>2
  <2>3. \A u \in BusTasks : Awaited(u)' = Awaited(u)
    BY DEF Awaited
  <2> QED BY <1>9, <2>2, <2>3 DEF BusInv, Answered
<1>12. Handled'
  BY <1>3 DEF Handled
<1> QED BY <1>10, <1>11, <1>12 DEF BusInv

\* A command for the controller, if the transaction goes on or if it ends here.
LEMMA CommandStep ==
    ASSUME BusInv, g_I2Cqueue # <<>>, NEW next, NEW tr, NEW bytes \in Nat, NEW single, Working(next, tr),
           Command(next, tr, bytes, single), UNCHANGED <<busPc, request>>
    PROVE  BusInv'
<1>1. CASE Finish("ERR", bytes, ~single)
  BY <1>1, FinishStep DEF Awaited
<1>2. CASE Transact(next) /\ moved' = bytes
  <2>1. UNCHANGED <<g_I2Cqueue, notified, outcome>> /\ transaction' = tr /\ g_i2cisrstate' = next
    BY <1>2 DEF Transact, Command, Copied
  <2>2. Queued' /\ Answered'
    BY <2>1 DEF BusInv, Queued, Answered, InQueue, Awaited
  <2>3. Handled'
    BY <1>2, <2>1 DEF Handled, Working
  <2> QED BY <2>2, <2>3 DEF BusInv
<1> QED BY <1>1, <1>2 DEF Command

LEMMA EnqueueKeeps == ASSUME BusInv, NEW t \in BusTasks, Enqueue(t) PROVE BusInv'
<1> DEFINE Q == [task : BusTasks, r : Requests]
<1>1. PICK r \in Requests : /\ busPc[t] = "idle" /\ busPc' = [busPc EXCEPT ![t] = "test"]
                            /\ request' = [request EXCEPT ![t] = r]
                            /\ g_I2Cqueue' = Append(g_I2Cqueue, [task |-> t, r |-> r])
                            /\ outcome' = [outcome EXCEPT ![t] = Pending]
                            /\ UNCHANGED <<notified, g_i2cisrstate, transaction, enabled, moved>>
  BY DEF Enqueue, BusGoes
<1>2. PICK m : m = [task |-> t, r |-> r]
  OBVIOUS
<1>3. m \in Q /\ m.task = t /\ m.r = r
  BY <1>2
<1>4. /\ g_I2Cqueue \in Seq(Q) /\ g_I2Cqueue' \in Seq(Q)
      /\ DOMAIN g_I2Cqueue = 1..Len(g_I2Cqueue) /\ DOMAIN g_I2Cqueue' = 1..Len(g_I2Cqueue) + 1
      /\ Len(g_I2Cqueue) \in Nat
      /\ \A i \in DOMAIN g_I2Cqueue : g_I2Cqueue'[i] = g_I2Cqueue[i]
      /\ g_I2Cqueue'[Len(g_I2Cqueue) + 1] = m
  <2>1. g_I2Cqueue \in Seq(Q) /\ g_I2Cqueue' = Append(g_I2Cqueue, m)
    BY <1>1, <1>2 DEF BusInv, Queued
  <2> HIDE DEF Q
  <2> QED BY <1>3, <2>1
<1>5. \A i \in DOMAIN g_I2Cqueue : g_I2Cqueue[i].task # t
  BY <1>1 DEF BusInv, Queued
<1>6. /\ busPc'[t] = "test" /\ request'[t] = r
      /\ \A u \in BusTasks : u # t => busPc'[u] = busPc[u] /\ request'[u] = request[u] /\ outcome'[u] = outcome[u]
      /\ busPc' \in [BusTasks -> {"idle", "test", "pend", "wait"}]
      /\ request' \in [BusTasks -> Requests \cup {NoRequest}]
      /\ outcome' \in [BusTasks -> {"none", "ERR", "WRITE", "READ"} \X Nat]
  BY <1>1 DEF BusInv, Answered, Pending
<1>7. InQueue(t)'
  BY <1>3, <1>4 DEF InQueue
<1>8. ~InQueue(t) /\ notified[t] = {}
  BY <1>1, <1>5 DEF BusInv, Answered, InQueue
<1>9. Queued'
  <2>1. ASSUME NEW i \in DOMAIN g_I2Cqueue'
        PROVE  i \in DOMAIN g_I2Cqueue \/ i = Len(g_I2Cqueue) + 1
    BY <1>4
  <2>2. ASSUME NEW i \in DOMAIN g_I2Cqueue', NEW j \in DOMAIN g_I2Cqueue', i # j
        PROVE  g_I2Cqueue'[i].task # g_I2Cqueue'[j].task
    BY <1>3, <1>4, <1>5, <2>1, <2>2 DEF BusInv, Queued
  <2>3. ASSUME NEW i \in DOMAIN g_I2Cqueue', NEW q, q = g_I2Cqueue'[i]
        PROVE  q.r = request'[q.task] /\ busPc'[q.task] # "idle" /\ notified'[q.task] = {}
    <3>1. CASE i \in DOMAIN g_I2Cqueue
      <4>1. q = g_I2Cqueue[i] /\ q.task # t /\ q \in Q
        BY <1>4, <1>5, <2>3, <3>1, QueueTyped
      <4>2. q.r = request[q.task] /\ busPc[q.task] # "idle" /\ notified[q.task] = {}
        BY <3>1, <4>1 DEF BusInv, Queued
      <4> QED BY <1>1, <1>6, <4>1, <4>2
    <3>2. CASE i = Len(g_I2Cqueue) + 1
      BY <1>1, <1>3, <1>4, <1>6, <1>8, <2>3, <3>2
    <3> QED BY <2>1, <3>1, <3>2
  <2> QED BY <1>4, <2>2, <2>3 DEF Queued
<1>10. Answered'
  <2>1. ASSUME NEW u \in BusTasks, ~InQueue(u)' PROVE u # t /\ ~InQueue(u)
    BY <1>4, <1>7, <2>1 DEF InQueue
  <2>2. \A u \in BusTasks : u # t => Awaited(u)' = Awaited(u)
    BY <1>6 DEF Awaited
  <2> QED BY <1>1, <1>6, <2>1, <2>2 DEF BusInv, Answered
<1>11. Handled'
  <2>1. ASSUME g_I2Cqueue # <<>> PROVE g_I2Cqueue'[1] = g_I2Cqueue[1] /\ g_I2Cqueue' # <<>>
    BY <1>4, <2>1
  <2> QED BY <1>1, <2>1 DEF BusInv, Handled, Working
<1> QED BY <1>9, <1>10, <1>11 DEF BusInv

\* Steps of a call that leave the queue alone.
LEMMA CallKeeps == ASSUME BusInv, NEW t \in BusTasks, BusCall(t) PROVE BusInv'
<1>1. UNCHANGED <<request, g_I2Cqueue, g_i2cisrstate, transaction, enabled, moved, outcome>>
  BY DEF BusCall, TestState, SetPending, NotifyWait, handlerVars
<1>2. Handled'
  BY <1>1 DEF BusInv, Handled, Working
<1>3. /\ \A u \in BusTasks : InQueue(u)' <=> InQueue(u)
      /\ \A u \in BusTasks : Awaited(u)' = Awaited(u)
  BY <1>1 DEF InQueue, Awaited
<1>4. CASE NotifyWait(t)
  <2>1. /\ busPc' = [busPc EXCEPT ![t] = "idle"] /\ notified' = [notified EXCEPT ![t] = @ \ Awaited(t)]
        /\ notified[t] # {} /\ busPc[t] = "wait"
    BY <1>4 DEF NotifyWait, BusGoes
  <2>2. ~InQueue(t)
    BY <2>1 DEF BusInv, Queued, InQueue
  <2>3. notified[t] = {outcome[t][1]} /\ outcome[t][1] \in Awaited(t)
    BY <2>1, <2>2 DEF BusInv, Answered
  <2>4. /\ notified'[t] = {} /\ busPc'[t] = "idle"
        /\ \A u \in BusTasks : u # t => notified'[u] = notified[u] /\ busPc'[u] = busPc[u]
        /\ busPc' \in [BusTasks -> {"idle", "test", "pend", "wait"}]
        /\ notified' \in [BusTasks -> SUBSET {"ERR", "WRITE", "READ"}]
    BY <2>1, <2>3 DEF BusInv, Answered
  <2>5. Queued'
    <3>1. \A i \in DOMAIN g_I2Cqueue : g_I2Cqueue[i].task # t /\ g_I2Cqueue[i].task \in BusTasks
      BY <2>2, QueueTyped DEF InQueue
    <3>2. \A i \in DOMAIN g_I2Cqueue : LET u == g_I2Cqueue[i].task IN
              g_I2Cqueue[i].r = request[u] /\ busPc[u] # "idle" /\ notified[u] = {}
      BY DEF BusInv, Queued
    <3>3. \A i \in DOMAIN g_I2Cqueue : LET u == g_I2Cqueue[i].task IN busPc'[u] = busPc[u] /\ notified'[u] = notified[u]
      BY <2>4, <3>1
    <3> QED BY <1>1, <3>2, <3>3 DEF BusInv, Queued
  <2>6. Answered'
    BY <1>1, <1>3, <2>4 DEF BusInv, Answered
  <2> QED BY <1>2, <2>5, <2>6 DEF BusInv
<1>5. CASE TestState(t) \/ SetPending(t)
  <2>1. PICK to \in {"pend", "wait"} : busPc' = [busPc EXCEPT ![t] = to] /\ busPc[t] # "idle" /\ notified' = notified
    BY <1>5 DEF TestState, SetPending, BusGoes, handlerVars
  <2>2. /\ busPc' \in [BusTasks -> {"idle", "test", "pend", "wait"}]
        /\ \A u \in BusTasks : busPc'[u] = "idle" <=> busPc[u] = "idle"
    BY <2>1 DEF BusInv, Answered
  <2>3. Queued'
    <3>1. \A i \in DOMAIN g_I2Cqueue : g_I2Cqueue[i].task \in BusTasks
      BY QueueTyped
    <3> QED BY <1>1, <2>1, <2>2, <3>1 DEF BusInv, Queued
  <2>4. Answered'
    BY <1>1, <1>3, <2>1, <2>2 DEF BusInv, Answered
  <2> QED BY <1>2, <2>3, <2>4 DEF BusInv
<1> QED BY <1>4, <1>5 DEF BusCall

\* What is known of the handler at a step of a transaction.
LEMMA FirstInQueue ==
    ASSUME BusInv, g_I2Cqueue # <<>>
    PROVE  /\ g_I2Cqueue[1] \in [task : BusTasks, r : Requests] /\ Head(g_I2Cqueue) = g_I2Cqueue[1]
           /\ g_I2Cqueue[1].r = request[g_I2Cqueue[1].task]
<1> DEFINE Q == [task : BusTasks, r : Requests]
<1>1. g_I2Cqueue \in Seq(Q) /\ g_I2Cqueue # <<>>
  BY DEF BusInv, Queued
<1>2. 1 \in DOMAIN g_I2Cqueue /\ g_I2Cqueue[1] \in Q /\ Head(g_I2Cqueue) = g_I2Cqueue[1]
  <2> HIDE DEF Q
  <2> QED BY <1>1
<1> QED BY <1>2 DEF BusInv, Queued

\* Counting down a length.
LEMMA LessIs ==
    ASSUME NEW n \in Lengths
    PROVE  Less(n) \in Lengths /\ Less(n) = IF n = 0 THEN LengthWord - 1 ELSE n - 1
<1>1. LengthWord \in Nat \ {0} /\ n \in Nat /\ n < LengthWord
  BY I2cBusAssumption DEF Lengths
<1>2. n + LengthWord - 1 \in 0..2 * LengthWord
  BY <1>1
<1>3. Less(n) = IF n + LengthWord - 1 < LengthWord THEN n + LengthWord - 1
                ELSE IF n + LengthWord - 1 < 2 * LengthWord THEN (n + LengthWord - 1) - LengthWord ELSE 0
  BY <1>1, <1>2, Round DEF Less
<1> QED BY <1>1, <1>3 DEF Lengths

\* The next byte of a reception and of a transmission.
LEMMA ReceiveKeeps ==
    ASSUME BusInv, g_I2Cqueue # <<>>, NEW tr \in Transactions, NEW bytes \in Nat, NEW first,
           ReceiveByte(tr, bytes, first), UNCHANGED <<busPc, request>>,
           tr.r.command = g_I2Cqueue[1].r.command, tr.r.command # "WRITE"
    PROVE  BusInv'
<1>1. PICK left : left = [tr EXCEPT !.r.rxlenght = Less(@)]
  OBVIOUS
<1>2. tr.r.rxlenght \in Lengths
  BY DEF Transactions
<1>3. left.r.command = tr.r.command /\ left \in Transactions
  BY <1>1, <1>2, LessIs DEF Transactions
<1>4. PICK next, single : /\ next = (IF left.r.rxlenght = 0 THEN "READ_FINAL" ELSE "READ_NEXT")
                          /\ Command(next, left, bytes, single)
  BY <1>1 DEF ReceiveByte
<1>5. Working(next, left)
  BY <1>3, <1>4 DEF Working
<1> QED BY <1>4, <1>5, CommandStep

LEMMA SendKeeps ==
    ASSUME BusInv, g_I2Cqueue # <<>>, NEW tr \in Transactions, NEW bytes \in Nat, SendByte(tr, bytes),
           UNCHANGED <<busPc, request>>,
           tr.r.command = g_I2Cqueue[1].r.command, tr.r.command # "READ"
    PROVE  BusInv'
<1>1. PICK left : left = [tr EXCEPT !.r.txlenght = Less(@)]
  OBVIOUS
<1>2. tr.r.txlenght \in Lengths
  BY DEF Transactions
<1>3. left.r.command = tr.r.command /\ left \in Transactions
  BY <1>1, <1>2, LessIs DEF Transactions
<1>4. PICK next : /\ next = (IF left.r.txlenght > 0 THEN "WRITE_NEXT" ELSE "WRITE_FINAL")
                  /\ Command(next, left, bytes, FALSE)
  BY <1>1 DEF SendByte
<1>5. Working(next, left)
  BY <1>3, <1>4 DEF Working
<1> QED BY <1>4, <1>5, CommandStep

LEMMA HandlerKeeps == ASSUME BusInv, I2C_IF_ISR PROVE BusInv'
<1>1. UNCHANGED <<busPc, request>>
  BY DEF I2C_IF_ISR, IsrError, IsrIdle, IsrWriteNext, IsrWriteFinal, IsrReadNext, IsrReadFinal, Isr
<1>2. moved \in Nat /\ moved + Carried \in Nat /\ 0 \in Nat
  BY DEF BusInv, Handled, Carried
<1> DEFINE r == g_I2Cqueue[1].r
<1>3. ASSUME g_i2cisrstate # "IDLE"
      PROVE  g_I2Cqueue # <<>> /\ Working(g_i2cisrstate, transaction)
  BY <1>3 DEF BusInv, Handled
<1>4. ASSUME g_I2Cqueue # <<>>
      PROVE  /\ r.command \in {"WRITE", "READ", "READ_FROM"} /\ r = request[g_I2Cqueue[1].task]
             /\ Head(g_I2Cqueue) = g_I2Cqueue[1] /\ g_I2Cqueue[1] \in Transactions
  BY <1>4, FirstInQueue, I2cBusAssumption DEF Transactions
<1>5. CASE IsrError
  <2>1. g_i2cisrstate # "IDLE" /\ Finish("ERR", moved, g_i2cisrstate # "IDLE")
    BY <1>5 DEF IsrError, BusInv, Handled
  <2> QED BY <1>1, <1>2, <1>3, <2>1, FinishStep DEF Awaited
<1>6. CASE IsrIdle
  <2>1. CASE g_I2Cqueue = <<>>
    <3>1. UNCHANGED <<notified, g_I2Cqueue, g_i2cisrstate, transaction, enabled, moved, outcome>>
      BY <1>6, <2>1 DEF IsrIdle
    <3> QED BY <1>1, <3>1, BusPause
  <2>2. CASE g_I2Cqueue # <<>>
    <3>1. CASE r.command = "READ"
      <4>1. ReceiveByte(g_I2Cqueue[1], 0, TRUE)
        BY <1>4, <1>6, <2>2, <3>1 DEF IsrIdle
      <4> QED BY <1>1, <1>2, <1>4, <2>2, <3>1, <4>1, ReceiveKeeps
    <3>2. CASE r.command # "READ"
      <4>1. SendByte(g_I2Cqueue[1], 0)
        BY <1>4, <1>6, <2>2, <3>2 DEF IsrIdle
      <4> QED BY <1>1, <1>2, <1>4, <2>2, <3>2, <4>1, SendKeeps
    <3> QED BY <3>1, <3>2
  <2> QED BY <2>1, <2>2
<1>7. CASE IsrWriteNext
  <2>1. g_i2cisrstate = "WRITE_NEXT" /\ SendByte(transaction, moved + Carried)
    BY <1>7 DEF IsrWriteNext, Isr
  <2>2. /\ g_I2Cqueue # <<>> /\ transaction \in Transactions
        /\ transaction.r.command = r.command /\ transaction.r.command # "READ"
    BY <1>3, <2>1 DEF Working
  <2> QED BY <1>1, <1>2, <2>1, <2>2, SendKeeps
<1>8. CASE IsrWriteFinal
  <2>1. g_i2cisrstate = "WRITE_FINAL"
    BY <1>8 DEF IsrWriteFinal, Isr
  <2>2. /\ g_I2Cqueue # <<>> /\ transaction \in Transactions
        /\ transaction.r.command = r.command /\ transaction.r.command # "READ"
    BY <1>3, <2>1 DEF Working
  <2>3. CASE transaction.r.command = "READ_FROM"
    <3>1. ReceiveByte(transaction, moved + Carried, TRUE)
      BY <1>8, <2>3 DEF IsrWriteFinal
    <3> QED BY <1>1, <1>2, <2>2, <2>3, <3>1, ReceiveKeeps
  <2>4. CASE transaction.r.command # "READ_FROM"
    <3>1. Finish("WRITE", moved + Carried, TRUE)
      BY <1>8, <2>4 DEF IsrWriteFinal
    <3>2. "WRITE" \in Awaited(g_I2Cqueue[1].task)
      BY <1>4, <2>2, <2>4 DEF Awaited
    <3> QED BY <1>1, <1>2, <2>2, <3>1, <3>2, FinishStep
  <2> QED BY <2>3, <2>4
<1>9. CASE IsrReadNext \/ IsrReadFinal
  <2>1. g_i2cisrstate \in {"READ_NEXT", "READ_FINAL"}
    BY <1>9 DEF IsrReadNext, IsrReadFinal, Isr
  <2>2. /\ g_I2Cqueue # <<>> /\ transaction \in Transactions
        /\ transaction.r.command = r.command /\ transaction.r.command # "WRITE"
    BY <1>3, <2>1 DEF Working
  <2>3. CASE IsrReadNext
    <3>1. ReceiveByte(transaction, moved + Carried, FALSE)
      BY <2>3 DEF IsrReadNext
    <3> QED BY <1>1, <1>2, <2>2, <3>1, ReceiveKeeps
  <2>4. CASE IsrReadFinal
    <3>1. Finish("READ", moved + Carried, FALSE)
      BY <2>4 DEF IsrReadFinal
    <3>2. "READ" \in Awaited(g_I2Cqueue[1].task)
      BY <1>4, <2>2 DEF Awaited
    <3> QED BY <1>1, <1>2, <2>2, <3>1, <3>2, FinishStep
  <2> QED BY <1>9, <2>3, <2>4
<1> QED BY <1>5, <1>6, <1>7, <1>8, <1>9 DEF I2C_IF_ISR

LEMMA BusStarts == BusInit => BusInv
<1> SUFFICES ASSUME BusInit PROVE BusInv
  OBVIOUS
<1>1. Queued
  BY DEF BusInit, Queued
<1>2. Answered
  BY DEF BusInit, Answered, Pending, NoRequest
<1> QED BY <1>1, <1>2 DEF BusInv, Handled, BusInit

LEMMA BusStep == BusInv /\ [BusNext]_busVars => BusInv'
<1> SUFFICES ASSUME BusInv, [BusNext]_busVars PROVE BusInv'
  OBVIOUS
<1>1. CASE \E t \in BusTasks : Enqueue(t) \/ BusCall(t)
  BY <1>1, EnqueueKeeps, CallKeeps
<1>2. CASE I2C_IF_ISR
  BY <1>2, HandlerKeeps
<1>3. CASE Controller \/ UNCHANGED busVars
  <2>1. UNCHANGED <<busPc, request, notified, g_I2Cqueue, g_i2cisrstate, transaction, enabled, moved, outcome>>
    BY <1>3 DEF Controller, busVars, handlerVars
  <2> QED BY <2>1, BusPause
<1> QED BY <1>1, <1>2, <1>3 DEF BusNext

\* Whoever is notified is no longer in the queue.
LEMMA NotifiedIsOut ==
    ASSUME BusInv, NEW t \in BusTasks, NotifyWait(t)
    PROVE  busPc[t] = "wait" /\ ~InQueue(t)
<1>1. busPc[t] = "wait" /\ notified[t] # {}
  BY DEF NotifyWait, BusGoes
<1> QED BY <1>1 DEF BusInv, Queued, InQueue

\* A call of the bus returns what became of its own transaction, whatever the
\* tasks and the transactions are (ResultIsOwn).
THEOREM ResultsAreOwn == BusSpec => ResultIsOwn
<1>1. BusInv /\ [BusNext]_busVars =>
        [\A t \in BusTasks : NotifyWait(t) =>
           /\ outcome[t][1] \in notified[t]
           /\ outcome[t][1] # "ERR" => "ERR" \notin notified[t]]_busVars
  <2> SUFFICES ASSUME BusInv, NEW t \in BusTasks, NotifyWait(t)
               PROVE  /\ outcome[t][1] \in notified[t]
                      /\ outcome[t][1] # "ERR" => "ERR" \notin notified[t]
    OBVIOUS
  <2>1. busPc[t] = "wait" /\ ~InQueue(t)
    BY NotifiedIsOut
  <2> QED BY <2>1 DEF BusInv, Answered
<1> QED BY <1>1, BusStarts, BusStep, PTL DEF BusSpec, ResultIsOwn

\* One task alone on the bus: between its transactions, with one in the queue that
\* has not begun, or with one the handler works for.
Job(t) == [task |-> t, r |-> request[t]]
AllBytes(t) == request[t].txlenght + ToRead(request[t])

BetweenCalls(t) ==
    /\ g_I2Cqueue = <<>> /\ g_i2cisrstate = "IDLE" /\ pending = FALSE /\ enabled = FALSE
    /\ working \in {0, 1} /\ (working = 1 => ending = {t}) /\ busPc[t] \in {"idle", "wait"}
    /\ busPc[t] = "wait" => (outcome[t][1] # "ERR" => outcome[t][2] = AllBytes(t))

NotBegun(t) ==
    /\ g_I2Cqueue = <<Job(t)>> /\ request[t] \in Requests /\ busPc[t] # "idle"
    /\ g_i2cisrstate = "IDLE" /\ enabled = FALSE /\ working = 0
    /\ pending = TRUE => busPc[t] = "wait"

\* One byte is in the hands of the controller; those before it have been carried.
InFlight(state, tr, bytes, r) ==
    /\ bytes \in Nat /\ tr \in Transactions /\ tr.r.command = r.command
    /\ \/ /\ state \in {"WRITE_NEXT", "WRITE_FINAL"} /\ r.command # "READ"
          /\ tr.r.rxlenght = r.rxlenght /\ bytes + 1 + tr.r.txlenght = r.txlenght
          /\ state = "WRITE_NEXT" <=> tr.r.txlenght > 0
       \/ /\ state \in {"READ_NEXT", "READ_FINAL"} /\ r.command # "WRITE"
          /\ bytes + 1 + tr.r.rxlenght = r.txlenght + ToRead(r)
          /\ state = "READ_NEXT" <=> tr.r.rxlenght > 0

UnderWay(t) ==
    /\ g_I2Cqueue = <<Job(t)>> /\ request[t] \in Requests /\ busPc[t] = "wait"
    /\ enabled = TRUE /\ pending = FALSE
    /\ working \in {0, 1} /\ (raw = "none" <=> working = 1)
    /\ InFlight(g_i2cisrstate, transaction, moved, request[t])

Solo(t) == Alone(t) => /\ \A u \in BusTasks : u # t => busPc[u] = "idle"
                       /\ BetweenCalls(t) \/ NotBegun(t) \/ UnderWay(t)

LEMMA JobIs ==
    ASSUME NEW t \in BusTasks, request[t] \in Requests
    PROVE  /\ Job(t) \in Transactions /\ Job(t).r = request[t] /\ Job(t).task = t
           /\ request[t].txlenght \in Lengths /\ request[t].rxlenght \in Lengths
           /\ Head(<<Job(t)>>) = Job(t) /\ Tail(<<Job(t)>>) = <<>>
           /\ (request[t].command = "READ" <=> request[t].txlenght = 0)
           /\ (request[t].command = "READ" => request[t].rxlenght # 0)
           /\ (request[t].command = "WRITE" => request[t].rxlenght = 0)
           /\ request[t].command \in {"WRITE", "READ", "READ_FROM"}
           /\ ToRead(request[t]) \in Nat
<1>1. /\ request[t] \in [command : {"WRITE", "READ", "READ_FROM"}, txlenght : Lengths, rxlenght : Lengths]
      /\ (request[t].command = "READ" <=> request[t].txlenght = 0)
      /\ (request[t].command = "READ" => request[t].rxlenght # 0)
      /\ (request[t].command = "WRITE" => request[t].rxlenght = 0)
  BY I2cBusAssumption
<1>2. Job(t) \in Transactions /\ Job(t).r = request[t] /\ Job(t).task = t
  BY <1>1 DEF Job, Transactions
<1>3. ToRead(request[t]) \in Nat
  BY <1>1, I2cBusAssumption DEF ToRead, Lengths
<1> QED BY <1>1, <1>2, <1>3

\* The end of the only transaction.
LEMMA SoloFinish ==
    ASSUME NEW t \in BusTasks, BusInv, g_I2Cqueue = <<Job(t)>>, request[t] \in Requests,
           NEW bit, NEW bytes, NEW closes \in BOOLEAN, Finish(bit, bytes, closes),
           bit # "ERR" => bytes = AllBytes(t), working = 0, busPc[t] = "wait", UNCHANGED <<busPc, request>>
    PROVE  BetweenCalls(t)'
<1>1. Head(g_I2Cqueue).task = t /\ Tail(g_I2Cqueue) = <<>>
  BY JobIs
<1>2. outcome' = [outcome EXCEPT ![t] = <<bit, bytes>>] /\ outcome \in [BusTasks -> {"none", "ERR", "WRITE", "READ"} \X Nat]
  BY <1>1 DEF Finish, BusInv, Answered
<1>3. outcome'[t][1] = bit /\ outcome'[t][2] = bytes
  BY <1>2
<1>4. g_I2Cqueue' = <<>> /\ g_i2cisrstate' = "IDLE" /\ pending' = FALSE /\ enabled' = FALSE
  BY <1>1 DEF Finish
<1>5. working' \in {0, 1} /\ (working' = 1 => ending' = {t})
  BY <1>1 DEF Finish, GiveCommand
<1>6. AllBytes(t)' = AllBytes(t)
  BY DEF AllBytes
<1> QED BY <1>3, <1>4, <1>5, <1>6 DEF BetweenCalls

\* The next command of the only transaction, which finds the controller at rest.
LEMMA SoloCommand ==
    ASSUME NEW t \in BusTasks, BusInv, g_I2Cqueue = <<Job(t)>>, request[t] \in Requests,
           NEW next, NEW left, NEW bytes, NEW single \in BOOLEAN, Command(next, left, bytes, single),
           InFlight(next, left, bytes, request[t]), working = 0, busPc[t] = "wait", UNCHANGED <<busPc, request>>
    PROVE  BetweenCalls(t)' \/ UnderWay(t)'
<1>1. CASE Finish("ERR", bytes, ~single)
  BY <1>1, SoloFinish
<1>2. CASE Transact(next) /\ pending' = FALSE /\ moved' = bytes
  <2>1. /\ g_I2Cqueue' = <<Job(t)>> /\ raw' = "none" /\ working' = 1 /\ enabled' = TRUE
        /\ g_i2cisrstate' = next
    BY <1>2 DEF Transact, GiveCommand
  <2>2. transaction' = left
    BY <1>2 DEF Transact, Command, Copied
  <2>3. Job(t)' = Job(t)
    BY DEF Job
  <2>4. InFlight(g_i2cisrstate', transaction', moved', request'[t])
    BY <1>2, <2>1, <2>2
  <2> QED BY <1>2, <2>1, <2>3, <2>4 DEF UnderWay
<1> QED BY <1>1, <1>2 DEF Command

LEMMA SoloReceive ==
    ASSUME NEW t \in BusTasks, BusInv, g_I2Cqueue = <<Job(t)>>, request[t] \in Requests,
           NEW tr \in Transactions, NEW bytes \in Nat, NEW first \in BOOLEAN, ReceiveByte(tr, bytes, first),
           tr.r.command = request[t].command, request[t].command # "WRITE",
           bytes + (IF tr.r.rxlenght = 0 THEN LengthWord ELSE tr.r.rxlenght) = AllBytes(t),
           working = 0, busPc[t] = "wait", UNCHANGED <<busPc, request>>
    PROVE  BetweenCalls(t)' \/ UnderWay(t)'
<1>1. PICK left : left = [tr EXCEPT !.r.rxlenght = Less(@)]
  OBVIOUS
<1>2. tr.r.rxlenght \in Lengths
  BY DEF Transactions
<1>3. left.r.command = tr.r.command /\ left \in Transactions /\ left.r.rxlenght = Less(tr.r.rxlenght)
  BY <1>1, <1>2, LessIs DEF Transactions
<1>4. PICK next : next = IF left.r.rxlenght = 0 THEN "READ_FINAL" ELSE "READ_NEXT"
  OBVIOUS
<1>5. left.r.rxlenght \in Nat /\ left.r.rxlenght + 1 = IF tr.r.rxlenght = 0 THEN LengthWord ELSE tr.r.rxlenght
  BY <1>2, <1>3, LessIs, I2cBusAssumption DEF Lengths
<1>6. bytes + 1 + left.r.rxlenght = request[t].txlenght + ToRead(request[t])
  BY <1>5 DEF AllBytes
<1>7. InFlight(next, left, bytes, request[t])
  BY <1>3, <1>4, <1>5, <1>6 DEF InFlight
<1>8. PICK single \in BOOLEAN : Command(next, left, bytes, single)
  BY <1>1, <1>4 DEF ReceiveByte
<1> QED BY <1>7, <1>8, SoloCommand

LEMMA SoloSend ==
    ASSUME NEW t \in BusTasks, BusInv, g_I2Cqueue = <<Job(t)>>, request[t] \in Requests,
           NEW tr \in Transactions, NEW bytes \in Nat, SendByte(tr, bytes),
           tr.r.command = request[t].command, request[t].command # "READ",
           tr.r.rxlenght = request[t].rxlenght, tr.r.txlenght > 0, bytes + tr.r.txlenght = request[t].txlenght,
           working = 0, busPc[t] = "wait", UNCHANGED <<busPc, request>>
    PROVE  BetweenCalls(t)' \/ UnderWay(t)'
<1>1. PICK left : left = [tr EXCEPT !.r.txlenght = Less(@)]
  OBVIOUS
<1>2. tr.r.txlenght \in Lengths /\ tr.r.txlenght \in Nat
  BY DEF Transactions, Lengths
<1>3. /\ left.r.command = tr.r.command /\ left \in Transactions /\ left.r.txlenght = Less(tr.r.txlenght)
      /\ left.r.rxlenght = tr.r.rxlenght
  BY <1>1, <1>2, LessIs DEF Transactions
<1>4. PICK next : /\ next = (IF left.r.txlenght > 0 THEN "WRITE_NEXT" ELSE "WRITE_FINAL")
                  /\ Command(next, left, bytes, FALSE)
  BY <1>1 DEF SendByte
<1>5. left.r.txlenght \in Nat /\ left.r.txlenght + 1 = tr.r.txlenght
  BY <1>2, <1>3, LessIs
<1>6. bytes + 1 + left.r.txlenght = request[t].txlenght
  BY <1>5
<1>7. InFlight(next, left, bytes, request[t])
  BY <1>3, <1>4, <1>6 DEF InFlight
<1> QED BY <1>4, <1>7, SoloCommand

LEMMA SoloHandler ==
    ASSUME NEW t \in BusTasks, BusInv, BetweenCalls(t) \/ NotBegun(t) \/ UnderWay(t), I2C_IF_ISR
    PROVE  BetweenCalls(t)' \/ UnderWay(t)'
<1>1. /\ UNCHANGED <<busPc, request>> /\ Interrupt /\ ~BetweenCalls(t)
  BY DEF I2C_IF_ISR, IsrError, IsrIdle, IsrWriteNext, IsrWriteFinal, IsrReadNext, IsrReadFinal, Isr, Interrupt, BetweenCalls
<1>2. ASSUME request[t] \in Requests
      PROVE  0 + (IF request[t].rxlenght = 0 THEN LengthWord ELSE request[t].rxlenght) = AllBytes(t) \/ request[t].command # "READ"
  BY <1>2, JobIs, I2cBusAssumption DEF AllBytes, ToRead, Lengths
<1>3. CASE NotBegun(t)
  <2>1. g_I2Cqueue = <<Job(t)>> /\ request[t] \in Requests /\ working = 0 /\ busPc[t] = "wait" /\ IsrIdle
    BY <1>1, <1>3 DEF NotBegun, Interrupt, I2C_IF_ISR, IsrError, IsrWriteNext, IsrWriteFinal,
                      IsrReadNext, IsrReadFinal, Isr
  <2>2. Head(g_I2Cqueue) = Job(t) /\ Job(t) \in Transactions /\ Job(t).r = request[t] /\ g_I2Cqueue # <<>>
    BY <2>1, JobIs
  <2>3. CASE request[t].command = "READ"
    <3>1. ReceiveByte(Job(t), 0, TRUE)
      BY <2>1, <2>2, <2>3 DEF IsrIdle
    <3> QED BY <1>1, <1>2, <2>1, <2>2, <2>3, <3>1, SoloReceive
  <2>4. CASE request[t].command # "READ"
    <3>1. SendByte(Job(t), 0)
      BY <2>1, <2>2, <2>4 DEF IsrIdle
    <3>2. request[t].txlenght > 0 /\ 0 + request[t].txlenght = request[t].txlenght
      BY <2>1, <2>4, JobIs DEF Lengths
    <3> QED BY <1>1, <2>1, <2>2, <2>4, <3>1, <3>2, SoloSend
  <2> QED BY <2>3, <2>4
<1>4. CASE UnderWay(t)
  <2> DEFINE r == request[t]
             tr == transaction
  <2>1. /\ g_I2Cqueue = <<Job(t)>> /\ request[t] \in Requests /\ working = 0 /\ busPc[t] = "wait"
        /\ g_i2cisrstate # "IDLE" /\ Carried = 1
    BY <1>1, <1>4 DEF UnderWay, Interrupt, Carried, InFlight
  <2>2. moved \in Nat /\ moved + 1 \in Nat /\ tr \in Transactions /\ tr.r.command = r.command
    BY <1>4 DEF UnderWay, InFlight
  <2>3. /\ r.txlenght \in Nat /\ r.rxlenght \in Nat /\ ToRead(r) \in Nat
        /\ tr.r.txlenght \in Nat /\ tr.r.rxlenght \in Nat
    BY <2>1, <2>2, JobIs DEF Lengths, Transactions
  <2>4. CASE IsrError
    <3>1. Finish("ERR", moved, g_i2cisrstate # "IDLE") /\ (g_i2cisrstate # "IDLE") \in BOOLEAN
      BY <2>4 DEF IsrError
    <3> QED BY <1>1, <2>1, <3>1, SoloFinish
  <2>5. CASE IsrIdle
    BY <2>1, <2>5 DEF IsrIdle, Isr
  <2>6. CASE IsrWriteNext
    <3>1. g_i2cisrstate = "WRITE_NEXT" /\ SendByte(tr, moved + 1)
      BY <2>1, <2>6 DEF IsrWriteNext, Isr
    <3>2. r.command # "READ" /\ tr.r.rxlenght = r.rxlenght /\ moved + 1 + tr.r.txlenght = r.txlenght /\ tr.r.txlenght > 0
      BY <1>4, <3>1 DEF UnderWay, InFlight
    <3> QED BY <1>1, <2>1, <2>2, <3>1, <3>2, SoloSend
  <2>7. CASE IsrWriteFinal
    <3>1. g_i2cisrstate = "WRITE_FINAL"
      BY <2>7 DEF IsrWriteFinal, Isr
    <3>2. r.command # "READ" /\ tr.r.rxlenght = r.rxlenght /\ moved + 1 + tr.r.txlenght = r.txlenght /\ ~(tr.r.txlenght > 0)
      BY <1>4, <3>1 DEF UnderWay, InFlight
    <3>3. moved + 1 = r.txlenght
      BY <2>2, <2>3, <3>2
    <3>4. CASE r.command = "READ_FROM"
      <4>1. ReceiveByte(tr, moved + 1, TRUE)
        BY <2>1, <2>2, <2>7, <3>4 DEF IsrWriteFinal
      <4>2. moved + 1 + (IF tr.r.rxlenght = 0 THEN LengthWord ELSE tr.r.rxlenght) = AllBytes(t)
        BY <3>2, <3>3, <3>4 DEF AllBytes, ToRead
      <4> QED BY <1>1, <2>1, <2>2, <3>4, <4>1, <4>2, SoloReceive
    <3>5. CASE r.command # "READ_FROM"
      <4>1. Finish("WRITE", moved + 1, TRUE)
        BY <2>1, <2>2, <2>7, <3>5 DEF IsrWriteFinal
      <4>2. r.rxlenght = 0
        BY <2>1, <3>2, <3>5, JobIs
      <4>3. moved + 1 = AllBytes(t)
        BY <2>3, <3>3, <3>5, <4>2 DEF AllBytes, ToRead
      <4> QED BY <1>1, <2>1, <4>1, <4>3, SoloFinish
    <3> QED BY <3>4, <3>5
  <2>8. CASE IsrReadNext
    <3>1. g_i2cisrstate = "READ_NEXT" /\ ReceiveByte(tr, moved + 1, FALSE)
      BY <2>1, <2>8 DEF IsrReadNext, Isr
    <3>2. r.command # "WRITE" /\ moved + 1 + tr.r.rxlenght = AllBytes(t) /\ tr.r.rxlenght > 0
      BY <1>4, <3>1 DEF UnderWay, InFlight, AllBytes
    <3>3. moved + 1 + (IF tr.r.rxlenght = 0 THEN LengthWord ELSE tr.r.rxlenght) = AllBytes(t)
      BY <2>3, <3>2
    <3> QED BY <1>1, <2>1, <2>2, <3>1, <3>2, <3>3, SoloReceive
  <2>9. CASE IsrReadFinal
    <3>1. g_i2cisrstate = "READ_FINAL" /\ Finish("READ", moved + 1, FALSE)
      BY <2>1, <2>9 DEF IsrReadFinal, Isr
    <3>2. moved + 1 + tr.r.rxlenght = AllBytes(t) /\ ~(tr.r.rxlenght > 0)
      BY <1>4, <3>1 DEF UnderWay, InFlight, AllBytes
    <3>3. moved + 1 = AllBytes(t)
      BY <2>2, <2>3, <3>2
    <3> QED BY <1>1, <2>1, <3>1, <3>3, SoloFinish
  <2> QED BY <2>4, <2>5, <2>6, <2>7, <2>8, <2>9 DEF I2C_IF_ISR
<1> QED BY <1>1, <1>3, <1>4

\* The calls of the task that is alone.
LEMMA SoloCall ==
    ASSUME NEW t \in BusTasks, BusInv, BetweenCalls(t) \/ NotBegun(t) \/ UnderWay(t), Enqueue(t) \/ BusCall(t)
    PROVE  BetweenCalls(t)' \/ NotBegun(t)' \/ UnderWay(t)'
<1>1. busPc \in [BusTasks -> {"idle", "test", "pend", "wait"}]
  BY DEF BusInv, Answered
<1>2. CASE Enqueue(t)
  <2>1. PICK r \in Requests : /\ t \notin ending /\ busPc[t] = "idle" /\ busPc' = [busPc EXCEPT ![t] = "test"]
                              /\ request' = [request EXCEPT ![t] = r]
                              /\ g_I2Cqueue' = Append(g_I2Cqueue, [task |-> t, r |-> r])
                              /\ UNCHANGED <<g_i2cisrstate, pending, enabled, working>>
    BY <1>2 DEF Enqueue, BusGoes, controllerVars
  <2>2. BetweenCalls(t) /\ working = 0
    BY <2>1 DEF BetweenCalls, NotBegun, UnderWay
  <2>3. request'[t] = r /\ busPc'[t] = "test"
    BY <1>1, <2>1 DEF BusInv, Answered
  <2>4. g_I2Cqueue' = <<Job(t)'>>
    BY <2>1, <2>2, <2>3 DEF BetweenCalls, Job
  <2> QED BY <2>1, <2>2, <2>3, <2>4 DEF BetweenCalls, NotBegun
<1>3. CASE TestState(t) \/ SetPending(t)
  <2>1. /\ request' = request /\ busPc'[t] \in {"pend", "wait"} /\ busPc[t] \in {"test", "pend"}
        /\ UNCHANGED <<g_I2Cqueue, g_i2cisrstate, enabled, working>>
        /\ pending' = pending \/ busPc'[t] = "wait"
    BY <1>1, <1>3 DEF TestState, SetPending, BusGoes, handlerVars, controllerVars
  <2>2. NotBegun(t) /\ Job(t)' = Job(t)
    BY <2>1 DEF BetweenCalls, UnderWay, Job
  <2>3. pending = FALSE \/ pending' # TRUE \/ busPc'[t] = "wait"
    BY <2>1, <2>2 DEF NotBegun
  <2> QED BY <2>1, <2>2, <2>3 DEF NotBegun
<1>4. CASE NotifyWait(t)
  <2>1. /\ busPc'[t] = "idle"
        /\ UNCHANGED <<request, g_I2Cqueue, g_i2cisrstate, pending, enabled, working, ending>>
    BY <1>1, <1>4 DEF NotifyWait, BusGoes, handlerVars, controllerVars
  <2>2. BetweenCalls(t)
    <3>1. ~InQueue(t)
      BY <1>4, NotifiedIsOut
    <3>2. g_I2Cqueue # <<Job(t)>>
      BY <3>1 DEF InQueue, Job
    <3> QED BY <3>2 DEF NotBegun, UnderWay
  <2> QED BY <2>1, <2>2 DEF BetweenCalls
<1> QED BY <1>2, <1>3, <1>4 DEF BusCall

LEMMA SoloStep ==
    ASSUME NEW t \in BusTasks
    PROVE  BusInv /\ Solo(t) /\ [BusNext]_busVars => Solo(t)'
<1> SUFFICES ASSUME BusInv, Solo(t), [BusNext]_busVars, Alone(t)' PROVE Solo(t)'
  BY DEF Solo
<1> DEFINE Others == \A u \in BusTasks : u # t => busPc[u] = "idle"
           Place == BetweenCalls(t) \/ NotBegun(t) \/ UnderWay(t)
<1>1. ASSUME NEW u \in BusTasks, u # t PROVE ~Enqueue(u)
  <2> SUFFICES ASSUME Enqueue(u) PROVE FALSE
    OBVIOUS
  <2>1. PICK r \in Requests : request' = [request EXCEPT ![u] = r]
    BY DEF Enqueue
  <2>2. request'[u] = r
    BY <2>1 DEF BusInv, Answered
  <2>3. r # NoRequest
    BY I2cBusAssumption DEF NoRequest
  <2> QED BY <1>1, <2>2, <2>3 DEF Alone
<1>2. Alone(t)
  <2>1. Enqueue(t) \/ UNCHANGED request
    BY <1>1 DEF BusNext, BusCall, TestState, SetPending, NotifyWait, I2C_IF_ISR, IsrError, IsrIdle, IsrWriteNext,
                IsrWriteFinal, IsrReadNext, IsrReadFinal, Isr, Controller, busVars
  <2>2. \A u \in BusTasks : u # t => request'[u] = request[u]
    <3>1. ASSUME Enqueue(t) PROVE \A u \in BusTasks : u # t => request'[u] = request[u]
      BY <3>1 DEF Enqueue, BusInv, Answered
    <3> QED BY <2>1, <3>1
  <2> QED BY <2>2 DEF Alone
<1>3. Others /\ Place
  BY <1>2 DEF Solo
<1>4. ASSUME NEW u \in BusTasks, u # t PROVE ~BusCall(u)
  BY <1>3, <1>4 DEF BusCall, TestState, SetPending, NotifyWait, BusGoes
<1>5. CASE Enqueue(t) \/ BusCall(t)
  <2>1. \A u \in BusTasks : u # t => busPc'[u] = busPc[u]
    BY <1>5 DEF Enqueue, BusCall, TestState, SetPending, NotifyWait, BusGoes, BusInv, Answered
  <2>2. BetweenCalls(t)' \/ NotBegun(t)' \/ UnderWay(t)'
    BY <1>3, <1>5, SoloCall
  <2> QED BY <1>3, <2>1, <2>2 DEF Solo
<1>6. CASE I2C_IF_ISR
  <2>1. UNCHANGED busPc
    BY <1>6 DEF I2C_IF_ISR, IsrError, IsrIdle, IsrWriteNext, IsrWriteFinal, IsrReadNext, IsrReadFinal, Isr
  <2>2. BetweenCalls(t)' \/ UnderWay(t)'
    BY <1>3, <1>6, SoloHandler
  <2> QED BY <1>3, <2>1, <2>2 DEF Solo
<1>7. CASE Controller
  <2>1. /\ UNCHANGED <<busPc, request, g_I2Cqueue, g_i2cisrstate, transaction, pending, enabled, moved, outcome>>
        /\ working > 0 /\ working' = working - 1 /\ raw' # "none"
    BY <1>7 DEF Controller
  <2>2. Job(t)' = Job(t) /\ AllBytes(t)' = AllBytes(t)
    BY <2>1 DEF Job, AllBytes
  <2>3. ~NotBegun(t)
    BY <2>1 DEF NotBegun
  <2>4. BetweenCalls(t)' \/ UnderWay(t)'
    BY <1>3, <2>1, <2>2, <2>3 DEF BetweenCalls, UnderWay
  <2> QED BY <1>3, <2>1, <2>4 DEF Solo
<1>8. CASE UNCHANGED busVars
  <2>1. /\ UNCHANGED <<busPc, request, g_I2Cqueue, g_i2cisrstate, transaction, pending, enabled, moved, outcome>>
        /\ UNCHANGED <<raw, working, ending>>
    BY <1>8 DEF busVars, handlerVars, controllerVars
  <2>2. Job(t)' = Job(t) /\ AllBytes(t)' = AllBytes(t)
    BY <2>1 DEF Job, AllBytes
  <2> QED BY <1>3, <2>1, <2>2 DEF Solo, BetweenCalls, NotBegun, UnderWay
<1> QED BY <1>1, <1>4, <1>5, <1>6, <1>7, <1>8 DEF BusNext

\* While one task uses the bus, success means that the controller has carried every
\* byte of the transaction (BytesCarried): the handler never runs before the
\* controller is done.
THEOREM BytesAreCarried == BusSpec => BytesCarried
<1> DEFINE AllSolo == \A t \in BusTasks : Solo(t)
<1>1. BusInit => AllSolo
  BY DEF BusInit, Solo, BetweenCalls
<1>2. BusInv /\ AllSolo /\ [BusNext]_busVars => AllSolo'
  BY SoloStep
<1>3. BusInv /\ AllSolo /\ [BusNext]_busVars =>
        [\A t \in BusTasks : NotifyWait(t) /\ Alone(t) /\ outcome[t][1] # "ERR" =>
           outcome[t][2] = request[t].txlenght + ToRead(request[t])]_busVars
  <2> SUFFICES ASSUME BusInv, NEW t \in BusTasks, Solo(t), NotifyWait(t), Alone(t), outcome[t][1] # "ERR"
               PROVE  outcome[t][2] = request[t].txlenght + ToRead(request[t])
    OBVIOUS
  <2>1. busPc[t] = "wait" /\ ~InQueue(t)
    BY NotifiedIsOut
  <2>2. g_I2Cqueue # <<Job(t)>>
    BY <2>1 DEF InQueue, Job
  <2> QED BY <2>1, <2>2 DEF Solo, BetweenCalls, NotBegun, UnderWay, AllBytes
<1> QED BY <1>1, <1>2, <1>3, BusStarts, BusStep, PTL DEF BusSpec, BytesCarried

------------------------------------------------------------------------------
(* The heap.                                                              *)

Chunk == [at : Nat, size : Nat \ {0}]
Apart(b, c) == End(b) <= c.at \/ End(c) <= b.at
FreeUnits(list) == {u \in Nat : \E i \in DOMAIN list : u \in Units(list[i])}
UsedUnits(blocks) == {u \in Nat : \E b \in blocks : u \in Units(b)}
ByAddress(list) == \A i, j \in DOMAIN list : i < j => End(list[i]) <= list[j].at

\* The list is in the order of the addresses and its blocks do not overlap, which
\* prvInsertBlockIntoFreeList relies on; what is not free is in use, and only once.
HeapInv ==
    /\ freeList \in Seq(Chunk) /\ allocated \subseteq Chunk /\ ByAddress(freeList)
    /\ \A b, c \in allocated : Units(b) \cap Units(c) # {} => b = c
    /\ FreeUnits(freeList) \cap UsedUnits(allocated) = {}
    /\ FreeUnits(freeList) \cup UsedUnits(allocated) = 0..HeapSize - 1
    /\ xFreeBytesRemaining = Cardinality(FreeUnits(freeList))

\* Two intervals side by side.
LEMMA Adjoin ==
    ASSUME NEW p \in Nat, NEW q \in Nat, NEW m \in Nat, p <= m, m <= q, NEW u \in Nat
    PROVE  (p <= u /\ u < q) <=> (p <= u /\ u < m) \/ (m <= u /\ u < q)
OBVIOUS

\* The units of a block.
LEMMA UnitsOf ==
    ASSUME NEW b \in Chunk
    PROVE  /\ Units(b) \subseteq Nat /\ IsFiniteSet(Units(b)) /\ Cardinality(Units(b)) = b.size
           /\ \A u \in Nat : u \in Units(b) <=> b.at <= u /\ u < b.at + b.size
           /\ b.at \in Units(b) /\ End(b) = b.at + b.size
<1>1. /\ b.at \in Nat /\ b.size \in Nat /\ b.size > 0 /\ End(b) = b.at + b.size
      /\ b.at \in Int /\ End(b) - 1 \in Int
  BY DEF Chunk, End
<1>2. IsFiniteSet(Units(b)) /\ Cardinality(Units(b)) = IF b.at > End(b) - 1 THEN 0 ELSE (End(b) - 1) - b.at + 1
  BY <1>1, FS_Interval, Zenon DEF Units
<1>3. Cardinality(Units(b)) = b.size
  BY <1>1, <1>2
<1> QED BY <1>1, <1>2, <1>3 DEF Units

\* The middle of a list, from behind place f to place g, is replaced by x.
IsReplaced(r, s, f, g, x) ==
    /\ Len(r) = f + 1 + (Len(s) - g) /\ r[f + 1] = x
    /\ \A k \in 1..f : r[k] = s[k]
    /\ \A k \in 1..Len(s) - g : r[f + 1 + k] = s[g + k]

LEMMA Replaced ==
    ASSUME NEW S, NEW s \in Seq(S), NEW f \in 0..Len(s), NEW g \in 0..Len(s), f <= g, NEW x \in S
    PROVE  LET r == SubSeq(s, 1, f) \o <<x>> \o SubSeq(s, g + 1, Len(s))
           IN  r \in Seq(S) /\ IsReplaced(r, s, f, g, x)
<1>1. ASSUME NEW front \in Seq(S), NEW back \in Seq(S),
             Len(front) = f + 1, front[f + 1] = x, \A k \in 1..f : front[k] = s[k],
             Len(back) = Len(s) - g, \A k \in 1..Len(s) - g : back[k] = s[g + k]
      PROVE  front \o back \in Seq(S) /\ IsReplaced(front \o back, s, f, g, x)
  <2>1. /\ front \o back \in Seq(S) /\ Len(front \o back) = Len(front) + Len(back)
        /\ \A k \in 1..Len(front) + Len(back) :
               (front \o back)[k] = IF k <= Len(front) THEN front[k] ELSE back[k - Len(front)]
    BY Joined, Zenon
  <2>2. \A k \in 1..f + 1 : (front \o back)[k] = front[k]
    BY <1>1, <2>1
  <2>3. ASSUME NEW k \in 1..Len(s) - g PROVE (front \o back)[f + 1 + k] = s[g + k]
    <3>1. f + 1 + k \in 1..Len(front) + Len(back) /\ ~(f + 1 + k <= Len(front)) /\ f + 1 + k - Len(front) = k
      BY <1>1
    <3>2. (front \o back)[f + 1 + k] = back[k]
      BY <2>1, <3>1
    <3> QED BY <1>1, <3>2, Zenon
  <2>4. f + 1 \in 1..f + 1 /\ \A k \in 1..f : k \in 1..f + 1
    OBVIOUS
  <2>5. (front \o back)[f + 1] = x /\ \A k \in 1..f : (front \o back)[k] = s[k]
    BY <1>1, <2>2, <2>4, Zenon
  <2>6. Len(front \o back) = f + 1 + (Len(s) - g)
    BY <1>1, <2>1
  <2> QED BY <2>1, <2>3, <2>5, <2>6, Zenon DEF IsReplaced
<1> DEFINE begin == SubSeq(s, 1, f)
           front == begin \o <<x>>
           back == SubSeq(s, g + 1, Len(s))
<1>2. begin \in Seq(S) /\ Len(begin) = f /\ \A k \in 1..f : begin[k] = s[k]
  OBVIOUS
<1>3. back \in Seq(S) /\ Len(back) = Len(s) - g /\ \A k \in 1..Len(s) - g : back[k] = s[g + k]
  OBVIOUS
<1> HIDE DEF begin, back
<1>4. front \in Seq(S) /\ Len(front) = f + 1 /\ front[f + 1] = x /\ \A k \in 1..f : front[k] = s[k]
  <2>1. <<x>> \in Seq(S) /\ Len(<<x>>) = 1 /\ <<x>>[1] = x
    OBVIOUS
  <2>2. /\ front \in Seq(S) /\ Len(front) = Len(begin) + Len(<<x>>)
        /\ \A k \in 1..Len(begin) + Len(<<x>>) :
               front[k] = IF k <= Len(begin) THEN begin[k] ELSE <<x>>[k - Len(begin)]
    BY <1>2, <2>1, Joined, Zenon
  <2> QED BY <1>2, <2>1, <2>2
<1> HIDE DEF front
<1>5. front \o back \in Seq(S) /\ IsReplaced(front \o back, s, f, g, x)
  BY <1>1, <1>3, <1>4, Zenon
<1> QED BY <1>5, Zenon DEF front, begin, back

\* The blocks that prvInsertBlockIntoFreeList walks over.
LEMMA WalkedOver ==
    ASSUME NEW list \in Seq(Chunk), NEW b \in Chunk
    PROVE  LET n == Cardinality({i \in DOMAIN list : \A j \in 1..i : list[j].at < b.at}) IN
           /\ n \in 0..Len(list)
           /\ \A i \in 1..n : list[i].at < b.at
           /\ n < Len(list) => list[n + 1].at >= b.at
<1> DEFINE above == {i \in DOMAIN list : \A j \in 1..i : list[j].at < b.at}
           n == Cardinality(above)
<1>1. DOMAIN list = 1..Len(list) /\ Len(list) \in Nat
  OBVIOUS
<1>2. above \in SUBSET (1..Len(list)) /\ \A i \in above : \A j \in 1..i : j \in above
  BY <1>1
<1>3. \A i \in DOMAIN list : i \in above <=> \A j \in 1..i : list[j].at < b.at
  OBVIOUS
<1> HIDE DEF above
<1>4. IsFiniteSet(above) /\ n \in Nat /\ n <= Len(list)
  <2>1. IsFiniteSet(1..Len(list)) /\ Cardinality(1..Len(list)) = Len(list)
    BY <1>1, UpTo, Zenon
  <2>2. IsFiniteSet(above) /\ n <= Len(list)
    <3>1. above \in SUBSET (1..Len(list))
      BY <1>2
    <3>2. IsFiniteSet(above) /\ Cardinality(above) <= Cardinality(1..Len(list))
      BY <2>1, <3>1, FS_Subset, Zenon
    <3> QED BY <2>1, <3>2
  <2> QED BY <2>2, FS_CardinalityType
<1> HIDE DEF n
<1>5. \A i \in above : i <= n
  <2> SUFFICES ASSUME NEW i \in above PROVE i <= n
    OBVIOUS
  <2>1. i \in Nat /\ 1..i \in SUBSET above
    BY <1>2
  <2>2. Cardinality(1..i) = i
    BY <2>1, UpTo, Zenon
  <2> QED BY <1>4, <2>1, <2>2, FS_Subset DEF n
<1>6. above = 1..n
  <2>1. above \in SUBSET (1..n)
    BY <1>2, <1>5
  <2>2. IsFiniteSet(1..n) /\ Cardinality(1..n) = n
    BY <1>4, UpTo, Zenon
  <2> QED BY <2>1, <2>2, FS_Subset DEF n
<1>7. \A i \in 1..n : list[i].at < b.at
  BY <1>1, <1>3, <1>4, <1>6
<1>8. n < Len(list) => list[n + 1].at >= b.at
  <2> SUFFICES ASSUME n < Len(list), ~(list[n + 1].at >= b.at) PROVE FALSE
    OBVIOUS
  <2>1. n + 1 \in DOMAIN list /\ list[n + 1] \in Chunk
    BY <1>1, <1>4
  <2>2. list[n + 1].at < b.at
    BY <2>1 DEF Chunk
  <2>3. \A j \in 1..n + 1 : list[j].at < b.at
    BY <1>4, <1>7, <2>2
  <2> QED BY <1>3, <1>4, <1>6, <2>1, <2>3
<1> QED BY <1>4, <1>7, <1>8 DEF n, above

\* A block apart from all that are free goes where its address is; what is free
\* afterwards is what was, and the block.
LEMMA ChunkInserted ==
    ASSUME NEW list \in Seq(Chunk), ByAddress(list), NEW b \in Chunk,
           \A i \in DOMAIN list : Apart(list[i], b)
    PROVE  LET r == InsertBlockIntoFreeList(list, b) IN
           /\ r \in Seq(Chunk) /\ ByAddress(r)
           /\ FreeUnits(r) = FreeUnits(list) \cup Units(b)
<1> DEFINE n == Cardinality({i \in DOMAIN list : \A j \in 1..i : list[j].at < b.at})
<1>1. /\ n \in 0..Len(list)
      /\ \A i \in 1..n : list[i].at < b.at
      /\ n < Len(list) => list[n + 1].at >= b.at
  BY WalkedOver, Zenon
<1> DEFINE joinsFront == n > 0 /\ End(list[n]) = b.at
           one == IF joinsFront THEN Merged(list[n], b) ELSE b
           joinsBack == n < Len(list) /\ End(one) = list[n + 1].at
           x == IF joinsBack THEN Merged(one, list[n + 1]) ELSE one
           f == IF joinsFront THEN n - 1 ELSE n
           g == IF joinsBack THEN n + 1 ELSE n
           r == SubSeq(list, 1, f) \o <<x>> \o SubSeq(list, g + 1, Len(list))
<1>2. InsertBlockIntoFreeList(list, b) = r
  <2>1. g + 1 = IF joinsBack THEN n + 2 ELSE n + 1
    <3> HIDE DEF n, joinsBack
    <3>1. n \in Int
      <4>1. n \in 0..Len(list)
        BY <1>1
      <4> QED BY <4>1
    <3>2. CASE joinsBack
      BY <3>1, <3>2
    <3>3. CASE ~joinsBack
      BY <3>1, <3>3
    <3> QED BY <3>2, <3>3
  <2> QED BY <2>1, Zenon DEF InsertBlockIntoFreeList
<1> HIDE DEF n
<1>3. DOMAIN list = 1..Len(list) /\ Len(list) \in Nat /\ \A i \in 1..Len(list) : list[i] \in Chunk
  OBVIOUS
<1>4. /\ \A c \in Chunk : c.at \in Nat /\ c.size \in Nat /\ c.size > 0 /\ End(c) = c.at + c.size
      /\ \A i \in 1..n : End(list[i]) <= b.at
      /\ \A i \in n + 1..Len(list) : End(b) <= list[i].at
  <2>1. \A c \in Chunk : c.at \in Nat /\ c.size \in Nat /\ c.size > 0 /\ End(c) = c.at + c.size
    BY DEF Chunk, End
  <2>2. ASSUME NEW i \in 1..n PROVE End(list[i]) <= b.at
    BY <1>1, <1>3, <2>1 DEF Apart
  <2>3. ASSUME NEW i \in n + 1..Len(list) PROVE End(b) <= list[i].at
    <3>1. n + 1 \in 1..Len(list) /\ i \in 1..Len(list) /\ list[n + 1].at >= b.at
      BY <1>1, <1>3
    <3>2. list[i] \in Chunk /\ list[n + 1] \in Chunk
      BY <1>3, <3>1
    <3>3. list[i].at >= b.at
      <4>1. CASE i = n + 1
        BY <3>1, <4>1
      <4>2. CASE i # n + 1
        <5>1. n + 1 < i
          BY <1>1, <4>2
        <5>2. End(list[n + 1]) <= list[i].at
          BY <1>3, <3>1, <5>1, Zenon DEF ByAddress
        <5> QED BY <2>1, <3>1, <3>2, <5>2
      <4> QED BY <4>1, <4>2
    <3>4. End(list[i]) <= b.at \/ End(b) <= list[i].at
      BY <1>3, <3>1 DEF Apart
    <3> QED BY <2>1, <3>2, <3>3, <3>4
  <2> QED BY <2>1, <2>2, <2>3
<1>5. /\ one \in Chunk /\ End(one) = End(b)
      /\ one.at = IF joinsFront THEN list[n].at ELSE b.at
  <2>1. CASE joinsFront
    <3>1. n \in 1..Len(list) /\ list[n] \in Chunk
      BY <1>1, <1>3, <2>1
    <3> QED BY <1>4, <2>1, <3>1 DEF Merged, Chunk, End
  <2>2. CASE ~joinsFront
    BY <1>4, <2>2
  <2> QED BY <2>1, <2>2
<1>6. /\ x \in Chunk /\ x.at = one.at
      /\ End(x) = IF joinsBack THEN End(list[n + 1]) ELSE End(b)
  <2> HIDE DEF one
  <2>1. CASE joinsBack
    <3>1. n + 1 \in 1..Len(list) /\ list[n + 1] \in Chunk
      BY <1>1, <1>3, <2>1
    <3>2. x = [at |-> one.at, size |-> one.size + list[n + 1].size] /\ End(one) = list[n + 1].at
      BY <2>1 DEF Merged
    <3> HIDE DEF x
    <3> HIDE DEF one
    <3>3. x.at = one.at /\ x.size = one.size + list[n + 1].size
      BY <3>2
    <3>4. one.at \in Nat /\ one.size + list[n + 1].size \in Nat \ {0}
      BY <1>4, <1>5, <3>1
    <3>5. x \in Chunk
      BY <3>2, <3>4 DEF Chunk
    <3>6. End(x) = End(list[n + 1])
      <4>1. End(x) = x.at + x.size /\ End(one) = one.at + one.size /\ End(list[n + 1]) = list[n + 1].at + list[n + 1].size
        BY <1>4, <1>5, <3>1, <3>5
      <4>2. one.at \in Nat /\ one.size \in Nat /\ list[n + 1].at \in Nat /\ list[n + 1].size \in Nat
        BY <1>4, <1>5, <3>1
      <4>3. x.at + x.size = one.at + (one.size + list[n + 1].size)
        BY <3>3
      <4>4. one.at + one.size = list[n + 1].at
        BY <3>2, <4>1
      <4>5. x.at + x.size = list[n + 1].at + list[n + 1].size
        BY <4>2, <4>3, <4>4
      <4> QED BY <4>1, <4>5, Zenon
    <3> QED BY <2>1, <3>3, <3>5, <3>6
  <2>2. CASE ~joinsBack
    BY <1>5, <2>2
  <2> QED BY <2>1, <2>2
<1>7. f \in 0..Len(list) /\ g \in 0..Len(list) /\ f <= g
  BY <1>1, <1>3
<1>8. /\ \A i \in 1..f : End(list[i]) <= x.at
      /\ \A i \in g + 1..Len(list) : End(x) <= list[i].at
  <2>1. ASSUME NEW i \in 1..f PROVE End(list[i]) <= x.at
    <3>1. CASE joinsFront
      BY <1>1, <1>3, <1>5, <1>6, <3>1 DEF ByAddress
    <3>2. CASE ~joinsFront
      BY <1>4, <1>5, <1>6, <3>2
    <3> QED BY <3>1, <3>2
  <2>2. ASSUME NEW i \in g + 1..Len(list) PROVE End(x) <= list[i].at
    <3>1. CASE joinsBack
      BY <1>1, <1>3, <1>6, <3>1 DEF ByAddress
    <3>2. CASE ~joinsBack
      BY <1>4, <1>6, <3>2
    <3> QED BY <3>1, <3>2
  <2> QED BY <2>1, <2>2
<1>9. \A u \in Nat : u \in Units(x) <=> u \in Units(b) \/ \E i \in f + 1..g : u \in Units(list[i])
  <2> SUFFICES ASSUME NEW u \in Nat
               PROVE  u \in Units(x) <=> u \in Units(b) \/ \E i \in f + 1..g : u \in Units(list[i])
    OBVIOUS
  <2>1. \A c \in Chunk : u \in Units(c) <=> c.at <= u /\ u < End(c)
    BY <1>4, UnitsOf
  <2>2. u \in Units(one) <=> u \in Units(b) \/ (joinsFront /\ u \in Units(list[n]))
    <3>1. CASE joinsFront
      <4>1. n \in 1..Len(list) /\ list[n] \in Chunk /\ End(list[n]) = b.at
        BY <1>1, <1>3, <3>1
      <4>2. one.at = list[n].at
        BY <1>5, <3>1
      <4> HIDE DEF one
      <4>3. /\ u \in Units(one) <=> one.at <= u /\ u < End(one)
            /\ u \in Units(b) <=> b.at <= u /\ u < End(b)
            /\ u \in Units(list[n]) <=> list[n].at <= u /\ u < End(list[n])
        BY <1>5, <2>1, <4>1
      <4>4. End(list[n]) = list[n].at + list[n].size /\ list[n].size \in Nat /\ list[n].at \in Nat
            /\ End(b) = b.at + b.size /\ b.at \in Nat /\ b.size \in Nat
        BY <1>4, <4>1
      <4>5. End(one) = End(b)
        BY <1>5
      <4>6. (one.at <= u /\ u < End(one)) <=> (b.at <= u /\ u < End(b)) \/ (list[n].at <= u /\ u < End(list[n]))
        <5>1. list[n].at \in Nat /\ End(list[n]) \in Nat /\ End(b) \in Nat /\ list[n].at <= End(list[n]) /\ b.at <= End(b)
          BY <4>4
        <5>2. (list[n].at <= u /\ u < End(b)) <=> (list[n].at <= u /\ u < b.at) \/ (b.at <= u /\ u < End(b))
          BY <4>1, <4>4, <5>1, Adjoin
        <5> QED BY <4>1, <4>2, <4>5, <5>2, Zenon
      <4>7. u \in Units(one) <=> u \in Units(b) \/ u \in Units(list[n])
        BY <4>3, <4>6, Zenon
      <4> QED BY <3>1, <4>7
    <3>2. CASE ~joinsFront
      <4>1. one = b
        BY <3>2
      <4> QED BY <3>2, <4>1
    <3> QED BY <3>1, <3>2
  <2>3. u \in Units(x) <=> u \in Units(one) \/ (joinsBack /\ u \in Units(list[n + 1]))
    <3>1. CASE joinsBack
      <4>1. n + 1 \in 1..Len(list) /\ list[n + 1] \in Chunk /\ End(one) = list[n + 1].at
        BY <1>1, <1>3, <3>1
      <4>2. x.at = one.at /\ End(x) = End(list[n + 1])
        BY <1>6, <3>1
      <4> HIDE DEF one, x
      <4>3. /\ u \in Units(one) <=> one.at <= u /\ u < End(one)
            /\ u \in Units(x) <=> x.at <= u /\ u < End(x)
            /\ u \in Units(list[n + 1]) <=> list[n + 1].at <= u /\ u < End(list[n + 1])
        BY <1>5, <1>6, <2>1, <4>1
      <4>4. /\ End(list[n + 1]) = list[n + 1].at + list[n + 1].size /\ list[n + 1].size \in Nat
            /\ list[n + 1].at \in Nat /\ End(one) = one.at + one.size /\ one.at \in Nat /\ one.size \in Nat
        BY <1>4, <1>5, <4>1
      <4> QED BY <3>1, <4>1, <4>2, <4>3, <4>4
    <3>2. CASE ~joinsBack
      <4>1. x = one
        BY <3>2
      <4> QED BY <3>2, <4>1
    <3> QED BY <3>1, <3>2
  <2>4. (\E i \in f + 1..g : u \in Units(list[i]))
            <=> (joinsFront /\ u \in Units(list[n])) \/ (joinsBack /\ u \in Units(list[n + 1]))
    <3>1. CASE joinsFront /\ joinsBack
      <4>1. f + 1..g = {n, n + 1}
        BY <1>1, <3>1
      <4> HIDE DEF f, g, joinsFront, joinsBack
      <4> QED BY <3>1, <4>1
    <3>2. CASE joinsFront /\ ~joinsBack
      <4>1. f + 1..g = {n}
        BY <1>1, <3>2
      <4> HIDE DEF f, g, joinsFront, joinsBack
      <4> QED BY <3>2, <4>1
    <3>3. CASE ~joinsFront /\ joinsBack
      <4>1. f + 1..g = {n + 1}
        BY <1>1, <3>3
      <4> HIDE DEF f, g, joinsFront, joinsBack
      <4> QED BY <3>3, <4>1
    <3>4. CASE ~joinsFront /\ ~joinsBack
      <4>1. f + 1..g = {}
        BY <1>1, <3>4
      <4> QED BY <3>4, <4>1
    <3> HIDE DEF f, g, joinsFront, joinsBack
    <3> QED BY <3>1, <3>2, <3>3, <3>4
  <2> HIDE DEF f, g, x, one, joinsFront, joinsBack
  <2> QED BY <2>2, <2>3, <2>4
<1> HIDE DEF f, g, x, one, joinsFront, joinsBack
<1>10. r \in Seq(Chunk) /\ IsReplaced(r, list, f, g, x)
  BY <1>6, <1>7, Replaced, Zenon
<1> HIDE DEF r
<1>11. DOMAIN r = 1..f + 1 + (Len(list) - g)
  BY <1>10 DEF IsReplaced
<1>12. ByAddress(r)
  <2> SUFFICES ASSUME NEW i \in DOMAIN r, NEW j \in DOMAIN r, i < j
               PROVE  End(r[i]) <= r[j].at
    BY DEF ByAddress
  <2>1. x.at \in Nat /\ End(x) \in Nat /\ x.at <= End(x) /\ \A k \in 1..Len(list) : list[k].at \in Nat /\ End(list[k]) \in Nat
    BY <1>3, <1>4, <1>6
  <2>2. CASE j <= f
    <3>1. i \in 1..f /\ j \in 1..f /\ i \in DOMAIN list /\ j \in DOMAIN list
      BY <1>3, <1>7, <1>11, <2>2
    <3> QED BY <1>10, <3>1 DEF ByAddress, IsReplaced
  <2>3. CASE j = f + 1
    <3>1. i \in 1..f
      BY <1>7, <1>11, <2>3
    <3> QED BY <1>8, <1>10, <2>3, <3>1 DEF IsReplaced
  <2>4. CASE j > f + 1
    <3>1. PICK l \in 1..Len(list) - g : j = f + 1 + l
      <4>1. j - (f + 1) \in 1..Len(list) - g /\ j = f + 1 + (j - (f + 1))
        BY <1>7, <1>11, <2>4
      <4> QED BY <4>1
    <3>2. r[j] = list[g + l] /\ g + l \in g + 1..Len(list) /\ g + l \in DOMAIN list
      BY <1>3, <1>7, <1>10, <3>1 DEF IsReplaced
    <3>3. CASE i <= f
      <4>1. r[i] = list[i] /\ i \in DOMAIN list /\ i < g + l
        BY <1>3, <1>7, <1>10, <1>11, <3>3 DEF IsReplaced
      <4> QED BY <3>2, <4>1, Zenon DEF ByAddress
    <3>4. CASE i = f + 1
      BY <1>8, <1>10, <3>2, <3>4 DEF IsReplaced
    <3>5. CASE i > f + 1
      <4>1. PICK k \in 1..Len(list) - g : i = f + 1 + k
        <5>1. i - (f + 1) \in 1..Len(list) - g /\ i = f + 1 + (i - (f + 1))
          BY <1>7, <1>11, <3>5
        <5> QED BY <5>1
      <4>2. r[i] = list[g + k] /\ g + k \in DOMAIN list /\ g + k < g + l
        BY <1>3, <1>7, <1>10, <3>1, <4>1 DEF IsReplaced
      <4> QED BY <3>2, <4>2, Zenon DEF ByAddress
    <3>6. i <= f \/ i = f + 1 \/ i > f + 1
      BY <1>7, <1>11
    <3> QED BY <3>3, <3>4, <3>5, <3>6, Zenon
  <2>5. j <= f \/ j = f + 1 \/ j > f + 1
    BY <1>7, <1>11
  <2> QED BY <2>2, <2>3, <2>4, <2>5, Zenon
<1>13. FreeUnits(r) = FreeUnits(list) \cup Units(b)
  <2>1. Units(b) \subseteq Nat
    BY UnitsOf
  <2>2. ASSUME NEW u \in Nat
        PROVE  (\E k \in DOMAIN r : u \in Units(r[k]))
                   <=> (\E i \in DOMAIN list : u \in Units(list[i])) \/ u \in Units(b)
    <3>1. ASSUME NEW k \in DOMAIN r, u \in Units(r[k])
          PROVE  (\E i \in DOMAIN list : u \in Units(list[i])) \/ u \in Units(b)
      <4>1. CASE k <= f
        BY <1>3, <1>7, <1>10, <1>11, <3>1, <4>1 DEF IsReplaced
      <4>2. CASE k = f + 1
        <5>1. r[k] = x
          BY <1>10, <4>2 DEF IsReplaced
        <5>2. u \in Units(b) \/ \E i \in f + 1..g : u \in Units(list[i])
          BY <1>9, <3>1, <5>1
        <5>3. f + 1..g \subseteq DOMAIN list
          BY <1>3, <1>7
        <5> QED BY <5>2, <5>3
      <4>3. CASE k > f + 1
        <5>1. PICK l \in 1..Len(list) - g : k = f + 1 + l
          <6>1. k - (f + 1) \in 1..Len(list) - g /\ k = f + 1 + (k - (f + 1))
            BY <1>7, <1>11, <4>3
          <6> QED BY <6>1
        <5>2. r[k] = list[g + l] /\ g + l \in DOMAIN list
          BY <1>3, <1>7, <1>10, <5>1 DEF IsReplaced
        <5> QED BY <3>1, <5>2
      <4>4. k <= f \/ k = f + 1 \/ k > f + 1
        BY <1>7, <1>11
      <4> QED BY <4>1, <4>2, <4>3, <4>4, Zenon
    <3>2. ASSUME NEW i \in DOMAIN list, u \in Units(list[i])
          PROVE  \E k \in DOMAIN r : u \in Units(r[k])
      <4>1. CASE i <= f
        <5>1. i \in DOMAIN r /\ r[i] = list[i]
          BY <1>3, <1>7, <1>10, <1>11, <4>1 DEF IsReplaced
        <5> QED BY <3>2, <5>1
      <4>2. CASE i \in f + 1..g
        <5>1. f + 1 \in DOMAIN r /\ r[f + 1] = x
          BY <1>7, <1>10, <1>11 DEF IsReplaced
        <5> QED BY <1>9, <3>2, <4>2, <5>1
      <4>3. CASE i > g
        <5>1. PICK l \in 1..Len(list) - g : i = g + l
          <6>1. i - g \in 1..Len(list) - g /\ i = g + (i - g)
            BY <1>3, <1>7, <4>3
          <6> QED BY <6>1
        <5>2. r[f + 1 + l] = list[i] /\ f + 1 + l \in DOMAIN r
          BY <1>7, <1>10, <1>11, <5>1 DEF IsReplaced
        <5> QED BY <3>2, <5>2
      <4>4. i <= f \/ i \in f + 1..g \/ i > g
        BY <1>3, <1>7
      <4> QED BY <4>1, <4>2, <4>3, <4>4, Zenon
    <3>3. ASSUME u \in Units(b) PROVE \E k \in DOMAIN r : u \in Units(r[k])
      <4>1. f + 1 \in DOMAIN r /\ r[f + 1] = x
        BY <1>7, <1>10, <1>11 DEF IsReplaced
      <4> QED BY <1>9, <3>3, <4>1
    <3> QED BY <3>1, <3>2, <3>3
  <2> QED BY <2>1, <2>2 DEF FreeUnits
<1> QED BY <1>2, <1>10, <1>12, <1>13, Zenon

\* Blocks without a common unit lie one behind the other.
LEMMA DisjointApart ==
    ASSUME NEW b \in Chunk, NEW c \in Chunk, Units(b) \cap Units(c) = {}
    PROVE  Apart(b, c)
<1>1. /\ b.at \in Nat /\ b.size \in Nat /\ b.size > 0 /\ End(b) = b.at + b.size
      /\ c.at \in Nat /\ c.size \in Nat /\ c.size > 0 /\ End(c) = c.at + c.size
  BY DEF Chunk, End
<1>2. SUFFICES ASSUME End(b) > c.at, End(c) > b.at PROVE FALSE
  BY <1>1 DEF Apart
<1>3. CASE b.at <= c.at
  <2>1. c.at \in Units(b) /\ c.at \in Units(c)
    BY <1>1, <1>2, <1>3, UnitsOf
  <2> QED BY <2>1
<1>4. CASE c.at <= b.at
  <2>1. b.at \in Units(b) /\ b.at \in Units(c)
    BY <1>1, <1>2, <1>4, UnitsOf
  <2> QED BY <2>1
<1> QED BY <1>1, <1>3, <1>4

\* The units of the free blocks are few, and those of one of them are among them.
LEMMA FreeFinite ==
    ASSUME HeapInv
    PROVE  /\ IsFiniteSet(FreeUnits(freeList)) /\ Cardinality(FreeUnits(freeList)) \in Nat
           /\ \A i \in DOMAIN freeList : freeList[i] \in Chunk /\ Units(freeList[i]) \subseteq FreeUnits(freeList)
           /\ \A b \in allocated : b \in Chunk /\ Units(b) \subseteq UsedUnits(allocated)
<1>1. HeapSize - 1 \in Int /\ 0 \in Int
  BY Heap4Assumption
<1>2. IsFiniteSet(0..HeapSize - 1)
  BY <1>1, FS_Interval
<1>3. FreeUnits(freeList) \in SUBSET (0..HeapSize - 1)
  BY DEF HeapInv
<1>4. IsFiniteSet(FreeUnits(freeList))
  BY <1>2, <1>3, FS_Subset
<1>5. \A i \in DOMAIN freeList : freeList[i] \in Chunk /\ Units(freeList[i]) \subseteq Nat
  BY UnitsOf DEF HeapInv
<1>6. \A b \in allocated : b \in Chunk /\ Units(b) \subseteq Nat
  BY UnitsOf DEF HeapInv
<1> QED BY <1>4, <1>5, <1>6, FS_CardinalityType DEF FreeUnits, UsedUnits

\* What is free is less by a block whose units were, and more by one whose were not.
LEMMA LessBy ==
    ASSUME NEW S, IsFiniteSet(S), NEW b \in Chunk, Units(b) \subseteq S
    PROVE  Cardinality(S \ Units(b)) = Cardinality(S) - b.size
<1>1. S = (S \ Units(b)) \cup Units(b) /\ (S \ Units(b)) \cap Units(b) = {}
  OBVIOUS
<1>2. S \ Units(b) \in SUBSET S /\ IsFiniteSet(S \ Units(b))
  BY FS_Subset
<1>3. IsFiniteSet(Units(b)) /\ Cardinality(Units(b)) = b.size /\ b.size \in Nat
  BY UnitsOf DEF Chunk
<1>4. Cardinality((S \ Units(b)) \cup Units(b))
          = Cardinality(S \ Units(b)) + Cardinality(Units(b)) - Cardinality((S \ Units(b)) \cap Units(b))
  BY <1>2, <1>3, FS_Union, Zenon
<1>5. Cardinality(S \ Units(b)) \in Nat /\ Cardinality({}) = 0
  BY <1>2, FS_CardinalityType, FS_EmptySet
<1>6. Cardinality(S) = Cardinality(S \ Units(b)) + b.size - 0
  BY <1>1, <1>3, <1>4, <1>5, Zenon
<1> QED BY <1>3, <1>5, <1>6

LEMMA MoreBy ==
    ASSUME NEW S, IsFiniteSet(S), NEW b \in Chunk, Units(b) \cap S = {}
    PROVE  Cardinality(S \cup Units(b)) = Cardinality(S) + b.size
<1>1. IsFiniteSet(Units(b)) /\ Cardinality(Units(b)) = b.size /\ b.size \in Nat
  BY UnitsOf DEF Chunk
<1>2. IsFiniteSet(S \cup Units(b))
  BY <1>1, FS_Union
<1>3. Cardinality((S \cup Units(b)) \ Units(b)) = Cardinality(S \cup Units(b)) - b.size
  BY <1>2, LessBy
<1>4. (S \cup Units(b)) \ Units(b) = S
  OBVIOUS
<1>5. Cardinality(S \cup Units(b)) \in Nat /\ Cardinality(S) \in Nat
  BY <1>2, FS_CardinalityType
<1> QED BY <1>1, <1>3, <1>4, <1>5

\* A block is taken out of the free list.
LEMMA TakenOut ==
    ASSUME HeapInv, NEW i \in DOMAIN freeList
    PROVE  LET others == SubSeq(freeList, 1, i - 1) \o SubSeq(freeList, i + 1, Len(freeList)) IN
           /\ others \in Seq(Chunk) /\ ByAddress(others)
           /\ FreeUnits(others) = FreeUnits(freeList) \ Units(freeList[i])
<1> DEFINE others == SubSeq(freeList, 1, i - 1) \o SubSeq(freeList, i + 1, Len(freeList))
<1>1. freeList \in Seq(Chunk) /\ i \in 1..Len(freeList) /\ DOMAIN freeList = 1..Len(freeList) /\ Len(freeList) \in Nat
  BY DEF HeapInv
<1>2. others \in Seq(Chunk) /\ IsCut(others, freeList, i)
  BY <1>1, Cut, Zenon
<1> HIDE DEF others
<1>3. DOMAIN others = 1..Len(freeList) - 1
  BY <1>2 DEF IsCut
<1>4. ByAddress(others)
  <2> SUFFICES ASSUME NEW j \in DOMAIN others, NEW k \in DOMAIN others, j < k
               PROVE  End(others[j]) <= others[k].at
    BY DEF ByAddress
  <2> DEFINE p == IF j < i THEN j ELSE j + 1
             q == IF k < i THEN k ELSE k + 1
  <2>1. others[j] = freeList[p] /\ others[k] = freeList[q]
    BY <1>1, <1>2, <1>3 DEF IsCut
  <2>2. p \in DOMAIN freeList /\ q \in DOMAIN freeList /\ p < q
    BY <1>1, <1>3
  <2> HIDE DEF p, q
  <2> QED BY <2>1, <2>2, Zenon DEF HeapInv, ByAddress
<1>5. ASSUME NEW u \in Nat
      PROVE  (\E k \in DOMAIN others : u \in Units(others[k]))
                <=> (\E j \in DOMAIN freeList : u \in Units(freeList[j])) /\ u \notin Units(freeList[i])
  <2>1. ASSUME NEW k \in DOMAIN others, u \in Units(others[k])
        PROVE  (\E j \in DOMAIN freeList : u \in Units(freeList[j])) /\ u \notin Units(freeList[i])
    <3> DEFINE p == IF k < i THEN k ELSE k + 1
    <3>1. others[k] = freeList[p]
      BY <1>1, <1>2, <1>3 DEF IsCut
    <3>2. p \in DOMAIN freeList /\ p # i /\ (p < i \/ i < p)
      BY <1>1, <1>3
    <3> HIDE DEF p
    <3>3. freeList[p] \in Chunk /\ freeList[i] \in Chunk /\ u \in Units(freeList[p])
      BY <2>1, <3>1, <3>2 DEF HeapInv
    <3>4. End(freeList[p]) <= freeList[i].at \/ End(freeList[i]) <= freeList[p].at
      BY <3>2 DEF HeapInv, ByAddress
    <3>5. u \notin Units(freeList[i])
      <4>1. /\ freeList[p].at <= u /\ u < End(freeList[p])
            /\ u \in Units(freeList[i]) => freeList[i].at <= u /\ u < End(freeList[i])
            /\ freeList[p].at \in Nat /\ freeList[i].at \in Nat /\ End(freeList[i]) \in Nat /\ End(freeList[p]) \in Nat
        BY <3>3, UnitsOf DEF Chunk, End
      <4> QED BY <3>4, <4>1
    <3> QED BY <3>2, <3>3, <3>5
  <2>2. ASSUME NEW j \in DOMAIN freeList, u \in Units(freeList[j]), u \notin Units(freeList[i])
        PROVE  \E k \in DOMAIN others : u \in Units(others[k])
    <3>1. j # i
      BY <2>2
    <3> DEFINE k == IF j < i THEN j ELSE j - 1
    <3>2. k \in 1..Len(freeList) - 1 /\ (IF k < i THEN k ELSE k + 1) = j
      BY <1>1, <3>1
    <3> HIDE DEF k
    <3>3. others[k] = freeList[j] /\ k \in DOMAIN others
      BY <1>2, <1>3, <3>2 DEF IsCut
    <3> QED BY <2>2, <3>3
  <2> QED BY <2>1, <2>2
<1>6. FreeUnits(others) = FreeUnits(freeList) \ Units(freeList[i])
  BY <1>5 DEF FreeUnits
<1> QED BY <1>2, <1>4, <1>6, Zenon DEF others

\* The front of a free block is handed out, or all of it.
LEMMA MallocKeeps == ASSUME HeapInv, NEW bytes \in HeapAsks, pvPortMalloc(bytes) PROVE HeapInv'
<1>1. bytes \in Nat /\ bytes > 0
  BY Heap4Assumption DEF pvPortMalloc, Granted
<1> DEFINE Remaining(i) == [at |-> freeList[i].at + Taken(freeList[i].size, Wanted(bytes)),
                       size |-> freeList[i].size - Taken(freeList[i].size, Wanted(bytes))]
           Others(i) == SubSeq(freeList, 1, i - 1) \o SubSeq(freeList, i + 1, Len(freeList))
<1>2. PICK i \in Fitting(bytes) :
          /\ allocated' = allocated \cup {[at |-> freeList[i].at, size |-> Taken(freeList[i].size, Wanted(bytes))]}
          /\ freeList' = IF Remaining(i).size > 0 THEN InsertBlockIntoFreeList(Others(i), Remaining(i)) ELSE Others(i)
          /\ xFreeBytesRemaining' = xFreeBytesRemaining - Taken(freeList[i].size, Wanted(bytes))
  BY Zenon DEF pvPortMalloc
<1> DEFINE block == freeList[i]
           taken == Taken(block.size, Wanted(bytes))
           given == [at |-> block.at, size |-> taken]
           rest == [at |-> block.at + taken, size |-> block.size - taken]
           others == Others(i)
<1>3. i \in DOMAIN freeList /\ block \in Chunk /\ block.size >= Wanted(bytes) /\ Units(block) \subseteq FreeUnits(freeList)
  BY FreeFinite DEF Fitting
<1>4. block.at \in Nat /\ block.size \in Nat \ {0} /\ End(block) = block.at + block.size
  BY <1>3 DEF Chunk, End
<1>5. Wanted(bytes) \in Nat /\ Wanted(bytes) > 0
  BY <1>1 DEF Wanted
<1>6. taken \in Nat /\ taken > 0 /\ taken <= block.size
  BY <1>3, <1>4, <1>5 DEF Taken
<1>7. given \in Chunk /\ given.at = block.at /\ given.size = taken
  BY <1>4, <1>6 DEF Chunk
<1>8. /\ others \in Seq(Chunk) /\ ByAddress(others)
      /\ FreeUnits(others) = FreeUnits(freeList) \ Units(block)
  BY <1>3, TakenOut, Zenon
<1> HIDE DEF taken, others
<1>9. /\ allocated' = allocated \cup {given}
      /\ freeList' = IF rest.size > 0 THEN InsertBlockIntoFreeList(others, rest) ELSE others
      /\ xFreeBytesRemaining' = xFreeBytesRemaining - taken
  BY <1>2, Zenon DEF taken, others
<1>10. /\ freeList' \in Seq(Chunk) /\ ByAddress(freeList')
       /\ FreeUnits(freeList') = FreeUnits(freeList) \ Units(given)
  <2>1. CASE rest.size > 0
    <3>1. rest \in Chunk /\ rest.at = block.at + taken /\ rest.size = block.size - taken
      BY <1>4, <1>6, <2>1 DEF Chunk
    <3> HIDE DEF rest, given, block
    <3>2. ASSUME NEW u \in Nat
          PROVE  /\ u \in Units(block) <=> u \in Units(given) \/ u \in Units(rest)
                 /\ ~(u \in Units(given) /\ u \in Units(rest))
      <4>1. /\ u \in Units(block) <=> block.at <= u /\ u < block.at + block.size
            /\ u \in Units(given) <=> block.at <= u /\ u < block.at + taken
            /\ u \in Units(rest) <=> block.at + taken <= u /\ u < (block.at + taken) + (block.size - taken)
        BY <1>3, <1>7, <3>1, UnitsOf
      <4> QED BY <1>4, <1>6, <4>1
    <3>3. Units(block) \subseteq Nat /\ Units(given) \subseteq Nat /\ Units(rest) \subseteq Nat
      BY <1>3, <1>7, <3>1, UnitsOf
    <3>4. Units(block) = Units(given) \cup Units(rest) /\ Units(given) \cap Units(rest) = {}
      BY <3>2, <3>3
    <3>5. ASSUME NEW k \in DOMAIN others PROVE Apart(others[k], rest)
      <4>1. others[k] \in Chunk
        BY <1>8
      <4>2. Units(others[k]) \subseteq FreeUnits(others)
        BY <4>1, UnitsOf DEF FreeUnits
      <4>3. Units(others[k]) \cap Units(rest) = {}
        BY <1>8, <3>4, <4>2
      <4> QED BY <3>1, <4>1, <4>3, DisjointApart
    <3>6. /\ InsertBlockIntoFreeList(others, rest) \in Seq(Chunk)
          /\ ByAddress(InsertBlockIntoFreeList(others, rest))
          /\ FreeUnits(InsertBlockIntoFreeList(others, rest)) = FreeUnits(others) \cup Units(rest)
      BY <1>8, <3>1, <3>5, ChunkInserted, Zenon
    <3>7. freeList' = InsertBlockIntoFreeList(others, rest)
      BY <1>9, <2>1, Zenon DEF rest
    <3>8. (FreeUnits(freeList) \ Units(block)) \cup Units(rest) = FreeUnits(freeList) \ Units(given)
      BY <1>3, <3>4
    <3> QED BY <1>8, <3>6, <3>7, <3>8
  <2>2. CASE ~(rest.size > 0)
    <3>1. taken = block.size
      BY <1>4, <1>6, <2>2
    <3>2. Units(given) = Units(block)
      BY <1>7, <3>1 DEF Units, End
    <3> QED BY <1>8, <1>9, <2>2, <3>2
  <2> QED BY <2>1, <2>2
<1> HIDE DEF given, block, rest
<1>11. Units(given) \subseteq Units(block)
  <2>1. ASSUME NEW u \in Nat, u \in Units(given) PROVE u \in Units(block)
    <3>1. /\ u \in Units(block) <=> block.at <= u /\ u < block.at + block.size
          /\ u \in Units(given) <=> block.at <= u /\ u < block.at + taken
      BY <1>3, <1>7, UnitsOf
    <3> QED BY <1>4, <1>6, <2>1, <3>1
  <2> QED BY <1>7, <2>1, UnitsOf
<1>12. UsedUnits(allocated') = UsedUnits(allocated) \cup Units(given)
  BY <1>7, <1>9, UnitsOf DEF UsedUnits
<1>13. Units(given) \subseteq FreeUnits(freeList) /\ Units(given) \cap UsedUnits(allocated) = {}
  BY <1>3, <1>11 DEF HeapInv
<1>14. \A b, c \in allocated' : Units(b) \cap Units(c) # {} => b = c
  <2>1. \A b \in allocated : Units(b) \cap Units(given) = {}
    BY <1>13, FreeFinite
  <2> QED BY <1>9, <2>1 DEF HeapInv
<1>15. xFreeBytesRemaining' = Cardinality(FreeUnits(freeList'))
  <2>1. Cardinality(FreeUnits(freeList) \ Units(given)) = Cardinality(FreeUnits(freeList)) - given.size
    BY <1>7, <1>13, LessBy, FreeFinite
  <2> QED BY <1>7, <1>9, <1>10, <2>1 DEF HeapInv
<1>16. allocated' \subseteq Chunk
  BY <1>7, <1>9 DEF HeapInv
<1>17. /\ FreeUnits(freeList') \cap UsedUnits(allocated') = {}
       /\ FreeUnits(freeList') \cup UsedUnits(allocated') = 0..HeapSize - 1
  BY <1>10, <1>12, <1>13 DEF HeapInv
<1> QED BY <1>10, <1>14, <1>15, <1>16, <1>17 DEF HeapInv

\* A block comes back.
LEMMA GivenBackKeeps == ASSUME HeapInv, NEW b \in allocated, vPortFree(b) PROVE HeapInv'
<1>1. b \in Chunk /\ Units(b) \subseteq UsedUnits(allocated) /\ Units(b) \cap FreeUnits(freeList) = {}
  BY FreeFinite DEF HeapInv
<1>2. ASSUME NEW i \in DOMAIN freeList PROVE Apart(freeList[i], b)
  <2>1. freeList[i] \in Chunk /\ Units(freeList[i]) \cap Units(b) = {}
    BY <1>1, FreeFinite
  <2> QED BY <1>1, <2>1, DisjointApart
<1>3. /\ freeList' = InsertBlockIntoFreeList(freeList, b) /\ allocated' = allocated \ {b}
      /\ xFreeBytesRemaining' = xFreeBytesRemaining + b.size
  BY DEF vPortFree
<1>4. /\ freeList' \in Seq(Chunk) /\ ByAddress(freeList')
      /\ FreeUnits(freeList') = FreeUnits(freeList) \cup Units(b)
  <2>1. freeList \in Seq(Chunk) /\ ByAddress(freeList)
    BY DEF HeapInv
  <2>2. /\ InsertBlockIntoFreeList(freeList, b) \in Seq(Chunk)
        /\ ByAddress(InsertBlockIntoFreeList(freeList, b))
        /\ FreeUnits(InsertBlockIntoFreeList(freeList, b)) = FreeUnits(freeList) \cup Units(b)
    BY <1>1, <1>2, <2>1, ChunkInserted, Zenon
  <2> QED BY <1>3, <2>2, Zenon
<1>5. UsedUnits(allocated') = UsedUnits(allocated) \ Units(b)
  <2>1. ASSUME NEW u \in Nat, NEW c \in allocated, u \in Units(c)
        PROVE  u \in Units(b) <=> c = b
    BY <2>1 DEF HeapInv
  <2> QED BY <1>3, <2>1 DEF UsedUnits
<1>6. xFreeBytesRemaining' = Cardinality(FreeUnits(freeList'))
  <2>1. Cardinality(FreeUnits(freeList) \cup Units(b)) = Cardinality(FreeUnits(freeList)) + b.size
    BY <1>1, MoreBy, FreeFinite
  <2> QED BY <1>3, <1>4, <2>1 DEF HeapInv
<1>7. allocated' \subseteq Chunk /\ \A c, d \in allocated' : Units(c) \cap Units(d) # {} => c = d
  BY <1>3 DEF HeapInv
<1>8. /\ FreeUnits(freeList') \cap UsedUnits(allocated') = {}
      /\ FreeUnits(freeList') \cup UsedUnits(allocated') = 0..HeapSize - 1
  BY <1>1, <1>4, <1>5 DEF HeapInv
<1> QED BY <1>4, <1>6, <1>7, <1>8 DEF HeapInv

LEMMA HeapStarts == HeapInit => HeapInv
<1> SUFFICES ASSUME HeapInit PROVE HeapInv
  OBVIOUS
<1> DEFINE all == [at |-> 0, size |-> HeapSize]
<1>1. all \in Chunk /\ freeList = <<all>> /\ allocated = {} /\ xFreeBytesRemaining = HeapSize /\ all.size = HeapSize
  BY Heap4Assumption DEF HeapInit, Chunk
<1>2. Units(all) = 0..HeapSize - 1
  BY Heap4Assumption DEF Units, End
<1>3. Cardinality(Units(all)) = HeapSize /\ Units(all) \subseteq Nat
  BY <1>1, UnitsOf
<1> HIDE DEF all
<1>4. freeList \in Seq(Chunk) /\ DOMAIN freeList = {1} /\ freeList[1] = all
  BY <1>1
<1>5. FreeUnits(freeList) = Units(all) /\ UsedUnits(allocated) = {}
  BY <1>1, <1>3, <1>4 DEF FreeUnits, UsedUnits
<1>6. ByAddress(freeList)
  BY <1>4 DEF ByAddress
<1> QED BY <1>1, <1>2, <1>3, <1>4, <1>5, <1>6 DEF HeapInv

\* What the invariant says of each unit.
LEMMA Tiles == HeapInv => HeapIsTiled
<1> SUFFICES ASSUME HeapInv PROVE HeapIsTiled
  OBVIOUS
<1>1. freeList \in Seq(Chunk) /\ DOMAIN freeList = 1..Len(freeList) /\ Len(freeList) \in Nat
  BY DEF HeapInv
<1>2. ASSUME NEW i \in DOMAIN freeList, NEW j \in DOMAIN freeList, Units(freeList[i]) \cap Units(freeList[j]) # {}
      PROVE  i = j
  <2>1. PICK u \in Units(freeList[i]) : u \in Units(freeList[j])
    BY <1>2
  <2>2. /\ u \in Nat /\ freeList[i].at <= u /\ u < End(freeList[i]) /\ freeList[j].at <= u /\ u < End(freeList[j])
        /\ freeList[i].at \in Nat /\ freeList[j].at \in Nat /\ End(freeList[i]) \in Nat /\ End(freeList[j]) \in Nat
    BY <2>1, UnitsOf, FreeFinite DEF Chunk, End
  <2>3. i < j => End(freeList[i]) <= freeList[j].at
    BY DEF HeapInv, ByAddress
  <2>4. j < i => End(freeList[j]) <= freeList[i].at
    BY DEF HeapInv, ByAddress
  <2> QED BY <1>1, <2>2, <2>3, <2>4
<1>3. \A i \in DOMAIN freeList : freeList[i].at \in Units(freeList[i])
  BY FreeFinite, UnitsOf
<1>4. ASSUME NEW u \in 0..HeapSize - 1
      PROVE  Cardinality({b \in allocated \cup InFreeList : u \in Units(b)}) = 1
  <2>1. u \in Nat
    BY Heap4Assumption
  <2>2. \A i \in DOMAIN freeList, c \in allocated : ~(u \in Units(freeList[i]) /\ u \in Units(c))
    BY FreeFinite DEF HeapInv
  <2>3. PICK b \in allocated \cup InFreeList : u \in Units(b)
    <3>1. u \in FreeUnits(freeList) \/ u \in UsedUnits(allocated)
      BY DEF HeapInv
    <3> QED BY <3>1 DEF FreeUnits, UsedUnits, InFreeList
  <2>4. ASSUME NEW c \in allocated \cup InFreeList, u \in Units(c) PROVE c = b
    <3>1. CASE b \in allocated /\ c \in allocated
      BY <2>3, <2>4, <3>1 DEF HeapInv
    <3>2. CASE ~(b \in allocated /\ c \in allocated)
      BY <1>2, <2>2, <2>3, <2>4, <3>2 DEF InFreeList
    <3> QED BY <3>1, <3>2
  <2>5. {c \in allocated \cup InFreeList : u \in Units(c)} = {b}
    BY <2>3, <2>4
  <2> QED BY <2>5, FS_Singleton
<1>5. allocated \cap InFreeList = {}
  <2> SUFFICES ASSUME NEW i \in DOMAIN freeList, freeList[i] \in allocated PROVE FALSE
    BY DEF InFreeList
  <2>1. freeList[i].at \in FreeUnits(freeList) /\ freeList[i].at \in UsedUnits(allocated)
    BY <1>3, FreeFinite
  <2> QED BY <2>1 DEF HeapInv
<1>6. Cardinality(InFreeList) = Len(freeList)
  <2>1. freeList \in [1..Len(freeList) -> InFreeList] /\ \A b \in InFreeList : \E i \in 1..Len(freeList) : freeList[i] = b
    BY <1>1 DEF InFreeList
  <2>2. \A i, j \in 1..Len(freeList) : freeList[i] = freeList[j] => i = j
    BY <1>1, <1>2, <1>3
  <2>3. ExistsBijection(1..Len(freeList), InFreeList)
    BY <2>1, <2>2 DEF ExistsBijection, Bijection, Injection, Surjection, IsInjective
  <2> QED BY <1>1, <2>3, FS_CountingElements
<1>7. {u \in 0..HeapSize - 1 : \E b \in InFreeList : u \in Units(b)} = FreeUnits(freeList)
  <2>1. FreeUnits(freeList) \subseteq 0..HeapSize - 1 /\ 0..HeapSize - 1 \subseteq Nat
    BY Heap4Assumption DEF HeapInv
  <2> QED BY <2>1 DEF FreeUnits, InFreeList
<1> QED BY <1>4, <1>5, <1>6, <1>7 DEF HeapIsTiled, HeapInv

\* Every unit of the heap stays in exactly one block, free or in use, and the count of
\* free bytes true, for a heap of any size and requests of any length, however blocks
\* are split, given back and merged.
THEOREM HeapStaysTiled == HeapSpec => []HeapIsTiled
<1>1. HeapInv /\ [HeapNext]_heapVars => HeapInv'
  <2> SUFFICES ASSUME HeapInv, [HeapNext]_heapVars PROVE HeapInv'
    OBVIOUS
  <2>1. ASSUME NEW bytes \in HeapAsks, pvPortMalloc(bytes) PROVE HeapInv'
    BY <2>1, MallocKeeps
  <2>2. ASSUME NEW b \in allocated, vPortFree(b) PROVE HeapInv'
    BY <2>2, GivenBackKeeps
  <2>3. CASE UNCHANGED heapVars
    BY <2>3 DEF heapVars, HeapInv
  <2> QED BY <2>1, <2>2, <2>3 DEF HeapNext
<1> QED BY HeapStarts, Tiles, <1>1, PTL DEF HeapSpec

-----------------------------------------------------------------------------
(* The clock of the kernel.                                                *)

\* Where a task can be, and the values of the counter of ticks.
TickPlaces == {"runs", "noted", "check", "add", "resume", "late", "asleep", "timed out"}
Moments == 0..TickWord - 1

\* The types of the variables of the kernel, and of those of its tasks.
ClockTyped ==
    /\ xTickCount \in Moments /\ xNumOfOverflows \in Nat /\ uxPendedTicks \in Nat
    /\ xNextTaskUnblockTime \in Moments /\ uxSchedulerSuspended \in Sleepers \cup {NoSleeper}
    /\ pxDelayedTaskList \in Seq(Sleepers) /\ pxOverflowDelayedTaskList \in Seq(Sleepers)
    /\ wakeTime \in [Sleepers -> Moments]
AskTyped ==
    /\ sleepPc \in [Sleepers -> TickPlaces] /\ asks \in [Sleepers -> {"delay", "wait"}]
    /\ ticksToWait \in [Sleepers -> Moments]
    /\ timeOut \in [Sleepers -> [xOverflowCount : Nat, xTimeOnEntering : Moments]]
    /\ asked \in [Sleepers -> Nat] /\ waited \in [Sleepers -> Nat]
    /\ \A t \in Sleepers : waited[t] <= asked[t]

\* Between its test and xTaskResumeAll a task has suspended the scheduler; nothing is put off otherwise.
Suspending ==
    /\ \A t \in Sleepers : sleepPc[t] \in {"check", "add", "resume", "late"} => uxSchedulerSuspended = t
    /\ uxSchedulerSuspended = NoSleeper => uxPendedTicks = 0 /\ xPendingReadyList = {}

\* A list is in the order of the wake times.
InTime(list, w) == \A i, j \in DOMAIN list : i < j => w[list[i]] <= w[list[j]]
\* Whoever is on the list of this round is woken later, not before the next time the tick looks for.
Ahead(list, now, next) ==
    \A i \in DOMAIN list : wakeTime[list[i]] > now /\ next <= wakeTime[list[i]]

\* The two lists: in order, with no task in common, the first ahead of the counter.
ListsInTime == /\ InTime(pxDelayedTaskList, wakeTime) /\ InTime(pxOverflowDelayedTaskList, wakeTime)
               /\ \A t \in Sleepers : ~(OnDelay(pxDelayedTaskList, t) /\ OnDelay(pxOverflowDelayedTaskList, t))
               /\ Ahead(pxDelayedTaskList, xTickCount, xNextTaskUnblockTime)

\* The list of this round, the list of the next one.
OnNow(t) == OnDelay(pxDelayedTaskList, t)
OnNext(t) == OnDelay(pxOverflowDelayedTaskList, t)
Sleeping(t) == OnNow(t) \/ OnNext(t)

\* An event is awaited in a wait, by a task that sleeps.
Awaiting ==
    /\ awaited \subseteq Sleepers /\ xPendingReadyList \subseteq Sleepers /\ xSuspendedTaskList \subseteq Sleepers
    /\ \A t \in Sleepers :
          /\ t \in awaited => asks[t] = "wait" /\ (Sleeping(t) \/ t \in xSuspendedTaskList)
          /\ t \in xPendingReadyList => asks[t] = "wait"

\* What is left of what t asked for.
Left(t) == asked[t] - waited[t]
AtLeast0(n) == IF n > 0 THEN n ELSE 0
\* From now until time w of this round.
Until(w) == AtLeast0(w - xTickCount - uxPendedTicks)

\* A task on a list will be woken when its time is over.
OnTime(t) ==
    /\ OnNow(t) => Left(t) = Until(wakeTime[t])
    /\ OnNext(t) => Left(t) = Until(wakeTime[t] + TickWord)

\* A task in vTaskDelay: what is left of its delay, wherever it is.
DelayOK(t) ==
    asks[t] = "delay" =>
        /\ sleepPc[t] \in {"runs", "add", "resume", "asleep"} /\ OnTime(t)
        /\ sleepPc[t] = "add" => Left(t) = AtLeast0(ticksToWait[t] - uxPendedTicks)
        /\ sleepPc[t] \in {"resume", "asleep"} => Sleeping(t) \/ Left(t) = 0

\* The ticks since the kernel started, and when t noted the time.
Clock == xNumOfOverflows * TickWord + xTickCount
NotedAt(t) == timeOut[t].xOverflowCount * TickWord + timeOut[t].xTimeOnEntering
Since(t) == Clock + uxPendedTicks - NotedAt(t)
\* A task that waits: the ticks since it noted the time, as the counter tells them, are no more
\* than those that have passed, and the test of the time-out never overstates them.
WaitOK(t) ==
    asks[t] = "wait" =>
        /\ NotedAt(t) <= Clock
        /\ Left(t) <= AtLeast0(ticksToWait[t] - Since(t))
        /\ sleepPc[t] \in {"late", "timed out"} => Left(t) = 0
TaskOK(t) == /\ DelayOK(t) /\ WaitOK(t)
             /\ sleepPc[t] \in {"noted", "check", "add", "resume", "asleep"} => ticksToWait[t] > 0
AsksOK == \A t \in Sleepers : TaskOK(t)

\* The bounds of the model.
Bounds == Clock + uxPendedTicks <= MaxTicks /\ sleeps \in 0..MaxAsks

\* The inductive invariant of the kernel's time.
TicksInv == ClockTyped /\ AskTyped /\ Suspending /\ ListsInTime /\ Awaiting /\ AsksOK /\ Bounds

\* A wait that is not for ever, of which less than a round is over when it is tested:
WaitExact(t) ==
    asks[t] = "wait" =>
        /\ OnTime(t)
        /\ ticksToWait[t] # portMAX_DELAY /\ sleepPc[t] \in {"noted", "check", "add", "resume", "asleep"} =>
              Left(t) = AtLeast0(ticksToWait[t] - Since(t))
        /\ ticksToWait[t] # portMAX_DELAY /\ sleepPc[t] = "add" => NotedAt(t) = Clock
WaitsExact == \A t \in Sleepers : WaitExact(t)
\* No task takes more than a round of the counter (2^32 ticks) from noting the time to testing
\* it: xTaskCheckForTimeOut cannot tell one round from two. A wait for ever is not tested.
Prompt ==
    \A t \in Sleepers : sleepPc[t] = "check" /\ ticksToWait[t] # portMAX_DELAY => Since(t) <= TickWord

\* f keeps who is not gone, place by place.
Keeping(f, list, gone) ==
    f = [n \in 0..Len(list) |-> IF n = 0 THEN <<>>
                                ELSE IF list[n] \in gone THEN f[n - 1]
                                ELSE Append(f[n - 1], list[n])]

\* Off is the last place of such a function.
LEMMA KeepingIs ==
    ASSUME NEW list \in Seq(Sleepers), NEW gone
    PROVE  \E f : Keeping(f, list, gone) /\ Off(list, gone) = f[Len(list)]
<1> DEFINE l == Len(list)
           V == Seq(Sleepers)
           G == [p \in (1..l) \X V |-> IF list[p[1]] \in gone THEN p[2] ELSE Append(p[2], list[p[1]])]
<1>1. l \in Nat /\ <<>> \in V /\ \A n \in 1..l : list[n] \in Sleepers
  OBVIOUS
<1>2. G \in [(1..l) \X V -> V]
  <2>1. \A kept \in V, x \in Sleepers : Append(kept, x) \in V
    OBVIOUS
  <2> HIDE DEF V, l
  <2> QED BY <1>1, <2>1
<1>3. \A k \in 1..l, kept \in V : G[<<k, kept>>] = IF list[k] \in gone THEN kept ELSE Append(kept, list[k])
  <2> HIDE DEF V, l
  <2> QED OBVIOUS
<1> HIDE DEF V, G, l
<1>4. PICK f \in [0..l -> V] : f[0] = <<>> /\ \A k \in 1..l : f[k] = G[<<k, f[k - 1]>>]
  <2>1. IsRule(G, l, V)
    BY <1>2 DEF IsRule
  <2>2. \E f : Recurs(f, l, V, <<>>, G)
    BY <1>1, <2>1, Recursion
  <2> QED BY <2>2 DEF Recurs
<1>5. ASSUME NEW k \in 0..l
      PROVE  f[k] = IF k = 0 THEN <<>> ELSE IF list[k] \in gone THEN f[k - 1] ELSE Append(f[k - 1], list[k])
  <2>1. CASE k = 0
    BY <1>4, <2>1
  <2>2. CASE k # 0
    <3>1. k \in 1..l /\ k - 1 \in 0..l
      BY <1>1, <2>2
    <3>2. f[k - 1] \in V
      BY <3>1
    <3> QED BY <1>3, <1>4, <2>2, <3>1, <3>2
  <2> QED BY <2>1, <2>2
<1>6. f = [k \in 0..l |-> IF k = 0 THEN <<>> ELSE IF list[k] \in gone THEN f[k - 1] ELSE Append(f[k - 1], list[k])]
  BY <1>5
<1>7. \E g : Keeping(g, list, gone)
  BY <1>6 DEF Keeping, l
<1>8. Off(list, gone) = (CHOOSE g : Keeping(g, list, gone))[Len(list)]
  BY DEF Off, Keeping
<1> QED BY <1>7, <1>8

\* What it holds at each place.
LEMMA KeepingAt ==
    ASSUME NEW list, NEW gone, NEW f, Keeping(f, list, gone), NEW l \in Nat, Len(list) = l
    PROVE  /\ f[0] = <<>>
           /\ \A n \in 1..l : f[n] = IF list[n] \in gone THEN f[n - 1] ELSE Append(f[n - 1], list[n])
<1> DEFINE Step(n) == IF n = 0 THEN <<>>
                      ELSE IF list[n] \in gone THEN f[n - 1]
                      ELSE Append(f[n - 1], list[n])
<1>1. f = [n \in 0..l |-> Step(n)]
  BY DEF Keeping
<1> HIDE DEF Step
<1>2. \A n \in 0..l : f[n] = Step(n)
  BY <1>1
<1>3. 0 \in 0..l /\ \A n \in 1..l : n \in 0..l /\ n # 0
  OBVIOUS
<1> QED BY <1>2, <1>3 DEF Step

\* The tasks that are left, in the same order.
LEMMA OffIs ==
    ASSUME NEW list \in Seq(Sleepers), NEW gone, NEW w \in [Sleepers -> Moments]
    PROVE  /\ Off(list, gone) \in Seq(Sleepers)
           /\ \A t : OnDelay(Off(list, gone), t) <=> OnDelay(list, t) /\ t \notin gone
           /\ InTime(list, w) => InTime(Off(list, gone), w)
<1> DEFINE l == Len(list)
<1>1. PICK f : Keeping(f, list, gone) /\ Off(list, gone) = f[l]
  BY KeepingIs
<1>2. l \in Nat /\ DOMAIN list = 1..l /\ \A n \in 1..l : list[n] \in Sleepers
  OBVIOUS
<1>3. /\ f[0] = <<>>
      /\ \A n \in 1..l : f[n] = IF list[n] \in gone THEN f[n - 1] ELSE Append(f[n - 1], list[n])
  <2>1. l \in Nat /\ Len(list) = l
    BY <1>2
  <2> QED BY <1>1, <2>1, KeepingAt
<1> HIDE DEF l
<1> DEFINE Good(n) ==
      /\ f[n] \in Seq(Sleepers)
      /\ \A i \in DOMAIN f[n] : \E k \in 1..n : list[k] = f[n][i] /\ list[k] \notin gone
      /\ \A k \in 1..n : list[k] \notin gone => \E i \in DOMAIN f[n] : f[n][i] = list[k]
      /\ InTime(list, w) => InTime(f[n], w)
           S == {n \in 0..l : Good(n)}
<1>4. 0 \in S
  <2>1. /\ f[0] \in Seq(Sleepers) /\ DOMAIN f[0] = {} /\ 0 \in 0..l
        /\ \A k \in 1..0 : FALSE
    BY <1>2, <1>3
  <2>2. Good(0)
    BY <2>1 DEF InTime
  <2> QED BY <2>1, <2>2
<1>5. ASSUME NEW n \in 0..l - 1, n \in S PROVE n + 1 \in S
  <2> DEFINE g == f[n]
             x == list[n + 1]
  <2>1. /\ n + 1 \in 1..l /\ (n + 1) - 1 = n /\ n + 1 \in 0..l /\ n \in Nat
        /\ \A k \in 1..n : k \in 1..n + 1 /\ k \in 1..l /\ k < n + 1
        /\ \A k \in 1..n + 1 : k = n + 1 \/ k \in 1..n
    BY <1>2
  <2>2. f[n + 1] = IF x \in gone THEN g ELSE Append(g, x)
    BY <1>3, <2>1
  <2>3. x \in Sleepers /\ n + 1 \in 1..n + 1
    BY <1>2, <2>1
  <2>4. /\ g \in Seq(Sleepers)
        /\ \A i \in DOMAIN g : \E k \in 1..n : list[k] = g[i] /\ list[k] \notin gone
        /\ \A k \in 1..n : list[k] \notin gone => \E i \in DOMAIN g : g[i] = list[k]
        /\ InTime(list, w) => InTime(g, w)
    BY <1>5
  <2>5. x = list[n + 1]
    OBVIOUS
  <2> HIDE DEF g, x
  <2>6. CASE x \in gone
    <3>1. f[n + 1] = g
      BY <2>2, <2>6
    <3>2. Good(n + 1)
      BY <2>1, <2>4, <2>5, <2>6, <3>1
    <3> QED BY <2>1, <3>2
  <2>7. CASE x \notin gone
    <3> DEFINE h == Append(g, x)
               m == Len(g)
    <3>1. /\ h \in Seq(Sleepers) /\ m \in Nat /\ DOMAIN g = 1..m /\ DOMAIN h = 1..m + 1
          /\ h[m + 1] = x /\ \A i \in 1..m : h[i] = g[i] /\ i \in 1..m + 1
          /\ \A i \in 1..m + 1 : i = m + 1 \/ i \in 1..m
          /\ m + 1 \in 1..m + 1
      BY <2>3, <2>4
    <3>2. f[n + 1] = h
      BY <2>2, <2>7
    <3> HIDE DEF h, m
    <3>3. \A i \in DOMAIN h : \E k \in 1..n + 1 : list[k] = h[i] /\ list[k] \notin gone
      BY <2>1, <2>3, <2>4, <2>5, <2>7, <3>1
    <3>4. \A k \in 1..n + 1 : list[k] \notin gone => \E i \in DOMAIN h : h[i] = list[k]
      BY <2>1, <2>4, <2>5, <3>1
    <3>5. ASSUME InTime(list, w) PROVE InTime(h, w)
      <4> SUFFICES ASSUME NEW i \in DOMAIN h, NEW j \in DOMAIN h, i < j PROVE w[h[i]] <= w[h[j]]
        BY DEF InTime
      <4>1. i \in 1..m
        BY <3>1
      <4>2. CASE j \in 1..m
        BY <2>4, <3>1, <3>5, <4>1, <4>2 DEF InTime
      <4>3. CASE j = m + 1
        <5>1. PICK k \in 1..n : list[k] = g[i]
          BY <2>4, <3>1, <4>1
        <5>2. k \in DOMAIN list /\ n + 1 \in DOMAIN list /\ k < n + 1
          BY <1>2, <2>1
        <5>3. w[list[k]] <= w[list[n + 1]]
          BY <3>5, <5>2 DEF InTime
        <5> QED BY <2>5, <3>1, <4>1, <4>3, <5>1, <5>3
      <4> QED BY <3>1, <4>2, <4>3
    <3>6. Good(n + 1)
      BY <3>1, <3>2, <3>3, <3>4, <3>5
    <3> QED BY <2>1, <3>6
  <2> QED BY <2>6, <2>7
<1> HIDE DEF S, Good
<1>6. l \in S
  <2>1. l \in 0..l
    BY <1>2
  <2> QED BY <1>2, <1>4, <1>5, <2>1, CountUp
<1>7. Good(l)
  BY <1>6 DEF S
<1> QED BY <1>1, <1>2, <1>7 DEF Good, OnDelay

\* A task is on two lists that are joined when it is on one.
LEMMA OnJoined ==
    ASSUME NEW c \in Seq(Sleepers), NEW d \in Seq(Sleepers), NEW t
    PROVE  OnDelay(c \o d, t) <=> OnDelay(c, t) \/ OnDelay(d, t)
<1>1. /\ Len(c \o d) = Len(c) + Len(d) /\ c \o d \in Seq(Sleepers)
      /\ \A k \in 1..Len(c) + Len(d) : (c \o d)[k] = IF k <= Len(c) THEN c[k] ELSE d[k - Len(c)]
  BY Joined
<1>2. /\ DOMAIN (c \o d) = 1..Len(c) + Len(d) /\ DOMAIN c = 1..Len(c) /\ DOMAIN d = 1..Len(d)
      /\ Len(c) \in Nat /\ Len(d) \in Nat
  BY <1>1
<1> DEFINE e == c \o d
<1> HIDE DEF e
<1>3. ASSUME NEW k \in DOMAIN e, e[k] = t PROVE OnDelay(c, t) \/ OnDelay(d, t)
  <2>1. CASE k <= Len(c)
    BY <1>1, <1>2, <1>3, <2>1 DEF OnDelay, e
  <2>2. CASE ~(k <= Len(c))
    <3>1. k - Len(c) \in DOMAIN d
      BY <1>1, <1>2, <1>3, <2>2 DEF e
    <3> QED BY <1>1, <1>2, <1>3, <2>2, <3>1 DEF OnDelay, e
  <2> QED BY <2>1, <2>2
<1>4. ASSUME OnDelay(c, t) PROVE OnDelay(e, t)
  <2>1. PICK k \in DOMAIN c : c[k] = t
    BY <1>4 DEF OnDelay
  <2>2. k \in DOMAIN e /\ e[k] = t
    BY <1>1, <1>2, <2>1 DEF e
  <2> QED BY <2>2 DEF OnDelay
<1>5. ASSUME OnDelay(d, t) PROVE OnDelay(e, t)
  <2>1. PICK k \in DOMAIN d : d[k] = t
    BY <1>5 DEF OnDelay
  <2>2. k + Len(c) \in DOMAIN e /\ e[k + Len(c)] = t
    <3>1. k + Len(c) \in 1..Len(c) + Len(d) /\ ~(k + Len(c) <= Len(c)) /\ (k + Len(c)) - Len(c) = k
      BY <1>2
    <3> QED BY <1>1, <1>2, <2>1, <3>1 DEF e
  <2> QED BY <2>2 DEF OnDelay
<1> QED BY <1>3, <1>4, <1>5 DEF OnDelay, e

\* The counter has at least one tick to count.
LEMMA TickWordIs == TickWord \in Nat /\ TickWord >= 2 /\ portMAX_DELAY \in Moments /\ portMAX_DELAY > 0
BY KernelTicksAssumption DEF portMAX_DELAY, Moments

\* A task put on a list in the order of the wake times.
LEMMA InsertedIs ==
    ASSUME NEW list \in Seq(Sleepers), NEW t \in Sleepers, NEW time \in Moments,
           wakeTime \in [Sleepers -> Moments]
    PROVE  /\ Inserted(list, t, time) \in Seq(Sleepers)
           /\ \A u : OnDelay(Inserted(list, t, time), u) <=> OnDelay(list, u) \/ u = t
           /\ InTime(list, wakeTime) /\ ~OnDelay(list, t)
              => InTime(Inserted(list, t, time), [wakeTime EXCEPT ![t] = time])
<1> DEFINE l == Len(list)
           Fits(k) == /\ \A j \in 1..k : wakeTime[list[j]] <= time
                      /\ k < l => wakeTime[list[k + 1]] > time
           T == {k \in 0..l : k < l => wakeTime[list[k + 1]] > time}
<1>1. /\ l \in Nat /\ DOMAIN list = 1..l
      /\ \A j \in 1..l : list[j] \in Sleepers /\ wakeTime[list[j]] \in Int
      /\ time \in Int
  BY DEF Moments
<1>2. \E k \in 0..l : Fits(k)
  <2>1. l \in T /\ T \subseteq Nat
    BY <1>1
  <2>2. PICK k \in T : \A y \in T : k <= y
    BY <2>1, Least
  <2> HIDE DEF l
  <2>3. ASSUME NEW j \in 1..k PROVE wakeTime[list[j]] <= time
    <3>1. k \in 0..l /\ j - 1 \in 0..l /\ j - 1 < l /\ (j - 1) + 1 = j /\ j \in 1..l /\ ~(k <= j - 1)
      BY <1>1, <2>2
    <3>2. j - 1 \notin T
      BY <2>2, <3>1
    <3>3. ~(wakeTime[list[j]] > time)
      BY <3>1, <3>2
    <3> QED BY <1>1, <3>1, <3>3
  <2> QED BY <2>2, <2>3
<1> DEFINE n == CHOOSE k \in 0..l : Fits(k)
           c == SubSeq(list, 1, n) \o <<t>> \o SubSeq(list, n + 1, l)
<1>3. n \in 0..l /\ Fits(n)
  BY <1>2
<1>4. Inserted(list, t, time) = c
  BY DEF Inserted
<1> HIDE DEF n
<1>5. c \in Seq(Sleepers) /\ IsPut(c, list, n, t)
  BY <1>3, PutIn
<1> HIDE DEF c, Fits
<1>6. /\ DOMAIN c = 1..l + 1
      /\ \A k \in 1..l + 1 : c[k] = IF k <= n THEN list[k] ELSE IF k = n + 1 THEN t ELSE list[k - 1]
  BY <1>1, <1>5 DEF IsPut
<1> HIDE DEF l
<1>7. ASSUME NEW u PROVE OnDelay(c, u) <=> OnDelay(list, u) \/ u = t
  <2>1. ASSUME NEW i \in DOMAIN c, c[i] = u PROVE OnDelay(list, u) \/ u = t
    <3>1. CASE i <= n
      <4>1. i \in DOMAIN list /\ list[i] = u
        BY <1>1, <1>3, <1>6, <2>1, <3>1
      <4> QED BY <4>1 DEF OnDelay
    <3>2. CASE i = n + 1
      BY <1>1, <1>3, <1>6, <2>1, <3>2
    <3>3. CASE i > n + 1
      <4>1. i - 1 \in DOMAIN list /\ list[i - 1] = u
        BY <1>1, <1>3, <1>6, <2>1, <3>3
      <4> QED BY <4>1 DEF OnDelay
    <3> QED BY <1>1, <1>3, <1>6, <3>1, <3>2, <3>3
  <2>2. ASSUME NEW i \in DOMAIN list, list[i] = u PROVE OnDelay(c, u)
    <3>1. CASE i <= n
      <4>1. i \in DOMAIN c /\ c[i] = u
        BY <1>1, <1>3, <1>6, <2>2, <3>1
      <4> QED BY <4>1 DEF OnDelay
    <3>2. CASE i > n
      <4>1. i + 1 \in DOMAIN c /\ c[i + 1] = u
        <5>1. i + 1 \in 1..l + 1 /\ ~(i + 1 <= n) /\ i + 1 # n + 1 /\ (i + 1) - 1 = i
          BY <1>1, <1>3, <3>2
        <5> QED BY <1>6, <2>2, <5>1
      <4> QED BY <4>1 DEF OnDelay
    <3> QED BY <1>1, <1>3, <3>1, <3>2
  <2>3. OnDelay(c, t)
    <3>1. n + 1 \in DOMAIN c /\ c[n + 1] = t
      <4>1. n + 1 \in 1..l + 1 /\ ~(n + 1 <= n)
        BY <1>1, <1>3
      <4> QED BY <1>6, <4>1
    <3> QED BY <3>1 DEF OnDelay
  <2> QED BY <2>1, <2>2, <2>3 DEF OnDelay
<1>8. ASSUME InTime(list, wakeTime), ~OnDelay(list, t)
      PROVE  InTime(c, [wakeTime EXCEPT ![t] = time])
  <2> DEFINE w == [wakeTime EXCEPT ![t] = time]
  <2>1. w[t] = time /\ \A i \in 1..l : w[list[i]] = wakeTime[list[i]]
    BY <1>1, <1>8 DEF OnDelay
  <2> HIDE DEF w
  <2>2. /\ \A i, j \in 1..l : i < j => wakeTime[list[i]] <= wakeTime[list[j]]
        /\ \A i \in 1..n : wakeTime[list[i]] <= time
        /\ n < l => wakeTime[list[n + 1]] > time
    BY <1>1, <1>3, <1>8 DEF InTime, Fits
  <2>3. \A i \in 1..l : i > n => wakeTime[list[i]] >= time
    <3> SUFFICES ASSUME NEW i \in 1..l, i > n PROVE wakeTime[list[i]] >= time
      OBVIOUS
    <3>1. n + 1 \in 1..l /\ (i = n + 1 \/ n + 1 < i) /\ n < l
      BY <1>1, <1>3
    <3>2. wakeTime[list[n + 1]] > time /\ wakeTime[list[n + 1]] \in Int /\ wakeTime[list[i]] \in Int
      BY <1>1, <2>2, <3>1
    <3>3. n + 1 < i => wakeTime[list[n + 1]] <= wakeTime[list[i]]
      BY <2>2, <3>1
    <3> QED BY <1>1, <3>1, <3>2, <3>3
  <2> SUFFICES ASSUME NEW i \in 1..l + 1, NEW j \in 1..l + 1, i < j PROVE w[c[i]] <= w[c[j]]
    BY <1>6 DEF InTime, w
  <2>4. CASE j <= n
    <3>1. i <= n /\ i \in 1..l /\ j \in 1..l
      BY <1>1, <1>3, <2>4
    <3> QED BY <1>6, <2>1, <2>2, <2>4, <3>1
  <2>5. CASE j = n + 1
    <3>1. i <= n /\ i \in 1..l /\ i \in 1..n /\ ~(j <= n)
      BY <1>1, <1>3, <2>5
    <3> QED BY <1>6, <2>1, <2>2, <2>5, <3>1
  <2>6. CASE j > n + 1
    <3>1. j - 1 \in 1..l /\ j - 1 > n /\ ~(j <= n) /\ j # n + 1
      BY <1>1, <1>3, <2>6
    <3>2. w[c[j]] = wakeTime[list[j - 1]]
      BY <1>6, <2>1, <3>1
    <3>3. CASE i <= n
      <4>1. i \in 1..l /\ i < j - 1
        BY <1>1, <1>3, <2>6, <3>3
      <4> QED BY <1>6, <2>1, <2>2, <3>1, <3>2, <3>3, <4>1
    <3>4. CASE i = n + 1
      <4>1. ~(i <= n)
        BY <1>1, <1>3, <3>4
      <4>2. w[c[i]] = time
        BY <1>6, <2>1, <3>4, <4>1
      <4>3. wakeTime[list[j - 1]] >= time /\ wakeTime[list[j - 1]] \in Int
        BY <1>1, <2>3, <3>1
      <4> QED BY <1>1, <3>2, <4>2, <4>3
    <3>5. CASE i > n + 1
      <4>1. i - 1 \in 1..l /\ i - 1 < j - 1 /\ ~(i <= n) /\ i # n + 1
        BY <1>1, <1>3, <3>5
      <4>2. w[c[i]] = wakeTime[list[i - 1]]
        BY <1>6, <2>1, <4>1
      <4> QED BY <2>2, <3>1, <3>2, <4>1, <4>2
    <3> QED BY <1>1, <1>3, <3>3, <3>4, <3>5
  <2> QED BY <1>1, <1>3, <2>4, <2>5, <2>6
<1> QED BY <1>4, <1>5, <1>7, <1>8

\* Nobody on the list is to be woken before its head.
LEMMA HeadTimeIs ==
    ASSUME NEW list \in Seq(Sleepers), wakeTime \in [Sleepers -> Moments], InTime(list, wakeTime)
    PROVE  /\ HeadTime(list) \in Moments
           /\ \A i \in DOMAIN list : HeadTime(list) <= wakeTime[list[i]]
<1>1. CASE list = <<>>
  <2>1. DOMAIN list = {}
    BY <1>1
  <2> QED BY <1>1, <2>1, TickWordIs DEF HeadTime
<1>2. CASE list # <<>>
  <2>1. /\ 1 \in DOMAIN list /\ Head(list) = list[1] /\ DOMAIN list = 1..Len(list) /\ Len(list) \in Nat
        /\ \A i \in DOMAIN list : list[i] \in Sleepers /\ wakeTime[list[i]] \in Int
    BY <1>2 DEF Moments
  <2>2. HeadTime(list) = wakeTime[list[1]]
    BY <1>2, <2>1 DEF HeadTime
  <2>3. ASSUME NEW i \in DOMAIN list PROVE wakeTime[list[1]] <= wakeTime[list[i]]
    <3>1. i = 1 \/ 1 < i
      BY <2>1
    <3> QED BY <2>1, <3>1 DEF InTime
  <2>4. wakeTime[list[1]] \in Moments
    BY <2>1
  <2> QED BY <2>2, <2>3, <2>4
<1> QED BY <1>1, <1>2

\* The tasks woken are those whose time has come: the list is in order.
LEMMA WokenIs ==
    ASSUME NEW s, s.list \in Seq(Sleepers), s.now \in Moments,
           wakeTime \in [Sleepers -> Moments], InTime(s.list, wakeTime)
    PROVE  \A t : t \in Woken(s) <=> OnDelay(s.list, t) /\ s.now >= wakeTime[t]
<1> DEFINE list == s.list
           now == s.now
<1>1. /\ \A i \in DOMAIN list : list[i] \in Sleepers /\ wakeTime[list[i]] \in Int
      /\ now \in Int /\ DOMAIN list = 1..Len(list) /\ Len(list) \in Nat
      /\ \A i, j \in DOMAIN list : i < j => wakeTime[list[i]] <= wakeTime[list[j]]
  BY DEF Moments, InTime
<1>2. Woken(s) = {list[i] : i \in {k \in DOMAIN list : \A j \in 1..k : now >= wakeTime[list[j]]}}
  BY DEF Woken
<1> HIDE DEF list, now
<1>3. ASSUME NEW k \in DOMAIN list
      PROVE  (\A j \in 1..k : now >= wakeTime[list[j]]) <=> now >= wakeTime[list[k]]
  <2>1. k \in 1..k
    BY <1>1
  <2>2. ASSUME now >= wakeTime[list[k]], NEW j \in 1..k PROVE now >= wakeTime[list[j]]
    <3>1. j \in DOMAIN list /\ (j = k \/ j < k)
      BY <1>1
    <3>2. wakeTime[list[j]] <= wakeTime[list[k]] /\ wakeTime[list[j]] \in Int /\ wakeTime[list[k]] \in Int
      BY <1>1, <3>1
    <3> QED BY <1>1, <2>2, <3>2
  <2> QED BY <2>1, <2>2
<1>4. \A t : OnDelay(s.list, t) <=> \E i \in DOMAIN list : list[i] = t
  BY DEF OnDelay, list
<1> QED BY <1>2, <1>3, <1>4 DEF now

\* The record that a tick works on.
TickStates == [now : Moments, rounds : Nat, next : Moments,
               list : Seq(Sleepers), overflow : Seq(Sleepers), woken : SUBSET Sleepers]

\* What a tick finds, and leaves.
TimesInOrder(s) ==
    /\ s \in TickStates /\ InTime(s.list, wakeTime) /\ InTime(s.overflow, wakeTime)
    /\ Ahead(s.list, s.now, s.next)

\* The visit of the list by a tick.
Visited(s) == LET left == Off(s.list, Woken(s))
              IN  IF s.now >= s.next
                  THEN [s EXCEPT !.list = left, !.next = HeadTime(left), !.woken = @ \cup Woken(s)]
                  ELSE s

\* A visit leaves those whose time is still to come.
LEMMA VisitIs ==
    ASSUME NEW s, s \in TickStates, InTime(s.list, wakeTime), InTime(s.overflow, wakeTime),
           wakeTime \in [Sleepers -> Moments],
           \A i \in DOMAIN s.list : s.next <= wakeTime[s.list[i]],
           NEW r, r = Visited(s)
    PROVE  /\ TimesInOrder(r) /\ r.now = s.now /\ r.rounds = s.rounds /\ r.overflow = s.overflow
           /\ \A t : OnDelay(r.list, t) <=> OnDelay(s.list, t) /\ ~(s.now >= wakeTime[t])
           /\ \A t : t \in r.woken <=> t \in s.woken \/ (OnDelay(s.list, t) /\ s.now >= wakeTime[t])
<1> DEFINE left == Off(s.list, Woken(s))
<1>0. r = IF s.now >= s.next
          THEN [s EXCEPT !.list = left, !.next = HeadTime(left), !.woken = @ \cup Woken(s)]
          ELSE s
  BY DEF Visited
<1>1. /\ s.now \in Moments /\ s.rounds \in Nat /\ s.next \in Moments /\ s.list \in Seq(Sleepers)
      /\ s.overflow \in Seq(Sleepers) /\ s.woken \subseteq Sleepers
  BY DEF TickStates
<1>2. \A t : t \in Woken(s) <=> OnDelay(s.list, t) /\ s.now >= wakeTime[t]
  BY <1>1, WokenIs
<1>3. /\ left \in Seq(Sleepers) /\ InTime(left, wakeTime)
      /\ \A t : OnDelay(left, t) <=> OnDelay(s.list, t) /\ t \notin Woken(s)
  BY <1>1, OffIs
<1>4. /\ \A i \in DOMAIN s.list : s.list[i] \in Sleepers /\ OnDelay(s.list, s.list[i])
      /\ \A i \in DOMAIN left : left[i] \in Sleepers /\ OnDelay(left, left[i])
      /\ \A t : OnDelay(s.list, t) => t \in Sleepers /\ \E i \in DOMAIN s.list : s.list[i] = t
  BY <1>1, <1>3 DEF OnDelay
<1>5. Woken(s) \subseteq Sleepers
  BY <1>2, <1>4
<1>6. CASE s.now >= s.next
  <2>1. /\ r.now = s.now /\ r.rounds = s.rounds /\ r.next = HeadTime(left) /\ r.list = left
        /\ r.overflow = s.overflow /\ r.woken = s.woken \cup Woken(s)
    BY <1>0, <1>6 DEF TickStates
  <2>2. HeadTime(left) \in Moments /\ \A i \in DOMAIN left : HeadTime(left) <= wakeTime[left[i]]
    BY <1>3, HeadTimeIs
  <2>3. r \in TickStates
    <3>1. s.woken \cup Woken(s) \in SUBSET Sleepers
      BY <1>1, <1>5
    <3> QED BY <1>0, <1>3, <1>6, <2>2, <3>1 DEF TickStates
  <2>4. ASSUME NEW i \in DOMAIN left PROVE wakeTime[left[i]] > s.now
    <3>1. ~(s.now >= wakeTime[left[i]]) /\ wakeTime[left[i]] \in Int /\ s.now \in Int
      BY <1>1, <1>2, <1>3, <1>4 DEF Moments
    <3> QED BY <3>1
  <2>5. TimesInOrder(r)
    BY <1>3, <2>1, <2>2, <2>3, <2>4 DEF TimesInOrder, Ahead
  <2> QED BY <1>2, <1>3, <2>1, <2>5
<1>7. CASE ~(s.now >= s.next)
  <2>1. ASSUME NEW i \in DOMAIN s.list PROVE wakeTime[s.list[i]] > s.now
    <3>1. s.next <= wakeTime[s.list[i]] /\ wakeTime[s.list[i]] \in Int /\ s.now \in Int /\ s.next \in Int
      BY <1>1, <1>4 DEF Moments
    <3> QED BY <1>7, <3>1
  <2>2. ASSUME NEW t, OnDelay(s.list, t) PROVE ~(s.now >= wakeTime[t])
    <3>1. PICK i \in DOMAIN s.list : s.list[i] = t
      BY <2>2 DEF OnDelay
    <3>2. wakeTime[t] > s.now /\ wakeTime[t] \in Int /\ s.now \in Int
      BY <1>1, <1>4, <2>1, <3>1 DEF Moments
    <3> QED BY <3>2
  <2>3. TimesInOrder(r)
    BY <1>0, <1>7, <2>1 DEF TimesInOrder, Ahead
  <2> QED BY <1>0, <1>7, <2>2, <2>3
<1> QED BY <1>6, <1>7

\* One tick.
LEMMA AdvancedIs ==
    ASSUME NEW s, TimesInOrder(s), wakeTime \in [Sleepers -> Moments],
           NEW r, r = Advanced(s)
    PROVE  /\ TimesInOrder(r)
           /\ s.now # TickWord - 1 =>
                /\ r.now = s.now + 1 /\ r.rounds = s.rounds
                /\ \A t : OnDelay(r.overflow, t) <=> OnDelay(s.overflow, t)
                /\ \A t : OnDelay(r.list, t) <=> OnDelay(s.list, t) /\ ~(s.now + 1 >= wakeTime[t])
                /\ \A t : t \in r.woken <=> t \in s.woken \/ (OnDelay(s.list, t) /\ s.now + 1 >= wakeTime[t])
           /\ s.now = TickWord - 1 =>
                /\ r.now = 0 /\ r.rounds = s.rounds + 1
                /\ \A t : ~OnDelay(s.list, t) /\ ~OnDelay(r.overflow, t)
                /\ \A t : OnDelay(r.list, t) <=> OnDelay(s.overflow, t) /\ ~(0 >= wakeTime[t])
                /\ \A t : t \in r.woken <=> t \in s.woken \/ (OnDelay(s.overflow, t) /\ 0 >= wakeTime[t])
<1> DEFINE plus == [s EXCEPT !.now = (@ + 1) % TickWord]
           turned == IF plus.now = 0 THEN Switched(plus) ELSE plus
<1>1. /\ s.now \in Moments /\ s.rounds \in Nat /\ s.next \in Moments /\ s.list \in Seq(Sleepers)
      /\ s.overflow \in Seq(Sleepers) /\ s.woken \subseteq Sleepers /\ s \in TickStates
      /\ InTime(s.list, wakeTime) /\ InTime(s.overflow, wakeTime) /\ Ahead(s.list, s.now, s.next)
  BY DEF TickStates, TimesInOrder
<1>2. r = Visited(turned)
  BY DEF Advanced, Visited
<1>3. (s.now + 1) % TickWord = IF s.now = TickWord - 1 THEN 0 ELSE s.now + 1
  <2>1. TickWord \in Nat \ {0} /\ s.now + 1 \in 0..2 * TickWord /\ s.now \in Int /\ s.now <= TickWord - 1
    BY <1>1, TickWordIs DEF Moments
  <2>2. (s.now + 1) % TickWord = IF s.now + 1 < TickWord THEN s.now + 1
                                 ELSE IF s.now + 1 < 2 * TickWord THEN (s.now + 1) - TickWord ELSE 0
    BY <2>1, Round
  <2> QED BY <2>1, <2>2
<1>4. CASE s.now # TickWord - 1
  <2>1. /\ plus \in TickStates /\ plus.now = s.now + 1 /\ plus.rounds = s.rounds /\ plus.next = s.next
        /\ plus.list = s.list /\ plus.overflow = s.overflow /\ plus.woken = s.woken
    <3>1. (s.now + 1) % TickWord = s.now + 1 /\ s.now + 1 \in Moments
      BY <1>1, <1>3, <1>4, TickWordIs DEF Moments
    <3> QED BY <1>1, <3>1 DEF TickStates
  <2>2. turned = plus
    <3>1. plus.now # 0
      BY <1>1, <2>1 DEF Moments
    <3> QED BY <3>1
  <2> HIDE DEF plus, turned
  <2>3. \A i \in DOMAIN turned.list : turned.next <= wakeTime[turned.list[i]]
    BY <1>1, <2>1, <2>2 DEF Ahead
  <2>4. turned \in TickStates /\ InTime(turned.list, wakeTime) /\ InTime(turned.overflow, wakeTime)
    BY <1>1, <2>1, <2>2
  <2>5. /\ TimesInOrder(r) /\ r.now = turned.now /\ r.rounds = turned.rounds /\ r.overflow = turned.overflow
        /\ \A t : OnDelay(r.list, t) <=> OnDelay(turned.list, t) /\ ~(turned.now >= wakeTime[t])
        /\ \A t : t \in r.woken <=> t \in turned.woken \/ (OnDelay(turned.list, t) /\ turned.now >= wakeTime[t])
    BY <1>2, <2>3, <2>4, VisitIs
  <2> QED BY <1>4, <2>1, <2>2, <2>5
<1>5. CASE s.now = TickWord - 1
  <2>1. /\ plus \in TickStates /\ plus.now = 0 /\ plus.rounds = s.rounds
        /\ plus.list = s.list /\ plus.overflow = s.overflow /\ plus.woken = s.woken
    <3>1. (s.now + 1) % TickWord = 0 /\ 0 \in Moments
      BY <1>3, <1>5, TickWordIs DEF Moments
    <3> QED BY <1>1, <3>1 DEF TickStates
  <2> HIDE DEF plus
  <2>2. HeadTime(s.overflow) \in Moments
        /\ \A i \in DOMAIN s.overflow : HeadTime(s.overflow) <= wakeTime[s.overflow[i]]
    BY <1>1, HeadTimeIs
  <2>3. /\ turned \in TickStates /\ turned.now = 0 /\ turned.rounds = s.rounds + 1
        /\ turned.next = HeadTime(s.overflow)
        /\ turned.list = s.overflow /\ turned.overflow = s.list /\ turned.woken = s.woken
    <3>1. turned = [plus EXCEPT !.list = plus.overflow, !.overflow = plus.list, !.rounds = @ + 1,
                                !.next = HeadTime(plus.overflow)]
      BY <2>1 DEF Switched
    <3>2. s.rounds + 1 \in Nat
      BY <1>1
    <3>3. /\ turned.now = 0 /\ turned.rounds = s.rounds + 1 /\ turned.next = HeadTime(s.overflow)
          /\ turned.list = s.overflow /\ turned.overflow = s.list /\ turned.woken = s.woken
      BY <2>1, <3>1 DEF TickStates
    <3>4. turned \in TickStates
      <4>1. turned = [now |-> 0, rounds |-> s.rounds + 1, next |-> HeadTime(s.overflow),
                      list |-> s.overflow, overflow |-> s.list, woken |-> s.woken]
        BY <2>1, <3>1 DEF TickStates
      <4>2. 0 \in Moments
        BY TickWordIs DEF Moments
      <4> QED BY <1>1, <2>2, <3>2, <4>1, <4>2 DEF TickStates
    <3> QED BY <3>3, <3>4
  <2> HIDE DEF turned
  <2>4. InTime(turned.list, wakeTime) /\ InTime(turned.overflow, wakeTime)
        /\ \A i \in DOMAIN turned.list : turned.next <= wakeTime[turned.list[i]]
    BY <1>1, <2>2, <2>3
  <2>5. /\ TimesInOrder(r) /\ r.now = turned.now /\ r.rounds = turned.rounds /\ r.overflow = turned.overflow
        /\ \A t : OnDelay(r.list, t) <=> OnDelay(turned.list, t) /\ ~(turned.now >= wakeTime[t])
        /\ \A t : t \in r.woken <=> t \in turned.woken \/ (OnDelay(turned.list, t) /\ turned.now >= wakeTime[t])
    BY <1>2, <2>3, <2>4, VisitIs
  <2>6. ASSUME NEW i \in DOMAIN s.list PROVE FALSE
    <3>1. s.list[i] \in Sleepers
      BY <1>1
    <3>2. wakeTime[s.list[i]] \in Moments /\ wakeTime[s.list[i]] > s.now
      BY <1>1, <3>1 DEF Ahead
    <3> QED BY <1>5, <3>2, TickWordIs DEF Moments
  <2>7. \A t : ~OnDelay(s.list, t)
    BY <2>6 DEF OnDelay
  <2> QED BY <1>5, <2>3, <2>5, <2>7
<1> QED BY <1>4, <1>5

\* What holds after i of the ticks that start from now, without the tasks that are gone:
\* who is on a list, and whose time has come among those who have left.
AfterTicks(s, i, gone) ==
    /\ TimesInOrder(s) /\ \A t : ~(OnDelay(s.list, t) /\ OnDelay(s.overflow, t))
    /\ s.rounds * TickWord + s.now = Clock + i
    /\ \A t : OnDelay(s.list, t) =>
          /\ t \notin gone
          /\ \/ OnDelay(pxDelayedTaskList, t) /\ s.now = xTickCount + i
             \/ OnDelay(pxOverflowDelayedTaskList, t) /\ s.now + TickWord = xTickCount + i
    /\ \A t : OnDelay(s.overflow, t) =>
          t \notin gone /\ OnDelay(pxOverflowDelayedTaskList, t) /\ s.now = xTickCount + i
    /\ \A t : t \notin gone /\ ~OnDelay(s.list, t) /\ ~OnDelay(s.overflow, t) =>
          /\ OnDelay(pxDelayedTaskList, t) => wakeTime[t] <= xTickCount + i /\ t \in s.woken
          /\ OnDelay(pxOverflowDelayedTaskList, t) => TickWord + wakeTime[t] <= xTickCount + i /\ t \in s.woken

\* One tick: who stays, who is woken, and that the counter moves by one.
LEMMA OneTick ==
    ASSUME ClockTyped, ListsInTime, NEW s, NEW i \in Nat, NEW gone, AfterTicks(s, i, gone)
    PROVE  AfterTicks(Advanced(s), i + 1, gone)
<1> DEFINE r == Advanced(s)
           D(t) == OnDelay(pxDelayedTaskList, t)
           O(t) == OnDelay(pxOverflowDelayedTaskList, t)
           L(t) == OnDelay(s.list, t)
           V(t) == OnDelay(s.overflow, t)
<1>1. /\ xTickCount \in Int /\ xNumOfOverflows \in Nat /\ TickWord \in Int /\ TickWord >= 2
      /\ Clock \in Int
      /\ \A t : D(t) => wakeTime[t] \in Int /\ wakeTime[t] >= 0
      /\ \A t : O(t) => wakeTime[t] \in Int /\ wakeTime[t] >= 0
      /\ \A t : ~(D(t) /\ O(t))
  <2>1. \A t : D(t) \/ O(t) => t \in Sleepers
    BY DEF ClockTyped, OnDelay
  <2>2. \A t \in Sleepers : wakeTime[t] \in Int /\ wakeTime[t] >= 0
    BY DEF ClockTyped, Moments
  <2>3. \A t \in Sleepers : ~(D(t) /\ O(t))
    BY DEF ListsInTime
  <2> HIDE DEF D, O
  <2> QED BY <2>1, <2>2, <2>3, TickWordIs DEF ClockTyped, Moments, Clock
<1>2. wakeTime \in [Sleepers -> Moments] /\ TimesInOrder(s)
  BY DEF ClockTyped, AfterTicks
<1>3. /\ TimesInOrder(r)
      /\ s.now # TickWord - 1 =>
           /\ r.now = s.now + 1 /\ r.rounds = s.rounds
           /\ \A t : OnDelay(r.overflow, t) <=> V(t)
           /\ \A t : OnDelay(r.list, t) <=> L(t) /\ ~(s.now + 1 >= wakeTime[t])
           /\ \A t : t \in r.woken <=> t \in s.woken \/ (L(t) /\ s.now + 1 >= wakeTime[t])
      /\ s.now = TickWord - 1 =>
           /\ r.now = 0 /\ r.rounds = s.rounds + 1
           /\ \A t : ~L(t) /\ ~OnDelay(r.overflow, t)
           /\ \A t : OnDelay(r.list, t) <=> V(t) /\ ~(0 >= wakeTime[t])
           /\ \A t : t \in r.woken <=> t \in s.woken \/ (V(t) /\ 0 >= wakeTime[t])
  BY <1>2, AdvancedIs
<1>4. s.now \in Int /\ s.rounds \in Nat
  BY <1>2 DEF TimesInOrder, TickStates, Moments
<1>5. /\ \A t : ~(L(t) /\ V(t))
      /\ s.rounds * TickWord + s.now = Clock + i
      /\ \A t : L(t) => t \notin gone /\ ((D(t) /\ s.now = xTickCount + i) \/ (O(t) /\ s.now + TickWord = xTickCount + i))
      /\ \A t : V(t) => t \notin gone /\ O(t) /\ s.now = xTickCount + i
      /\ \A t : t \notin gone /\ ~L(t) /\ ~V(t) =>
            /\ D(t) => wakeTime[t] <= xTickCount + i /\ t \in s.woken
            /\ O(t) => TickWord + wakeTime[t] <= xTickCount + i /\ t \in s.woken
  BY DEF AfterTicks
<1> DEFINE A(t) == OnDelay(r.list, t)
           B(t) == OnDelay(r.overflow, t)
<1> HIDE DEF r, D, O, L, V
<1>6. r.rounds * TickWord + r.now = Clock + (i + 1)
  <2>1. CASE s.now # TickWord - 1
    <3>1. s.rounds * TickWord \in Int
      BY <1>1, <1>4
    <3> QED BY <1>1, <1>3, <1>4, <1>5, <2>1, <3>1
  <2>2. CASE s.now = TickWord - 1
    <3>1. (s.rounds + 1) * TickWord = s.rounds * TickWord + TickWord /\ s.rounds * TickWord \in Int
      BY <1>1, <1>4
    <3> QED BY <1>1, <1>3, <1>4, <1>5, <2>2, <3>1
  <2> QED BY <2>1, <2>2
<1>7. ASSUME NEW t
      PROVE  /\ ~(A(t) /\ B(t))
             /\ A(t) => /\ t \notin gone
                        /\ \/ D(t) /\ r.now = xTickCount + (i + 1)
                           \/ O(t) /\ r.now + TickWord = xTickCount + (i + 1)
             /\ B(t) => t \notin gone /\ O(t) /\ r.now = xTickCount + (i + 1)
             /\ t \notin gone /\ ~A(t) /\ ~B(t) =>
                  /\ D(t) => wakeTime[t] <= xTickCount + (i + 1) /\ t \in r.woken
                  /\ O(t) => TickWord + wakeTime[t] <= xTickCount + (i + 1) /\ t \in r.woken
  <2>1. /\ ~(L(t) /\ V(t)) /\ ~(D(t) /\ O(t))
        /\ L(t) => t \notin gone /\ ((D(t) /\ s.now = xTickCount + i) \/ (O(t) /\ s.now + TickWord = xTickCount + i))
        /\ V(t) => t \notin gone /\ O(t) /\ s.now = xTickCount + i
        /\ t \notin gone /\ ~L(t) /\ ~V(t) =>
              /\ D(t) => wakeTime[t] <= xTickCount + i /\ t \in s.woken
              /\ O(t) => TickWord + wakeTime[t] <= xTickCount + i /\ t \in s.woken
        /\ D(t) => wakeTime[t] \in Int
        /\ O(t) => wakeTime[t] \in Int
    BY <1>1, <1>5
  <2>2. CASE s.now # TickWord - 1
    <3>1. /\ r.now = s.now + 1
          /\ B(t) <=> V(t)
          /\ A(t) <=> L(t) /\ ~(s.now + 1 >= wakeTime[t])
          /\ t \in r.woken <=> t \in s.woken \/ (L(t) /\ s.now + 1 >= wakeTime[t])
      BY <1>3, <2>2
    <3> HIDE DEF A, B
    <3> QED BY <1>1, <1>4, <2>1, <3>1
  <2>3. CASE s.now = TickWord - 1
    <3>1. /\ r.now = 0
          /\ ~L(t) /\ ~B(t)
          /\ A(t) <=> V(t) /\ ~(0 >= wakeTime[t])
          /\ t \in r.woken <=> t \in s.woken \/ (V(t) /\ 0 >= wakeTime[t])
      BY <1>3, <2>3
    <3> HIDE DEF A, B
    <3> QED BY <1>1, <1>4, <2>1, <2>3, <3>1
  <2> QED BY <2>2, <2>3
<1> QED BY <1>3, <1>6, <1>7 DEF AfterTicks, r, D, O

\* f is the record after each of n ticks.
Ticking(f, n, before) == f = [i \in 0..n |-> IF i = 0 THEN before ELSE Advanced(f[i - 1])]

\* Any number of them, by induction.
LEMMA TicksAre ==
    ASSUME ClockTyped, ListsInTime, NEW n \in Nat, NEW gone, NEW before, AfterTicks(before, 0, gone)
    PROVE  \A f : Ticking(f, n, before) => AfterTicks(f[n], n, gone)
<1> SUFFICES ASSUME NEW f, Ticking(f, n, before) PROVE AfterTicks(f[n], n, gone)
  OBVIOUS
<1> DEFINE S == {i \in 0..n : AfterTicks(f[i], i, gone)}
           Step(i) == IF i = 0 THEN before ELSE Advanced(f[i - 1])
<1>1. f = [i \in 0..n |-> Step(i)]
  BY DEF Ticking
<1> HIDE DEF Step
<1>2. \A i \in 0..n : f[i] = Step(i)
  BY <1>1
<1>3. 0 \in S
  <2>1. 0 \in 0..n /\ f[0] = before
    BY <1>2 DEF Step
  <2> QED BY <2>1
<1>4. ASSUME NEW i \in 0..n - 1, i \in S PROVE i + 1 \in S
  <2>1. i \in Nat /\ i + 1 \in 0..n /\ i + 1 # 0 /\ (i + 1) - 1 = i
    OBVIOUS
  <2>2. f[i + 1] = Advanced(f[i])
    BY <1>2, <2>1 DEF Step
  <2>3. AfterTicks(f[i], i, gone)
    BY <1>4
  <2>4. AfterTicks(Advanced(f[i]), i + 1, gone)
    BY <2>1, <2>3, OneTick
  <2> QED BY <2>1, <2>2, <2>4
<1> HIDE DEF S
<1>5. n \in S
  <2>1. n \in 0..n
    OBVIOUS
  <2> QED BY <1>3, <1>4, <2>1, CountUp
<1> QED BY <1>5 DEF S

\* There is such a function.
LEMMA TickingExists ==
    ASSUME wakeTime \in [Sleepers -> Moments], NEW n \in Nat, NEW before, TimesInOrder(before)
    PROVE  \E f : Ticking(f, n, before)
<1> DEFINE V == {s \in TickStates : TimesInOrder(s)}
           G == [p \in (1..n) \X V |-> Advanced(p[2])]
<1>1. before \in V
  BY DEF TimesInOrder
<1>2. \A s \in V : Advanced(s) \in V
  <2> SUFFICES ASSUME NEW s \in V PROVE Advanced(s) \in V
    OBVIOUS
  <2>1. TimesInOrder(s)
    OBVIOUS
  <2>2. TimesInOrder(Advanced(s))
    BY <2>1, AdvancedIs
  <2> QED BY <2>2 DEF TimesInOrder
<1> HIDE DEF V
<1>3. IsRule(G, n, V) /\ \A k \in 1..n, s \in V : G[<<k, s>>] = Advanced(s)
  BY <1>2 DEF IsRule
<1> HIDE DEF G
<1>4. PICK f : Recurs(f, n, V, before, G)
  BY <1>1, <1>3, Recursion
<1>5. f \in [0..n -> V] /\ f[0] = before /\ \A k \in 1..n : f[k] = G[<<k, f[k - 1]>>]
  BY <1>4 DEF Recurs
<1>6. ASSUME NEW k \in 0..n PROVE f[k] = IF k = 0 THEN before ELSE Advanced(f[k - 1])
  <2>1. CASE k = 0
    BY <1>5, <2>1
  <2>2. CASE k # 0
    <3>1. k \in 1..n /\ k - 1 \in 0..n
      BY <2>2
    <3>2. f[k - 1] \in V
      BY <1>5, <3>1
    <3> QED BY <1>3, <1>5, <2>2, <3>1, <3>2
  <2> QED BY <2>1, <2>2
<1>7. f = [k \in 0..n |-> IF k = 0 THEN before ELSE Advanced(f[k - 1])]
  BY <1>5, <1>6
<1> QED BY <1>7 DEF Ticking

\* What the ticks leave, without the tasks that were gone before them.
LEMMA TickIs ==
    ASSUME ClockTyped, ListsInTime, NEW n \in Nat, NEW gone, NEW next \in Moments,
           Ahead(Off(pxDelayedTaskList, gone), xTickCount, next), Tick(n, gone, next)
    PROVE  \E s : /\ AfterTicks(s, n, gone)
                  /\ xTickCount' = s.now /\ xNumOfOverflows' = s.rounds /\ xNextTaskUnblockTime' = s.next
                  /\ pxDelayedTaskList' = s.list /\ pxOverflowDelayedTaskList' = s.overflow
                  /\ awaited' = awaited \ (s.woken \cup gone)
                  /\ xSuspendedTaskList' = xSuspendedTaskList \ gone /\ UNCHANGED wakeTime
<1> DEFINE before == [now |-> xTickCount, rounds |-> xNumOfOverflows, next |-> next,
                      list |-> Off(pxDelayedTaskList, gone),
                      overflow |-> Off(pxOverflowDelayedTaskList, gone), woken |-> {}]
           ticked == CHOOSE f : Ticking(f, n, before)
           s == ticked[n]
<1>0. /\ before.now = xTickCount /\ before.rounds = xNumOfOverflows /\ before.next = next
      /\ before.list = Off(pxDelayedTaskList, gone) /\ before.overflow = Off(pxOverflowDelayedTaskList, gone)
      /\ before.woken = {}
  OBVIOUS
<1>1. /\ wakeTime \in [Sleepers -> Moments] /\ pxDelayedTaskList \in Seq(Sleepers)
      /\ pxOverflowDelayedTaskList \in Seq(Sleepers) /\ xTickCount \in Moments /\ xNumOfOverflows \in Nat
      /\ InTime(pxDelayedTaskList, wakeTime) /\ InTime(pxOverflowDelayedTaskList, wakeTime)
  BY DEF ClockTyped, ListsInTime
<1>2. /\ Off(pxDelayedTaskList, gone) \in Seq(Sleepers)
      /\ \A t : OnDelay(Off(pxDelayedTaskList, gone), t) <=> OnDelay(pxDelayedTaskList, t) /\ t \notin gone
      /\ InTime(Off(pxDelayedTaskList, gone), wakeTime)
  BY <1>1, OffIs
<1>3. /\ Off(pxOverflowDelayedTaskList, gone) \in Seq(Sleepers)
      /\ \A t : OnDelay(Off(pxOverflowDelayedTaskList, gone), t)
                  <=> OnDelay(pxOverflowDelayedTaskList, t) /\ t \notin gone
      /\ InTime(Off(pxOverflowDelayedTaskList, gone), wakeTime)
  BY <1>1, OffIs
<1>4. before \in TickStates
  BY <1>1, <1>2, <1>3 DEF TickStates
<1> HIDE DEF before
<1>5. TimesInOrder(before)
  BY <1>0, <1>2, <1>3, <1>4 DEF TimesInOrder
<1>6. AfterTicks(before, 0, gone)
  <2>1. \A t : OnDelay(pxDelayedTaskList, t) => t \in Sleepers /\ ~OnDelay(pxOverflowDelayedTaskList, t)
    BY <1>1 DEF ListsInTime, OnDelay
  <2>2. xTickCount + 0 = xTickCount /\ before.rounds * TickWord + before.now = Clock + 0
    BY <1>0, <1>1, TickWordIs DEF Clock, Moments
  <2>3. /\ \A t : OnDelay(before.list, t) <=> OnDelay(pxDelayedTaskList, t) /\ t \notin gone
        /\ \A t : OnDelay(before.overflow, t) <=> OnDelay(pxOverflowDelayedTaskList, t) /\ t \notin gone
    BY <1>0, <1>2, <1>3
  <2> QED BY <1>0, <1>5, <2>1, <2>2, <2>3 DEF AfterTicks
<1>7. Ticking(ticked, n, before)
  BY <1>1, <1>5, TickingExists
<1>8. AfterTicks(s, n, gone)
  BY <1>6, <1>7, TicksAre
<1>9. /\ xTickCount' = s.now /\ xNumOfOverflows' = s.rounds /\ xNextTaskUnblockTime' = s.next
      /\ pxDelayedTaskList' = s.list /\ pxOverflowDelayedTaskList' = s.overflow
      /\ awaited' = awaited \ (s.woken \cup gone)
      /\ xSuspendedTaskList' = xSuspendedTaskList \ gone /\ UNCHANGED wakeTime
  BY DEF Tick, Ticking, before
<1> QED BY <1>8, <1>9

\* What the lists say of a task that sleeps.
LEMMA ListsAre ==
    ASSUME ClockTyped, ListsInTime
    PROVE  /\ \A t : Sleeping(t) => t \in Sleepers /\ ~(OnNow(t) /\ OnNext(t))
           /\ \A t : OnNow(t) => wakeTime[t] > xTickCount
           /\ \A t \in Sleepers : wakeTime[t] \in Int /\ wakeTime[t] >= 0 /\ wakeTime[t] < TickWord
           /\ xTickCount \in Int /\ xTickCount >= 0 /\ xTickCount < TickWord /\ TickWord \in Int
           /\ uxPendedTicks \in Nat
<1>1. \A t : Sleeping(t) => t \in Sleepers
  BY DEF ClockTyped, Sleeping, OnNow, OnNext, OnDelay
<1>2. \A t : OnNow(t) => wakeTime[t] > xTickCount
  BY DEF ListsInTime, OnNow, OnDelay, Ahead
<1>3. \A t \in Sleepers : wakeTime[t] \in Int /\ wakeTime[t] >= 0 /\ wakeTime[t] < TickWord
  BY TickWordIs DEF ClockTyped, Moments
<1> QED BY <1>1, <1>2, <1>3, TickWordIs DEF ClockTyped, Moments, ListsInTime, OnNow, OnNext

\* What the ticks do to the clock and the lists, task by task.
LEMMA TickLeaves ==
    ASSUME ClockTyped, ListsInTime, NEW n \in Nat, NEW gone, NEW next \in Moments,
           Ahead(Off(pxDelayedTaskList, gone), xTickCount, next), Tick(n, gone, next)
    PROVE  /\ xTickCount' \in Moments /\ xNumOfOverflows' \in Nat /\ xNextTaskUnblockTime' \in Moments
           /\ pxDelayedTaskList' \in Seq(Sleepers) /\ pxOverflowDelayedTaskList' \in Seq(Sleepers)
           /\ UNCHANGED wakeTime /\ ListsInTime' /\ Clock' = Clock + n
           /\ xSuspendedTaskList' = xSuspendedTaskList \ gone
           /\ \A t : t \in awaited' => t \in awaited /\ t \notin gone /\ (Sleeping(t) => Sleeping(t)')
           /\ \A t : OnNow(t)' => \/ OnNow(t) /\ xTickCount' = xTickCount + n
                                  \/ OnNext(t) /\ xTickCount' + TickWord = xTickCount + n
           /\ \A t : OnNext(t)' => OnNext(t) /\ xTickCount' = xTickCount + n
           /\ \A t : t \notin gone /\ ~Sleeping(t)' =>
                 /\ OnNow(t) => wakeTime[t] <= xTickCount + n
                 /\ OnNext(t) => TickWord + wakeTime[t] <= xTickCount + n
<1>1. PICK s : /\ AfterTicks(s, n, gone)
               /\ xTickCount' = s.now /\ xNumOfOverflows' = s.rounds /\ xNextTaskUnblockTime' = s.next
               /\ pxDelayedTaskList' = s.list /\ pxOverflowDelayedTaskList' = s.overflow
               /\ awaited' = awaited \ (s.woken \cup gone)
               /\ xSuspendedTaskList' = xSuspendedTaskList \ gone /\ UNCHANGED wakeTime
  BY TickIs
<1>2. /\ s.now \in Moments /\ s.rounds \in Nat /\ s.next \in Moments
      /\ s.list \in Seq(Sleepers) /\ s.overflow \in Seq(Sleepers)
      /\ InTime(s.list, wakeTime) /\ InTime(s.overflow, wakeTime) /\ Ahead(s.list, s.now, s.next)
  BY <1>1 DEF AfterTicks, TimesInOrder, TickStates
<1>3. (\A t : OnNow(t)' <=> OnDelay(s.list, t)) /\ (\A t : OnNext(t)' <=> OnDelay(s.overflow, t))
  BY <1>1 DEF OnNow, OnNext
<1>4. /\ \A t : ~(OnDelay(s.list, t) /\ OnDelay(s.overflow, t))
      /\ s.rounds * TickWord + s.now = Clock + n
      /\ \A t : OnDelay(s.list, t) =>
            /\ t \notin gone
            /\ \/ OnNow(t) /\ s.now = xTickCount + n
               \/ OnNext(t) /\ s.now + TickWord = xTickCount + n
      /\ \A t : OnDelay(s.overflow, t) => t \notin gone /\ OnNext(t) /\ s.now = xTickCount + n
      /\ \A t : t \notin gone /\ ~OnDelay(s.list, t) /\ ~OnDelay(s.overflow, t) =>
            /\ OnNow(t) => wakeTime[t] <= xTickCount + n /\ t \in s.woken
            /\ OnNext(t) => TickWord + wakeTime[t] <= xTickCount + n /\ t \in s.woken
  BY <1>1 DEF AfterTicks, OnNow, OnNext
<1>5. Clock' = Clock + n
  BY <1>1, <1>4 DEF Clock
<1>6. ListsInTime'
  <2>1. Ahead(pxDelayedTaskList, xTickCount, xNextTaskUnblockTime)'
    BY <1>1, <1>2 DEF Ahead
  <2>2. InTime(pxDelayedTaskList, wakeTime)' /\ InTime(pxOverflowDelayedTaskList, wakeTime)'
    BY <1>1, <1>2 DEF InTime
  <2>3. \A t : ~(OnDelay(pxDelayedTaskList, t)' /\ OnDelay(pxOverflowDelayedTaskList, t)')
    BY <1>3, <1>4 DEF OnNow, OnNext
  <2> QED BY <2>1, <2>2, <2>3 DEF ListsInTime
<1>7. ASSUME NEW t PROVE
        /\ t \in awaited' => t \in awaited /\ t \notin gone /\ (Sleeping(t) => Sleeping(t)')
        /\ OnNow(t)' => \/ OnNow(t) /\ xTickCount' = xTickCount + n
                        \/ OnNext(t) /\ xTickCount' + TickWord = xTickCount + n
        /\ OnNext(t)' => OnNext(t) /\ xTickCount' = xTickCount + n
        /\ t \notin gone /\ ~Sleeping(t)' =>
              /\ OnNow(t) => wakeTime[t] <= xTickCount + n
              /\ OnNext(t) => TickWord + wakeTime[t] <= xTickCount + n
  BY <1>1, <1>3, <1>4 DEF Sleeping
<1> QED BY <1>1, <1>2, <1>5, <1>6, <1>7

\* Until w, p after x, less e, is until w, q after u.
Passes(w, x, p, e, u, q) == AtLeast0(AtLeast0(w - x - p) - e) = AtLeast0(w - u - q)
\* Or is over.
Ends(w, x, p, e) == AtLeast0(AtLeast0(w - x - p) - e) = 0

\* The arithmetic of a task that is passed over by some ticks, or woken by them.
LEMMA Passing ==
    ASSUME NEW w \in Int, NEW x \in Int, NEW p \in Int, NEW e \in Nat, NEW n \in Int,
           NEW q \in Nat, n + q = p + e
    PROVE  /\ \A u \in Int : u = x + n => Passes(w, x, p, e, u, q)
           /\ w <= x + n => Ends(w, x, p, e)
BY DEF AtLeast0, Passes, Ends

\* A task on a list stays on time while ticks are counted or pended: e of them in all.
LEMMA StaysOnTime ==
    ASSUME ClockTyped, ListsInTime, NEW n \in Nat, NEW e \in Nat, NEW t \in Sleepers,
           asked[t] \in Nat, waited[t] \in Nat, waited[t] <= asked[t],
           xTickCount' \in Int, uxPendedTicks' \in Nat, UNCHANGED wakeTime,
           n + uxPendedTicks' = uxPendedTicks + e,
           Left(t)' = AtLeast0(Left(t) - e), OnTime(t),
           OnNow(t)' => \/ OnNow(t) /\ xTickCount' = xTickCount + n
                        \/ OnNext(t) /\ xTickCount' + TickWord = xTickCount + n,
           OnNext(t)' => OnNext(t) /\ xTickCount' = xTickCount + n
    PROVE  /\ OnTime(t)'
           /\ (OnNow(t) => wakeTime[t] <= xTickCount + n) /\ (OnNext(t) => TickWord + wakeTime[t] <= xTickCount + n)
              /\ Sleeping(t) => Left(t)' = 0
<1>1. /\ wakeTime[t] \in Int /\ wakeTime[t] >= 0 /\ wakeTime[t] < TickWord
      /\ xTickCount \in Int /\ xTickCount >= 0 /\ xTickCount < TickWord /\ TickWord \in Int
      /\ uxPendedTicks \in Nat /\ ~(OnNow(t) /\ OnNext(t))
  BY ListsAre DEF Sleeping
<1>2. xTickCount' \in Int /\ uxPendedTicks' \in Int /\ uxPendedTicks \in Int /\ n \in Int
  BY <1>1
<1>3. wakeTime'[t] = wakeTime[t]
  OBVIOUS
<1>4. /\ OnNow(t) => Left(t)' = AtLeast0(AtLeast0(wakeTime[t] - xTickCount - uxPendedTicks) - e)
      /\ OnNext(t) => Left(t)' = AtLeast0(AtLeast0((wakeTime[t] + TickWord) - xTickCount - uxPendedTicks) - e)
  <2>1. OnNow(t) => Left(t) = AtLeast0(wakeTime[t] - xTickCount - uxPendedTicks)
    BY DEF OnTime, Until
  <2>2. OnNext(t) => Left(t) = AtLeast0((wakeTime[t] + TickWord) - xTickCount - uxPendedTicks)
    BY DEF OnTime, Until
  <2> QED BY <2>1, <2>2
<1>5. ASSUME OnNow(t)' PROVE Left(t)' = AtLeast0(wakeTime[t] - xTickCount' - uxPendedTicks')
  <2>1. CASE OnNow(t) /\ xTickCount' = xTickCount + n
    <3>1. Passes(wakeTime[t], xTickCount, uxPendedTicks, e, xTickCount', uxPendedTicks')
      BY <1>1, <1>2, <2>1, Passing
    <3> QED BY <1>4, <2>1, <3>1 DEF Passes
  <2>2. CASE OnNext(t) /\ xTickCount' + TickWord = xTickCount + n
    <3>1. wakeTime[t] + TickWord \in Int /\ xTickCount' + TickWord \in Int
      BY <1>1, <1>2
    <3>2. Passes(wakeTime[t] + TickWord, xTickCount, uxPendedTicks, e, xTickCount' + TickWord, uxPendedTicks')
      BY <1>1, <1>2, <2>2, <3>1, Passing
    <3>3. (wakeTime[t] + TickWord) - (xTickCount' + TickWord) - uxPendedTicks' = wakeTime[t] - xTickCount' - uxPendedTicks'
      BY <1>1, <1>2
    <3> QED BY <1>4, <2>2, <3>2, <3>3 DEF Passes
  <2> QED BY <1>5, <2>1, <2>2
<1>6. ASSUME OnNext(t)' PROVE Left(t)' = AtLeast0((wakeTime[t] + TickWord) - xTickCount' - uxPendedTicks')
  <2>1. wakeTime[t] + TickWord \in Int
    BY <1>1
  <2>2. OnNext(t) /\ xTickCount' = xTickCount + n
    BY <1>6
  <2>3. Passes(wakeTime[t] + TickWord, xTickCount, uxPendedTicks, e, xTickCount', uxPendedTicks')
    BY <1>1, <1>2, <2>1, <2>2, Passing
  <2> QED BY <1>4, <2>2, <2>3 DEF Passes
<1>7. OnTime(t)'
  BY <1>3, <1>5, <1>6 DEF OnTime, Until
<1>8. ASSUME OnNow(t) => wakeTime[t] <= xTickCount + n, OnNext(t) => TickWord + wakeTime[t] <= xTickCount + n,
             Sleeping(t)
      PROVE  Left(t)' = 0
  <2>1. CASE OnNow(t)
    <3>1. Ends(wakeTime[t], xTickCount, uxPendedTicks, e)
      BY <1>1, <1>2, <1>8, <2>1, Passing
    <3> QED BY <1>4, <2>1, <3>1 DEF Ends
  <2>2. CASE OnNext(t)
    <3>1. wakeTime[t] + TickWord \in Int /\ wakeTime[t] + TickWord <= xTickCount + n
      BY <1>1, <1>2, <1>8, <2>2
    <3>2. Ends(wakeTime[t] + TickWord, xTickCount, uxPendedTicks, e)
      BY <1>1, <1>2, <3>1, Passing
    <3> QED BY <1>4, <2>2, <3>2 DEF Ends
  <2> QED BY <1>8, <2>1, <2>2 DEF Sleeping
<1> QED BY <1>7, <1>8

\* What a step of another task leaves alone.
SameAsk(u) == asks'[u] = asks[u] /\ ticksToWait'[u] = ticksToWait[u] /\ timeOut'[u] = timeOut[u]
Same(u) == /\ SameAsk(u) /\ sleepPc'[u] = sleepPc[u] /\ asked'[u] = asked[u] /\ waited'[u] = waited[u]
           /\ wakeTime'[u] = wakeTime[u] /\ (OnNow(u)' <=> OnNow(u)) /\ (OnNext(u)' <=> OnNext(u))
SameClock == UNCHANGED <<xTickCount, xNumOfOverflows, uxPendedTicks>>

\* A step that leaves a task alone.
LEMMA Untouched ==
    ASSUME NEW u \in Sleepers, Same(u), SameClock
    PROVE  (TaskOK(u) => TaskOK(u)') /\ (WaitExact(u) => WaitExact(u)')
<1>1. Left(u)' = Left(u) /\ \A w : Until(w)' = Until(w)
  BY DEF Left, Until, Same, SameClock, AtLeast0
<1>2. /\ OnTime(u)' <=> OnTime(u)
      /\ Sleeping(u)' <=> Sleeping(u)
  BY <1>1 DEF OnTime, Sleeping, Same
<1>3. Clock' = Clock /\ NotedAt(u)' = NotedAt(u) /\ Since(u)' = Since(u)
  BY DEF Clock, NotedAt, Since, Same, SameAsk, SameClock
<1>4. /\ asks'[u] = asks[u] /\ ticksToWait'[u] = ticksToWait[u] /\ sleepPc'[u] = sleepPc[u]
      /\ uxPendedTicks' = uxPendedTicks
  BY DEF Same, SameAsk, SameClock
<1>5. /\ AtLeast0(ticksToWait[u] - uxPendedTicks)' = AtLeast0(ticksToWait[u] - uxPendedTicks)
      /\ AtLeast0(ticksToWait[u] - Since(u))' = AtLeast0(ticksToWait[u] - Since(u))
  BY <1>3, <1>4 DEF AtLeast0
<1>6. (DelayOK(u) => DelayOK(u)') /\ (WaitOK(u) => WaitOK(u)')
  BY <1>1, <1>2, <1>3, <1>4, <1>5 DEF DelayOK, WaitOK
<1>7. WaitExact(u) => WaitExact(u)'
  BY <1>1, <1>2, <1>3, <1>4, <1>5 DEF WaitExact
<1> QED BY <1>4, <1>6, <1>7 DEF TaskOK

\* What is left of what t has asked for, after e ticks.
LEMMA Lessened ==
    ASSUME NEW a \in Int, NEW b \in Int, NEW l \in Nat, NEW e \in Nat
    PROVE  /\ l = AtLeast0(a - b) => AtLeast0(l - e) = AtLeast0(a - (b + e))
           /\ l <= AtLeast0(a - b) => AtLeast0(l - e) <= AtLeast0(a - (b + e))
           /\ l = 0 => AtLeast0(l - e) = 0
BY DEF AtLeast0

\* e ticks pass; n are counted, now or pended before.
Counted(u, n, e) ==
    /\ SameAsk(u) /\ asked'[u] = asked[u] /\ Left(u)' = AtLeast0(Left(u) - e)
    /\ \/ sleepPc'[u] = sleepPc[u]
       \/ sleepPc[u] = "resume" /\ sleepPc'[u] = "asleep"
       \/ sleepPc[u] = "late" /\ sleepPc'[u] = "timed out"
    /\ xTickCount' \in Int /\ uxPendedTicks' \in Nat /\ UNCHANGED wakeTime
    /\ uxPendedTicks' = (uxPendedTicks + e) - n /\ Clock' = Clock + n
    /\ OnNow(u)' => \/ OnNow(u) /\ xTickCount' = xTickCount + n
                    \/ OnNext(u) /\ xTickCount' + TickWord = xTickCount + n
    /\ OnNext(u)' => OnNext(u) /\ xTickCount' = xTickCount + n
    /\ asks[u] = "delay" /\ ~Sleeping(u)' =>
          (OnNow(u) => wakeTime[u] <= xTickCount + n) /\ (OnNext(u) => TickWord + wakeTime[u] <= xTickCount + n)
    /\ sleepPc[u] = "add" => n = 0

\* A task that counted ticks have passed over is still as it should be.
LEMMA CountedIs ==
    ASSUME ClockTyped, AskTyped, ListsInTime, NEW u \in Sleepers, NEW n \in Nat, NEW e \in Nat, Counted(u, n, e)
    PROVE  (TaskOK(u) => TaskOK(u)') /\ (WaitExact(u) => WaitExact(u)')
<1>1. /\ asked[u] \in Nat /\ waited[u] \in Nat /\ waited[u] <= asked[u] /\ Left(u) \in Nat
      /\ ticksToWait[u] \in Int /\ uxPendedTicks \in Int /\ Clock \in Int /\ NotedAt(u) \in Int /\ Since(u) \in Int
  <2>1. /\ asked[u] \in Nat /\ waited[u] \in Nat /\ waited[u] <= asked[u] /\ ticksToWait[u] \in Int
        /\ timeOut[u].xOverflowCount \in Int /\ timeOut[u].xTimeOnEntering \in Int
    BY DEF AskTyped, Moments
  <2>2. uxPendedTicks \in Int /\ xTickCount \in Int /\ xNumOfOverflows \in Int /\ TickWord \in Int
    BY TickWordIs DEF ClockTyped, Moments
  <2>3. Clock \in Int
    BY <2>2 DEF Clock
  <2>4. NotedAt(u) \in Int
    BY <2>1, <2>2 DEF NotedAt
  <2> QED BY <2>1, <2>2, <2>3, <2>4 DEF Left, Since
<1>2. /\ asks'[u] = asks[u] /\ ticksToWait'[u] = ticksToWait[u] /\ NotedAt(u)' = NotedAt(u)
      /\ Left(u)' = AtLeast0(Left(u) - e)
  BY DEF Counted, SameAsk, NotedAt
<1>3. Since(u)' = Since(u) + e /\ Clock' = Clock + n /\ Clock' >= Clock /\ Clock' \in Int
  <2>1. Clock' = Clock + n
    BY DEF Counted
  <2>2. uxPendedTicks' = (uxPendedTicks + e) - n
    BY DEF Counted
  <2>3. uxPendedTicks' \in Nat
    BY DEF Counted
  <2>4. Clock' \in Int /\ Clock' >= Clock
    BY <1>1, <2>1
  <2>5. Since(u)' = Clock' + uxPendedTicks' - NotedAt(u)'
    BY DEF Since
  <2>6. Since(u) = Clock + uxPendedTicks - NotedAt(u)
    BY DEF Since
  <2>7. Since(u)' = Since(u) + e
    BY <1>1, <1>2, <2>1, <2>2, <2>5, <2>6
  <2> QED BY <2>1, <2>4, <2>7
<1>4. OnTime(u) =>
        /\ OnTime(u)'
        /\ (OnNow(u) => wakeTime[u] <= xTickCount + n) /\ (OnNext(u) => TickWord + wakeTime[u] <= xTickCount + n)
           /\ Sleeping(u) => Left(u)' = 0
  <2>1. uxPendedTicks' = (uxPendedTicks + e) - n
    BY DEF Counted
  <2>2. n + uxPendedTicks' = uxPendedTicks + e
    BY <1>1, <2>1
  <2> QED BY <1>1, <2>2, StaysOnTime DEF Counted
<1>5. /\ Left(u) = AtLeast0(ticksToWait[u] - Since(u)) => Left(u)' = AtLeast0(ticksToWait[u] - (Since(u) + e))
      /\ Left(u) <= AtLeast0(ticksToWait[u] - Since(u)) => Left(u)' <= AtLeast0(ticksToWait[u] - (Since(u) + e))
      /\ Left(u) = AtLeast0(ticksToWait[u] - uxPendedTicks)
           => Left(u)' = AtLeast0(ticksToWait[u] - (uxPendedTicks + e))
      /\ Left(u) = 0 => Left(u)' = 0
  BY <1>1, <1>2, Lessened
<1>6. /\ \/ sleepPc'[u] = sleepPc[u]
         \/ sleepPc[u] = "resume" /\ sleepPc'[u] = "asleep"
         \/ sleepPc[u] = "late" /\ sleepPc'[u] = "timed out"
      /\ sleepPc[u] = "add" => uxPendedTicks' = uxPendedTicks + e /\ Clock' = Clock
      /\ asks[u] = "delay" /\ ~Sleeping(u)' =>
            (OnNow(u) => wakeTime[u] <= xTickCount + n) /\ (OnNext(u) => TickWord + wakeTime[u] <= xTickCount + n)
  <2>1. sleepPc[u] = "add" => n = 0
    BY DEF Counted
  <2>2. uxPendedTicks' = (uxPendedTicks + e) - n
    BY DEF Counted
  <2>3. uxPendedTicks' \in Nat
    BY DEF Counted
  <2>4. ASSUME sleepPc[u] = "add" PROVE uxPendedTicks' = uxPendedTicks + e
    <3>1. n = 0
      BY <2>1, <2>4
    <3> QED BY <1>1, <2>2, <3>1
  <2>5. sleepPc[u] = "add" => Clock' = Clock
    BY <1>1, <1>3, <2>1
  <2> QED BY <2>4, <2>5 DEF Counted
<1>7. ASSUME DelayOK(u) PROVE DelayOK(u)'
  <2> SUFFICES ASSUME asks[u] = "delay"
               PROVE /\ sleepPc'[u] \in {"runs", "add", "resume", "asleep"} /\ OnTime(u)'
                     /\ sleepPc'[u] = "add" => Left(u)' = AtLeast0(ticksToWait'[u] - uxPendedTicks')
                     /\ sleepPc'[u] \in {"resume", "asleep"} => Sleeping(u)' \/ Left(u)' = 0
    BY <1>2 DEF DelayOK, AtLeast0
  <2>1. /\ sleepPc[u] \in {"runs", "add", "resume", "asleep"} /\ OnTime(u)
        /\ sleepPc[u] = "add" => Left(u) = AtLeast0(ticksToWait[u] - uxPendedTicks)
        /\ sleepPc[u] \in {"resume", "asleep"} => Sleeping(u) \/ Left(u) = 0
    BY <1>7 DEF DelayOK
  <2>2. /\ sleepPc'[u] \in {"runs", "add", "resume", "asleep"}
        /\ sleepPc'[u] = "add" => sleepPc[u] = "add"
        /\ sleepPc'[u] \in {"resume", "asleep"} => sleepPc[u] \in {"resume", "asleep"}
    BY <1>6, <2>1
  <2>3. sleepPc'[u] = "add" => Left(u)' = AtLeast0(ticksToWait'[u] - uxPendedTicks')
    BY <1>2, <1>5, <1>6, <2>1, <2>2
  <2> QED BY <1>4, <1>5, <1>6, <2>1, <2>2, <2>3
<1>8. ASSUME WaitOK(u) PROVE WaitOK(u)'
  <2> SUFFICES ASSUME asks[u] = "wait"
               PROVE /\ NotedAt(u)' <= Clock'
                     /\ Left(u)' <= AtLeast0(ticksToWait'[u] - Since(u)')
                     /\ sleepPc'[u] \in {"late", "timed out"} => Left(u)' = 0
    BY <1>2 DEF WaitOK, AtLeast0
  <2>1. /\ NotedAt(u) <= Clock
        /\ Left(u) <= AtLeast0(ticksToWait[u] - Since(u))
        /\ sleepPc[u] \in {"late", "timed out"} => Left(u) = 0
    BY <1>8 DEF WaitOK
  <2>2. NotedAt(u)' <= Clock'
    <3>1. NotedAt(u) <= Clock /\ Clock <= Clock' /\ NotedAt(u)' = NotedAt(u)
      BY <1>1, <1>2, <1>3, <2>1
    <3> QED BY <1>1, <1>3, <3>1
  <2>3. Left(u)' <= AtLeast0(ticksToWait'[u] - Since(u)')
    BY <1>2, <1>3, <1>5, <2>1
  <2> QED BY <1>5, <1>6, <2>1, <2>2, <2>3
<1>9. ASSUME WaitExact(u) PROVE WaitExact(u)'
  <2> SUFFICES ASSUME asks[u] = "wait"
               PROVE /\ OnTime(u)'
                     /\ ticksToWait'[u] # portMAX_DELAY /\ sleepPc'[u] \in {"noted", "check", "add", "resume", "asleep"} =>
                           Left(u)' = AtLeast0(ticksToWait'[u] - Since(u)')
                     /\ ticksToWait'[u] # portMAX_DELAY /\ sleepPc'[u] = "add" => NotedAt(u)' = Clock'
    BY <1>2 DEF WaitExact, AtLeast0
  <2>1. /\ OnTime(u)
        /\ ticksToWait[u] # portMAX_DELAY /\ sleepPc[u] \in {"noted", "check", "add", "resume", "asleep"} =>
              Left(u) = AtLeast0(ticksToWait[u] - Since(u))
        /\ ticksToWait[u] # portMAX_DELAY /\ sleepPc[u] = "add" => NotedAt(u) = Clock
    BY <1>9 DEF WaitExact
  <2>2. /\ sleepPc'[u] \in {"noted", "check", "add", "resume", "asleep"}
             => sleepPc[u] \in {"noted", "check", "add", "resume", "asleep"}
        /\ sleepPc'[u] = "add" => sleepPc[u] = "add"
    BY <1>6
  <2> QED BY <1>2, <1>3, <1>4, <1>5, <1>6, <2>1, <2>2
<1>10. ASSUME sleepPc[u] \in {"noted", "check", "add", "resume", "asleep"} => ticksToWait[u] > 0
       PROVE  sleepPc'[u] \in {"noted", "check", "add", "resume", "asleep"} => ticksToWait'[u] > 0
  BY <1>2, <1>6, <1>10
<1> QED BY <1>7, <1>8, <1>9, <1>10 DEF TaskOK

\* Taking tasks off keeps the list ahead of the counter.
LEMMA OffAhead ==
    ASSUME NEW list \in Seq(Sleepers), NEW gone, NEW now, NEW next, wakeTime \in [Sleepers -> Moments],
           Ahead(list, now, next)
    PROVE  Ahead(Off(list, gone), now, next)
<1>1. \A t : OnDelay(Off(list, gone), t) => OnDelay(list, t)
  BY OffIs
<1>2. ASSUME NEW i \in DOMAIN Off(list, gone)
      PROVE  wakeTime[Off(list, gone)[i]] > now /\ next <= wakeTime[Off(list, gone)[i]]
  <2>1. OnDelay(Off(list, gone), Off(list, gone)[i])
    BY DEF OnDelay
  <2>2. OnDelay(list, Off(list, gone)[i])
    BY <1>1, <2>1
  <2> QED BY <2>2 DEF OnDelay, Ahead
<1> QED BY <1>2 DEF Ahead

\* A tick that elapses takes one from what is left.
LEMMA Elapsing ==
    ASSUME AskTyped, Elapses, UNCHANGED <<sleepPc, asks, ticksToWait, timeOut, asked>>
    PROVE  /\ AskTyped'
           /\ \A u \in Sleepers : Left(u)' = AtLeast0(Left(u) - 1)
<1>1. waited' = [t \in Sleepers |-> IF waited[t] < asked[t] THEN waited[t] + 1 ELSE waited[t]]
  BY DEF Elapses
<1>2. ASSUME NEW u \in Sleepers
      PROVE  /\ waited'[u] \in Nat /\ waited'[u] <= asked[u]
             /\ asked[u] - waited'[u] = AtLeast0((asked[u] - waited[u]) - 1)
  <2>1. waited[u] \in Nat /\ asked[u] \in Nat /\ waited[u] <= asked[u]
    BY DEF AskTyped
  <2> QED BY <1>1, <2>1 DEF AtLeast0
<1>3. waited' \in [Sleepers -> Nat]
  BY <1>1, <1>2
<1>4. AskTyped'
  BY <1>2, <1>3 DEF AskTyped
<1>5. \A u \in Sleepers : Left(u)' = AtLeast0(Left(u) - 1)
  BY <1>2 DEF Left, AtLeast0
<1> QED BY <1>4, <1>5

\* What the ticks do to the parts of the invariant that are about the lists.
LEMMA TickKeeps ==
    ASSUME ClockTyped, ListsInTime, Awaiting, Bounds, NEW n \in Nat, NEW gone, NEW next \in Moments,
           Ahead(Off(pxDelayedTaskList, gone), xTickCount, next), Tick(n, gone, next),
           uxPendedTicks' \in Nat, uxSchedulerSuspended' \in Sleepers \cup {NoSleeper},
           xPendingReadyList' \subseteq xPendingReadyList, UNCHANGED asks
    PROVE  ClockTyped' /\ ListsInTime' /\ Awaiting'
<1>1. /\ xTickCount' \in Moments /\ xNumOfOverflows' \in Nat /\ xNextTaskUnblockTime' \in Moments
      /\ pxDelayedTaskList' \in Seq(Sleepers) /\ pxOverflowDelayedTaskList' \in Seq(Sleepers)
      /\ UNCHANGED wakeTime /\ ListsInTime'
      /\ xSuspendedTaskList' = xSuspendedTaskList \ gone
      /\ \A t : t \in awaited' => t \in awaited /\ t \notin gone /\ (Sleeping(t) => Sleeping(t)')
  BY TickLeaves
<1>2. ClockTyped'
  BY <1>1 DEF ClockTyped
<1>3. Awaiting'
  BY <1>1 DEF Awaiting
<1> QED BY <1>1, <1>2, <1>3

\* The invariant is kept by the interrupt of the clock,
LEMMA InterruptKeeps ==
    ASSUME TicksInv, xTaskIncrementTick
    PROVE  TicksInv' /\ (WaitsExact => WaitsExact')
<1>1. /\ ClockTyped /\ AskTyped /\ Suspending /\ ListsInTime /\ Awaiting /\ AsksOK /\ Bounds
  BY DEF TicksInv
<1>2. /\ Elapses /\ UNCHANGED <<uxSchedulerSuspended, xPendingReadyList, sleepPc, ticksToWait, timeOut, asks, asked, sleeps>>
  BY DEF xTaskIncrementTick, timeVars
<1>3. AskTyped' /\ \A u \in Sleepers : Left(u)' = AtLeast0(Left(u) - 1)
  BY <1>1, <1>2, Elapsing
<1>4. Clock + uxPendedTicks < MaxTicks
  BY <1>2 DEF Elapses, Clock
<1>5. /\ Clock \in Int /\ uxPendedTicks \in Nat /\ MaxTicks \in Int
  BY <1>1, TickWordIs, KernelTicksAssumption DEF Clock, ClockTyped, Moments
<1>6. CASE uxSchedulerSuspended = NoSleeper
  <2>1. Tick(1, {}, xNextTaskUnblockTime) /\ UNCHANGED uxPendedTicks
    BY <1>6 DEF xTaskIncrementTick
  <2>2. Ahead(Off(pxDelayedTaskList, {}), xTickCount, xNextTaskUnblockTime)
    BY <1>1, OffAhead DEF ListsInTime, ClockTyped
  <2>3. xNextTaskUnblockTime \in Moments /\ uxSchedulerSuspended \in Sleepers \cup {NoSleeper}
    BY <1>1 DEF ClockTyped
  <2>4. ClockTyped' /\ ListsInTime' /\ Awaiting'
    BY <1>1, <1>2, <1>5, <2>1, <2>2, <2>3, TickKeeps
  <2>5. /\ UNCHANGED wakeTime /\ Clock' = Clock + 1
        /\ \A t : OnNow(t)' => \/ OnNow(t) /\ xTickCount' = xTickCount + 1
                               \/ OnNext(t) /\ xTickCount' + TickWord = xTickCount + 1
        /\ \A t : OnNext(t)' => OnNext(t) /\ xTickCount' = xTickCount + 1
        /\ \A t : t \notin {} /\ ~Sleeping(t)' =>
              /\ OnNow(t) => wakeTime[t] <= xTickCount + 1
              /\ OnNext(t) => TickWord + wakeTime[t] <= xTickCount + 1
    BY <1>1, <2>1, <2>2, <2>3, TickLeaves
  <2>6. Suspending'
    BY <1>1, <1>2, <2>1 DEF Suspending
  <2>7. Bounds'
    <3>1. Clock' + uxPendedTicks' <= MaxTicks
      BY <1>4, <1>5, <2>1, <2>5
    <3> QED BY <1>1, <1>2, <3>1 DEF Bounds
  <2>8. ASSUME NEW u \in Sleepers PROVE Counted(u, 1, 1)
    <3>1. SameAsk(u) /\ asked'[u] = asked[u] /\ Left(u)' = AtLeast0(Left(u) - 1) /\ sleepPc'[u] = sleepPc[u]
      BY <1>2, <1>3 DEF SameAsk
    <3>2. xTickCount' \in Int /\ uxPendedTicks' \in Nat
      BY <2>4 DEF ClockTyped, Moments
    <3>3. sleepPc[u] # "add"
      BY <1>1, <1>6, KernelTicksAssumption DEF Suspending
    <3>4. uxPendedTicks' = (uxPendedTicks + 1) - 1
      BY <1>5, <2>1
    <3> QED BY <2>5, <3>1, <3>2, <3>3, <3>4 DEF Counted
  <2>9. AsksOK' /\ (WaitsExact => WaitsExact')
    BY <1>1, <2>8, CountedIs DEF AsksOK, WaitsExact
  <2> QED BY <1>3, <2>4, <2>6, <2>7, <2>9 DEF TicksInv
<1>7. CASE uxSchedulerSuspended # NoSleeper
  <2>1. /\ uxPendedTicks' = uxPendedTicks + 1
        /\ UNCHANGED <<xTickCount, xNumOfOverflows, xNextTaskUnblockTime, pxDelayedTaskList,
                       pxOverflowDelayedTaskList, xSuspendedTaskList, wakeTime, awaited>>
    BY <1>7 DEF xTaskIncrementTick, delayLists
  <2>2. ClockTyped'
    BY <1>1, <1>2, <1>5, <2>1 DEF ClockTyped
  <2>3. ListsInTime'
    BY <1>1, <2>1 DEF ListsInTime, OnDelay, InTime, Ahead
  <2>4. \A u : (OnNow(u)' <=> OnNow(u)) /\ (OnNext(u)' <=> OnNext(u)) /\ (Sleeping(u)' <=> Sleeping(u))
    BY <2>1 DEF OnNow, OnNext, Sleeping, OnDelay
  <2>5. Awaiting'
    BY <1>1, <1>2, <2>1, <2>4 DEF Awaiting
  <2>6. Suspending'
    BY <1>1, <1>2, <1>7 DEF Suspending
  <2>7. Clock' = Clock
    BY <2>1 DEF Clock
  <2>8. Bounds'
    <3>1. Clock' + uxPendedTicks' <= MaxTicks
      BY <1>4, <1>5, <2>1, <2>7
    <3> QED BY <1>1, <1>2, <3>1 DEF Bounds
  <2>9. ASSUME NEW u \in Sleepers PROVE Counted(u, 0, 1)
    <3>1. SameAsk(u) /\ asked'[u] = asked[u] /\ Left(u)' = AtLeast0(Left(u) - 1) /\ sleepPc'[u] = sleepPc[u]
      BY <1>2, <1>3 DEF SameAsk
    <3>2. xTickCount' \in Int /\ uxPendedTicks' \in Nat /\ xTickCount' = xTickCount + 0
      BY <1>1, <1>5, <2>1 DEF ClockTyped, Moments
    <3>3. uxPendedTicks' = (uxPendedTicks + 1) - 0 /\ Clock' = Clock + 0
      BY <1>5, <2>1, <2>7
    <3>4. ~Sleeping(u)' => ~OnNow(u) /\ ~OnNext(u)
      BY <2>4 DEF Sleeping
    <3>5. UNCHANGED wakeTime
      BY <2>1
    <3>6. (OnNow(u)' => OnNow(u)) /\ (OnNext(u)' => OnNext(u))
      BY <2>4
    <3> QED BY <3>1, <3>2, <3>3, <3>4, <3>5, <3>6 DEF Counted
  <2>10. AsksOK' /\ (WaitsExact => WaitsExact')
    BY <1>1, <2>9, CountedIs DEF AsksOK, WaitsExact
  <2> QED BY <1>3, <2>2, <2>3, <2>5, <2>6, <2>8, <2>10 DEF TicksInv
<1> QED BY <1>6, <1>7

\* by xTaskResumeAll,
LEMMA ResumeAllKeeps ==
    ASSUME TicksInv, NEW t \in Sleepers, ResumeAll(t)
    PROVE  TicksInv' /\ (WaitsExact => WaitsExact')
<1> DEFINE n == uxPendedTicks
           gone == xPendingReadyList
           next == IF gone = {} THEN xNextTaskUnblockTime ELSE HeadTime(Off(pxDelayedTaskList, gone))
<1>1. /\ ClockTyped /\ AskTyped /\ Suspending /\ ListsInTime /\ Awaiting /\ AsksOK /\ Bounds
  BY DEF TicksInv
<1>2. /\ uxSchedulerSuspended = t /\ sleepPc[t] \in {"resume", "late"}
      /\ uxSchedulerSuspended' = NoSleeper /\ xPendingReadyList' = {} /\ uxPendedTicks' = 0
      /\ sleepPc' = [sleepPc EXCEPT ![t] = IF @ = "late" THEN "timed out" ELSE "asleep"]
      /\ UNCHANGED <<ticksToWait, timeOut, asks, asked, waited, sleeps>>
  BY DEF ResumeAll, timeVars, askVars
<1>3. Tick(n, gone, next)
  BY DEF ResumeAll, Pended
<1>4. n \in Nat /\ Clock \in Int /\ MaxTicks \in Int
  BY <1>1, TickWordIs, KernelTicksAssumption DEF Clock, ClockTyped, Moments
<1>5. next \in Moments /\ Ahead(Off(pxDelayedTaskList, gone), xTickCount, next)
  <2>1. /\ pxDelayedTaskList \in Seq(Sleepers) /\ wakeTime \in [Sleepers -> Moments]
        /\ InTime(pxDelayedTaskList, wakeTime) /\ Ahead(pxDelayedTaskList, xTickCount, xNextTaskUnblockTime)
        /\ xNextTaskUnblockTime \in Moments
    BY <1>1 DEF ClockTyped, ListsInTime
  <2>2. Ahead(Off(pxDelayedTaskList, gone), xTickCount, xNextTaskUnblockTime)
    BY <2>1, OffAhead
  <2>3. Off(pxDelayedTaskList, gone) \in Seq(Sleepers) /\ InTime(Off(pxDelayedTaskList, gone), wakeTime)
    BY <2>1, OffIs
  <2>4. /\ HeadTime(Off(pxDelayedTaskList, gone)) \in Moments
        /\ \A i \in DOMAIN Off(pxDelayedTaskList, gone) :
              HeadTime(Off(pxDelayedTaskList, gone)) <= wakeTime[Off(pxDelayedTaskList, gone)[i]]
    BY <2>1, <2>3, HeadTimeIs
  <2>5. Ahead(Off(pxDelayedTaskList, gone), xTickCount, HeadTime(Off(pxDelayedTaskList, gone)))
    BY <2>2, <2>4 DEF Ahead
  <2> QED BY <2>1, <2>2, <2>4, <2>5
<1> HIDE DEF next
<1>6. AskTyped'
  <2>1. sleepPc' \in [Sleepers -> TickPlaces]
    BY <1>1, <1>2 DEF AskTyped, TickPlaces
  <2> QED BY <1>1, <1>2, <2>1 DEF AskTyped
<1>7. ClockTyped' /\ ListsInTime' /\ Awaiting'
  <2>1. uxPendedTicks' \in Nat /\ uxSchedulerSuspended' \in Sleepers \cup {NoSleeper}
        /\ xPendingReadyList' \subseteq xPendingReadyList /\ UNCHANGED asks
    BY <1>2
  <2> QED BY <1>1, <1>3, <1>4, <1>5, <2>1, TickKeeps
<1>8. /\ UNCHANGED wakeTime /\ Clock' = Clock + n
      /\ \A u : OnNow(u)' => \/ OnNow(u) /\ xTickCount' = xTickCount + n
                             \/ OnNext(u) /\ xTickCount' + TickWord = xTickCount + n
      /\ \A u : OnNext(u)' => OnNext(u) /\ xTickCount' = xTickCount + n
      /\ \A u : u \notin gone /\ ~Sleeping(u)' =>
            /\ OnNow(u) => wakeTime[u] <= xTickCount + n
            /\ OnNext(u) => TickWord + wakeTime[u] <= xTickCount + n
  BY <1>1, <1>3, <1>4, <1>5, TickLeaves
<1>9. \A u \in Sleepers : sleepPc'[u] = IF u # t THEN sleepPc[u]
                                        ELSE IF sleepPc[u] = "late" THEN "timed out" ELSE "asleep"
  BY <1>1, <1>2 DEF AskTyped
<1>10. Suspending'
  <2>1. ASSUME NEW u \in Sleepers PROVE sleepPc'[u] \notin {"check", "add", "resume", "late"}
    <3>1. CASE u = t
      BY <1>9, <3>1
    <3>2. CASE u # t
      <4>1. sleepPc[u] \notin {"check", "add", "resume", "late"}
        BY <1>1, <1>2, <3>2 DEF Suspending
      <4> QED BY <1>9, <3>2, <4>1
    <3> QED BY <3>1, <3>2
  <2> QED BY <1>2, <2>1 DEF Suspending
<1>11. Bounds'
  <2>1. Clock' + uxPendedTicks' = Clock + n
    <3>1. Clock' + uxPendedTicks' = (Clock + n) + 0
      BY <1>2, <1>8
    <3>2. (Clock + n) + 0 = Clock + n
      BY <1>4
    <3> QED BY <3>1, <3>2
  <2> QED BY <1>1, <1>2, <2>1 DEF Bounds
<1>12. ASSUME NEW u \in Sleepers PROVE Counted(u, n, 0)
  <2>1. SameAsk(u) /\ asked'[u] = asked[u]
    BY <1>2 DEF SameAsk
  <2>2. Left(u)' = AtLeast0(Left(u) - 0)
    <3>1. asked[u] \in Nat /\ waited[u] \in Nat /\ waited[u] <= asked[u]
      BY <1>1 DEF AskTyped
    <3>2. Left(u)' = Left(u)
      BY <1>2 DEF Left
    <3>3. Left(u) = AtLeast0(Left(u) - 0)
      BY <3>1 DEF Left, AtLeast0
    <3> QED BY <3>2, <3>3
  <2>3. \/ sleepPc'[u] = sleepPc[u]
        \/ sleepPc[u] = "resume" /\ sleepPc'[u] = "asleep"
        \/ sleepPc[u] = "late" /\ sleepPc'[u] = "timed out"
    BY <1>2, <1>9
  <2>4. xTickCount' \in Int /\ uxPendedTicks' \in Nat
    BY <1>7 DEF ClockTyped, Moments
  <2>5. uxPendedTicks' = (uxPendedTicks + 0) - n
    <3>1. (uxPendedTicks + 0) - n = 0
      BY <1>4
    <3> QED BY <1>2, <3>1
  <2>6. asks[u] = "delay" => u \notin gone
    BY <1>1 DEF Awaiting
  <2>7. sleepPc[u] # "add"
    BY <1>1, <1>2 DEF Suspending
  <2> QED BY <1>8, <2>1, <2>2, <2>3, <2>4, <2>5, <2>6, <2>7 DEF Counted
<1>13. AsksOK' /\ (WaitsExact => WaitsExact')
  BY <1>1, <1>4, <1>12, CountedIs DEF AsksOK, WaitsExact
<1> QED BY <1>6, <1>7, <1>10, <1>11, <1>13 DEF TicksInv

\* by an event,
LEMMA RemoveKeeps ==
    ASSUME TicksInv, NEW t \in Sleepers, RemoveFromEventList(t)
    PROVE  TicksInv' /\ (WaitsExact => WaitsExact')
<1>1. /\ ClockTyped /\ AskTyped /\ Suspending /\ ListsInTime /\ Awaiting /\ AsksOK /\ Bounds
  BY DEF TicksInv
<1>2. /\ t \in awaited /\ awaited' = awaited \ {t}
      /\ UNCHANGED <<xTickCount, xNumOfOverflows, uxPendedTicks, xNextTaskUnblockTime, uxSchedulerSuspended,
                     sleepPc, ticksToWait, timeOut, asks, asked, waited, sleeps>>
  BY DEF RemoveFromEventList, clockVars, timeVars, askVars
<1>3. asks[t] = "wait" /\ (Sleeping(t) \/ t \in xSuspendedTaskList)
  BY <1>1, <1>2 DEF Awaiting
<1>4. AskTyped' /\ Bounds' /\ SameClock
  BY <1>1, <1>2 DEF AskTyped, Bounds, Clock, SameClock
<1>5. CASE uxSchedulerSuspended = NoSleeper
  <2>1. /\ pxDelayedTaskList' = Off(pxDelayedTaskList, {t})
        /\ pxOverflowDelayedTaskList' = Off(pxOverflowDelayedTaskList, {t})
        /\ xSuspendedTaskList' = xSuspendedTaskList \ {t} /\ UNCHANGED <<xPendingReadyList, wakeTime>>
    BY <1>5 DEF RemoveFromEventList
  <2>2. /\ pxDelayedTaskList \in Seq(Sleepers) /\ wakeTime \in [Sleepers -> Moments]
        /\ pxOverflowDelayedTaskList \in Seq(Sleepers)
        /\ InTime(pxDelayedTaskList, wakeTime) /\ InTime(pxOverflowDelayedTaskList, wakeTime)
        /\ Ahead(pxDelayedTaskList, xTickCount, xNextTaskUnblockTime)
    BY <1>1 DEF ClockTyped, ListsInTime
  <2>3. /\ Off(pxDelayedTaskList, {t}) \in Seq(Sleepers) /\ InTime(Off(pxDelayedTaskList, {t}), wakeTime)
        /\ \A u : OnDelay(Off(pxDelayedTaskList, {t}), u) <=> OnDelay(pxDelayedTaskList, u) /\ u \notin {t}
    BY <2>2, OffIs
  <2>4. /\ Off(pxOverflowDelayedTaskList, {t}) \in Seq(Sleepers)
        /\ InTime(Off(pxOverflowDelayedTaskList, {t}), wakeTime)
        /\ \A u : OnDelay(Off(pxOverflowDelayedTaskList, {t}), u) <=> OnDelay(pxOverflowDelayedTaskList, u) /\ u \notin {t}
    BY <2>2, OffIs
  <2>5. Ahead(Off(pxDelayedTaskList, {t}), xTickCount, xNextTaskUnblockTime)
    BY <2>2, OffAhead
  <2>6. ClockTyped'
    BY <1>1, <1>2, <2>1, <2>3, <2>4 DEF ClockTyped
  <2>7. \A u : (OnNow(u)' <=> OnNow(u) /\ u # t) /\ (OnNext(u)' <=> OnNext(u) /\ u # t)
    BY <2>1, <2>3, <2>4 DEF OnNow, OnNext
  <2>8. ListsInTime'
    <3>1. Ahead(pxDelayedTaskList, xTickCount, xNextTaskUnblockTime)'
      BY <1>2, <2>1, <2>5 DEF Ahead
    <3>2. InTime(pxDelayedTaskList, wakeTime)' /\ InTime(pxOverflowDelayedTaskList, wakeTime)'
      BY <2>1, <2>3, <2>4 DEF InTime
    <3>3. \A u \in Sleepers : ~(OnDelay(pxDelayedTaskList, u)' /\ OnDelay(pxOverflowDelayedTaskList, u)')
      BY <1>1, <2>7 DEF OnNow, OnNext, ListsInTime
    <3> QED BY <3>1, <3>2, <3>3 DEF ListsInTime
  <2>9. Awaiting'
    BY <1>1, <1>2, <2>1, <2>7 DEF Awaiting, Sleeping
  <2>10. Suspending'
    BY <1>1, <1>2, <2>1 DEF Suspending
  <2>11. ASSUME NEW u \in Sleepers, u # t PROVE (TaskOK(u) => TaskOK(u)') /\ (WaitExact(u) => WaitExact(u)')
    <3>1. Same(u)
      BY <1>2, <2>1, <2>7, <2>11 DEF Same, SameAsk
    <3> QED BY <1>4, <3>1, Untouched
  <2>12. (TaskOK(t) => TaskOK(t)') /\ (WaitExact(t) => WaitExact(t)')
    <3>1. Clock' = Clock /\ NotedAt(t)' = NotedAt(t) /\ Since(t)' = Since(t) /\ Left(t)' = Left(t)
      BY <1>2 DEF Clock, NotedAt, Since, Left
    <3>2. ~OnNow(t)' /\ ~OnNext(t)'
      BY <2>7
    <3>3. AtLeast0(ticksToWait[t] - Since(t))' = AtLeast0(ticksToWait[t] - Since(t))
      BY <1>2, <3>1 DEF AtLeast0
    <3>4. TaskOK(t) => TaskOK(t)'
      BY <1>2, <1>3, <3>1, <3>3 DEF TaskOK, DelayOK, WaitOK
    <3>5. OnTime(t)'
      BY <3>2 DEF OnTime
    <3>6. WaitExact(t) => WaitExact(t)'
      BY <1>2, <3>1, <3>3, <3>5 DEF WaitExact
    <3> QED BY <3>4, <3>6
  <2>13. AsksOK' /\ (WaitsExact => WaitsExact')
    BY <1>1, <2>11, <2>12 DEF AsksOK, WaitsExact
  <2> QED BY <1>4, <2>6, <2>8, <2>9, <2>10, <2>13 DEF TicksInv
<1>6. CASE uxSchedulerSuspended # NoSleeper
  <2>1. /\ xPendingReadyList' = xPendingReadyList \cup {t}
        /\ UNCHANGED <<pxDelayedTaskList, pxOverflowDelayedTaskList, xSuspendedTaskList, wakeTime>>
    BY <1>6 DEF RemoveFromEventList, delayLists
  <2>2. \A u : (OnNow(u)' <=> OnNow(u)) /\ (OnNext(u)' <=> OnNext(u)) /\ (Sleeping(u)' <=> Sleeping(u))
    BY <2>1 DEF OnNow, OnNext, Sleeping, OnDelay
  <2>3. ClockTyped' /\ ListsInTime'
    BY <1>1, <1>2, <2>1 DEF ClockTyped, ListsInTime, InTime, Ahead, OnDelay
  <2>4. Awaiting'
    BY <1>1, <1>2, <1>3, <2>1, <2>2 DEF Awaiting
  <2>5. Suspending'
    BY <1>1, <1>2, <1>6, <2>1 DEF Suspending
  <2>6. ASSUME NEW u \in Sleepers PROVE (TaskOK(u) => TaskOK(u)') /\ (WaitExact(u) => WaitExact(u)')
    <3>1. Same(u)
      BY <1>2, <2>1, <2>2 DEF Same, SameAsk
    <3> QED BY <1>4, <3>1, Untouched
  <2>7. AsksOK' /\ (WaitsExact => WaitsExact')
    BY <1>1, <2>6 DEF AsksOK, WaitsExact
  <2> QED BY <1>4, <2>3, <2>4, <2>5, <2>7 DEF TicksInv
<1> QED BY <1>5, <1>6

\* Of the tasks, only t is changed.
OnlyOf(t) == /\ \A u \in Sleepers \ {t} : /\ SameAsk(u) /\ sleepPc'[u] = sleepPc[u]
                                          /\ asked'[u] = asked[u] /\ waited'[u] = waited[u]
             /\ UNCHANGED <<xPendingReadyList, xTickCount, xNumOfOverflows, uxPendedTicks>>

\* A task that runs is on no list.
LEMMA AwakeIs ==
    ASSUME TicksInv, NEW t \in Sleepers, Awake(t)
    PROVE  /\ ~OnNow(t) /\ ~OnNext(t) /\ ~Sleeping(t) /\ t \notin xSuspendedTaskList /\ t \notin awaited
           /\ uxSchedulerSuspended = NoSleeper => t \notin xPendingReadyList
<1>1. ~OnDelay(pxDelayedTaskList \o pxOverflowDelayedTaskList, t)
  BY DEF Awake
<1>2. ~OnNow(t) /\ ~OnNext(t)
  BY <1>1, OnJoined DEF OnNow, OnNext, TicksInv, ClockTyped
<1>3. ~Sleeping(t) /\ t \notin xSuspendedTaskList
  BY <1>2 DEF Sleeping, Awake
<1> QED BY <1>2, <1>3 DEF TicksInv, Awaiting, Suspending

\* A step of a task that leaves the lists and the clock alone.
LEMMA OwnStep ==
    ASSUME TicksInv, NEW t \in Sleepers, OnlyOf(t),
           UNCHANGED <<xNextTaskUnblockTime, delayLists, awaited>>,
           uxSchedulerSuspended' \in Sleepers \cup {NoSleeper}, AskTyped', Suspending', sleeps' \in 0..MaxAsks,
           asks'[t] = asks[t] \/ (t \notin awaited /\ t \notin xPendingReadyList)
    PROVE  /\ TaskOK(t)' => TicksInv'
           /\ WaitsExact /\ WaitExact(t)' => WaitsExact'
<1>1. /\ ClockTyped /\ ListsInTime /\ Awaiting /\ AsksOK /\ Bounds
  BY DEF TicksInv
<1>2. /\ UNCHANGED <<xTickCount, xNumOfOverflows, uxPendedTicks, xPendingReadyList, pxDelayedTaskList,
                     pxOverflowDelayedTaskList, xSuspendedTaskList, wakeTime, xNextTaskUnblockTime, awaited>>
  BY DEF OnlyOf, delayLists
<1>3. ClockTyped' /\ ListsInTime'
  BY <1>1, <1>2 DEF ClockTyped, ListsInTime, InTime, Ahead, OnDelay
<1>4. \A u : (OnNow(u)' <=> OnNow(u)) /\ (OnNext(u)' <=> OnNext(u)) /\ (Sleeping(u)' <=> Sleeping(u))
  BY <1>2 DEF OnNow, OnNext, Sleeping, OnDelay
<1>5. Awaiting'
  BY <1>1, <1>2, <1>4 DEF Awaiting, OnlyOf, SameAsk
<1>6. Bounds'
  BY <1>1, <1>2 DEF Bounds, Clock
<1>7. ASSUME NEW u \in Sleepers, u # t PROVE (TaskOK(u) => TaskOK(u)') /\ (WaitExact(u) => WaitExact(u)')
  <2>1. Same(u) /\ SameClock
    BY <1>2, <1>4, <1>7 DEF Same, OnlyOf, SameClock
  <2> QED BY <2>1, Untouched
<1>8. TaskOK(t)' => AsksOK'
  BY <1>1, <1>7 DEF AsksOK
<1>9. WaitsExact /\ WaitExact(t)' => WaitsExact'
  BY <1>7 DEF WaitsExact
<1> QED BY <1>3, <1>5, <1>6, <1>8, <1>9 DEF TicksInv

\* A step of a task moves that task alone.
LEMMA SleepToIs ==
    ASSUME TicksInv, NEW t \in Sleepers, NEW from, NEW to \in TickPlaces, SleepTo(t, from, to)
    PROVE  /\ Awake(t) /\ sleepPc[t] = from /\ sleepPc'[t] = to
           /\ \A u \in Sleepers \ {t} : sleepPc'[u] = sleepPc[u]
           /\ sleepPc' \in [Sleepers -> TickPlaces]
<1>1. sleepPc \in [Sleepers -> TickPlaces]
  BY DEF TicksInv, AskTyped
<1> QED BY <1>1 DEF SleepTo

\* by vTaskSuspendAll,
LEMMA SuspendAllKeeps ==
    ASSUME TicksInv, NEW t \in Sleepers, SuspendAll(t)
    PROVE  TicksInv' /\ (WaitsExact => WaitsExact')
<1>1. /\ uxSchedulerSuspended = NoSleeper /\ SleepTo(t, "noted", "check") /\ uxSchedulerSuspended' = t
      /\ UNCHANGED <<xTickCount, xNumOfOverflows, uxPendedTicks, xNextTaskUnblockTime, delayLists,
                     xPendingReadyList, awaited, ticksToWait, timeOut, asks, asked, waited, sleeps>>
  BY DEF SuspendAll, clockVars, timeVars, askVars
<1>2. "check" \in TickPlaces
  BY DEF TickPlaces
<1>3. /\ Awake(t) /\ sleepPc[t] = "noted" /\ sleepPc'[t] = "check"
      /\ \A u \in Sleepers \ {t} : sleepPc'[u] = sleepPc[u]
      /\ sleepPc' \in [Sleepers -> TickPlaces]
  BY <1>1, <1>2, SleepToIs
<1>4. AskTyped' /\ sleeps' \in 0..MaxAsks
  BY <1>1, <1>3 DEF TicksInv, AskTyped, Bounds
<1>5. Suspending'
  <2>1. \A u \in Sleepers \ {t} : sleepPc[u] \notin {"check", "add", "resume", "late"}
    BY <1>1, KernelTicksAssumption DEF TicksInv, Suspending
  <2>2. uxSchedulerSuspended' # NoSleeper
    BY <1>1, KernelTicksAssumption
  <2> QED BY <1>1, <1>3, <2>1, <2>2 DEF Suspending
<1>6. OnlyOf(t)
  BY <1>1, <1>3 DEF OnlyOf, SameAsk
<1>7. /\ TaskOK(t)' => TicksInv'
      /\ WaitsExact /\ WaitExact(t)' => WaitsExact'
  BY <1>1, <1>4, <1>5, <1>6, OwnStep
<1>8. TaskOK(t) /\ asks[t] = "wait"
  <2>1. TaskOK(t) /\ asks[t] \in {"delay", "wait"}
    BY DEF TicksInv, AsksOK, AskTyped
  <2> QED BY <1>3, <2>1 DEF TaskOK, DelayOK
<1>9. /\ Clock' = Clock /\ NotedAt(t)' = NotedAt(t) /\ Since(t)' = Since(t) /\ Left(t)' = Left(t)
      /\ ticksToWait'[t] = ticksToWait[t] /\ asks'[t] = "wait"
  BY <1>1, <1>8 DEF Clock, NotedAt, Since, Left
<1>10. AtLeast0(ticksToWait[t] - Since(t))' = AtLeast0(ticksToWait[t] - Since(t))
  BY <1>9 DEF AtLeast0
<1>11. TaskOK(t)'
  BY <1>3, <1>8, <1>9, <1>10 DEF TaskOK, DelayOK, WaitOK
<1>12. OnTime(t)'
  <2>1. ~OnNow(t)' /\ ~OnNext(t)'
    BY <1>1, <1>3, AwakeIs DEF OnNow, OnNext, OnDelay, delayLists
  <2> QED BY <2>1 DEF OnTime
<1>13. WaitExact(t) => WaitExact(t)'
  BY <1>3, <1>8, <1>9, <1>10, <1>12 DEF WaitExact
<1> QED BY <1>7, <1>11, <1>13 DEF WaitsExact

\* by a wait that goes round again,
LEMMA AgainKeeps ==
    ASSUME TicksInv, NEW t \in Sleepers, Again(t)
    PROVE  TicksInv' /\ (WaitsExact => WaitsExact')
<1>1. /\ asks[t] = "wait" /\ uxSchedulerSuspended = NoSleeper /\ SleepTo(t, "asleep", "noted")
      /\ UNCHANGED <<xTickCount, xNumOfOverflows, uxPendedTicks, xNextTaskUnblockTime, uxSchedulerSuspended, delayLists,
                     xPendingReadyList, awaited, ticksToWait, timeOut, asks, asked, waited, sleeps>>
  BY DEF Again, clockVars, timeVars, askVars
<1>2. "noted" \in TickPlaces
  BY DEF TickPlaces
<1>3. /\ Awake(t) /\ sleepPc[t] = "asleep" /\ sleepPc'[t] = "noted"
      /\ \A u \in Sleepers \ {t} : sleepPc'[u] = sleepPc[u]
      /\ sleepPc' \in [Sleepers -> TickPlaces]
  BY <1>1, <1>2, SleepToIs
<1>4. AskTyped' /\ sleeps' \in 0..MaxAsks /\ uxSchedulerSuspended' \in Sleepers \cup {NoSleeper}
  BY <1>1, <1>3 DEF TicksInv, AskTyped, Bounds, ClockTyped
<1>5. Suspending'
  BY <1>1, <1>3 DEF TicksInv, Suspending
<1>6. OnlyOf(t)
  BY <1>1, <1>3 DEF OnlyOf, SameAsk
<1>7. /\ TaskOK(t)' => TicksInv'
      /\ WaitsExact /\ WaitExact(t)' => WaitsExact'
  BY <1>1, <1>4, <1>5, <1>6, OwnStep
<1>8. TaskOK(t)
  BY DEF TicksInv, AsksOK
<1>9. /\ Clock' = Clock /\ NotedAt(t)' = NotedAt(t) /\ Since(t)' = Since(t) /\ Left(t)' = Left(t)
      /\ ticksToWait'[t] = ticksToWait[t] /\ asks'[t] = "wait"
  BY <1>1 DEF Clock, NotedAt, Since, Left
<1>10. AtLeast0(ticksToWait[t] - Since(t))' = AtLeast0(ticksToWait[t] - Since(t))
  BY <1>9 DEF AtLeast0
<1>11. TaskOK(t)'
  BY <1>1, <1>3, <1>8, <1>9, <1>10 DEF TaskOK, DelayOK, WaitOK
<1>12. OnTime(t)'
  <2>1. ~OnNow(t)' /\ ~OnNext(t)'
    BY <1>1, <1>3, AwakeIs DEF OnNow, OnNext, OnDelay, delayLists
  <2> QED BY <2>1 DEF OnTime
<1>13. WaitExact(t) => WaitExact(t)'
  BY <1>1, <1>3, <1>9, <1>10, <1>12 DEF WaitExact
<1> QED BY <1>7, <1>11, <1>13 DEF WaitsExact

\* by a return,
LEMMA ReturnsKeeps ==
    ASSUME TicksInv, NEW t \in Sleepers, NEW from, Returns(t, from)
    PROVE  TicksInv' /\ (WaitsExact => WaitsExact')
<1>1. /\ uxSchedulerSuspended = NoSleeper /\ SleepTo(t, from, "runs")
      /\ asked' = [asked EXCEPT ![t] = 0] /\ waited' = [waited EXCEPT ![t] = 0]
      /\ ticksToWait' = [ticksToWait EXCEPT ![t] = 0] /\ asks' = [asks EXCEPT ![t] = "delay"]
      /\ timeOut' = [timeOut EXCEPT ![t] = NoTime]
      /\ UNCHANGED <<xTickCount, xNumOfOverflows, uxPendedTicks, xNextTaskUnblockTime, uxSchedulerSuspended, delayLists,
                     xPendingReadyList, awaited, sleeps>>
  BY DEF Returns, clockVars
<1>2. "runs" \in TickPlaces
  BY DEF TickPlaces
<1>3. /\ Awake(t) /\ sleepPc[t] = from /\ sleepPc'[t] = "runs"
      /\ \A u \in Sleepers \ {t} : sleepPc'[u] = sleepPc[u]
      /\ sleepPc' \in [Sleepers -> TickPlaces]
  BY <1>1, <1>2, SleepToIs
<1>4. AskTyped
  BY DEF TicksInv
<1>5. /\ asked'[t] = 0 /\ waited'[t] = 0 /\ asks'[t] = "delay"
      /\ \A u \in Sleepers \ {t} : /\ asked'[u] = asked[u] /\ waited'[u] = waited[u] /\ asks'[u] = asks[u]
                                   /\ ticksToWait'[u] = ticksToWait[u] /\ timeOut'[u] = timeOut[u]
  BY <1>1, <1>4 DEF AskTyped
<1>6. AskTyped'
  <2>1. 0 \in Moments /\ NoTime \in [xOverflowCount : Nat, xTimeOnEntering : Moments]
    BY TickWordIs DEF Moments, NoTime
  <2>2. /\ asked' \in [Sleepers -> Nat] /\ waited' \in [Sleepers -> Nat] /\ ticksToWait' \in [Sleepers -> Moments]
        /\ asks' \in [Sleepers -> {"delay", "wait"}]
        /\ timeOut' \in [Sleepers -> [xOverflowCount : Nat, xTimeOnEntering : Moments]]
    BY <1>1, <1>4, <2>1 DEF AskTyped
  <2>3. ASSUME NEW u \in Sleepers PROVE waited'[u] <= asked'[u]
    BY <1>4, <1>5 DEF AskTyped
  <2> QED BY <1>3, <2>2, <2>3 DEF AskTyped
<1>7. Suspending' /\ sleeps' \in 0..MaxAsks /\ uxSchedulerSuspended' \in Sleepers \cup {NoSleeper}
  BY <1>1, <1>3 DEF TicksInv, Suspending, Bounds, ClockTyped
<1>8. OnlyOf(t)
  BY <1>1, <1>3, <1>5 DEF OnlyOf, SameAsk
<1>9. t \notin awaited /\ t \notin xPendingReadyList /\ ~OnNow(t) /\ ~OnNext(t)
  BY <1>1, <1>3, AwakeIs
<1>10. /\ TaskOK(t)' => TicksInv'
       /\ WaitsExact /\ WaitExact(t)' => WaitsExact'
  BY <1>1, <1>6, <1>7, <1>8, <1>9, OwnStep
<1>11. OnTime(t)'
  <2>1. ~OnNow(t)' /\ ~OnNext(t)'
    BY <1>1, <1>9 DEF OnNow, OnNext, OnDelay, delayLists
  <2> QED BY <2>1 DEF OnTime
<1>12. TaskOK(t)' /\ WaitExact(t)'
  BY <1>3, <1>5, <1>11 DEF TaskOK, DelayOK, WaitOK, WaitExact
<1> QED BY <1>10, <1>12

\* by a call,
LEMMA AskKeeps ==
    ASSUME TicksInv, NEW t \in Sleepers, Ask(t)
    PROVE  TicksInv' /\ (WaitsExact => WaitsExact')
<1>1. PICK n \in 1..portMAX_DELAY, what \in {"delay", "wait"} :
        /\ uxSchedulerSuspended = NoSleeper /\ sleeps < MaxAsks /\ sleeps' = sleeps + 1
        /\ SleepTo(t, "runs", IF what = "delay" THEN "add" ELSE "noted")
        /\ uxSchedulerSuspended' = IF what = "delay" THEN t ELSE NoSleeper
        /\ asks' = [asks EXCEPT ![t] = what] /\ ticksToWait' = [ticksToWait EXCEPT ![t] = n]
        /\ asked' = [asked EXCEPT ![t] = n] /\ waited' = [waited EXCEPT ![t] = 0]
        /\ timeOut' = [timeOut EXCEPT ![t] = IF what = "wait" THEN Now ELSE @]
        /\ UNCHANGED <<clockVars, delayLists, xPendingReadyList, awaited>>
  BY DEF Ask
<1> DEFINE to == IF what = "delay" THEN "add" ELSE "noted"
<1>2. to \in TickPlaces
  BY DEF TickPlaces
<1> HIDE DEF to
<1>3. /\ Awake(t) /\ sleepPc[t] = "runs" /\ sleepPc'[t] = to
      /\ \A u \in Sleepers \ {t} : sleepPc'[u] = sleepPc[u]
      /\ sleepPc' \in [Sleepers -> TickPlaces]
  <2>1. SleepTo(t, "runs", to)
    BY <1>1 DEF to
  <2> QED BY <1>2, <2>1, SleepToIs
<1>4. AskTyped /\ ClockTyped /\ Suspending /\ Bounds
  BY DEF TicksInv
<1>5. /\ asked'[t] = n /\ waited'[t] = 0 /\ asks'[t] = what /\ ticksToWait'[t] = n
      /\ timeOut'[t] = IF what = "wait" THEN Now ELSE timeOut[t]
      /\ \A u \in Sleepers \ {t} : /\ asked'[u] = asked[u] /\ waited'[u] = waited[u] /\ asks'[u] = asks[u]
                                   /\ ticksToWait'[u] = ticksToWait[u] /\ timeOut'[u] = timeOut[u]
  BY <1>1, <1>4 DEF AskTyped
<1>6. n \in Moments /\ n \in Nat /\ n > 0 /\ 0 \in Nat
  BY TickWordIs DEF Moments, portMAX_DELAY
<1>7. AskTyped'
  <2>1. Now \in [xOverflowCount : Nat, xTimeOnEntering : Moments]
    BY <1>4 DEF ClockTyped, Now
  <2>2. /\ asked' \in [Sleepers -> Nat] /\ waited' \in [Sleepers -> Nat] /\ ticksToWait' \in [Sleepers -> Moments]
        /\ asks' \in [Sleepers -> {"delay", "wait"}]
        /\ timeOut' \in [Sleepers -> [xOverflowCount : Nat, xTimeOnEntering : Moments]]
    BY <1>1, <1>4, <1>6, <2>1 DEF AskTyped
  <2>3. ASSUME NEW u \in Sleepers PROVE waited'[u] <= asked'[u]
    BY <1>4, <1>5, <1>6 DEF AskTyped
  <2> QED BY <1>3, <2>2, <2>3 DEF AskTyped
<1>8. UNCHANGED <<xTickCount, xNumOfOverflows, uxPendedTicks, xNextTaskUnblockTime, delayLists, xPendingReadyList, awaited>>
  BY <1>1 DEF clockVars
<1>9. uxPendedTicks = 0 /\ xPendingReadyList = {}
  BY <1>1, <1>4 DEF Suspending
<1>10. Suspending' /\ uxSchedulerSuspended' \in Sleepers \cup {NoSleeper}
  <2>1. \A u \in Sleepers \ {t} : sleepPc[u] \notin {"check", "add", "resume", "late"}
    BY <1>1, <1>4, KernelTicksAssumption DEF Suspending
  <2>2. \A u \in Sleepers \ {t} : sleepPc'[u] \notin {"check", "add", "resume", "late"}
    BY <1>3, <2>1
  <2>3. sleepPc'[t] \in {"check", "add", "resume", "late"} => uxSchedulerSuspended' = t
    BY <1>1, <1>3 DEF to
  <2> QED BY <1>1, <1>8, <1>9, <2>2, <2>3 DEF Suspending
<1>11. sleeps' \in 0..MaxAsks
  BY <1>1, <1>4, KernelTicksAssumption DEF Bounds
<1>12. OnlyOf(t)
  BY <1>3, <1>5, <1>8 DEF OnlyOf, SameAsk
<1>13. t \notin awaited /\ t \notin xPendingReadyList /\ ~OnNow(t) /\ ~OnNext(t)
  BY <1>1, <1>3, AwakeIs
<1>14. /\ TaskOK(t)' => TicksInv'
       /\ WaitsExact /\ WaitExact(t)' => WaitsExact'
  BY <1>7, <1>8, <1>10, <1>11, <1>12, <1>13, OwnStep
<1>15. OnTime(t)'
  <2>1. ~OnNow(t)' /\ ~OnNext(t)'
    BY <1>8, <1>13 DEF OnNow, OnNext, OnDelay, delayLists
  <2> QED BY <2>1 DEF OnTime
<1>16. Left(t)' = n /\ AtLeast0(n - 0) = n
  BY <1>5, <1>6 DEF Left, AtLeast0
<1>17. CASE what = "delay"
  <2>1. AtLeast0(ticksToWait[t] - uxPendedTicks)' = AtLeast0(n - 0)
    BY <1>5, <1>8, <1>9 DEF AtLeast0
  <2> QED BY <1>3, <1>5, <1>6, <1>14, <1>15, <1>16, <1>17, <2>1 DEF TaskOK, DelayOK, WaitOK, WaitExact, to
<1>18. CASE what = "wait"
  <2>1. timeOut'[t].xOverflowCount = xNumOfOverflows /\ timeOut'[t].xTimeOnEntering = xTickCount
    BY <1>5, <1>18 DEF Now
  <2>2. NotedAt(t)' = Clock /\ Clock' = Clock
    BY <1>8, <2>1 DEF NotedAt, Clock
  <2>3. Clock \in Int
    BY <1>4, TickWordIs DEF Clock, ClockTyped, Moments
  <2>4. Since(t)' = 0
    <3>1. Since(t)' = Clock + 0 - Clock
      BY <1>8, <1>9, <2>2 DEF Since
    <3> QED BY <2>3, <3>1
  <2>5. AtLeast0(ticksToWait[t] - Since(t))' = AtLeast0(n - 0)
    BY <1>5, <2>4 DEF AtLeast0
  <2>6. NotedAt(t)' <= Clock' /\ Left(t)' <= n
    BY <1>6, <1>16, <2>2, <2>3
  <2>7. sleepPc'[t] = "noted" /\ asks'[t] = "wait"
    BY <1>3, <1>5, <1>18 DEF to
  <2> QED BY <1>5, <1>6, <1>14, <1>15, <1>16, <2>5, <2>6, <2>7 DEF TaskOK, DelayOK, WaitOK, WaitExact
<1> QED BY <1>17, <1>18

\* Multiples of the period of the counter.
LEMMA Periods ==
    ASSUME NEW W \in Nat \ {0}, NEW r \in Nat, NEW s \in Nat
    PROVE  /\ r * W \in Nat /\ s * W \in Nat
           /\ r = s => r * W = s * W
           /\ r > s => r * W = s * W + W \/ r * W >= s * W + 2 * W
           /\ r < s => r * W + W <= s * W
<1>1. ASSUME NEW k \in Nat
      PROVE  k * W \in Nat /\ (k = 1 => k * W = W) /\ (k >= 1 => k * W >= W) /\ (k >= 2 => k * W >= 2 * W)
  <2>1. CASE k = 0
    BY <2>1
  <2>2. CASE k = 1
    BY <2>2
  <2>3. CASE k >= 2
    <3>1. PICK j \in Nat : k = j + 2
      <4>1. k - 2 \in Nat /\ k = (k - 2) + 2
        BY <2>3
      <4> QED BY <4>1
    <3>2. k * W = j * W + 2 * W /\ j * W >= 0 /\ j * W \in Int
      BY <3>1
    <3> QED BY <2>3, <3>2
  <2> QED BY <2>1, <2>2, <2>3
<1>2. ASSUME NEW a \in Nat, NEW b \in Nat, a > b PROVE a * W = b * W + W \/ a * W >= b * W + 2 * W
  <2>1. a - b \in Nat /\ (a - b = 1 \/ a - b >= 2)
    BY <1>2
  <2>2. (a - b = 1 => (a - b) * W = W) /\ (a - b >= 2 => (a - b) * W >= 2 * W)
    BY <1>1, <2>1
  <2>3. (a - b) * W = a * W - b * W /\ a * W \in Int /\ b * W \in Int
    OBVIOUS
  <2> QED BY <2>1, <2>2, <2>3
<1>3. r * W \in Nat /\ s * W \in Nat
  BY <1>1
<1>4. r < s => r * W + W <= s * W
  <2>1. r < s => s * W = r * W + W \/ s * W >= r * W + 2 * W
    BY <1>2
  <2> QED BY <1>3, <2>1
<1> QED BY <1>2, <1>3, <1>4

\* The same, with the rounds multiplied out, so that the rest is linear.
LEMMA Linear ==
    ASSUME NEW W \in Nat \ {0}, NEW r \in Nat, NEW s \in Nat, NEW x \in 0..W - 1, NEW y \in 0..W - 1,
           NEW p \in Nat, NEW q \in Nat, q + y <= p + x,
           r = s => p = q, r > s => p = q + W \/ p >= q + 2 * W, r < s => p + W <= q,
           NEW d, d = (p + x) - (q + y), NEW e, e = IF x >= y THEN x - y ELSE x - y + W
    PROVE  /\ e \in 0..W - 1 /\ d \in Nat /\ e <= d
           /\ r # s /\ x >= y => d >= W
           /\ ~(r # s /\ x >= y) /\ d <= W => e = d
<1>1. CASE r = s
  BY <1>1
<1>2. CASE r > s
  BY <1>2
<1>3. CASE r < s
  BY <1>3
<1> QED BY <1>1, <1>2, <1>3

\* The difference of two moments, of which d ticks apart, as the counter shows it.
LEMMA Rounds ==
    ASSUME NEW W \in Nat \ {0}, NEW r \in Nat, NEW s \in Nat, NEW x \in 0..W - 1, NEW y \in 0..W - 1,
           s * W + y <= r * W + x,
           NEW d, d = (r * W + x) - (s * W + y), NEW e, e = (x - y + W) % W
    PROVE  /\ e \in 0..W - 1 /\ d \in Nat /\ e <= d
           /\ r # s /\ x >= y => d >= W
           /\ ~(r # s /\ x >= y) /\ d <= W => e = d
<1>1. /\ r * W \in Nat /\ s * W \in Nat
      /\ r = s => r * W = s * W
      /\ r > s => r * W = s * W + W \/ r * W >= s * W + 2 * W
      /\ r < s => r * W + W <= s * W
  BY Periods
<1>2. e = IF x >= y THEN x - y ELSE x - y + W
  <2>1. x - y + W \in 0..2 * W
    OBVIOUS
  <2>2. e = IF x - y + W < W THEN x - y + W ELSE IF x - y + W < 2 * W THEN (x - y + W) - W ELSE 0
    BY <2>1, Round
  <2> QED BY <2>2
<1> QED BY <1>1, <1>2, Linear

\* by the test of the time-out,
LEMMA CheckWaitKeeps ==
    ASSUME TicksInv, NEW t \in Sleepers, CheckWait(t)
    PROVE  TicksInv' /\ (WaitsExact /\ Prompt => WaitsExact')
<1>1. /\ CheckForTimeOut(t)
      /\ UNCHANGED <<xTickCount, xNumOfOverflows, uxPendedTicks, xNextTaskUnblockTime, uxSchedulerSuspended, delayLists,
                     xPendingReadyList, awaited, asks, asked, waited, sleeps>>
  BY DEF CheckWait, clockVars, askVars
<1>2. AskTyped /\ ClockTyped /\ Suspending /\ Bounds /\ TaskOK(t)
  BY DEF TicksInv, AsksOK
<1>3. PICK to \in {"add", "late"} : SleepTo(t, "check", to)
  BY <1>1 DEF CheckForTimeOut
<1>4. to \in TickPlaces
  BY DEF TickPlaces
<1>5. /\ Awake(t) /\ sleepPc[t] = "check" /\ sleepPc'[t] = to
      /\ \A u \in Sleepers \ {t} : sleepPc'[u] = sleepPc[u]
      /\ sleepPc' \in [Sleepers -> TickPlaces]
  BY <1>3, <1>4, SleepToIs
<1>6. asks[t] = "wait" /\ uxSchedulerSuspended = t /\ ticksToWait[t] > 0
  BY <1>2, <1>5 DEF TaskOK, DelayOK, Suspending, AskTyped
<1> DEFINE x == xTickCount
           r == xNumOfOverflows
           y == timeOut[t].xTimeOnEntering
           s == timeOut[t].xOverflowCount
           d == Clock - NotedAt(t)
           e == Elapsed(t)
           tw == ticksToWait[t]
<1>7. /\ TickWord \in Nat \ {0} /\ x \in 0..TickWord - 1 /\ y \in 0..TickWord - 1 /\ r \in Nat /\ s \in Nat
      /\ tw \in 0..TickWord - 1 /\ uxPendedTicks \in Nat
  <2>1. timeOut[t] \in [xOverflowCount : Nat, xTimeOnEntering : 0..TickWord - 1] /\ tw \in 0..TickWord - 1
    BY <1>2 DEF AskTyped, Moments
  <2>2. TickWord \in Nat \ {0} /\ x \in 0..TickWord - 1 /\ r \in Nat /\ uxPendedTicks \in Nat
    BY <1>2, TickWordIs DEF ClockTyped, Moments
  <2>3. y \in 0..TickWord - 1 /\ s \in Nat
    BY <2>1
  <2> QED BY <2>1, <2>2, <2>3
<1>8. NotedAt(t) <= Clock /\ Left(t) <= AtLeast0(tw - Since(t)) /\ Left(t) \in Nat
  <2>1. asked[t] \in Nat /\ waited[t] \in Nat /\ waited[t] <= asked[t]
    BY <1>2 DEF AskTyped
  <2>2. Left(t) \in Nat
    BY <2>1 DEF Left
  <2> QED BY <1>2, <1>6, <2>2 DEF TaskOK, WaitOK
<1>9. /\ e \in 0..TickWord - 1 /\ d \in Nat /\ e <= d
      /\ WrappedPast(t) => d >= TickWord
      /\ ~WrappedPast(t) /\ d <= TickWord => e = d
  <2>1. s * TickWord + y <= r * TickWord + x /\ d = (r * TickWord + x) - (s * TickWord + y)
    BY <1>8 DEF Clock, NotedAt
  <2>2. e = (x - y + TickWord) % TickWord
    BY DEF Elapsed
  <2>3. WrappedPast(t) <=> r # s /\ x >= y
    BY DEF WrappedPast
  <2> HIDE DEF x, r, y, s, d, e
  <2> QED BY <1>7, <2>1, <2>2, <2>3, Rounds
<1>10. Since(t) = d + uxPendedTicks /\ Clock \in Int /\ NotedAt(t) \in Int
  <2>1. Clock \in Int /\ NotedAt(t) \in Int
    BY <1>7, Periods DEF Clock, NotedAt
  <2> QED BY <1>7, <2>1 DEF Since
<1> HIDE DEF x, r, y, s, d, e
<1>11. OnTime(t)'
  <2>1. ~OnNow(t)' /\ ~OnNext(t)'
    BY <1>1, <1>5, AwakeIs DEF OnNow, OnNext, OnDelay, delayLists
  <2> QED BY <2>1 DEF OnTime
<1>12. /\ Left(t)' = Left(t) /\ Clock' = Clock /\ asks'[t] = "wait"
  BY <1>1, <1>6 DEF Left, Clock
<1>13. ASSUME AskTyped', sleepPc'[t] # "check",
              \A u \in Sleepers \ {t} : ticksToWait'[u] = ticksToWait[u] /\ timeOut'[u] = timeOut[u]
       PROVE  /\ TaskOK(t)' => TicksInv'
              /\ WaitsExact /\ WaitExact(t)' => WaitsExact'
  <2>1. sleeps' \in 0..MaxAsks /\ uxSchedulerSuspended' \in Sleepers \cup {NoSleeper}
    BY <1>1, <1>2 DEF Bounds, ClockTyped
  <2>2. Suspending'
    BY <1>1, <1>2, <1>5, <1>6 DEF Suspending
  <2>3. OnlyOf(t)
    BY <1>1, <1>5, <1>13 DEF OnlyOf, SameAsk
  <2> QED BY <1>1, <1>13, <2>1, <2>2, <2>3, OwnStep
<1>14. ASSUME tw = portMAX_DELAY \/ WrappedPast(t) \/ ~(e < tw)
       PROVE  /\ UNCHANGED timeVars
              /\ to = "late" => WrappedPast(t) \/ ~(e < tw)
              /\ to = "add" => tw = portMAX_DELAY
  <2>1. \A v, w : SleepTo(t, v, w) => sleepPc'[t] = w
    BY <1>2 DEF SleepTo, AskTyped
  <2>2. CASE tw = portMAX_DELAY
    <3>1. SleepTo(t, "check", "add") /\ UNCHANGED timeVars
      BY <1>1, <2>2 DEF CheckForTimeOut
    <3> QED BY <1>5, <2>1, <2>2, <3>1
  <2>3. CASE tw # portMAX_DELAY
    <3>1. SleepTo(t, "check", "late") /\ UNCHANGED timeVars
      BY <1>1, <1>14, <2>3 DEF CheckForTimeOut, e
    <3> QED BY <1>5, <1>14, <2>1, <2>3, <3>1
  <2> QED BY <2>2, <2>3
<1>15. CASE tw = portMAX_DELAY \/ WrappedPast(t) \/ ~(e < tw)
  <2>1. UNCHANGED <<ticksToWait, timeOut>>
    BY <1>14, <1>15 DEF timeVars
  <2>2. AskTyped'
    BY <1>1, <1>2, <1>5, <2>1 DEF AskTyped
  <2>3. NotedAt(t)' = NotedAt(t) /\ Since(t)' = Since(t) /\ ticksToWait'[t] = tw
    BY <1>1, <2>1 DEF NotedAt, Since, Clock
  <2>4. AtLeast0(ticksToWait[t] - Since(t))' = AtLeast0(tw - Since(t))
    BY <2>3 DEF AtLeast0
  <2>5. to = "late" => Left(t) = 0
    <3>1. WrappedPast(t) \/ ~(e < tw) => tw <= d
      BY <1>7, <1>9
    <3>2. tw <= d => AtLeast0(tw - Since(t)) = 0
      BY <1>7, <1>9, <1>10 DEF AtLeast0
    <3> QED BY <1>8, <1>14, <1>15, <3>1, <3>2
  <2>6. NotedAt(t)' <= Clock' /\ Left(t)' <= AtLeast0(ticksToWait[t] - Since(t))'
    BY <1>8, <1>12, <2>3, <2>4
  <2>7. sleepPc'[t] \in {"late", "timed out"} => Left(t)' = 0
    BY <1>5, <1>12, <2>5
  <2>8. TaskOK(t)'
    BY <1>6, <1>12, <2>3, <2>6, <2>7 DEF TaskOK, DelayOK, WaitOK
  <2>9. WaitExact(t)'
    <3>1. to = "add" => ticksToWait'[t] = portMAX_DELAY
      BY <1>14, <1>15, <2>3
    <3>2. to = "late" => sleepPc'[t] = "late"
      BY <1>5
    <3> QED BY <1>5, <1>11, <3>1, <3>2 DEF WaitExact
  <2>10. sleepPc'[t] # "check"
    BY <1>5
  <2> QED BY <1>13, <2>1, <2>2, <2>8, <2>9, <2>10
<1>16. CASE tw # portMAX_DELAY /\ ~WrappedPast(t) /\ e < tw
  <2>1. /\ SleepTo(t, "check", "add") /\ timeOut' = [timeOut EXCEPT ![t] = Now]
        /\ ticksToWait' = [ticksToWait EXCEPT ![t] = @ - e]
    BY <1>1, <1>16 DEF CheckForTimeOut, e
  <2>2. sleepPc'[t] = "add"
    BY <1>2, <2>1 DEF SleepTo, AskTyped
  <2>3. tw - e \in Moments /\ tw - e > 0 /\ Now \in [xOverflowCount : Nat, xTimeOnEntering : Moments]
    BY <1>2, <1>7, <1>9, <1>16, TickWordIs DEF Moments, Now, ClockTyped
  <2>4. /\ ticksToWait'[t] = tw - e /\ timeOut'[t] = Now
        /\ \A u \in Sleepers \ {t} : ticksToWait'[u] = ticksToWait[u] /\ timeOut'[u] = timeOut[u]
    BY <1>2, <2>1 DEF AskTyped
  <2>5. AskTyped'
    <3>1. /\ ticksToWait' \in [Sleepers -> Moments]
          /\ timeOut' \in [Sleepers -> [xOverflowCount : Nat, xTimeOnEntering : Moments]]
      BY <1>2, <2>1, <2>3 DEF AskTyped
    <3> QED BY <1>1, <1>2, <1>5, <3>1 DEF AskTyped
  <2>6. NotedAt(t)' = Clock
    <3>1. timeOut'[t].xOverflowCount = xNumOfOverflows /\ timeOut'[t].xTimeOnEntering = xTickCount
      BY <2>4 DEF Now
    <3> QED BY <3>1 DEF NotedAt, Clock
  <2>7. Since(t)' = uxPendedTicks
    <3>1. Since(t)' = Clock + uxPendedTicks - Clock
      BY <1>1, <1>12, <2>6 DEF Since
    <3> QED BY <1>7, <1>10, <3>1
  <2>8. AtLeast0(ticksToWait[t] - Since(t))' = AtLeast0((tw - e) - uxPendedTicks)
    BY <2>4, <2>7 DEF AtLeast0
  <2>9. /\ AtLeast0(tw - Since(t)) <= AtLeast0((tw - e) - uxPendedTicks)
        /\ e = d => AtLeast0(tw - Since(t)) = AtLeast0((tw - e) - uxPendedTicks)
        /\ AtLeast0(tw - Since(t)) \in Int /\ AtLeast0((tw - e) - uxPendedTicks) \in Int
    BY <1>7, <1>9, <1>10 DEF AtLeast0
  <2>10. Left(t)' <= AtLeast0(ticksToWait[t] - Since(t))' /\ NotedAt(t)' <= Clock'
    BY <1>8, <1>10, <1>12, <2>6, <2>8, <2>9
  <2>11. TaskOK(t)'
    BY <1>12, <2>2, <2>3, <2>4, <2>10 DEF TaskOK, DelayOK, WaitOK
  <2>12. WaitsExact /\ Prompt => WaitExact(t)'
    <3> SUFFICES ASSUME WaitsExact, Prompt PROVE WaitExact(t)'
      OBVIOUS
    <3>1. Since(t) <= TickWord /\ Left(t) = AtLeast0(tw - Since(t))
      BY <1>5, <1>6, <1>16 DEF WaitsExact, WaitExact, Prompt
    <3>2. e = d
      BY <1>7, <1>9, <1>10, <1>16, <3>1
    <3>3. Left(t)' = AtLeast0(ticksToWait[t] - Since(t))'
      BY <1>12, <2>8, <2>9, <3>1, <3>2
    <3> QED BY <1>11, <1>12, <2>2, <2>6, <3>3 DEF WaitExact
  <2> QED BY <1>13, <2>2, <2>4, <2>5, <2>11, <2>12
<1> QED BY <1>15, <1>16

\* The other list, and the tasks on it, when one is put to sleep.
LEMMA StillInTime ==
    ASSUME NEW list \in Seq(Sleepers), wakeTime \in [Sleepers -> Moments], InTime(list, wakeTime),
           NEW t, ~OnDelay(list, t), NEW time
    PROVE  InTime(list, [wakeTime EXCEPT ![t] = time])
<1> DEFINE w == [wakeTime EXCEPT ![t] = time]
<1>1. \A i \in DOMAIN list : w[list[i]] = wakeTime[list[i]]
  <2>1. \A i \in DOMAIN list : list[i] # t /\ list[i] \in Sleepers
    BY DEF OnDelay
  <2> QED BY <2>1
<1> HIDE DEF w
<1>2. InTime(list, w)
  BY <1>1 DEF InTime
<1> QED BY <1>2 DEF w

\* The time until which a task sleeps.
LEMMA WakeTimeIs ==
    ASSUME NEW W \in Nat \ {0}, NEW x \in 0..W - 1, NEW n \in 1..W - 1, NEW time, time = (x + n) % W
    PROVE  /\ time \in 0..W - 1
           /\ time < x => time + W = x + n
           /\ ~(time < x) => time = x + n /\ time > x
<1>1. x + n \in 0..2 * W
  OBVIOUS
<1>2. time = IF x + n < W THEN x + n ELSE IF x + n < 2 * W THEN (x + n) - W ELSE 0
  BY <1>1, Round
<1> QED BY <1>2

\* and by putting a task to sleep.
LEMMA AddKeeps ==
    ASSUME TicksInv, NEW t \in Sleepers, Add(t)
    PROVE  TicksInv' /\ (WaitsExact => WaitsExact')
<1>1. /\ SleepTo(t, "add", "resume")
      /\ awaited' = IF asks[t] = "wait" THEN awaited \cup {t} ELSE awaited
      /\ UNCHANGED <<xTickCount, xNumOfOverflows, uxPendedTicks, uxSchedulerSuspended, xPendingReadyList,
                     ticksToWait, timeOut, asks, asked, waited, sleeps>>
  BY DEF Add, timeVars, askVars
<1>2. /\ ClockTyped /\ AskTyped /\ Suspending /\ ListsInTime /\ Awaiting /\ AsksOK /\ Bounds /\ TaskOK(t)
  BY DEF TicksInv, AsksOK
<1>3. "resume" \in TickPlaces
  BY DEF TickPlaces
<1>4. /\ Awake(t) /\ sleepPc[t] = "add" /\ sleepPc'[t] = "resume"
      /\ \A u \in Sleepers \ {t} : sleepPc'[u] = sleepPc[u]
      /\ sleepPc' \in [Sleepers -> TickPlaces]
  BY <1>1, <1>3, SleepToIs
<1>5. ~OnNow(t) /\ ~OnNext(t) /\ t \notin awaited
  BY <1>4, AwakeIs
<1>6. AskTyped' /\ Suspending' /\ Bounds' /\ SameClock
  BY <1>1, <1>2, <1>4 DEF AskTyped, Suspending, Bounds, Clock, SameClock
<1>7. /\ Clock' = Clock /\ NotedAt(t)' = NotedAt(t) /\ Since(t)' = Since(t) /\ Left(t)' = Left(t)
      /\ ticksToWait'[t] = ticksToWait[t] /\ asks'[t] = asks[t]
  BY <1>1 DEF Clock, NotedAt, Since, Left
<1>8. AtLeast0(ticksToWait[t] - Since(t))' = AtLeast0(ticksToWait[t] - Since(t))
  BY <1>7 DEF AtLeast0
<1>9. WaitOK(t)'
  BY <1>2, <1>4, <1>7, <1>8 DEF TaskOK, WaitOK
<1>10. ticksToWait[t] \in 1..TickWord - 1
  BY <1>2, <1>4, TickWordIs DEF TaskOK, AskTyped, Moments
<1>11. \A u \in Sleepers \ {t} : SameAsk(u) /\ sleepPc'[u] = sleepPc[u] /\ asked'[u] = asked[u] /\ waited'[u] = waited[u]
  BY <1>1, <1>4 DEF SameAsk
<1>12. CASE asks[t] = "wait" /\ ticksToWait[t] = portMAX_DELAY
  <2>1. /\ xSuspendedTaskList' = xSuspendedTaskList \cup {t}
        /\ UNCHANGED <<wakeTime, pxDelayedTaskList, pxOverflowDelayedTaskList, xNextTaskUnblockTime>>
    BY <1>12 DEF Add
  <2>2. \A u : (OnNow(u)' <=> OnNow(u)) /\ (OnNext(u)' <=> OnNext(u)) /\ (Sleeping(u)' <=> Sleeping(u))
    BY <2>1 DEF OnNow, OnNext, Sleeping, OnDelay
  <2>3. ClockTyped' /\ ListsInTime'
    BY <1>1, <1>2, <2>1 DEF ClockTyped, ListsInTime, InTime, Ahead, OnDelay
  <2>4. Awaiting'
    BY <1>1, <1>2, <1>12, <2>1, <2>2 DEF Awaiting
  <2>5. ASSUME NEW u \in Sleepers \ {t} PROVE (TaskOK(u) => TaskOK(u)') /\ (WaitExact(u) => WaitExact(u)')
    <3>1. Same(u)
      BY <1>11, <2>1, <2>2 DEF Same
    <3> QED BY <1>6, <3>1, Untouched
  <2>6. TaskOK(t)'
    BY <1>7, <1>9, <1>10, <1>12 DEF TaskOK, DelayOK
  <2>7. WaitExact(t)'
    <3>1. OnTime(t)'
      BY <1>5, <2>2 DEF OnTime
    <3> QED BY <1>7, <1>12, <3>1 DEF WaitExact
  <2>8. AsksOK' /\ (WaitsExact => WaitsExact')
    BY <1>2, <2>5, <2>6, <2>7 DEF AsksOK, WaitsExact
  <2> QED BY <1>6, <2>3, <2>4, <2>8 DEF TicksInv
<1>13. CASE ~(asks[t] = "wait" /\ ticksToWait[t] = portMAX_DELAY)
  <2> DEFINE time == (xTickCount + ticksToWait[t]) % TickWord
  <2>1. /\ wakeTime' = [wakeTime EXCEPT ![t] = time] /\ AddToDelayedList(t, time)
        /\ UNCHANGED xSuspendedTaskList
    BY <1>13 DEF Add
  <2>2. /\ TickWord \in Nat \ {0} /\ xTickCount \in 0..TickWord - 1 /\ uxPendedTicks \in Nat
        /\ ticksToWait[t] \in Int
    BY <1>2, <1>10, TickWordIs DEF ClockTyped, Moments
  <2>3. /\ time \in 0..TickWord - 1
        /\ time < xTickCount => time + TickWord = xTickCount + ticksToWait[t]
        /\ ~(time < xTickCount) => time = xTickCount + ticksToWait[t] /\ time > xTickCount
    BY <1>10, <2>2, WakeTimeIs
  <2> HIDE DEF time
  <2>4. time \in Moments
    BY <2>3 DEF Moments
  <2>5. /\ pxDelayedTaskList \in Seq(Sleepers) /\ pxOverflowDelayedTaskList \in Seq(Sleepers)
        /\ wakeTime \in [Sleepers -> Moments] /\ xNextTaskUnblockTime \in Moments
        /\ InTime(pxDelayedTaskList, wakeTime) /\ InTime(pxOverflowDelayedTaskList, wakeTime)
        /\ Ahead(pxDelayedTaskList, xTickCount, xNextTaskUnblockTime)
        /\ ~OnDelay(pxDelayedTaskList, t) /\ ~OnDelay(pxOverflowDelayedTaskList, t)
        /\ \A u \in Sleepers : ~(OnDelay(pxDelayedTaskList, u) /\ OnDelay(pxOverflowDelayedTaskList, u))
    BY <1>2, <1>5 DEF ClockTyped, ListsInTime, OnNow, OnNext
  <2>6. wakeTime' \in [Sleepers -> Moments] /\ wakeTime'[t] = time /\ \A u \in Sleepers \ {t} : wakeTime'[u] = wakeTime[u]
    BY <2>1, <2>4, <2>5
  <2>7. /\ xNextTaskUnblockTime' \in Moments
        /\ pxDelayedTaskList' \in Seq(Sleepers) /\ pxOverflowDelayedTaskList' \in Seq(Sleepers)
        /\ \A u \in Sleepers \ {t} : (OnNow(u)' <=> OnNow(u)) /\ (OnNext(u)' <=> OnNext(u))
        /\ OnNow(t)' <=> ~(time < xTickCount)
        /\ OnNext(t)' <=> time < xTickCount
        /\ ListsInTime'
    <3>1. CASE time < xTickCount
      <4>1. /\ pxOverflowDelayedTaskList' = Inserted(pxOverflowDelayedTaskList, t, time)
            /\ UNCHANGED <<pxDelayedTaskList, xNextTaskUnblockTime>>
        BY <2>1, <3>1 DEF AddToDelayedList
      <4>2. /\ Inserted(pxOverflowDelayedTaskList, t, time) \in Seq(Sleepers)
            /\ \A u : OnDelay(Inserted(pxOverflowDelayedTaskList, t, time), u)
                        <=> OnDelay(pxOverflowDelayedTaskList, u) \/ u = t
            /\ InTime(Inserted(pxOverflowDelayedTaskList, t, time), [wakeTime EXCEPT ![t] = time])
        BY <2>4, <2>5, InsertedIs
      <4>3. InTime(pxDelayedTaskList, [wakeTime EXCEPT ![t] = time])
        BY <2>5, StillInTime
      <4>4. InTime(pxDelayedTaskList, wakeTime)' /\ InTime(pxOverflowDelayedTaskList, wakeTime)'
        BY <2>1, <4>1, <4>2, <4>3 DEF InTime
      <4>5. \A u : /\ OnDelay(pxDelayedTaskList, u)' <=> OnDelay(pxDelayedTaskList, u)
                   /\ OnDelay(pxOverflowDelayedTaskList, u)' <=> OnDelay(pxOverflowDelayedTaskList, u) \/ u = t
        BY <4>1, <4>2 DEF OnDelay
      <4>6. Ahead(pxDelayedTaskList, xTickCount, xNextTaskUnblockTime)'
        <5>1. \A i \in DOMAIN pxDelayedTaskList : pxDelayedTaskList[i] # t /\ pxDelayedTaskList[i] \in Sleepers
          BY <2>5 DEF OnDelay
        <5>2. ASSUME NEW i \in DOMAIN pxDelayedTaskList
              PROVE  wakeTime'[pxDelayedTaskList[i]] = wakeTime[pxDelayedTaskList[i]]
          BY <2>6, <5>1
        <5> QED BY <1>1, <2>5, <4>1, <5>2 DEF Ahead
      <4>7. \A u \in Sleepers : ~(OnDelay(pxDelayedTaskList, u)' /\ OnDelay(pxOverflowDelayedTaskList, u)')
        BY <2>5, <4>5
      <4>8. ListsInTime'
        BY <4>4, <4>6, <4>7 DEF ListsInTime
      <4> QED BY <2>5, <3>1, <4>1, <4>2, <4>5, <4>8 DEF OnNow, OnNext
    <3>2. CASE ~(time < xTickCount)
      <4>1. /\ pxDelayedTaskList' = Inserted(pxDelayedTaskList, t, time)
            /\ xNextTaskUnblockTime' = IF time < xNextTaskUnblockTime THEN time ELSE xNextTaskUnblockTime
            /\ UNCHANGED pxOverflowDelayedTaskList
        BY <2>1, <3>2 DEF AddToDelayedList
      <4>2. /\ Inserted(pxDelayedTaskList, t, time) \in Seq(Sleepers)
            /\ \A u : OnDelay(Inserted(pxDelayedTaskList, t, time), u)
                        <=> OnDelay(pxDelayedTaskList, u) \/ u = t
            /\ InTime(Inserted(pxDelayedTaskList, t, time), [wakeTime EXCEPT ![t] = time])
        BY <2>4, <2>5, InsertedIs
      <4>3. InTime(pxOverflowDelayedTaskList, [wakeTime EXCEPT ![t] = time])
        BY <2>5, StillInTime
      <4>4. InTime(pxDelayedTaskList, wakeTime)' /\ InTime(pxOverflowDelayedTaskList, wakeTime)'
        BY <2>1, <4>1, <4>2, <4>3 DEF InTime
      <4>5. \A u : /\ OnDelay(pxDelayedTaskList, u)' <=> OnDelay(pxDelayedTaskList, u) \/ u = t
                   /\ OnDelay(pxOverflowDelayedTaskList, u)' <=> OnDelay(pxOverflowDelayedTaskList, u)
        BY <4>1, <4>2 DEF OnDelay
      <4>6. \A u : OnDelay(pxDelayedTaskList, u) =>
                      u \in Sleepers \ {t} /\ wakeTime[u] > xTickCount /\ xNextTaskUnblockTime <= wakeTime[u]
        BY <2>5 DEF Ahead, OnDelay
      <4>7. xNextTaskUnblockTime' <= time /\ xNextTaskUnblockTime' <= xNextTaskUnblockTime
            /\ xNextTaskUnblockTime' \in Moments
        BY <2>4, <2>5, <4>1 DEF Moments
      <4>8. \A u : OnDelay(pxDelayedTaskList, u)' =>
                      wakeTime'[u] > xTickCount /\ xNextTaskUnblockTime' <= wakeTime'[u]
        <5> SUFFICES ASSUME NEW u, OnDelay(pxDelayedTaskList, u) \/ u = t
                     PROVE  wakeTime'[u] > xTickCount /\ xNextTaskUnblockTime' <= wakeTime'[u]
          BY <4>5
        <5>1. CASE u = t
          BY <2>3, <2>6, <3>2, <4>7, <5>1
        <5>2. CASE OnDelay(pxDelayedTaskList, u)
          <6>1. wakeTime'[u] = wakeTime[u] /\ wakeTime[u] > xTickCount /\ xNextTaskUnblockTime <= wakeTime[u]
                /\ u \in Sleepers
            BY <2>6, <4>6, <5>2
          <6>2. wakeTime[u] \in Int /\ xNextTaskUnblockTime \in Int
            BY <2>5, <6>1 DEF Moments
          <6>3. xNextTaskUnblockTime' <= wakeTime[u]
            <7>1. CASE time < xNextTaskUnblockTime
              BY <2>3, <4>1, <6>1, <6>2, <7>1
            <7>2. CASE ~(time < xNextTaskUnblockTime)
              BY <4>1, <6>1, <7>2
            <7> QED BY <7>1, <7>2
          <6> QED BY <6>1, <6>3
        <5> QED BY <5>1, <5>2
      <4>9. Ahead(pxDelayedTaskList, xTickCount, xNextTaskUnblockTime)'
        BY <1>1, <4>8 DEF Ahead, OnDelay
      <4>10. \A u \in Sleepers : ~(OnDelay(pxDelayedTaskList, u)' /\ OnDelay(pxOverflowDelayedTaskList, u)')
        BY <2>5, <4>5
      <4>11. ListsInTime'
        BY <4>4, <4>9, <4>10 DEF ListsInTime
      <4> QED BY <2>5, <3>2, <4>1, <4>2, <4>5, <4>7, <4>11 DEF OnNow, OnNext
    <3> QED BY <3>1, <3>2
  <2>8. ClockTyped'
    BY <1>1, <1>2, <2>6, <2>7 DEF ClockTyped
  <2>9. Awaiting'
    <3>1. Sleeping(t)' /\ \A u \in Sleepers \ {t} : Sleeping(u)' <=> Sleeping(u)
      BY <2>7 DEF Sleeping
    <3> QED BY <1>1, <1>2, <2>1, <3>1 DEF Awaiting
  <2>10. ASSUME NEW u \in Sleepers \ {t} PROVE (TaskOK(u) => TaskOK(u)') /\ (WaitExact(u) => WaitExact(u)')
    <3>1. Same(u)
      BY <1>11, <2>6, <2>7 DEF Same
    <3> QED BY <1>6, <3>1, Untouched
  <2>11. ASSUME Left(t) = AtLeast0(ticksToWait[t] - uxPendedTicks) PROVE OnTime(t)'
    <3>1. ~(time < xTickCount) => ticksToWait[t] - uxPendedTicks = time - xTickCount - uxPendedTicks
      BY <2>2, <2>3
    <3>2. time < xTickCount => ticksToWait[t] - uxPendedTicks = (time + TickWord) - xTickCount - uxPendedTicks
      BY <2>2, <2>3
    <3>3. OnNow(t)' => Left(t)' = Until(wakeTime[t])'
      <4>1. Until(wakeTime[t])' = AtLeast0(time - xTickCount - uxPendedTicks)
        BY <1>1, <2>6 DEF Until, AtLeast0
      <4> QED BY <1>7, <2>7, <2>11, <3>1, <4>1
    <3>4. OnNext(t)' => Left(t)' = Until(wakeTime[t] + TickWord)'
      <4>1. Until(wakeTime[t] + TickWord)' = AtLeast0((time + TickWord) - xTickCount - uxPendedTicks)
        BY <1>1, <2>6 DEF Until, AtLeast0
      <4> QED BY <1>7, <2>7, <2>11, <3>2, <4>1
    <3> QED BY <3>3, <3>4 DEF OnTime
  <2>12. TaskOK(t)'
    <3>1. asks[t] = "delay" => OnTime(t)'
      BY <1>2, <1>4, <2>11 DEF TaskOK, DelayOK
    <3>2. Sleeping(t)'
      BY <2>7 DEF Sleeping
    <3>3. DelayOK(t)'
      BY <1>4, <1>7, <3>1, <3>2 DEF DelayOK
    <3>4. ticksToWait'[t] > 0
      BY <1>7, <1>10
    <3> QED BY <1>9, <3>3, <3>4 DEF TaskOK
  <2>13. WaitsExact => WaitExact(t)'
    <3> SUFFICES ASSUME WaitsExact, asks[t] = "wait" PROVE WaitExact(t)'
      BY <1>7 DEF WaitExact
    <3>1. /\ Left(t) = AtLeast0(ticksToWait[t] - Since(t)) /\ NotedAt(t) = Clock
      BY <1>4, <1>13 DEF WaitsExact, WaitExact
    <3>2. Since(t) = uxPendedTicks
      <4>1. Clock \in Int
        BY <1>2, TickWordIs DEF Clock, ClockTyped, Moments
      <4> QED BY <2>2, <3>1, <4>1 DEF Since
    <3>3. OnTime(t)'
      BY <2>11, <3>1, <3>2
    <3> QED BY <1>4, <1>7, <1>8, <3>1, <3>3 DEF WaitExact
  <2>14. AsksOK' /\ (WaitsExact => WaitsExact')
    BY <1>2, <2>10, <2>12, <2>13 DEF AsksOK, WaitsExact
  <2> QED BY <1>6, <2>7, <2>8, <2>9, <2>14 DEF TicksInv
<1> QED BY <1>12, <1>13

\* The invariant holds at the start,
LEMMA TicksStart == TicksInit => TicksInv /\ WaitsExact
<1> SUFFICES ASSUME TicksInit PROVE TicksInv /\ WaitsExact
  OBVIOUS
<1>1. /\ xTickCount = 0 /\ xNumOfOverflows = 0 /\ uxPendedTicks = 0
      /\ xNextTaskUnblockTime = portMAX_DELAY /\ uxSchedulerSuspended = NoSleeper
      /\ pxDelayedTaskList = <<>> /\ pxOverflowDelayedTaskList = <<>> /\ xSuspendedTaskList = {}
      /\ xPendingReadyList = {} /\ wakeTime = [t \in Sleepers |-> 0] /\ awaited = {}
      /\ sleepPc = [t \in Sleepers |-> "runs"] /\ asks = [t \in Sleepers |-> "delay"]
      /\ ticksToWait = [t \in Sleepers |-> 0] /\ timeOut = [t \in Sleepers |-> NoTime]
      /\ asked = [t \in Sleepers |-> 0] /\ waited = [t \in Sleepers |-> 0] /\ sleeps = 0
  BY DEF TicksInit
<1>2. 0 \in Moments /\ portMAX_DELAY \in Moments /\ NoTime \in [xOverflowCount : Nat, xTimeOnEntering : Moments]
      /\ 0 * TickWord + 0 = 0
  BY TickWordIs DEF Moments, NoTime
<1>3. <<>> \in Seq(Sleepers) /\ \A t : ~OnDelay(<<>>, t)
  BY DEF OnDelay
<1>4. ClockTyped /\ AskTyped
  BY <1>1, <1>2, <1>3 DEF ClockTyped, AskTyped, TickPlaces
<1>5. Suspending
  BY <1>1 DEF Suspending
<1>6. ListsInTime
  BY <1>1, <1>3 DEF ListsInTime, InTime, Ahead
<1>7. Awaiting
  BY <1>1 DEF Awaiting
<1>8. \A t \in Sleepers : ~OnNow(t) /\ ~OnNext(t) /\ OnTime(t)
  BY <1>1, <1>3 DEF OnNow, OnNext, OnTime
<1>9. AsksOK /\ WaitsExact
  BY <1>1, <1>8 DEF AsksOK, TaskOK, DelayOK, WaitOK, WaitsExact, WaitExact
<1>10. Bounds
  <2>1. Clock + uxPendedTicks = 0
    BY <1>1, <1>2 DEF Clock
  <2> QED BY <1>1, <2>1, KernelTicksAssumption DEF Bounds
<1> QED BY <1>4, <1>5, <1>6, <1>7, <1>9, <1>10 DEF TicksInv

\* is kept by a pause of the kernel,
LEMMA TicksPause == TicksInv /\ UNCHANGED tickVars => TicksInv' /\ (WaitsExact => WaitsExact')
<1> SUFFICES ASSUME TicksInv, UNCHANGED tickVars PROVE TicksInv' /\ (WaitsExact => WaitsExact')
  OBVIOUS
<1>1. UNCHANGED <<xTickCount, xNumOfOverflows, uxPendedTicks, xNextTaskUnblockTime, uxSchedulerSuspended,
                  pxDelayedTaskList, pxOverflowDelayedTaskList, xSuspendedTaskList, wakeTime, xPendingReadyList,
                  awaited, sleepPc, ticksToWait, timeOut, asks, asked, waited, sleeps>>
  BY DEF tickVars, clockVars, delayLists, timeVars, askVars
<1>2. \A u : (OnNow(u)' <=> OnNow(u)) /\ (OnNext(u)' <=> OnNext(u)) /\ (Sleeping(u)' <=> Sleeping(u))
  BY <1>1 DEF OnNow, OnNext, Sleeping, OnDelay
<1>3. ClockTyped' /\ AskTyped' /\ Suspending' /\ Bounds'
  BY <1>1 DEF TicksInv, ClockTyped, AskTyped, Suspending, Bounds, Clock
<1>4. ListsInTime'
  BY <1>1 DEF TicksInv, ListsInTime, InTime, Ahead, OnDelay
<1>5. Awaiting'
  BY <1>1, <1>2 DEF TicksInv, Awaiting
<1>6. ASSUME NEW u \in Sleepers PROVE (TaskOK(u) => TaskOK(u)') /\ (WaitExact(u) => WaitExact(u)')
  <2>1. Same(u) /\ SameClock
    BY <1>1, <1>2 DEF Same, SameAsk, SameClock
  <2> QED BY <2>1, Untouched
<1>7. AsksOK' /\ (WaitsExact => WaitsExact')
  BY <1>6 DEF TicksInv, AsksOK, WaitsExact
<1> QED BY <1>3, <1>4, <1>5, <1>7 DEF TicksInv

\* and by every step.
LEMMA TicksStep == TicksInv /\ [TicksNext]_tickVars => TicksInv' /\ (WaitsExact /\ Prompt => WaitsExact')
<1> SUFFICES ASSUME TicksInv, [TicksNext]_tickVars PROVE TicksInv' /\ (WaitsExact /\ Prompt => WaitsExact')
  OBVIOUS
<1>1. CASE xTaskIncrementTick
  BY <1>1, InterruptKeeps
<1>2. ASSUME NEW t \in Sleepers,
             \/ RemoveFromEventList(t) \/ Ask(t) \/ SuspendAll(t) \/ CheckWait(t) \/ Add(t)
             \/ ResumeAll(t) \/ Returns(t, "asleep") \/ Returns(t, "timed out") \/ Again(t)
      PROVE  TicksInv' /\ (WaitsExact /\ Prompt => WaitsExact')
  <2>1. CASE RemoveFromEventList(t)
    BY <2>1, RemoveKeeps
  <2>2. CASE Ask(t)
    BY <2>2, AskKeeps
  <2>3. CASE SuspendAll(t)
    BY <2>3, SuspendAllKeeps
  <2>4. CASE CheckWait(t)
    BY <2>4, CheckWaitKeeps
  <2>5. CASE Add(t)
    BY <2>5, AddKeeps
  <2>6. CASE ResumeAll(t)
    BY <2>6, ResumeAllKeeps
  <2>7. CASE Returns(t, "asleep")
    BY <2>7, ReturnsKeeps
  <2>8. CASE Returns(t, "timed out")
    BY <2>8, ReturnsKeeps
  <2>9. CASE Again(t)
    BY <2>9, AgainKeeps
  <2> QED BY <1>2, <2>1, <2>2, <2>3, <2>4, <2>5, <2>6, <2>7, <2>8, <2>9
<1>3. CASE UNCHANGED tickVars
  BY <1>3, TicksPause
<1> QED BY <1>1, <1>2, <1>3 DEF TicksNext

\* The type of every variable of the kernel's time.
THEOREM TicksTyped == TicksSpec => []TicksTypeOK
<1>1. TicksInv => TicksTypeOK
  <2> SUFFICES ASSUME TicksInv PROVE TicksTypeOK
    OBVIOUS
  <2>1. ClockTyped /\ AskTyped /\ Awaiting /\ Bounds
    BY DEF TicksInv
  <2>2. /\ TickWord \in Nat /\ TickWord >= 2 /\ MaxTicks \in Nat /\ xNumOfOverflows \in Nat /\ uxPendedTicks \in Nat
        /\ xTickCount \in Nat
    BY <2>1, TickWordIs, KernelTicksAssumption DEF ClockTyped, Moments
  <2>3. xNumOfOverflows * TickWord \in Nat /\ xNumOfOverflows * TickWord >= xNumOfOverflows
    <3>1. TickWord - 1 \in Nat /\ xNumOfOverflows * (TickWord - 1) \in Nat
      BY <2>2
    <3>2. xNumOfOverflows * TickWord = xNumOfOverflows * (TickWord - 1) + xNumOfOverflows
      BY <2>2
    <3> QED BY <2>2, <3>1, <3>2
  <2>4. xNumOfOverflows * TickWord + xTickCount + uxPendedTicks <= MaxTicks
    BY <2>1 DEF Bounds, Clock
  <2>5. uxPendedTicks \in 0..MaxTicks /\ xNumOfOverflows \in 0..MaxTicks
    BY <2>2, <2>3, <2>4
  <2>6. {xSuspendedTaskList, xPendingReadyList, awaited} \subseteq SUBSET Sleepers
    BY <2>1 DEF Awaiting
  <2> QED BY <2>1, <2>5, <2>6 DEF TicksTypeOK, ClockTyped, AskTyped, Moments, Bounds, TickPlaces
<1> QED BY <1>1, TicksStart, TicksStep, PTL DEF TicksSpec

\* Nothing left: all has passed.
LEMMA NoneLeft == ASSUME NEW a \in Nat, NEW w \in Nat, a - w = 0 PROVE w >= a
  OBVIOUS

\* A task that returns has slept for its time.
LEMMA ReturnsInTime ==
    ASSUME TicksInv, NEW t \in Sleepers, NEW from \in {"asleep", "timed out"}, Returns(t, from),
           sleepPc[t] = "timed out" \/ asks[t] = "delay"
    PROVE  waited[t] >= asked[t]
<1>1. SleepTo(t, from, "runs")
  BY DEF Returns
<1>2. Awake(t) /\ sleepPc[t] \in {"asleep", "timed out"}
  BY <1>1 DEF SleepTo
<1>3. ~Sleeping(t)
  BY <1>2, AwakeIs
<1>4. TaskOK(t) /\ asks[t] \in {"delay", "wait"} /\ asked[t] \in Nat /\ waited[t] \in Nat
  BY DEF TicksInv, AsksOK, AskTyped
<1>5. Left(t) = 0
  BY <1>2, <1>3, <1>4 DEF TaskOK, DelayOK, WaitOK
<1>6. asked[t] \in Nat /\ waited[t] \in Nat /\ asked[t] - waited[t] = 0
  BY <1>4, <1>5 DEF Left
<1> QED BY <1>6, NoneLeft

\* The time that was asked for has passed when a delay or a time-out is over.
THEOREM NotEarlyHolds == TicksSpec => NotEarly
<1>1. ASSUME TicksInv, TicksNext, NEW t \in Sleepers
      PROVE  /\ sleepPc[t] # "runs" /\ sleepPc'[t] = "runs"
             /\ sleepPc[t] = "timed out" \/ asks[t] = "delay"
             => waited[t] >= asked[t]
  <2> SUFFICES ASSUME sleepPc[t] # "runs", sleepPc'[t] = "runs", sleepPc[t] = "timed out" \/ asks[t] = "delay"
               PROVE  waited[t] >= asked[t]
    OBVIOUS
  <2>1. sleepPc \in [Sleepers -> TickPlaces]
    BY <1>1 DEF TicksInv, AskTyped
  <2>2. ASSUME NEW u \in Sleepers, NEW from, NEW to, SleepTo(u, from, to) PROVE u = t /\ to = "runs"
    BY <2>1, <2>2 DEF SleepTo
  <2>3. sleepPc' # sleepPc
    OBVIOUS
  <2>4. ~xTaskIncrementTick
    BY <2>3 DEF xTaskIncrementTick
  <2>5. ASSUME NEW u \in Sleepers,
               \/ RemoveFromEventList(u) \/ Ask(u) \/ SuspendAll(u) \/ CheckWait(u) \/ Add(u)
               \/ ResumeAll(u) \/ Returns(u, "asleep") \/ Returns(u, "timed out") \/ Again(u)
        PROVE  waited[t] >= asked[t]
    <3>1. ~RemoveFromEventList(u)
      BY <2>3 DEF RemoveFromEventList
    <3>2. /\ ~SleepTo(u, "runs", "add") /\ ~SleepTo(u, "runs", "noted") /\ ~SleepTo(u, "noted", "check")
          /\ ~SleepTo(u, "check", "add") /\ ~SleepTo(u, "check", "late") /\ ~SleepTo(u, "add", "resume")
          /\ ~SleepTo(u, "asleep", "noted")
      <4>1. ASSUME NEW from, NEW to, to # "runs" PROVE ~SleepTo(u, from, to)
        BY <2>1, <4>1 DEF SleepTo
      <4> HIDE DEF SleepTo
      <4> QED BY <4>1
    <3>3. ~Ask(u)
      <4> SUFFICES ASSUME NEW n \in 1..portMAX_DELAY, NEW what \in {"delay", "wait"},
                          SleepTo(u, "runs", IF what = "delay" THEN "add" ELSE "noted")
                   PROVE  FALSE
        BY DEF Ask
      <4>1. CASE what = "delay"
        BY <3>2, <4>1
      <4>2. CASE what = "wait"
        BY <3>2, <4>2
      <4> QED BY <4>1, <4>2
    <3>4. ~SuspendAll(u) /\ ~Add(u) /\ ~Again(u) /\ ~CheckWait(u)
      BY <3>2 DEF SuspendAll, Add, Again, CheckWait, CheckForTimeOut
    <3>5. ~ResumeAll(u)
      BY <2>1 DEF ResumeAll
    <3>6. ASSUME NEW from \in {"asleep", "timed out"}, Returns(u, from) PROVE waited[t] >= asked[t]
      <4>1. u = t
        BY <2>2, <3>6 DEF Returns
      <4> QED BY <1>1, <3>6, <4>1, ReturnsInTime
    <3> QED BY <2>5, <3>1, <3>2, <3>3, <3>4, <3>5, <3>6
  <2> QED BY <1>1, <2>4, <2>5 DEF TicksNext
<1>2. TicksInv /\ [TicksNext]_tickVars
      => [\A t \in Sleepers :
              /\ sleepPc[t] # "runs" /\ sleepPc'[t] = "runs"
              /\ sleepPc[t] = "timed out" \/ asks[t] = "delay"
              => waited[t] >= asked[t]]_tickVars
  BY <1>1
<1> QED BY <1>2, TicksStart, TicksStep, PTL DEF TicksSpec, NotEarly

\* Whoever is still asleep has not been for as long as it asked, as long as no
\* task takes a whole round of the counter between noting the time and testing it.
THEOREM NotLateHolds == TicksSpec /\ []Prompt => []NotLate
<1>1. TicksInv /\ WaitsExact => NotLate
  <2> SUFFICES ASSUME TicksInv, WaitsExact, uxSchedulerSuspended = NoSleeper, NEW t \in Sleepers,
                      OnDelay(pxDelayedTaskList \o pxOverflowDelayedTaskList, t)
               PROVE  waited[t] < asked[t]
    BY DEF NotLate
  <2>1. ClockTyped /\ ListsInTime /\ AskTyped
    BY DEF TicksInv
  <2>2. OnNow(t) \/ OnNext(t)
    BY <2>1, OnJoined DEF OnNow, OnNext, ClockTyped
  <2>3. OnTime(t)
    BY <2>1 DEF TicksInv, AsksOK, TaskOK, DelayOK, WaitsExact, WaitExact, AskTyped
  <2>4. uxPendedTicks = 0
    BY DEF TicksInv, Suspending
  <2>5. /\ wakeTime[t] \in Int /\ wakeTime[t] >= 0 /\ xTickCount \in Int /\ xTickCount < TickWord /\ TickWord \in Int
        /\ OnNow(t) => wakeTime[t] > xTickCount
    BY <2>1, ListsAre
  <2>6. Left(t) > 0
    <3>1. OnNow(t) => Until(wakeTime[t]) > 0
      BY <2>4, <2>5 DEF Until, AtLeast0
    <3>2. Until(wakeTime[t] + TickWord) > 0
      BY <2>4, <2>5 DEF Until, AtLeast0
    <3> QED BY <2>2, <2>3, <3>1, <3>2 DEF OnTime
  <2>7. asked[t] \in Nat /\ waited[t] \in Nat
    BY <2>1 DEF AskTyped
  <2> QED BY <2>6, <2>7 DEF Left
<1>2. TicksInv /\ WaitsExact /\ Prompt /\ [TicksNext]_tickVars => TicksInv' /\ WaitsExact'
  BY TicksStep
<1> QED BY <1>1, <1>2, TicksStart, PTL DEF TicksSpec

=============================================================================
