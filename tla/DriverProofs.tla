---------------------------- MODULE DriverProofs -----------------------------
(***************************************************************************)
(* Theorems of SlDriver, for every set of tasks and calls, any number of   *)
(* pool objects, of buffers of the network processor and of entries of the *)
(* spawn queue: a response reaches the task that sent the command, and a    *)
(* message that arrived has a reader.                                      *)
(***************************************************************************)
EXTENDS SlDriver, ListFacts, TLAPS

Everyone == Tasks \cup {Spawn}

\* Where a task holds GlobalLockObj, and where it holds TxLockObj.
Holding == {"check", "count", "clear", "wait", "unlock", "put", "assert"}
Charging == {"test", "starved", "charge", "assert"}

USE DEF Everyone

-----------------------------------------------------------------------------
(* Mutual exclusion.                                                       *)

LockOK == /\ pc \in [Everyone -> Places \cup {"protocol"}]
          /\ pc[Spawn] \in {"idle", "spawned", "check", "count", "unlock", "protocol"}
          /\ \A t \in Everyone : pc[t] \in Holding \cup {"protocol"} <=> GlobalLock = t
          /\ \A t \in Everyone : pc[t] \in Charging <=> TxLock = t

LEMMA LockInit == Init => LockOK
BY SlDriverAssumption DEF Init, LockOK, Places, CommandPlaces, Holding, Charging

LEMMA LockTask == ASSUME LockOK, NEW t \in Tasks, Task(t) PROVE LockOK'
<1> USE SlDriverAssumption DEF LockOK, Places, CommandPlaces, Holding, Charging, Goes
<1>1. CASE Call(t)
  BY <1>1 DEF Call, Place, After, lockVars
<1>2. CASE Pended(t)
  <2>1. \E p \in {"pend", "lock", "credit"} : pc' = [pc EXCEPT ![t] = p]
    BY <1>2 DEF Pended, Place, After
  <2>2. UNCHANGED lockVars /\ pc[t] = "pend"
    BY <1>2 DEF Pended
  <2> QED BY <2>1, <2>2 DEF lockVars
<1>3. CASE Release(t)
  BY <1>3 DEF Release, Answered, lockVars
<1>4. CASE Lock(t)
  BY <1>4 DEF Lock, Written
<1>5. CASE Check(t)
  BY <1>5 DEF Check, lockVars
<1>6. CASE Wait(t)
  BY <1>6 DEF Wait, lockVars
<1>7. CASE Read(t)
  BY <1>7 DEF Read, lockVars
<1>8. CASE Count(t)
  BY <1>8 DEF Count, lockVars
<1>9. CASE Unlock(t)
  BY <1>9 DEF Unlock
<1>10. CASE Clear(t)
  BY <1>10 DEF Clear, lockVars
<1>11. CASE More(t)
  BY <1>11 DEF More, Returns, lockVars
<1>12. CASE Credit(t)
  BY <1>12 DEF Credit
<1>13. CASE Test(t)
  BY <1>13 DEF Test, lockVars
<1>14. CASE Starved(t)
  BY <1>14 DEF Starved
<1>15. CASE Charge(t)
  BY <1>15 DEF Charge
<1>16. CASE Put(t)
  BY <1>16 DEF Put
<1> QED BY <1>1, <1>2, <1>3, <1>4, <1>5, <1>6, <1>7, <1>8, <1>9, <1>10, <1>11, <1>12, <1>13, <1>14, <1>15, <1>16
        DEF Task, Reads

LEMMA LockNext == LockOK /\ [Next]_vars => LockOK'
<1> SUFFICES ASSUME LockOK, [Next]_vars PROVE LockOK'
  OBVIOUS
<1> USE SlDriverAssumption DEF LockOK, Places, CommandPlaces, Holding, Charging, Goes
<1>1. CASE SpawnTakes
  BY <1>1 DEF SpawnTakes, lockVars
<1>2. CASE SpawnLocks
  BY <1>2 DEF SpawnLocks
<1>3. CASE Read(Spawn)
  BY <1>3 DEF Read, lockVars
<1>4. CASE Count(Spawn)
  BY <1>4 DEF Count, lockVars
<1>5. CASE Unlock(Spawn)
  BY <1>5 DEF Unlock
<1>6. CASE RxIrq \/ Nwp(Answer) \/ Nwp(Frees) \/ Nwp(Event)
  BY <1>6 DEF RxIrq, Nwp, lockVars
<1>7. CASE UNCHANGED vars
  BY <1>7 DEF vars, lockVars
<1>8. ASSUME NEW t \in Tasks, Task(t) PROVE LockOK'
  BY <1>8, LockTask
<1> QED BY <1>1, <1>2, <1>3, <1>4, <1>5, <1>6, <1>7, <1>8 DEF Next, SpawnTask, Reads

\* Where a call may start.
LEMMA CallGoes ==
    ASSUME NEW t, Call(t)
    PROVE  pc[t] = "idle" /\ (pc' = pc \/ \E p \in {"pend", "lock", "credit"} : pc' = [pc EXCEPT ![t] = p])
<1>1. PICK k \in mix[t] : Call(t)!(k)
  BY DEF Call
<1>2. CASE NeedsObject(k) /\ free # <<>>
  <2>1. Place(t, Head(free), k)
    BY <1>1, <1>2
  <2> QED BY <1>1, <2>1 DEF Place, After
<1>3. CASE NeedsObject(k) /\ free = <<>>
  BY <1>1, <1>3
<1>4. CASE ~NeedsObject(k)
  BY <1>1, <1>4 DEF Goes
<1> QED BY <1>2, <1>3, <1>4

-----------------------------------------------------------------------------
(* Which call a task is in, by the place where it is.                      *)

OpOK ==
    /\ mix \in [Tasks -> SUBSET Kinds] /\ op \in [Tasks -> Kinds \cup {None}]
    /\ \A t \in Tasks :
        /\ pc[t] \in {"lock", "more"} \cup CommandPlaces => op[t] \in {"cmd", "select"}
        /\ pc[t] \in {"credit", "put"} \cup Charging => op[t] \in {"send", "recv"}
        /\ pc[t] \in {"pend", "await"} => op[t] \in {"select", "recv"}
        /\ pc[t] # "spawned"

LEMMA OpInit == Init => OpOK
BY SlDriverAssumption DEF Init, OpOK, Kinds, CommandPlaces, Charging

LEMMA OpTask == ASSUME LockOK, OpOK, NEW t \in Tasks, Task(t) PROVE OpOK'
<1> USE SlDriverAssumption DEF LockOK, OpOK, Kinds, Places, CommandPlaces, Charging, Goes
<1>1. CASE Call(t)
  <2>1. PICK k \in mix[t] : Call(t)!(k)
    BY <1>1 DEF Call
  <2>2. UNCHANGED mix /\ k \in Kinds /\ pc[t] = "idle"
    BY <2>1
  <2>3. CASE UNCHANGED <<pc, op>>
    BY <2>2, <2>3
  <2>4. CASE ~UNCHANGED <<pc, op>>
    <3>1. op' = [op EXCEPT ![t] = k]
      BY <2>1, <2>4
    <3>2. NeedsObject(k) => pc' = [pc EXCEPT ![t] = "pend"] \/ pc' = [pc EXCEPT ![t] = After(k)]
      BY <2>1, <2>4 DEF Place
    <3>3. ~NeedsObject(k) => pc' = [pc EXCEPT ![t] = IF k = "cmd" THEN "lock" ELSE "credit"]
      BY <2>1, <2>4
    <3> QED BY <2>2, <3>1, <3>2, <3>3 DEF NeedsObject, After
  <2> QED BY <2>3, <2>4
<1>2. CASE Pended(t)
  BY <1>2 DEF Pended, Place, After, callVars
<1>3. CASE Release(t)
  BY <1>3 DEF Release, Answered
<1>4. CASE Lock(t)
  BY <1>4 DEF Lock, Written, callVars
<1>5. CASE Check(t)
  BY <1>5 DEF Check, callVars
<1>6. CASE Wait(t)
  BY <1>6 DEF Wait, callVars
<1>7. CASE Read(t)
  BY <1>7 DEF Read, callVars
<1>8. CASE Count(t)
  BY <1>8 DEF Count, callVars
<1>9. CASE Unlock(t)
  BY <1>9 DEF Unlock, callVars
<1>10. CASE Clear(t)
  BY <1>10 DEF Clear, callVars
<1>11. CASE More(t)
  BY <1>11 DEF More, Returns
<1>12. CASE Credit(t)
  BY <1>12 DEF Credit, callVars
<1>13. CASE Test(t)
  BY <1>13 DEF Test, callVars
<1>14. CASE Starved(t)
  BY <1>14 DEF Starved, callVars
<1>15. CASE Charge(t)
  BY <1>15 DEF Charge, callVars
<1>16. CASE Put(t)
  BY <1>16 DEF Put
<1> QED BY <1>1, <1>2, <1>3, <1>4, <1>5, <1>6, <1>7, <1>8, <1>9, <1>10, <1>11, <1>12, <1>13, <1>14, <1>15, <1>16
        DEF Task, Reads

LEMMA OpNext == LockOK /\ OpOK /\ [Next]_vars => OpOK'
<1> SUFFICES ASSUME LockOK, OpOK, [Next]_vars PROVE OpOK'
  OBVIOUS
<1>1. CASE SpawnTask
  <2>1. UNCHANGED callVars /\ \A u \in Tasks : pc'[u] = pc[u]
    BY <1>1, SlDriverAssumption
    DEF SpawnTask, SpawnTakes, SpawnLocks, Reads, Read, Count, Unlock, Goes, LockOK
  <2> QED BY <2>1 DEF OpOK, callVars
<1>2. CASE RxIrq \/ Nwp(Answer) \/ Nwp(Frees) \/ Nwp(Event) \/ UNCHANGED vars
  <2>1. UNCHANGED <<callVars, pc>>
    BY <1>2 DEF RxIrq, Nwp, vars
  <2> QED BY <2>1 DEF OpOK, callVars
<1>3. ASSUME NEW t \in Tasks, Task(t) PROVE OpOK'
  BY <1>3, OpTask
<1> QED BY <1>1, <1>2, <1>3 DEF Next

-----------------------------------------------------------------------------
(* The response to the command of the task that holds GlobalLockObj: it is *)
(* owed, on its way or being read, at one of these places at most.         *)

Messages == {"resp", "async", "recv", "dummy"} \X (Kinds \cup {None})
Reading == \E t \in Everyone : pc[t] = "count"
Looping == {"check", "count", "wait"}

MessagesOK ==
    /\ out \in Seq(Messages) /\ due \subseteq Messages /\ IsCmdRespWaited \in BOOLEAN
    /\ Reading => msg \in Messages

\* The task that waits for a response has GlobalLockObj and is in the loop.
WaitOK ==
    /\ IsCmdRespWaited => GlobalLock \in Tasks /\ pc[GlobalLock] \in Looping
    /\ \A t \in Tasks : pc[t] \in {"count", "wait"} => IsCmdRespWaited

ItsResponse(m) == IsCmdRespWaited /\ m[2] = op[GlobalLock]
Arrived == {i \in DOMAIN out : out[i][1] = "resp"}
InReading == Reading /\ msg[1] = "resp"

AnswerOK ==
    /\ \A m \in due : m[1] = "resp" => ItsResponse(m) /\ Arrived = {} /\ ~InReading
    /\ \A i \in Arrived : ItsResponse(out[i]) /\ Arrived = {i} /\ ~InReading
    /\ InReading => ItsResponse(msg)

LEMMA MessagesInit == Init => MessagesOK /\ WaitOK /\ AnswerOK
<1> SUFFICES ASSUME Init PROVE MessagesOK /\ WaitOK /\ AnswerOK
  OBVIOUS
<1>1. /\ ~Reading /\ out = <<>> /\ due = {} /\ IsCmdRespWaited = FALSE
      /\ \A t \in Tasks : pc[t] = "idle"
  BY DEF Init, Reading
<1>2. MessagesOK
  <2>1. out \in Seq(Messages)
    BY <1>1
  <2>2. due \subseteq Messages /\ IsCmdRespWaited \in BOOLEAN
    BY <1>1
  <2> QED BY <1>1, <2>1, <2>2 DEF MessagesOK
<1>3. WaitOK
  BY <1>1 DEF WaitOK
<1>4. AnswerOK
  BY <1>1 DEF AnswerOK, Arrived, InReading
<1> QED BY <1>2, <1>3, <1>4

LEMMA MessagesNext == LockOK /\ OpOK /\ MessagesOK /\ [Next]_vars => MessagesOK'
<1> SUFFICES ASSUME LockOK, OpOK, MessagesOK, [Next]_vars PROVE MessagesOK'
  OBVIOUS
<1> USE SlDriverAssumption DEF MessagesOK, Goes
<1>1. ASSUME UNCHANGED <<out, due>>, IsCmdRespWaited' \in BOOLEAN, Reading' => Reading /\ msg' = msg
      PROVE MessagesOK'
  BY <1>1
<1>2. ASSUME NEW t \in Everyone, Read(t) PROVE MessagesOK'
  <2>1. Head(out) \in Messages /\ Tail(out) \in Seq(Messages)
    BY <1>2 DEF Read
  <2> QED BY <1>2, <2>1 DEF Read, nwpVars
<1>3. ASSUME NEW t \in Everyone, Count(t) PROVE MessagesOK'
  <2>1. ~Reading'
    BY <1>3 DEF LockOK, Count, lockVars, Reading, Holding
  <2> QED BY <1>3, <2>1, <1>1 DEF Count, nwpVars
<1>4. ASSUME NEW t \in Tasks, Lock(t) PROVE MessagesOK'
  <2>1. <<"resp", op[t]>> \in Messages
    BY <1>4 DEF Lock, Written, OpOK, Messages
  <2>2. Reading' => Reading
    BY <1>4 DEF Lock, Written, LockOK, Reading
  <2> QED BY <1>4, <2>1, <2>2 DEF Lock, Written
<1>5. ASSUME NEW t \in Tasks, Put(t) PROVE MessagesOK'
  <2>1. <<"recv", "recv">> \in Messages
    BY DEF Messages, Kinds
  <2>2. Reading' => Reading
    BY <1>5 DEF Put, LockOK, Reading
  <2> QED BY <1>5, <2>1, <2>2 DEF Put
<1>6. CASE Nwp(Answer) \/ Nwp(Frees) \/ Nwp(Event)
  <2>1. /\ <<"async", "select">> \in Messages /\ <<"dummy", None>> \in Messages
        /\ <<"async", None>> \in Messages
    BY DEF Messages, Kinds
  <2>2. UNCHANGED <<pc, msg, IsCmdRespWaited>>
    BY <1>6 DEF Nwp
  <2>3. due' \subseteq Messages /\ \E m \in Messages : out' = Append(out, m)
    BY <1>6, <2>1 DEF Nwp, Answer, Frees, Event, Sends
  <2> QED BY <2>2, <2>3 DEF Reading
<1>7. ASSUME NEW t \in Tasks, Task(t), ~Lock(t), ~Read(t), ~Count(t), ~Put(t) PROVE MessagesOK'
  <2>1. UNCHANGED <<out, due, IsCmdRespWaited, msg>>
    BY <1>7 DEF Task, Reads, Call, Pended, Release, Answered, Check, Wait, Unlock, Clear, More, Returns,
       Credit, Test, Starved, Charge, nwpVars
  <2>2. Reading' => Reading
    <3>1. pc' = pc \/ \E p \in Places \ {"count"} : pc' = [pc EXCEPT ![t] = p]
      BY <1>7 DEF Task, Reads, Call, Pended, Release, Answered, Check, Wait, Unlock, Clear, More, Returns,
         Credit, Test, Starved, Charge, Place, After, Places, CommandPlaces
    <3> QED BY <3>1 DEF LockOK, Reading
  <2> QED BY <2>1, <2>2, <1>1
<1>8. CASE SpawnTakes \/ SpawnLocks \/ Unlock(Spawn) \/ RxIrq \/ UNCHANGED vars
  BY <1>8 DEF SpawnTakes, SpawnLocks, Unlock, RxIrq, vars, nwpVars, Reading, LockOK
<1> QED BY <1>2, <1>3, <1>4, <1>5, <1>6, <1>7, <1>8 DEF Next, SpawnTask, Reads

LEMMA WaitNext == LockOK /\ OpOK /\ MessagesOK /\ WaitOK /\ [Next]_vars => WaitOK'
<1> SUFFICES ASSUME LockOK, OpOK, MessagesOK, WaitOK, [Next]_vars PROVE WaitOK'
  OBVIOUS
<1>0. LockOK'
  BY LockNext
<1> USE SlDriverAssumption DEF WaitOK, Looping, LockOK, Holding, Goes
<1>1. ASSUME UNCHANGED IsCmdRespWaited,
             \A u \in Tasks : IsCmdRespWaited /\ pc[u] \in Looping => pc'[u] \in Looping,
             \A u \in Tasks : pc'[u] \in {"count", "wait"} => pc[u] \in {"count", "wait"} \/ IsCmdRespWaited
      PROVE WaitOK'
  BY <1>0, <1>1
<1>2. ASSUME NEW t \in Tasks, Lock(t) PROVE WaitOK'
  BY <1>2 DEF Lock, Written
<1>3. ASSUME NEW t \in Tasks, Count(t) PROVE WaitOK'
  <2>1. GlobalLock = t /\ UNCHANGED GlobalLock /\ \A u \in Tasks \ {t} : pc[u] \notin Holding
    BY <1>3 DEF Count, lockVars
  <2>2. pc' = [pc EXCEPT ![t] = "clear"] \/ pc' = [pc EXCEPT ![t] = "check"]
    BY <1>3 DEF Count
  <2> QED BY <1>3, <2>1, <2>2 DEF Count
<1>4. ASSUME NEW t \in Tasks, Read(t) PROVE WaitOK'
  BY <1>4, <1>1 DEF Read
<1>5. ASSUME NEW t \in Tasks, Check(t) PROVE WaitOK'
  BY <1>5, <1>1 DEF Check
<1>6. ASSUME NEW t \in Tasks, Task(t), ~Lock(t), ~Count(t), ~Read(t), ~Check(t) PROVE WaitOK'
  <2>1. UNCHANGED IsCmdRespWaited
    BY <1>6 DEF Task, Reads, Call, Pended, Release, Answered, Wait, Unlock, Clear, More, Returns,
       Credit, Test, Starved, Charge, Put
  <2>2. pc' = pc \/ \E p : pc' = [pc EXCEPT ![t] = p] /\ p \notin {"count", "wait"}
                        /\ (p \in Looping \/ pc[t] \notin Looping)
    BY <1>6 DEF Task, Reads, Call, Pended, Release, Answered, Wait, Unlock, Clear, More, Returns,
       Credit, Test, Starved, Charge, Put, Place, After
  <2> QED BY <2>1, <2>2, <1>1
<1>7. CASE SpawnTask
  <2>1. UNCHANGED IsCmdRespWaited
    BY <1>7 DEF SpawnTask, Reads, SpawnTakes, SpawnLocks, Read, Count, Unlock, MessagesOK
  <2>2. \A u \in Tasks : pc'[u] = pc[u]
    BY <1>7 DEF SpawnTask, Reads, SpawnTakes, SpawnLocks, Read, Count, Unlock
  <2> QED BY <2>1, <2>2, <1>1
<1>8. CASE RxIrq \/ Nwp(Answer) \/ Nwp(Frees) \/ Nwp(Event) \/ UNCHANGED vars
  BY <1>8 DEF RxIrq, Nwp, vars, lockVars
<1> QED BY <1>2, <1>3, <1>4, <1>5, <1>6, <1>7, <1>8 DEF Next

\* Which response there is stays so while the loop of its task goes on.
LEMMA AnswerStays ==
    ASSUME LockOK, LockOK', WaitOK, AnswerOK, UNCHANGED <<out, due, msg, IsCmdRespWaited>>,
           \A u \in Tasks : IsCmdRespWaited /\ pc[u] \in Looping
                              => pc'[u] \in Looping /\ op'[u] = op[u],
           Reading' => Reading
    PROVE  AnswerOK'
<1>1. IsCmdRespWaited => GlobalLock' = GlobalLock /\ op'[GlobalLock] = op[GlobalLock]
  BY DEF WaitOK, LockOK, Looping, Holding
<1>2. \A m : ItsResponse(m) => ItsResponse(m)'
  BY <1>1 DEF ItsResponse
<1>3. InReading' => InReading
  BY DEF InReading
<1>4. Arrived' = Arrived
  BY DEF Arrived
<1> QED BY <1>2, <1>3, <1>4 DEF AnswerOK

LEMMA AnswerNext ==
    LockOK /\ OpOK /\ MessagesOK /\ WaitOK /\ AnswerOK /\ [Next]_vars => AnswerOK'
<1> SUFFICES ASSUME LockOK, OpOK, MessagesOK, WaitOK, AnswerOK, [Next]_vars PROVE AnswerOK'
  OBVIOUS
<1>0. LockOK'
  BY LockNext
<1> USE SlDriverAssumption
<1>1. ASSUME NEW t \in Tasks, Lock(t) PROVE AnswerOK'
  <2>1. /\ due' = due \cup {<<"resp", op[t]>>} /\ IsCmdRespWaited' /\ GlobalLock' = t
        /\ GlobalLock = None /\ UNCHANGED <<out, op, msg>> /\ pc' = [pc EXCEPT ![t] = "check"]
    BY <1>1 DEF Lock, Written, Goes, callVars
  <2>2. ~IsCmdRespWaited
    BY <2>1 DEF WaitOK
  <2>3. Arrived' = {} /\ \A m \in due : m[1] # "resp"
    BY <2>1, <2>2 DEF Arrived, AnswerOK, ItsResponse
  <2>4. ~InReading'
    BY <2>1, <2>2 DEF InReading, Reading, AnswerOK, ItsResponse, LockOK, Holding
  <2>5. ItsResponse(<<"resp", op[t]>>)'
    BY <2>1 DEF ItsResponse
  <2> QED BY <2>1, <2>3, <2>4, <2>5 DEF AnswerOK
<1>2. ASSUME NEW t \in Everyone, Read(t) PROVE AnswerOK'
  <2>1. /\ out # <<>> /\ out' = Tail(out) /\ msg' = Head(out) /\ UNCHANGED <<due, IsCmdRespWaited, op, GlobalLock>>
        /\ GlobalLock = t /\ pc[t] = "check"
    BY <1>2 DEF Read, lockVars, callVars, LockOK, Holding, Goes
  <2>2. ~Reading
    BY <2>1 DEF Reading, LockOK, Holding
  <2>3. DOMAIN out = 1..Len(out) /\ DOMAIN out' = 1..Len(out) - 1 /\ \A i \in DOMAIN out' : i + 1 \in DOMAIN out /\ out'[i] = out[i + 1]
    BY <2>1 DEF MessagesOK
  <2>4. CASE Head(out)[1] = "resp"
    <3>1. 1 \in Arrived
      BY <2>1, <2>3, <2>4 DEF Arrived, MessagesOK
    <3>2. Arrived = {1} /\ ItsResponse(out[1]) /\ out[1] = Head(out)
      BY <2>1, <3>1 DEF AnswerOK, MessagesOK
    <3>3. Arrived' = {}
      BY <2>3, <3>2 DEF Arrived
    <3>4. \A m \in due : m[1] # "resp"
      BY <3>2 DEF AnswerOK
    <3>5. ItsResponse(msg)'
      BY <2>1, <3>2 DEF ItsResponse
    <3> QED BY <2>1, <3>3, <3>4, <3>5 DEF AnswerOK
  <2>5. CASE Head(out)[1] # "resp"
    <3>1. ~InReading'
      BY <2>1, <2>5 DEF InReading
    <3>2. Arrived' = {i \in 1..Len(out) - 1 : i + 1 \in Arrived}
      BY <2>3 DEF Arrived
    <3>3. \A m : ItsResponse(m) => ItsResponse(m)'
      BY <2>1 DEF ItsResponse
    <3>4. Arrived \subseteq 1..Len(out)
      BY <2>3 DEF Arrived
    <3>5. \A m \in due' : m[1] = "resp" => ItsResponse(m)' /\ Arrived' = {}
      BY <2>1, <3>2, <3>3 DEF AnswerOK
    <3>6. ASSUME NEW i \in Arrived' PROVE ItsResponse(out[i])' /\ Arrived' = {i}
      <4>1. i + 1 \in Arrived /\ out'[i] = out[i + 1] /\ i \in Int
        BY <2>3, <3>2
      <4>2. ItsResponse(out[i + 1]) /\ Arrived = {i + 1}
        BY <4>1 DEF AnswerOK
      <4> QED BY <3>2, <3>3, <4>1, <4>2
    <3> QED BY <3>1, <3>5, <3>6 DEF AnswerOK
  <2> QED BY <2>4, <2>5
<1>3. ASSUME NEW t \in Everyone, Count(t) PROVE AnswerOK'
  <2>1. GlobalLock = t /\ UNCHANGED <<GlobalLock, op, out, due>> /\ pc[t] = "count" /\ ~Reading' /\ Reading
    BY <1>3 DEF Count, lockVars, callVars, nwpVars, LockOK, Holding, Goes, Reading
  <2>2. CASE msg[1] = "resp"
    <3>1. InReading
      BY <2>1, <2>2 DEF InReading
    <3>2. Arrived = {} /\ \A m \in due : m[1] # "resp"
      BY <3>1 DEF AnswerOK
    <3>3. Arrived' = {}
      BY <2>1, <3>2 DEF Arrived
    <3> QED BY <2>1, <3>2, <3>3 DEF AnswerOK, InReading
  <2>3. CASE msg[1] # "resp"
    <3>1. IsCmdRespWaited' = IsCmdRespWaited
      BY <1>3, <2>3 DEF Count, Goes, MessagesOK, LockOK
    <3>2. \A m : ItsResponse(m) => ItsResponse(m)'
      BY <2>1, <3>1 DEF ItsResponse
    <3>3. Arrived' = Arrived
      BY <2>1 DEF Arrived
    <3> QED BY <2>1, <3>2, <3>3 DEF AnswerOK, InReading
  <2> QED BY <2>2, <2>3
<1>4. ASSUME NEW t \in Tasks, Put(t) PROVE AnswerOK'
  <2>1. /\ UNCHANGED <<out, msg, IsCmdRespWaited>> /\ due' \subseteq due \cup {<<"recv", "recv">>}
        /\ pc[t] = "put" /\ \A u \in Tasks \ {t} : pc'[u] = pc[u] /\ op'[u] = op[u]
    BY <1>4 DEF Put, LockOK, OpOK, Goes
  <2>2. GlobalLock = t
    BY <2>1 DEF LockOK, Holding
  <2>3. ~IsCmdRespWaited
    BY <2>1, <2>2 DEF WaitOK, Looping
  <2>4. Arrived' = {} /\ \A m \in due' : m[1] # "resp"
    BY <2>1, <2>3 DEF Arrived, AnswerOK, ItsResponse
  <2>5. ~InReading'
    <3>1. Reading' => Reading
      BY <1>4 DEF Put, Reading, LockOK, Goes
    <3> QED BY <2>1, <2>3, <3>1 DEF InReading, AnswerOK, ItsResponse
  <2> QED BY <2>4, <2>5 DEF AnswerOK
<1>5. CASE Nwp(Answer)
  <2>1. PICK m \in due : /\ out' = Append(out, m)
             /\ due' \subseteq (due \ {m}) \cup {<<"async", "select">>}
    BY <1>5 DEF Nwp, Answer, Sends
  <2>2. UNCHANGED <<pc, GlobalLock, IsCmdRespWaited, op, msg>>
    BY <1>5 DEF Nwp, lockVars, callVars
  <2>3. (InReading' <=> InReading) /\ \A n : ItsResponse(n)' <=> ItsResponse(n)
    BY <2>2 DEF InReading, Reading, ItsResponse
  <2>4. \A n \in due' : n[1] = "resp" => n \in due /\ n # m
    BY <2>1
  <2>5. Arrived' = Arrived \cup (IF m[1] = "resp" THEN {Len(out) + 1} ELSE {})
    BY <2>1 DEF Arrived, MessagesOK
  <2>6. CASE m[1] = "resp"
    <3>1. Arrived = {} /\ ~InReading /\ ItsResponse(m)
      BY <2>6 DEF AnswerOK
    <3>2. \A n \in due : n[1] = "resp" => n = m
      BY <2>6, <3>1 DEF AnswerOK, ItsResponse, MessagesOK, Messages
    <3>3. out'[Len(out) + 1] = m
      BY <2>1 DEF MessagesOK
    <3> QED BY <2>3, <2>4, <2>5, <2>6, <3>1, <3>2, <3>3 DEF AnswerOK
  <2>7. CASE m[1] # "resp"
    <3>1. Arrived' = Arrived /\ \A i \in Arrived : out'[i] = out[i]
      BY <2>1, <2>5, <2>7 DEF Arrived, MessagesOK
    <3>2. \A i \in Arrived' : ItsResponse(out[i])' /\ Arrived' = {i}
      BY <2>3, <3>1 DEF AnswerOK
    <3> QED BY <2>2, <2>3, <2>4, <3>1, <3>2 DEF AnswerOK
  <2> QED BY <2>6, <2>7
<1>6. CASE Nwp(Frees) \/ Nwp(Event)
  <2>1. PICK m : m[1] # "resp" /\ out' = Append(out, m)
    BY <1>6 DEF Nwp, Frees, Event, Sends
  <2>2. UNCHANGED <<pc, GlobalLock, IsCmdRespWaited, op, msg, due>>
    BY <1>6 DEF Nwp, lockVars, callVars, Frees, Event
  <2>3. (InReading' <=> InReading) /\ \A n : ItsResponse(n)' <=> ItsResponse(n)
    BY <2>2 DEF InReading, Reading, ItsResponse
  <2>4. Arrived' = Arrived /\ \A i \in Arrived : out'[i] = out[i]
    BY <2>1 DEF Arrived, MessagesOK
  <2> QED BY <2>2, <2>3, <2>4 DEF AnswerOK
<1>7. ASSUME NEW t \in Tasks, Task(t), ~Lock(t), ~Read(t), ~Count(t), ~Put(t) PROVE AnswerOK'
  <2>1. UNCHANGED <<out, due, msg, IsCmdRespWaited>>
    BY <1>7 DEF Task, Reads, Call, Pended, Release, Answered, Check, Wait, Unlock, Clear, More, Returns,
       Credit, Test, Starved, Charge, nwpVars
  <2>2. pc' = pc \/ \E p : pc' = [pc EXCEPT ![t] = p] /\ p # "count"
                     /\ (pc[t] \notin Looping \/ p \in Looping \/ ~IsCmdRespWaited)
    BY <1>7 DEF Task, Reads, Call, Pended, Release, Answered, Check, Wait, Unlock, Clear, More, Returns,
       Credit, Test, Starved, Charge, Place, After, Looping, Goes
  <2>3. \A u \in Tasks : pc[u] \in Looping => op'[u] = op[u]
    BY <1>7 DEF Task, Reads, Call, Pended, Release, Answered, Check, Wait, Unlock, Clear, More, Returns,
       Credit, Test, Starved, Charge, Looping, Goes, OpOK, callVars
  <2> QED BY <1>0, <2>1, <2>2, <2>3, AnswerStays DEF LockOK, Reading
<1>8. CASE SpawnTakes \/ SpawnLocks \/ Unlock(Spawn) \/ RxIrq \/ UNCHANGED vars
  <2>1. UNCHANGED <<out, due, msg, IsCmdRespWaited>>
    BY <1>8 DEF SpawnTakes, SpawnLocks, Unlock, RxIrq, vars, nwpVars
  <2>2. \A u \in Tasks : pc'[u] = pc[u] /\ op'[u] = op[u]
    BY <1>8 DEF SpawnTakes, SpawnLocks, Unlock, RxIrq, vars, callVars, LockOK, Goes
  <2>3. Reading' => Reading
    BY <1>8 DEF SpawnTakes, SpawnLocks, Unlock, RxIrq, vars, LockOK, Goes, Reading
  <2> QED BY <1>0, <2>1, <2>2, <2>3, AnswerStays
<1> QED BY <1>1, <1>2, <1>3, <1>4, <1>5, <1>6, <1>7, <1>8 DEF Next, SpawnTask, Reads

-----------------------------------------------------------------------------
(* What is unread: the message that masked the interrupt and the one being *)
(* counted.  The first of them has a reader that will still test.          *)

Testing == /\ pc[Spawn] \notin {"spawned", "check"} /\ spawned = 0
           => \E t \in Tasks : pc[t] \in CommandPlaces \cup {"more"}

SpawnedOK == spawned \in 0..slQUEUE_SIZE
CountOK == unread = (IF masked THEN 1 ELSE 0) + (IF Reading THEN 1 ELSE 0)
TestOK == masked => Testing

LEMMA CountInit == Init => SpawnedOK /\ CountOK /\ TestOK
<1> SUFFICES ASSUME Init PROVE SpawnedOK /\ CountOK /\ TestOK
  OBVIOUS
<1>1. masked = FALSE /\ unread = 0 /\ spawned = 0 /\ ~Reading
  BY DEF Init, Reading
<1>2. SpawnedOK
  BY <1>1, SlDriverAssumption DEF SpawnedOK
<1>3. CountOK
  BY <1>1 DEF CountOK
<1> QED BY <1>1, <1>2, <1>3 DEF TestOK

LEMMA SpawnedNext == SpawnedOK /\ [Next]_vars => SpawnedOK'
<1> SUFFICES ASSUME SpawnedOK, [Next]_vars PROVE SpawnedOK'
  OBVIOUS
<1> USE SlDriverAssumption DEF SpawnedOK
<1>1. ASSUME NEW t \in Tasks, Task(t) PROVE SpawnedOK'
  <2>1. CASE UNCHANGED spawned
    BY <2>1
  <2>2. CASE spawned' # spawned
    <3>1. More(t)
      BY <1>1, <2>2 DEF Task, Reads, Call, Pended, Release, Answered, Lock, Check, Wait, Read, Count, Unlock,
         Clear, Credit, Test, Starved, Charge, Put, rxVars
    <3>2. spawned' = spawned \/ spawned' = Spawned
      BY <3>1 DEF More
    <3> QED BY <3>2 DEF Spawned
  <2> QED BY <2>1, <2>2
<1>2. CASE SpawnTask \/ RxIrq \/ Nwp(Answer) \/ Nwp(Frees) \/ Nwp(Event) \/ UNCHANGED vars
  <2>1. spawned' = spawned \/ spawned' = Spawned \/ (spawned > 0 /\ spawned' = spawned - 1)
    BY <1>2 DEF SpawnTask, SpawnTakes, SpawnLocks, Reads, Read, Count, Unlock, RxIrq, Nwp, vars, rxVars
  <2> QED BY <2>1 DEF Spawned
<1> QED BY <1>1, <1>2 DEF Next

LEMMA CountNext == LockOK /\ SpawnedOK /\ CountOK /\ [Next]_vars => CountOK'
<1> SUFFICES ASSUME LockOK, SpawnedOK, CountOK, [Next]_vars PROVE CountOK'
  OBVIOUS
<1> USE SlDriverAssumption DEF CountOK
<1>1. ASSUME UNCHANGED <<unread, masked>>, Reading' <=> Reading PROVE CountOK'
  BY <1>1
<1>2. ASSUME NEW t \in Everyone, Read(t) PROVE CountOK'
  <2>1. ~Reading /\ Reading' /\ masked' = FALSE /\ UNCHANGED unread /\ unread # 0
    BY <1>2 DEF Read, LockOK, Holding, Reading, Goes
  <2> QED BY <2>1
<1>3. ASSUME NEW t \in Everyone, Count(t) PROVE CountOK'
  <2>1. Reading /\ ~Reading' /\ UNCHANGED masked /\ unread' = unread - 1
    BY <1>3 DEF Count, LockOK, Holding, Reading, Goes
  <2> QED BY <2>1
<1>4. CASE RxIrq
  <2>1. ~masked /\ masked' = TRUE /\ UNCHANGED pc /\ unread' = unread + 1
    BY <1>4 DEF RxIrq
  <2>2. Reading' <=> Reading
    BY <2>1 DEF Reading
  <2> QED BY <2>1, <2>2
<1>5. ASSUME NEW t \in Tasks, Task(t), ~Read(t), ~Count(t) PROVE CountOK'
  <2>1. UNCHANGED <<unread, masked>>
    BY <1>5 DEF Task, Reads, Call, Pended, Release, Answered, Lock, Check, Wait, Unlock, Clear, More, Returns,
       Credit, Test, Starved, Charge, Put, rxVars
  <2>2. pc[t] # "count" /\ (pc' = pc \/ \E p : pc' = [pc EXCEPT ![t] = p] /\ p # "count")
    <3>3. Pended(t) \/ Release(t) \/ Lock(t) \/ Wait(t) => pc[t] # "count" /\ \E p : pc' = [pc EXCEPT ![t] = p] /\ p # "count"
      <4>1. Place(t, obj[t], op[t]) => pc' = [pc EXCEPT ![t] = "pend"] \/ pc' = [pc EXCEPT ![t] = "lock"]
                                         \/ pc' = [pc EXCEPT ![t] = "credit"]
        BY DEF Place, After
      <4>2. Pended(t) => pc[t] = "pend" /\ (\/ pc' = [pc EXCEPT ![t] = "pend"] \/ pc' = [pc EXCEPT ![t] = "lock"]
                                            \/ pc' = [pc EXCEPT ![t] = "credit"])
        BY <4>1 DEF Pended
      <4>3. Release(t) => pc[t] = "await" /\ pc' = [pc EXCEPT ![t] = "idle"]
        BY DEF Release, Answered, Goes
      <4>4. Lock(t) => pc[t] = "lock" /\ pc' = [pc EXCEPT ![t] = "check"]
        BY DEF Lock, Written, Goes
      <4>5. Wait(t) => pc[t] = "wait" /\ pc' = [pc EXCEPT ![t] = "check"]
        BY DEF Wait, Goes
      <4> QED BY <4>2, <4>3, <4>4, <4>5
    <3>4. Check(t) \/ Unlock(t) \/ Clear(t) \/ More(t) => pc[t] # "count" /\ \E p : pc' = [pc EXCEPT ![t] = p] /\ p # "count"
      <4>1. Check(t) => pc[t] = "check" /\ (pc' = [pc EXCEPT ![t] = "wait"] \/ pc' = [pc EXCEPT ![t] = "unlock"])
        BY DEF Check, Goes
      <4>2. Unlock(t) => pc[t] = "unlock" /\ (pc' = [pc EXCEPT ![t] = "idle"] \/ pc' = [pc EXCEPT ![t] = "more"])
        BY DEF Unlock, Goes
      <4>3. Clear(t) => pc[t] = "clear" /\ pc' = [pc EXCEPT ![t] = "check"]
        BY DEF Clear, Goes
      <4>4. More(t) => pc[t] = "more" /\ (pc' = [pc EXCEPT ![t] = "idle"] \/ pc' = [pc EXCEPT ![t] = "await"])
        BY DEF More, Returns, Goes
      <4> QED BY <4>1, <4>2, <4>3, <4>4
    <3>5. Credit(t) \/ Test(t) \/ Starved(t) \/ Charge(t) \/ Put(t)
          => pc[t] # "count" /\ \E p : pc' = [pc EXCEPT ![t] = p] /\ p # "count"
      BY DEF Returns, Credit, Test, Starved, Charge, Put, Goes
    <3>1. \/ Pended(t) \/ Release(t) \/ Lock(t) \/ Check(t) \/ Wait(t) \/ Unlock(t) \/ Clear(t) \/ More(t)
          \/ Credit(t) \/ Test(t) \/ Starved(t) \/ Charge(t) \/ Put(t)
          => pc[t] # "count" /\ \E p : pc' = [pc EXCEPT ![t] = p] /\ p # "count"
      BY <3>3, <3>4, <3>5
    <3>2. Call(t) => pc[t] # "count" /\ (pc' = pc \/ \E p : pc' = [pc EXCEPT ![t] = p] /\ p # "count")
      BY CallGoes
    <3> QED BY <1>5, <3>1, <3>2 DEF Task, Reads
  <2> QED BY <2>1, <2>2, <1>1 DEF Reading, LockOK
<1>6. CASE SpawnTakes \/ SpawnLocks \/ Unlock(Spawn)
  <2>1. UNCHANGED <<unread, masked>>
    BY <1>6 DEF SpawnTakes, SpawnLocks, Unlock, rxVars
  <2> QED BY <1>6, <2>1, <1>1 DEF SpawnTakes, SpawnLocks, Unlock, LockOK, Reading, Goes
<1>7. CASE Nwp(Answer) \/ Nwp(Frees) \/ Nwp(Event) \/ UNCHANGED vars
  BY <1>7, <1>1 DEF Nwp, vars, rxVars, Reading
<1> QED BY <1>2, <1>3, <1>4, <1>5, <1>6, <1>7 DEF Next, SpawnTask, Reads

LEMMA TestNext == LockOK /\ WaitOK /\ SpawnedOK /\ CountOK /\ TestOK /\ [Next]_vars => TestOK'
<1> SUFFICES ASSUME LockOK, WaitOK, SpawnedOK, CountOK, TestOK, [Next]_vars, masked' PROVE Testing'
  BY DEF TestOK
<1> USE SlDriverAssumption DEF TestOK, Testing, LockOK, CommandPlaces, Goes
<1>1. CASE RxIrq
  <2>1. CASE IsCmdRespWaited
    BY <1>1, <2>1 DEF RxIrq, WaitOK, Looping
  <2>2. CASE ~IsCmdRespWaited
    BY <1>1, <2>2 DEF RxIrq, Spawned, SpawnedOK
  <2> QED BY <2>1, <2>2
<1>2. CASE SpawnTask
  <2>1. masked
    BY <1>2 DEF SpawnTask, SpawnTakes, SpawnLocks, Reads, Read, Count, Unlock, rxVars
  <2>2. unread # 0
    BY <2>1 DEF CountOK
  <2>3. \A t \in Tasks : pc'[t] = pc[t]
    BY <1>2 DEF SpawnTask, SpawnTakes, SpawnLocks, Reads, Read, Count, Unlock
  <2> QED BY <1>2, <2>1, <2>2, <2>3 DEF SpawnTask, SpawnTakes, SpawnLocks, Reads, Read, Count, Unlock, rxVars
<1>3. ASSUME NEW t \in Tasks, More(t) PROVE Testing'
  <2>1. masked /\ unread # 0
    BY <1>3 DEF More, CountOK, SpawnedOK
  <2> QED BY <1>3, <2>1 DEF More, Returns, Spawned, SpawnedOK
<1>4. ASSUME NEW t \in Tasks, Task(t), ~More(t) PROVE Testing'
  <2>1. masked /\ UNCHANGED spawned
    BY <1>4 DEF Task, Reads, Call, Pended, Release, Answered, Lock, Check, Wait, Read, Count, Unlock, Clear,
       Credit, Test, Starved, Charge, Put, rxVars
  <2>2. pc' = pc \/ \E p : pc' = [pc EXCEPT ![t] = p]
                     /\ (pc[t] \in CommandPlaces \cup {"more"} => p \in CommandPlaces \cup {"more"})
    BY <1>4 DEF Task, Reads, Call, Pended, Release, Answered, Lock, Written, Check, Wait, Read, Count, Unlock,
       Clear, Credit, Test, Starved, Charge, Put, Place, After
  <2> QED BY <2>1, <2>2
<1>5. CASE Nwp(Answer) \/ Nwp(Frees) \/ Nwp(Event) \/ UNCHANGED vars
  BY <1>5 DEF Nwp, vars, rxVars
<1> QED BY <1>1, <1>2, <1>3, <1>4, <1>5 DEF Next

-----------------------------------------------------------------------------
(* The invariant, and what it implies.                                     *)

DriverInv ==
    LockOK /\ OpOK /\ MessagesOK /\ WaitOK /\ AnswerOK /\ SpawnedOK /\ CountOK /\ TestOK

LEMMA DriverInvariant == Spec => []DriverInv
<1>1. Init => DriverInv
  BY LockInit, OpInit, MessagesInit, CountInit DEF DriverInv
<1>2. DriverInv /\ [Next]_vars => DriverInv'
  BY LockNext, OpNext, MessagesNext, WaitNext, AnswerNext, SpawnedNext, CountNext, TestNext
  DEF DriverInv
<1> QED BY <1>1, <1>2, PTL DEF Spec

\* The response to a command is read by the task that sent it, never by the spawn
\* task (which would run into the assertion of _SlDrvMsgReadSpawnCtx) or by a task
\* in between: for any number of tasks and calls, whatever else is on its way.
THEOREM ResponseReachesItsTask == Spec => []ResponseToItsTask
<1>1. DriverInv => ResponseToItsTask
  <2> SUFFICES ASSUME DriverInv, NEW t \in Everyone, pc[t] = "count", msg[1] = "resp"
               PROVE  t # Spawn /\ msg[2] = op[t]
    BY DEF ResponseToItsTask
  <2>1. InReading
    BY DEF InReading, Reading
  <2>2. IsCmdRespWaited /\ msg[2] = op[GlobalLock]
    BY <2>1 DEF DriverInv, AnswerOK, ItsResponse
  <2>3. GlobalLock = t /\ GlobalLock \in Tasks
    BY <2>2 DEF DriverInv, LockOK, WaitOK, Holding
  <2> QED BY <2>2, <2>3, SlDriverAssumption
<1> QED BY <1>1, DriverInvariant, PTL

\* A message that is unread has a reader that will still test for it, even if the
\* queue of the spawn task (of any length) was full when it should have been told.
THEOREM NoMessageIsForgotten == Spec => []UnreadHasReader
<1>1. DriverInv => UnreadHasReader
  <2> SUFFICES ASSUME DriverInv, unread > 0 PROVE UnreadHasReader!2
    BY DEF UnreadHasReader
  <2>1. masked \/ Reading
    BY DEF DriverInv, CountOK
  <2>2. spawned # 0 => spawned > 0
    BY SlDriverAssumption DEF DriverInv, SpawnedOK
  <2>3. CASE masked
    BY <2>2, <2>3 DEF DriverInv, TestOK, Testing
  <2>4. CASE Reading
    BY <2>4 DEF Reading, CommandPlaces
  <2> QED BY <2>1, <2>3, <2>4
<1> QED BY <1>1, DriverInvariant, PTL

=============================================================================
