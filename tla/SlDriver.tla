------------------------------ MODULE SlDriver -------------------------------
(***************************************************************************)
(* The host driver of the network processor (simplelink/source/driver.c).  *)
(* Tasks call it for plain commands, for commands that are answered later  *)
(* (sl_Select), to receive and to send.  Messages of the network processor *)
(* are read by whoever holds GlobalLockObj: the task that waits for the    *)
(* response to its command, or else the spawn task, to which the interrupt *)
(* handler and the callers hand over.                                      *)
(***************************************************************************)
EXTENDS Integers, Sequences, FiniteSets

CONSTANTS
    Tasks,          \* the tasks that call the driver
    Spawn,          \* vSimpleLinkSpawnTask
    Mixes,          \* what each task may ask for, one choice per behaviour
    MaxCalls,       \* bound on the calls of all tasks
    MaxEvents,      \* bound on the events nobody asked for
    MAX_CONCURRENT_ACTIONS,
    FLOW_CONT_MIN,
    TxBuffers,      \* the buffers of the network processor
    slQUEUE_SIZE,   \* 3 in the code
    None

Kinds == {"cmd", "select", "recv", "send"}

Objects == 0..(MAX_CONCURRENT_ACTIONS - 1)

ASSUME SlDriverAssumption ==
    /\ Spawn \notin Tasks /\ None \notin Tasks \cup {Spawn} /\ IsFiniteSet(Tasks)
    /\ None \notin Kinds /\ None \notin Objects
    /\ Mixes \subseteq [Tasks -> SUBSET Kinds]
    /\ MaxCalls \in Nat /\ MaxEvents \in Nat /\ slQUEUE_SIZE \in Nat \ {0}
    /\ MAX_CONCURRENT_ACTIONS \in Nat \ {0}
    /\ FLOW_CONT_MIN \in Nat /\ TxBuffers \in Nat /\ TxBuffers > FLOW_CONT_MIN + 1

VARIABLES
    mix,                    \* what the tasks may ask for
    pc, op, obj, calls,     \* of each task: where, which call, its pool object; all calls
    GlobalLock, TxLock,     \* who holds GlobalLockObj and TxLockObj
    CmdSync, TxSync,        \* CmdSyncObj and TxSyncObj are signalled
    IsCmdRespWaited,
    unread,                 \* RxIrqCnt - RxDoneCnt
    masked,                 \* the interrupt is masked
    spawned,                \* entries in xSimpleLinkSpawnQueue
    TxPoolCnt,              \* the buffers the driver believes to be free
    msg, found,             \* the message being read and the object it is for
    action, signalled,      \* of each pool object
    free, pend, active,     \* the three lists of pool objects
    bitmap,                 \* ActiveActionsBitmap
    out, counts,            \* messages on their way, the free buffers their headers tell
    due, buffers, events    \* what the network processor owes, its free buffers

callVars == <<mix, op, obj, calls>>
lockVars == <<GlobalLock, TxLock>>
rxVars == <<unread, masked, spawned>>
poolVars == <<action, free, pend, active, bitmap>>
nwpVars == <<out, counts, due, buffers, events>>
vars == <<pc, callVars, lockVars, CmdSync, TxSync, IsCmdRespWaited, rxVars, TxPoolCnt,
          msg, found, signalled, poolVars, nwpVars>>

Init ==
    /\ mix \in Mixes
    /\ pc = [t \in Tasks \cup {Spawn} |-> "idle"]
    /\ op = [t \in Tasks |-> None] /\ obj = [t \in Tasks |-> None]
    /\ calls = 0
    /\ GlobalLock = None /\ TxLock = None
    /\ CmdSync = FALSE /\ TxSync = FALSE /\ IsCmdRespWaited = FALSE
    /\ unread = 0 /\ masked = FALSE /\ spawned = 0
    /\ TxPoolCnt = TxBuffers   \* as the last command of the start-up reported
    /\ msg = None /\ found = None
    /\ action = [i \in Objects |-> None] /\ signalled = [i \in Objects |-> FALSE]
    /\ free = [i \in 1..MAX_CONCURRENT_ACTIONS |-> i - 1]
    /\ pend = <<>> /\ active = <<>> /\ bitmap = {}
    /\ out = <<>> /\ counts = <<>> /\ due = {} /\ buffers = TxBuffers /\ events = 0

Goes(t, from, to) == pc[t] = from /\ pc' = [pc EXCEPT ![t] = to]

-----------------------------------------------------------------------------
(* The pool of objects, one for each call that is answered later.          *)

ToSet(s) == {s[i] : i \in DOMAIN s}

\* The place of the first element of a list that is in a set.
FirstIn(list, set) == CHOOSE k \in DOMAIN list : list[k] \in set /\ \A j \in 1..k - 1 : list[j] \notin set

NeedsObject(k) == k \in {"select", "recv"}
After(k) == IF k = "select" THEN "lock" ELSE "credit"

\* The body of the loop of _SlDrvWaitForPoolObj: active, or pending once more.
Place(t, i, k) ==
    IF k \in bitmap
    THEN /\ pc' = [pc EXCEPT ![t] = "pend"]
         /\ pend' = <<i>> \o pend /\ UNCHANGED <<active, bitmap>>
    ELSE /\ pc' = [pc EXCEPT ![t] = After(k)]
         /\ active' = <<i>> \o active /\ bitmap' = bitmap \cup {k} /\ UNCHANGED pend

Call(t) ==
    \E k \in mix[t] :
        /\ pc[t] = "idle" /\ calls < MaxCalls
        /\ calls' = calls + 1 /\ UNCHANGED mix
        /\ IF NeedsObject(k) /\ free = <<>>
           THEN UNCHANGED <<pc, op, obj, poolVars>>     \* SL_POOL_IS_EMPTY
           ELSE /\ op' = [op EXCEPT ![t] = k]
                /\ IF NeedsObject(k)
                   THEN LET i == Head(free) IN
                        /\ obj' = [obj EXCEPT ![t] = i]
                        /\ action' = [action EXCEPT ![i] = k]
                        /\ free' = Tail(free) /\ Place(t, i, k)
                   ELSE /\ Goes(t, "idle", IF k = "cmd" THEN "lock" ELSE "credit")
                        /\ UNCHANGED <<obj, poolVars>>
        /\ UNCHANGED <<lockVars, CmdSync, TxSync, IsCmdRespWaited, rxVars, TxPoolCnt,
                       msg, found, signalled, nwpVars>>

Pended(t) ==
    /\ pc[t] = "pend" /\ signalled[obj[t]]
    /\ signalled' = [signalled EXCEPT ![obj[t]] = FALSE]
    /\ Place(t, obj[t], op[t])
    /\ UNCHANGED <<callVars, lockVars, CmdSync, TxSync, IsCmdRespWaited, rxVars, TxPoolCnt,
                   msg, found, action, free, nwpVars>>

\* Faulty variant: the first item is taken for the one to remove.
WithoutFirst(list, i) == Tail(list)

\* _SlRemoveFromList: a list of one is emptied whatever it holds.
Without(list, i) ==
    LET k == FirstIn(list, {i})
    IN  IF Len(list) = 1 THEN <<>>
        ELSE IF i \notin ToSet(list) THEN list
        ELSE SubSeq(list, 1, k - 1) \o SubSeq(list, k + 1, Len(list))

\* The pending objects that ask for what object i had.
Rivals(i) == {j \in ToSet(pend) : action[j] = action[i]}

\* The network processor refused the select: the response, which told so, was all
\* it had to say, and sl_Select does not wait.
Refused(t) ==
    /\ op[t] = "select"
    /\ {<<"resp", "select">>, <<"async", "select">>} \cap (due \cup ToSet(out) \cup {msg}) = {}

\* The call was answered, or refused: its object is given back.
Answered(t, i) ==
    /\ Goes(t, "await", "idle") /\ (signalled[i] \/ Refused(t))
    /\ bitmap' = bitmap \ {action[i]}
    /\ action' = [action EXCEPT ![i] = None]
    /\ active' = Without(active, i) /\ free' = <<i>> \o free
    /\ obj' = [obj EXCEPT ![t] = None] /\ op' = [op EXCEPT ![t] = None]
    /\ UNCHANGED <<mix, calls, lockVars, CmdSync, TxSync, IsCmdRespWaited, rxVars, TxPoolCnt,
                   msg, found, nwpVars>>

\* The first of those that pend for the same is woken.
Release(t) ==
    /\ Answered(t, obj[t])
    /\ \/ /\ Rivals(obj[t]) = {} /\ UNCHANGED pend
          /\ signalled' = [signalled EXCEPT ![obj[t]] = FALSE]
       \/ \E i \in Rivals(obj[t]) :
             /\ i = pend[FirstIn(pend, Rivals(obj[t]))] /\ pend' = Without(pend, i)
             /\ signalled' = [signalled EXCEPT ![obj[t]] = FALSE, ![i] = TRUE]

-----------------------------------------------------------------------------
(* Commands: the task that sent one reads messages until its response.     *)

Written(t) == /\ Goes(t, "lock", "check") /\ GlobalLock = None
              /\ GlobalLock' = t /\ due' = due \cup {<<"resp", op[t]>>}
              /\ UNCHANGED <<out, counts, buffers, events>>

\* Faulty variant: the wait is not announced before the command is sent.
LockOnly(t) ==
    /\ Written(t)
    /\ UNCHANGED <<callVars, TxLock, CmdSync, TxSync, IsCmdRespWaited, rxVars, TxPoolCnt,
                   msg, found, signalled, poolVars>>

Lock(t) ==
    /\ Written(t) /\ IsCmdRespWaited' = TRUE
    /\ UNCHANGED <<callVars, TxLock, CmdSync, TxSync, rxVars, TxPoolCnt,
                   msg, found, signalled, poolVars>>

\* The loop ends with the response; with nothing to read the task waits.
Check(t) ==
    /\ t # Spawn /\ (IsCmdRespWaited => unread = 0)
    /\ Goes(t, "check", IF IsCmdRespWaited THEN "wait" ELSE "unlock")
    /\ UNCHANGED <<callVars, lockVars, CmdSync, TxSync, IsCmdRespWaited, rxVars, TxPoolCnt,
                   msg, found, signalled, poolVars, nwpVars>>

Wait(t) ==
    /\ Goes(t, "wait", "check") /\ CmdSync
    /\ CmdSync' = FALSE
    /\ UNCHANGED <<callVars, lockVars, TxSync, IsCmdRespWaited, rxVars, TxPoolCnt,
                   msg, found, signalled, poolVars, nwpVars>>

\* _SlFindAndSetActiveObj: the first active object that waits for message m.
Finds(m) == LET s == {i \in ToSet(active) : action[i] = m[2]}
            IN  IF m[1] \in {"async", "recv"} /\ s # {} THEN active[FirstIn(active, s)] ELSE None

\* _SlDrvMsgRead: the header brings the credit, as old as the message; the end
\* unmasks the interrupt.
Read(t) ==
    /\ Goes(t, "check", "count") /\ unread # 0 /\ (t = Spawn \/ IsCmdRespWaited)
    /\ out # <<>>
    /\ out' = Tail(out) /\ msg' = Head(out) /\ found' = Finds(Head(out))
    /\ counts' = Tail(counts) /\ TxPoolCnt' = Head(counts)
    /\ TxSync' = (TxSync \/ TxPoolCnt' > FLOW_CONT_MIN)
    /\ IF Head(out)[1] = "recv"
       THEN signalled' = [signalled EXCEPT ![found'] = TRUE]
       ELSE UNCHANGED signalled
    /\ masked' = FALSE
    /\ UNCHANGED <<callVars, lockVars, CmdSync, IsCmdRespWaited, unread, spawned,
                   poolVars, due, buffers, events>>

\* RxDoneCnt++, and what the class of the message asks for: the response ends
\* the wait, an answer goes to its object (_SlAsyncEventGenericHandler), an event
\* to the application.  The spawn task must not find a response.
Count(t) ==
    /\ Goes(t, "count", CASE t # Spawn /\ msg[1] = "resp" -> "clear"
                          [] t = Spawn /\ msg[1] = "resp" -> "protocol"
                          [] t = Spawn /\ msg[1] # "resp" -> "unlock"
                          [] OTHER -> "check")
    /\ unread' = unread - 1
    /\ IsCmdRespWaited' = (IsCmdRespWaited /\ pc'[t] # "clear")
    /\ signalled' = [i \in Objects |-> signalled[i] \/ (msg[1] = "async" /\ i = found)]
    /\ msg' = None /\ found' = None
    /\ UNCHANGED <<callVars, lockVars, CmdSync, TxSync, masked, spawned, TxPoolCnt,
                   poolVars, nwpVars>>

Clear(t) ==
    /\ Goes(t, "clear", "check")
    /\ CmdSync' = FALSE
    /\ UNCHANGED <<callVars, lockVars, TxSync, IsCmdRespWaited, rxVars, TxPoolCnt,
                   msg, found, signalled, poolVars, nwpVars>>

Unlock(t) ==
    /\ Goes(t, "unlock", IF t = Spawn THEN "idle" ELSE "more")
    /\ GlobalLock' = None
    /\ UNCHANGED <<callVars, TxLock, CmdSync, TxSync, IsCmdRespWaited, rxVars, TxPoolCnt,
                   msg, found, signalled, poolVars, nwpVars>>

\* osi_Spawn: a full queue takes nothing.
Spawned == IF spawned < slQUEUE_SIZE THEN spawned + 1 ELSE spawned

Returns(t) == /\ Goes(t, "more", IF op[t] = "cmd" THEN "idle" ELSE "await")
              /\ op' = [op EXCEPT ![t] = IF @ = "cmd" THEN None ELSE @]

\* Faulty variant: what is still unread is left to the next interrupt.
MoreNothing(t) ==
    /\ Returns(t)
    /\ UNCHANGED <<mix, obj, calls, lockVars, CmdSync, TxSync, IsCmdRespWaited, rxVars,
                   TxPoolCnt, msg, found, signalled, poolVars, nwpVars>>

More(t) ==
    /\ Returns(t)
    /\ spawned' = IF unread # 0 THEN Spawned ELSE spawned
    /\ UNCHANGED <<mix, obj, calls, lockVars, CmdSync, TxSync, IsCmdRespWaited, unread, masked,
                   TxPoolCnt, msg, found, signalled, poolVars, nwpVars>>

-----------------------------------------------------------------------------
(* Data: a message with a payload takes a buffer of the network processor. *)

Limit(t) == IF op[t] = "send" THEN FLOW_CONT_MIN + 1 ELSE FLOW_CONT_MIN

Credit(t) ==
    /\ Goes(t, "credit", "test") /\ TxLock = None
    /\ TxLock' = t /\ TxSync' = FALSE
    /\ UNCHANGED <<callVars, GlobalLock, CmdSync, IsCmdRespWaited, rxVars, TxPoolCnt,
                   msg, found, signalled, poolVars, nwpVars>>

Test(t) ==
    /\ Goes(t, "test", IF TxPoolCnt <= Limit(t) THEN "starved" ELSE "charge")
    /\ UNCHANGED <<callVars, lockVars, CmdSync, TxSync, IsCmdRespWaited, rxVars, TxPoolCnt,
                   msg, found, signalled, poolVars, nwpVars>>

\* A receiver goes on when it is woken, a sender tests once more and, if that
\* fails, starts again.
Starved(t) ==
    /\ pc[t] = "starved" /\ TxSync
    /\ TxSync' = FALSE
    /\ IF op[t] = "recv" \/ TxPoolCnt > Limit(t)
       THEN pc' = [pc EXCEPT ![t] = "charge"] /\ UNCHANGED TxLock
       ELSE pc' = [pc EXCEPT ![t] = "credit"] /\ TxLock' = None
    /\ UNCHANGED <<callVars, GlobalLock, CmdSync, IsCmdRespWaited, rxVars, TxPoolCnt,
                   msg, found, signalled, poolVars, nwpVars>>

\* VERIFY_PROTOCOL: without the credit the task ends in the endless loop of
\* _SlDrvAssert, with both locks.
Charge(t) ==
    /\ GlobalLock = None /\ GlobalLock' = t
    /\ \/ /\ Goes(t, "charge", "put") /\ TxPoolCnt > Limit(t)
          /\ TxPoolCnt' = TxPoolCnt - 1 /\ TxLock' = None
       \/ /\ Goes(t, "charge", "assert") /\ TxPoolCnt <= Limit(t)
          /\ UNCHANGED <<TxPoolCnt, TxLock>>
    /\ UNCHANGED <<callVars, CmdSync, TxSync, IsCmdRespWaited, rxVars,
                   msg, found, signalled, poolVars, nwpVars>>

Put(t) ==
    /\ Goes(t, "put", IF op[t] = "recv" THEN "await" ELSE "idle")
    /\ GlobalLock' = None
    /\ op' = [op EXCEPT ![t] = IF @ = "send" THEN None ELSE @]
    /\ buffers' = IF buffers = 0 THEN 0 ELSE buffers - 1
    /\ due' = IF op[t] = "recv" THEN due \cup {<<"recv", "recv">>} ELSE due
    /\ UNCHANGED <<mix, obj, calls, TxLock, CmdSync, TxSync, IsCmdRespWaited, rxVars, TxPoolCnt,
                   msg, found, signalled, poolVars, out, counts, events>>

-----------------------------------------------------------------------------
(* The spawn task, the interrupt and the network processor.                *)

SpawnTakes ==
    /\ Goes(Spawn, "idle", "spawned") /\ spawned > 0
    /\ spawned' = spawned - 1
    /\ UNCHANGED <<callVars, lockVars, CmdSync, TxSync, IsCmdRespWaited, unread, masked,
                   TxPoolCnt, msg, found, signalled, poolVars, nwpVars>>

\* Messages may have been read meanwhile by a task that sent a command.
SpawnLocks ==
    /\ Goes(Spawn, "spawned", IF unread # 0 THEN "check" ELSE "unlock")
    /\ GlobalLock = None /\ GlobalLock' = Spawn
    /\ UNCHANGED <<callVars, TxLock, CmdSync, TxSync, IsCmdRespWaited, rxVars, TxPoolCnt,
                   msg, found, signalled, poolVars, nwpVars>>

\* _SlDrvRxIrqHandler
RxIrq ==
    /\ out # <<>> /\ ~masked
    /\ masked' = TRUE /\ unread' = unread + 1
    /\ IF IsCmdRespWaited THEN CmdSync' = TRUE /\ UNCHANGED spawned
                          ELSE spawned' = Spawned /\ UNCHANGED CmdSync
    /\ UNCHANGED <<pc, callVars, lockVars, TxSync, IsCmdRespWaited, TxPoolCnt,
                   msg, found, signalled, poolVars, nwpVars>>

\* A message is made ready, and its header filled in: what it tells of the buffers
\* is true when it is made, whenever it is read.
Sends(m) == out' = Append(out, m) /\ counts' = Append(counts, buffers')

\* A select is answered by a response, and later by an event unless it is refused.
Answer == \E m \in due :
    /\ \/ due' = due \ {m}
       \/ m = <<"resp", "select">> /\ due' = (due \ {m}) \cup {<<"async", "select">>}
    /\ UNCHANGED <<buffers, events>> /\ Sends(m)

\* A buffer is free again, which a message without content reports.
Frees == /\ buffers < TxBuffers /\ buffers' = buffers + 1
         /\ Sends(<<"dummy", None>>)
         /\ UNCHANGED <<due, events>>

Event == /\ events < MaxEvents /\ events' = events + 1
         /\ UNCHANGED <<due, buffers>> /\ Sends(<<"async", None>>)

Nwp(A) == A /\ UNCHANGED <<pc, callVars, lockVars, CmdSync, TxSync, IsCmdRespWaited, rxVars,
                           TxPoolCnt, msg, found, signalled, poolVars>>

\* What the task that holds GlobalLockObj does with messages.
Reads(t) == Read(t) \/ Count(t) \/ Unlock(t)

Task(t) ==
    \/ Call(t) \/ Pended(t) \/ Release(t)
    \/ Lock(t) \/ Check(t) \/ Wait(t) \/ Reads(t) \/ Clear(t) \/ More(t)
    \/ Credit(t) \/ Test(t) \/ Starved(t) \/ Charge(t) \/ Put(t)

SpawnTask == SpawnTakes \/ SpawnLocks \/ Reads(Spawn)

Next == (\E t \in Tasks : Task(t)) \/ SpawnTask \/ RxIrq
            \/ Nwp(Answer) \/ Nwp(Frees) \/ Nwp(Event)

Spec == Init /\ [][Next]_vars

\* The tasks get their turn, the interrupt is served, and the network processor
\* answers what it was asked and frees its buffers.
FairSpec == /\ Spec /\ WF_vars(SpawnTask) /\ WF_vars(RxIrq)
            /\ \A t \in Tasks : WF_vars(Task(t))
            /\ WF_vars(Nwp(Answer)) /\ WF_vars(Nwp(Frees))

-----------------------------------------------------------------------------
(* What must hold.                                                         *)

CommandPlaces == {"check", "count", "clear", "wait", "unlock"}
Places == CommandPlaces \cup {"idle", "pend", "await", "lock", "more", "credit",
                              "test", "starved", "charge", "put", "spawned", "assert"}

\* The type of every variable; "protocol", where a failed assertion would leave
\* the reader with the lock, is no place a task ever is.
TypeOK ==
    /\ pc \in [Tasks \cup {Spawn} -> Places]
    /\ op \in [Tasks -> Kinds \cup {None}] /\ obj \in [Tasks -> Objects \cup {None}]
    /\ calls \in 0..MaxCalls
    /\ {GlobalLock, TxLock} \subseteq Tasks \cup {Spawn, None}
    /\ {CmdSync, TxSync, IsCmdRespWaited, masked} \subseteq BOOLEAN
    /\ unread \in 0..2 /\ spawned \in 0..slQUEUE_SIZE
    /\ TxPoolCnt \in 0..TxBuffers /\ buffers \in 0..TxBuffers
    /\ found \in Objects \cup {None}
    /\ action \in [Objects -> Kinds \cup {None}] /\ signalled \in [Objects -> BOOLEAN]
    /\ bitmap \subseteq Kinds /\ events \in 0..MaxEvents

\* No message is forgotten: while one is unread, a task is in the loop that reads
\* until the response, or on its way to the test for more, or the spawn task has
\* been asked and has not tested yet, even if its queue was full.
UnreadHasReader ==
    unread > 0 =>
        \/ spawned > 0
        \/ pc[Spawn] \in {"spawned", "check", "count"}
        \/ \E t \in Tasks : pc[t] \in CommandPlaces \cup {"more"}

\* The response to a command is read by the task that sent it, never by the
\* spawn task or by a task in between.
ResponseToItsTask ==
    \A t \in Tasks \cup {Spawn} :
        pc[t] = "count" /\ msg[1] = "resp" => t # Spawn /\ msg[2] = op[t]

\* The three lists hold every object once, and the object of a call is where the
\* call is; no two active objects ask for the same.
PoolIsWhole ==
    /\ Len(free) + Len(pend) + Len(active)
         + Cardinality({t \in Tasks : pc[t] = "pend" /\ signalled[obj[t]]})
           = MAX_CONCURRENT_ACTIONS
    /\ \A t \in Tasks : obj[t] # None /\ pc[t] # "pend" => obj[t] \in ToSet(active)
    /\ \A t, u \in Tasks : t # u /\ obj[t] # None => obj[t] # obj[u]
    /\ \A i, j \in ToSet(active) : i # j => action[i] # action[j]

\* Every call returns, whatever the other tasks and the network processor do,
\* unless an assertion of the flow control has stopped a task.
CallsReturn ==
    \A t \in Tasks : pc[t] # "idle" ~> pc[t] = "idle" \/ \E u \in Tasks : pc[u] = "assert"
=============================================================================
