------------------------------- MODULE I2cBus --------------------------------
(***************************************************************************)
(* The I2C bus of the temperature sensor (common/i2c_if.c).  A task queues  *)
(* a transaction, sets the interrupt pending when the bus is idle and waits *)
(* for a notification; the interrupt handler moves one byte at a time and   *)
(* starts the next transaction when one is over.  An interrupt is served    *)
(* before any task goes on.                                                 *)
(***************************************************************************)
EXTENDS Integers, Sequences, FiniteSets

CONSTANTS
    BusTasks,      \* tasks that use the bus; in the firmware one
    Requests,      \* [command, txlenght, rxlenght]: what they ask for
    LengthWord,    \* 2^8: a length is a uint8_t
    MaxRequests    \* bound on the calls

Lengths == 0..(LengthWord - 1)

\* What the three calls accept: nothing is asked about the rxlenght of a READ_FROM.
ASSUME I2cBusAssumption ==
    /\ MaxRequests \in Nat /\ LengthWord \in Nat /\ LengthWord > 1
    /\ Requests \subseteq [command : {"WRITE", "READ", "READ_FROM"}, txlenght : Lengths, rxlenght : Lengths]
    /\ \A r \in Requests : /\ r.command = "READ" <=> r.txlenght = 0
                           /\ r.command = "READ" => r.rxlenght # 0
                           /\ r.command = "WRITE" => r.rxlenght = 0

VARIABLES
    busPc, request,   \* per task: where it is in a call, and what it asked for
    notified,         \* per task: its notification value, a set of bits
    g_I2Cqueue, g_i2cisrstate,
    transaction,      \* the handler's static copy
    pending, enabled, \* the interrupt: set pending by software; its sources unmasked
    raw, working,     \* the controller: its interrupt status, and the commands it
                      \* has still to carry out, two at most
    ending,           \* the task whose transaction the last of them closes
    moved,            \* history: bytes the controller had carried, when the handler
                      \* ran, for the transaction being handled
    outcome,          \* history: how the handler ended a task's last transaction,
                      \* and how many of its bytes the controller had carried
    requests

controllerVars == <<raw, working, ending>>
handlerVars == <<g_I2Cqueue, g_i2cisrstate, transaction, pending, enabled, controllerVars, moved, outcome>>
busVars == <<busPc, request, notified, handlerVars, requests>>

NoRequest == [command |-> "WRITE", txlenght |-> 0, rxlenght |-> 0]
Pending == <<"none", 0>>
NoTransaction == [task |-> "none", r |-> NoRequest]

BusInit ==
    /\ busPc = [t \in BusTasks |-> "idle"] /\ request = [t \in BusTasks |-> NoRequest]
    /\ notified = [t \in BusTasks |-> {}]
    /\ g_I2Cqueue = <<>> /\ g_i2cisrstate = "IDLE" /\ transaction = NoTransaction
    /\ pending = FALSE /\ enabled = FALSE /\ raw = "none" /\ working = 0 /\ ending = {}
    /\ moved = 0 /\ outcome = [t \in BusTasks |-> Pending] /\ requests = 0

Interrupt == pending \/ (enabled /\ raw # "none")

-----------------------------------------------------------------------------
(* I2C_IF_Write, I2C_IF_Read and I2C_IF_ReadFrom.                          *)

BusGoes(t, from, to) == ~Interrupt /\ busPc[t] = from /\ busPc' = [busPc EXCEPT ![t] = to]

\* Faulty variant: the task does not sleep between its calls.
EnqueueAtOnce(t) ==
    \E r \in Requests :
        /\ requests < MaxRequests /\ requests' = requests + 1
        /\ BusGoes(t, "idle", "test")
        /\ request' = [request EXCEPT ![t] = r]
        /\ g_I2Cqueue' = Append(g_I2Cqueue, [task |-> t, r |-> r])
        /\ outcome' = [outcome EXCEPT ![t] = Pending]
        /\ UNCHANGED <<notified, g_i2cisrstate, transaction, pending, enabled, controllerVars, moved>>

\* The caller sleeps 10 ms after a call (temperatureSensor.c:25), long enough for
\* the STOP of its last transaction.
Enqueue(t) ==
    \E r \in Requests :
        /\ t \notin ending
        /\ requests < MaxRequests /\ requests' = requests + 1
        /\ BusGoes(t, "idle", "test")
        /\ request' = [request EXCEPT ![t] = r]
        /\ g_I2Cqueue' = Append(g_I2Cqueue, [task |-> t, r |-> r])
        /\ outcome' = [outcome EXCEPT ![t] = Pending]
        /\ UNCHANGED <<notified, g_i2cisrstate, transaction, pending, enabled, controllerVars, moved>>

TestState(t) ==
    /\ BusGoes(t, "test", IF g_i2cisrstate = "IDLE" THEN "pend" ELSE "wait")
    /\ UNCHANGED <<request, notified, handlerVars, requests>>

\* Faulty variant: the handler is left to start by itself.
SetPendingNever(t) ==
    /\ BusGoes(t, "pend", "wait")
    /\ UNCHANGED <<request, notified, handlerVars, requests>>

SetPending(t) ==
    /\ BusGoes(t, "pend", "wait") /\ pending' = TRUE
    /\ UNCHANGED <<request, notified, g_I2Cqueue, g_i2cisrstate, transaction, enabled, controllerVars, moved, outcome, requests>>

Awaited(t) == {"ERR"} \cup IF request[t].command = "WRITE" THEN {"WRITE"} ELSE {"READ"}

\* Faulty variant: the bits stay set for the next call.
NotifyWaitKeeps(t) ==
    /\ notified[t] \cap Awaited(t) # {} /\ BusGoes(t, "wait", "idle")
    /\ UNCHANGED <<request, notified, handlerVars, requests>>

\* xTaskNotifyWait in its loop.
NotifyWait(t) ==
    /\ notified[t] \cap Awaited(t) # {} /\ BusGoes(t, "wait", "idle")
    /\ notified' = [notified EXCEPT ![t] = @ \ Awaited(t)]
    /\ UNCHANGED <<request, handlerVars, requests>>

-----------------------------------------------------------------------------
(* I2C_IF_ISR: the part for each state.                                    *)

\* A command for the controller.  It has no queue: a command that finds it at work
\* is lost, or carried out after the other.
GiveCommand == working' \in IF working = 0 THEN {1} ELSE {1, 2}

\* The byte of the last command, if the controller has done with it: the handler,
\* set pending by a task, may find it at work.
Carried == IF working = 0 THEN 1 ELSE 0

\* I2CTransact when it returns SUCCESS, and what follows.
Transact(next) ==
    /\ raw' = "none" /\ GiveCommand /\ UNCHANGED ending
    /\ g_i2cisrstate' = next /\ enabled' = TRUE
    /\ UNCHANGED <<g_I2Cqueue, notified, outcome>>

\* The end of a transaction, with or without a last command that closes it (STOP,
\* FINISH): take it from the queue, notify its task, and set the interrupt pending
\* for the next one.
Finish(bit, bytes, closes) ==
    /\ raw' = "none" /\ g_i2cisrstate' = "IDLE" /\ enabled' = FALSE
    /\ LET t == Head(g_I2Cqueue).task IN
        /\ notified' = [notified EXCEPT ![t] = @ \cup {bit}]
        /\ outcome' = [outcome EXCEPT ![t] = <<bit, bytes>>]
        /\ IF closes THEN GiveCommand /\ ending' = {t} ELSE UNCHANGED <<working, ending>>
    /\ g_I2Cqueue' = Tail(g_I2Cqueue)
    /\ pending' = (g_I2Cqueue' # <<>>) /\ moved' = bytes

\* The copy after the handler's last access to the queue.
Copied(tr) == transaction' = IF g_I2Cqueue' \in {<<>>, g_I2Cqueue} THEN tr ELSE Head(g_I2Cqueue')

\* I2CTransact, with what follows: it succeeds, or the transaction ends, with an
\* ERROR_STOP unless it was a SINGLE_RECEIVE.
Command(next, tr, bytes, single) ==
    /\ \/ Transact(next) /\ pending' = FALSE /\ moved' = bytes
       \/ Finish("ERR", bytes, ~single)
    /\ Copied(tr)

\* A uint8_t counted down.
Less(n) == (n + LengthWord - 1) % LengthWord

\* The next byte of a reception, its first one included.
ReceiveByte(tr, bytes, first) ==
    LET left == [tr EXCEPT !.r.rxlenght = Less(@)]
        last == left.r.rxlenght = 0
    IN  Command(IF last THEN "READ_FINAL" ELSE "READ_NEXT", left, bytes, first /\ last)

\* The next byte of a transmission.
SendByte(tr, bytes) ==
    LET left == [tr EXCEPT !.r.txlenght = Less(@)] IN
        Command(IF left.r.txlenght > 0 THEN "WRITE_NEXT" ELSE "WRITE_FINAL", left, bytes, FALSE)

Isr(state) == /\ Interrupt /\ g_i2cisrstate = state /\ ~(enabled /\ raw = "error")
              /\ UNCHANGED <<busPc, request, requests>>

IsrError ==
    /\ enabled /\ raw = "error"
    /\ Finish("ERR", moved, g_i2cisrstate # "IDLE") /\ Copied(transaction)
    /\ UNCHANGED <<busPc, request, requests>>

IsrIdle ==
    /\ Isr("IDLE")
    /\ IF g_I2Cqueue = <<>>
       THEN pending' = FALSE /\ UNCHANGED <<notified, g_I2Cqueue, g_i2cisrstate, transaction, enabled, controllerVars, moved, outcome>>
       ELSE LET tr == Head(g_I2Cqueue) IN
                IF tr.r.command = "READ" THEN ReceiveByte(tr, 0, TRUE) ELSE SendByte(tr, 0)

IsrWriteNext == Isr("WRITE_NEXT") /\ SendByte(transaction, moved + Carried)

IsrWriteFinal ==
    /\ Isr("WRITE_FINAL")
    /\ IF transaction.r.command = "READ_FROM"
       THEN ReceiveByte(transaction, moved + Carried, TRUE)
       ELSE Finish("WRITE", moved + Carried, TRUE) /\ Copied(transaction)

IsrReadNext == Isr("READ_NEXT") /\ ReceiveByte(transaction, moved + Carried, FALSE)

IsrReadFinal ==
    Isr("READ_FINAL") /\ Finish("READ", moved + Carried, FALSE) /\ Copied(transaction)

I2C_IF_ISR == IsrError \/ IsrIdle \/ IsrWriteNext \/ IsrWriteFinal \/ IsrReadNext \/ IsrReadFinal

-----------------------------------------------------------------------------
\* The controller ends a command, or sees no acknowledgement or a time-out.
Controller ==
    /\ working > 0 /\ working' = working - 1 /\ raw' \in {"done", "error"}
    /\ ending' = IF working = 1 THEN {} ELSE ending
    /\ UNCHANGED <<busPc, request, notified, g_I2Cqueue, g_i2cisrstate, transaction, pending, enabled, moved, outcome, requests>>

BusCall(t) == TestState(t) \/ SetPending(t) \/ NotifyWait(t)

BusNext == (\E t \in BusTasks : Enqueue(t) \/ BusCall(t)) \/ I2C_IF_ISR \/ Controller

BusSpec == BusInit /\ [][BusNext]_busVars

\* Interrupts are served, the controller ends what it was asked for, and a
\* task gets its turn.
BusFairness == /\ WF_busVars(I2C_IF_ISR) /\ WF_busVars(Controller)
               /\ \A t \in BusTasks : WF_busVars(BusCall(t))

-----------------------------------------------------------------------------
(* What must hold.                                                         *)

\* The type of every variable.
BusTypeOK ==
    /\ busPc \in [BusTasks -> {"idle", "test", "pend", "wait"}]
    /\ notified \in [BusTasks -> SUBSET {"ERR", "WRITE", "READ"}]
    /\ Len(g_I2Cqueue) <= Cardinality(BusTasks)
    /\ g_i2cisrstate \in {"IDLE", "WRITE_NEXT", "WRITE_FINAL", "READ_NEXT", "READ_FINAL"}
    /\ transaction.r.txlenght \in Lengths /\ transaction.r.rxlenght \in Lengths
    /\ pending \in BOOLEAN /\ enabled \in BOOLEAN
    /\ working \in 0..2 /\ ending \subseteq BusTasks
    /\ raw \in {"none", "done", "error"} /\ moved \in Nat
    /\ requests \in 0..MaxRequests

\* A call returns what became of its own transaction, never the notification of
\* an earlier one, however many tasks call.
ResultIsOwn ==
    [][\A t \in BusTasks : NotifyWait(t) =>
           /\ outcome[t][1] \in notified[t]
           /\ outcome[t][1] # "ERR" => "ERR" \notin notified[t]]_busVars

\* A READ_FROM of no byte is not refused (line 335 compares ucWrLen with itself):
\* the count wraps, and it reads as many bytes as a uint8_t counts.
ToRead(r) == IF r.command = "READ_FROM" /\ r.rxlenght = 0 THEN LengthWord ELSE r.rxlenght

\* Nobody else has used the bus.
Alone(t) == \A u \in BusTasks : u # t => request[u] = NoRequest

\* While one task uses the bus, as in the firmware, a call that reports success
\* has had every byte carried by the controller: the handler never writes or reads
\* the data register before its time, nor goes on over the STOP of the last call.
\* (With two tasks it may: both find the handler idle and set it pending.)
BytesCarried ==
    [][\A t \in BusTasks : NotifyWait(t) /\ Alone(t) /\ outcome[t][1] # "ERR" =>
           outcome[t][2] = request[t].txlenght + ToRead(request[t])]_busVars

\* A call returns, whichever of the task and the handler saw the other first.
BusCallsReturn == \A t \in BusTasks : busPc[t] # "idle" ~> busPc[t] = "idle"
=============================================================================
