------------------------------- MODULE MCBoard -------------------------------
(***************************************************************************)
(* What the tasks stand on: the level sensor, the I2C bus, and the kernel's  *)
(* clock, heap and mutexes.  They share no state, so that a behaviour is one *)
(* of them, the others staying as they are.                                  *)
(***************************************************************************)
EXTENDS WaterLevel, I2cBus, KernelTicks, Heap4, KernelMutex

CONSTANTS a, b, nobody

VARIABLE part

\* Widths below, at, between and above the calibrated range.
MCWidths == {0, 2999, 3000, 3001, 25750, 48499, 48500, 48501, 60000}

\* One byte and several, in either direction and in both; a READ_FROM of no byte,
\* which reads LengthWord of them.
MCRequests == {[command |-> c, txlenght |-> t, rxlenght |-> r] :
                   <<c, t, r>> \in {<<"WRITE", 2, 0>>, <<"READ", 0, 1>>, <<"READ_FROM", 1, 0>>}}

\* Three users of two mutexes, of different priorities.  Either a call waits in
\* any way and a task holds one mutex, or it waits for ever and may hold both.
OneTwoThree == [t \in Users |-> t]
AloneOrForever == {[waits |-> {"none", "finite", "forever"}, nested |-> FALSE],
                   [waits |-> {"none", "forever"}, nested |-> TRUE]}

BoardInit ==
    /\ part \in {"level", "bus", "ticks", "heap", "mutex"}
    /\ Init /\ BusInit /\ TicksInit /\ HeapInit
    /\ MutexInit /\ (part # "mutex" => use.nested)

BoardNext ==
    \/ part = "level" /\ Next /\ UNCHANGED <<part, busVars, tickVars, heapVars, mutexVars>>
    \/ part = "bus" /\ BusNext /\ UNCHANGED <<part, vars, tickVars, heapVars, mutexVars>>
    \/ part = "ticks" /\ TicksNext /\ UNCHANGED <<part, vars, busVars, heapVars, mutexVars>>
    \/ part = "heap" /\ HeapNext /\ UNCHANGED <<part, vars, busVars, tickVars, mutexVars>>
    \/ part = "mutex" /\ MutexNext /\ UNCHANGED <<part, vars, busVars, tickVars, heapVars>>

BoardSpec == BoardInit /\ [][BoardNext]_<<part, vars, busVars, tickVars, heapVars, mutexVars>>

\* The fairness of WaterLevel!FairSpec, and of the bus.
Level(A) == part = "level" /\ A
Bus(A) == part = "bus" /\ A

FairBoardSpec ==
    /\ BoardSpec
    /\ WF_vars(Level(ReadWaterLevel)) /\ WF_vars(Level(Rise)) /\ WF_vars(Level(Fall))
    /\ WF_vars(Level(EchoInt)) /\ WF_vars(Level(Apply))
    /\ WF_busVars(Bus(I2C_IF_ISR)) /\ WF_busVars(Bus(Controller))
    /\ \A t \in BusTasks : WF_busVars(Bus(BusCall(t)))
=============================================================================
