----------------------------- MODULE UartConsole -----------------------------
(***************************************************************************)
(* The serial console (utils/uartstdio.c, buffered): tasks that print      *)
(* share the queue xCharsForTx and the transmit FIFO of the UART with the  *)
(* interrupt handler; what is typed goes through the handler and the queue *)
(* xRxedChars to UARTgets, which echoes it.  No lock protects a print: the *)
(* tasks have equal priorities and preempt each other at any point, and    *)
(* the handler interrupts them wherever its sources are enabled.           *)
(***************************************************************************)
EXTENDS Integers, Sequences, FiniteSets

CONSTANTS
    Printers,   \* tasks that print on their own account
    Reader,     \* vUARTTask, which prints the echo of what it reads
    Groups,     \* the sets of tasks that may be running
    TxLen,      \* UART_TX_BUFFER_SIZE, 256 in the code
    RxLen,      \* UART_RX_BUFFER_SIZE, 128 in the code
    FifoLen,    \* the FIFOs of the UART hold 16
    FifoLevel   \* the transmit FIFO asks for more below 1/8

ASSUME UartConsoleAssumption ==
    /\ TxLen \in Nat \ {0} /\ RxLen \in Nat \ {0}
    /\ FifoLen \in Nat \ {0} /\ FifoLevel \in 0..(FifoLen - 1)
    /\ IsFiniteSet(Printers) /\ Groups \subseteq SUBSET (Printers \cup {Reader})

VARIABLES
    group,        \* the tasks running
    at,           \* where each of them is in UARTwrite and UARTPrimeTransmit
    left,         \* characters of its string it has still to send
    held,         \* the character it has received and not yet put
    count,        \* history: the number of the last character written
    xCharsForTx,  \* the transmit queue
    txFifo,       \* the transmit FIFO
    txMask,       \* UART_INT_TX is enabled
    txRaised,     \* the UART asks for characters
    xRxedChars,   \* how many characters the receive queue holds
    rxFifo,       \* and how many the receive FIFO
    rxRaised,     \* the UART has received something
    out,          \* history: the number of the last character sent
    damaged       \* history: a character was lost, or sent out of turn

taskVars == <<at, left, held>>
txVars == <<xCharsForTx, txFifo, txMask, txRaised>>
rxVars == <<xRxedChars, rxFifo, rxRaised>>
history == <<count, out, damaged>>
consoleVars == <<group, taskVars, txVars, rxVars, history>>

ConsoleInit ==
    /\ group \in Groups
    /\ at = [t \in group |-> "idle"] /\ left = [t \in group |-> 0]
    /\ held = [t \in group |-> 0]
    /\ xCharsForTx = <<>> /\ txFifo = <<>> /\ txMask = FALSE /\ txRaised = FALSE
    /\ xRxedChars = 0 /\ rxFifo = 0 /\ rxRaised = FALSE
    /\ count = 0 /\ out = 0 /\ damaged = FALSE

-----------------------------------------------------------------------------
(* Printing.  A character is a number, to see the order; with several      *)
(* tasks printing the order means nothing and all have the number 0.       *)

Alone == Cardinality(group) = 1
Numbers == 8   \* more than there are characters on their way
Following(n) == IF Alone THEN (n + 1) % Numbers ELSE 0

TaskGoes(t, from, to) == at[t] = from /\ at' = [at EXCEPT ![t] = to]

Strings == {1, 3}   \* "x" and "\b \b"

Write(t) ==
    /\ t # Reader /\ TaskGoes(t, "idle", "send")
    /\ left' = [left EXCEPT ![t] = 3]
    /\ UNCHANGED <<group, held, txVars, rxVars, history>>

\* UARTgets takes a character and echoes it.
Read(t) ==
    /\ t = Reader /\ TaskGoes(t, "idle", "send") /\ xRxedChars > 0
    /\ xRxedChars' = xRxedChars - 1
    /\ left' \in {[left EXCEPT ![t] = n] : n \in Strings}
    /\ UNCHANGED <<group, held, txVars, rxFifo, rxRaised, history>>

\* xQueueSend waits for room.
Send(t) ==
    /\ TaskGoes(t, "send", "mask") /\ Len(xCharsForTx) < TxLen
    /\ xCharsForTx' = Append(xCharsForTx, Following(count))
    /\ count' = Following(count)
    /\ left' = [left EXCEPT ![t] = @ - 1]
    /\ UNCHANGED <<group, held, txFifo, txMask, txRaised, rxVars, out, damaged>>

\* Faulty variant: the interrupt stays enabled while characters are moved.
MaskNothing(t) ==
    /\ TaskGoes(t, "mask", "space")
    /\ UNCHANGED <<group, left, held, txVars, rxVars, history>>

Mask(t) ==
    /\ TaskGoes(t, "mask", "space")
    /\ txMask' = FALSE
    /\ UNCHANGED <<group, left, held, xCharsForTx, txFifo, txRaised, rxVars, history>>

\* The condition of the loop reads the FIFO first and the queue after it.
Test(t) ==
    /\ \/ TaskGoes(t, "space", IF Len(txFifo) < FifoLen THEN "waiting" ELSE "unmask")
       \/ TaskGoes(t, "waiting", IF xCharsForTx # <<>> THEN "receive" ELSE "unmask")
    /\ UNCHANGED <<group, left, held, txVars, rxVars, history>>

\* xQueueReceive waits for a character.
Receive(t) ==
    /\ TaskGoes(t, "receive", "put") /\ xCharsForTx # <<>>
    /\ held' = [held EXCEPT ![t] = Head(xCharsForTx)]
    /\ xCharsForTx' = Tail(xCharsForTx)
    /\ UNCHANGED <<group, left, txFifo, txMask, txRaised, rxVars, history>>

\* Whoever fills the FIFO beyond its level withdraws the request.
Fill(cs) == /\ txFifo' = txFifo \o cs
            /\ txRaised' = (txRaised /\ Len(txFifo) + Len(cs) <= FifoLevel)

\* MAP_UARTCharPutNonBlocking: a full FIFO takes nothing.
PutChar(t) ==
    /\ TaskGoes(t, "put", "space")
    /\ IF Len(txFifo) < FifoLen
       THEN Fill(<<held[t]>>) /\ UNCHANGED damaged
       ELSE damaged' = TRUE /\ UNCHANGED <<txFifo, txRaised>>
    /\ held' = [held EXCEPT ![t] = 0]
    /\ UNCHANGED <<group, left, xCharsForTx, txMask, rxVars, count, out>>

\* Faulty variant: the interrupt is not enabled again.
UnmaskNothing(t) ==
    /\ TaskGoes(t, "unmask", IF left[t] = 0 THEN "idle" ELSE "send")
    /\ UNCHANGED <<group, left, held, txVars, rxVars, history>>

Unmask(t) ==
    /\ TaskGoes(t, "unmask", IF left[t] = 0 THEN "idle" ELSE "send")
    /\ txMask' = TRUE
    /\ UNCHANGED <<group, left, held, xCharsForTx, txFifo, txRaised, rxVars, history>>

Task(t) == \/ Write(t) \/ Read(t) \/ Send(t) \/ Mask(t) \/ Test(t)
           \/ Receive(t) \/ PutChar(t) \/ Unmask(t)

-----------------------------------------------------------------------------
(* UARTStdioIntHandler: the tasks stand still while it runs.               *)

TxInterrupt == txMask /\ txRaised
Smaller(a, b) == IF a < b THEN a ELSE b

TxPart ==
    IF ~TxInterrupt THEN UNCHANGED txVars
    ELSE LET n == Smaller(FifoLen - Len(txFifo), Len(xCharsForTx))
         IN  /\ txFifo' = txFifo \o SubSeq(xCharsForTx, 1, n)
             /\ xCharsForTx' = SubSeq(xCharsForTx, n + 1, Len(xCharsForTx))
             /\ txMask' = (xCharsForTx' # <<>>)
             /\ txRaised' = FALSE

\* What does not fit into the receive queue is thrown away.
RxPart ==
    IF ~rxRaised THEN UNCHANGED rxVars
    ELSE /\ xRxedChars' = Smaller(RxLen, xRxedChars + rxFifo)
         /\ rxFifo' = 0 /\ rxRaised' = FALSE

\* Faulty variant: one source at a time, although both were cleared.
IntHandlerEither ==
    /\ TxInterrupt \/ rxRaised
    /\ IF TxInterrupt
       THEN TxPart /\ rxRaised' = FALSE /\ UNCHANGED <<xRxedChars, rxFifo>>
       ELSE RxPart /\ UNCHANGED txVars
    /\ UNCHANGED <<group, taskVars, history>>

UARTStdioIntHandler ==
    /\ TxInterrupt \/ rxRaised
    /\ TxPart /\ RxPart
    /\ UNCHANGED <<group, taskVars, history>>

-----------------------------------------------------------------------------
(* The UART and the terminal.                                              *)

Shift ==
    /\ txFifo # <<>>
    /\ out' = Head(txFifo)
    /\ damaged' = (damaged \/ Head(txFifo) # Following(out))
    /\ txFifo' = Tail(txFifo)
    /\ txRaised' = (txRaised \/ Len(txFifo) - 1 = FifoLevel)
    /\ UNCHANGED <<group, taskVars, xCharsForTx, txMask, rxVars, count>>

Typed ==
    /\ Reader \in group
    /\ rxFifo' = Smaller(FifoLen, rxFifo + 1) /\ rxRaised' = TRUE
    /\ UNCHANGED <<group, taskVars, txVars, xRxedChars, history>>

ConsoleNext == (\E t \in group : Task(t)) \/ UARTStdioIntHandler \/ Shift \/ Typed

ConsoleSpec == ConsoleInit /\ [][ConsoleNext]_consoleVars

\* Every task gets its turn, interrupts are served and the UART sends.
FairConsoleSpec == /\ ConsoleSpec /\ WF_consoleVars(UARTStdioIntHandler) /\ WF_consoleVars(Shift)
            /\ \A t \in Printers \cup {Reader} : WF_consoleVars(t \in group /\ Task(t))

-----------------------------------------------------------------------------
(* What must hold.                                                         *)

Places == {"idle", "send", "mask", "space", "waiting", "receive", "put", "unmask"}

\* The type of every variable; queues and FIFOs stay within their lengths.
ConsoleTypeOK ==
    /\ group \in Groups
    /\ at \in [group -> Places] /\ left \in [group -> 0..3]
    /\ held \in [group -> 0..(Numbers - 1)]
    /\ Len(xCharsForTx) <= TxLen /\ Len(txFifo) <= FifoLen
    /\ txMask \in BOOLEAN /\ txRaised \in BOOLEAN /\ rxRaised \in BOOLEAN
    /\ xRxedChars \in 0..RxLen /\ rxFifo \in 0..FifoLen
    /\ count \in 0..(Numbers - 1) /\ out \in 0..(Numbers - 1) /\ damaged \in BOOLEAN

\* What a task prints leaves in the order it was written and nothing is lost,
\* whatever the interrupt handler does meanwhile, as long as no other task
\* prints: this is what disabling the interrupt in UARTPrimeTransmit is for.
InOrderAlone == Alone => ~damaged

\* However many tasks print, characters do not stay in the queue: as long as it
\* holds some the line goes on, though every task and the handler switch the
\* interrupt off.
QueueMoves == <>[](xCharsForTx # <<>>) => []<><<Shift>>_consoleVars

\* What is typed does not stay in the UART, whatever is being printed.
KeysAreTaken == (rxFifo > 0) ~> (rxFifo = 0)

\* "In buffered mode, the characters are written to the UART transmit buffer
\* and the call returns immediately": a task that prints while nobody else does
\* does not wait for a character of somebody else.
PrintNeedsNobody ==
    \A t \in group :
        at[t] = "receive" /\ (\A u \in group \ {t} : at[u] = "idle") => xCharsForTx # <<>>
=============================================================================
