------------------------------ MODULE WaterLevel ------------------------------
(***************************************************************************)
(* The ultrasonic level sensor (waterLevelSensor.c): readWaterLevel,       *)
(* called by ConnectWiFI, triggers the HC-SR04 and waits for the event     *)
(* ECHO_DONE; the interrupt handler echoInt measures the pulse that        *)
(* answers.  From an interrupt the bits of an event group cannot be set    *)
(* nor cleared: FreeRTOS appends the operation to the queue of its timer   *)
(* task, which applies it later.  Reading the bits is immediate.           *)
(* ConnectWiFI has priority 2, the timer task 3: the reader runs only when *)
(* that queue is empty; but the timer task itself may be kept waiting by   *)
(* the tasks of the same or a higher priority.                             *)
(***************************************************************************)
EXTENDS Integers, Sequences

CONSTANTS
    TimerQueueLen,  \* configTIMER_QUEUE_LENGTH, 20 in the code
    Widths          \* widths of the pulse, in ticks of the timer

ASSUME WaterLevelAssumption ==
    /\ TimerQueueLen \in Nat \ {0}
    /\ Widths \subseteq Nat

VARIABLES
    bits,        \* waterLevelMeasures: the bits of the event group
    deferred,    \* the queue of the timer task
    timerValue,  \* the width of the last pulse measured
    pin,         \* the level of the echo pin
    irq,         \* an edge is pending at the interrupt controller
    sensor,      \* what the HC-SR04 is about to do
    reader,      \* where readWaterLevel is
    level,       \* what its last call returned, in per cent
    fresh,       \* history: timerValue answers the trigger of this call
    missed       \* history: why no echo of this call can be seen any more

vars == <<bits, deferred, timerValue, pin, irq, sensor, reader, level, fresh, missed>>

Low == 3000    \* the widths of a full and of an empty tank
High == 48500

Clamp(v) == IF v < Low THEN Low ELSE IF v > High THEN High ELSE v
Percentage(v) == ((v - Low) * 100) \div 45500

Garbage == -1   \* no value is returned: the caller finds what a register held

Init ==
    /\ bits = {} /\ deferred = <<>>
    /\ timerValue = 0
    /\ pin = "low" /\ irq = FALSE /\ sensor = "quiet"
    /\ reader = "idle" /\ level = 0
    /\ fresh = FALSE /\ missed = "nothing"

-----------------------------------------------------------------------------
(* readWaterLevel.                                                         *)

ReaderRuns == deferred = <<>>

\* The first test: an echo still in progress makes the call return nothing.
Call ==
    /\ reader = "idle" /\ ReaderRuns
    /\ IF "ECHO_WAIT" \in bits
       THEN level' = Garbage /\ UNCHANGED reader
       ELSE reader' = "trigger" /\ UNCHANGED level
    /\ UNCHANGED <<bits, deferred, timerValue, pin, irq, sensor, fresh, missed>>

Trigger ==
    /\ reader = "trigger" /\ ReaderRuns
    /\ sensor' = IF sensor = "quiet" THEN "armed" ELSE sensor
    /\ fresh' = FALSE /\ missed' = "nothing"
    /\ reader' = "waiting"
    /\ UNCHANGED <<bits, deferred, timerValue, pin, irq, level>>

Wake ==
    /\ reader = "waiting" /\ ReaderRuns
    /\ "ECHO_DONE" \in bits
    /\ reader' = "measured"
    /\ UNCHANGED <<bits, deferred, timerValue, pin, irq, sensor, level, fresh, missed>>

\* Faulty variant: ECHO_DONE stays set.
ReturnUncleared ==
    /\ reader = "measured" /\ ReaderRuns
    /\ timerValue' = Clamp(timerValue)
    /\ level' = Percentage(timerValue')
    /\ reader' = "idle"
    /\ UNCHANGED <<bits, deferred, pin, irq, sensor, fresh, missed>>

Return ==
    /\ reader = "measured" /\ ReaderRuns
    /\ timerValue' = Clamp(timerValue)
    /\ level' = Percentage(timerValue')
    /\ bits' = bits \ {"ECHO_DONE"}
    /\ reader' = "idle"
    /\ UNCHANGED <<deferred, pin, irq, sensor, fresh, missed>>

ReadWaterLevel == Call \/ Trigger \/ Wake \/ Return

-----------------------------------------------------------------------------
(* The sensor: one pulse for a trigger, or none.                           *)

Rise ==
    /\ sensor = "armed"
    /\ pin' = "high" /\ irq' = TRUE /\ sensor' = "pulse"
    /\ UNCHANGED <<bits, deferred, timerValue, reader, level, fresh, missed>>

Fall ==
    /\ sensor = "pulse"
    /\ pin' = "low" /\ irq' = TRUE /\ sensor' = "quiet"
    /\ missed' = IF irq THEN "edges merged" ELSE missed
    /\ UNCHANGED <<bits, deferred, timerValue, reader, level, fresh>>

NoAnswer ==
    /\ sensor = "armed"
    /\ sensor' = "quiet" /\ missed' = "no answer"
    /\ UNCHANGED <<bits, deferred, timerValue, pin, irq, reader, level, fresh>>

-----------------------------------------------------------------------------
(* echoInt.  xTimerPendFunctionCallFromISR fails when the queue is full,   *)
(* and its result is ignored.                                              *)

Defer(q, op) == IF Len(q) < TimerQueueLen THEN Append(q, op) ELSE q

RisingEdge ==
    /\ irq /\ pin = "high"
    /\ irq' = FALSE
    /\ deferred' = Defer(deferred, <<"set", "ECHO_WAIT">>)
    /\ UNCHANGED <<bits, timerValue, pin, sensor, reader, level, fresh, missed>>

\* Faulty variant: the end of the pulse is not announced.
FallingEdgeSilent ==
    /\ irq /\ pin = "low"
    /\ irq' = FALSE
    /\ IF "ECHO_WAIT" \in bits
       THEN /\ \E w \in Widths : timerValue' = w
            /\ fresh' = TRUE
            /\ deferred' = Defer(deferred, <<"clear", "ECHO_WAIT">>)
            /\ UNCHANGED missed
       ELSE /\ missed' = IF missed = "nothing" THEN "start not applied" ELSE missed
            /\ UNCHANGED <<timerValue, fresh, deferred>>
    /\ UNCHANGED <<bits, pin, sensor, reader, level>>

FallingEdge ==
    /\ irq /\ pin = "low"
    /\ irq' = FALSE
    /\ IF "ECHO_WAIT" \in bits
       THEN /\ \E w \in Widths : timerValue' = w
            /\ fresh' = TRUE
            /\ deferred' = Defer(Defer(deferred, <<"set", "ECHO_DONE">>), <<"clear", "ECHO_WAIT">>)
            /\ UNCHANGED missed
       ELSE /\ missed' = IF missed = "nothing" THEN "start not applied" ELSE missed
            /\ UNCHANGED <<timerValue, fresh, deferred>>
    /\ UNCHANGED <<bits, pin, sensor, reader, level>>

\* The timer task applies the oldest deferred operation.
Apply ==
    /\ deferred # <<>>
    /\ LET op == Head(deferred)
       IN  bits' = IF op[1] = "set" THEN bits \cup {op[2]} ELSE bits \ {op[2]}
    /\ deferred' = Tail(deferred)
    /\ UNCHANGED <<timerValue, pin, irq, sensor, reader, level, fresh, missed>>

EchoInt == RisingEdge \/ FallingEdge
Sensor == Rise \/ Fall \/ NoAnswer

Next == ReadWaterLevel \/ Sensor \/ EchoInt \/ Apply

Spec == Init /\ [][Next]_vars

\* The processor, the timer task and the sensor all make progress.
FairSpec == Spec /\ WF_vars(ReadWaterLevel) /\ WF_vars(Rise) /\ WF_vars(Fall)
                 /\ WF_vars(EchoInt) /\ WF_vars(Apply)

-----------------------------------------------------------------------------
(* What must hold.                                                         *)

Operations == {"set", "clear"} \X {"ECHO_DONE", "ECHO_WAIT"}

\* The type of every variable.
TypeOK ==
    /\ bits \subseteq {"ECHO_DONE", "ECHO_WAIT"}
    /\ deferred \in Seq(Operations) /\ Len(deferred) <= TimerQueueLen
    /\ timerValue \in Nat
    /\ pin \in {"low", "high"} /\ irq \in BOOLEAN
    /\ sensor \in {"quiet", "armed", "pulse"}
    /\ reader \in {"idle", "trigger", "waiting", "measured"}
    /\ level \in 0..100 \cup {Garbage}
    /\ fresh \in BOOLEAN
    /\ missed \in {"nothing", "no answer", "edges merged", "start not applied"}

\* readWaterLevel converts the width of the pulse its own trigger caused: no
\* bit left over from an earlier call lets it through with an old width.
ReadingIsFresh == reader = "measured" => fresh

\* A call returns, or its echo was missed for a named reason: the sensor did
\* not answer, both edges were merged into one interrupt, or the pulse ended
\* before the timer task had set ECHO_WAIT.  No other order of interrupts,
\* deferred operations and tasks keeps the reader waiting for ever.
ReadingReturns == (reader # "idle") ~> (reader = "idle" \/ missed # "nothing")
=============================================================================
