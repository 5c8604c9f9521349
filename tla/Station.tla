------------------------------- MODULE Station -------------------------------
(***************************************************************************)
(* The firmware application (main.c): the tasks ConnectWiFI,               *)
(* measurementsTask and wateringTask, and the callback Mqtt_Recv, which    *)
(* the MQTT receive task runs.  They share                                 *)
(*   - g_PBQueue, a bounded queue written without waiting,                 *)
(*   - three mailboxes of length one (xQueueOverwrite / xQueuePeek),       *)
(*   - two FreeRTOS event groups, measurementFlag and waterFlag,           *)
(*   - the relay of the pump.                                              *)
(* A step is one call that another task can observe.  The receive task has *)
(* priority 3 and the others priority 2: the branch of Mqtt_Recv for /PC   *)
(* makes no blocking call, so it is one step; the branch for Losant prints *)
(* after every field, and a print waits when the console is full, so the   *)
(* other tasks run between two fields, with the MQTT mutex held.           *)
(***************************************************************************)
EXTENDS Integers, Sequences

CONSTANTS
    PBQueueLen,     \* length of g_PBQueue, 20 in the code
    PcMessages,     \* messages the PC interface may send to /PC
    LosantMessages, \* commands the Losant application may send
    Temperatures,   \* temperatures the SHT31 may report
    Moistures,      \* values analogReadMoisture may compute
    StackTemps,     \* what an uninitialised float of the stack may hold
    StackChars,     \* what an uninitialised char of the stack may hold
    Word,           \* 2^32 in the code: the range of uint32_t
    None            \* an empty mailbox, a local out of use

Fields == {"measurementSwitch", "measuresFreq", "wateringTime",
           "temperatureThreshold", "moistureThreshold"}
ThresholdFields == {"temperatureThreshold", "moistureThreshold"}

\* A message is a function from the fields present to their values.
IsMessage(m) == DOMAIN m \subseteq Fields /\ \A f \in DOMAIN m : m[f] \in Nat

ASSUME StationAssumption ==
    /\ PBQueueLen \in Nat \ {0}
    /\ Word \in Nat /\ Word > 60000
    /\ \A m \in PcMessages \cup LosantMessages : IsMessage(m)
    /\ Temperatures \subseteq Int /\ StackTemps \subseteq Int
    /\ StackChars \subseteq 0..255
    /\ Moistures \subseteq 10..157   \* 10 + 100 * volts, volts in 0..1.467
    /\ None \notin Int
    /\ None \notin [temperature : Int, moisture : Int]

Reports == {"SENSORS_REPORT", "WATER_REPORT", "BROKER_DISCONNECTION"}
Thresholds == [temperature : 0..255, moisture : 0..255]
Idle == [left |-> {}, msg |-> <<>>,
         stack |-> [temperature |-> 0, moisture |-> 0], busy |-> FALSE]

VARIABLES
    g_PBQueue,        \* the queue of reports to publish
    freqQueue,        \* mailbox: sampling period, in ms
    waterQueue,       \* mailbox: duration of a watering, in ms
    thresholdsQueue,  \* mailbox: thresholds of the automatic watering
    measurementFlag,  \* MEASUREMENT_START is set
    waterFlag,        \* WATERING_START is set
    relay,            \* the pump runs
    wifi,             \* where ConnectWiFI is
    RecvQue,          \* the report ConnectWiFI handles
    sensorsData,      \* its measurement, then
    thresholds,       \* and the thresholds it compares with
    measure,          \* where measurementsTask is
    samplingFreq,     \* its period
    water,            \* where wateringTask is
    wateringTime,     \* its duration
    link,             \* the connection with the broker
    rx,               \* the callback of the receive task
    demand,           \* history: who asked for water since the flag was clear
    dueTo,            \* history: demand, when wateringTask chose its duration
    asked,            \* history: the durations clients asked for, in seconds
    late,             \* history: reports queued since measuring was off
    moistureAsked     \* history: the moisture threshold a client asked for last

queues == <<g_PBQueue, freqQueue, waterQueue, thresholdsQueue>>
flags == <<measurementFlag, waterFlag>>
wifiVars == <<wifi, RecvQue, sensorsData, thresholds>>
measureVars == <<measure, samplingFreq>>
waterVars == <<water, wateringTime, relay>>
history == <<demand, dueTo, asked, late, moistureAsked>>
vars == <<queues, flags, wifiVars, measureVars, waterVars, link, rx, history>>

-----------------------------------------------------------------------------
(* Conversions and primitives.                                             *)

MinutesToMs(v) == (v * 1000 * 60) % Word
SecondsToMs(v) == (v * 1000) % Word
DefaultPeriod == 60000
DefaultTime == 5000

\* Faulty variant: the queue grows instead of refusing.
MsgQWriteUnbounded(q, r) == Append(q, r)

\* osi_MsgQWrite(..., OSI_NO_WAIT): a report that finds the queue full is lost.
MsgQWrite(q, r) == IF Len(q) < PBQueueLen THEN Append(q, r) ELSE q

\* xQueuePeek of a mailbox: the default stays when it was never written.
PeekOr(mailbox, default) == IF mailbox = None THEN default ELSE mailbox

\* xEventGroupSetBits releases the task blocked on the bit, there and then:
\* the bit may be clear again by the time that task runs.
SetWaterFlag(who) ==
    /\ waterFlag' = TRUE
    /\ water' = IF water = "blocked" THEN "peek" ELSE water
    /\ demand' = demand \cup {who}

SetMeasurementFlag ==
    /\ measurementFlag' = TRUE
    /\ measure' = IF measure = "blocked" THEN "send" ELSE measure
    /\ late' = 0

-----------------------------------------------------------------------------
Init ==
    /\ g_PBQueue = <<>>
    /\ freqQueue = None /\ waterQueue = None /\ thresholdsQueue = None
    /\ measurementFlag = FALSE /\ waterFlag = FALSE
    /\ relay = FALSE
    /\ wifi = "connect" /\ RecvQue = "SENSORS_REPORT"
    /\ sensorsData = None /\ thresholds = None
    /\ measure = "wait" /\ samplingFreq = DefaultPeriod
    /\ water = "start" /\ wateringTime = DefaultTime
    /\ link = "none"
    /\ rx = Idle
    /\ demand = {} /\ dueTo = {} /\ asked = {} /\ late = 0 /\ moistureAsked = None

-----------------------------------------------------------------------------
(* Mqtt_Recv.                                                              *)

\* systemThresholds_ is a local nobody initialises: a field the message does
\* not carry keeps what the stack held.  The fields are chars.
Assigned(m, fs, stack) ==
    [temperature |-> IF "temperatureThreshold" \in fs
                     THEN m["temperatureThreshold"] % 256 ELSE stack.temperature,
     moisture    |-> IF "moistureThreshold" \in fs
                     THEN m["moistureThreshold"] % 256 ELSE stack.moisture]

\* The effect of the fields fs of message m.
ApplyFields(m, fs, stack) ==
    /\ freqQueue' = IF "measuresFreq" \in fs
                    THEN MinutesToMs(m["measuresFreq"]) ELSE freqQueue
    /\ IF "measurementSwitch" \in fs
       THEN IF m["measurementSwitch"] # 0
            THEN SetMeasurementFlag
            ELSE measurementFlag' = FALSE /\ UNCHANGED <<measure, late>>
       ELSE UNCHANGED <<measurementFlag, measure, late>>
    /\ IF "wateringTime" \in fs
       THEN /\ waterQueue' = SecondsToMs(m["wateringTime"])
            /\ asked' = asked \cup {m["wateringTime"]}
            /\ SetWaterFlag("client")
       ELSE UNCHANGED <<waterQueue, asked, waterFlag, water, demand>>
    /\ thresholdsQueue' = IF fs \cap ThresholdFields # {}
                          THEN Assigned(m, fs, stack) ELSE thresholdsQueue
    /\ moistureAsked' = IF "moistureThreshold" \in fs
                        THEN m["moistureThreshold"] % 256 ELSE moistureAsked
    /\ UNCHANGED <<g_PBQueue, wifiVars, samplingFreq, wateringTime, relay,
                   link, dueTo>>

\* The client hears the broker once subscribed.
Subscribed == link = "up" /\ wifi \notin {"connect", "subscribe", "exit"}

\* The order in which the Losant branch looks for the fields.
LosantOrder == [measurementSwitch |-> 1, measuresFreq |-> 2, wateringTime |-> 3,
                temperatureThreshold |-> 4, moistureThreshold |-> 5]
IsNext(f, left) == f \in left /\ \A g \in left : LosantOrder[f] <= LosantOrder[g]

\* Faulty variant: a receive task no more urgent than the others, which may
\* run between two fields.
RecvPcPreempted ==
    /\ Subscribed /\ ~rx.busy
    /\ \E m \in PcMessages, stack \in [temperature : StackChars, moisture : StackChars] :
         rx' = [left |-> DOMAIN m, msg |-> m, stack |-> stack, busy |-> TRUE]
    /\ UNCHANGED <<queues, flags, wifiVars, measureVars, waterVars, link, history>>

RecvPc ==
    /\ Subscribed /\ ~rx.busy
    /\ \E m \in PcMessages, stack \in [temperature : StackChars, moisture : StackChars] :
         ApplyFields(m, DOMAIN m, stack)
    /\ UNCHANGED rx

RecvLosant ==
    /\ Subscribed /\ ~rx.busy
    /\ \E m \in LosantMessages, stack \in [temperature : StackChars, moisture : StackChars] :
         rx' = [left |-> DOMAIN m, msg |-> m, stack |-> stack, busy |-> TRUE]
    /\ UNCHANGED <<queues, flags, wifiVars, measureVars, waterVars, link, history>>

LosantField ==
    /\ rx.busy
    /\ \E f \in Fields :
         /\ IsNext(f, rx.left)
         /\ ApplyFields(rx.msg, {f}, rx.stack)
         /\ rx' = [rx EXCEPT !.left = @ \ {f}, !.stack = Assigned(rx.msg, {f}, @)]

RecvReturns ==
    /\ rx.busy /\ rx.left = {}
    /\ rx' = Idle
    /\ UNCHANGED <<queues, flags, wifiVars, measureVars, waterVars, link, history>>

-----------------------------------------------------------------------------
(* measurementsTask.                                                       *)

MeasureWait ==
    /\ measure = "wait"
    /\ measure' = IF measurementFlag THEN "send" ELSE "blocked"
    /\ UNCHANGED <<queues, flags, wifiVars, samplingFreq, waterVars, link, rx, history>>

MeasureSend ==
    /\ measure = "send"
    /\ g_PBQueue' = MsgQWrite(g_PBQueue, "SENSORS_REPORT")
    /\ late' = IF measurementFlag THEN late ELSE late + 1
    /\ measure' = "peek"
    /\ UNCHANGED <<freqQueue, waterQueue, thresholdsQueue, flags, wifiVars,
                   samplingFreq, waterVars, link, rx, demand, dueTo, asked, moistureAsked>>

MeasurePeek ==
    /\ measure = "peek"
    /\ samplingFreq' = PeekOr(freqQueue, DefaultPeriod)
    /\ measure' = "sleep"
    /\ UNCHANGED <<queues, flags, wifiVars, waterVars, link, rx, history>>

\* Faulty variant: the wait for MEASUREMENT_START is outside the loop.
MeasureWakeSends ==
    /\ measure = "sleep"
    /\ measure' = "send" /\ samplingFreq' = DefaultPeriod
    /\ UNCHANGED <<queues, flags, wifiVars, waterVars, link, rx, history>>

MeasureWake ==
    /\ measure = "sleep"
    /\ measure' = "wait" /\ samplingFreq' = DefaultPeriod
    /\ UNCHANGED <<queues, flags, wifiVars, waterVars, link, rx, history>>

MeasurementsTask == MeasureWait \/ MeasureSend \/ MeasurePeek \/ MeasureWake

-----------------------------------------------------------------------------
(* wateringTask.                                                           *)

WaterReport(from, to) ==
    /\ water = from
    /\ g_PBQueue' = MsgQWrite(g_PBQueue, "WATER_REPORT")
    /\ water' = to
    /\ UNCHANGED <<freqQueue, waterQueue, thresholdsQueue, flags, wifiVars,
                   measureVars, wateringTime, relay, link, rx, history>>

\* Faulty variant: the wait clears the bit when it returns (pdTRUE).
WaterWaitClears ==
    /\ water = "wait"
    /\ water' = IF waterFlag THEN "peek" ELSE "blocked"
    /\ waterFlag' = FALSE
    /\ UNCHANGED <<queues, measurementFlag, wifiVars, measureVars, wateringTime,
                   relay, link, rx, history>>

\* Faulty variant: the wait is for a new request, not for the bit.
WaterWaitBlocks ==
    /\ water = "wait"
    /\ water' = "blocked"
    /\ UNCHANGED <<queues, flags, wifiVars, measureVars, wateringTime, relay,
                   link, rx, history>>

WaterWait ==
    /\ water = "wait"
    /\ water' = IF waterFlag THEN "peek" ELSE "blocked"
    /\ UNCHANGED <<queues, flags, wifiVars, measureVars, wateringTime, relay,
                   link, rx, history>>

\* Faulty variant: the duration of the mailbox is not used.
WaterPeekNothing ==
    /\ water = "peek"
    /\ dueTo' = demand
    /\ water' = "on"
    /\ UNCHANGED <<queues, flags, wifiVars, measureVars, wateringTime, relay,
                   link, rx, demand, asked, late, moistureAsked>>

WaterPeek ==
    /\ water = "peek"
    /\ wateringTime' = PeekOr(waterQueue, DefaultTime)
    /\ dueTo' = demand
    /\ water' = "on"
    /\ UNCHANGED <<queues, flags, wifiVars, measureVars, relay, link, rx,
                   demand, asked, late, moistureAsked>>

WaterOn ==
    /\ water = "on"
    /\ relay' = TRUE /\ water' = "sleep"
    /\ UNCHANGED <<queues, flags, wifiVars, measureVars, wateringTime, link, rx, history>>

WaterOff ==
    /\ water = "sleep"
    /\ relay' = FALSE /\ water' = "report"
    /\ UNCHANGED <<queues, flags, wifiVars, measureVars, wateringTime, link, rx, history>>

\* Faulty variant: the request is not forgotten.
WaterClearsNothing ==
    /\ water = "clear"
    /\ demand' = {} /\ dueTo' = {}
    /\ water' = "wait" /\ wateringTime' = DefaultTime
    /\ UNCHANGED <<queues, flags, wifiVars, measureVars, relay, link, rx, asked, late,
                   moistureAsked>>

WaterClear ==
    /\ water = "clear"
    /\ waterFlag' = FALSE /\ demand' = {} /\ dueTo' = {}
    /\ water' = "wait" /\ wateringTime' = DefaultTime
    /\ UNCHANGED <<queues, measurementFlag, wifiVars, measureVars, relay, link,
                   rx, asked, late, moistureAsked>>

WateringTask == \/ WaterReport("start", "wait") \/ WaterReport("report", "clear")
                \/ WaterWait \/ WaterPeek \/ WaterOn \/ WaterOff \/ WaterClear

-----------------------------------------------------------------------------
(* ConnectWiFI.                                                            *)

Connect ==
    /\ wifi = "connect"
    /\ \/ wifi' = "subscribe" /\ link' = "up"
       \/ wifi' = "exit" /\ UNCHANGED link
    /\ UNCHANGED <<queues, flags, RecvQue, sensorsData, thresholds, measureVars,
                   waterVars, rx, history>>

Subscribe ==
    /\ wifi = "subscribe"
    /\ \/ link = "up" /\ wifi' = "read" /\ UNCHANGED link
       \/ wifi' = "exit" /\ link' = "lost"
    /\ UNCHANGED <<queues, flags, RecvQue, sensorsData, thresholds, measureVars,
                   waterVars, rx, history>>

\* The branches of the loop.  iConnBroker is 1: one disconnection ends it.
Branch == [SENSORS_REPORT |-> "sense", WATER_REPORT |-> "level",
           BROKER_DISCONNECTION |-> "exit"]

Read ==
    /\ wifi = "read" /\ g_PBQueue # <<>>
    /\ RecvQue' = Head(g_PBQueue) /\ g_PBQueue' = Tail(g_PBQueue)
    /\ wifi' = Branch[Head(g_PBQueue)]
    /\ UNCHANGED <<freqQueue, waterQueue, thresholdsQueue, flags, sensorsData,
                   thresholds, measureVars, waterVars, link, rx, history>>

\* getTemperature writes nothing when a checksum fails, and its result is
\* ignored: the measurement is then what the stack held.
Sense ==
    /\ wifi = "sense"
    /\ \E t \in Temperatures \cup StackTemps, m \in Moistures :
         sensorsData' = [temperature |-> t, moisture |-> m]
    /\ wifi' = "peek"
    /\ UNCHANGED <<queues, flags, RecvQue, thresholds, measureVars, waterVars,
                   link, rx, history>>

PeekThresholds ==
    /\ wifi = "peek"
    /\ thresholds' = PeekOr(thresholdsQueue, [temperature |-> 0, moisture |-> 0])
    /\ wifi' = "decide"
    /\ UNCHANGED <<queues, flags, RecvQue, sensorsData, measureVars, waterVars,
                   link, rx, history>>

\* Faulty variant: one threshold is enough.
DryEither == \/ thresholds.temperature >= sensorsData.temperature
             \/ thresholds.moisture >= sensorsData.moisture

Dry == /\ thresholds.temperature >= sensorsData.temperature
       /\ thresholds.moisture >= sensorsData.moisture

Decide ==
    /\ wifi = "decide"
    /\ IF Dry THEN SetWaterFlag("auto") ELSE UNCHANGED <<waterFlag, water, demand>>
    /\ wifi' = "publish" /\ sensorsData' = None /\ thresholds' = None
    /\ UNCHANGED <<queues, measurementFlag, RecvQue, measureVars, wateringTime,
                   relay, link, rx, dueTo, asked, late, moistureAsked>>

\* Five calls of readWaterLevel, each followed by a sleep.  A call waits for the
\* echo with portMAX_DELAY: where none comes, ConnectWiFI hangs for ever.
ReadLevel ==
    /\ wifi = "level" /\ wifi' \in {"publish", "hung"}
    /\ UNCHANGED <<queues, flags, RecvQue, sensorsData, thresholds, measureVars,
                   waterVars, link, rx, history>>

\* sl_ExtLib_MqttClientSend, QoS 2 to the PC: it returns at once when the
\* connection is lost; otherwise it takes the MQTT mutex, which the receive
\* task holds while the callback runs, and waits for the PUBCOMP.
Publish ==
    /\ wifi = "publish"
    /\ \/ link = "up" /\ ~rx.busy /\ wifi' = "pubcomp"
       \/ link # "up" /\ wifi' = "losant"
    /\ UNCHANGED <<queues, flags, RecvQue, sensorsData, thresholds, measureVars,
                   waterVars, link, rx, history>>

\* Faulty variant: a lost connection does not wake the sender.
PubCompOnly ==
    /\ wifi = "pubcomp"
    /\ ~rx.busy /\ link = "up"
    /\ wifi' = "losant"
    /\ UNCHANGED <<queues, flags, RecvQue, sensorsData, thresholds, measureVars,
                   waterVars, link, rx, history>>

PubComp ==
    /\ wifi = "pubcomp"
    /\ ~rx.busy \/ link # "up"
    /\ wifi' = "losant"
    /\ UNCHANGED <<queues, flags, RecvQue, sensorsData, thresholds, measureVars,
                   waterVars, link, rx, history>>

\* The copy for Losant has QoS 0: nothing is awaited.
PublishLosant ==
    /\ wifi = "losant"
    /\ ~rx.busy \/ link # "up"
    /\ wifi' = "read"
    /\ UNCHANGED <<queues, flags, RecvQue, sensorsData, thresholds, measureVars,
                   waterVars, link, rx, history>>

ConnectWiFI == \/ Connect \/ Subscribe \/ Read \/ Sense \/ PeekThresholds
               \/ Decide \/ ReadLevel \/ Publish \/ PubComp \/ PublishLosant

\* The receive task closes the connection; with blocking_send set, nobody
\* tells the application, which goes on with its loop.
LinkLost ==
    /\ link = "up" /\ ~rx.busy
    /\ link' = "lost"
    /\ UNCHANGED <<queues, flags, wifiVars, measureVars, waterVars, rx, history>>

MqttRecv == RecvPc \/ RecvLosant \/ LosantField \/ RecvReturns

Next == MeasurementsTask \/ WateringTask \/ ConnectWiFI \/ MqttRecv \/ LinkLost

Spec == Init /\ [][Next]_vars

\* Tasks of equal priority share the processor in turn, every sleep ends, the
\* callback returns, and the broker answers or the connection is closed.  Nothing
\* says that an echo comes: ConnectWiFI may hang in its place of the same name.
\* ConnectWiFI needs the MQTT mutex between two messages of Losant, which are
\* sent at a human pace: it gets it in the end, hence strong fairness.
Fairness == /\ WF_vars(MeasurementsTask) /\ WF_vars(WateringTask)
            /\ SF_vars(ConnectWiFI) /\ WF_vars(LosantField \/ RecvReturns)

FairSpec == Spec /\ Fairness

-----------------------------------------------------------------------------
(* What must hold.                                                         *)

WifiLocations == {"connect", "subscribe", "read", "sense", "peek", "decide",
                  "level", "hung", "publish", "pubcomp", "losant", "exit"}
MeasureLocations == {"wait", "blocked", "send", "peek", "sleep"}
WaterLocations == {"start", "wait", "blocked", "peek", "on", "sleep", "report", "clear"}

Callbacks == [left : SUBSET Fields, msg : PcMessages \cup LosantMessages \cup {<<>>},
              stack : Thresholds, busy : BOOLEAN]

\* The type of every variable; the queue never outgrows its length.
TypeOK ==
    /\ g_PBQueue \in Seq(Reports) /\ Len(g_PBQueue) <= PBQueueLen
    /\ freqQueue # None => freqQueue \in 0..(Word-1)
    /\ waterQueue # None => waterQueue \in 0..(Word-1)
    /\ thresholdsQueue # None => thresholdsQueue \in Thresholds
    /\ measurementFlag \in BOOLEAN /\ waterFlag \in BOOLEAN /\ relay \in BOOLEAN
    /\ wifi \in WifiLocations /\ RecvQue \in Reports
    /\ sensorsData # None => sensorsData \in [temperature : Int, moisture : Int]
    /\ thresholds # None => thresholds \in Thresholds
    /\ measure \in MeasureLocations /\ samplingFreq \in 0..(Word-1)
    /\ water \in WaterLocations /\ wateringTime \in 0..(Word-1)
    /\ link \in {"none", "up", "lost"}
    /\ rx \in Callbacks
    /\ demand \subseteq {"client", "auto"} /\ dueTo \subseteq {"client", "auto"}
    /\ asked \subseteq Nat /\ late \in Nat
    /\ moistureAsked \in 0..255 \cup {None}

\* The pump runs only while somebody's request for water stands: no order of
\* commands, automatic triggers and task switches clears WATERING_START under
\* a running pump, or starts the pump without it.
PumpOnDemand == relay => waterFlag /\ demand # {}

\* Until a client has sent thresholds, the station waters only when asked to:
\* the defaults of ConnectWiFI cannot be met by any measurement, not even by
\* one a checksum error left uninitialised.
NoAutoWateringByDefault == "auto" \in demand => thresholdsQueue # None

\* A watering that answers a client lasts as long as some client asked for;
\* the default duration is for automatic waterings before the first request.
DurationAsked ==
    relay => \/ \E s \in asked : wateringTime = SecondsToMs(s)
             \/ wateringTime = DefaultTime /\ dueTo = {"auto"}

\* Once measuring is switched off, at most one more measurement is queued: the
\* one measurementsTask was about to send when the flag went down.
SwitchOffStops == late <= 1

\* With messages that carry both thresholds, the mailbox holds the thresholds of
\* one message whenever no callback runs: never the temperature of one and the
\* moisture of another, never what the stack held.
Carrying == {m \in PcMessages \cup LosantMessages : ThresholdFields \subseteq DOMAIN m}
PairOf(m) == [temperature |-> m["temperatureThreshold"] % 256,
              moisture    |-> m["moistureThreshold"] % 256]
ThresholdsWhole ==
    ~rx.busy /\ thresholdsQueue # None => \E m \in Carrying : thresholdsQueue = PairOf(m)

\* Mqtt_Recv has written one threshold of a Losant command and not the other.
HalfWritten == /\ rx.busy /\ rx.msg \in LosantMessages
               /\ rx.left \cap ThresholdFields = {"moistureThreshold"}

\* With messages that carry both thresholds, what ConnectWiFI compares is what one
\* message said, or the defaults, except when it looks between the two fields of
\* a Losant command: then it has that command's temperature and the moisture of
\* nobody.  A command of the PC is never seen half applied, because the receive
\* task has the higher priority.
DecisionsWhole ==
    [][PeekThresholds =>
          IF HalfWritten
          THEN thresholds'.temperature = PairOf(rx.msg).temperature
          ELSE \/ thresholds' = [temperature |-> 0, moisture |-> 0]
               \/ \E m \in Carrying : thresholds' = PairOf(m)]_vars

\* "Si recibimos un mensaje de cambio de umbral de temperatura": a message that
\* changes the temperature threshold.  Once a client has asked for a moisture
\* threshold, the mailbox holds the one asked for last.
MoistureThresholdAsked ==
    ~rx.busy /\ moistureAsked # None => thresholdsQueue.moisture = moistureAsked

\* The station implements the abstract irrigator.
Irrigator == INSTANCE Irrigation WITH
    pump <- relay, served <- water \in {"report", "clear"}
IrrigationSafe == Irrigator!Spec
IrrigationLive == Irrigator!FairSpec

\* What wateringTask or measurementsTask queued is taken by ConnectWiFI, lost
\* connections included, unless it never reached its loop or hangs in a reading
\* of the water level: nothing else keeps it from the queue.
ReportsAreTaken == (g_PBQueue # <<>>) ~> (wifi \in {"sense", "level", "hung", "exit"})
=============================================================================
