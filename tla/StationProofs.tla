---------------------------- MODULE StationProofs ----------------------------
(***************************************************************************)
(* The safety theorems of Station, for every length of the queue, every    *)
(* set of messages and every measurement.  Each property has an inductive  *)
(* strengthening; messages reach the state through ApplyFields only, so    *)
(* that a proof has one step for it, used for both clients, and one for    *)
(* every other action that could disturb the strengthening.                *)
(***************************************************************************)
EXTENDS Station, TLAPS

-----------------------------------------------------------------------------
(* The types.                                                              *)

Messages == PcMessages \cup LosantMessages

\* A callback in progress handles fields its message carries.
TypeInv == TypeOK /\ rx.left \subseteq DOMAIN rx.msg
                  /\ (rx.busy => rx.msg \in Messages)

LEMMA WordType == Word \in Nat
BY StationAssumption

\* A conversion of main.c stays in the range of uint32_t, and the defaults
\* are in it.
LEMMA Durations ==
    /\ \A v \in Nat : MinutesToMs(v) \in 0..(Word-1) /\ SecondsToMs(v) \in 0..(Word-1)
    /\ DefaultPeriod \in 0..(Word-1) /\ DefaultTime \in 0..(Word-1)
<1>1. \A n \in Nat : n % Word \in 0..(Word-1)
  BY StationAssumption
<1>2. ASSUME NEW v \in Nat PROVE v * 1000 * 60 \in Nat /\ v * 1000 \in Nat
  OBVIOUS
<1>3. DefaultPeriod \in 0..(Word-1) /\ DefaultTime \in 0..(Word-1)
  BY StationAssumption DEF DefaultPeriod, DefaultTime
<1> QED BY <1>1, <1>2, <1>3 DEF MinutesToMs, SecondsToMs

\* The fields of systemThresholds are chars: whatever the message carries and
\* whatever the stack held.
LEMMA AssignedType ==
    ASSUME NEW m \in Messages, NEW fs \in SUBSET (DOMAIN m), NEW stack \in Thresholds
    PROVE  Assigned(m, fs, stack) \in Thresholds
<1>1. \A f \in fs : m[f] \in Nat
  BY StationAssumption DEF Messages, IsMessage
<1>2. \A n \in Nat : n % 256 \in 0..255
  OBVIOUS
<1>3. "temperatureThreshold" \in fs => m["temperatureThreshold"] % 256 \in 0..255
  BY <1>1, <1>2
<1>4. "moistureThreshold" \in fs => m["moistureThreshold"] % 256 \in 0..255
  BY <1>1, <1>2
<1> QED BY <1>3, <1>4 DEF Assigned, Thresholds

LEMMA StackType == [temperature : StackChars, moisture : StackChars] \subseteq Thresholds
<1>1. StackChars \subseteq 0..255
  BY StationAssumption
<1> QED BY <1>1 DEF Thresholds

\* osi_MsgQWrite keeps the queue within its length.
LEMMA MsgQWriteType ==
    ASSUME NEW q \in Seq(Reports), Len(q) <= PBQueueLen, NEW r \in Reports
    PROVE  MsgQWrite(q, r) \in Seq(Reports) /\ Len(MsgQWrite(q, r)) <= PBQueueLen
BY StationAssumption DEF MsgQWrite

LEMMA ApplyFieldsType ==
    ASSUME TypeOK, NEW m \in Messages, NEW fs \in SUBSET (DOMAIN m),
           NEW stack \in Thresholds, ApplyFields(m, fs, stack), rx' \in Callbacks
    PROVE  TypeOK'
<1>1. \A f \in fs : m[f] \in Nat
  BY StationAssumption DEF Messages, IsMessage
<1>2. freqQueue' # None => freqQueue' \in 0..(Word-1)
  BY <1>1, Durations, WordType DEF ApplyFields, TypeOK
<1>3. /\ waterQueue' # None => waterQueue' \in 0..(Word-1)
      /\ asked' \subseteq Nat /\ waterFlag' \in BOOLEAN
      /\ water' \in WaterLocations /\ demand' \subseteq {"client", "auto"}
  <2>1. CASE "wateringTime" \in fs
    <3>1. m["wateringTime"] \in Nat /\ SecondsToMs(m["wateringTime"]) \in 0..(Word-1)
      BY <1>1, <2>1, Durations
    <3> QED BY <2>1, <3>1 DEF ApplyFields, SetWaterFlag, TypeOK, WaterLocations
  <2>2. CASE "wateringTime" \notin fs
    BY <2>2 DEF ApplyFields, TypeOK
  <2> QED BY <2>1, <2>2
<1>4. measurementFlag' \in BOOLEAN /\ measure' \in MeasureLocations /\ late' \in Nat
  <2>1. CASE "measurementSwitch" \in fs /\ m["measurementSwitch"] # 0
    BY <2>1 DEF ApplyFields, SetMeasurementFlag, TypeOK, MeasureLocations
  <2>2. CASE "measurementSwitch" \in fs /\ m["measurementSwitch"] = 0
    BY <2>2 DEF ApplyFields, TypeOK
  <2>3. CASE "measurementSwitch" \notin fs
    BY <2>3 DEF ApplyFields, TypeOK
  <2> QED BY <2>1, <2>2, <2>3
<1>5. thresholdsQueue' # None => thresholdsQueue' \in Thresholds
  BY AssignedType DEF ApplyFields, TypeOK
<1>6. UNCHANGED <<g_PBQueue, wifi, RecvQue, sensorsData, thresholds, samplingFreq,
                  wateringTime, relay, link, dueTo>>
  BY DEF ApplyFields, wifiVars
<1>7. moistureAsked' \in 0..255 \cup {None}
  <2>1. \A n \in Nat : n % 256 \in 0..255
    OBVIOUS
  <2>2. CASE "moistureThreshold" \in fs
    BY <1>1, <2>1, <2>2 DEF ApplyFields
  <2>3. CASE "moistureThreshold" \notin fs
    BY <2>3 DEF ApplyFields, TypeOK
  <2> QED BY <2>2, <2>3
<1> QED BY <1>2, <1>3, <1>4, <1>5, <1>6, <1>7 DEF TypeOK

LEMMA TypeInit == Init => TypeInv
<1> SUFFICES ASSUME Init PROVE TypeInv
  OBVIOUS
<1>1. Idle \in Callbacks /\ Idle.left = {} /\ ~Idle.busy
  BY DEF Idle, Callbacks, Thresholds
<1>2. g_PBQueue \in Seq(Reports) /\ Len(g_PBQueue) <= PBQueueLen
  BY StationAssumption DEF Init
<1>3. samplingFreq \in 0..(Word-1) /\ wateringTime \in 0..(Word-1)
  BY Durations DEF Init
<1>4. /\ wifi \in WifiLocations /\ RecvQue \in Reports
      /\ measure \in MeasureLocations /\ water \in WaterLocations
  BY DEF Init, Reports, WifiLocations, MeasureLocations, WaterLocations
<1>5. TypeOK
  BY <1>1, <1>2, <1>3, <1>4 DEF Init, TypeOK
<1> QED BY <1>1, <1>5 DEF Init, TypeInv

LEMMA RecvType ==
    ASSUME TypeInv, RecvPc \/ RecvLosant PROVE TypeInv'
<1>1. CASE RecvPc
  <2>1. PICK m \in PcMessages, stack \in [temperature : StackChars, moisture : StackChars] :
          ApplyFields(m, DOMAIN m, stack)
    BY <1>1 DEF RecvPc
  <2>2. m \in Messages /\ stack \in Thresholds
    BY StackType DEF Messages
  <2>3. UNCHANGED rx
    BY <1>1 DEF RecvPc
  <2>4. TypeOK'
    BY <2>1, <2>2, <2>3, ApplyFieldsType DEF TypeInv, TypeOK
  <2> QED BY <2>3, <2>4 DEF TypeInv
<1>2. CASE RecvLosant
  <2>1. PICK m \in LosantMessages, stack \in [temperature : StackChars, moisture : StackChars] :
          rx' = [left |-> DOMAIN m, msg |-> m, stack |-> stack, busy |-> TRUE]
    BY <1>2 DEF RecvLosant
  <2>2. m \in Messages /\ stack \in Thresholds /\ DOMAIN m \subseteq Fields
    BY StackType, StationAssumption DEF Messages, IsMessage
  <2>3. rx' \in Callbacks /\ rx'.left = DOMAIN m /\ rx'.msg = m
    BY <2>1, <2>2 DEF Callbacks, Messages
  <2> QED BY <1>2, <2>2, <2>3 DEF RecvLosant, TypeInv, TypeOK, queues, flags, wifiVars,
                                  measureVars, waterVars, history
<1> QED BY <1>1, <1>2

LEMMA CallbackType ==
    ASSUME TypeInv, LosantField \/ RecvReturns PROVE TypeInv'
<1>1. CASE LosantField
  <2>1. PICK f \in Fields :
          /\ f \in rx.left
          /\ ApplyFields(rx.msg, {f}, rx.stack)
          /\ rx' = [rx EXCEPT !.left = @ \ {f}, !.stack = Assigned(rx.msg, {f}, @)]
    BY <1>1 DEF LosantField, IsNext
  <2>2. rx \in Callbacks /\ rx.stack \in Thresholds
    BY DEF TypeInv, TypeOK, Callbacks
  <2>3. rx.msg \in Messages /\ {f} \in SUBSET (DOMAIN rx.msg)
    BY <1>1, <2>1 DEF LosantField, TypeInv
  <2>4. Assigned(rx.msg, {f}, rx.stack) \in Thresholds
    BY <2>2, <2>3, AssignedType
  <2>5. /\ rx' \in Callbacks
        /\ rx'.left = rx.left \ {f} /\ rx'.msg = rx.msg /\ rx'.busy = rx.busy
    BY <2>1, <2>2, <2>4 DEF Callbacks
  <2>6. TypeOK'
    BY <2>1, <2>2, <2>3, <2>5, ApplyFieldsType DEF TypeInv
  <2> QED BY <2>5, <2>6 DEF TypeInv
<1>2. CASE RecvReturns
  <2>1. Idle \in Callbacks /\ Idle.left = {} /\ ~Idle.busy
    BY DEF Idle, Callbacks, Thresholds
  <2> QED BY <1>2, <2>1 DEF RecvReturns, TypeInv, TypeOK, queues, flags, wifiVars,
                            measureVars, waterVars, history
<1> QED BY <1>1, <1>2

LEMMA TasksType ==
    ASSUME TypeOK, MeasurementsTask \/ WateringTask PROVE TypeOK'
<1> USE DEF queues, flags, wifiVars, measureVars, waterVars, history
<1>1. CASE MeasureWait
  BY <1>1 DEF MeasureWait, TypeOK, MeasureLocations
<1>2. CASE MeasureSend
  BY <1>2, MsgQWriteType DEF MeasureSend, Reports, TypeOK, MeasureLocations
<1>3. CASE MeasurePeek
  <2>1. samplingFreq' \in 0..(Word-1)
    BY <1>3, Durations DEF MeasurePeek, PeekOr, TypeOK
  <2> QED BY <1>3, <2>1 DEF MeasurePeek, TypeOK, MeasureLocations
<1>4. CASE MeasureWake
  <2>1. samplingFreq' \in 0..(Word-1) /\ measure' \in MeasureLocations
    BY <1>4, Durations DEF MeasureWake, MeasureLocations
  <2> QED BY <1>4, <2>1 DEF MeasureWake, TypeOK
<1>5. ASSUME NEW from, NEW to \in WaterLocations, WaterReport(from, to) PROVE TypeOK'
  BY <1>5, MsgQWriteType DEF WaterReport, Reports, TypeOK
<1>6. CASE WaterWait
  BY <1>6 DEF WaterWait, TypeOK, WaterLocations
<1>7. CASE WaterPeek
  <2>1. wateringTime' \in 0..(Word-1)
    BY <1>7, Durations DEF WaterPeek, PeekOr, TypeOK
  <2> QED BY <1>7, <2>1 DEF WaterPeek, TypeOK, WaterLocations
<1>8. CASE WaterOn
  BY <1>8 DEF WaterOn, TypeOK, WaterLocations
<1>9. CASE WaterOff
  <2>1. relay' \in BOOLEAN /\ water' \in WaterLocations
    BY <1>9 DEF WaterOff, WaterLocations
  <2> QED BY <1>9, <2>1 DEF WaterOff, TypeOK
<1>10. CASE WaterClear
  <2>1. wateringTime' \in 0..(Word-1) /\ water' \in WaterLocations
    BY <1>10, Durations DEF WaterClear, WaterLocations
  <2>2. waterFlag' \in BOOLEAN /\ demand' = {} /\ dueTo' = {}
    BY <1>10 DEF WaterClear
  <2> QED BY <1>10, <2>1, <2>2 DEF WaterClear, TypeOK
<1>11. {"wait", "clear"} \subseteq WaterLocations
  BY DEF WaterLocations
<1>12. MeasurementsTask => TypeOK'
  BY <1>1, <1>2, <1>3, <1>4 DEF MeasurementsTask
<1>13. WateringTask => TypeOK'
  BY <1>5, <1>6, <1>7, <1>8, <1>9, <1>10, <1>11 DEF WateringTask
<1> QED BY <1>12, <1>13

LEMMA ConnectWiFIType ==
    ASSUME TypeOK, ConnectWiFI PROVE TypeOK'
<1> USE DEF queues, flags, wifiVars, measureVars, waterVars, history
<1>1. CASE Connect
  BY <1>1 DEF Connect, TypeOK, WifiLocations
<1>2. CASE Subscribe
  BY <1>2 DEF Subscribe, TypeOK, WifiLocations
<1>3. CASE Read
  <2>1. /\ Head(g_PBQueue) \in Reports /\ Tail(g_PBQueue) \in Seq(Reports)
        /\ Len(Tail(g_PBQueue)) <= PBQueueLen
    BY <1>3, StationAssumption DEF Read, TypeOK
  <2>2. \A r \in Reports : Branch[r] \in WifiLocations
    BY DEF Reports, Branch, WifiLocations
  <2> QED BY <1>3, <2>1, <2>2 DEF Read, TypeOK
<1>4. CASE Sense
  <2>1. Temperatures \cup StackTemps \subseteq Int /\ Moistures \subseteq Int
    BY StationAssumption
  <2>2. sensorsData' \in [temperature : Int, moisture : Int]
    BY <1>4, <2>1 DEF Sense
  <2> QED BY <1>4, <2>2 DEF Sense, TypeOK, WifiLocations
<1>5. CASE PeekThresholds
  <2>1. [temperature |-> 0, moisture |-> 0] \in Thresholds
    BY DEF Thresholds
  <2> QED BY <1>5, <2>1 DEF PeekThresholds, PeekOr, TypeOK, WifiLocations
<1>6. CASE Decide
  <2>1. waterFlag' \in BOOLEAN /\ water' \in WaterLocations /\ demand' \subseteq {"client", "auto"}
    BY <1>6 DEF Decide, SetWaterFlag, TypeOK, WaterLocations
  <2> QED BY <1>6, <2>1 DEF Decide, TypeOK, WifiLocations
<1>7. CASE ReadLevel
  BY <1>7 DEF ReadLevel, TypeOK, WifiLocations
<1>8. CASE Publish
  BY <1>8 DEF Publish, TypeOK, WifiLocations
<1>9. CASE PubComp
  BY <1>9 DEF PubComp, TypeOK, WifiLocations
<1>10. CASE PublishLosant
  BY <1>10 DEF PublishLosant, TypeOK, WifiLocations
<1> QED BY <1>1, <1>2, <1>3, <1>4, <1>5, <1>6, <1>7, <1>8, <1>9, <1>10 DEF ConnectWiFI

\* Only the callback changes rx.
LEMMA RxUnchanged ==
    ASSUME MeasurementsTask \/ WateringTask \/ ConnectWiFI \/ LinkLost \/ UNCHANGED vars
    PROVE  rx' = rx
<1>1. MeasurementsTask => rx' = rx
  BY DEF MeasurementsTask, MeasureWait, MeasureSend, MeasurePeek, MeasureWake
<1>2. WateringTask => rx' = rx
  BY DEF WateringTask, WaterReport, WaterWait, WaterPeek, WaterOn, WaterOff, WaterClear
<1>3. ConnectWiFI => rx' = rx
  BY DEF ConnectWiFI, Connect, Subscribe, Read, Sense, PeekThresholds, Decide, ReadLevel,
         Publish, PubComp, PublishLosant
<1> QED BY <1>1, <1>2, <1>3 DEF LinkLost, vars

LEMMA TypeNext == TypeInv /\ [Next]_vars => TypeInv'
<1> SUFFICES ASSUME TypeInv, [Next]_vars PROVE TypeInv'
  OBVIOUS
<1>1. TypeOK
  BY DEF TypeInv
<1>2. CASE MqttRecv
  BY <1>2, RecvType, CallbackType DEF MqttRecv
<1>3. CASE MeasurementsTask \/ WateringTask \/ ConnectWiFI \/ LinkLost \/ UNCHANGED vars
  <2>1. LinkLost \/ UNCHANGED vars => TypeOK'
    BY <1>1 DEF LinkLost, vars, TypeOK, queues, flags, wifiVars, measureVars, waterVars,
                history
  <2>2. TypeOK' /\ rx' = rx
    BY <1>1, <1>3, <2>1, TasksType, ConnectWiFIType, RxUnchanged
  <2> QED BY <2>2 DEF TypeInv
<1> QED BY <1>2, <1>3 DEF Next

\* TypeOK: every variable has its type, and g_PBQueue never outgrows the
\* length it was created with, whoever writes it.
THEOREM TypeOKHolds == Spec => []TypeOK
<1>1. TypeInv => TypeOK
  BY DEF TypeInv
<1> QED BY TypeInit, TypeNext, <1>1, PTL DEF Spec

-----------------------------------------------------------------------------
(* The thresholds, the decisions and what reaches Losant.                  *)

\* What changes the state: a command of a client, or another action.
Other == \/ MeasurementsTask \/ WateringTask \/ ConnectWiFI \/ LinkLost
         \/ RecvLosant \/ RecvReturns \/ UNCHANGED vars

\* Every step of the callback that has an effect is an application of fields
\* of a message.
LEMMA Steps ==
    ASSUME TypeInv, [Next]_vars
    PROVE  \/ \E m \in Messages, stack \in Thresholds :
                \E fs \in SUBSET (DOMAIN m) : ApplyFields(m, fs, stack)
           \/ Other
<1>1. CASE RecvPc
  BY <1>1, StackType DEF RecvPc, Messages
<1>2. CASE LosantField
  <2>1. PICK f \in Fields : f \in rx.left /\ ApplyFields(rx.msg, {f}, rx.stack)
    BY <1>2 DEF LosantField, IsNext
  <2>2. rx.msg \in Messages /\ {f} \in SUBSET (DOMAIN rx.msg)
    BY <1>2, <2>1 DEF LosantField, TypeInv
  <2>3. rx.stack \in Thresholds
    BY DEF TypeInv, TypeOK, Callbacks
  <2> QED BY <2>1, <2>2, <2>3
<1> QED BY <1>1, <1>2 DEF Next, MqttRecv, Other

-----------------------------------------------------------------------------
(* The pump.                                                               *)

\* Where the relay, the flag and the history stand at each point of
\* wateringTask: PumpOnDemand is inductive only together with it.
WateringInv ==
    /\ water \in WaterLocations
    /\ relay <=> water = "sleep"
    /\ waterFlag <=> demand # {}
    /\ water \in {"peek", "on", "sleep", "report", "clear"} => waterFlag

\* Init and every step establish the watering invariant.
LEMMA WateringInvInit == Init => WateringInv
BY DEF Init, WateringInv, WaterLocations

LEMMA WateringInvNext == TypeInv /\ WateringInv /\ [Next]_vars => WateringInv'
<1> SUFFICES ASSUME TypeInv, WateringInv, [Next]_vars PROVE WateringInv'
  OBVIOUS
<1> USE DEF WateringInv, WaterLocations
<1>1. ASSUME NEW m, NEW fs, NEW stack, ApplyFields(m, fs, stack) PROVE WateringInv'
  BY <1>1 DEF ApplyFields, SetWaterFlag
<1>2. CASE MeasurementsTask
  BY <1>2 DEF MeasurementsTask, MeasureWait, MeasureSend, MeasurePeek, MeasureWake,
              waterVars, flags, history
<1>3. CASE WateringTask
  BY <1>3 DEF WateringTask, WaterReport, WaterWait, WaterPeek, WaterOn, WaterOff,
              WaterClear, flags, history
<1>4. CASE Decide
  BY <1>4 DEF Decide, SetWaterFlag
<1>5. CASE Connect \/ Subscribe \/ Read \/ Sense \/ PeekThresholds
  BY <1>5 DEF Connect, Subscribe, Read, Sense, PeekThresholds, waterVars, flags, history
<1>6. CASE ReadLevel \/ Publish \/ PubComp \/ PublishLosant
  BY <1>6 DEF ReadLevel, Publish, PubComp, PublishLosant, waterVars, flags, history
<1>7. CASE LinkLost \/ RecvLosant \/ RecvReturns \/ UNCHANGED vars
  BY <1>7 DEF LinkLost, RecvLosant, RecvReturns, vars, waterVars, flags, history
<1> QED BY Steps, <1>1, <1>2, <1>3, <1>4, <1>5, <1>6, <1>7 DEF Other, ConnectWiFI

LEMMA WateringInvHolds == Spec => [](TypeInv /\ WateringInv)
BY TypeInit, TypeNext, WateringInvInit, WateringInvNext, PTL DEF Spec

\* The pump runs only on demand (PumpOnDemand), whatever the commands, the
\* measurements and the interleaving of main.c's tasks.
THEOREM PumpOnDemandHolds == Spec => []PumpOnDemand
<1>1. WateringInv => PumpOnDemand
  BY DEF WateringInv, PumpOnDemand
<1> QED BY WateringInvHolds, <1>1, PTL

\* Station implements Irrigation: every step of main.c is a step of the
\* abstract irrigator or leaves it alone (IrrigationSafe).
THEOREM ImplementsIrrigation == Spec => IrrigationSafe
<1>1. Init => Irrigator!Init
  BY DEF Init, Irrigator!Init
<1>2. TypeInv /\ WateringInv /\ [Next]_vars => [Irrigator!Next]_(Irrigator!vars)
  <2> SUFFICES ASSUME TypeInv, WateringInv, [Next]_vars
               PROVE  Irrigator!Next \/ UNCHANGED Irrigator!vars
    OBVIOUS
  <2> USE DEF WateringInv, Irrigator!Next, Irrigator!vars
  <2>1. ASSUME NEW m, NEW fs, NEW stack, ApplyFields(m, fs, stack)
        PROVE  Irrigator!Request \/ UNCHANGED Irrigator!vars
    <3>1. UNCHANGED relay
      BY <2>1 DEF ApplyFields
    <3>2. (water' \in {"report", "clear"}) <=> (water \in {"report", "clear"})
      BY <2>1 DEF ApplyFields, SetWaterFlag
    <3>3. demand' = demand \/ demand' = demand \cup {"client"}
      BY <2>1 DEF ApplyFields, SetWaterFlag
    <3> QED BY <3>1, <3>2, <3>3 DEF Irrigator!Request, Irrigator!Requesters
  <2>2. CASE MeasurementsTask
    BY <2>2 DEF MeasurementsTask, MeasureWait, MeasureSend, MeasurePeek, MeasureWake,
                waterVars, flags, history
  <2>3. CASE WaterReport("start", "wait") \/ WaterReport("report", "clear")
    BY <2>3 DEF WaterReport, history
  <2>4. CASE WaterWait \/ WaterPeek
    BY <2>4 DEF WaterWait, WaterPeek, history
  <2>5. CASE WaterOn
    <3>1. demand # {} /\ ~relay /\ water = "on"
      BY <2>5 DEF WaterOn
    <3>2. relay' = TRUE /\ demand' = demand /\ water' = "sleep"
      BY <2>5 DEF WaterOn, history
    <3>3. ~(water \in {"report", "clear"}) /\ ~(water' \in {"report", "clear"})
      BY <3>1, <3>2
    <3>4. (water \in {"report", "clear"})' = (water \in {"report", "clear"})
      BY <3>3
    <3> QED BY <3>1, <3>2, <3>3, <3>4, Zenon DEF Irrigator!Start
  <2>6. CASE WaterOff
    BY <2>6 DEF WaterOff, history, Irrigator!Stop
  <2>7. CASE WaterClear
    BY <2>7 DEF WaterClear, Irrigator!Forget
  <2>8. CASE Decide
    BY <2>8 DEF Decide, SetWaterFlag, Irrigator!Request, Irrigator!Requesters
  <2>9. CASE Connect \/ Subscribe \/ Read \/ Sense \/ PeekThresholds
    BY <2>9 DEF Connect, Subscribe, Read, Sense, PeekThresholds, waterVars, flags, history
  <2>10. CASE ReadLevel \/ Publish \/ PubComp \/ PublishLosant
    BY <2>10 DEF ReadLevel, Publish, PubComp, PublishLosant, waterVars, flags, history
  <2>11. CASE LinkLost \/ RecvLosant \/ RecvReturns \/ UNCHANGED vars
    BY <2>11 DEF LinkLost, RecvLosant, RecvReturns, vars, waterVars, flags, history
  <2> QED
    BY Steps, <2>1, <2>2, <2>3, <2>4, <2>5, <2>6, <2>7, <2>8, <2>9, <2>10, <2>11
    DEF Other, ConnectWiFI, WateringTask
<1> QED BY WateringInvHolds, <1>1, <1>2, PTL DEF Spec, IrrigationSafe, Irrigator!Spec

-----------------------------------------------------------------------------
(* Measuring.                                                              *)

\* A measurement is late only if the flag went down when measurementsTask was
\* about to send it: it has sent it by then, and waits for the flag next.
SwitchInv ==
    /\ late \in {0, 1}
    /\ measurementFlag \/ measure = "send" => late = 0

\* Once measuring is off, at most one more report is queued (SwitchOffStops),
\* although measurementsTask samples the flag once a period.
THEOREM SwitchOffHolds == Spec => []SwitchOffStops
<1>1. Init => SwitchInv
  BY DEF Init, SwitchInv
<1>2. TypeInv /\ SwitchInv /\ [Next]_vars => SwitchInv'
  <2> SUFFICES ASSUME TypeInv, SwitchInv, [Next]_vars PROVE SwitchInv'
    OBVIOUS
  <2> USE DEF SwitchInv
  <2>1. ASSUME NEW m, NEW fs, NEW stack, ApplyFields(m, fs, stack) PROVE SwitchInv'
    <3>1. CASE "measurementSwitch" \in fs /\ m["measurementSwitch"] # 0
      BY <2>1, <3>1 DEF ApplyFields, SetMeasurementFlag
    <3>2. CASE "measurementSwitch" \in fs /\ m["measurementSwitch"] = 0
      BY <2>1, <3>2 DEF ApplyFields
    <3>3. CASE "measurementSwitch" \notin fs
      BY <2>1, <3>3 DEF ApplyFields
    <3> QED BY <3>1, <3>2, <3>3
  <2>2. CASE MeasurementsTask
    BY <2>2 DEF MeasurementsTask, MeasureWait, MeasureSend, MeasurePeek, MeasureWake,
                flags, history
  <2>3. CASE WateringTask
    BY <2>3 DEF WateringTask, WaterReport, WaterWait, WaterPeek, WaterOn, WaterOff,
                WaterClear, measureVars, flags, history
  <2>4. CASE Connect \/ Subscribe \/ Read \/ Sense \/ PeekThresholds
    BY <2>4 DEF Connect, Subscribe, Read, Sense, PeekThresholds, measureVars, flags, history
  <2>5. CASE Decide \/ ReadLevel
    BY <2>5 DEF Decide, ReadLevel, SetWaterFlag, measureVars, flags, history
  <2>6. CASE Publish \/ PubComp \/ PublishLosant
    BY <2>6 DEF Publish, PubComp, PublishLosant, measureVars, flags, history
  <2>7. CASE LinkLost \/ RecvLosant \/ RecvReturns \/ UNCHANGED vars
    BY <2>7 DEF LinkLost, RecvLosant, RecvReturns, vars, measureVars, flags, history
  <2> QED BY Steps, <2>1, <2>2, <2>3, <2>4, <2>5, <2>6, <2>7 DEF Other, ConnectWiFI
<1>3. SwitchInv => SwitchOffStops
  BY DEF SwitchInv, SwitchOffStops
<1> QED BY TypeInit, TypeNext, <1>1, <1>2, <1>3, PTL DEF Spec

-----------------------------------------------------------------------------
(* The duration of a watering.                                             *)

\* The durations of the mailbox are asked for before they are peeked at, and
\* a client that stands among the requesters has written the mailbox.
Chosen == \/ \E s \in asked : wateringTime = SecondsToMs(s)
          \/ wateringTime = DefaultTime /\ dueTo = {"auto"}

DurationInv ==
    /\ waterQueue # None => \E s \in asked : waterQueue = SecondsToMs(s)
    /\ "client" \in demand => waterQueue # None
    /\ water \in {"on", "sleep"} => Chosen

\* A watering that answers a client lasts as long as a client asked for
\* (DurationAsked), although the mailbox is overwritten while the task waits.
THEOREM DurationHolds == Spec => []DurationAsked
<1>1. Init => DurationInv
  BY DEF Init, DurationInv
<1>2. TypeInv /\ WateringInv /\ DurationInv /\ [Next]_vars => DurationInv'
  <2> SUFFICES ASSUME TypeInv, WateringInv, DurationInv, [Next]_vars PROVE DurationInv'
    OBVIOUS
  <2>1. ASSUME NEW m \in Messages, NEW stack \in Thresholds, NEW fs \in SUBSET (DOMAIN m),
               ApplyFields(m, fs, stack)
        PROVE  DurationInv'
    <3>1. CASE "wateringTime" \in fs
      <4>1. m["wateringTime"] \in Nat
        BY <3>1, StationAssumption DEF Messages, IsMessage
      <4>2. SecondsToMs(m["wateringTime"]) # None
        BY <4>1, Durations, WordType, StationAssumption
      <4>3. /\ waterQueue' = SecondsToMs(m["wateringTime"])
            /\ asked' = asked \cup {m["wateringTime"]}
            /\ water' \in {"on", "sleep"} => water \in {"on", "sleep"}
            /\ UNCHANGED <<wateringTime, dueTo>>
        BY <2>1, <3>1 DEF ApplyFields, SetWaterFlag
      <4> QED BY <4>2, <4>3 DEF DurationInv, Chosen
    <3>2. CASE "wateringTime" \notin fs
      <4>1. UNCHANGED <<waterQueue, asked, water, demand, wateringTime, dueTo>>
        BY <2>1, <3>2 DEF ApplyFields
      <4> QED BY <4>1 DEF DurationInv, Chosen
    <3> QED BY <3>1, <3>2
  <2>2. CASE MeasurementsTask
    BY <2>2 DEF MeasurementsTask, MeasureWait, MeasureSend, MeasurePeek, MeasureWake,
                waterVars, queues, history, DurationInv, Chosen
  <2>3. CASE WaterReport("start", "wait") \/ WaterReport("report", "clear") \/ WaterWait
             \/ WaterOff
    BY <2>3 DEF WaterReport, WaterWait, WaterOff, queues, history, DurationInv, Chosen
  <2>4. CASE WaterPeek
    <3>1. demand # {} /\ demand \subseteq {"client", "auto"}
      BY <2>4 DEF WaterPeek, WateringInv, TypeInv, TypeOK
    <3>2. Chosen'
      BY <2>4, <3>1 DEF WaterPeek, PeekOr, Chosen, DurationInv
    <3> QED BY <2>4, <3>2 DEF WaterPeek, queues, DurationInv
  <2>5. CASE WaterOn
    BY <2>5 DEF WaterOn, queues, history, DurationInv, Chosen
  <2>6. CASE WaterClear
    BY <2>6 DEF WaterClear, queues, DurationInv, Chosen
  <2>7. CASE Decide
    <3>1. /\ "client" \in demand' => "client" \in demand
          /\ water' \in {"on", "sleep"} => water \in {"on", "sleep"}
          /\ UNCHANGED <<waterQueue, asked, wateringTime, dueTo>>
      BY <2>7 DEF Decide, SetWaterFlag, queues
    <3> QED BY <3>1 DEF DurationInv, Chosen
  <2>8. CASE Connect \/ Subscribe \/ Read \/ Sense \/ PeekThresholds
    BY <2>8 DEF Connect, Subscribe, Read, Sense, PeekThresholds, waterVars, queues, history,
                DurationInv, Chosen
  <2>9. CASE ReadLevel \/ Publish \/ PubComp \/ PublishLosant
    BY <2>9 DEF ReadLevel, Publish, PubComp, PublishLosant, waterVars, queues, history,
                DurationInv, Chosen
  <2>10. CASE LinkLost \/ RecvLosant \/ RecvReturns \/ UNCHANGED vars
    BY <2>10 DEF LinkLost, RecvLosant, RecvReturns, vars, waterVars, queues, history,
                 DurationInv, Chosen
  <2> QED BY Steps, <2>1, <2>2, <2>3, <2>4, <2>5, <2>6, <2>7, <2>8, <2>9, <2>10
          DEF Other, ConnectWiFI, WateringTask
<1>3. WateringInv /\ DurationInv => DurationAsked
  BY DEF WateringInv, DurationInv, DurationAsked, Chosen
<1> QED BY WateringInvHolds, <1>1, <1>2, <1>3, PTL DEF Spec

-----------------------------------------------------------------------------
(* The automatic watering.                                                 *)

\* What ConnectWiFI compares: thresholds of the mailbox, or the defaults, and
\* a moisture that analogReadMoisture can compute.
AutoInv ==
    /\ "auto" \in demand => thresholdsQueue # None
    /\ thresholdsQueue = None /\ thresholds # None =>
         thresholds = [temperature |-> 0, moisture |-> 0]
    /\ wifi = "peek" \/ wifi = "decide" => sensorsData.moisture \in Moistures
    /\ wifi = "decide" => thresholds # None

\* Before a client has sent thresholds, no measurement starts the pump
\* (NoAutoWateringByDefault): the moisture computed is never 0, whatever the
\* temperature sensor returned.
THEOREM NoAutoWateringHolds == Spec => []NoAutoWateringByDefault
<1> USE DEF AutoInv
<1>1. Init => AutoInv
  BY DEF Init
<1>2. TypeInv /\ AutoInv /\ [Next]_vars => AutoInv'
  <2> SUFFICES ASSUME TypeInv, AutoInv, [Next]_vars PROVE AutoInv'
    OBVIOUS
  <2>1. ASSUME NEW m \in Messages, NEW stack \in Thresholds, NEW fs \in SUBSET (DOMAIN m),
               ApplyFields(m, fs, stack)
        PROVE  AutoInv'
    <3>1. Thresholds \subseteq [temperature : Int, moisture : Int]
      BY DEF Thresholds
    <3>2. Assigned(m, fs, stack) # None
      BY <3>1, AssignedType, StationAssumption
    <3>3. thresholdsQueue' = thresholdsQueue \/ thresholdsQueue' # None
      BY <2>1, <3>2 DEF ApplyFields
    <3>4. "auto" \in demand' => "auto" \in demand
      BY <2>1 DEF ApplyFields, SetWaterFlag
    <3>5. UNCHANGED <<wifi, thresholds, sensorsData>>
      BY <2>1 DEF ApplyFields, wifiVars
    <3> QED BY <3>3, <3>4, <3>5
  <2>2. CASE MeasurementsTask
    BY <2>2 DEF MeasurementsTask, MeasureWait, MeasureSend, MeasurePeek, MeasureWake,
                wifiVars, queues, history
  <2>3. CASE WateringTask
    BY <2>3 DEF WateringTask, WaterReport, WaterWait, WaterPeek, WaterOn, WaterOff,
                WaterClear, wifiVars, queues, history
  <2>4. CASE Connect \/ Subscribe \/ ReadLevel
    BY <2>4 DEF Connect, Subscribe, ReadLevel, queues, history
  <2>5. CASE Read
    <3>1. \A r \in Reports : Branch[r] \notin {"peek", "decide"}
      BY DEF Reports, Branch
    <3>2. Head(g_PBQueue) \in Reports
      BY <2>5 DEF Read, TypeInv, TypeOK
    <3> QED BY <2>5, <3>1, <3>2 DEF Read, history
  <2>6. CASE Sense
    BY <2>6 DEF Sense, queues, history
  <2>7. CASE PeekThresholds
    <3>1. [temperature |-> 0, moisture |-> 0] # None
      <4>1. [temperature |-> 0, moisture |-> 0] \in [temperature : Int, moisture : Int]
        OBVIOUS
      <4> QED BY <4>1, StationAssumption
    <3> QED BY <2>7, <3>1 DEF PeekThresholds, PeekOr, queues, history
  <2>8. CASE Decide
    <3>1. wifi = "decide"
      BY <2>8 DEF Decide
    <3>2. sensorsData.moisture \in 10..157
      <4>1. Moistures \subseteq 10..157
        BY StationAssumption
      <4> QED BY <3>1, <4>1
    <3>3. thresholdsQueue = None => ~Dry
      <4>1. thresholdsQueue = None => thresholds.moisture = 0
        BY <3>1
      <4> QED BY <3>2, <4>1 DEF Dry
    <3>4. "auto" \in demand' => Dry \/ "auto" \in demand
      BY <2>8 DEF Decide
    <3>5. thresholdsQueue' = thresholdsQueue /\ thresholds' = None /\ wifi' = "publish"
      BY <2>8 DEF Decide, queues
    <3> QED BY <3>3, <3>4, <3>5
  <2>9. CASE Publish \/ PubComp \/ PublishLosant
    BY <2>9 DEF Publish, PubComp, PublishLosant, queues, history
  <2>10. CASE LinkLost \/ RecvLosant \/ RecvReturns \/ UNCHANGED vars
    BY <2>10 DEF LinkLost, RecvLosant, RecvReturns, vars, wifiVars, queues, history
  <2> QED BY Steps, <2>1, <2>2, <2>3, <2>4, <2>5, <2>6, <2>7, <2>8, <2>9, <2>10
          DEF Other, ConnectWiFI
<1>3. AutoInv => NoAutoWateringByDefault
  BY DEF NoAutoWateringByDefault
<1> QED BY TypeInit, TypeNext, <1>1, <1>2, <1>3, PTL DEF Spec

-----------------------------------------------------------------------------
(* The thresholds.                                                         *)

\* What the clients send: both thresholds in one message, or neither.
Together == \A m \in Messages : ThresholdFields \cap DOMAIN m # {} => m \in Carrying

OfOneMessage(t) == \E m \in Carrying : t = PairOf(m)

\* Only the callback writes the mailbox.
LEMMA MailboxUnchanged ==
    ASSUME \/ MeasurementsTask \/ WateringTask \/ ConnectWiFI \/ LinkLost
           \/ RecvLosant \/ RecvReturns \/ UNCHANGED vars
    PROVE  UNCHANGED thresholdsQueue
<1>1. MeasurementsTask => UNCHANGED thresholdsQueue
  BY DEF MeasurementsTask, MeasureWait, MeasureSend, MeasurePeek, MeasureWake, queues
<1>2. WateringTask => UNCHANGED thresholdsQueue
  BY DEF WateringTask, WaterReport, WaterWait, WaterPeek, WaterOn, WaterOff, WaterClear, queues
<1>3. ConnectWiFI => UNCHANGED thresholdsQueue
  BY DEF ConnectWiFI, Connect, Subscribe, Read, Sense, PeekThresholds, Decide, ReadLevel,
         Publish, PubComp, PublishLosant, queues
<1>4. LinkLost \/ RecvLosant \/ RecvReturns \/ UNCHANGED vars => UNCHANGED thresholdsQueue
  BY DEF LinkLost, RecvLosant, RecvReturns, vars, queues
<1> QED BY <1>1, <1>2, <1>3, <1>4

\* A message that is applied at once leaves the thresholds it carries, or those
\* that were there.
LEMMA AppliedAtOnce ==
    ASSUME Together, NEW m \in Messages, NEW stack, ApplyFields(m, DOMAIN m, stack)
    PROVE  thresholdsQueue' = thresholdsQueue \/ OfOneMessage(thresholdsQueue')
<1>1. CASE DOMAIN m \cap ThresholdFields = {}
  BY <1>1 DEF ApplyFields
<1>2. CASE DOMAIN m \cap ThresholdFields # {}
  <2>1. m \in Carrying /\ ThresholdFields \subseteq DOMAIN m
    BY <1>2 DEF Together, Carrying
  <2>2. Assigned(m, DOMAIN m, stack) = PairOf(m)
    BY <2>1 DEF Assigned, PairOf, ThresholdFields
  <2>3. thresholdsQueue' = Assigned(m, DOMAIN m, stack)
    BY <1>2 DEF ApplyFields
  <2> QED BY <2>1, <2>2, <2>3 DEF OfOneMessage
<1> QED BY <1>1, <1>2

\* Between the two fields of a command of Losant the mailbox is half written, and
\* the local of the callback holds the other half.
Half == /\ rx.busy /\ rx.left \cap ThresholdFields = {"moistureThreshold"} /\ rx.msg \in Carrying
        /\ rx.stack.temperature = PairOf(rx.msg).temperature
        /\ thresholdsQueue # None /\ thresholdsQueue.temperature = PairOf(rx.msg).temperature
Unwritten == thresholdsQueue # None => OfOneMessage(thresholdsQueue)
WholeInv ==
    /\ rx.busy => rx.msg \in LosantMessages
    /\ \/ Unwritten /\ (rx.busy => rx.left \cap ThresholdFields \in {{}, ThresholdFields})
       \/ Half

LEMMA WholeInit == Init => WholeInv
BY DEF Init, WholeInv, Unwritten, Idle

LEMMA WholeNext == ASSUME Together PROVE TypeInv /\ WholeInv /\ [Next]_vars => WholeInv'
<1> SUFFICES ASSUME TypeInv, WholeInv, [Next]_vars PROVE WholeInv'
  OBVIOUS
<1>1. CASE RecvPc
  <2>1. UNCHANGED rx /\ ~rx.busy /\ Unwritten
    BY <1>1 DEF RecvPc, WholeInv, Half
  <2>2. thresholdsQueue' = thresholdsQueue \/ OfOneMessage(thresholdsQueue')
    BY <1>1, AppliedAtOnce DEF RecvPc, Messages
  <2> QED BY <2>1, <2>2 DEF WholeInv, Unwritten
<1>2. CASE RecvLosant
  <2>1. PICK m \in LosantMessages : rx'.busy /\ rx'.left = DOMAIN m /\ rx'.msg = m
    BY <1>2 DEF RecvLosant
  <2>2. Unwritten /\ UNCHANGED thresholdsQueue
    BY <1>2, MailboxUnchanged DEF RecvLosant, WholeInv, Half
  <2>3. DOMAIN m \cap ThresholdFields \in {{}, ThresholdFields}
    BY DEF Together, Messages, Carrying
  <2> QED BY <2>1, <2>2, <2>3 DEF WholeInv, Unwritten
<1>3. CASE LosantField
  <2>1. PICK f \in Fields :
          /\ rx.busy /\ IsNext(f, rx.left) /\ ApplyFields(rx.msg, {f}, rx.stack)
          /\ rx' = [rx EXCEPT !.left = @ \ {f}, !.stack = Assigned(rx.msg, {f}, @)]
    BY <1>3 DEF LosantField
  <2>2. /\ rx'.busy = rx.busy /\ rx'.left = rx.left \ {f} /\ rx'.msg = rx.msg
        /\ rx'.stack = Assigned(rx.msg, {f}, rx.stack)
    BY <2>1 DEF TypeInv, TypeOK, Callbacks
  <2>3. f \in rx.left /\ rx.left \subseteq DOMAIN rx.msg /\ rx.msg \in Messages
    BY <2>1 DEF IsNext, TypeInv
  <2>4. CASE f \notin ThresholdFields
    <3>1. UNCHANGED thresholdsQueue /\ rx'.left \cap ThresholdFields = rx.left \cap ThresholdFields
      BY <2>1, <2>2, <2>4 DEF ApplyFields
    <3>2. rx'.stack.temperature = rx.stack.temperature
      BY <2>2, <2>4 DEF Assigned, ThresholdFields
    <3> QED BY <2>1, <2>2, <3>1, <3>2 DEF WholeInv, Unwritten, Half
  <2>5. CASE f = "temperatureThreshold"
    <3>1. rx.left \cap ThresholdFields = ThresholdFields
      BY <2>1, <2>3, <2>5 DEF WholeInv, Half, ThresholdFields
    <3>2. rx.msg \in Carrying
      BY <2>3, <2>5 DEF Together, ThresholdFields
    <3>3. rx'.stack.temperature = PairOf(rx.msg).temperature
      BY <2>2, <2>5 DEF Assigned, PairOf
    <3>4. rx'.left \cap ThresholdFields = {"moistureThreshold"}
      BY <2>2, <2>5, <3>1 DEF ThresholdFields
    <3>5. thresholdsQueue' = rx'.stack
      BY <2>1, <2>2, <2>5 DEF ApplyFields, ThresholdFields
    <3>6. rx'.stack # None
      <4>1. {f} \in SUBSET DOMAIN rx.msg /\ rx.stack \in Thresholds
        BY <2>3 DEF TypeInv, TypeOK, Callbacks
      <4>2. rx'.stack \in Thresholds
        BY <2>2, <2>3, <4>1, AssignedType
      <4> QED BY <4>2, StationAssumption DEF Thresholds
    <3> QED BY <2>1, <2>2, <3>2, <3>3, <3>4, <3>5, <3>6 DEF WholeInv, Half
  <2>6. CASE f = "moistureThreshold"
    <3>1. "temperatureThreshold" \notin rx.left
      <4>1. "temperatureThreshold" \in rx.left => 5 <= 4
        BY <2>1, <2>6 DEF IsNext, LosantOrder
      <4> QED BY <4>1
    <3>2. Half
      BY <2>3, <2>6, <3>1, <2>1 DEF WholeInv, ThresholdFields
    <3>3. thresholdsQueue' = Assigned(rx.msg, {f}, rx.stack)
      BY <2>1, <2>6 DEF ApplyFields, ThresholdFields
    <3>4. thresholdsQueue' = PairOf(rx.msg)
      BY <2>6, <3>2, <3>3 DEF Assigned, PairOf, Half
    <3>5. rx'.left \cap ThresholdFields = {}
      BY <2>2, <2>6, <3>1 DEF ThresholdFields
    <3> QED BY <2>2, <3>2, <3>4, <3>5 DEF WholeInv, Unwritten, OfOneMessage, Half
  <2> QED BY <2>4, <2>5, <2>6 DEF ThresholdFields
<1>4. CASE RecvReturns
  <2>1. ~rx'.busy /\ rx.left = {} /\ UNCHANGED thresholdsQueue
    BY <1>4, MailboxUnchanged DEF RecvReturns, Idle
  <2> QED BY <2>1 DEF WholeInv, Unwritten, Half
<1>5. CASE MeasurementsTask \/ WateringTask \/ ConnectWiFI \/ LinkLost \/ UNCHANGED vars
  <2>1. UNCHANGED <<rx, thresholdsQueue>>
    BY <1>5, MailboxUnchanged, RxUnchanged
  <2> QED BY <2>1 DEF WholeInv, Unwritten, Half
<1> QED BY <1>1, <1>2, <1>3, <1>4, <1>5 DEF Next, MqttRecv

\* The mailbox holds the thresholds of one message whenever no callback runs
\* (ThresholdsWhole), if the clients send both thresholds together: although the
\* fields of a command of Losant are written one by one, to a local nobody
\* initialised.
THEOREM ThresholdsWholeHolds == ASSUME Together PROVE Spec => []ThresholdsWhole
<1>1. WholeInv => ThresholdsWhole
  BY DEF WholeInv, Half, Unwritten, ThresholdsWhole, OfOneMessage
<1> QED BY TypeInit, TypeNext, WholeInit, WholeNext, <1>1, PTL DEF Spec

\* ConnectWiFI decides with the thresholds of one message or with the defaults
\* (DecisionsWhole), whichever client they come from, except between the two fields
\* of a command of Losant: a message of the PC interface is applied before any
\* other task runs.
THEOREM DecisionsWholeHolds == ASSUME Together PROVE Spec => DecisionsWhole
<1>1. TypeInv /\ WholeInv /\ [Next]_vars =>
        [PeekThresholds => IF HalfWritten
                           THEN thresholds'.temperature = PairOf(rx.msg).temperature
                           ELSE \/ thresholds' = [temperature |-> 0, moisture |-> 0]
                                \/ \E m \in Carrying : thresholds' = PairOf(m)]_vars
  <2> SUFFICES ASSUME TypeInv, WholeInv, PeekThresholds
               PROVE  IF HalfWritten
                      THEN thresholds'.temperature = PairOf(rx.msg).temperature
                      ELSE \/ thresholds' = [temperature |-> 0, moisture |-> 0]
                           \/ \E m \in Carrying : thresholds' = PairOf(m)
    OBVIOUS
  <2>1. thresholds' = IF thresholdsQueue = None THEN [temperature |-> 0, moisture |-> 0] ELSE thresholdsQueue
    BY DEF PeekThresholds, PeekOr
  <2>2. CASE HalfWritten
    <3>1. Half
      BY <2>2 DEF HalfWritten, WholeInv, ThresholdFields
    <3> QED BY <2>1, <2>2, <3>1 DEF Half
  <2>3. CASE ~HalfWritten
    <3>1. Unwritten
      BY <2>3 DEF HalfWritten, WholeInv, Half
    <3> QED BY <2>1, <2>3, <3>1 DEF Unwritten, OfOneMessage
  <2> QED BY <2>2, <2>3
<1> QED BY TypeInit, TypeNext, WholeInit, WholeNext, <1>1, PTL DEF Spec, DecisionsWhole
=============================================================================
