------------------------------ MODULE MCStation ------------------------------
(* Small instances of Station for TLC: a few messages of each client, one   *)
(* measurement on each side of the thresholds, and garbage on the stack.    *)
EXTENDS Station

On == [measurementSwitch |-> 1]
Off == [measurementSwitch |-> 0]
Water2 == [wateringTime |-> 2]
Water7 == [wateringTime |-> 7]
Limits == [temperatureThreshold |-> 30, moistureThreshold |-> 50]

Wetter == [temperatureThreshold |-> 45, moistureThreshold |-> 30]
HotOnly == [temperatureThreshold |-> 45]
Rule == [wateringTime |-> 2, temperatureThreshold |-> 30, moistureThreshold |-> 50]
Pause == [measurementSwitch |-> 0, temperatureThreshold |-> 45, moistureThreshold |-> 30]
Program == [measurementSwitch |-> 1, measuresFreq |-> 1, wateringTime |-> 7]

NoMessages == {}
PcCommands == {On, Water2, Limits, Wetter}
LosantCommands == {Program, Rule, Pause}
PcSwitches == {Off, Limits}
LiveLosant == {Water7}
PartialCommands == {On, Limits, HotOnly}

MCTemperatures == {20, 40}
MCMoistures == {10, 60}
MCStackTemps == {-300}
MCStackChars == {0, 255}
OneChar == {255}
=============================================================================
