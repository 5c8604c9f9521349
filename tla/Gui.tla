--------------------------------- MODULE Gui ---------------------------------
(***************************************************************************)
(* The PC interface (QtWorkspace/GuiMonitoringSystem/guipanel.cpp) between   *)
(* its user, the broker and the station.  It subscribes to the topics of the *)
(* station and to /PC, on which it publishes itself.  A dialog runs an event *)
(* loop of its own: while it is open the panel takes no clicks, messages are *)
(* handled inside it, and the handler that opened it goes on afterwards.     *)
(***************************************************************************)
EXTENDS Integers, Sequences, SequencesExt

CONSTANTS
    MaxArrivals,   \* bound on the messages
    Payloads       \* the fields, among those of the gauges, that a message may carry

Sensors == {"temperature", "humidity", "moisture"}
Gauges == Sensors \cup {"waterLevel"}

ASSUME GuiAssumption == MaxArrivals \in Nat /\ Payloads \subseteq SUBSET Gauges

VARIABLES
    clicked,       \* the button Connect is disabled, the others are enabled
    socket,        \* the connection of the client
    connected, pinged_,
    inbox,         \* messages received, until the event loop gives them to the panel
    dialogs,       \* the open dialogs: the message their handlers go on with
    gauges,        \* what the panel shows: the number of the message it is from, or 0
    arrivals,      \* messages so far, which numbers them
    pings, backs   \* history: clicks of ping, and how often a gauge went back to an older message

guiVars == <<clicked, socket, connected, pinged_, inbox, dialogs, gauges, arrivals, pings, backs>>

\* A message: whether it is a JSON object, the fields for gauges in it, and its
\* number, which stands for the values of the fields.
NoMessage == [object |-> FALSE, fields |-> {}, number |-> 0]
Message(fs) == [object |-> TRUE, fields |-> fs, number |-> arrivals + 1]
Text == [object |-> FALSE, fields |-> {}, number |-> arrivals + 1]

GuiInit ==
    /\ clicked = FALSE /\ socket = "down" /\ connected = FALSE /\ pinged_ = FALSE
    /\ inbox = <<>> /\ dialogs = <<>> /\ gauges = [g \in Gauges |-> 0]
    /\ arrivals = 0 /\ pings = 0 /\ backs = 0

-----------------------------------------------------------------------------
(* The user.  A click needs the panel, which an open dialog disables.      *)

on_connectButton_clicked ==
    /\ ~clicked /\ clicked' = TRUE /\ socket' = "connecting"
    /\ UNCHANGED <<connected, pinged_, inbox, dialogs, gauges, arrivals, pings, backs>>

Clicks == clicked /\ dialogs = <<>> /\ arrivals < MaxArrivals

\* SendMessage: the broker returns what is published on /PC.
SendMessage(m) ==
    /\ inbox' = IF socket = "up" THEN Append(inbox, m) ELSE inbox
    /\ arrivals' = arrivals + 1

on_pingButton_clicked ==
    /\ Clicks /\ pinged_' = TRUE /\ SendMessage(Message({})) /\ pings' = pings + 1
    /\ UNCHANGED <<clicked, socket, connected, dialogs, gauges, backs>>

\* The switch, the period, watering, and both thresholds.
Command ==
    /\ Clicks /\ SendMessage(Message({}))
    /\ UNCHANGED <<clicked, socket, connected, pinged_, dialogs, gauges, pings, backs>>

\* on_waterParamsSet_clicked with a threshold at its minimum.
ThresholdsAtMinimum ==
    /\ Clicks /\ arrivals' = arrivals + 1
    /\ dialogs' = Append(dialogs, NoMessage)
    /\ UNCHANGED <<clicked, socket, connected, pinged_, inbox, gauges, pings, backs>>

-----------------------------------------------------------------------------
(* The slots of the client.                                                *)

onMQTT_Connected ==
    /\ socket = "connecting" /\ socket' = "up" /\ connected' = TRUE
    /\ UNCHANGED <<clicked, pinged_, inbox, dialogs, gauges, arrivals, pings, backs>>

Shows(values) ==
    /\ gauges' = values
    /\ backs' = backs + (IF \E g \in Gauges : values[g] \in 1..gauges[g] - 1 THEN 1 ELSE 0)

\* Faulty variant: each gauge has a test of its own.
UpdateEach(m) == Shows([g \in Gauges |-> IF g \in m.fields THEN m.number ELSE gauges[g]])

\* Looking a field up makes an absent one null.  One field of the sensors is
\* enough to set their three gauges, and null is shown as 0.
Update(m) ==
    Shows([g \in Gauges |-> IF g \in m.fields THEN m.number
                            ELSE IF g \in Sensors /\ m.fields \cap Sensors # {} THEN 0
                            ELSE gauges[g]])

Idle == UNCHANGED <<pinged_, dialogs, gauges, backs>>

\* Faulty variant: pinged_ is left as it is until the dialog has been closed.
ReceivedKeepsPing(m) ==
    IF ~connected \/ ~m.object
    THEN Idle
    ELSE IF pinged_
    THEN dialogs' = Append(dialogs, m) /\ UNCHANGED <<pinged_, gauges, backs>>
    ELSE Update(m) /\ UNCHANGED <<pinged_, dialogs>>

\* onMQTT_Received.  With a ping pending it first runs the dialog (pingRecived),
\* which says that the answer was received if the message has the field, and
\* otherwise that there was none.
Received(m) ==
    IF ~connected \/ ~m.object
    THEN Idle
    ELSE IF pinged_
    THEN /\ pinged_' = FALSE
         /\ dialogs' = Append(dialogs, m)
         /\ UNCHANGED <<gauges, backs>>
    ELSE Update(m) /\ UNCHANGED <<pinged_, dialogs>>

onMQTT_Received ==
    /\ inbox # <<>> /\ inbox' = Tail(inbox) /\ Received(Head(inbox))
    /\ UNCHANGED <<clicked, socket, connected, arrivals, pings>>

\* The user closes the innermost dialog; the handler that opened it goes on.
Ok ==
    /\ dialogs # <<>> /\ dialogs' = Front(dialogs)
    /\ IF Last(dialogs) = NoMessage THEN UNCHANGED <<gauges, backs>> ELSE Update(Last(dialogs))
    /\ UNCHANGED <<clicked, socket, connected, pinged_, inbox, arrivals, pings>>

-----------------------------------------------------------------------------
\* What the station and other clients publish, and the loss of the connection.
Published ==
    /\ socket = "up" /\ arrivals < MaxArrivals /\ arrivals' = arrivals + 1
    /\ \E m \in {Message(fs) : fs \in Payloads} \cup {Text} : inbox' = Append(inbox, m)
    /\ UNCHANGED <<clicked, socket, connected, pinged_, dialogs, gauges, pings, backs>>

Drops == /\ socket \in {"connecting", "up"} /\ socket' = "down"
         /\ UNCHANGED <<clicked, connected, pinged_, inbox, dialogs, gauges, arrivals, pings, backs>>

GuiNext == \/ on_connectButton_clicked \/ on_pingButton_clicked \/ Command \/ ThresholdsAtMinimum
           \/ onMQTT_Connected \/ onMQTT_Received \/ Ok \/ Published \/ Drops

GuiSpec == GuiInit /\ [][GuiNext]_guiVars

-----------------------------------------------------------------------------
(* What must hold.                                                         *)

\* The type of every variable.
GuiTypeOK ==
    /\ clicked \in BOOLEAN /\ connected \in BOOLEAN /\ pinged_ \in BOOLEAN
    /\ socket \in {"down", "connecting", "up"} /\ Len(inbox) <= MaxArrivals
    /\ \A m \in ToSet(inbox) \cup ToSet(dialogs) :
           m.object \in BOOLEAN /\ m.fields \in Payloads \cup {{}} /\ m.number \in 0..arrivals
    /\ gauges \in [Gauges -> 0..arrivals] /\ arrivals \in 0..MaxArrivals /\ pings \in Nat /\ backs \in Nat

\* The gauges of the three sensors show one message: a gauge is at 0, or at the
\* value of the same message as the others, whatever is handled inside a dialog
\* and after it, and whatever fields the messages lack.
OneReport == \A g, h \in Sensors : gauges[g] # 0 /\ gauges[h] # 0 => gauges[g] = gauges[h]

\* The panel shows the messages in their order, except that each click of ping
\* can make one of them be shown after later ones: that for which the dialog
\* was open when they came.
BackOnlyForPing == backs <= pings
=============================================================================
