------------------------------ MODULE MCOutside ------------------------------
(***************************************************************************)
(* What connects the station with the outside: the Wi-Fi connection, the     *)
(* messages of quality 2, the console with its line, and the PC interface.   *)
(* They share no state, so that a behaviour is one of them, the others       *)
(* staying as they are.                                                      *)
(***************************************************************************)
EXTENDS NetworkIf, QoS2, UartConsole, LineEditor, Gui

VARIABLE part

\* What the station reports, and messages that lack fields.
Reports == {Sensors, {"waterLevel"}, {"temperature"}}

\* The console task alone, a task that reports alone, and both.
OneOrTwo == {{Reader}, Printers, Printers \cup {Reader}}

OutsideInit ==
    /\ part \in {"network", "qos2", "console", "line", "gui"}
    /\ Init /\ (part # "network" => role = "STA" /\ ~profile)
    /\ QosInit /\ (part # "qos2" => is_cln_session)
    /\ ConsoleInit /\ (part # "console" => group = {Reader})
    /\ LineInit /\ GuiInit

OutsideNext ==
    \/ part = "network" /\ Next /\ UNCHANGED <<part, qosVars, consoleVars, lineVars, guiVars>>
    \/ part = "qos2" /\ QosNext /\ UNCHANGED <<part, vars, consoleVars, lineVars, guiVars>>
    \/ part = "console" /\ ConsoleNext /\ UNCHANGED <<part, vars, qosVars, lineVars, guiVars>>
    \/ part = "line" /\ LineNext /\ UNCHANGED <<part, vars, qosVars, consoleVars, guiVars>>
    \/ part = "gui" /\ GuiNext /\ UNCHANGED <<part, vars, qosVars, consoleVars, lineVars>>

OutsideSpec == OutsideInit /\ [][OutsideNext]_<<part, vars, qosVars, consoleVars, lineVars, guiVars>>

\* The fairness of NetworkIf!FairSpec, QoS2!QosFairSpec and UartConsole!FairConsoleSpec.
Network(A) == part = "network" /\ A
Qos(A) == part = "qos2" /\ A
Console(A) == part = "console" /\ A

FairOutsideSpec ==
    /\ OutsideSpec
    /\ WF_vars(Network(Caller)) /\ WF_vars(Network(Handler)) /\ WF_vars(Network(Nwp(Acquires)))
    /\ WF_qosVars(Qos(ClientReceives)) /\ WF_qosVars(Qos(BrokerReceives)) /\ WF_qosVars(Qos(ProcConnackRx))
    /\ WF_consoleVars(Console(UARTStdioIntHandler)) /\ WF_consoleVars(Console(Shift))
    /\ \A t \in Printers \cup {Reader} : WF_consoleVars(Console(t \in group /\ Task(t)))
=============================================================================
