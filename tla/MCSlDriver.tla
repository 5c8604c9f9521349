----------------------------- MODULE MCSlDriver ------------------------------
(* A small instance of SlDriver: the task that publishes and the receive    *)
(* task of the MQTT client, which both wait for sockets.                    *)
EXTENDS SlDriver, TLC

CONSTANTS app, rx

MCTasks == {app, rx}
Mix(a, r) == (app :> a) @@ (rx :> r)
MCMixes == { Mix({"cmd"}, {"select"}), Mix({"cmd", "send"}, {"recv"}),
             Mix({"select"}, {"select"}), Mix({"select"}, {"recv"}),
             Mix({"send"}, {"send"}) }
=============================================================================
