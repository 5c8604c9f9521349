------------------------------ MODULE Irrigation ------------------------------
(***************************************************************************)
(* What the firmware promises about the pump, whoever asks for water and   *)
(* however the tasks interleave: a request starts one watering; requests   *)
(* that arrive before that watering is over and reported are answered by   *)
(* it and forgotten with it; the pump never runs without a request.        *)
(***************************************************************************)

VARIABLES
    demand,  \* who has asked for water
    pump,    \* the pump runs
    served   \* this watering is over, its requests are about to be forgotten

vars == <<demand, pump, served>>

Requesters == {"client", "auto"}

Init == demand = {} /\ pump = FALSE /\ served = FALSE

Request == /\ \E who \in Requesters : demand' = demand \cup {who}
           /\ UNCHANGED <<pump, served>>

Start == /\ demand # {} /\ ~pump /\ ~served
         /\ pump' = TRUE
         /\ UNCHANGED <<demand, served>>

Stop == /\ pump
        /\ pump' = FALSE /\ served' = TRUE
        /\ UNCHANGED demand

Forget == /\ served
          /\ demand' = {} /\ served' = FALSE
          /\ UNCHANGED pump

Next == Request \/ Start \/ Stop \/ Forget

Spec == Init /\ [][Next]_vars

\* Every request is answered and every watering ends.
FairSpec == Spec /\ WF_vars(Start) /\ WF_vars(Stop) /\ WF_vars(Forget)
=============================================================================
