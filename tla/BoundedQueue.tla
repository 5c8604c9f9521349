---------------------------- MODULE BoundedQueue -----------------------------
(***************************************************************************)
(* What a queue of the kernel promises its callers: each call takes effect  *)
(* at one moment between its beginning and its return, on a first-in       *)
(* first-out buffer of fixed length, or fails without effect.              *)
(***************************************************************************)
EXTENDS Naturals, Sequences

CONSTANTS Tasks, Items

VARIABLES
    length,    \* of the buffer
    buffer,    \* what is queued, oldest first
    op, item,  \* per task: its call, and what it sends
    result,    \* per task: "open" until the call returns
    got        \* per task: what it received or saw last

bufferVars == <<length, buffer, op, item, result, got>>

Init == buffer = <<>> /\ \A t \in Tasks : result[t] = "pass"

Others(t) == \A u \in Tasks \ {t} : op'[u] = op[u] /\ item'[u] = item[u]

Ask(t) ==
    /\ result[t] # "open" /\ result' = [result EXCEPT ![t] = "open"]
    /\ Others(t) /\ UNCHANGED <<length, buffer, got>>

Ends(t, how) == /\ result[t] = "open" /\ result' = [result EXCEPT ![t] = how]
                /\ Others(t) /\ UNCHANGED length

Fail(t) == Ends(t, "fail") /\ UNCHANGED <<buffer, got>>

Append1(x) == Len(buffer) < length /\ buffer' = Append(buffer, x)
Overwrite(x) == length = 1 /\ buffer' = <<x>>
Remove == buffer # <<>> /\ buffer' = Tail(buffer)

Send(t) == /\ Ends(t, "pass") /\ UNCHANGED got
           /\ \/ op[t] = "send" /\ Append1(item[t])
              \/ op[t] = "overwrite" /\ Overwrite(item[t])

Receive(t) == /\ buffer # <<>> /\ Ends(t, "pass") /\ got' = [got EXCEPT ![t] = Head(buffer)]
              /\ \/ op[t] = "receive" /\ Remove
                 \/ op[t] = "peek" /\ UNCHANGED buffer

\* Interrupt handlers
Handler == /\ (\E x \in Items : Append1(x) \/ Overwrite(x)) \/ Remove
           /\ UNCHANGED <<length, op, item, result, got>>

Next == (\E t \in Tasks : Ask(t) \/ Fail(t) \/ Send(t) \/ Receive(t)) \/ Handler

Spec == Init /\ [][Next]_bufferVars
=============================================================================
