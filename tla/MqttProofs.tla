----------------------------- MODULE MqttProofs -----------------------------
(***************************************************************************)
(* Proofs about the MQTT client: what a caller that waits on ack_sync_obj  *)
(* is told, and in which order acknowledgements find their packets.        *)
(***************************************************************************)
EXTENDS MqttSession, ListFacts

-----------------------------------------------------------------------------
(* Types, and the calls before the first one that sends a message.         *)

Answers == {"CONNACK", "SUBACK", "PUBREC", "PUBCOMP", "PINGRSP"}
FromApp == {"CONNECT", "SUBSCRIBE", "QOS0", "QOS2", "PUBREL", "PINGREQ", "DISCONNECT"}
Early == {"start", "open", "send connect"}
First == Early \cup {"await connack", "connected", "subscribe"}

WireOK ==
    /\ toClient \in Seq(Answers \X Nat) /\ toBroker \in Seq(FromApp \X Ids)
    /\ \A k \in DOMAIN toClient : toClient[k][1] = "PUBREC" => toClient[k][2] \in Ids

StateOK ==
    /\ id \in Ids /\ (pc \in First => id = 0)
    /\ call \in {"CONNECT", "SUBSCRIBE", "QOS0", "QOS2"}
    /\ pc \in First => call = "CONNECT"

\* The mutex is held while a packet of the application is sent.
MutexOK == pc \in {"send connect", "send", "sort", "enlist", "disconnect sent"} => mutex = "app"

-----------------------------------------------------------------------------
(* The connection.                                                         *)


\* Nothing is received before CONNECT has been sent, nor once the socket is closed.
LinkOK ==
    /\ pc \in Early => used_ctxs = FALSE /\ conn_ctxs = FALSE /\ rx \in {"select", "prep"} /\ ack_sync_obj = FALSE
    /\ pc \in {"start", "open"} => flags = {}
    /\ pc = "send connect" => net = "open"
    /\ net = "closed" => /\ wire = FALSE /\ toClient = <<>> /\ toBroker = <<>>
                         /\ "NOW_CONNECTED" \notin flags /\ "CONNACK_AWAIT" \notin flags
    /\ rx = "closing" => net = "closed"
    /\ net \in {"open", "closed"}

\* While CONNACK is awaited nobody has signalled.
ConnackOK ==
    /\ "CONNACK_AWAIT" \in flags => pc = "await connack" /\ ack_sync_obj = FALSE
    /\ pc = "await connack" /\ ack_sync_obj # FALSE => awaited_ack \in {None, "DISCONNECT"}
    /\ (pc = "connected" /\ ret = "ok") \/ pc = "subscribe" => ack_sync_obj = FALSE /\ awaited_ack = None

-----------------------------------------------------------------------------
(* Packets that will be, or have been, acknowledged.                       *)

AckTypes == {"SUBACK", "PUBREC"}
RequestTypes == {"SUBSCRIBE", "QOS2"}

\* The identifiers carried by the packets of certain types, and that they grow.
Marked(s, types) == {k \in DOMAIN s : s[k][1] \in types /\ s[k][2] \in Ids}
Numbers(s, types) == {s[k][2] : k \in Marked(s, types)}
Growing(s, types) == \A k, l \in Marked(s, types) : k < l => s[k][2] < s[l][2]

Answered == Numbers(toClient, AckTypes)
Asked == Numbers(toBroker, RequestTypes)
Waits == {qos_ack1_wl[k] : k \in DOMAIN qos_ack1_wl}

\* The packet that is on its way and not in the waiting list yet.
Sending == {"await set", "dispatch", "send", "sort", "enlist"}
Pending == IF pc \in {"sort", "enlist"} /\ Acknowledged THEN {id} ELSE {}

\* The lists are in the order of the identifiers, ...
OrderOK ==
    /\ qos_ack1_wl \in Seq(Ids)
    /\ Growing(toClient, AckTypes) /\ Growing(toBroker, RequestTypes)
    /\ \A k, l \in DOMAIN qos_ack1_wl : k < l => qos_ack1_wl[k] < qos_ack1_wl[l]
    /\ pc \in First => qos_ack1_wl = <<>>

\* ... what was sent first is answered first, what is on the wire waits for its
\* acknowledgement, and what waits is on the wire or was lost with all that
\* was sent later.
FlightOK ==
    /\ \A i \in Answered, j \in Asked : i < j
    /\ \A i \in Waits : i <= id /\ (pc \in Sending => i < id)
    /\ Answered \cup Asked \subseteq Waits \cup Pending
    /\ \A i \in Waits, j \in Answered \cup Asked : i < j => i \in Answered \cup Asked
    /\ wire = TRUE => Waits \cup Pending \subseteq Answered \cup Asked

-----------------------------------------------------------------------------
(* A call that blocks.                                                     *)

QueueOK == qos2_tx_cq \in Seq(Ids) /\ (pc \in First => qos2_tx_cq = <<>>)

\* As long as the connection stands, a list holds at most the packet of the call
\* that waits, which has not been signalled.
ListsOK ==
    blocking_send = TRUE /\ net = "open" =>
        /\ qos_ack1_wl = <<>> \/ qos2_tx_cq = <<>>
        /\ qos_ack1_wl \in {<<>>, <<id>>} /\ qos2_tx_cq \in {<<>>, <<id>>}
        /\ qos_ack1_wl # <<>> \/ qos2_tx_cq # <<>> =>
              pc = "await ack" /\ awaited_ack \in {"SUBACK", "PUBCOMP"}

\* A signal that nobody took was given for the end of the connection.
SignalOK ==
    /\ pc = "await ack" => blocking_send = TRUE
    /\ blocking_send = TRUE =>
        /\ pc = "await set" => ack_sync_obj = FALSE
        /\ pc \in {"ready", "done", "dispatch", "send", "sort", "enlist"} /\ ack_sync_obj # FALSE => net = "closed"
        /\ pc \in {"ready", "await set"} => awaited_ack = None
        /\ pc \in {"dispatch", "send", "sort", "enlist"} /\ Acknowledged /\ net = "open" =>
              awaited_ack \in {"SUBACK", "PUBCOMP"}
        /\ pc \in {"dispatch", "send", "sort", "enlist", "await ack"} /\ ack_sync_obj # FALSE =>
              awaited_ack \in {None, "DISCONNECT"}

\* A call for a message of quality 2 is told by PUBCOMP, after the broker let the message go.
CompOK == \A k \in DOMAIN toClient : toClient[k][1] = "PUBCOMP" => toClient[k][2] \in released \cup {Inline}

ReleasedOK ==
    blocking_send = TRUE =>
        /\ pc \in {"dispatch", "send", "sort", "enlist", "await ack"} /\ call = "QOS2" =>
              awaited_ack \in {"PUBCOMP", "DISCONNECT"} \/ (awaited_ack = None /\ id \in released)
        /\ pc = "done" /\ call = "QOS2" /\ ret = "ok" => id \in released
        /\ succeeded \subseteq released

-----------------------------------------------------------------------------
(* Packets in a sequence, and their identifiers.                           *)

LEMMA NumbersOfAppend ==
    ASSUME NEW S, NEW s \in Seq(S), NEW x \in S, NEW types, Growing(s, types),
           x[1] \in types /\ x[2] \in Ids => \A i \in Numbers(s, types) : i < x[2]
    PROVE  /\ Growing(Append(s, x), types)
           /\ Numbers(Append(s, x), types) =
                 Numbers(s, types) \cup (IF x[1] \in types /\ x[2] \in Ids THEN {x[2]} ELSE {})
<1> DEFINE t == Append(s, x)
           n == Len(s) + 1
<1>1. /\ Len(s) \in Nat /\ DOMAIN s = 1..Len(s) /\ DOMAIN t = 1..n
      /\ t[n] = x /\ \A k \in 1..Len(s) : t[k] = s[k]
  OBVIOUS
<1> HIDE DEF t, n
<1>2. \A k : k \in Marked(s, types) <=> k \in Marked(t, types) /\ k # n
  BY <1>1 DEF Marked, n
<1>3. \A k \in Marked(s, types) : t[k][2] = s[k][2] /\ s[k][2] \in Numbers(s, types) /\ k < n
  BY <1>1 DEF Marked, Numbers, n
<1>4. \A k \in Marked(t, types) : k \in Marked(s, types) \/ (k = n /\ t[k][2] = x[2] /\ x[1] \in types /\ x[2] \in Ids)
  BY <1>1, <1>2 DEF Marked
<1>5. Growing(t, types)
  <2> SUFFICES ASSUME NEW k \in Marked(t, types), NEW l \in Marked(t, types), k < l PROVE t[k][2] < t[l][2]
    BY DEF Growing
  <2>1. n \in Nat /\ k \in Nat /\ l \in Nat /\ k <= n /\ l <= n
    BY <1>1 DEF Marked, n
  <2>2. k \in Marked(s, types)
    BY <1>4, <2>1
  <2>3. CASE l \in Marked(s, types)
    BY <1>3, <2>2, <2>3 DEF Growing
  <2>4. CASE l \notin Marked(s, types)
    BY <1>3, <1>4, <2>2, <2>4
  <2> QED BY <2>3, <2>4
<1>6. CASE x[1] \in types /\ x[2] \in Ids
  <2>1. n \in Marked(t, types)
    BY <1>1, <1>6 DEF Marked, n
  <2>2. \A i \in Numbers(t, types) : i \in Numbers(s, types) \/ i = x[2]
    BY <1>3, <1>4 DEF Numbers
  <2>3. x[2] \in Numbers(t, types)
    BY <1>1, <2>1 DEF Numbers
  <2>4. \A i \in Numbers(s, types) : i \in Numbers(t, types)
    BY <1>2, <1>3 DEF Numbers
  <2>5. Numbers(t, types) = Numbers(s, types) \cup {x[2]}
    BY <2>2, <2>3, <2>4
  <2> QED BY <1>5, <1>6, <2>5 DEF t
<1>7. CASE ~(x[1] \in types /\ x[2] \in Ids)
  <2>1. \A i \in Numbers(t, types) : i \in Numbers(s, types)
    BY <1>3, <1>4, <1>7 DEF Numbers
  <2>2. \A i \in Numbers(s, types) : i \in Numbers(t, types)
    BY <1>2, <1>3 DEF Numbers
  <2>3. Numbers(t, types) = Numbers(s, types)
    BY <2>1, <2>2
  <2> QED BY <1>5, <1>7, <2>3 DEF t
<1> QED BY <1>6, <1>7

LEMMA NumbersOfTail ==
    ASSUME NEW S, NEW s \in Seq(S), NEW types, Growing(s, types), s # <<>>
    PROVE  /\ Growing(Tail(s), types)
           /\ IF Head(s)[1] \in types /\ Head(s)[2] \in Ids
              THEN /\ Numbers(s, types) = Numbers(Tail(s), types) \cup {Head(s)[2]}
                   /\ \A i \in Numbers(Tail(s), types) : Head(s)[2] < i
              ELSE Numbers(s, types) = Numbers(Tail(s), types)
<1> DEFINE t == Tail(s)
           x == Head(s)
<1>1. /\ Len(s) \in Nat \ {0} /\ DOMAIN s = 1..Len(s) /\ DOMAIN t = 1..Len(s) - 1
      /\ x = s[1] /\ \A k \in 1..Len(s) - 1 : t[k] = s[k + 1]
  OBVIOUS
<1> HIDE DEF t, x
<1>2. \A k \in Marked(t, types) : k \in Nat \ {0} /\ k + 1 \in Marked(s, types) /\ t[k] = s[k + 1]
  BY <1>1 DEF Marked
<1>3. \A k \in Marked(s, types) : k \in Nat /\ (k = 1 \/ (k - 1 \in Marked(t, types) /\ t[k - 1] = s[k]))
  BY <1>1 DEF Marked
<1>4. 1 \in Marked(s, types) <=> x[1] \in types /\ x[2] \in Ids
  BY <1>1 DEF Marked
<1>5. Growing(t, types)
  <2> SUFFICES ASSUME NEW k \in Marked(t, types), NEW l \in Marked(t, types), k < l PROVE t[k][2] < t[l][2]
    BY DEF Growing
  <2>1. k + 1 < l + 1
    BY <1>2
  <2> QED BY <1>2, <2>1 DEF Growing
<1>6. Numbers(t, types) \subseteq Numbers(s, types)
  BY <1>2 DEF Numbers
<1>7. \A k \in Marked(s, types) : s[k][2] \in Numbers(t, types) \/ k = 1
  BY <1>3 DEF Numbers
<1>8. CASE x[1] \in types /\ x[2] \in Ids
  <2>1. 1 \in Marked(s, types) /\ s[1][2] = x[2]
    BY <1>1, <1>4, <1>8
  <2>2. x[2] \in Numbers(s, types)
    BY <2>1 DEF Numbers
  <2>3. \A i \in Numbers(s, types) : i \in Numbers(t, types) \/ i = x[2]
    BY <1>7, <2>1 DEF Numbers
  <2>4. \A k \in Marked(t, types) : x[2] < t[k][2]
    <3> SUFFICES ASSUME NEW k \in Marked(t, types) PROVE x[2] < t[k][2]
      OBVIOUS
    <3>1. k + 1 \in Marked(s, types) /\ 1 < k + 1
      BY <1>2
    <3> QED BY <1>2, <2>1, <3>1 DEF Growing
  <2>5. \A i \in Numbers(t, types) : x[2] < i
    BY <2>4 DEF Numbers
  <2>6. Numbers(s, types) = Numbers(t, types) \cup {x[2]}
    BY <1>6, <2>2, <2>3
  <2> QED BY <1>5, <1>8, <2>5, <2>6 DEF t, x
<1>9. CASE ~(x[1] \in types /\ x[2] \in Ids)
  <2>1. \A k \in Marked(s, types) : k # 1
    BY <1>4, <1>9
  <2>2. \A i \in Numbers(s, types) : i \in Numbers(t, types)
    BY <1>7, <2>1 DEF Numbers
  <2>3. Numbers(s, types) = Numbers(t, types)
    BY <1>6, <2>2
  <2> QED BY <1>5, <1>9, <2>3 DEF t, x
<1> QED BY <1>8, <1>9

LEMMA NumbersOfNothing ==
    ASSUME NEW types
    PROVE  Growing(<<>>, types) /\ Numbers(<<>>, types) = {}
BY DEF Growing, Numbers, Marked

-----------------------------------------------------------------------------
LEMMA StateInit == Init => StateOK /\ MutexOK /\ LinkOK /\ ConnackOK
BY MqttSessionAssumption DEF Init, StateOK, Ids, First, Early, MutexOK, LinkOK, ConnackOK

LEMMA StateNext == StateOK /\ [Next]_vars => StateOK'
<1> SUFFICES ASSUME StateOK, [Next]_vars PROVE StateOK'
  OBVIOUS
<1>1. CASE Sub \/ Send
  <2>1. pc \in {"subscribe", "ready"} /\ id' = id + 1 /\ call' \in {"SUBSCRIBE", "QOS0", "QOS2"}
        /\ pc' \in {"await set", "done"} /\ (pc = "ready" => id < MaxCalls)
    BY <1>1 DEF Sub, Send, Begin
  <2>2. id \in Ids /\ (id = 0 \/ id < MaxCalls)
    BY <2>1 DEF StateOK, First
  <2>3. id' = id + 1 /\ MaxCalls \in Nat \ {0}
    BY <2>1, MqttSessionAssumption
  <2>4. id' \in Ids
    BY <2>2, <2>3 DEF Ids
  <2> QED BY <2>1, <2>4 DEF StateOK, First, Early
<1>2. CASE App /\ ~Sub
  <2>1. UNCHANGED <<id, call>> /\ (pc' \in First => pc \in First)
    BY <1>2 DEF App, ConnectCall, NetConnect, ConnectSent, ConnackAwaited, Connected, SetAwaited, Dispatch,
       Sent, Sort, Enlist, NotSent, AckAwaited, Done, Disconnect, DisconnectSet, DisconnectSend,
       DisconnectSent, CloseAwaited, Delete, Exit, First, Early
  <2> QED BY <2>1 DEF StateOK
<1>3. CASE Rx \/ Ping \/ TimedOut \/ Receive
  BY <1>3 DEF Rx, NothingDue, CloseAsked, Pinged, PingFails, Closed, Select, Ping, TimedOut, Receive, RecvConnack,
     RecvRefusal, RecvSuback, RecvPubrec, RecvPubcomp, RecvPingrsp, RecvError, NetClose, appVars, StateOK
<1>4. CASE Broker \/ Reset \/ Silence \/ Stray \/ UNCHANGED vars
  BY <1>4 DEF Broker, Reset, Silence, Stray, vars, appVars, StateOK
<1> QED BY <1>1, <1>2, <1>3, <1>4 DEF Next

LEMMA MutexNext == MutexOK /\ [Next]_vars => MutexOK'
<1> SUFFICES ASSUME MutexOK, [Next]_vars PROVE MutexOK'
  OBVIOUS
<1>1. CASE App \/ Send
  BY <1>1 DEF App, ConnectCall, NetConnect, ConnectSent, ConnackAwaited, Connected, Sub, Send, Begin, SetAwaited,
     Dispatch, Sent, Sort, Enlist, NotSent, AckAwaited, Done, Disconnect, DisconnectSet, DisconnectSend,
     DisconnectSent, CloseAwaited, Delete, Exit, MutexOK
<1>2. CASE Rx \/ Ping \/ TimedOut
  BY <1>2 DEF Rx, NothingDue, CloseAsked, Pinged, PingFails, Closed, Select, Ping, TimedOut, NetClose, appVars, MutexOK
<1>3. CASE Receive
  <2>1. mutex = None /\ UNCHANGED pc
    BY <1>3 DEF Receive, RecvConnack, RecvRefusal, RecvSuback, RecvPubrec, RecvPubcomp, RecvPingrsp, RecvError,
       Arrived, NetClose, appVars
  <2> QED BY <2>1, MqttSessionAssumption DEF MutexOK
<1>4. CASE Broker \/ Reset \/ Silence \/ Stray \/ UNCHANGED vars
  BY <1>4 DEF Broker, Reset, Silence, Stray, vars, appVars, MutexOK
<1> QED BY <1>1, <1>2, <1>3, <1>4 DEF Next

LEMMA LinkNext == StateOK /\ LinkOK /\ [Next]_vars => LinkOK'
<1> SUFFICES ASSUME StateOK, LinkOK, [Next]_vars PROVE LinkOK'
  OBVIOUS
<1>1. CASE App \/ Send
  BY <1>1 DEF App, ConnectCall, NetConnect, ConnectSent, ConnackAwaited, Connected, Sub, Send, Begin, SetAwaited,
     Dispatch, Sent, Sort, Enlist, NotSent, AckAwaited, Done, Disconnect, DisconnectSet, DisconnectSend,
     DisconnectSent, CloseAwaited, Delete, Exit, LinkOK, Early, Put, listVars, wireVars, ackVars
<1>2. CASE Rx \/ Ping \/ TimedOut
  BY <1>2 DEF Rx, NothingDue, Visits, Monitor, CloseAsked, Pinged, PingFails, Closed, Select, Readable, Ping, TimedOut,
     NetClose, appVars, LinkOK, Early, Put, listVars, wireVars, ackVars
<1>3. CASE Receive
  <2>1. rx = "recv" /\ UNCHANGED <<pc, listVars>>
    BY <1>3 DEF Receive, RecvConnack, RecvRefusal, RecvSuback, RecvPubrec, RecvPubcomp, RecvPingrsp, RecvError,
       Arrived, NetClose, appVars
  <2>2. pc \notin Early
    BY <2>1 DEF LinkOK
  <2>3. CASE NetClose
    BY <2>1, <2>2, <2>3 DEF NetClose, LinkOK, Early
  <2>4. CASE ~NetClose
    BY <1>3, <2>1, <2>2, <2>4 DEF Receive, RecvConnack, RecvRefusal, RecvSuback, RecvPubrec, PubRec, Put, RecvPubcomp,
      RecvPingrsp, RecvError, Arrived, Handled, LinkOK, Early, listVars
  <2> QED BY <2>3, <2>4
<1>4. CASE Broker \/ Reset \/ Silence \/ Stray \/ UNCHANGED vars
  BY <1>4 DEF Broker, Reset, Silence, Stray, vars, appVars, ackVars, listVars, wireVars, LinkOK, Early
<1> QED BY <1>1, <1>2, <1>3, <1>4 DEF Next

LEMMA ConnackNext == LinkOK /\ ConnackOK /\ [Next]_vars => ConnackOK'
<1> SUFFICES ASSUME LinkOK, ConnackOK, [Next]_vars PROVE ConnackOK'
  OBVIOUS
<1>1. CASE App \/ Send
  BY <1>1 DEF App, ConnectCall, NetConnect, ConnectSent, ConnackAwaited, Connected, Sub, Send, Begin, SetAwaited,
     Dispatch, Sent, Sort, Enlist, NotSent, AckAwaited, Done, Disconnect, DisconnectSet, DisconnectSend,
     DisconnectSent, CloseAwaited, Delete, Exit, LinkOK, Early, ConnackOK, ackVars
<1>2. CASE Rx \/ Ping \/ TimedOut
  BY <1>2 DEF Rx, NothingDue, Visits, CloseAsked, Pinged, PingFails, Closed, Select, Readable, Ping, TimedOut,
     NetClose, appVars, LinkOK, ConnackOK, ackVars
<1>3. CASE RecvPubrec
  <2>1. UNCHANGED <<pc, ret, ack_sync_obj, awaited_ack>> /\ flags' \in {flags, flags \cup {"NETWORK_CLOSE"}}
    BY <1>3 DEF RecvPubrec, PubRec, appVars, ackVars
  <2> QED BY <2>1 DEF ConnackOK
<1>4. CASE Receive /\ ~RecvPubrec
  BY <1>4, MqttSessionAssumption DEF Receive, RecvConnack, RecvRefusal, RecvSuback, RecvPubcomp, RecvPingrsp,
     RecvError, Arrived, Expected, Connack, Notify, NetClose, appVars, ackVars, ConnackOK
<1>5. CASE Broker \/ Reset \/ Silence \/ Stray \/ UNCHANGED vars
  BY <1>5 DEF Broker, Reset, Silence, Stray, vars, appVars, ackVars, ConnackOK
<1> QED BY <1>1, <1>2, <1>3, <1>4, <1>5 DEF Next

-----------------------------------------------------------------------------
(* The packets on the wire.                                                *)

\* A packet goes out, or is lost.
LEMMA PutTypes ==
    ASSUME WireOK, NEW p \in FromApp \X Ids, Put(p)
    PROVE  /\ toBroker' \in Seq(FromApp \X Ids)
           /\ toBroker' = toBroker \/ toBroker' = Append(toBroker, p)
BY DEF Put, WireOK

LEMMA WireNext == StateOK /\ WireOK /\ [Next]_vars => WireOK'
<1> SUFFICES ASSUME StateOK, WireOK, [Next]_vars PROVE WireOK'
  OBVIOUS
<1> USE DEF FromApp
<1>1. ASSUME UNCHANGED toClient, toBroker' \in Seq(FromApp \X Ids) PROVE WireOK'
  BY <1>1 DEF WireOK
<1>2. ASSUME toClient # <<>>, toClient' = Tail(toClient), toBroker' \in Seq(FromApp \X Ids) PROVE WireOK'
  BY <1>2 DEF WireOK
<1>3. CASE App \/ Send
  <2>1. /\ UNCHANGED toClient
        /\ toBroker' = toBroker \/ \E kind \in {"CONNECT", call, "DISCONNECT"} : Put(<<kind, id>>)
    BY <1>3 DEF App, ConnectCall, NetConnect, ConnectSent, ConnackAwaited, Connected, Sub, Send, Begin, SetAwaited,
       Dispatch, Sent, Sort, Enlist, NotSent, AckAwaited, Done, Disconnect, DisconnectSet, DisconnectSend,
       DisconnectSent, CloseAwaited, Delete, Exit, wireVars
  <2>2. \A kind \in {"CONNECT", call, "DISCONNECT"} : <<kind, id>> \in FromApp \X Ids
    BY DEF StateOK
  <2>3. toBroker' \in Seq(FromApp \X Ids)
    BY <2>1, <2>2, PutTypes DEF WireOK
  <2> QED BY <1>1, <2>1, <2>3
<1>4. CASE Pinged
  <2>1. UNCHANGED toClient /\ Put(<<"PINGREQ", 0>>) /\ <<"PINGREQ", 0>> \in FromApp \X Ids
    BY <1>4, MqttSessionAssumption DEF Pinged, Ids
  <2> QED BY <1>1, <2>1, PutTypes
<1>5. CASE NetClose \/ Reset
  <2>1. toBroker' = <<>> /\ (toClient' = toClient \/ toClient' = <<>>)
    BY <1>5 DEF NetClose, Reset
  <2>2. \A k \in DOMAIN toClient' : toClient'[k][1] = "PUBREC" => toClient'[k][2] \in Ids
    BY <2>1 DEF WireOK
  <2>3. <<>> \in Seq(Answers \X Nat) /\ <<>> \in Seq(FromApp \X Ids) /\ toClient \in Seq(Answers \X Nat)
    BY DEF WireOK
  <2> QED BY <2>1, <2>2, <2>3, Zenon DEF WireOK
<1>6. CASE RecvPubrec
  <2>1. toClient # <<>> /\ toClient[1][1] = "PUBREC" /\ Packet = toClient[1] /\ toClient' = Tail(toClient)
    BY <1>6 DEF RecvPubrec, Arrived, Packet, Handled
  <2>2. <<"PUBREL", Packet[2]>> \in FromApp \X Ids
    BY <2>1 DEF WireOK
  <2>3. toBroker' = toBroker \/ Put(<<"PUBREL", Packet[2]>>)
    BY <1>6 DEF RecvPubrec, PubRec
  <2> QED BY <1>2, <2>1, <2>2, <2>3, PutTypes DEF WireOK
<1>7. CASE RecvConnack \/ RecvSuback \/ RecvPubcomp \/ RecvPingrsp
  <2>1. toClient # <<>> /\ toClient' = Tail(toClient) /\ UNCHANGED toBroker
    BY <1>7 DEF RecvConnack, RecvSuback, RecvPubcomp, RecvPingrsp, Arrived, Handled
  <2> QED BY <1>2, <2>1 DEF WireOK
<1>8. CASE Broker
  <2> DEFINE p == Head(toBroker)
  <2>1. /\ toBroker # <<>> /\ toBroker' = Tail(toBroker)
        /\ toClient' = toClient \/ \E a \in Answer(p) : toClient' = Append(toClient, a)
    BY <1>8 DEF Broker
  <2>2. p \in FromApp \X Ids /\ Tail(toBroker) \in Seq(FromApp \X Ids)
    BY <2>1 DEF WireOK
  <2> HIDE DEF p
  <2>3. \A a \in Answer(p) : a \in Answers \X Nat /\ (a[1] = "PUBREC" => a[2] \in Ids)
    BY <2>2, MqttSessionAssumption DEF Answer, Answers, Ids
  <2>4. CASE toClient' = toClient
    BY <1>1, <2>1, <2>2, <2>4
  <2>5. ASSUME NEW a \in Answer(p), toClient' = Append(toClient, a) PROVE WireOK'
    BY <2>1, <2>2, <2>3, <2>5 DEF WireOK
  <2> QED BY <2>1, <2>4, <2>5
<1>9. CASE Stray
  <2>1. PICK type \in {"CONNACK", "SUBACK", "PUBCOMP", "PINGRSP"} : toClient' = <<<<type, MaxCalls + 1>>>>
    BY <1>9 DEF Stray
  <2>2. <<type, MaxCalls + 1>> \in Answers \X Nat /\ type # "PUBREC"
    BY MqttSessionAssumption DEF Answers
  <2>3. UNCHANGED toBroker
    BY <1>9 DEF Stray
  <2> QED BY <2>1, <2>2, <2>3 DEF WireOK
<1>10. CASE NothingDue \/ Closed \/ Select \/ Ping \/ Silence \/ UNCHANGED vars
  BY <1>10 DEF NothingDue, Closed, Select, Ping, Silence, vars, wireVars, WireOK
<1> QED BY <1>3, <1>4, <1>5, <1>6, <1>7, <1>8, <1>9, <1>10
        DEF Next, Rx, Receive, CloseAsked, PingFails, TimedOut, RecvRefusal, RecvError

-----------------------------------------------------------------------------
(* The order of sending and acknowledging.                                 *)

\* Where a step may lead the application: identifiers are given out one by one.
Onward ==
    /\ pc' \in Sending => (pc \in Sending /\ id' = id) \/ id' = id + 1
    /\ id' = id \/ id' = id + 1
    /\ pc' \in First => pc \in First

LEMMA GoesOn == [Next]_vars => Onward
<1> SUFFICES ASSUME [Next]_vars PROVE Onward
  OBVIOUS
<1>1. CASE Sub \/ Send
  BY <1>1 DEF Sub, Send, Begin, Onward, First, Early
<1>2. CASE App /\ ~Sub
  BY <1>2 DEF App, ConnectCall, NetConnect, ConnectSent, ConnackAwaited, Connected, SetAwaited,
     Dispatch, Sent, Sort, Enlist, NotSent, AckAwaited, Done, Disconnect, DisconnectSet, DisconnectSend,
     DisconnectSent, CloseAwaited, Delete, Exit, Onward, First, Early, Sending
<1>3. CASE Rx \/ Ping \/ TimedOut \/ Receive
  BY <1>3 DEF Rx, NothingDue, CloseAsked, Pinged, PingFails, Closed, Select, Ping, TimedOut, Receive, RecvConnack,
     RecvRefusal, RecvSuback, RecvPubrec, RecvPubcomp, RecvPingrsp, RecvError, NetClose, appVars, Onward
<1>4. CASE Broker \/ Reset \/ Silence \/ Stray \/ UNCHANGED vars
  BY <1>4 DEF Broker, Reset, Silence, Stray, vars, appVars, Onward
<1> QED BY <1>1, <1>2, <1>3, <1>4 DEF Next

\* The part of FlightOK that says how large the identifiers are.
LEMMA IdsInUse ==
    ASSUME StateOK, OrderOK, FlightOK, Onward
    PROVE  \A i \in Waits : i \in Ids /\ i <= id' /\ (pc' \in Sending => i < id')
<1> SUFFICES ASSUME NEW i \in Waits PROVE i \in Ids /\ i <= id' /\ (pc' \in Sending => i < id')
  OBVIOUS
<1>1. i \in Ids /\ id \in Ids
  BY DEF OrderOK, Waits, StateOK
<1>2. i <= id /\ (pc \in Sending => i < id)
  BY DEF FlightOK
<1>3. i \in Int /\ id \in Int
  BY <1>1 DEF Ids
<1> QED BY <1>1, <1>2, <1>3 DEF Onward

\* A step that leaves the identifiers in flight and in the list as they are.
LEMMA SameNumbers ==
    ASSUME StateOK, OrderOK, FlightOK, Onward, UNCHANGED qos_ack1_wl, Pending' = Pending,
           Growing(toClient, AckTypes)', Growing(toBroker, RequestTypes)',
           Answered' \cup Asked' = Answered \cup Asked, \A i \in Answered', j \in Asked' : i < j,
           wire' = TRUE => wire = TRUE
    PROVE  OrderOK' /\ FlightOK'
<1>1. OrderOK'
  BY DEF OrderOK, Onward
<1>2. Waits' = Waits
  BY DEF Waits
<1>3. \A i \in Waits' : i <= id' /\ (pc' \in Sending => i < id')
  BY <1>2, IdsInUse
<1>4. FlightOK'
  BY <1>2, <1>3 DEF FlightOK
<1> QED BY <1>1, <1>4

\* NetClose drops everything.
LEMMA ClosedFlight ==
    ASSUME NetClose PROVE OrderOK' /\ FlightOK'
<1>1. toClient' = <<>> /\ toBroker' = <<>> /\ qos_ack1_wl' = <<>> /\ wire' = FALSE
  BY DEF NetClose
<1>2. /\ Growing(toClient, AckTypes)' /\ Growing(toBroker, RequestTypes)'
      /\ Answered' = {} /\ Asked' = {} /\ Waits' = {}
  BY <1>1, NumbersOfNothing DEF Answered, Asked, Waits
<1>3. OrderOK'
  BY <1>1, <1>2 DEF OrderOK
<1>4. FlightOK'
  BY <1>1, <1>2, Zenon DEF FlightOK
<1> QED BY <1>3, <1>4

\* A packet that asks for no acknowledgement of its own.
LEMMA OtherPut ==
    ASSUME WireOK, OrderOK, NEW p \in FromApp \X Ids, p[1] \notin RequestTypes,
           toBroker' = toBroker \/ toBroker' = Append(toBroker, p)
    PROVE  Growing(toBroker, RequestTypes)' /\ Asked' = Asked
<1>1. Growing(Append(toBroker, p), RequestTypes) /\ Numbers(Append(toBroker, p), RequestTypes) = Asked
  <2>1. toBroker \in Seq(FromApp \X Ids) /\ Growing(toBroker, RequestTypes)
    BY DEF WireOK, OrderOK
  <2>2. ~(p[1] \in RequestTypes /\ p[2] \in Ids)
    OBVIOUS
  <2>3. /\ Growing(Append(toBroker, p), RequestTypes)
        /\ Numbers(Append(toBroker, p), RequestTypes)
              = Numbers(toBroker, RequestTypes) \cup (IF p[1] \in RequestTypes /\ p[2] \in Ids THEN {p[2]} ELSE {})
    <3>1. p[1] \in RequestTypes /\ p[2] \in Ids => \A i \in Numbers(toBroker, RequestTypes) : i < p[2]
      BY <2>2
    <3> QED BY <2>1, <3>1, NumbersOfAppend
  <2> QED BY <2>2, <2>3 DEF Asked
<1> QED BY <1>1 DEF OrderOK, Asked

\* The receive task has handled the first packet.
LEMMA FirstHandled ==
    ASSUME WireOK, OrderOK, toClient # <<>>, toClient' = Tail(toClient)
    PROVE  /\ Growing(toClient, AckTypes)'
           /\ IF Packet[1] \in AckTypes /\ Packet[2] \in Ids
              THEN /\ Answered = Answered' \cup {Packet[2]}
                   /\ \A i \in Answered' : Packet[2] < i
              ELSE Answered = Answered'
BY NumbersOfTail DEF WireOK, OrderOK, Answered, Packet

\* A packet leaves the waiting list.
LEMMA LeavesList ==
    ASSUME OrderOK, Onward, NEW k \in DOMAIN qos_ack1_wl, qos_ack1_wl' \in Seq(Ids),
           IsCut(qos_ack1_wl', qos_ack1_wl, k)
    PROVE  /\ \A m, n \in DOMAIN qos_ack1_wl' : m < n => qos_ack1_wl'[m] < qos_ack1_wl'[n]
           /\ pc' \notin First
           /\ Waits' = Waits \ {qos_ack1_wl[k]}
<1> DEFINE s == qos_ack1_wl
           c == qos_ack1_wl'
<1>1. /\ s \in Seq(Ids) /\ c \in Seq(Ids) /\ \A m, n \in DOMAIN s : m < n => s[m] < s[n]
      /\ pc \in First => s = <<>>
  BY DEF OrderOK
<1> HIDE DEF s, c
<1>2. /\ k \in 1..Len(s) /\ DOMAIN s = 1..Len(s) /\ DOMAIN c = 1..Len(s) - 1 /\ Len(s) \in Nat
      /\ \A m \in 1..Len(s) - 1 : c[m] = IF m < k THEN s[m] ELSE s[m + 1]
  BY <1>1 DEF s, c, IsCut
<1>3. \A m, n \in DOMAIN c : m < n => c[m] < c[n]
  <2> SUFFICES ASSUME NEW m \in 1..Len(s) - 1, NEW n \in 1..Len(s) - 1, m < n PROVE c[m] < c[n]
    BY <1>2
  <2> DEFINE f(x) == IF x < k THEN x ELSE x + 1
  <2>1. f(m) \in DOMAIN s /\ f(n) \in DOMAIN s /\ f(m) < f(n)
    BY <1>2
  <2>2. c[m] = s[f(m)] /\ c[n] = s[f(n)]
    BY <1>2
  <2> QED BY <1>1, <2>1, <2>2
<1>4. \A n \in DOMAIN s : n # k => s[n] # s[k]
  <2> SUFFICES ASSUME NEW n \in DOMAIN s, n # k PROVE s[n] # s[k]
    OBVIOUS
  <2>1. s[n] \in Ids /\ s[k] \in Ids
    BY <1>1, <1>2
  <2>2. s[n] \in Int /\ s[k] \in Int
    BY <2>1 DEF Ids
  <2>3. n < k \/ k < n
    BY <1>2
  <2>4. s[n] < s[k] \/ s[k] < s[n]
    BY <1>1, <1>2, <2>3
  <2> QED BY <2>2, <2>4
<1>5. \A m \in DOMAIN c : \E n \in DOMAIN s : n # k /\ c[m] = s[n]
  <2> SUFFICES ASSUME NEW m \in 1..Len(s) - 1 PROVE \E n \in DOMAIN s : n # k /\ c[m] = s[n]
    BY <1>2
  <2>1. CASE m < k
    BY <1>2, <2>1
  <2>2. CASE ~(m < k)
    <3>1. m + 1 \in DOMAIN s /\ m + 1 # k /\ c[m] = s[m + 1]
      BY <1>2, <2>2
    <3> QED BY <3>1
  <2> QED BY <2>1, <2>2
<1>6. \A n \in DOMAIN s : n # k => \E m \in DOMAIN c : c[m] = s[n]
  <2> SUFFICES ASSUME NEW n \in 1..Len(s), n # k PROVE \E m \in DOMAIN c : c[m] = s[n]
    BY <1>2
  <2>1. CASE n < k
    BY <1>2, <2>1
  <2>2. CASE ~(n < k)
    <3>1. n - 1 \in DOMAIN c /\ c[n - 1] = s[n]
      BY <1>2, <2>2
    <3> QED BY <3>1
  <2> QED BY <2>1, <2>2
<1>7. Waits' = {c[m] : m \in DOMAIN c} /\ Waits = {s[n] : n \in DOMAIN s}
  BY DEF Waits, s, c
<1>8. Waits' = Waits \ {s[k]}
  <2>1. \A x \in Waits' : x \in Waits /\ x # s[k]
    BY <1>4, <1>5, <1>7
  <2>2. \A x \in Waits \ {s[k]} : x \in Waits'
    BY <1>6, <1>7
  <2> QED BY <2>1, <2>2
<1>9. pc' \notin First
  BY <1>1, <1>2 DEF Onward
<1> QED BY <1>3, <1>8, <1>9 DEF s, c

\* The packet at the head of what arrives has been acknowledged and leaves the list.
LEMMA Acknowledges ==
    ASSUME StateOK, OrderOK, FlightOK, Onward, NEW j \in Ids, Pending = {}, Pending' = {},
           Answered = Answered' \cup {j}, \A i \in Answered' : j < i, Asked' = Asked,
           Waits' = Waits \ {j}, wire' = wire
    PROVE  FlightOK'
<1>1. \A i \in Waits' : i <= id' /\ (pc' \in Sending => i < id')
  BY IdsInUse
<1>2. \A i \in Answered' \cup Asked' : j < i
  BY DEF FlightOK
<1>3. j \notin Answered' \cup Asked'
  BY <1>2 DEF Ids
<1>4. Answered \cup Asked = (Answered' \cup Asked') \cup {j}
  OBVIOUS
<1>5. Answered' \cup Asked' \subseteq Waits' \cup Pending'
  BY <1>3, <1>4 DEF FlightOK
<1>6. \A i \in Waits', x \in Answered' \cup Asked' : i < x => i \in Answered' \cup Asked'
  BY <1>4 DEF FlightOK
<1>7. wire' = TRUE => Waits' \cup Pending' \subseteq Answered' \cup Asked'
  BY <1>4 DEF FlightOK
<1>8. \A i \in Answered', x \in Asked' : i < x
  BY DEF FlightOK
<1> QED BY <1>1, <1>5, <1>6, <1>7, <1>8 DEF FlightOK

\* PubrecFindsPacket, and more: the PUBREC is for the first in the list.
LEMMA PubrecIsFirst ==
    ASSUME StateOK, MutexOK, WireOK, OrderOK, FlightOK, Arrived("PUBREC")
    PROVE  qos_ack1_wl # <<>> /\ Head(qos_ack1_wl) = Packet[2] /\ Packet[2] \in Ids
<1> DEFINE i == Packet[2]
           s == qos_ack1_wl
<1>1. toClient # <<>> /\ Packet = toClient[1] /\ Packet[1] = "PUBREC" /\ mutex = None
  BY DEF Arrived, Packet
<1>2. i \in Ids
  BY <1>1 DEF WireOK
<1>3. Pending = {}
  BY <1>1, MqttSessionAssumption DEF MutexOK, Pending
<1>4. /\ Answered = Numbers(Tail(toClient), AckTypes) \cup {i}
      /\ \A x \in Numbers(Tail(toClient), AckTypes) : i < x
  BY <1>1, <1>2, NumbersOfTail DEF WireOK, OrderOK, Answered, Packet, AckTypes
<1>5. \A x \in Answered \cup Asked : i = x \/ i < x
  BY <1>4 DEF FlightOK
<1>6. i \in Waits
  BY <1>3, <1>4 DEF FlightOK
<1>7. \A x \in Waits : ~(x < i)
  <2> SUFFICES ASSUME NEW x \in Waits, x < i PROVE FALSE
    OBVIOUS
  <2>1. x \in Answered \cup Asked
    BY <1>4 DEF FlightOK
  <2>2. x \in Ids
    BY DEF Waits, OrderOK
  <2>3. x \in Int /\ i \in Int
    BY <1>2, <2>2 DEF Ids
  <2> QED BY <1>5, <2>1, <2>3
<1>8. PICK k \in DOMAIN s : s[k] = i
  BY <1>6 DEF Waits
<1>9. s \in Seq(Ids) /\ 1 \in DOMAIN s /\ k \in Nat /\ k >= 1
  BY <1>8 DEF OrderOK
<1>10. s[1] \in Waits
  BY <1>9 DEF Waits
<1>11. k = 1
  BY <1>7, <1>8, <1>9, <1>10 DEF OrderOK
<1> QED BY <1>2, <1>8, <1>9, <1>11

LEMMA FlightNext ==
    StateOK /\ MutexOK /\ LinkOK /\ WireOK /\ OrderOK /\ FlightOK /\ [Next]_vars => OrderOK' /\ FlightOK'
<1> SUFFICES ASSUME StateOK, MutexOK, LinkOK, WireOK, OrderOK, FlightOK, [Next]_vars
             PROVE  OrderOK' /\ FlightOK'
  OBVIOUS
<1>0. Onward
  BY GoesOn
<1>1. ASSUME UNCHANGED <<toClient, qos_ack1_wl>>, Pending' = Pending, wire' = TRUE => wire = TRUE,
             toBroker' = toBroker \/ \E p \in FromApp \X Ids : p[1] \notin RequestTypes /\ Put(p)
      PROVE  OrderOK' /\ FlightOK'
  <2>1. Growing(toClient, AckTypes)' /\ Answered' = Answered
    BY <1>1 DEF OrderOK, Answered
  <2>2. Growing(toBroker, RequestTypes)' /\ Asked' = Asked
    <3>1. CASE toBroker' = toBroker
      BY <3>1 DEF OrderOK, Asked
    <3>2. ASSUME NEW p \in FromApp \X Ids, p[1] \notin RequestTypes, Put(p)
          PROVE  Growing(toBroker, RequestTypes)' /\ Asked' = Asked
      BY <3>2, PutTypes, OtherPut
    <3> QED BY <1>1, <3>1, <3>2
  <2>3. Answered' \cup Asked' = Answered \cup Asked /\ \A i \in Answered', j \in Asked' : i < j
    BY <2>1, <2>2 DEF FlightOK
  <2> QED BY <1>0, <1>1, <2>1, <2>2, <2>3, SameNumbers
<1>2. CASE NetConnect
  <2>1. UNCHANGED <<qos_ack1_wl, toClient, toBroker>> /\ pc \in First /\ pc' \notin {"sort", "enlist"}
    BY <1>2 DEF NetConnect, First, Early
  <2>2. Waits = {} /\ Waits' = {} /\ Pending = {} /\ Pending' = {}
    <3>1. qos_ack1_wl = <<>> /\ DOMAIN qos_ack1_wl = {}
      BY <2>1 DEF OrderOK
    <3>2. Waits = {} /\ Waits' = {}
      BY <2>1, <3>1 DEF Waits
    <3>3. Pending = {} /\ Pending' = {}
      BY <2>1 DEF Pending, First, Early
    <3> QED BY <3>2, <3>3
  <2>3. Answered' = {} /\ Asked' = {} /\ Growing(toClient, AckTypes)' /\ Growing(toBroker, RequestTypes)'
    BY <2>1, <2>2 DEF Answered, Asked, FlightOK, OrderOK
  <2>4. OrderOK'
    BY <1>0, <2>1, <2>3 DEF OrderOK, Onward
  <2>5. FlightOK'
    BY <2>2, <2>3 DEF FlightOK
  <2> QED BY <2>4, <2>5
<1>3. CASE (App \/ Send) /\ ~NetConnect /\ ~Sent /\ ~Enlist
  <2>1. /\ UNCHANGED <<toClient, qos_ack1_wl, wire>> /\ Pending' = Pending
        /\ toBroker' = toBroker \/ \E kind \in {"CONNECT", "DISCONNECT"} : Put(<<kind, id>>)
    BY <1>3 DEF App, ConnectCall, ConnectSent, ConnackAwaited, Connected, Sub, Send, Begin, SetAwaited,
       Dispatch, Sort, NotSent, AckAwaited, Done, Disconnect, DisconnectSet, DisconnectSend,
       DisconnectSent, CloseAwaited, Delete, Exit, wireVars, packetVars, Pending, Acknowledged
  <2>2. \A kind \in {"CONNECT", "DISCONNECT"} :
          <<kind, id>> \in FromApp \X Ids /\ <<kind, id>>[1] \notin RequestTypes
    BY DEF StateOK, FromApp, RequestTypes
  <2> QED BY <1>1, <2>1, <2>2
<1>4. CASE Sent
  <2>1. /\ UNCHANGED <<toClient, qos_ack1_wl, wire, id, call>> /\ Put(<<call, id>>)
        /\ pc = "send" /\ pc' \in {"sort", "enlist"}
    BY <1>4 DEF Sent, packetVars
  <2>2. Pending = {} /\ Pending' = IF Acknowledged THEN {id} ELSE {}
    BY <2>1 DEF Pending, Acknowledged
  <2>3. <<call, id>> \in FromApp \X Ids /\ (Acknowledged <=> call \in RequestTypes)
    BY DEF StateOK, FromApp, Acknowledged, Awaits, RequestTypes
  <2>4. CASE ~Acknowledged
    BY <1>1, <2>1, <2>2, <2>3, <2>4
  <2>5. CASE Acknowledged
    <3>1. \A i \in Waits : i < id
      BY <2>1 DEF FlightOK, Sending
    <3>2. Waits' = Waits /\ Answered' = Answered /\ Growing(toClient, AckTypes)'
      BY <2>1 DEF Waits, Answered, OrderOK
    <3>3. \A i \in Answered \cup Asked : i < id
      BY <2>2, <3>1 DEF FlightOK
    <3>4. \A i \in Waits' : i <= id' /\ (pc' \in Sending => i < id')
      BY <1>0, <3>2, IdsInUse
    <3>5. CASE toBroker' = Append(toBroker, <<call, id>>) /\ wire = TRUE
      <4>1. Growing(toBroker, RequestTypes)' /\ Asked' = Asked \cup {id}
        <5> DEFINE p == <<call, id>>
        <5>1. p[1] \in RequestTypes /\ p[2] = id /\ p \in FromApp \X Ids /\ id \in Ids
          BY <2>3, <2>5 DEF StateOK
        <5>2. \A i \in Numbers(toBroker, RequestTypes) : i < p[2]
          BY <3>3, <5>1 DEF Asked
        <5> HIDE DEF p
        <5>3. /\ Growing(Append(toBroker, p), RequestTypes)
              /\ Numbers(Append(toBroker, p), RequestTypes) = Numbers(toBroker, RequestTypes) \cup {p[2]}
          BY <5>1, <5>2, NumbersOfAppend DEF WireOK, OrderOK
        <5> QED BY <3>5, <5>1, <5>3 DEF p, Asked
      <4>2. OrderOK'
        BY <1>0, <2>1, <3>2, <4>1 DEF OrderOK, Onward
      <4>3. Waits \subseteq Answered \cup Asked
        BY <3>5 DEF FlightOK
      <4>4. \A i \in Answered', j \in Asked' : i < j
        BY <3>2, <3>3, <4>1 DEF FlightOK
      <4>5. /\ Answered' \cup Asked' \subseteq Waits' \cup Pending'
            /\ Waits' \cup Pending' \subseteq Answered' \cup Asked'
        BY <2>2, <2>5, <3>2, <4>1, <4>3 DEF FlightOK
      <4> QED BY <3>4, <4>2, <4>4, <4>5 DEF FlightOK
    <3>6. CASE toBroker' = toBroker /\ wire' # TRUE
      <4>1. Growing(toBroker, RequestTypes)' /\ Asked' = Asked
        BY <3>6 DEF Asked, OrderOK
      <4>2. OrderOK'
        BY <1>0, <2>1, <3>2, <4>1 DEF OrderOK, Onward
      <4> QED BY <2>2, <3>2, <3>4, <3>6, <4>1, <4>2 DEF FlightOK
    <3>7. (toBroker' = Append(toBroker, <<call, id>>) /\ wire = TRUE) \/ (toBroker' = toBroker /\ wire' # TRUE)
      <4>1. CASE wire /\ net = "open"
        BY <2>1, <4>1 DEF Put
      <4>2. CASE ~(wire /\ net = "open")
        <5>1. toBroker' = toBroker
          BY <2>1, <4>2 DEF Put
        <5>2. net # "open" => wire = FALSE
          BY DEF LinkOK
        <5> QED BY <2>1, <4>2, <5>1, <5>2
      <4> QED BY <4>1, <4>2
    <3> QED BY <3>5, <3>6, <3>7
  <2> QED BY <2>4, <2>5
<1>5. CASE Enlist
  <2>1. /\ UNCHANGED <<toClient, toBroker, wire, id>> /\ pc = "enlist" /\ pc' \in {"await ack", "done"}
        /\ qos_ack1_wl' = IF Acknowledged THEN Append(qos_ack1_wl, id) ELSE qos_ack1_wl
    BY <1>5 DEF Enlist, wireVars
  <2>2. Pending' = {} /\ Pending = IF Acknowledged THEN {id} ELSE {}
    BY <2>1 DEF Pending
  <2>3. CASE ~Acknowledged
    BY <1>1, <2>1, <2>2, <2>3
  <2>4. CASE Acknowledged
    <3>1. \A i \in Waits : i < id
      BY <2>1 DEF FlightOK, Sending
    <3>2. /\ UNCHANGED <<Answered, Asked>>
          /\ Growing(toClient, AckTypes)' /\ Growing(toBroker, RequestTypes)'
      BY <2>1 DEF Answered, Asked, OrderOK
    <3> DEFINE s == qos_ack1_wl
               t == qos_ack1_wl'
    <3>3. /\ s \in Seq(Ids) /\ t \in Seq(Ids) /\ DOMAIN s = 1..Len(s) /\ DOMAIN t = 1..Len(s) + 1 /\ Len(s) \in Nat
          /\ t[Len(s) + 1] = id /\ \A k \in 1..Len(s) : t[k] = s[k] /\ s[k] \in Waits
      <4>1. s \in Seq(Ids) /\ id \in Ids /\ t = Append(s, id)
        BY <2>1, <2>4 DEF OrderOK, StateOK
      <4>2. \A k \in DOMAIN s : s[k] \in Waits
        BY DEF Waits
      <4> HIDE DEF s, t
      <4>3. Append(s, id) \in Seq(Ids) /\ DOMAIN s = 1..Len(s) /\ Len(s) \in Nat
        BY <4>1
      <4>4. DOMAIN Append(s, id) = 1..Len(s) + 1 /\ \A k \in 1..Len(s) : Append(s, id)[k] = s[k]
        BY <4>1
      <4>5. Append(s, id)[Len(s) + 1] = id
        BY <4>1
      <4> QED BY <4>1, <4>2, <4>3, <4>4, <4>5, Zenon
    <3> HIDE DEF s, t
    <3>4. \A k, l \in DOMAIN s : k < l => s[k] < s[l]
      BY DEF OrderOK, s
    <3>5. \A k, l \in DOMAIN t : k < l => t[k] < t[l]
      BY <3>1, <3>3, <3>4
    <3>6. Waits' = Waits \cup {id}
      <4>1. Waits = {s[k] : k \in DOMAIN s} /\ Waits' = {t[k] : k \in DOMAIN t}
        BY DEF Waits, s, t
      <4>2. \A x \in Waits' : x \in Waits \cup {id}
        BY <3>3, <4>1
      <4>3. \A x \in Waits \cup {id} : x \in Waits'
        <5>1. Len(s) + 1 \in DOMAIN t /\ t[Len(s) + 1] = id
          BY <3>3
        <5>2. \A k \in DOMAIN s : k \in DOMAIN t /\ t[k] = s[k]
          BY <3>3
        <5> QED BY <4>1, <5>1, <5>2
      <4> QED BY <4>2, <4>3
    <3>7. OrderOK'
      BY <1>0, <2>1, <3>2, <3>3, <3>5 DEF OrderOK, t, First, Early
    <3>8. \A i \in Waits' : i <= id' /\ (pc' \in Sending => i < id')
      <4>1. id \in Ids /\ pc' \notin Sending /\ id' = id
        BY <2>1 DEF StateOK, Sending
      <4>2. \A i \in Waits : i <= id
        BY DEF FlightOK
      <4>3. id \in Int
        BY <4>1 DEF Ids
      <4> QED BY <3>6, <4>1, <4>2, <4>3
    <3>9. \A j \in Answered \cup Asked : j = id \/ j < id
      BY <2>2, <2>4, <3>1 DEF FlightOK
    <3>10. \A i \in Waits', j \in Answered' \cup Asked' : i < j => i \in Answered' \cup Asked'
      <4>1. id \in Ids
        BY DEF StateOK
      <4>2. id \in Int
        BY <4>1 DEF Ids
      <4>3. \A j \in Answered \cup Asked : ~(id < j)
        <5> SUFFICES ASSUME NEW j \in Answered \cup Asked PROVE ~(id < j)
          OBVIOUS
        <5>1. j \in Ids
          BY DEF Answered, Asked, Numbers, Marked
        <5>2. j \in Int
          BY <5>1 DEF Ids
        <5> QED BY <3>9, <4>2, <5>2
      <4> QED BY <3>2, <3>6, <4>3 DEF FlightOK
    <3> QED BY <2>1, <2>2, <2>4, <3>2, <3>6, <3>7, <3>8, <3>10 DEF FlightOK
  <2> QED BY <2>3, <2>4
<1>6. CASE NetClose
  BY <1>6, ClosedFlight
<1>7. CASE NothingDue \/ Pinged \/ Closed \/ Select \/ Ping \/ Silence \/ UNCHANGED vars
  <2>1. /\ UNCHANGED <<toClient, qos_ack1_wl, wire>> /\ Pending' = Pending
        /\ toBroker' = toBroker \/ Put(<<"PINGREQ", 0>>)
    BY <1>7 DEF NothingDue, Pinged, Closed, Select, Ping, Silence, vars, appVars, wireVars, packetVars,
       Pending, Acknowledged
  <2>2. <<"PINGREQ", 0>> \in FromApp \X Ids /\ <<"PINGREQ", 0>>[1] \notin RequestTypes
    BY MqttSessionAssumption DEF FromApp, RequestTypes, Ids
  <2> QED BY <1>1, <2>1, <2>2
<1>8. CASE RecvConnack \/ RecvPubcomp \/ RecvPingrsp
  <2>1. /\ toClient # <<>> /\ toClient' = Tail(toClient) /\ Packet[1] \notin AckTypes
        /\ UNCHANGED <<qos_ack1_wl, toBroker, wire>> /\ Pending' = Pending
    BY <1>8 DEF RecvConnack, RecvPubcomp, RecvPingrsp, Arrived, Handled, AckTypes, packetVars, appVars,
       Pending, Acknowledged
  <2>2. Growing(toClient, AckTypes)' /\ Answered' = Answered
    BY <2>1, FirstHandled
  <2>3. Growing(toBroker, RequestTypes)' /\ Asked' = Asked
    BY <2>1 DEF OrderOK, Asked
  <2>4. Answered' \cup Asked' = Answered \cup Asked /\ \A i \in Answered', j \in Asked' : i < j
    BY <2>2, <2>3 DEF FlightOK
  <2> QED BY <1>0, <2>1, <2>2, <2>3, <2>4, SameNumbers
<1>9. CASE RecvSuback
  <2> DEFINE i == Packet[2]
             k == Place(i)
  <2>1. /\ toClient # <<>> /\ toClient' = Tail(toClient) /\ Packet[1] = "SUBACK" /\ mutex = None
        /\ UNCHANGED <<toBroker, wire, pc, call, id>> /\ qos_ack1_wl' = Removed(i) /\ Waiting(i)
    BY <1>9 DEF RecvSuback, Arrived, Handled, Expected, appVars
  <2>2. k \in DOMAIN qos_ack1_wl /\ qos_ack1_wl[k] = i
    BY <2>1 DEF Waiting, Place
  <2>3. i \in Ids /\ qos_ack1_wl \in Seq(Ids)
    BY <2>2 DEF OrderOK
  <2>4. k \in 1..Len(qos_ack1_wl)
    BY <2>2, <2>3
  <2>5. qos_ack1_wl' \in Seq(Ids) /\ IsCut(qos_ack1_wl', qos_ack1_wl, k)
    BY <2>1, <2>3, <2>4, Cut DEF Removed
  <2> HIDE DEF k
  <2>6. /\ \A m, n \in DOMAIN qos_ack1_wl' : m < n => qos_ack1_wl'[m] < qos_ack1_wl'[n]
        /\ pc' \notin First /\ Waits' = Waits \ {i}
    BY <1>0, <2>2, <2>5, LeavesList
  <2>7. Pending = {} /\ Pending' = {}
    BY <2>1, MqttSessionAssumption DEF MutexOK, Pending
  <2>8. Growing(toClient, AckTypes)' /\ Answered = Answered' \cup {i} /\ \A x \in Answered' : i < x
    BY <2>1, <2>3, FirstHandled DEF AckTypes
  <2>9. Growing(toBroker, RequestTypes)' /\ Asked' = Asked
    BY <2>1 DEF OrderOK, Asked
  <2>10. OrderOK'
    BY <2>5, <2>6, <2>8, <2>9 DEF OrderOK
  <2>11. FlightOK'
    BY <1>0, <2>1, <2>3, <2>6, <2>7, <2>8, <2>9, Acknowledges
  <2> QED BY <2>10, <2>11
<1>10. CASE RecvPubrec
  <2> DEFINE i == Packet[2]
             p == <<"PUBREL", i>>
  <2>1. /\ Arrived("PUBREC") /\ toClient # <<>> /\ toClient' = Tail(toClient) /\ Packet[1] = "PUBREC"
        /\ mutex = None /\ UNCHANGED <<wire, pc, call, id>> /\ qos_ack1_wl' = Tail(qos_ack1_wl)
        /\ toBroker' = toBroker \/ Put(p)
    BY <1>10 DEF RecvPubrec, PubRec, Arrived, Handled, appVars
  <2>2. qos_ack1_wl # <<>> /\ Head(qos_ack1_wl) = i /\ i \in Ids
    BY <2>1, PubrecIsFirst
  <2>3. /\ qos_ack1_wl' \in Seq(Ids) /\ IsCut(qos_ack1_wl', qos_ack1_wl, 1)
        /\ 1 \in DOMAIN qos_ack1_wl /\ qos_ack1_wl[1] = i
    BY <2>1, <2>2, TailIsCut DEF OrderOK
  <2>4. /\ \A m, n \in DOMAIN qos_ack1_wl' : m < n => qos_ack1_wl'[m] < qos_ack1_wl'[n]
        /\ pc' \notin First /\ Waits' = Waits \ {i}
    BY <1>0, <2>3, LeavesList
  <2>5. Pending = {} /\ Pending' = {}
    BY <2>1, MqttSessionAssumption DEF MutexOK, Pending
  <2>6. Growing(toClient, AckTypes)' /\ Answered = Answered' \cup {i} /\ \A x \in Answered' : i < x
    BY <2>1, <2>2, FirstHandled DEF AckTypes
  <2>7. p \in FromApp \X Ids /\ p[1] \notin RequestTypes
    BY <2>2 DEF FromApp, RequestTypes
  <2>8. toBroker' = toBroker \/ toBroker' = Append(toBroker, p)
    BY <2>1, <2>7, PutTypes
  <2>9. Growing(toBroker, RequestTypes)' /\ Asked' = Asked
    BY <2>7, <2>8, OtherPut
  <2>10. OrderOK'
    BY <2>3, <2>4, <2>6, <2>9 DEF OrderOK
  <2>11. FlightOK'
    BY <1>0, <2>1, <2>2, <2>4, <2>5, <2>6, <2>9, Acknowledges
  <2> QED BY <2>10, <2>11
<1>11. CASE Broker
  <2> DEFINE p == Head(toBroker)
  <2>1. /\ toBroker # <<>> /\ toBroker' = Tail(toBroker) /\ wire = TRUE
        /\ UNCHANGED qos_ack1_wl /\ Pending' = Pending
        /\ IF Answer(p) = {} THEN toClient' = toClient
           ELSE \E a \in Answer(p) : toClient' = Append(toClient, a)
    BY <1>11 DEF Broker, packetVars, appVars, Pending, Acknowledged
  <2>2. p \in FromApp \X Ids
    BY <2>1 DEF WireOK
  <2>3. /\ Growing(toBroker, RequestTypes)'
        /\ IF p[1] \in RequestTypes /\ p[2] \in Ids
           THEN Asked = Asked' \cup {p[2]} /\ \A x \in Asked' : p[2] < x
           ELSE Asked = Asked'
    BY <2>1, NumbersOfTail DEF WireOK, OrderOK, Asked
  <2> HIDE DEF p
  <2>4. CASE p[1] \in RequestTypes
    <3>1. PICK a \in AckTypes : toClient' = Append(toClient, <<a, p[2]>>)
      BY <2>1, <2>4 DEF RequestTypes, Answer, AckTypes
    <3>2. /\ p[2] \in Ids /\ <<a, p[2]>>[1] \in AckTypes /\ <<a, p[2]>>[2] = p[2]
          /\ <<a, p[2]>> \in AckTypes \X Ids
      BY <2>2
    <3>3. /\ p[2] \in Asked /\ Asked = Asked' \cup {p[2]} /\ \A x \in Asked' : p[2] < x
          /\ \A x \in Answered : x < p[2]
      BY <2>3, <2>4, <3>2 DEF FlightOK
    <3>4. Growing(toClient, AckTypes)' /\ Answered' = Answered \cup {p[2]}
      <4> DEFINE x == <<a, p[2]>>
                 S == (Answers \X Nat) \cup (AckTypes \X Ids)
      <4>1. x[1] \in AckTypes /\ x[2] = p[2] /\ x \in S /\ p[2] \in Ids
        BY <3>2
      <4>2. toClient \in Seq(S)
        BY DEF WireOK
      <4>3. \A i \in Numbers(toClient, AckTypes) : i < x[2]
        BY <3>3, <4>1 DEF Answered
      <4> HIDE DEF x, S
      <4>4. /\ Growing(Append(toClient, x), AckTypes)
            /\ Numbers(Append(toClient, x), AckTypes) = Numbers(toClient, AckTypes) \cup {x[2]}
        BY <4>1, <4>2, <4>3, NumbersOfAppend DEF OrderOK
      <4> QED BY <3>1, <4>1, <4>4 DEF x, Answered
    <3>5. Answered' \cup Asked' = Answered \cup Asked
      BY <3>3, <3>4
    <3>6. \A i \in Answered', j \in Asked' : i < j
      BY <3>3, <3>4 DEF FlightOK
    <3> QED BY <1>0, <2>1, <2>3, <3>4, <3>5, <3>6, SameNumbers
  <2>5. CASE p[1] \notin RequestTypes
    <3>1. toClient' = toClient \/ \E a \in Answers \X Int : a[1] \notin AckTypes /\ toClient' = Append(toClient, a)
      BY <2>1, <2>2, <2>5 DEF FromApp, Ids, RequestTypes, Answer, AckTypes, Answers
    <3>2. Growing(toClient, AckTypes)' /\ Answered' = Answered
      <4>1. CASE toClient' = toClient
        BY <4>1 DEF OrderOK, Answered
      <4>2. ASSUME NEW a \in Answers \X Int, a[1] \notin AckTypes, toClient' = Append(toClient, a)
            PROVE  Growing(toClient, AckTypes)' /\ Answered' = Answered
        <5>1. toClient \in Seq(Answers \X Int) /\ ~(a[1] \in AckTypes /\ a[2] \in Ids)
          BY <4>2 DEF WireOK
        <5> DEFINE S == Answers \X Int
        <5> HIDE DEF S
        <5>2. /\ Growing(Append(toClient, a), AckTypes)
              /\ Numbers(Append(toClient, a), AckTypes) = Numbers(toClient, AckTypes) \cup {}
          <6>1. toClient \in Seq(S) /\ a \in S /\ Growing(toClient, AckTypes)
            BY <5>1 DEF OrderOK, S
          <6>2. ~(a[1] \in AckTypes /\ a[2] \in Ids)
            BY <5>1
          <6>3. /\ Growing(Append(toClient, a), AckTypes)
                /\ Numbers(Append(toClient, a), AckTypes) = Numbers(toClient, AckTypes)
                     \cup (IF a[1] \in AckTypes /\ a[2] \in Ids THEN {a[2]} ELSE {})
            BY <6>1, <6>2, NumbersOfAppend
          <6> QED BY <6>2, <6>3
        <5> QED BY <4>2, <5>2 DEF Answered
      <4> QED BY <3>1, <4>1, <4>2
    <3>3. Answered' \cup Asked' = Answered \cup Asked /\ \A i \in Answered', j \in Asked' : i < j
      BY <2>3, <2>5, <3>2 DEF FlightOK
    <3> QED BY <1>0, <2>1, <2>3, <3>2, <3>3, SameNumbers
  <2> QED BY <2>4, <2>5
<1>12. CASE Reset
  <2>1. /\ toBroker' = <<>> /\ (toClient' = toClient \/ toClient' = <<>>) /\ wire' = FALSE
        /\ UNCHANGED qos_ack1_wl /\ Pending' = Pending
    BY <1>12 DEF Reset, packetVars, appVars, Pending, Acknowledged
  <2>2. Growing(toBroker, RequestTypes)' /\ Asked' = {}
    BY <2>1, NumbersOfNothing DEF Asked
  <2>3. Growing(toClient, AckTypes)' /\ (Answered' = Answered \/ Answered' = {})
    BY <2>1, NumbersOfNothing DEF OrderOK, Answered
  <2>4. OrderOK'
    BY <1>0, <2>1, <2>2, <2>3 DEF OrderOK, Onward
  <2>5. Waits' = Waits /\ \A i \in Waits' : i <= id' /\ (pc' \in Sending => i < id')
    BY <1>0, <2>1, IdsInUse DEF Waits
  <2>6. \A i \in Waits', j \in Answered' \cup Asked' : i < j => i \in Answered' \cup Asked'
    <3> SUFFICES ASSUME NEW i \in Waits, NEW j \in Answered, i < j, Answered' = Answered PROVE i \in Answered
      BY <2>2, <2>3, <2>5
    <3>1. i \in Answered \/ i \in Asked
      BY DEF FlightOK
    <3>2. i \in Asked => j < i
      BY DEF FlightOK
    <3>3. i \in Int /\ j \in Int
      <4>1. i \in Ids /\ j \in Ids
        BY DEF Waits, OrderOK, Answered, Numbers, Marked
      <4> QED BY <4>1 DEF Ids
    <3> QED BY <3>1, <3>2, <3>3
  <2> QED BY <2>1, <2>2, <2>3, <2>4, <2>5, <2>6 DEF FlightOK
<1>13. CASE Stray
  <2>1. /\ toClient = <<>> /\ toBroker = <<>> /\ UNCHANGED <<toBroker, wire, qos_ack1_wl>> /\ Pending' = Pending
        /\ \E type \in {"CONNACK", "SUBACK", "PUBCOMP", "PINGRSP"} : toClient' = <<<<type, Inline>>>>
    BY <1>13 DEF Stray, packetVars, appVars, Pending, Acknowledged, Inline
  <2>2. PICK type \in {"CONNACK", "SUBACK", "PUBCOMP", "PINGRSP"} : toClient' = <<<<type, Inline>>>>
    BY <2>1
  <2>3. Inline \notin Ids
    BY MqttSessionAssumption DEF Inline, Ids
  <2>4. Marked(toClient', AckTypes) = {}
    BY <2>2, <2>3 DEF Marked
  <2>5. Growing(toClient, AckTypes)' /\ Answered' = {} /\ Answered = {}
    <3>1. Growing(toClient', AckTypes) /\ Numbers(toClient', AckTypes) = {}
      BY <2>4, Zenon DEF Growing, Numbers
    <3>2. Answered = {}
      BY <2>1, NumbersOfNothing DEF Answered
    <3> QED BY <3>1, <3>2 DEF Answered
  <2>6. Growing(toBroker, RequestTypes)' /\ Asked' = Asked
    BY <2>1 DEF OrderOK, Asked
  <2> QED BY <1>0, <2>1, <2>5, <2>6, SameNumbers
<1> QED BY <1>2, <1>3, <1>4, <1>5, <1>6, <1>7, <1>8, <1>9, <1>10, <1>11, <1>12, <1>13
        DEF Next, Rx, Receive, CloseAsked, PingFails, TimedOut, RecvRefusal, RecvError

-----------------------------------------------------------------------------
(* PUBREC finds its packet.                                                *)

FlightInv == StateOK /\ MutexOK /\ LinkOK /\ ConnackOK /\ WireOK /\ OrderOK /\ FlightOK

LEMMA FlightInit == Init => FlightInv
<1> SUFFICES ASSUME Init PROVE FlightInv
  OBVIOUS
<1>1. toClient = <<>> /\ toBroker = <<>> /\ qos_ack1_wl = <<>> /\ wire = FALSE
  BY DEF Init
<1>2. Growing(toClient, AckTypes) /\ Growing(toBroker, RequestTypes) /\ Answered = {} /\ Asked = {} /\ Waits = {}
  BY <1>1, NumbersOfNothing DEF Answered, Asked, Waits
<1>3. WireOK
  BY <1>1 DEF WireOK
<1>4. OrderOK
  BY <1>1, <1>2 DEF OrderOK
<1>5. FlightOK
  BY <1>1, <1>2, Zenon DEF FlightOK
<1> QED BY <1>3, <1>4, <1>5, StateInit DEF FlightInv

LEMMA FlightKept == FlightInv /\ [Next]_vars => FlightInv'
BY StateNext, MutexNext, LinkNext, ConnackNext, WireNext, FlightNext DEF FlightInv

LEMMA FlightHolds == Spec => []FlightInv
BY FlightInit, FlightKept, PTL DEF Spec

\* Whatever the application does and whatever is lost, _proc_pub_rec_rx finds the
\* packet a PUBREC is for at the head of qos_ack1_wl.
THEOREM PubrecFindsItsPacket == Spec => []PubrecFindsPacket
<1>1. FlightInv => PubrecFindsPacket
  BY PubrecIsFirst DEF FlightInv, PubrecFindsPacket
<1> QED BY <1>1, FlightHolds, PTL

-----------------------------------------------------------------------------
(* Whoever blocks is told the truth.                                       *)

\* What the receive task handles finds the socket open; and CONNACK, the
\* application where it waits for it.
LEMMA ArrivalsAreLive ==
    ASSUME FlightInv, RecvConnack \/ RecvSuback \/ RecvPubrec \/ RecvPubcomp \/ RecvPingrsp
    PROVE  /\ net = "open" /\ UNCHANGED <<net, pc, call, id, ret, succeeded, blocking_send>>
           /\ (RecvConnack => pc = "await connack")
<1>1. toClient # <<>> /\ UNCHANGED <<net, pc, call, id, ret, succeeded, blocking_send>>
  BY DEF RecvConnack, RecvSuback, RecvPubrec, RecvPubcomp, RecvPingrsp, Arrived, appVars, history
<1>2. net = "open"
  BY <1>1 DEF FlightInv, LinkOK
<1>3. RecvConnack => "CONNACK_AWAIT" \in flags
  BY DEF RecvConnack, Expected, Arrived
<1> QED BY <1>1, <1>2, <1>3 DEF FlightInv, ConnackOK

LEMMA QueueNext == FlightInv /\ QueueOK /\ [Next]_vars => QueueOK'
<1> SUFFICES ASSUME FlightInv, QueueOK, [Next]_vars PROVE QueueOK'
  OBVIOUS
<1>0. pc' \in First => pc \in First
  BY GoesOn DEF Onward
<1>1. CASE UNCHANGED qos2_tx_cq
  BY <1>0, <1>1 DEF QueueOK
<1>2. CASE NetClose
  BY <1>2 DEF NetClose, QueueOK
<1>3. CASE RecvPubrec
  <2>1. Arrived("PUBREC") /\ qos2_tx_cq' = Append(qos2_tx_cq, Packet[2])
    BY <1>3 DEF RecvPubrec, PubRec
  <2>2. Packet[2] \in Ids /\ qos_ack1_wl # <<>>
    BY <2>1, PubrecIsFirst DEF FlightInv
  <2>3. pc' \notin First
    BY <1>0, <2>2 DEF FlightInv, OrderOK
  <2> QED BY <2>1, <2>2, <2>3 DEF QueueOK
<1>4. CASE RecvPubcomp
  <2>1. qos2_tx_cq # <<>> /\ qos2_tx_cq' = Tail(qos2_tx_cq)
    BY <1>4 DEF RecvPubcomp, Expected, Arrived, FlightInv, ConnackOK, QueueOK, First
  <2> QED BY <1>0, <2>1 DEF QueueOK
<1>5. UNCHANGED qos2_tx_cq \/ NetClose \/ RecvPubrec \/ RecvPubcomp
  <2>1. CASE App \/ Send
    BY <2>1 DEF App, ConnectCall, NetConnect, ConnectSent, ConnackAwaited, Connected, Sub, Send, Begin, SetAwaited,
       Dispatch, Sent, Sort, Enlist, NotSent, AckAwaited, Done, Disconnect, DisconnectSet, DisconnectSend,
       DisconnectSent, CloseAwaited, Delete, Exit, packetVars
  <2>2. CASE Rx \/ Ping \/ TimedOut
    BY <2>2 DEF Rx, NothingDue, CloseAsked, Pinged, PingFails, Closed, Select, Ping, TimedOut, packetVars
  <2>3. CASE Receive
    BY <2>3 DEF Receive, RecvConnack, RecvRefusal, RecvSuback, RecvPingrsp, RecvError, packetVars
  <2>4. CASE Broker \/ Reset \/ Silence \/ Stray \/ UNCHANGED vars
    BY <2>4 DEF Broker, Reset, Silence, Stray, vars, packetVars
  <2> QED BY <2>1, <2>2, <2>3, <2>4 DEF Next
<1> QED BY <1>1, <1>2, <1>3, <1>4, <1>5

\* The head of a list.
LEMMA OfSome ==
    ASSUME NEW S, NEW s \in Seq(S), s # <<>>
    PROVE  Head(s) = s[1] /\ 1 \in DOMAIN s /\ Head(s) \in S
OBVIOUS

\* A list of one element.
LEMMA OfOne ==
    ASSUME NEW S, NEW x \in S
    PROVE  /\ Head(<<x>>) = x /\ Tail(<<x>>) = <<>> /\ Append(<<>>, x) = <<x>> /\ DOMAIN <<x>> = {1}
           /\ SubSeq(<<x>>, 1, 1 - 1) \o SubSeq(<<x>>, 1 + 1, Len(<<x>>)) = <<>>
<1>1. Head(<<x>>) = x /\ Tail(<<x>>) = <<>> /\ Append(<<>>, x) = <<x>> /\ DOMAIN <<x>> = {1}
  OBVIOUS
<1>2. SubSeq(<<x>>, 1, 1 - 1) = <<>> /\ SubSeq(<<x>>, 1 + 1, Len(<<x>>)) = <<>>
  OBVIOUS
<1>3. <<>> \o <<>> = <<>>
  OBVIOUS
<1> QED BY <1>1, <1>2, <1>3

\* The lists of a blocking session after one acknowledgement.
LEMMA ListsAfterAck ==
    ASSUME FlightInv, QueueOK, ListsOK, blocking_send = TRUE
    PROVE  /\ RecvSuback => qos_ack1_wl' = <<>> /\ qos2_tx_cq' = <<>> /\ pc = "await ack"
           /\ RecvPubrec => /\ qos_ack1_wl' = <<>> /\ qos2_tx_cq' = <<id>> /\ pc = "await ack"
                            /\ awaited_ack \in {"SUBACK", "PUBCOMP"}
           /\ RecvPubcomp => /\ qos_ack1_wl' = <<>> /\ qos2_tx_cq' = <<>> /\ pc = "await ack"
                             /\ Packet[1] = "PUBCOMP" /\ Packet[2] = id /\ toClient # <<>>
<1>1. id \in Ids /\ <<>> # <<id>>
  BY DEF FlightInv, StateOK
<1>2. CASE RecvSuback
  <2>1. Waiting(Packet[2]) /\ qos_ack1_wl' = Removed(Packet[2]) /\ qos2_tx_cq' = qos2_tx_cq
    BY <1>2 DEF RecvSuback, Expected, Arrived
  <2>2. Place(Packet[2]) \in DOMAIN qos_ack1_wl
    BY <2>1 DEF Waiting, Place
  <2>3. qos_ack1_wl # <<>>
    BY <2>2
  <2>4. net = "open"
    BY <1>2, ArrivalsAreLive
  <2>5. qos_ack1_wl = <<id>> /\ qos2_tx_cq = <<>> /\ pc = "await ack"
    BY <2>3, <2>4 DEF ListsOK
  <2>6. Place(Packet[2]) = 1
    BY <1>1, <2>2, <2>5, OfOne
  <2>7. qos_ack1_wl' = SubSeq(<<id>>, 1, 1 - 1) \o SubSeq(<<id>>, 1 + 1, Len(<<id>>))
    BY <2>1, <2>5, <2>6, Zenon DEF Removed
  <2>8. qos_ack1_wl' = <<>>
    BY <1>1, <2>7, OfOne
  <2> QED BY <1>2, <2>1, <2>5, <2>8 DEF RecvSuback, RecvPubrec, RecvPubcomp, Arrived
<1>3. CASE RecvPubrec
  <2>1. /\ qos_ack1_wl # <<>> /\ Head(qos_ack1_wl) = Packet[2] /\ qos_ack1_wl' = Tail(qos_ack1_wl)
        /\ qos2_tx_cq' = Append(qos2_tx_cq, Packet[2])
    BY <1>3, PubrecIsFirst DEF RecvPubrec, PubRec, FlightInv
  <2>2. net = "open"
    BY <1>3, ArrivalsAreLive
  <2>3. /\ qos_ack1_wl = <<id>> /\ qos2_tx_cq = <<>> /\ pc = "await ack"
        /\ awaited_ack \in {"SUBACK", "PUBCOMP"}
    BY <2>1, <2>2 DEF ListsOK
  <2>4. qos_ack1_wl' = <<>> /\ qos2_tx_cq' = <<id>>
    BY <1>1, <2>1, <2>3, OfOne
  <2> QED BY <1>3, <2>3, <2>4 DEF RecvSuback, RecvPubrec, RecvPubcomp, Arrived
<1>4. CASE RecvPubcomp
  <2>1. /\ qos2_tx_cq # <<>> /\ Head(qos2_tx_cq) = Packet[2] /\ qos2_tx_cq' = Tail(qos2_tx_cq)
        /\ qos_ack1_wl' = qos_ack1_wl /\ Packet[1] = "PUBCOMP" /\ toClient # <<>>
    BY <1>4 DEF RecvPubcomp, Expected, Arrived
  <2>2. net = "open"
    BY <1>4, ArrivalsAreLive
  <2>3. qos2_tx_cq = <<id>> /\ qos_ack1_wl = <<>> /\ pc = "await ack"
    BY <2>1, <2>2 DEF ListsOK
  <2>4. qos_ack1_wl' = <<>> /\ qos2_tx_cq' = <<>> /\ Packet[2] = id
    BY <1>1, <2>1, <2>3, OfOne
  <2> QED BY <1>4, <2>1, <2>3, <2>4 DEF RecvSuback, RecvPubrec, RecvPubcomp, Arrived
<1> QED BY <1>2, <1>3, <1>4

LEMMA ListsNext == FlightInv /\ QueueOK /\ ListsOK /\ SignalOK /\ [Next]_vars => ListsOK'
<1> SUFFICES ASSUME FlightInv, QueueOK, ListsOK, SignalOK, [Next]_vars PROVE ListsOK'
  OBVIOUS
<1>1. ASSUME UNCHANGED <<qos_ack1_wl, qos2_tx_cq, net, blocking_send>>,
             \/ UNCHANGED <<pc, id, awaited_ack>>
             \/ qos_ack1_wl = <<>> /\ qos2_tx_cq = <<>>
             \/ pc # "await ack"
             \/ net = "closed"
      PROVE  ListsOK'
  BY <1>1 DEF ListsOK
<1>2. CASE NetConnect
  <2>1. UNCHANGED <<qos_ack1_wl, qos2_tx_cq>> /\ pc \in First
    BY <1>2 DEF NetConnect, First, Early
  <2>2. qos_ack1_wl = <<>> /\ qos2_tx_cq = <<>>
    BY <2>1 DEF QueueOK, FlightInv, OrderOK
  <2> QED BY <2>1, <2>2 DEF ListsOK
<1>3. CASE Enlist
  <2>1. UNCHANGED <<qos2_tx_cq, net, blocking_send, id, awaited_ack, call>> /\ pc = "enlist"
    BY <1>3 DEF Enlist, ackVars, history
  <2>2. CASE blocking_send = TRUE /\ net = "open" /\ Acknowledged
    <3>1. qos_ack1_wl = <<>> /\ qos2_tx_cq = <<>>
      BY <2>1, <2>2 DEF ListsOK
    <3>2. qos_ack1_wl' = <<id>> /\ pc' = "await ack"
      <4>1. qos_ack1_wl' = Append(<<>>, id) /\ pc' = "await ack"
        BY <1>3, <2>2, <3>1 DEF Enlist
      <4> QED BY <4>1, OfOne
    <3>3. awaited_ack \in {"SUBACK", "PUBCOMP"}
      BY <2>1, <2>2 DEF SignalOK
    <3> QED BY <2>1, <3>1, <3>2, <3>3 DEF ListsOK
  <2>3. CASE ~Acknowledged
    <3>1. UNCHANGED qos_ack1_wl
      BY <1>3, <2>3 DEF Enlist
    <3> QED BY <1>1, <2>1, <3>1
  <2>4. CASE ~(blocking_send = TRUE /\ net = "open")
    BY <2>1, <2>4 DEF ListsOK
  <2> QED BY <2>2, <2>3, <2>4
<1>4. CASE AckAwaited
  <2>1. UNCHANGED <<qos_ack1_wl, qos2_tx_cq, net, blocking_send>> /\ pc = "await ack" /\ ack_sync_obj # FALSE
    BY <1>4 DEF AckAwaited, packetVars, history
  <2>2. awaited_ack \in {None, "DISCONNECT"}
    BY <2>1 DEF SignalOK
  <2>3. awaited_ack \notin {"SUBACK", "PUBCOMP"}
    BY <2>2, MqttSessionAssumption
  <2>4. CASE blocking_send = TRUE /\ net = "open"
    <3>1. qos_ack1_wl = <<>> /\ qos2_tx_cq = <<>>
      BY <2>3, <2>4 DEF ListsOK
    <3> QED BY <1>1, <2>1, <3>1
  <2>5. CASE ~(blocking_send = TRUE /\ net = "open")
    BY <2>1, <2>5 DEF ListsOK
  <2> QED BY <2>4, <2>5
<1>5. CASE (App \/ Send) /\ ~NetConnect /\ ~Enlist /\ ~AckAwaited
  <2>1. UNCHANGED <<qos_ack1_wl, qos2_tx_cq, net, blocking_send>> /\ pc # "await ack"
    BY <1>5 DEF App, ConnectCall, ConnectSent, ConnackAwaited, Connected, Sub, Send, Begin, SetAwaited,
       Dispatch, Sent, Sort, NotSent, Done, Disconnect, DisconnectSet, DisconnectSend,
       DisconnectSent, CloseAwaited, Delete, Exit, packetVars, history
  <2> QED BY <1>1, <2>1
<1>6. CASE NetClose
  BY <1>6 DEF NetClose, ListsOK
<1>7. CASE Closed
  <2>1. UNCHANGED <<qos_ack1_wl, qos2_tx_cq, net, blocking_send>> /\ rx = "closing"
    BY <1>7 DEF Closed, packetVars, history
  <2> QED BY <1>1, <2>1 DEF FlightInv, LinkOK
<1>8. CASE RecvSuback \/ RecvPubrec \/ RecvPubcomp
  <2>1. UNCHANGED <<net, pc, id, blocking_send>>
    BY <1>8, ArrivalsAreLive
  <2>2. RecvPubrec => awaited_ack' = awaited_ack
    BY DEF RecvPubrec, ackVars
  <2> QED BY <1>8, <2>1, <2>2, ListsAfterAck DEF ListsOK
<1>9. CASE RecvConnack
  <2>1. UNCHANGED <<qos_ack1_wl, qos2_tx_cq, net, blocking_send>> /\ pc = "await connack"
    BY <1>9, ArrivalsAreLive DEF RecvConnack, packetVars
  <2> QED BY <1>1, <2>1
<1>10. CASE NothingDue \/ Pinged \/ Select \/ Ping \/ RecvPingrsp \/ Broker \/ Reset \/ Silence \/ Stray \/ UNCHANGED vars
  <2>1. UNCHANGED <<qos_ack1_wl, qos2_tx_cq, net, blocking_send, pc, id, awaited_ack>>
    BY <1>10 DEF NothingDue, Pinged, Select, Ping, RecvPingrsp, Broker, Reset, Silence, Stray, vars, appVars,
       ackVars, packetVars, history
  <2> QED BY <1>1, <2>1
<1> QED BY <1>2, <1>3, <1>4, <1>5, <1>6, <1>7, <1>8, <1>9, <1>10
        DEF Next, Rx, Receive, CloseAsked, PingFails, TimedOut, RecvRefusal, RecvError

LEMMA SignalNext == FlightInv /\ QueueOK /\ ListsOK /\ SignalOK /\ [Next]_vars => SignalOK'
<1> SUFFICES ASSUME FlightInv, QueueOK, ListsOK, SignalOK, [Next]_vars PROVE SignalOK'
  OBVIOUS
<1>1. CASE Sub \/ Send
  <2>1. /\ pc \in {"subscribe", "ready"} /\ UNCHANGED <<ack_sync_obj, awaited_ack, net, blocking_send>>
        /\ pc' \in {"await set", "done"} /\ (pc' = "await set" => IsConnected)
    BY <1>1 DEF Sub, Send, Begin, ackVars, history
  <2>2. IsConnected => net = "open"
    BY DEF IsConnected, FlightInv, LinkOK
  <2>3. pc = "subscribe" => ack_sync_obj = FALSE /\ awaited_ack = None
    BY DEF FlightInv, ConnackOK
  <2> QED BY <2>1, <2>2, <2>3 DEF SignalOK
<1>2. CASE SetAwaited
  <2>1. /\ pc = "await set" /\ pc' = "dispatch" /\ UNCHANGED <<ack_sync_obj, net, blocking_send, call>>
        /\ awaited_ack' = IF call = "QOS2" \/ (call = "SUBSCRIBE" /\ blocking_send)
                          THEN Awaits[call] ELSE awaited_ack
    BY <1>2 DEF SetAwaited, history
  <2>2. call \in {"CONNECT", "SUBSCRIBE", "QOS0", "QOS2"}
    BY DEF FlightInv, StateOK
  <2>3. Awaits["SUBSCRIBE"] = "SUBACK" /\ Awaits["QOS2"] = "PUBCOMP" /\ DOMAIN Awaits = {"SUBSCRIBE", "QOS2"}
    BY DEF Awaits
  <2>4. blocking_send = TRUE /\ Acknowledged' => awaited_ack' \in {"SUBACK", "PUBCOMP"}
    <3> SUFFICES ASSUME blocking_send = TRUE, Acknowledged PROVE awaited_ack' \in {"SUBACK", "PUBCOMP"}
      BY <2>1 DEF Acknowledged
    <3>1. call \in {"SUBSCRIBE", "QOS2"}
      BY <2>3 DEF Acknowledged
    <3> QED BY <2>1, <2>3, <3>1
  <2>5. blocking_send = TRUE => ack_sync_obj' = FALSE
    BY <2>1 DEF SignalOK
  <2> QED BY <2>1, <2>4, <2>5 DEF SignalOK
<1>3. CASE App /\ ~Sub /\ ~SetAwaited
  BY <1>3 DEF App, ConnectCall, NetConnect, ConnectSent, ConnackAwaited, Connected,
     Dispatch, Sent, Sort, Enlist, NotSent, AckAwaited, Done, Disconnect, DisconnectSet, DisconnectSend,
     DisconnectSent, CloseAwaited, Delete, Exit, SignalOK, ackVars, history, Acknowledged
<1>4. CASE RecvRefusal \/ CloseAsked \/ TimedOut \/ PingFails \/ RecvError
  <2>1. UNCHANGED <<pc, call, blocking_send>> /\ net' = "closed"
    BY <1>4 DEF RecvRefusal, CloseAsked, TimedOut, PingFails, RecvError, NetClose, appVars, history
  <2>2. CASE RecvRefusal
    <3>1. pc = "await connack"
      BY <2>2 DEF RecvRefusal, Expected, Arrived, FlightInv, ConnackOK
    <3> QED BY <2>1, <3>1 DEF SignalOK
  <2>3. CASE UNCHANGED ackVars
    BY <2>1, <2>3 DEF SignalOK, ackVars
  <2> QED BY <1>4, <2>2, <2>3 DEF CloseAsked, TimedOut, PingFails, RecvError
<1>5. CASE Closed
  <2>1. UNCHANGED <<net, pc, call, blocking_send>> /\ net = "closed"
        /\ \/ UNCHANGED <<awaited_ack, ack_sync_obj>>
           \/ awaited_ack # None /\ awaited_ack' = "DISCONNECT"
    BY <1>5 DEF Closed, appVars, history, FlightInv, LinkOK
  <2> QED BY <2>1 DEF SignalOK
<1>6. CASE RecvSuback \/ RecvPubcomp
  <2>1. UNCHANGED <<net, pc, id, call, blocking_send>>
    BY <1>6, ArrivalsAreLive
  <2>2. \E type \in {"SUBACK", "PUBCOMP"} : Notify(type)
    BY <1>6 DEF RecvSuback, RecvPubcomp
  <2>3. blocking_send = TRUE => pc = "await ack"
    BY <1>6, ListsAfterAck
  <2> QED BY <2>1, <2>2, <2>3 DEF Notify, SignalOK
<1>7. CASE RecvConnack
  <2>1. UNCHANGED <<net, pc, id, call, blocking_send>> /\ pc = "await connack"
    BY <1>7, ArrivalsAreLive
  <2> QED BY <2>1 DEF SignalOK
<1>8. CASE NothingDue \/ Pinged \/ Select \/ Ping \/ RecvPubrec \/ RecvPingrsp \/ Broker \/ Reset \/ Silence \/ Stray \/ UNCHANGED vars
  <2>1. UNCHANGED <<net, pc, call, blocking_send, awaited_ack, ack_sync_obj>>
    BY <1>8 DEF NothingDue, Pinged, Select, Ping, RecvPubrec, RecvPingrsp, Broker, Reset, Silence, Stray, vars, appVars,
       ackVars, history
  <2> QED BY <2>1 DEF SignalOK, Acknowledged
<1> QED BY <1>1, <1>2, <1>3, <1>4, <1>5, <1>6, <1>7, <1>8
        DEF Next, Rx, Receive

\* PUBCOMP comes from the broker once it has handed the message on, or is a stray.
LEMMA CompNext == FlightInv /\ CompOK /\ [Next]_vars => CompOK' /\ released \subseteq released'
<1> SUFFICES ASSUME FlightInv, CompOK, [Next]_vars PROVE CompOK' /\ released \subseteq released'
  OBVIOUS
<1>1. ASSUME UNCHANGED <<toClient, released>> PROVE CompOK' /\ released \subseteq released'
  BY <1>1 DEF CompOK
<1>2. ASSUME toClient' = <<>>, UNCHANGED released PROVE CompOK' /\ released \subseteq released'
  BY <1>2 DEF CompOK
<1>3. toClient \in Seq(Answers \X Nat)
  BY DEF FlightInv, WireOK
<1>4. CASE App \/ Send
  <2>1. UNCHANGED <<toClient, released>>
    BY <1>4 DEF App, ConnectCall, NetConnect, ConnectSent, ConnackAwaited, Connected, Sub, Send, Begin, SetAwaited,
       Dispatch, Sent, Sort, Enlist, NotSent, AckAwaited, Done, Disconnect, DisconnectSet, DisconnectSend,
       DisconnectSent, CloseAwaited, Delete, Exit, wireVars
  <2> QED BY <1>1, <2>1
<1>5. CASE NothingDue \/ Pinged \/ Closed \/ Select \/ Ping \/ Silence \/ UNCHANGED vars
  <2>1. UNCHANGED <<toClient, released>>
    BY <1>5 DEF NothingDue, Pinged, Closed, Select, Ping, Silence, vars, wireVars
  <2> QED BY <1>1, <2>1
<1>6. CASE NetClose \/ Reset
  <2>1. UNCHANGED released /\ (toClient' = toClient \/ toClient' = <<>>)
    BY <1>6 DEF NetClose, Reset
  <2> QED BY <1>1, <1>2, <2>1
<1>7. CASE RecvConnack \/ RecvSuback \/ RecvPubrec \/ RecvPubcomp \/ RecvPingrsp
  <2>1. toClient # <<>> /\ toClient' = Tail(toClient) /\ UNCHANGED released
    BY <1>7 DEF RecvConnack, RecvSuback, RecvPubrec, RecvPubcomp, RecvPingrsp, Arrived, Handled
  <2> QED BY <1>3, <2>1 DEF CompOK
<1>8. CASE Broker
  <2> DEFINE p == Head(toBroker)
  <2>1. /\ toBroker # <<>>
        /\ toClient' = toClient \/ \E a \in Answer(p) : toClient' = Append(toClient, a)
        /\ released' = IF p[1] = "PUBREL" THEN released \cup {p[2]} ELSE released
    BY <1>8 DEF Broker
  <2>2. p \in FromApp \X Ids
    <3>1. toBroker \in Seq(FromApp \X Ids)
      BY DEF FlightInv, WireOK
    <3> QED BY <2>1, <3>1, OfSome
  <2> HIDE DEF p
  <2>3. \A a \in Answer(p) : a[1] = "PUBCOMP" => a[2] \in released'
    BY <2>1, <2>2 DEF Answer, FromApp
  <2>4. released \subseteq released'
    BY <2>1
  <2>5. CASE toClient' = toClient
    BY <2>4, <2>5 DEF CompOK
  <2>6. ASSUME NEW a \in Answer(p), toClient' = Append(toClient, a) PROVE CompOK'
    <3> SUFFICES ASSUME NEW k \in DOMAIN toClient', toClient'[k][1] = "PUBCOMP"
                 PROVE  toClient'[k][2] \in released' \cup {Inline}
      BY DEF CompOK, Inline
    <3>1. (k \in DOMAIN toClient /\ toClient'[k] = toClient[k]) \/ toClient'[k] = a
      BY <1>3, <2>6
    <3> QED BY <2>3, <2>4, <3>1 DEF CompOK
  <2> QED BY <2>1, <2>4, <2>5, <2>6
<1>9. CASE Stray
  <2>1. UNCHANGED released /\ \E type : toClient' = <<<<type, Inline>>>>
    BY <1>9 DEF Stray, Inline
  <2> QED BY <2>1 DEF CompOK, Inline
<1> QED BY <1>4, <1>5, <1>6, <1>7, <1>8, <1>9
        DEF Next, Rx, Receive, CloseAsked, PingFails, TimedOut, RecvRefusal, RecvError

LEMMA ReleasedNext ==
    FlightInv /\ QueueOK /\ ListsOK /\ SignalOK /\ CompOK /\ ReleasedOK /\ [Next]_vars => ReleasedOK'
<1> SUFFICES ASSUME FlightInv, QueueOK, ListsOK, SignalOK, CompOK, ReleasedOK, [Next]_vars PROVE ReleasedOK'
  OBVIOUS
<1>0. released \subseteq released'
  BY CompNext
<1>1. ASSUME UNCHANGED <<blocking_send, pc, call, id, ret, succeeded>>,
             \/ awaited_ack' = awaited_ack
             \/ awaited_ack # None /\ awaited_ack' = "DISCONNECT"
             \/ pc = "await connack"
      PROVE  ReleasedOK'
  BY <1>0, <1>1, MqttSessionAssumption DEF ReleasedOK
<1>2. CASE App \/ Send
  <2>1. CASE Sub \/ Send
    BY <1>0, <2>1 DEF Sub, Send, Begin, ReleasedOK, history
  <2>2. CASE SetAwaited
    <3>1. call = "QOS2" => awaited_ack' = "PUBCOMP"
      <4>1. Awaits["QOS2"] = "PUBCOMP"
        BY DEF Awaits
      <4> QED BY <2>2, <4>1 DEF SetAwaited
    <3> QED BY <1>0, <2>2, <3>1 DEF SetAwaited, ReleasedOK, history
  <2>3. CASE Dispatch \/ NotSent \/ Enlist
    <3>1. call = "QOS2" => Acknowledged
      BY DEF Acknowledged, Awaits
    <3> QED BY <1>0, <2>3, <3>1 DEF Dispatch, NotSent, Enlist, ReleasedOK, ackVars, history
  <2>4. CASE AckAwaited
    <3>1. /\ UNCHANGED <<blocking_send, call, id, succeeded>> /\ pc' = "done" /\ pc = "await ack"
          /\ ack_sync_obj # FALSE /\ (ret' = "ok" => awaited_ack # "DISCONNECT")
      BY <2>4 DEF AckAwaited, history
    <3>2. awaited_ack \in {None, "DISCONNECT"}
      BY <3>1 DEF SignalOK
    <3> QED BY <1>0, <3>1, <3>2, MqttSessionAssumption DEF ReleasedOK
  <2>5. CASE Done
    BY <1>0, <2>5 DEF Done, ReleasedOK
  <2>6. CASE App /\ ~Sub /\ ~SetAwaited /\ ~Dispatch /\ ~NotSent /\ ~Enlist /\ ~AckAwaited /\ ~Done
    BY <1>0, <2>6 DEF App, ConnectCall, NetConnect, ConnectSent, ConnackAwaited, Connected, Sent, Sort,
       Disconnect, DisconnectSet, DisconnectSend, DisconnectSent, CloseAwaited, Delete, Exit,
       ReleasedOK, ackVars, history
  <2> QED BY <1>2, <2>1, <2>2, <2>3, <2>4, <2>5, <2>6
<1>3. CASE CloseAsked \/ TimedOut \/ PingFails \/ RecvError \/ RecvRefusal
  <2>1. UNCHANGED <<blocking_send, pc, call, id, ret, succeeded>>
    BY <1>3 DEF CloseAsked, TimedOut, PingFails, RecvError, RecvRefusal, NetClose, appVars, history
  <2>2. RecvRefusal => pc = "await connack"
    BY DEF RecvRefusal, Expected, Arrived, FlightInv, ConnackOK
  <2>3. CASE RecvRefusal
    BY <1>1, <2>1, <2>2, <2>3
  <2>4. CASE awaited_ack' = awaited_ack
    BY <1>1, <2>1, <2>4
  <2> QED BY <1>3, <2>3, <2>4 DEF CloseAsked, TimedOut, PingFails, RecvError, ackVars
<1>4. CASE Closed
  <2>1. UNCHANGED <<blocking_send, pc, call, id, ret, succeeded>>
        /\ (awaited_ack' = awaited_ack \/ (awaited_ack # None /\ awaited_ack' = "DISCONNECT"))
    BY <1>4 DEF Closed, appVars, history
  <2> QED BY <1>1, <2>1
<1>5. CASE RecvConnack \/ RecvSuback \/ RecvPubcomp
  <2>1. UNCHANGED <<blocking_send, pc, call, id, ret, succeeded>>
    BY <1>5, ArrivalsAreLive
  <2>2. CASE RecvConnack
    BY <1>1, <2>1, <2>2, ArrivalsAreLive
  <2>3. CASE blocking_send # TRUE
    BY <2>1, <2>3 DEF ReleasedOK
  <2>4. CASE RecvSuback /\ blocking_send = TRUE
    <3>1. pc = "await ack" /\ (awaited_ack' = awaited_ack \/ awaited_ack = "SUBACK")
      BY <2>4, ListsAfterAck DEF RecvSuback, Notify
    <3>2. CASE awaited_ack = "SUBACK"
      BY <1>0, <2>1, <2>4, <3>1, <3>2, MqttSessionAssumption DEF ReleasedOK
    <3> QED BY <1>1, <2>1, <3>1, <3>2
  <2>5. CASE RecvPubcomp /\ blocking_send = TRUE
    <3>1. /\ pc = "await ack" /\ Packet[1] = "PUBCOMP" /\ Packet[2] = id /\ toClient # <<>>
          /\ (awaited_ack' = awaited_ack \/ awaited_ack' = None)
      BY <2>5, ListsAfterAck DEF RecvPubcomp, Notify
    <3>2. Packet = toClient[1] /\ 1 \in DOMAIN toClient
      <4>1. toClient \in Seq(Answers \X Nat)
        BY DEF FlightInv, WireOK
      <4> QED BY <3>1, <4>1, OfSome DEF Packet
    <3>3. id \in released \cup {Inline}
      BY <3>1, <3>2 DEF CompOK
    <3>4. id # Inline
      BY MqttSessionAssumption DEF FlightInv, StateOK, Ids, Inline
    <3> QED BY <1>0, <2>1, <3>1, <3>3, <3>4 DEF ReleasedOK
  <2> QED BY <1>5, <2>2, <2>3, <2>4, <2>5
<1>6. CASE NothingDue \/ Pinged \/ Select \/ Ping \/ RecvPubrec \/ RecvPingrsp \/ Broker \/ Reset \/ Silence \/ Stray \/ UNCHANGED vars
  <2>1. UNCHANGED <<blocking_send, pc, call, id, ret, succeeded, awaited_ack>>
    BY <1>6 DEF NothingDue, Pinged, Select, Ping, RecvPubrec, RecvPingrsp, Broker, Reset, Silence, Stray, vars, appVars,
       ackVars, history
  <2> QED BY <1>1, <2>1
<1> QED BY <1>2, <1>3, <1>4, <1>5, <1>6 DEF Next, Rx, Receive

-----------------------------------------------------------------------------
BlockInv == FlightInv /\ QueueOK /\ ListsOK /\ SignalOK /\ CompOK /\ ReleasedOK

LEMMA BlockHolds == Spec => []BlockInv
<1>1. Init => BlockInv
  BY FlightInit, MqttSessionAssumption DEF Init, BlockInv, QueueOK, ListsOK, SignalOK, CompOK, ReleasedOK
<1>2. BlockInv /\ [Next]_vars => BlockInv'
  BY FlightKept, QueueNext, ListsNext, SignalNext, CompNext, ReleasedNext DEF BlockInv
<1> QED BY <1>1, <1>2, PTL DEF Spec

\* Whoever waits on ack_sync_obj is woken by the acknowledgement of his own call
\* or by the end of the connection: no earlier call leaves a signal behind.
THEOREM SignalsAreFresh == Spec => []NoStaleSignal
<1>1. BlockInv => NoStaleSignal
  BY DEF BlockInv, FlightInv, ConnackOK, SignalOK, NoStaleSignal
<1> QED BY <1>1, BlockHolds, PTL

\* If sl_ExtLib_MqttClientSend returns success for a message of quality 2, and
\* blocks, the broker has handed the message on.
THEOREM SuccessIsReleased == Spec => []SuccessMeansReleased
<1>1. BlockInv => SuccessMeansReleased
  BY DEF BlockInv, ReleasedOK, SuccessMeansReleased
<1> QED BY <1>1, BlockHolds, PTL
=============================================================================
