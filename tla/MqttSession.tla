------------------------------ MODULE MqttSession ------------------------------
(***************************************************************************)
(* One connection of the MQTT client library (sl_mqtt_client.c,            *)
(* mqtt_client.c), used as ConnectWiFI uses it: connect, subscribe,        *)
(* publish for ever; after a failure disconnect, delete the context, exit. *)
(*                                                                         *)
(* The application (priority 2) and the receive task (priority 3) share    *)
(* the context.  Sending and handling a received packet hold the mutex of  *)
(* the library; the keep-alive pass over used_ctxs, which may ping or      *)
(* close, does not.  A task may be kept waiting inside the driver (a send, *)
(* a close), and the other one runs meanwhile.                             *)
(*                                                                         *)
(* The session is clean.  Packets are sent and received whole; a packet of *)
(* the application is named by the number of the call that allocated it.   *)
(***************************************************************************)
EXTENDS Integers, Sequences, FiniteSets

CONSTANTS
    MaxCalls,       \* bound: the number of calls after Connect
    MAX_MQP,        \* buffers of the library, 2 in the code
    Modes,          \* the values of blocking_send checked, {TRUE} in the code
    Faults,         \* what the environment may do
    None

AllFaults == {"unreachable",  \* the broker does not accept the connection
              "refused",      \* the broker refuses CONNECT
              "send",         \* the driver reports an error while sending
              "reset",        \* the connection breaks
              "silence",      \* the broker stops answering
              "stray"}        \* the broker sends a packet nobody waits for

ASSUME MqttSessionAssumption ==
    /\ MaxCalls \in Nat \ {0} /\ MAX_MQP \in Nat \ {0}
    /\ Modes \subseteq BOOLEAN /\ Faults \subseteq AllFaults
    /\ None \notin {"CONNACK", "SUBACK", "PUBCOMP", "DISCONNECT", "app", "rx"}

VARIABLES
    blocking_send, \* a call waits for its acknowledgement
    pc,            \* where the application is
    call,          \* the packet it sends: CONNECT, SUBSCRIBE, QOS0, QOS2
    id,            \* the number of the call
    ret,           \* what the library routine it called returned
    awaited_ack,   \* sl_client_ctx: the acknowledgement waited for
    ack_sync_obj,  \* sl_client_ctx: the binary semaphore is signalled
    conn_ack,      \* sl_client_ctx: the return code of CONNACK
    net,           \* client_ctx: the socket is open
    flags,         \* client_ctx: the state of the connection
    used_ctxs,     \* the context is in used_ctxs
    conn_ctxs,     \* the context is in conn_ctxs
    free_ctxs,     \* the context has been deleted
    tx_part,       \* the packet being sent, if any
    qos_ack1_wl,   \* packets waiting for SUBACK or PUBREC
    qos2_tx_cq,    \* identifiers waiting for PUBCOMP
    n_refs,        \* references to the packet of each call
    mutex,         \* who holds the mutex of the library
    rx,            \* where the receive task is
    wire,          \* the TCP connection works
    silent,        \* the broker has stopped answering
    toBroker, toClient,  \* packets in flight
    released,      \* history: QoS 2 messages the broker handed on
    succeeded      \* history: QoS 2 messages whose call returned success

appVars == <<pc, call, id, ret>>
ackVars == <<awaited_ack, ack_sync_obj, conn_ack>>
listVars == <<used_ctxs, conn_ctxs, free_ctxs>>
packetVars == <<tx_part, qos_ack1_wl, qos2_tx_cq, n_refs>>
wireVars == <<wire, silent, toBroker, toClient, released>>
history == <<succeeded, blocking_send>>
vars == <<appVars, ackVars, net, flags, listVars, packetVars, mutex, rx, wireVars,
          history>>

-----------------------------------------------------------------------------
MAX_PUBREL_INFLT == 8
Inline == MaxCalls + 1   \* a packet of a few bytes, kept in tx_part itself

Flags == {"CONNACK_AWAIT", "NOW_CONNECTED", "KA_PINGER_RSP", "NETWORK_CLOSE"}

IsConnected == "NOW_CONNECTED" \in flags /\ "NETWORK_CLOSE" \notin flags

\* The buffer of the receive task while it receives and handles a packet.
RxHolds == IF rx = "recv" \/ (rx = "closing" /\ mutex = "rx") THEN 1 ELSE 0
FreePackets == MAX_MQP - RxHolds - Cardinality({i \in 0..MaxCalls : n_refs[i] > 0})

\* A packet goes out; nobody sees what is sent on a broken connection.
Put(p) == toBroker' = IF wire /\ net = "open" THEN Append(toBroker, p) ELSE toBroker
SendMayFail == "send" \in Faults \/ ~wire \/ net = "closed"

Awaits == [SUBSCRIBE |-> "SUBACK", QOS2 |-> "PUBCOMP"]
Acknowledged == call \in DOMAIN Awaits

Init ==
    /\ blocking_send \in Modes
    /\ pc = "start" /\ call = "CONNECT" /\ id = 0 /\ ret = "none"
    /\ awaited_ack = None /\ ack_sync_obj = FALSE /\ conn_ack = 0
    /\ net = "closed" /\ flags = {}
    /\ used_ctxs = FALSE /\ conn_ctxs = FALSE /\ free_ctxs = FALSE
    /\ tx_part = None /\ qos_ack1_wl = <<>> /\ qos2_tx_cq = <<>>
    /\ n_refs = [i \in 0..MaxCalls |-> 0]
    /\ mutex = None /\ rx = "select"
    /\ wire = FALSE /\ silent = FALSE /\ toBroker = <<>> /\ toClient = <<>>
    /\ released = {} /\ succeeded = {}

-----------------------------------------------------------------------------
(* sl_ExtLib_MqttClientConnect.                                            *)

ConnectCall ==
    /\ pc = "start"
    /\ awaited_ack' = "CONNACK" /\ conn_ack' = 0
    /\ n_refs' = [n_refs EXCEPT ![id] = 1]
    /\ pc' = "open"
    /\ UNCHANGED <<call, id, ret, ack_sync_obj, net, flags, listVars, tx_part,
                   qos_ack1_wl, qos2_tx_cq, mutex, rx, wireVars, history>>

NetConnect ==
    /\ pc = "open" /\ mutex = None
    /\ \/ /\ net' = "open" /\ wire' = TRUE
          /\ tx_part' = id /\ mutex' = "app" /\ pc' = "send connect"
          /\ UNCHANGED ret
       \/ /\ "unreachable" \in Faults
          /\ ret' = "error" /\ pc' = "connected"
          /\ UNCHANGED <<net, wire, tx_part, mutex>>
    /\ UNCHANGED <<call, id, ackVars, flags, listVars, qos_ack1_wl, qos2_tx_cq,
                   n_refs, rx, silent, toBroker, toClient, released, history>>

ConnectSent ==
    /\ pc = "send connect"
    /\ \/ /\ Put(<<"CONNECT", id>>)
          /\ n_refs' = [n_refs EXCEPT ![id] = @ - 1] /\ tx_part' = None
          /\ flags' = flags \cup {"CONNACK_AWAIT"} /\ conn_ctxs' = TRUE
          /\ pc' = "await connack" /\ UNCHANGED ret
       \/ /\ SendMayFail
          /\ flags' = flags \cup {"NETWORK_CLOSE"}
          /\ ret' = "error" /\ pc' = "connected"
          /\ UNCHANGED <<toBroker, n_refs, tx_part, conn_ctxs>>
    /\ mutex' = None
    /\ UNCHANGED <<call, id, ackVars, net, used_ctxs, free_ctxs, qos_ack1_wl,
                   qos2_tx_cq, rx, wire, silent, toClient, released, history>>

ConnackAwaited ==
    /\ pc = "await connack" /\ ack_sync_obj
    /\ ack_sync_obj' = FALSE
    /\ ret' = IF awaited_ack = "DISCONNECT" \/ conn_ack # 0 THEN "error" ELSE "ok"
    /\ pc' = "connected"
    /\ UNCHANGED <<call, id, awaited_ack, conn_ack, net, flags, listVars, packetVars,
                   mutex, rx, wireVars, history>>

Connected ==
    /\ pc = "connected"
    /\ awaited_ack' = None /\ conn_ack' = 0
    /\ pc' = IF ret = "ok" THEN "subscribe" ELSE "delete"
    /\ UNCHANGED <<call, id, ret, ack_sync_obj, net, flags, listVars, packetVars,
                   mutex, rx, wireVars, history>>

-----------------------------------------------------------------------------
(* sl_ExtLib_MqttClientSub and sl_ExtLib_MqttClientSend.                   *)

Begin(kind) ==
    /\ call' = kind /\ id' = id + 1
    /\ IF IsConnected THEN pc' = "await set" /\ UNCHANGED ret
                      ELSE pc' = "done" /\ ret' = "error"
    /\ UNCHANGED <<ackVars, net, flags, listVars, packetVars, mutex, rx, wireVars,
                   history>>

Sub == pc = "subscribe" /\ Begin("SUBSCRIBE")

Send == /\ pc = "ready" /\ id < MaxCalls
        /\ \E kind \in {"QOS0", "QOS2"} : Begin(kind)

SetAwaited ==
    /\ pc = "await set"
    /\ awaited_ack' = IF call = "QOS2" \/ (call = "SUBSCRIBE" /\ blocking_send)
                      THEN Awaits[call] ELSE awaited_ack
    /\ pc' = "dispatch"
    /\ UNCHANGED <<call, id, ret, ack_sync_obj, conn_ack, net, flags, listVars,
                   packetVars, mutex, rx, wireVars, history>>

\* A packet cl_ctx_seg1_send rejects keeps a reference nobody gives up; and
\* a QoS 0 message it rejects is reported as sent.
Dispatch ==
    /\ pc = "dispatch" /\ mutex = None
    /\ IF FreePackets = 0
       THEN pc' = "done" /\ ret' = "error" /\ UNCHANGED <<n_refs, tx_part, mutex>>
       ELSE IF IsConnected /\ tx_part = None
       THEN /\ n_refs' = [n_refs EXCEPT ![id] = IF Acknowledged THEN 2 ELSE 1]
            /\ tx_part' = id /\ mutex' = "app" /\ pc' = "send"
            /\ UNCHANGED ret
       ELSE /\ n_refs' = [n_refs EXCEPT ![id] = 1]
            /\ ret' = IF Acknowledged THEN "error" ELSE "ok"
            /\ pc' = "done" /\ UNCHANGED <<tx_part, mutex>>
    /\ UNCHANGED <<call, id, ackVars, net, flags, listVars, qos_ack1_wl, qos2_tx_cq,
                   rx, wireVars, history>>

\* Faulty variant: the mutex is held for the transmission only.
SentUnlocked ==
    /\ pc = "send"
    /\ Put(<<call, id>>)
    /\ pc' = IF "NOW_CONNECTED" \in flags THEN "sort" ELSE "enlist"
    /\ mutex' = None
    /\ UNCHANGED <<call, id, ret, ackVars, net, flags, listVars, packetVars,
                   rx, wire, silent, toClient, released, history>>

\* The driver has taken the packet.  The context may be closed by now, and it
\* may be closed between the test for a connection and the sorting.
Sent ==
    /\ pc = "send"
    /\ Put(<<call, id>>)
    /\ pc' = IF "NOW_CONNECTED" \in flags THEN "sort" ELSE "enlist"
    /\ UNCHANGED <<call, id, ret, ackVars, net, flags, listVars, packetVars, mutex,
                   rx, wire, silent, toClient, released, history>>

Sort ==
    /\ pc = "sort"
    /\ used_ctxs' = TRUE /\ pc' = "enlist"
    /\ UNCHANGED <<call, id, ret, ackVars, net, flags, conn_ctxs, free_ctxs, packetVars,
                   mutex, rx, wireVars, history>>

Enlist ==
    /\ pc = "enlist"
    /\ tx_part' = None
    /\ n_refs' = [n_refs EXCEPT ![id] = IF tx_part = id THEN @ - 1 ELSE @]
    /\ qos_ack1_wl' = IF Acknowledged THEN Append(qos_ack1_wl, id) ELSE qos_ack1_wl
    /\ mutex' = None
    /\ ret' = "ok"
    /\ pc' = IF Acknowledged /\ blocking_send THEN "await ack" ELSE "done"
    /\ UNCHANGED <<call, id, ackVars, net, flags, listVars, qos2_tx_cq, rx, wireVars,
                   history>>

NotSent ==
    /\ pc = "send" /\ SendMayFail
    /\ flags' = flags \cup {"NETWORK_CLOSE"}
    /\ n_refs' = [n_refs EXCEPT ![id] = IF Acknowledged THEN @ - 1 ELSE @]
    /\ ret' = IF Acknowledged THEN "error" ELSE "ok"
    /\ mutex' = None /\ pc' = "done"
    /\ UNCHANGED <<call, id, ackVars, net, listVars, tx_part, qos_ack1_wl, qos2_tx_cq,
                   rx, wireVars, history>>

AckAwaited ==
    /\ pc = "await ack" /\ ack_sync_obj
    /\ ack_sync_obj' = FALSE
    /\ ret' = IF awaited_ack = "DISCONNECT" THEN "error" ELSE "ok"
    /\ pc' = "done"
    /\ UNCHANGED <<call, id, awaited_ack, conn_ack, net, flags, listVars, packetVars,
                   mutex, rx, wireVars, history>>

\* The results of Send are not looked at by ConnectWiFI.
Done ==
    /\ pc = "done"
    /\ awaited_ack' = None
    /\ pc' = IF call = "SUBSCRIBE" /\ ret = "error" THEN "disconnect" ELSE "ready"
    /\ succeeded' = IF call = "QOS2" /\ ret = "ok" THEN succeeded \cup {id} ELSE succeeded
    /\ UNCHANGED <<call, id, ret, ack_sync_obj, conn_ack, net, flags, listVars,
                   packetVars, mutex, rx, wireVars, blocking_send>>

-----------------------------------------------------------------------------
(* sl_ExtLib_MqttClientDisconnect, ...CtxDelete and ...Exit.               *)

Disconnect ==
    /\ pc = "disconnect"
    /\ pc' = IF IsConnected THEN "disconnect set" ELSE "delete"
    /\ UNCHANGED <<call, id, ret, ackVars, net, flags, listVars, packetVars, mutex, rx,
                   wireVars, history>>

DisconnectSet ==
    /\ pc = "disconnect set"
    /\ awaited_ack' = "DISCONNECT" /\ pc' = "disconnect send"
    /\ UNCHANGED <<call, id, ret, ack_sync_obj, conn_ack, net, flags, listVars, packetVars,
                   mutex, rx, wireVars, history>>

\* mqtt_disconn_send returns 0 in every case: the caller always waits.
DisconnectSend ==
    /\ pc = "disconnect send" /\ mutex = None
    /\ IF IsConnected /\ tx_part = None
       THEN mutex' = "app" /\ tx_part' = Inline /\ pc' = "disconnect sent"
       ELSE pc' = "await close" /\ UNCHANGED <<mutex, tx_part>>
    /\ UNCHANGED <<call, id, ret, ackVars, net, flags, listVars, qos_ack1_wl, qos2_tx_cq,
                   n_refs, rx, wireVars, history>>

DisconnectSent ==
    /\ pc = "disconnect sent"
    /\ \/ Put(<<"DISCONNECT", id>>) /\ tx_part' = None
       \/ SendMayFail /\ UNCHANGED <<toBroker, tx_part>>
    /\ flags' = flags \cup {"NETWORK_CLOSE"}
    /\ mutex' = None /\ pc' = "await close"
    /\ UNCHANGED <<call, id, ret, ackVars, net, listVars, qos_ack1_wl, qos2_tx_cq, n_refs,
                   rx, wire, silent, toClient, released, history>>

CloseAwaited ==
    /\ pc = "await close" /\ ack_sync_obj
    /\ ack_sync_obj' = FALSE /\ awaited_ack' = None /\ pc' = "delete"
    /\ UNCHANGED <<call, id, ret, conn_ack, net, flags, listVars, packetVars, mutex, rx,
                   wireVars, history>>

\* The context goes back to the list of free ones, unless it is in use.
Delete ==
    /\ pc = "delete" /\ mutex = None
    /\ IF net = "closed" /\ qos_ack1_wl = <<>> /\ qos2_tx_cq = <<>>
       THEN /\ free_ctxs' = TRUE /\ flags' = {} /\ tx_part' = None
            /\ n_refs' = IF tx_part \in DOMAIN n_refs
                         THEN [n_refs EXCEPT ![tx_part] = @ - 1] ELSE n_refs
       ELSE UNCHANGED <<free_ctxs, flags, tx_part, n_refs>>
    /\ pc' = "exit"
    /\ UNCHANGED <<call, id, ret, ackVars, net, used_ctxs, conn_ctxs, qos_ack1_wl,
                   qos2_tx_cq, mutex, rx, wireVars, history>>

\* The library ends, and with it the receive task, when every context is free.
Exit ==
    /\ pc = "exit"
    /\ pc' = "stopped" /\ rx' = IF free_ctxs THEN "deleted" ELSE rx
    /\ UNCHANGED <<call, id, ret, ackVars, net, flags, listVars, packetVars, mutex,
                   wireVars, history>>

App == \/ ConnectCall \/ NetConnect \/ ConnectSent \/ ConnackAwaited \/ Connected
       \/ Sub \/ SetAwaited \/ Dispatch \/ Sent \/ Sort \/ Enlist \/ NotSent
       \/ AckAwaited \/ Done
       \/ Disconnect \/ DisconnectSet \/ DisconnectSend \/ DisconnectSent
       \/ CloseAwaited \/ Delete \/ Exit

-----------------------------------------------------------------------------
(* The receive task: closing.                                              *)

\* do_net_close, up to the call of the driver: the session is dropped, and
\* the packet half sent with it.
NetClose ==
    /\ n_refs' = [i \in DOMAIN n_refs |->
                    n_refs[i] - (IF \E j \in DOMAIN qos_ack1_wl : qos_ack1_wl[j] = i THEN 1 ELSE 0)
                              - (IF tx_part = i THEN 1 ELSE 0)]
    /\ tx_part' = None /\ qos_ack1_wl' = <<>> /\ qos2_tx_cq' = <<>>
    /\ flags' = {} /\ net' = "closed"
    /\ wire' = FALSE /\ toBroker' = <<>> /\ toClient' = <<>>
    /\ rx' = "closing"
    /\ UNCHANGED <<appVars, listVars, silent, released, history>>

\* Faulty variant: the caller is woken, but not told why.
ClosedUnmarked ==
    /\ rx = "closing"
    /\ used_ctxs' = FALSE
    /\ ack_sync_obj' = (ack_sync_obj \/ awaited_ack # None) /\ awaited_ack' = None
    /\ mutex' = IF mutex = "rx" THEN None ELSE mutex
    /\ rx' = "prep"
    /\ UNCHANGED <<appVars, conn_ack, net, flags, conn_ctxs, free_ctxs, packetVars,
                   wireVars, history>>

\* Faulty variant: the caller is not woken.
ClosedSilently ==
    /\ rx = "closing"
    /\ used_ctxs' = FALSE
    /\ awaited_ack' = IF awaited_ack # None THEN "DISCONNECT" ELSE None
    /\ mutex' = IF mutex = "rx" THEN None ELSE mutex
    /\ rx' = "prep"
    /\ UNCHANGED <<appVars, ack_sync_obj, conn_ack, net, flags, conn_ctxs, free_ctxs,
                   packetVars, wireVars, history>>

\* process_disconn_cb and the removal from used_ctxs; a context deleted
\* meanwhile has no callback left and belongs to no group.
Closed ==
    /\ rx = "closing"
    /\ IF free_ctxs
       THEN UNCHANGED <<awaited_ack, ack_sync_obj, used_ctxs>>
       ELSE /\ used_ctxs' = FALSE
            /\ IF awaited_ack # None
               THEN awaited_ack' = "DISCONNECT" /\ ack_sync_obj' = TRUE
               ELSE UNCHANGED <<awaited_ack, ack_sync_obj>>
    /\ mutex' = IF mutex = "rx" THEN None ELSE mutex
    /\ rx' = "prep"
    /\ UNCHANGED <<appVars, conn_ack, net, flags, conn_ctxs, free_ctxs, packetVars,
                   wireVars, history>>

-----------------------------------------------------------------------------
(* The receive task: group_ctxs_rx_prep, without the mutex.                *)

Visits == rx = "prep" /\ used_ctxs /\ net = "open"

\* conn2used_ctxs, then io_mon.
Monitor ==
    /\ used_ctxs' = (used_ctxs \/ conn_ctxs) /\ conn_ctxs' = FALSE
    /\ rx' = "select"

NothingDue ==
    /\ rx = "prep" /\ (Visits => "NETWORK_CLOSE" \notin flags)
    /\ Monitor
    /\ UNCHANGED <<appVars, ackVars, net, flags, free_ctxs, packetVars, mutex, wireVars,
                   history>>

CloseAsked ==
    /\ Visits /\ "NETWORK_CLOSE" \in flags
    /\ NetClose /\ UNCHANGED <<ackVars, mutex>>

\* The keep-alive time is over.  A ping that finds a packet being sent is
\* refused by cl_ctx_seg1_send, which closes the connection as well.
Ping ==
    /\ Visits /\ IsConnected /\ "KA_PINGER_RSP" \notin flags /\ tx_part = None
    /\ tx_part' = Inline /\ rx' = "ping"
    /\ UNCHANGED <<appVars, ackVars, net, flags, listVars, qos_ack1_wl, qos2_tx_cq, n_refs,
                   mutex, wireVars, history>>

TimedOut ==
    /\ Visits /\ "NETWORK_CLOSE" \notin flags
    /\ ~IsConnected \/ "KA_PINGER_RSP" \in flags \/ tx_part # None
    /\ NetClose /\ UNCHANGED <<ackVars, mutex>>

Pinged ==
    /\ rx = "ping"
    /\ Put(<<"PINGREQ", 0>>)
    /\ tx_part' = None /\ flags' = flags \cup {"KA_PINGER_RSP"}
    /\ used_ctxs' = TRUE /\ rx' = "prep"
    /\ UNCHANGED <<appVars, ackVars, net, conn_ctxs, free_ctxs, qos_ack1_wl, qos2_tx_cq,
                   n_refs, mutex, wire, silent, toClient, released, history>>

PingFails ==
    /\ rx = "ping" /\ SendMayFail
    /\ NetClose /\ UNCHANGED <<ackVars, mutex>>

-----------------------------------------------------------------------------
(* The receive task: one packet, handled with the mutex held.              *)

Readable == used_ctxs /\ net = "open" /\ (toClient # <<>> \/ ~wire)

Select ==
    /\ rx = "select" /\ (Readable => mutex = None)
    /\ rx' = IF Readable /\ FreePackets > 0 THEN "recv" ELSE "prep"
    /\ UNCHANGED <<appVars, ackVars, net, flags, listVars, packetVars, mutex, wireVars,
                   history>>

Packet == Head(toClient)
Arrived(type) == rx = "recv" /\ mutex = None /\ toClient # <<>> /\ Packet[1] = type
Handled == rx' = "prep" /\ toClient' = Tail(toClient)

\* process_notify_ack_cb: only the type is compared.
Notify(type) ==
    /\ IF blocking_send /\ awaited_ack = type
       THEN awaited_ack' = None /\ ack_sync_obj' = TRUE
       ELSE UNCHANGED <<awaited_ack, ack_sync_obj>>
    /\ UNCHANGED conn_ack

Connack(rc) ==
    /\ conn_ack' = rc /\ awaited_ack' = None /\ ack_sync_obj' = TRUE

Waiting(i) == \E k \in DOMAIN qos_ack1_wl : qos_ack1_wl[k] = i
Place(i) == CHOOSE k \in DOMAIN qos_ack1_wl : qos_ack1_wl[k] = i
Removed(i) == SubSeq(qos_ack1_wl, 1, Place(i) - 1)
              \o SubSeq(qos_ack1_wl, Place(i) + 1, Len(qos_ack1_wl))

\* What process_recv accepts.  A PUBREC with nothing waiting has no defined
\* effect: no broker here sends one.
Expected ==
    IF "CONNACK_AWAIT" \in flags THEN Packet[1] = "CONNACK"
    ELSE CASE Packet[1] = "SUBACK"  -> Waiting(Packet[2])
           [] Packet[1] = "PUBREC"  -> /\ Head(qos_ack1_wl) = Packet[2]
                                    /\ Len(qos2_tx_cq) < MAX_PUBREL_INFLT
           [] Packet[1] = "PUBCOMP" -> qos2_tx_cq # <<>> /\ Head(qos2_tx_cq) = Packet[2]
           [] Packet[1] = "PINGRSP" -> "KA_PINGER_RSP" \in flags
           [] OTHER -> FALSE

RecvConnack ==
    /\ Arrived("CONNACK") /\ Expected /\ Packet[2] = 0
    /\ flags' = (flags \ {"CONNACK_AWAIT"}) \cup {"NOW_CONNECTED"}
    /\ Connack(0) /\ Handled
    /\ UNCHANGED <<appVars, net, listVars, packetVars, mutex, wire, silent, toBroker,
                   released, history>>

RecvRefusal ==
    /\ Arrived("CONNACK") /\ Expected /\ Packet[2] # 0
    /\ Connack(Packet[2]) /\ mutex' = "rx"
    /\ NetClose

RecvSuback ==
    /\ Arrived("SUBACK") /\ Expected
    /\ qos_ack1_wl' = Removed(Packet[2])
    /\ n_refs' = [n_refs EXCEPT ![Packet[2]] = @ - 1]
    /\ Notify("SUBACK") /\ Handled
    /\ UNCHANGED <<appVars, net, flags, listVars, tx_part, qos2_tx_cq, mutex, wire, silent,
                   toBroker, released, history>>

\* The PUBREL is sent if a send is possible; an error asks for a close.
PubRec(i) ==
    /\ qos2_tx_cq' = Append(qos2_tx_cq, i)
    /\ qos_ack1_wl' = Tail(qos_ack1_wl)
    /\ n_refs' = [n_refs EXCEPT ![i] = @ - 1]
    /\ IF IsConnected /\ tx_part = None
       THEN \/ Put(<<"PUBREL", i>>) /\ UNCHANGED <<flags, tx_part>>
            \/ /\ SendMayFail
               /\ flags' = flags \cup {"NETWORK_CLOSE"} /\ tx_part' = Inline
               /\ UNCHANGED toBroker
       ELSE UNCHANGED <<flags, tx_part, toBroker>>

\* Faulty variant: PUBREC is reported like the other acknowledgements.
RecvPubrecNotifies ==
    /\ Arrived("PUBREC") /\ Expected
    /\ PubRec(Packet[2]) /\ Handled
    /\ ack_sync_obj' = TRUE
    /\ UNCHANGED <<appVars, awaited_ack, conn_ack, net, listVars, mutex, wire, silent,
                   released, history>>

RecvPubrec ==
    /\ Arrived("PUBREC") /\ Expected
    /\ PubRec(Packet[2]) /\ Handled
    /\ UNCHANGED <<appVars, ackVars, net, listVars, mutex, wire, silent, released,
                   history>>

RecvPubcomp ==
    /\ Arrived("PUBCOMP") /\ Expected
    /\ qos2_tx_cq' = Tail(qos2_tx_cq)
    /\ Notify("PUBCOMP") /\ Handled
    /\ UNCHANGED <<appVars, net, flags, listVars, tx_part, qos_ack1_wl, n_refs, mutex,
                   wire, silent, toBroker, released, history>>

RecvPingrsp ==
    /\ Arrived("PINGRSP") /\ Expected
    /\ flags' = flags \ {"KA_PINGER_RSP"} /\ Handled
    /\ UNCHANGED <<appVars, ackVars, net, listVars, packetVars, mutex, wire, silent,
                   toBroker, released, history>>

\* The connection is broken, or the packet is rejected.
RecvError ==
    /\ rx = "recv" /\ mutex = None
    /\ toClient # <<>> => ~Expected
    /\ mutex' = "rx" /\ NetClose /\ UNCHANGED ackVars

Receive == \/ RecvConnack \/ RecvRefusal \/ RecvSuback \/ RecvPubrec \/ RecvPubcomp
           \/ RecvPingrsp \/ RecvError

Rx == NothingDue \/ CloseAsked \/ Pinged \/ PingFails \/ Closed \/ Select

-----------------------------------------------------------------------------
(* The broker and the network.                                             *)

Answer(p) ==
    CASE p[1] = "CONNECT"   -> {<<"CONNACK", rc>> : rc \in IF "refused" \in Faults THEN {0, 5} ELSE {0}}
      [] p[1] = "SUBSCRIBE" -> {<<"SUBACK", p[2]>>}
      [] p[1] = "QOS2"      -> {<<"PUBREC", p[2]>>}
      [] p[1] = "PUBREL"    -> {<<"PUBCOMP", p[2]>>}
      [] p[1] = "PINGREQ"   -> {<<"PINGRSP", 0>>}
      [] OTHER              -> {}

Broker ==
    /\ wire /\ ~silent /\ toBroker # <<>>
    /\ toBroker' = Tail(toBroker)
    /\ LET p == Head(toBroker)
       IN  /\ IF Answer(p) = {} THEN UNCHANGED toClient
              ELSE \E a \in Answer(p) : toClient' = Append(toClient, a)
           /\ wire' = (p[1] # "DISCONNECT")
           /\ released' = IF p[1] = "PUBREL" THEN released \cup {p[2]} ELSE released
    /\ UNCHANGED <<appVars, ackVars, net, flags, listVars, packetVars, mutex, rx, silent,
                   history>>

Reset ==
    /\ "reset" \in Faults /\ wire
    /\ wire' = FALSE /\ toBroker' = <<>>
    /\ toClient' \in {toClient, <<>>}
    /\ UNCHANGED <<appVars, ackVars, net, flags, listVars, packetVars, mutex, rx, silent,
                   released, history>>

Silence ==
    /\ "silence" \in Faults /\ ~silent
    /\ silent' = TRUE
    /\ UNCHANGED <<appVars, ackVars, net, flags, listVars, packetVars, mutex, rx, wire,
                   toBroker, toClient, released, history>>

\* A packet with an identifier of no call, or a CONNACK too many.
Stray ==
    /\ "stray" \in Faults /\ wire /\ ~silent
    /\ \E type \in {"CONNACK", "SUBACK", "PUBCOMP", "PINGRSP"} :
         toClient' = <<<<type, MaxCalls + 1>>>>
    /\ toClient = <<>> /\ toBroker = <<>>   \* bound: one at a time
    /\ UNCHANGED <<appVars, ackVars, net, flags, listVars, packetVars, mutex, rx, wire,
                   silent, toBroker, released, history>>

Next == App \/ Send \/ Rx \/ Ping \/ TimedOut \/ Receive \/ Broker \/ Reset \/ Silence \/ Stray

Spec == Init /\ [][Next]_vars

\* Both tasks run, the mutex is granted in the order it was asked for, time
\* passes, and a broker that is not silent answers.  The application need not
\* send anything more.
FairSpec == /\ Spec
            /\ SF_vars(App) /\ SF_vars(Rx) /\ SF_vars(Receive)
            /\ SF_vars(Ping) /\ SF_vars(TimedOut) /\ WF_vars(Broker)

-----------------------------------------------------------------------------
(* What must hold.                                                         *)

Locations == {"start", "open", "send connect", "await connack", "connected", "subscribe",
              "await set", "dispatch", "send", "sort", "enlist", "await ack", "done",
              "ready", "disconnect", "disconnect set", "disconnect send",
              "disconnect sent", "await close", "delete", "exit", "stopped"}
Ids == 0..MaxCalls

\* The type of every variable; no more than MAX_MQP buffers are in use.
TypeOK ==
    /\ blocking_send \in BOOLEAN
    /\ pc \in Locations /\ call \in {"CONNECT", "SUBSCRIBE", "QOS0", "QOS2"}
    /\ id \in Ids /\ ret \in {"none", "ok", "error"}
    /\ awaited_ack \in {None, "CONNACK", "SUBACK", "PUBCOMP", "DISCONNECT"}
    /\ ack_sync_obj \in BOOLEAN /\ conn_ack \in Nat
    /\ net \in {"open", "closed"} /\ flags \subseteq Flags
    /\ used_ctxs \in BOOLEAN /\ conn_ctxs \in BOOLEAN /\ free_ctxs \in BOOLEAN
    /\ \A i \in DOMAIN qos_ack1_wl : qos_ack1_wl[i] \in Ids
    /\ \A i \in DOMAIN qos2_tx_cq : qos2_tx_cq[i] \in Ids
    /\ tx_part # None => tx_part \in Ids \cup {Inline}
    /\ n_refs \in [Ids -> 0..2] /\ FreePackets \in 0..MAX_MQP
    /\ mutex \in {None, "app", "rx"}
    /\ rx \in {"select", "prep", "recv", "ping", "closing", "deleted"}
    /\ wire \in BOOLEAN /\ silent \in BOOLEAN
    /\ released \subseteq Ids /\ succeeded \subseteq Ids

\* A blocking QoS 2 Send that reports success has carried its own handshake to
\* the end: the broker has let the message go.  A signal of another call, of
\* a closed connection or of a half-done handshake never stands for it.
SuccessMeansReleased == blocking_send => succeeded \subseteq released

\* Whoever waits on the semaphore is woken by the acknowledgement of his own
\* call or by the end of the connection: no signal is left over.
NoStaleSignal ==
    pc \in {"await connack", "await ack"} /\ ack_sync_obj => awaited_ack \in {None, "DISCONNECT"}

\* A PUBREC finds its packet at the head of the waiting list, which
\* _proc_pub_rec_rx reads without a test: the packet is enlisted before the
\* mutex is given back, and acknowledgements arrive in the order of sending.
PubrecFindsPacket ==
    Arrived("PUBREC") => qos_ack1_wl # <<>> /\ Head(qos_ack1_wl) = Packet[2]

\* A blocked Connect, Sub or Send returns, whatever becomes of the broker or
\* of the connection: the keep-alive time wakes it in the end.
CallsReturn == /\ (pc = "await connack") ~> (pc = "connected")
               /\ (pc = "await ack") ~> (pc = "done")

\* "Frees-up MQP, in case, MSG has QoS0 or if client-lib allocated MQP
\* encounters an error in dispatch": a packet with references is being sent,
\* or waits for its acknowledgement.
NoPacketLost ==
    \A i \in Ids : n_refs[i] > 0 =>
        \/ tx_part = i \/ Waiting(i)
        \/ i = id /\ pc \in {"open", "send", "sort", "enlist"}
=============================================================================
