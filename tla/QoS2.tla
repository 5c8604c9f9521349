-------------------------------- MODULE QoS2 ---------------------------------
(***************************************************************************)
(* Messages of quality 2 (mqtt/client/mqtt_client.c over the stores of      *)
(* identifiers of mqtt/common/mqtt_common.c): both directions, while the    *)
(* connection comes and goes.  A session is clean or survives its           *)
(* connections.  The broker is external and does what MQTT 3.1.1 asks.      *)
(***************************************************************************)
EXTENDS Integers, Sequences

CONSTANTS
    MAX_PUBREL_INFLT,   \* places of a store: 8 in the code, a power of two
    MaxMessages,        \* bound on the messages of each side
    MaxBreaks,          \* bound on the connections that are lost
    CleanSession        \* the sessions to consider, a subset of BOOLEAN

ASSUME QoS2Assumption ==
    /\ MAX_PUBREL_INFLT \in {2, 4, 8} /\ CleanSession \subseteq BOOLEAN
    /\ MaxMessages \in Nat /\ MaxBreaks \in Nat

VARIABLES
    is_cln_session, now_connected,
    qos_ack1_wl,            \* what the client published, until its PUBREC
    qos2_tx_cq,             \* then, until its PUBCOMP
    qos2_rx_cq,             \* what the broker published, until its PUBREL
    published,              \* the last identifier the client assigned
    up, down,               \* packets on their way: <<type, identifier>>
    brokerNext, brokerHeld, \* broker: its last identifier; what it will not pass on again
    brokerPub, brokerRel,   \* broker: awaiting PUBREC; awaiting PUBCOMP
    passedOn, presented,    \* history: how often the broker passed on a message,
                            \* how often the application got one
    breaks

stores == <<qos_ack1_wl, qos2_tx_cq, qos2_rx_cq>>
brokerVars == <<brokerNext, brokerHeld, brokerPub, brokerRel>>
qosVars == <<is_cln_session, now_connected, stores, published, up, down, brokerVars,
             passedOn, presented, breaks>>

QosIds == 1..MaxMessages

-----------------------------------------------------------------------------
(* A store: qos2_pub_cq_reset, logup, unlog, check and count.              *)

Reset == [id_vec |-> [i \in 0..MAX_PUBREL_INFLT - 1 |-> 0],
          n_free |-> MAX_PUBREL_INFLT, rd_idx |-> 0, wr_idx |-> 0]

CqCount(cq) == MAX_PUBREL_INFLT - cq.n_free
Masked(i) == i % MAX_PUBREL_INFLT

\* Beyond the vector there is nothing an identifier is equal to.
IdAt(cq, i) == IF i \in DOMAIN cq.id_vec THEN cq.id_vec[i] ELSE 0

LogUp(cq, id) == [cq EXCEPT !.id_vec[cq.wr_idx] = id, !.wr_idx = Masked(@ + 1), !.n_free = @ - 1]

\* The index moves before the comparison, and comes round only on a match.
Heads(cq, id) == CqCount(cq) > 0 /\ IdAt(cq, cq.rd_idx) = id

\* Faulty variant: the index does not come round.
UnlogUnmasked(cq, id) ==
    IF Heads(cq, id) THEN [cq EXCEPT !.rd_idx = @ + 1, !.n_free = @ + 1]
    ELSE IF CqCount(cq) > 0 THEN [cq EXCEPT !.rd_idx = @ + 1]
    ELSE cq

Unlog(cq, id) ==
    IF Heads(cq, id) THEN [cq EXCEPT !.rd_idx = Masked(@ + 1), !.n_free = @ + 1]
    ELSE IF CqCount(cq) > 0 THEN [cq EXCEPT !.rd_idx = @ + 1]
    ELSE cq

\* The first comparison uses the index as it is.
Active(cq) == [k \in 1..CqCount(cq) |->
                  IdAt(cq, IF k = 1 THEN cq.rd_idx ELSE Masked(cq.rd_idx + k - 1))]
CqCheck(cq, id) == \E k \in DOMAIN Active(cq) : Active(cq)[k] = id

-----------------------------------------------------------------------------
QosInit ==
    /\ is_cln_session \in CleanSession /\ now_connected = TRUE
    /\ qos_ack1_wl = <<>> /\ qos2_tx_cq = Reset /\ qos2_rx_cq = Reset
    /\ published = 0 /\ up = <<>> /\ down = <<>>
    /\ brokerNext = 0 /\ brokerHeld = {} /\ brokerPub = <<>> /\ brokerRel = <<>>
    /\ passedOn = [i \in QosIds |-> 0] /\ presented = [i \in QosIds |-> 0]
    /\ breaks = 0

\* Faulty variant: what was received in the old session is remembered.
SessionDeleteTx == qos_ack1_wl' = <<>> /\ qos2_tx_cq' = Reset /\ UNCHANGED qos2_rx_cq

\* session_delete
SessionDelete == qos_ack1_wl' = <<>> /\ qos2_tx_cq' = Reset /\ qos2_rx_cq' = Reset

\* do_net_close; packets on their way are lost.
DoNetClose ==
    /\ now_connected' = FALSE /\ up' = <<>> /\ down' = <<>>
    /\ IF is_cln_session THEN SessionDelete ELSE UNCHANGED stores
    /\ UNCHANGED <<published, brokerVars, passedOn, presented>>

Lose == /\ now_connected /\ breaks < MaxBreaks /\ breaks' = breaks + 1
        /\ DoNetClose /\ UNCHANGED is_cln_session

Packets(type, ids) == [i \in DOMAIN ids |-> <<type, ids[i]>>]

\* ack2_msg_id_dispatch: the loop takes the number of identifiers for the index
\* behind the last.
Dispatched == LET cq == qos2_tx_cq IN
    [k \in 1..(IF cq.rd_idx < CqCount(cq) THEN CqCount(cq) - cq.rd_idx ELSE 0) |->
        IdAt(cq, cq.rd_idx + k - 1)]

\* proc_connack_rx: session_delete or session_resume.  The broker starts a
\* session, or sends again what was not acknowledged.
ProcConnackRx ==
    /\ ~now_connected /\ now_connected' = TRUE
    /\ IF is_cln_session
       THEN /\ SessionDelete /\ up' = <<>> /\ down' = <<>>
            /\ brokerNext' = 0 /\ brokerHeld' = {} /\ brokerPub' = <<>> /\ brokerRel' = <<>>
            /\ presented' = [i \in QosIds |-> 0]
       ELSE /\ up' = Packets("PUBLISH", qos_ack1_wl) \o Packets("PUBREL", Dispatched)
            /\ down' = Packets("PUBREL", brokerRel) \o Packets("PUBLISH", brokerPub)
            /\ UNCHANGED <<stores, brokerVars, presented>>
    /\ UNCHANGED <<is_cln_session, published, passedOn, breaks>>

\* mqtt_client_pub_msg_send with quality 2, of whichever task.
Publish ==
    /\ now_connected /\ published < MaxMessages /\ published' = published + 1
    /\ qos_ack1_wl' = Append(qos_ack1_wl, published')
    /\ up' = Append(up, <<"PUBLISH", published'>>)
    /\ UNCHANGED <<is_cln_session, now_connected, qos2_tx_cq, qos2_rx_cq, down, brokerVars,
                   passedOn, presented, breaks>>

-----------------------------------------------------------------------------
(* What the client receives: connected_state_rx.                           *)

Arrives(type, id) == down # <<>> /\ Head(down) = <<type, id>>

Keeps == UNCHANGED <<is_cln_session, now_connected, published, brokerVars, passedOn, breaks>>
Answers(type, id) == up' = Append(up, <<type, id>>) /\ down' = Tail(down)

\* A handler that returns false: do_net_close_rx.
Rejects == DoNetClose /\ UNCHANGED <<is_cln_session, breaks>>

\* Faulty variant: the message is kept.
ProcPubRecRxKeeps(id) ==
    /\ Arrives("PUBREC", id)
    /\ IF qos_ack1_wl # <<>> /\ Head(qos_ack1_wl) = id /\ qos2_tx_cq.n_free # 0
       THEN /\ UNCHANGED qos_ack1_wl /\ qos2_tx_cq' = LogUp(qos2_tx_cq, id)
            /\ Answers("PUBREL", id) /\ UNCHANGED <<qos2_rx_cq, presented>> /\ Keeps
       ELSE Rejects

\* _proc_pub_rec_rx
ProcPubRecRx(id) ==
    /\ Arrives("PUBREC", id)
    /\ IF qos_ack1_wl # <<>> /\ Head(qos_ack1_wl) = id /\ qos2_tx_cq.n_free # 0
       THEN /\ qos_ack1_wl' = Tail(qos_ack1_wl) /\ qos2_tx_cq' = LogUp(qos2_tx_cq, id)
            /\ Answers("PUBREL", id) /\ UNCHANGED <<qos2_rx_cq, presented>> /\ Keeps
       ELSE Rejects

\* ack2_msg_id_unlog
Ack2MsgIdUnlog(id) ==
    /\ Arrives("PUBCOMP", id)
    /\ IF Heads(qos2_tx_cq, id)
       THEN /\ qos2_tx_cq' = Unlog(qos2_tx_cq, id) /\ down' = Tail(down)
            /\ UNCHANGED <<qos_ack1_wl, qos2_rx_cq, up, presented>> /\ Keeps
       ELSE IF is_cln_session
       THEN Rejects
       ELSE /\ now_connected' = FALSE /\ up' = <<>> /\ down' = <<>>
            /\ qos2_tx_cq' = Unlog(qos2_tx_cq, id)
            /\ UNCHANGED <<is_cln_session, qos_ack1_wl, qos2_rx_cq, published, brokerVars,
                           passedOn, presented, breaks>>

\* proc_pub_msg_rx: a message that is stored is dropped, and nothing is sent.
ProcPubRx(id) ==
    /\ Arrives("PUBLISH", id)
    /\ IF CqCheck(qos2_rx_cq, id)
       THEN down' = Tail(down) /\ UNCHANGED <<stores, up, presented>> /\ Keeps
       ELSE IF qos2_rx_cq.n_free # 0
       THEN /\ qos2_rx_cq' = LogUp(qos2_rx_cq, id) /\ Answers("PUBREC", id)
            /\ presented' = [presented EXCEPT ![id] = @ + 1]
            /\ UNCHANGED <<qos_ack1_wl, qos2_tx_cq>> /\ Keeps
       ELSE Rejects

\* _proc_pub_rel_rx
ProcPubRelRx(id) ==
    /\ Arrives("PUBREL", id) /\ Answers("PUBCOMP", id)
    /\ qos2_rx_cq' = IF CqCheck(qos2_rx_cq, id) THEN Unlog(qos2_rx_cq, id) ELSE qos2_rx_cq
    /\ UNCHANGED <<qos_ack1_wl, qos2_tx_cq, presented>> /\ Keeps

ClientReceives == \E id \in QosIds :
    ProcPubRecRx(id) \/ Ack2MsgIdUnlog(id) \/ ProcPubRx(id) \/ ProcPubRelRx(id)

-----------------------------------------------------------------------------
(* The broker.                                                             *)

BrokerGets(type, id) ==
    /\ up # <<>> /\ Head(up) = <<type, id>> /\ up' = Tail(up)
    /\ UNCHANGED <<is_cln_session, now_connected, stores, published, presented, breaks>>
Says(type, id) == down' = Append(down, <<type, id>>)

\* The list without the identifier, which is listed at most once.
Without(ids, id) ==
    LET k == CHOOSE i \in DOMAIN ids : ids[i] = id
    IN  IF \E i \in DOMAIN ids : ids[i] = id
        THEN SubSeq(ids, 1, k - 1) \o SubSeq(ids, k + 1, Len(ids))
        ELSE ids

BrokerReceives == \E id \in QosIds :
    \/ /\ BrokerGets("PUBLISH", id) /\ Says("PUBREC", id)
       /\ brokerHeld' = brokerHeld \cup {id}
       /\ passedOn' = IF id \in brokerHeld THEN passedOn ELSE [passedOn EXCEPT ![id] = @ + 1]
       /\ UNCHANGED <<brokerNext, brokerPub, brokerRel>>
    \/ /\ BrokerGets("PUBREL", id) /\ Says("PUBCOMP", id)
       /\ brokerHeld' = brokerHeld \ {id}
       /\ UNCHANGED <<brokerNext, brokerPub, brokerRel, passedOn>>
    \/ /\ BrokerGets("PUBREC", id) /\ Says("PUBREL", id)
       /\ brokerPub' = Without(brokerPub, id) /\ brokerRel' = Append(brokerRel, id)
       /\ UNCHANGED <<brokerNext, brokerHeld, passedOn>>
    \/ /\ BrokerGets("PUBCOMP", id)
       /\ brokerRel' = Without(brokerRel, id)
       /\ UNCHANGED <<down, brokerNext, brokerHeld, brokerPub, passedOn>>

BrokerPublish ==
    /\ now_connected /\ brokerNext < MaxMessages /\ brokerNext' = brokerNext + 1
    /\ brokerPub' = Append(brokerPub, brokerNext') /\ Says("PUBLISH", brokerNext')
    /\ UNCHANGED <<is_cln_session, now_connected, stores, published, up, brokerHeld, brokerRel,
                   passedOn, presented, breaks>>

QosNext == Publish \/ ClientReceives \/ BrokerReceives \/ BrokerPublish \/ Lose \/ ProcConnackRx

QosSpec == QosInit /\ [][QosNext]_qosVars

\* Packets are taken, and the application connects again.
QosFairSpec == QosSpec /\ WF_qosVars(ClientReceives) /\ WF_qosVars(BrokerReceives) /\ WF_qosVars(ProcConnackRx)

-----------------------------------------------------------------------------
(* What must hold.                                                         *)

StoreType == [id_vec : [0..MAX_PUBREL_INFLT - 1 -> 0..MaxMessages], n_free : 0..MAX_PUBREL_INFLT,
              rd_idx : Nat, wr_idx : 0..MAX_PUBREL_INFLT - 1]

\* The type of every variable.
QosTypeOK ==
    /\ is_cln_session \in CleanSession /\ now_connected \in BOOLEAN
    /\ qos2_tx_cq \in StoreType /\ qos2_rx_cq \in StoreType
    /\ published \in 0..MaxMessages /\ brokerNext \in 0..MaxMessages
    /\ qos_ack1_wl \in Seq(QosIds) /\ brokerPub \in Seq(QosIds) /\ brokerRel \in Seq(QosIds)
    /\ brokerHeld \subseteq QosIds /\ breaks \in 0..MaxBreaks
    /\ {passedOn, presented} \subseteq [QosIds -> Nat]

\* The identifiers of the packets of a type on their way, in their order.
OnWire(wire, type) ==
    LET ids[n \in 0..Len(wire)] == IF n = 0 THEN <<>>
                                   ELSE IF wire[n][1] = type THEN Append(ids[n - 1], wire[n][2])
                                   ELSE ids[n - 1]
    IN  ids[Len(wire)]

\* In a clean session the stores hold the identifiers under way, in the order
\* of the packets under way: so the only identifier that unlog compares is the
\* right one, and no acknowledgement is unexpected.
StoresFollowTheWire ==
    is_cln_session /\ now_connected =>
        /\ Active(qos2_tx_cq) = OnWire(down, "PUBCOMP") \o OnWire(up, "PUBREL")
        /\ Active(qos2_rx_cq) = OnWire(down, "PUBREL") \o OnWire(up, "PUBREC")
        /\ qos_ack1_wl = OnWire(down, "PUBREC") \o OnWire(up, "PUBLISH")

\* The broker passes on a message of the client once, although the client sends
\* it again when a session is resumed.
PassedOnOnce == \A i \in QosIds : passedOn[i] <= 1

\* The application gets a message once in every session.
OnlyOnce == \A i \in QosIds : presented[i] <= 1

\* In a clean session every exchange under way ends, when the connection stays.
ExchangesEnd ==
    is_cln_session /\ <>[]now_connected =>
        <>[](qos_ack1_wl = <<>> /\ CqCount(qos2_tx_cq) = 0 /\ brokerPub = <<>> /\ brokerRel = <<>>)
=============================================================================
