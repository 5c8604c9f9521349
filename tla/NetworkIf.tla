----------------------------- MODULE NetworkIf -------------------------------
(***************************************************************************)
(* The Wi-Fi connection (common/network_if.c): ConnectWiFI at boot, and     *)
(* later the command "station" of the console, bring the network processor *)
(* to its defaults and ask it to join an access point, then poll the bits  *)
(* of g_ulStatus, which the event handlers set and clear.  The driver hands *)
(* over responses and events in the order the network processor sent them. *)
(***************************************************************************)
EXTENDS Integers, Sequences

CONSTANTS
    MaxPolls,     \* 15 in the code
    MaxCalls,     \* bound on the calls: the boot and the commands "station"
    MaxLosses     \* bound on the connections the network processor loses

ASSUME NetworkIfAssumption == MaxPolls \in Nat /\ MaxCalls \in Nat \ {0} /\ MaxLosses \in Nat

VARIABLES
    pc,               \* where the caller is
    after,            \* where Network_IF_DisconnectFromAP and its like return to
    g_ulStatus,       \* the bits that are set
    g_usConnectIndex,
    calls,            \* calls made
    lRetVal,          \* what the last Network_IF_ConnectAP returned
    role,             \* of the network processor, kept in its flash
    profile,          \* it holds a profile and joins by itself
    link,             \* off, none, joining, joined, ip
    queue,            \* its responses and events on their way
    joined,           \* history: an IP was acquired since this call asked for one
    losses

appVars == <<g_usConnectIndex, calls, lRetVal>>
nwpVars == <<role, profile, link, queue, losses>>
vars == <<pc, after, g_ulStatus, appVars, nwpVars, joined>>

Init ==
    /\ pc = "idle" /\ after = "defaults" /\ g_ulStatus = {}
    /\ g_usConnectIndex = 0 /\ calls = 0 /\ lRetVal = -1
    /\ role \in {"STA", "AP"} /\ profile \in BOOLEAN
    /\ link = "off" /\ queue = <<>> /\ joined = FALSE /\ losses = 0

Goes(from, to) == pc = from /\ pc' = to

IsConnected == "CONNECTION" \in g_ulStatus
IsIpAcquired == "IP_AQUIRED" \in g_ulStatus

-----------------------------------------------------------------------------
(* Network_IF_InitDriver.  A call of the driver that fails ends in an      *)
(* endless loop: the place "forever".                                      *)

\* The network processor starts anew; whatever it had sent is forgotten.
Restarts(r) == /\ link' = "none" /\ queue' = <<>> /\ role' = r
               /\ UNCHANGED <<profile, losses>>

InitDriver ==
    /\ Goes("init", "start") /\ g_ulStatus' = {}
    /\ UNCHANGED <<after, appVars, nwpVars, joined>>

\* sl_Start of ConfigureSimpleLinkToDefaultState returns the role, or an error.
Start ==
    /\ \/ Goes("start", "forever") /\ UNCHANGED nwpVars
       \/ Goes("start", IF role = "AP" THEN "ip" ELSE "policy") /\ Restarts(role)
    /\ UNCHANGED <<after, g_ulStatus, appVars, joined>>

\* As an access point: the first poll loop, then the other role and a restart.
SetMode ==
    /\ Goes("ip", "policy") /\ IsIpAcquired
    /\ Restarts("STA")
    /\ UNCHANGED <<after, g_ulStatus, appVars, joined>>

\* sl_WlanPolicySet and sl_WlanProfileDel
Policy ==
    /\ Goes("policy", "disconnect") /\ profile' = FALSE
    /\ after' = "defaults"
    /\ UNCHANGED <<g_ulStatus, appVars, role, link, queue, losses, joined>>

\* Faulty variant: the bits are left as the restart found them.
DefaultsOnly ==
    /\ Goes("defaults", "restart")
    /\ link' = "off" /\ queue' = <<>>
    /\ UNCHANGED <<after, g_ulStatus, appVars, role, profile, losses, joined>>

\* The other settings, sl_Stop and InitializeAppVariables.
Defaults ==
    /\ Goes("defaults", "restart")
    /\ link' = "off" /\ queue' = <<>>
    /\ g_ulStatus' = {}
    /\ UNCHANGED <<after, appVars, role, profile, losses, joined>>

Restart ==
    /\ \/ Goes("restart", "forever") /\ UNCHANGED nwpVars
       \/ Goes("restart", IF role = "STA" THEN "connect" ELSE "forever") /\ Restarts(role)
    /\ UNCHANGED <<after, g_ulStatus, appVars, joined>>

-----------------------------------------------------------------------------
(* Disconnecting: a response, and if it is 0 an event to be polled for.    *)

Disconnect ==
    /\ Goes("disconnect", "response")
    /\ IF link \in {"joined", "ip"}
       THEN link' = "none" /\ queue' = queue \o <<"ok", "DISCONNECT">>
       ELSE UNCHANGED link /\ queue' = Append(queue, "error")
    /\ UNCHANGED <<after, g_ulStatus, appVars, role, profile, losses, joined>>

Response ==
    /\ queue # <<>> /\ Head(queue) \in {"ok", "error"} /\ queue' = Tail(queue)
    /\ Goes("response", IF Head(queue) = "ok" THEN "disconnecting" ELSE after)
    /\ UNCHANGED <<after, g_ulStatus, appVars, role, profile, link, losses, joined>>

Disconnected ==
    /\ Goes("disconnecting", after) /\ ~IsConnected
    /\ UNCHANGED <<after, g_ulStatus, appVars, nwpVars, joined>>

-----------------------------------------------------------------------------
(* Network_IF_ConnectAP                                                    *)

ConnectAP ==
    /\ Goes("connect", IF IsConnected THEN "disconnect" ELSE "join")
    /\ after' = "join"
    /\ UNCHANGED <<g_ulStatus, appVars, nwpVars, joined>>

\* sl_WlanConnect, which may be refused.
Join ==
    /\ \/ Goes("join", "poll") /\ link' = "joining" /\ UNCHANGED lRetVal
       \/ Goes("join", "idle") /\ lRetVal' = -1 /\ UNCHANGED link
    /\ joined' = FALSE
    /\ UNCHANGED <<after, g_ulStatus, g_usConnectIndex, calls, role, profile, queue, losses>>

\* Both bits end the loop, and so does the index, which is never reset.
Poll ==
    /\ \/ Goes("poll", "report") /\ g_usConnectIndex >= MaxPolls /\ UNCHANGED g_usConnectIndex
       \/ /\ pc = "poll" /\ g_usConnectIndex < MaxPolls
          /\ IF IsConnected /\ IsIpAcquired
             THEN pc' = "report" /\ UNCHANGED g_usConnectIndex
             ELSE g_usConnectIndex' = g_usConnectIndex + 1 /\ UNCHANGED pc
    /\ UNCHANGED <<after, g_ulStatus, calls, lRetVal, nwpVars, joined>>

\* Network_IF_IpConfigGet fails, or reads an address, were it 0.0.0.0.
Report ==
    /\ Goes("report", "idle")
    /\ lRetVal' \in {-1, 0}
    /\ UNCHANGED <<after, g_ulStatus, g_usConnectIndex, calls, nwpVars, joined>>

\* ConnectWiFI at boot, then Cmd_station.  At boot a result below 0 ends in an
\* endless loop.
Connect ==
    /\ Goes("idle", "init") /\ calls < MaxCalls /\ (calls = 1 => lRetVal = 0)
    /\ calls' = calls + 1
    /\ UNCHANGED <<after, g_ulStatus, g_usConnectIndex, lRetVal, nwpVars, joined>>

Caller == InitDriver \/ Start \/ SetMode \/ Policy \/ Defaults \/ Restart \/ Disconnect
             \/ Response \/ Disconnected \/ ConnectAP \/ Join \/ Poll \/ Report

-----------------------------------------------------------------------------
(* SimpleLinkWlanEventHandler and SimpleLinkNetAppEventHandler.            *)

Events == {"CONNECT", "DISCONNECT", "FAILED", "IP"}

\* Faulty variant: a disconnection that was asked for is not noted.
StatusAsked(e) ==
    CASE e = "CONNECT"    -> (g_ulStatus \cup {"CONNECTION"}) \ {"CONNECTION_FAILED"}
      [] e = "DISCONNECT" -> IF pc \in {"response", "disconnecting"} THEN g_ulStatus
                             ELSE g_ulStatus \ {"CONNECTION", "IP_AQUIRED"}
      [] e = "FAILED"     -> g_ulStatus \cup {"CONNECTION_FAILED"}
      [] e = "IP"         -> g_ulStatus \cup {"IP_AQUIRED"}

Status(e) ==
    CASE e = "CONNECT"    -> (g_ulStatus \cup {"CONNECTION"}) \ {"CONNECTION_FAILED"}
      [] e = "DISCONNECT" -> g_ulStatus \ {"CONNECTION", "IP_AQUIRED"}
      [] e = "FAILED"     -> g_ulStatus \cup {"CONNECTION_FAILED"}
      [] e = "IP"         -> g_ulStatus \cup {"IP_AQUIRED"}

Handler ==
    /\ queue # <<>> /\ Head(queue) \in Events
    /\ g_ulStatus' = Status(Head(queue)) /\ queue' = Tail(queue)
    /\ UNCHANGED <<pc, after, appVars, role, profile, link, losses, joined>>

-----------------------------------------------------------------------------
(* The network processor and the access point.                             *)

Tells(e, l) == link' = l /\ queue' = Append(queue, e)

\* With a profile it joins by itself; as an access point it has its address.
Joins == /\ link = "joining" \/ (link = "none" /\ role = "STA" /\ profile)
         /\ Tells("CONNECT", "joined") /\ UNCHANGED <<losses, joined>>
Fails == /\ link = "joining" /\ Tells("FAILED", "none") /\ UNCHANGED <<losses, joined>>
Acquires == /\ link = "joined" \/ (link = "none" /\ role = "AP")
            /\ Tells("IP", "ip") /\ joined' = TRUE /\ UNCHANGED losses
Loses == /\ link \in {"joined", "ip"} /\ role = "STA" /\ losses < MaxLosses
         /\ losses' = losses + 1
         /\ Tells("DISCONNECT", "none") /\ UNCHANGED joined

Nwp(A) == A /\ UNCHANGED <<pc, after, g_ulStatus, appVars, role, profile>>

Next == Caller \/ Connect \/ Handler
           \/ Nwp(Joins) \/ Nwp(Fails) \/ Nwp(Acquires) \/ Nwp(Loses)

Spec == Init /\ [][Next]_vars

\* The caller and the spawn task get their turn, and what started as an access
\* point acquires its address.
FairSpec == Spec /\ WF_vars(Caller) /\ WF_vars(Handler) /\ WF_vars(Nwp(Acquires))

-----------------------------------------------------------------------------
(* What must hold.                                                         *)

\* The type of every variable.
TypeOK ==
    /\ pc \in {"init", "start", "ip", "policy", "disconnect", "response", "disconnecting",
               "defaults", "restart", "connect", "join", "poll", "report", "idle", "forever"}
    /\ after \in {"defaults", "join"}
    /\ g_ulStatus \subseteq {"CONNECTION", "IP_AQUIRED", "CONNECTION_FAILED"}
    /\ g_usConnectIndex \in 0..MaxPolls /\ calls \in 0..MaxCalls /\ lRetVal \in {-1, 0}
    /\ role \in {"STA", "AP"} /\ profile \in BOOLEAN
    /\ link \in {"off", "none", "joining", "joined", "ip"}
    /\ queue \in Seq(Events \cup {"ok", "error"}) /\ losses \in 0..MaxLosses

\* Bits left from before never pass for the connection that was asked for: when
\* the polling ends because both bits are set, the access point this call named
\* has been joined and an address acquired, whatever was connected, or was an
\* access point itself, before the restarts.
PollsSeeThisCall ==
    [][pc = "poll" /\ pc' = "report" /\ g_usConnectIndex < MaxPolls => joined]_vars

\* The loops that poll without a limit end: each waits for an event that was, or
\* will be, sent, and no other event takes back what it waits for.
CallsEnd == pc \notin {"idle", "forever"} ~> pc \in {"idle", "forever"}
=============================================================================
