---------------------------- MODULE PeerManager ----------------------------
(***************************************************************************)
(* The peer manager (src/peer_manager/mod.rs, network_behaviour.rs) with   *)
(* the peer database it owns, the swarm that reports connections to it     *)
(* and the service that consumes its events (src/service/mod.rs).          *)
(*                                                                         *)
(*   m.db       the PeerDB (PeerDB.tla)                                    *)
(*   m.events   PeerManager.events, drained one per poll (FIFO)            *)
(*   m.toDial   peers_to_dial (a Vec: push, pop from the back)             *)
(*   m.temp     temporary_banned_peers (the LRUTimeCache)                  *)
(*   m.trusted  trusted_peers of the peer manager                          *)
(*   m.syncSubnets  the sync_committee_subnets whose min_ttl is still in   *)
(*              the future (add_sync_subnet; the heartbeat drops the rest) *)
(*   m.inboundPing, m.outboundPing, m.statusPeers  the HashSetDelay timers *)
(*              inbound_ping_peers, outbound_ping_peers, status_peers: a   *)
(*              peer in one has a timer armed; its expiry is a step        *)
(*   conn[p]    the swarm connection of p ("none", "in", "out"); the       *)
(*              connection limits allow one per peer                       *)
(*   dialing    peers with an outgoing dial pending in the swarm           *)
(*   appConnected  peers the application was told are connected            *)
(*   discBanned, discBannedIps  what discovery was told to ban             *)
(*   goodbye    peers the service sent a Goodbye (eth2_rpc.shutdown) on a  *)
(*              live connection that has not closed yet                   *)
(*                                                                         *)
(* Every step is one callback of the swarm or one call into the manager,  *)
(* run to completion under the PeerDB lock.                                *)
(***************************************************************************)
EXTENDS PeerDB, Pruning, RpcErrors, F32Sizing

CONSTANTS
    TargetPeers,        \* target_peers
    ConfigTrusted,      \* trusted peers given to PeerDB::new
    TrustedCandidates,  \* peers the service may dial_trusted_peer / remove
    PeerIp,             \* [Peers -> IPs], the address each peer connects from
    PeerAtt, PeerSync,  \* long-lived subnets each peer advertises
    ReportActions,      \* PeerActions reported by RPC, gossip and sync
    MaxQueue, MaxDial,  \* bounds on the events and peers_to_dial queues
    TimerEvents,        \* whether the ping and status traffic (timer
                        \* expiry, Ping and Status messages) is modelled
    DutyEvents,         \* whether validator duties (min_ttl) are modelled
    TargetSubnetPeers   \* network_globals.target_subnet_peers

VARIABLES m, conn, dialing, appConnected, discBanned, discBannedIps, goodbye
vars == <<m, conn, dialing, appConnected, discBanned, discBannedIps, goodbye>>

(* Sizing: ceil(target as f32 * factor) in f32 (F32Sizing) *)
MaxPeers == MaxPeersF32(TargetPeers)
TargetOutbound == TargetOutboundPeersF32(TargetPeers)
MinOutbound == MinOutboundOnlyPeersF32(TargetPeers)
MaxOutboundDialing == MaxOutboundDialingPeersF32(TargetPeers)
MaxPriorityPeers == MaxPriorityPeersF32(TargetPeers)

(* The libp2p connection_limits behaviour built in Network::new, which the *)
(* swarm consults before the peer manager: at most one established         *)
(* connection per peer (conn holds one), and caps on the established        *)
(* incoming, outgoing and total connections.  A connection at a cap is     *)
(* denied.                                                                 *)
ConnectionLimits ==
    [in |-> MaxEstablishedIncomingF32(TargetPeers),
     out |-> MaxPeersF32(TargetPeers),
     total |-> MaxPriorityPeersF32(TargetPeers)]

WithinConnectionLimits(dir) ==
    /\ Cardinality({q \in Peers : conn[q] = dir}) < ConnectionLimits[dir]
    /\ Cardinality({q \in Peers : conn[q] # "none"}) < ConnectionLimits.total

ConnectedCount(d) == Cardinality(PeersIn(d, {"Connected"}))
ConnectedOrDialingCount(d) == Cardinality(PeersIn(d, {"Connected", "Dialing"}))
OutboundOnlyCount(d) ==
    Cardinality({p \in PeersIn(d, {"Connected"}) : d.info[p].dirs = {"out"}})

Ev(t, p, ips) == [type |-> t, peer |-> p, ips |-> ips, subnets |-> {}]
SubnetsEv(S) == [Ev("DiscoverSubnetPeers", "none", {}) EXCEPT !.subnets = S]
Push(x, e) == [x EXCEPT !.events = Append(@, e)]
PushAll(x, S) == [x EXCEPT !.events = @ \o SetToSeq(S)]

(* handle_ban_operation *)
HandleBanOperation(x, p, op, ips) ==
    CASE op = "TemporaryBan" ->
            IF ConnectedCount(x.db) >= TargetPeers
            THEN [Push(x, Ev("Banned", p, {})) EXCEPT !.temp = @ \cup {p}]
            ELSE x
      [] op = "DisconnectThePeer" -> Push(x, Ev("DisconnectPeer", p, {}))
      [] op = "ReadyToBan" ->
            IF p \in x.temp THEN [x EXCEPT !.temp = @ \ {p}]
            ELSE [x EXCEPT !.events =
                     SelectSeq(Append(@, Ev("Banned", p, ips)),
                               LAMBDA e : ~(e.type = "UnBanned" /\ e.peer = p))]
      [] OTHER -> x   \* PeerDisconnecting, or no operation

(* handle_score_action, ScoreUpdateResult::Disconnect: the ping timers   *)
(* are removed (the status timer is not)                                   *)
StopPings(x, p) == [x EXCEPT !.inboundPing = @ \ {p}, !.outboundPing = @ \ {p}]

(* Mutant: a Disconnect result updates the PeerDB but emits no           *)
(* DisconnectPeer event                                                    *)
ReportPeerPMNoDisconnectEvent(x, p, a) ==
    LET r == ReportPeer(x.db, p, a)
        x1 == [x EXCEPT !.db = r.db]
    IN  CASE r.res = "Ban" -> HandleBanOperation(x1, p, r.op, r.ips)
          [] r.res = "Disconnect" -> StopPings(x1, p)
          [] OTHER -> x1

(* report_peer and handle_score_action *)
ReportPeerPM(x, p, a) ==
    LET r == ReportPeer(x.db, p, a)
        x1 == [x EXCEPT !.db = r.db]
    IN  CASE r.res = "Ban" -> HandleBanOperation(x1, p, r.op, r.ips)
          [] r.res = "Disconnect" -> Push(StopPings(x1, p), Ev("DisconnectPeer", p, {}))
          [] OTHER -> x1

(* Mutant: inject_disconnect leaves the status timer of the peer armed *)
RemoveTimersKeepStatus(x, p) == StopPings(x, p)

(* inject_disconnect: remove the ping and status timers of the peer *)
RemoveTimers(x, p) == [StopPings(x, p) EXCEPT !.statusPeers = @ \ {p}]

(* inject_disconnect *)
InjectDisconnectPM(x, p) ==
    LET r == InjectDisconnect(x.db, p)
        x1 == HandleBanOperation([x EXCEPT !.db = r.db], p, r.op, r.ips)
    IN  PushAll(RemoveTimers(x1, p), {Ev("UnBanned", q[1], q[2]) : q \in r.purged})

(* Mutant: a new connection starts its ping timer but no status timer *)
InjectPeerConnectionNoStatus(x, p, dir) ==
    [x EXCEPT !.db = UpdateConnectionState(@, p, ConnectedNS(dir, PeerIp[p])).db,
              !.inboundPing = IF dir = "in" THEN @ \cup {p} ELSE @,
              !.outboundPing = IF dir = "out" THEN @ \cup {p} ELSE @]

(* inject_peer_connection for IngoingConnected / OutgoingConnected:        *)
(* connect_ingoing / connect_outgoing, start the ping timer of the         *)
(* direction, then the status timer                                        *)
InjectPeerConnection(x, p, dir) ==
    [x EXCEPT !.db = UpdateConnectionState(@, p, ConnectedNS(dir, PeerIp[p])).db,
              !.inboundPing = IF dir = "in" THEN @ \cup {p} ELSE @,
              !.outboundPing = IF dir = "out" THEN @ \cup {p} ELSE @,
              !.statusPeers = @ \cup {p}]

(* disconnect_peer: DisconnectPeer event, then notify_disconnecting *)
DisconnectPeer(x, p) ==
    [Push(x, Ev("DisconnectPeer", p, {})) EXCEPT
        !.db = UpdateConnectionState(@, p, DisconnectingNS(FALSE)).db]

(* dial_peer *)
DialPeer(x, p) ==
    IF ShouldDial(x.db, p) THEN [x EXCEPT !.toDial = Append(@, p)] ELSE x

(* maintain_peer_count(dialing_peers), discovery enabled *)
MaintainPeerCount(x, dialingPeers) ==
    LET count == ConnectedOrDialingCount(x.db)
        sat(a, b) == IF a > b THEN a - b ELSE 0
        wanted == IF count < sat(TargetPeers, dialingPeers)
                  THEN sat(MaxPeers, dialingPeers) - count
                  ELSE IF OutboundOnlyCount(x.db) < MinOutbound /\ count < MaxOutboundDialing
                  THEN sat(sat(MaxOutboundDialing, dialingPeers), count)
                  ELSE 0
    IN  IF wanted # 0 THEN Push(x, Ev("DiscoverPeers", "none", {})) ELSE x

RECURSIVE DialEach(_, _)
DialEach(x, S) ==
    IF S = {} THEN x
    ELSE LET p == CHOOSE q \in S : TRUE IN DialEach(DialPeer(x, p), S \ {p})

RECURSIVE DisconnectAll(_, _)
DisconnectAll(x, S) ==
    IF S = {} THEN x
    ELSE LET p == CHOOSE q \in S : TRUE IN DisconnectAll(DisconnectPeer(x, p), S \ {p})

(* The peers on a subnet by their metadata and gossipsub subscriptions    *)
(* (the long-lived subnets each peer advertises).                          *)
PeersOnSubnet(sn) == {p \in Peers : sn \in PeerAtt[p] \cup PeerSync[p]}

(* good_peers_on_subnet; the gossipsub score is not modelled, so every     *)
(* peer is a good gossipsub peer.                                          *)
GoodPeersOnSubnet(d, sn) == PeersIn(d, {"Connected"}) \cap PeersOnSubnet(sn)

(* add_sync_subnet: insert, or keep the later min_ttl *)
AddSyncSubnet(x, c) == [x EXCEPT !.syncSubnets = @ \cup {c}]

(* maintain_sync_committee_peers: drop the entries in expired, then ask   *)
(* for a subnet query, with min_ttl, for every sync subnet with fewer than *)
(* target_subnet_peers good peers.                                         *)
MaintainSyncCommitteePeers(x, expired) ==
    LET live == x.syncSubnets \ expired
        short == {c \in live : Cardinality(GoodPeersOnSubnet(x.db, c)) < TargetSubnetPeers}
        x1 == [x EXCEPT !.syncSubnets = live]
    IN  IF short # {} THEN Push(x1, SubnetsEv(short)) ELSE x1

(* dial_cached_enrs_in_subnet: dial_peer for every cached ENR on the      *)
(* subnet (each is removed from the cache first)                           *)
DialCachedEnrsInSubnet(x, sn, cached) == DialEach(x, cached \cap PeersOnSubnet(sn))

(* Service::discover_subnet_peers for the subnet discoveries l (a list of  *)
(* [subnet, ttl]), discovery started: a discovery with a min_ttl extends   *)
(* the Connected peers on its subnet and, for a sync subnet, calls         *)
(* add_sync_subnet; a subnet with target_subnet_peers good peers is        *)
(* dropped, any other dials the cached ENRs on it                          *)
(* and is queried.  cached is the ENR cache of discovery.                  *)
RECURSIVE DiscoverSubnets(_, _, _)
DiscoverSubnets(x, l, cached) ==
    IF l = <<>> THEN x
    ELSE LET sn == Head(l).subnet
             x0 == [x EXCEPT !.db = ExtendPeersOnSubnet(@, PeersOnSubnet(sn))]
             x1 == IF ~Head(l).ttl THEN x
                   ELSE IF sn \in SyncSubnets THEN AddSyncSubnet(x0, sn) ELSE x0
         IN  IF Cardinality(GoodPeersOnSubnet(x1.db, sn)) >= TargetSubnetPeers
             THEN DiscoverSubnets(x1, Tail(l), cached)
             ELSE DiscoverSubnets(DialCachedEnrsInSubnet(x1, sn, cached), Tail(l),
                                  cached \ PeersOnSubnet(sn))

(* The view prune_excess_peers takes of the connected peers *)
PruneSnapshot(d) ==
    [conn |-> PeersIn(d, {"Connected"}),
     score |-> [p \in Peers |-> d.info[p].score],
     outOnly |-> [p \in Peers |-> d.info[p].dirs = {"out"}],
     duty |-> [p \in Peers |-> d.info[p].duty],
     trusted |-> [p \in Peers |-> d.info[p].trusted],
     att |-> PeerAtt, sync |-> PeerSync,
     target |-> TargetPeers, targetOut |-> TargetOutbound]

Init ==
    /\ m = [db |-> EmptyDB(ConfigTrusted), events |-> <<>>, toDial |-> <<>>,
            temp |-> {}, trusted |-> {}, syncSubnets |-> {},
            inboundPing |-> {}, outboundPing |-> {}, statusPeers |-> {}]
    /\ conn = [p \in Peers |-> "none"]
    /\ dialing = {}
    /\ appConnected = {}
    /\ discBanned = {}
    /\ discBannedIps = {}
    /\ goodbye = {}

Room == Len(m.events) < MaxQueue /\ Len(m.toDial) < MaxDial

(***************************************************************************)
(* heartbeat: the Dialing peers in timedOut passed DIAL_TIMEOUT, the       *)
(* scores of the peers in decayed decay a step, the temporary bans in      *)
(* expired passed PEER_RECONNECTION_TIMEOUT; the prune takes one of the    *)
(* sets prune_excess_peers may compute.  The sync-committee entries in    *)
(* expiredSync passed their min_ttl before maintain_sync_committee_peers,  *)
(* which runs between the score update and the prune.                     *)
(***************************************************************************)
Heartbeat ==
    /\ Room
    /\ \E timedOut \in SUBSET PeersIn(m.db, {"Dialing"}),
          decayed \in SUBSET {p \in m.db.peers : m.db.info[p].score < 0},
          expired \in SUBSET m.temp,
          expiredSync \in SUBSET m.syncSubnets :
         LET x1 == DialEach(MaintainPeerCount(m, 0), m.trusted)
             x2 == [x1 EXCEPT !.db = CleanupDialingPeers(@, timedOut)]
             r  == UpdateScores(x2.db, decayed)
             x3 == PushAll([x2 EXCEPT !.db = r.db],
                           {Ev("UnBanned", u[1], u[2]) : u \in r.unbanned})
             x4 == MaintainSyncCommitteePeers(x3, expiredSync)
         IN  \E P \in PruneSets(PruneSnapshot(x4.db)) :
               LET x5 == DisconnectAll(x4, P)
               IN  m' = PushAll([x5 EXCEPT !.temp = @ \ expired],
                                {Ev("UnBanned", p, {}) : p \in expired})
    /\ UNCHANGED <<conn, dialing, appConnected, discBanned, discBannedIps, goodbye>>

(* The subnets S as a list of SubnetDiscovery, each with or without a     *)
(* min_ttl                                                                 *)
Discoveries(S, ttl) ==
    LET q == SetToSeq(S) IN [i \in DOMAIN q |-> [subnet |-> q[i], ttl |-> ttl]]

(* poll: return the first event to the service (inject_pm_event); the     *)
(* service runs discover_subnet_peers for DiscoverSubnetPeers.             *)
DeliverEvent ==
    /\ m.events # <<>>
    /\ LET e == Head(m.events) IN
       /\ \E cached \in IF e.type = "DiscoverSubnetPeers" THEN SUBSET Peers ELSE {{}} :
            m' = IF e.type = "DiscoverSubnetPeers"
                 THEN DiscoverSubnets([m EXCEPT !.events = Tail(@)],
                                      Discoveries(e.subnets, TRUE), cached)
                 ELSE [m EXCEPT !.events = Tail(@)]
       /\ appConnected' =
            CASE e.type \in {"PeerConnectedIncoming", "PeerConnectedOutgoing"} ->
                    appConnected \cup {e.peer}
              [] e.type = "PeerDisconnected" -> appConnected \ {e.peer}
              [] OTHER -> appConnected
       /\ discBanned' =
            CASE e.type = "Banned" -> discBanned \cup {e.peer}
              [] e.type = "UnBanned" -> discBanned \ {e.peer}
              [] OTHER -> discBanned
       /\ discBannedIps' =
            CASE e.type = "Banned" -> discBannedIps \cup e.ips
              [] e.type = "UnBanned" -> discBannedIps \ e.ips
              [] OTHER -> discBannedIps
       \* DisconnectPeer: eth2_rpc.shutdown sends one Goodbye to a live
       \* connection; with no connection there is no handler to notify
       /\ goodbye' =
            IF e.type = "DisconnectPeer" /\ conn[e.peer] # "none"
            THEN goodbye \cup {e.peer} ELSE goodbye
    /\ UNCHANGED <<conn, dialing>>

(* on_dial_failure *)
DialFailurePM(x, p) ==
    IF StatusOf(x.db, p) = "Connected" THEN x ELSE InjectDisconnectPM(x, p)

(* poll with no event left: pop peers_to_dial, mark it Dialing, and dial   *)
(* it with PeerCondition::Disconnected (refused, as a DialFailure, when    *)
(* the peer is connected).                                                 *)
PollDial ==
    /\ m.events = <<>> /\ m.toDial # <<>>
    /\ LET p == Last(m.toDial)
           x == [m EXCEPT !.toDial = Front(@),
                          !.db = UpdateConnectionState(@, p, NS("Dialing")).db]
       IN  IF conn[p] # "none"
           THEN m' = DialFailurePM(x, p) /\ UNCHANGED dialing
           ELSE m' = x /\ dialing' = dialing \cup {p}
    /\ UNCHANGED <<conn, appConnected, discBanned, discBannedIps, goodbye>>

(* A pending dial fails in the transport *)
DialFails(p) ==
    /\ p \in dialing /\ Room
    /\ dialing' = dialing \ {p}
    /\ m' = DialFailurePM(m, p)
    /\ UNCHANGED <<conn, appConnected, discBanned, discBannedIps, goodbye>>

(* A pending dial connects: the connection limits, then                   *)
(* handle_established_outbound_connection and on_connection_established;  *)
(* a connection either denies is a DialFailure.                            *)
DialConnects(p) ==
    /\ p \in dialing /\ Room
    /\ dialing' = dialing \ {p}
    /\ IF \/ conn[p] # "none"
          \/ ~WithinConnectionLimits("out")
          \/ BanStatus(m.db, p)
          \/ ConnectedCount(m.db) >= MaxOutboundDialing /\ ~m.db.info[p].duty
       THEN m' = DialFailurePM(m, p) /\ UNCHANGED conn
       ELSE /\ conn' = [conn EXCEPT ![p] = "out"]
            /\ m' = Push(InjectPeerConnection(m, p, "out"),
                         Ev("PeerConnectedOutgoing", p, {}))
    /\ UNCHANGED <<appConnected, discBanned, discBannedIps, goodbye>>

(* An inbound connection passes the connection limits,                    *)
(* handle_pending_inbound_connection and                                   *)
(* handle_established_inbound_connection; denied ones change nothing.      *)
Inbound(p) ==
    /\ Room
    /\ conn[p] = "none"
    /\ WithinConnectionLimits("in")
    /\ ~IpIsBanned(m.db, PeerIp[p])
    /\ ~BanStatus(m.db, p)
    /\ ConnectedOrDialingCount(m.db) < MaxPeers \/ m.db.info[p].duty
    /\ conn' = [conn EXCEPT ![p] = "in"]
    /\ m' = Push(InjectPeerConnection(m, p, "in"),
                 Ev("PeerConnectedIncoming", p, {}))
    /\ UNCHANGED <<dialing, appConnected, discBanned, discBannedIps, goodbye>>

(* on_connection_closed for the last connection of p *)
CloseConnection(p) ==
    /\ conn[p] # "none"
    /\ conn' = [conn EXCEPT ![p] = "none"]
    /\ LET x == IF StatusOf(m.db, p) \in {"Connected", "Disconnecting"}
                THEN Push(m, Ev("PeerDisconnected", p, {})) ELSE m
       IN  m' = InjectDisconnectPM(x, p)
    /\ goodbye' = goodbye \ {p}
    /\ UNCHANGED <<dialing, appConnected, discBanned, discBannedIps>>

(* The remote side or the transport closes the connection *)
ConnectionClosed(p) == Room /\ CloseConnection(p)

(* The RPC handler closes a connection it sent a Goodbye on (the Goodbye  *)
(* is answered or times out).  Not held back by the model's queue bound   *)
(* (Room): the queue stays bounded, as it takes a DisconnectPeer event,   *)
(* pushed under Room, to put a peer in goodbye.                          *)
GoodbyeClosed(p) == p \in goodbye /\ CloseConnection(p)

(* An RPC, gossip or sync component reports p (report_peer; goodbye_peer   *)
(* is a Fatal report)                                                      *)
Report(p, a) ==
    /\ p \in m.db.peers /\ Room
    /\ m' = ReportPeerPM(m, p, a)
    /\ UNCHANGED <<conn, dialing, appConnected, discBanned, discBannedIps, goodbye>>

(* The PeerActions handle_rpc_error reports for a stream opened in        *)
(* direction d, over every error and protocol; the cases that return       *)
(* without a report change nothing                                         *)
RpcReports(d) ==
    {RpcErrorAction(e, pr, d) : e \in RpcErrorValues, pr \in RpcProtocols} \ {"NoReport"}

(* Service::inject_rpc_event hands an RPC error of p to handle_rpc_error,  *)
(* which reports the mapped PeerAction.  An Inbound error of a peer that   *)
(* is not connected is dropped before that; an Outbound one is not.        *)
HandleRpcError(p, d, a) ==
    /\ p \in m.db.peers /\ Room
    /\ d = "Incoming" => m.db.info[p].status = "Connected"
    /\ m' = ReportPeerPM(m, p, a)
    /\ UNCHANGED <<conn, dialing, appConnected, discBanned, discBannedIps, goodbye>>

(***************************************************************************)
(* The ping and status timers (network_behaviour.rs poll; ping_request and *)
(* peer_statusd, called from Service::inject_rpc_event).                   *)
(***************************************************************************)

(* An expired ping timer is re-armed and a Ping event pushed *)
PingTimerFires(p) ==
    /\ TimerEvents
    /\ p \in m.inboundPing \cup m.outboundPing /\ Room
    /\ m' = Push(m, Ev("Ping", p, {}))
    /\ UNCHANGED <<conn, dialing, appConnected, discBanned, discBannedIps, goodbye>>

(* An expired status timer is re-armed and a Status event pushed; the     *)
(* status timers are polled only when the sync state is neither           *)
(* SyncingFinalized nor SyncingHead, a state outside this model, so the    *)
(* step may or may not be taken                                            *)
StatusTimerFires(p) ==
    /\ TimerEvents
    /\ p \in m.statusPeers /\ Room
    /\ m' = Push(m, Ev("Status", p, {}))
    /\ UNCHANGED <<conn, dialing, appConnected, discBanned, discBannedIps, goodbye>>

(* A Ping request of p: inject_rpc_event drops it unless p is Connected;  *)
(* ping_request re-arms the ping timer of the connection's direction and, *)
(* the metadata of p being unknown (meta_data_response is not modelled),  *)
(* pushes a MetaData event                                                 *)
PingRequest(p) ==
    /\ TimerEvents
    /\ StatusOf(m.db, p) = "Connected" /\ Room
    /\ m' = Push([m EXCEPT !.inboundPing = IF conn[p] = "in" THEN @ \cup {p} ELSE @,
                           !.outboundPing = IF conn[p] = "out" THEN @ \cup {p} ELSE @],
                 Ev("MetaData", p, {}))
    /\ UNCHANGED <<conn, dialing, appConnected, discBanned, discBannedIps, goodbye>>

(* A Status request (dropped unless p is Connected) or a Status response  *)
(* (not filtered, so p may be in any state) of p reaches peer_statusd,    *)
(* which re-arms the status timer.  Either arrives on a live connection   *)
(* of p: the swarm hands the RPC behaviour's events to the service before *)
(* it processes the close.                                                 *)
PeerStatusd(p) ==
    /\ TimerEvents
    /\ conn[p] # "none"
    /\ m' = [m EXCEPT !.statusPeers = @ \cup {p}]
    /\ UNCHANGED <<conn, dialing, appConnected, discBanned, discBannedIps, goodbye>>

(* peers_discovered in the HashMap order o; the peers in ttl came with a  *)
(* min_ttl and may take the priority slots up to max_priority_peers.       *)
RECURSIVE DiscoverEach(_, _, _, _, _)
DiscoverEach(x, o, i, ttl, toDialPeers) ==
    IF i > Len(o) THEN [pm |-> x, n |-> toDialPeers]
    ELSE LET p == o[i]
             count == ConnectedOrDialingCount(x.db) + toDialPeers
             take == /\ ~Contains(x.toDial, p)
                     /\ \/ p \in ttl /\ count < MaxPriorityPeers
                        \/ count < MaxPeers
             x1 == IF p \in ttl THEN [x EXCEPT !.db = UpdateMinTtl(@, p)] ELSE x
         IN  IF ~take THEN DiscoverEach(x, o, i + 1, ttl, toDialPeers)
             ELSE IF ShouldDial(x1.db, p)
             THEN DiscoverEach(DialPeer(x1, p), o, i + 1, ttl, toDialPeers + 1)
             ELSE DiscoverEach(x1, o, i + 1, ttl, toDialPeers)

(* Discovery returns the peers S, those in ttl from a subnet query with a *)
(* min_ttl; banned peers are not returned.  A query that found no useful  *)
(* peer ends the recursion; an empty one runs maintain_peer_count(0).      *)
Discovered(S) ==
    /\ S \cap discBanned = {} /\ Room
    /\ \E o \in SetToSeqs(S), ttl \in IF DutyEvents THEN SUBSET S ELSE {{}} :
         LET r == DiscoverEach(m, o, 1, ttl, 0)
         IN  m' = IF S # {} /\ r.n = 0 THEN r.pm ELSE MaintainPeerCount(r.pm, r.n)
    /\ UNCHANGED <<conn, dialing, appConnected, discBanned, discBannedIps, goodbye>>

(* Service::dial_trusted_peer: add_trusted_peer, then dial_peer *)
AddTrusted(p) ==
    /\ Room
    /\ m' = DialPeer([m EXCEPT !.trusted = @ \cup {p}], p)
    /\ UNCHANGED <<conn, dialing, appConnected, discBanned, discBannedIps, goodbye>>

(* Service::remove_trusted_peer: remove_trusted_peer, then                 *)
(* disconnect_peer(TooManyPeers)                                           *)
RemoveTrusted(p) ==
    /\ Room
    /\ m' = DisconnectPeer([m EXCEPT !.trusted = @ \ {p}], p)
    /\ UNCHANGED <<conn, dialing, appConnected, discBanned, discBannedIps, goodbye>>

(* Network::discover_subnet_peers, called for a validator's subnet        *)
(* subscription: one subnet, with or without a min_ttl.                    *)
DiscoverSubnetPeersCall(sn, ttl) ==
    /\ DutyEvents /\ Room
    /\ \E cached \in SUBSET Peers :
         m' = DiscoverSubnets(m, <<[subnet |-> sn, ttl |-> ttl]>>, cached)
    /\ UNCHANGED <<conn, dialing, appConnected, discBanned, discBannedIps, goodbye>>

(* Time passes the min_ttl of p: has_future_duty becomes false *)
DutyExpires(p) ==
    /\ DutyEvents /\ m.db.info[p].duty
    /\ m' = [m EXCEPT !.db.info[p].duty = FALSE]
    /\ UNCHANGED <<conn, dialing, appConnected, discBanned, discBannedIps, goodbye>>

Next ==
    \/ Heartbeat
    \/ DeliverEvent
    \/ PollDial
    \/ \E p \in Peers :
         \/ DialFails(p) \/ DialConnects(p) \/ Inbound(p) \/ ConnectionClosed(p)
         \/ GoodbyeClosed(p)
         \/ PingTimerFires(p) \/ StatusTimerFires(p)
         \/ PingRequest(p) \/ PeerStatusd(p) \/ DutyExpires(p)
         \/ \E a \in ReportActions : Report(p, a)
         \/ \E d \in {"Incoming", "Outgoing"} :
              \E a \in RpcReports(d) : HandleRpcError(p, d, a)
    \/ \E S \in SUBSET Peers : Discovered(S)
    \/ \E sn \in AttSubnets \cup SyncSubnets, ttl \in BOOLEAN :
         DiscoverSubnetPeersCall(sn, ttl)
    \/ \E p \in TrustedCandidates : AddTrusted(p) \/ RemoveTrusted(p)

Spec == Init /\ [][Next]_vars

(***************************************************************************)
(* Fairness: the swarm polls the peer manager, which returns its events   *)
(* and, with none left, dials from peers_to_dial (WF on DeliverEvent and  *)
(* PollDial).  Reports, dials, discovery and the remote side are not      *)
(* fair.  That the RPC handler closes a connection it sent a Goodbye on   *)
(* is stated where it is used, as GoodbyeHonoured.                        *)
(***************************************************************************)
Fairness ==
    /\ WF_vars(DeliverEvent)
    /\ WF_vars(PollDial)

(* The RPC handler closes every connection it said Goodbye on *)
GoodbyeHonoured == \A p \in Peers : (p \in goodbye) ~> (p \notin goodbye)

FairSpec == Spec /\ Fairness
====
