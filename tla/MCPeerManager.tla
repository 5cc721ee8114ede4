--------------------------- MODULE MCPeerManager ---------------------------
(***************************************************************************)
(* Two peers p1 and p2 behind the same IP i1, target_peers = 1 (so        *)
(* max_peers = 2 and a second connection is an excess to prune).  The      *)
(* PeerDB bounds are scaled to one banned and one disconnected peer and an *)
(* IP is banned once more than one banned peer shares it, so that the      *)
(* eviction of shrink_to_fit and the IP ban are reached with two peers.    *)
(* The connection limits then admit one inbound and two connections in   *)
(* all, so two peers are connected as one inbound and one outbound.       *)
(* p1 and p2 are on attestation subnet a1 and on every sync subnet of the *)
(* config.  p3 (on i2) and a1 are model values the definitions below     *)
(* refer to.                                                               *)
(***************************************************************************)
EXTENDS PeerManager

CONSTANTS p3, i1, i2, a1   \* model values named in the definitions below

MCMinScore == -2
MCMinScoreBeforeDisconnect == -1
MCPeerIp == [p \in Peers |-> IF p = p3 THEN i2 ELSE i1]
MCPenalty == [a \in PeerActions \ {"Fatal"} |->
                 1]
MCPeerAtt == [p \in Peers |-> IF p = p3 THEN {} ELSE {a1}]
MCPeerSync == [p \in Peers |-> IF p = p3 THEN {} ELSE SyncSubnets]

(* The state without the timer sets.  With TimerEvents = FALSE no action *)
(* reads inboundPing, outboundPing or statusPeers (only the timer and RPC *)
(* actions do), so two states that differ only there have the same        *)
(* futures in every other variable; a run whose properties do not mention *)
(* the timers may identify them.                                           *)
TimerFreeView ==
    <<[m EXCEPT !.inboundPing = {}, !.outboundPing = {}, !.statusPeers = {}],
      conn, dialing, appConnected, discBanned, discBannedIps, goodbye>>

(* The type invariant: every variable stays in its domain, every score    *)
(* within MIN_SCORE..MAX_SCORE (apply_peer_action_to_score clamps) and    *)
(* the saturating counters of BannedPeersCount never below zero.          *)
TypeOK ==
    /\ m.db.peers \subseteq Peers
    /\ \A p \in Peers : m.db.info[p].status \in Statuses
                        /\ m.db.info[p].score \in Scores
                        /\ m.db.info[p].duty \in BOOLEAN
    /\ m.db.disconnected \in Nat /\ m.db.banned \in Nat
    /\ m.db.perIp \in [IPs -> Nat]
    /\ m.temp \subseteq Peers /\ m.trusted \subseteq Peers
    /\ m.syncSubnets \subseteq SyncSubnets
    /\ conn \in [Peers -> {"none", "in", "out"}]
    /\ dialing \subseteq Peers
    /\ appConnected \subseteq Peers
    /\ discBanned \subseteq Peers /\ discBannedIps \subseteq IPs
    /\ goodbye \subseteq Peers
    /\ m.inboundPing \cup m.outboundPing \cup m.statusPeers \subseteq Peers

(* The disconnected_peers counter equals the number of Disconnected peers  *)
(* (every status change of update_connection_state and every eviction of   *)
(* shrink_to_fit adjusts it).                                              *)
DisconnectedCounterConsistent ==
    m.db.disconnected = Cardinality(PeersIn(m.db, {"Disconnected"}))

(* BannedPeersCount agrees with the Banned peers: the total, and for each  *)
(* IP the number of Banned peers seen at it.                               *)
BannedCountConsistent ==
    /\ m.db.banned = Cardinality(PeersIn(m.db, {"Banned"}))
    /\ \A i \in IPs :
         m.db.perIp[i] = Cardinality({p \in PeersIn(m.db, {"Banned"}) :
                                        i \in m.db.info[p].ips})

(* The PeerDB never holds a peer as Connected without a live swarm         *)
(* connection: every close reaches inject_disconnect.                      *)
ConnectedHasConnection ==
    \A p \in Peers : StatusOf(m.db, p) = "Connected" => conn[p] # "none"

(* network_behaviour.rs on_dial_failure: "we only update the peer_db if   *)
(* the peer is not already connected" -- a failing dial never takes a     *)
(* peer with a live connection out of Connected/Disconnecting.            *)
SwarmConnectionTracked ==
    \A p \in Peers : conn[p] # "none" =>
        StatusOf(m.db, p) \in {"Connected", "Disconnecting"}

(* Once the events are drained, discovery bans exactly the Banned peers    *)
(* and the temporarily banned ones (Banned/UnBanned events).               *)
DiscoveryBanAgrees ==
    m.events = <<>> => discBanned = PeersIn(m.db, {"Banned"}) \cup m.temp


(* No ping or status timer outlives the connection it was armed for: the  *)
(* inbound (outbound) ping timer is armed only while p has an inbound     *)
(* (outbound) connection, the status timer only while p has one, however  *)
(* inject_peer_connection, ping_request, peer_statusd, a Disconnect score *)
(* result and inject_disconnect interleave.  A timer that survives the    *)
(* close keeps pushing Ping or Status events for a peer that is gone.     *)
TimersOnlyForLiveConnections ==
    \A p \in Peers :
        /\ p \in m.inboundPing => conn[p] = "in"
        /\ p \in m.outboundPing => conn[p] = "out"
        /\ p \in m.statusPeers => conn[p] # "none"

(* Every peer the PeerDB holds as Connected is being polled: its status   *)
(* timer and the ping timer of its connection's direction are armed, from *)
(* inject_peer_connection on, across the disconnects, failed dials and    *)
(* reconnections that reach the same peer.                                 *)
ConnectedPeersPolled ==
    \A p \in PeersIn(m.db, {"Connected"}) :
        /\ p \in m.statusPeers
        /\ p \in (IF conn[p] = "in" THEN m.inboundPing ELSE m.outboundPing)

(* Timed-out dials (cleanup_dialing_peers) and unbans add Disconnected    *)
(* peers without a shrink, so the PeerDB may hold more than MAX_DC_PEERS   *)
(* of them between two disconnects; every inject_disconnect (a closed      *)
(* connection or a failed dial) ends with shrink_to_fit, after which the   *)
(* non-trusted Disconnected peers are again within MAX_DC_PEERS, however   *)
(* many the heartbeats left behind.                                        *)
DisconnectedWithinBound(d) ==
    Cardinality({p \in PeersIn(d, {"Disconnected"}) : ~d.info[p].trusted})
        <= MAX_DC_PEERS

ShrinkRestoresBound ==
    [][\A p \in Peers :
         (ConnectionClosed(p) \/ GoodbyeClosed(p) \/ DialFails(p))
             => DisconnectedWithinBound(m'.db)]_vars

(* update_min_ttl inserts a peer the PeerDB does not hold as Unknown      *)
(* (entry().or_default()) before dial_peer decides; shrink_to_fit never    *)
(* evicts an Unknown peer.  Every non-trusted Unknown peer is therefore    *)
(* waiting in peers_to_dial: a discovered peer with a min_ttl is always    *)
(* queued, so no entry is left that nothing will ever dial or remove.      *)
NoOrphanUnknownPeers ==
    \A p \in PeersIn(m.db, {"Unknown"}) :
        m.db.info[p].trusted \/ Contains(m.toDial, p)

(* spec 4.2.2: a peer with a future min_ttl is never pruned.  No heartbeat *)
(* disconnects a Connected peer whose duty (from extend_peers_on_subnet or *)
(* update_min_ttl) has not expired.                                        *)
HeartbeatKeepsDutyPeers ==
    [][Heartbeat =>
         \A p \in PeersIn(m.db, {"Connected"}) :
             m.db.info[p].duty => StatusOf(m'.db, p) = "Connected"]_vars

(* A peer the manager is disconnecting from over a live connection       *)
(* (disconnect_peer, or a report that crosses the disconnect threshold)   *)
(* ends with that connection closed and the peer Disconnected, Banned or  *)
(* evicted by shrink_to_fit, provided the RPC handler closes what it said *)
(* Goodbye on: the DisconnectPeer event must be pushed and reach the      *)
(* service while the connection is live, and inject_disconnect must move  *)
(* the peer on from Disconnecting.                                        *)
DisconnectingResolves ==
    GoodbyeHonoured =>
    \A p \in Peers :
        (StatusOf(m.db, p) = "Disconnecting" /\ conn[p] # "none")
            ~> (/\ conn[p] = "none"
                /\ StatusOf(m.db, p) \in {"Disconnected", "Banned", "None"})
====
