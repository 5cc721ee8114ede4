------------------------------- MODULE PeerDB -------------------------------
(***************************************************************************)
(* The peer database of src/peer_manager/peerdb.rs, as pure operators on a *)
(* record `db`.  The database is owned by the peer manager and changed     *)
(* only through the operators below; PeerManager.tla composes them with    *)
(* the manager's handlers and the swarm.                                   *)
(*                                                                         *)
(*   db.peers         the keys of the `peers` HashMap                      *)
(*   db.info[p]       the PeerInfo of p (status, to_ban flag of            *)
(*                    Disconnecting, directions of the live connection,    *)
(*                    score, is_trusted, seen IP addresses, and duty:      *)
(*                    has_future_duty, a min_ttl still in the future)      *)
(*   db.since         peers ordered by the `since` Instant of their        *)
(*                    Dialing/Disconnected/Banned status, oldest first     *)
(*   db.disconnected  the `disconnected_peers` counter                     *)
(*   db.banned        banned_peers_count.banned_peers                      *)
(*   db.perIp         banned_peers_count.banned_peers_per_ip               *)
(*                                                                         *)
(* The score (score.rs, not part of this repository) is abstracted to a    *)
(* small integer range: MAX_SCORE is Score::Max of trusted peers, actions  *)
(* lower the score, decay raises it towards 0.                             *)
(***************************************************************************)
EXTENDS Integers, FiniteSets, Sequences, SequencesExt

CONSTANTS
    Peers, IPs,
    MAX_DC_PEERS, MAX_BANNED_PEERS, BANNED_PEERS_PER_IP_THRESHOLD,
    MIN_SCORE, MIN_SCORE_BEFORE_BAN, MIN_SCORE_BEFORE_DISCONNECT, MAX_SCORE,
    Penalty,            \* score lost per non-fatal PeerAction
    DisablePeerScoring  \* config.disable_peer_scoring

PeerActions == {"Fatal", "LowToleranceError", "MidToleranceError",
                "HighToleranceError"}
Statuses == {"Unknown", "Dialing", "Connected", "Disconnecting",
             "Disconnected", "Banned"}
Scores == MIN_SCORE..MAX_SCORE
SatSub(n) == IF n > 0 THEN n - 1 ELSE 0

DefaultInfo == [status |-> "Unknown", toBan |-> FALSE, dirs |-> {},
                score |-> 0, trusted |-> FALSE, ips |-> {}, duty |-> FALSE]
TrustedInfo == [DefaultInfo EXCEPT !.score = MAX_SCORE, !.trusted = TRUE]

EmptyDB(trustedPeers) ==
    [peers |-> trustedPeers,
     info |-> [p \in Peers |-> IF p \in trustedPeers THEN TrustedInfo
                                                    ELSE DefaultInfo],
     since |-> <<>>, disconnected |-> 0, banned |-> 0,
     perIp |-> [i \in IPs |-> 0]]

(* score.rs: the three score states *)
ScoreState(s) ==
    IF s <= MIN_SCORE_BEFORE_BAN THEN "Banned"
    ELSE IF s <= MIN_SCORE_BEFORE_DISCONNECT THEN "ForcedDisconnect"
    ELSE "Healthy"

(* PeerInfo::apply_peer_action_to_score; Score::Max ignores actions *)
ApplyPeerAction(inf, a) ==
    IF inf.score = MAX_SCORE THEN inf
    ELSE [inf EXCEPT !.score = IF a = "Fatal" THEN MIN_SCORE
                               ELSE IF @ - Penalty[a] < MIN_SCORE THEN MIN_SCORE
                               ELSE @ - Penalty[a]]

IsConnectedOrDialing(inf) == inf.status \in {"Connected", "Dialing"}

(* BannedPeersCount *)
IpIsBanned(d, i) == d.perIp[i] > BANNED_PEERS_PER_IP_THRESHOLD
BannedIps(d) == {i \in IPs : IpIsBanned(d, i)}
AddBannedPeer(d, S) ==
    [d EXCEPT !.banned = @ + 1,
              !.perIp = [i \in IPs |-> IF i \in S THEN @[i] + 1 ELSE @[i]]]
(* Mutant: remove_banned_peer decrements every IP, not only the peer's *)
RemoveBannedPeerAllIps(d, S) ==
    [d EXCEPT !.banned = SatSub(@), !.perIp = [i \in IPs |-> @[i] - 1]]

RemoveBannedPeer(d, S) ==
    [d EXCEPT !.banned = SatSub(@),
              !.perIp = [i \in IPs |-> IF i \in S THEN SatSub(@[i]) ELSE @[i]]]

(* Queries used by the peer manager and the swarm gating *)
InDB(d, p) == p \in d.peers
StatusOf(d, p) == IF InDB(d, p) THEN d.info[p].status ELSE "None"
BanStatus(d, p) ==
    /\ InDB(d, p)
    /\ \/ ScoreState(d.info[p].score) = "Banned"
       \/ \E i \in d.info[p].ips : IpIsBanned(d, i)
(* score_state_banned_or_disconnected: a Banned or ForcedDisconnect score, *)
(* or else an IP of the peer that is banned                                *)
ScoreStateBannedOrDisconnected(d, p) ==
    /\ InDB(d, p)
    /\ \/ ScoreState(d.info[p].score) # "Healthy"
       \/ \E i \in d.info[p].ips : IpIsBanned(d, i)

(* Mutant: should_dial without the Unknown arm *)
ShouldDialNoUnknown(d, p) ==
    /\ StatusOf(d, p) \in {"Disconnected", "None"}
    /\ ~ScoreStateBannedOrDisconnected(d, p)

ShouldDial(d, p) ==
    /\ StatusOf(d, p) \in {"Disconnected", "Unknown", "None"}
    /\ ~ScoreStateBannedOrDisconnected(d, p)
PeersIn(d, S) == {p \in d.peers : d.info[p].status \in S}

(* Stamping a status with Instant::now() makes p the youngest *)
Stamp(d, p) == [d EXCEPT !.since = Append(Remove(@, p), p)]
Oldest(d, S) == Head(SelectSeq(d.since, LAMBDA q : q \in S))
RemovePeer(d, p) ==
    [d EXCEPT !.peers = @ \ {p}, !.info[p] = DefaultInfo,
              !.since = Remove(@, p)]
SetStatus(d, p, st, b) ==
    [d EXCEPT !.info[p].status = st, !.info[p].toBan = b,
              !.info[p].dirs = IF st = "Connected" THEN @ ELSE {}]

Result(d, op, ips) == [db |-> d, op |-> op, ips |-> ips]
ReadyToBan(d, p) == Result(d, "ReadyToBan", d.info[p].ips \cap BannedIps(d))

(***************************************************************************)
(* update_connection_state, one operator per NewConnectionState.  Each     *)
(* takes the db after the entry of p exists and returns Result(db, op,     *)
(* ips), op being the Option<BanOperation> ("None" for None).              *)
(***************************************************************************)
ToConnected(d, p, dir, ip) ==
    LET old == d.info[p].status
        d1 == CASE old = "Disconnected" -> [d EXCEPT !.disconnected = SatSub(@)]
                [] old = "Banned" -> RemoveBannedPeer(d, d.info[p].ips)
                [] OTHER -> d
    IN  Result([d1 EXCEPT !.info[p].status = "Connected",
                          !.info[p].toBan = FALSE,
                          !.info[p].ips = @ \cup {ip},
                          !.info[p].dirs = IF old = "Connected" THEN @ \cup {dir}
                                           ELSE {dir}], "None", {})

(* Mutant: dialing a Disconnected peer leaves disconnected_peers *)
ToDialingKeepsCounter(d, p) ==
    LET old == d.info[p].status
        d1 == IF old = "Banned" THEN RemoveBannedPeer(d, d.info[p].ips) ELSE d
        canDial == old \in {"Unknown", "Disconnected", "Banned"}
    IN  Result(IF canDial THEN Stamp(SetStatus(d1, p, "Dialing", FALSE), p)
                          ELSE d1, "None", {})

ToDialing(d, p) ==
    LET old == d.info[p].status
        d1 == CASE old = "Banned" -> RemoveBannedPeer(d, d.info[p].ips)
                [] old = "Disconnected" -> [d EXCEPT !.disconnected = SatSub(@)]
                [] OTHER -> d
        \* PeerInfo::set_dialing_peer refuses Connected, Dialing, Disconnecting
        canDial == old \in {"Unknown", "Disconnected", "Banned"}
    IN  Result(IF canDial THEN Stamp(SetStatus(d1, p, "Dialing", FALSE), p)
                          ELSE d1, "None", {})

(* Mutant: a Connected peer is treated like an already disconnected one *)
ToDisconnectedIgnoresConnected(d, p) ==
    LET old == d.info[p].status
        dc == [Stamp(SetStatus(d, p, "Disconnected", FALSE), p)
                  EXCEPT !.disconnected = @ + 1]
    IN  CASE old \in {"Banned", "Disconnected", "Connected"} -> Result(d, "None", {})
          [] old = "Disconnecting" /\ d.info[p].toBan ->
                ReadyToBan(AddBannedPeer(Stamp(SetStatus(d, p, "Banned", FALSE), p),
                                         d.info[p].ips), p)
          [] old = "Disconnecting" -> Result(dc, "TemporaryBan", {})
          [] OTHER -> Result(dc, "None", {})

ToDisconnected(d, p) ==
    LET old == d.info[p].status
        dc == [Stamp(SetStatus(d, p, "Disconnected", FALSE), p)
                  EXCEPT !.disconnected = @ + 1]
    IN  CASE old \in {"Banned", "Disconnected"} -> Result(d, "None", {})
          [] old = "Disconnecting" /\ d.info[p].toBan ->
                ReadyToBan(AddBannedPeer(Stamp(SetStatus(d, p, "Banned", FALSE), p),
                                         d.info[p].ips), p)
          [] old = "Disconnecting" -> Result(dc, "TemporaryBan", {})
          [] OTHER -> Result(dc, "None", {})

(* Mutant: Disconnected -> Disconnecting leaves disconnected_peers *)
ToDisconnectingKeepsCounter(d, p, toBan) ==
    Result(SetStatus(d, p, "Disconnecting", toBan), "None", {})

ToDisconnecting(d, p, toBan) ==
    LET d1 == IF d.info[p].status = "Disconnected"
              THEN [d EXCEPT !.disconnected = SatSub(@)] ELSE d
    IN  Result(SetStatus(d1, p, "Disconnecting", toBan), "None", {})

ToBanned(d, p) ==
    LET old == d.info[p].status
        banNow(d1) == ReadyToBan(AddBannedPeer(Stamp(SetStatus(d1, p, "Banned", FALSE), p),
                                               d.info[p].ips), p)
    IN  CASE old = "Disconnected" ->
                banNow([d EXCEPT !.disconnected = SatSub(@)])
          [] old = "Disconnecting" ->
                Result(SetStatus(d, p, "Disconnecting", TRUE), "PeerDisconnecting", {})
          [] old = "Banned" -> ReadyToBan(d, p)
          [] old \in {"Connected", "Dialing"} ->
                Result(SetStatus(d, p, "Disconnecting", TRUE), "DisconnectThePeer", {})
          [] old = "Unknown" -> banNow(d)

(* Mutant: unbanning does not call remove_banned_peer *)
ToUnbannedKeepsCount(d, p) ==
    IF d.info[p].status = "Banned"
    THEN Result([SetStatus(d, p, "Disconnected", FALSE)
                    EXCEPT !.disconnected = @ + 1], "None", {})
    ELSE Result(d, "None", {})

ToUnbanned(d, p) ==
    IF d.info[p].status = "Banned"
    THEN Result([RemoveBannedPeer(SetStatus(d, p, "Disconnected", FALSE), d.info[p].ips)
                    EXCEPT !.disconnected = @ + 1], "None", {})
    ELSE Result(d, "None", {})

(* ns is a NewConnectionState: [kind, dir, ip, toBan] *)
UpdateConnectionState(d, p, ns) ==
    LET d0 == IF InDB(d, p) THEN d
              ELSE [d EXCEPT !.peers = @ \cup {p},
                             !.info[p] = IF DisablePeerScoring THEN TrustedInfo
                                         ELSE DefaultInfo]
        inf == d0.info[p]
        d1 == IF ns.kind = "Banned" /\ ScoreState(inf.score) # "Banned"
              THEN [d0 EXCEPT !.info[p] = ApplyPeerAction(inf, "Fatal")]
              ELSE d0
    IN  CASE ns.kind = "Connected"     -> ToConnected(d1, p, ns.dir, ns.ip)
          [] ns.kind = "Dialing"       -> ToDialing(d1, p)
          [] ns.kind = "Disconnected"  -> ToDisconnected(d1, p)
          [] ns.kind = "Disconnecting" -> ToDisconnecting(d1, p, ns.toBan)
          [] ns.kind = "Banned"        -> ToBanned(d1, p)
          [] ns.kind = "Unbanned"      -> ToUnbanned(d1, p)

NS(kind) == [kind |-> kind, dir |-> "none", ip |-> "none", toBan |-> FALSE]
ConnectedNS(dir, ip) == [NS("Connected") EXCEPT !.dir = dir, !.ip = ip]
DisconnectingNS(b) == [NS("Disconnecting") EXCEPT !.toBan = b]

(***************************************************************************)
(* shrink_to_fit: drop the oldest banned peers while the banned count      *)
(* exceeds MAX_BANNED_PEERS (resetting the counts when no banned peer is   *)
(* left), then the oldest non-trusted disconnected peers while the         *)
(* disconnected counter exceeds MAX_DC_PEERS.  The counter is decremented  *)
(* on every round, whether or not a peer was dropped.                      *)
(***************************************************************************)
RECURSIVE DropBanned(_, _)
DropBanned(d, purged) ==
    IF d.banned <= MAX_BANNED_PEERS THEN [db |-> d, purged |-> purged]
    ELSE LET B == PeersIn(d, {"Banned"})
         IN  IF B = {}
             THEN [db |-> [d EXCEPT !.banned = 0, !.perIp = [i \in IPs |-> 0]],
                   purged |-> purged]
             ELSE LET q == Oldest(d, B)
                      d1 == RemoveBannedPeer(d, d.info[q].ips)
                      unbannedIps == {i \in d.info[q].ips : ~IpIsBanned(d1, i)}
                  IN  DropBanned(RemovePeer(d1, q), purged \cup {<<q, unbannedIps>>})

RECURSIVE DropDisconnected(_)
DropDisconnected(d) ==
    IF d.disconnected <= MAX_DC_PEERS THEN d
    ELSE LET D == {q \in PeersIn(d, {"Disconnected"}) : ~d.info[q].trusted}
             d1 == IF D = {} THEN d ELSE RemovePeer(d, Oldest(d, D))
         IN  DropDisconnected([d1 EXCEPT !.disconnected = SatSub(@)])

ShrinkToFit(d) ==
    LET r == DropBanned(d, {})
    IN  [db |-> DropDisconnected(r.db), purged |-> r.purged]

(* handle_score_transition(previous_state, info) *)
HandleScoreTransition(prev, inf) ==
    LET new == ScoreState(inf.score)
    IN  CASE new = "Banned" /\ prev # "Banned" -> "Banned"
          [] new = "ForcedDisconnect" /\ prev # "ForcedDisconnect" ->
                IF IsConnectedOrDialing(inf) THEN "Disconnected"
                ELSE IF prev = "Banned" THEN "Unbanned" ELSE "NoAction"
          [] new = "Healthy" /\ prev = "Banned" -> "Unbanned"
          [] OTHER -> "NoAction"

(***************************************************************************)
(* report_peer: returns the new db and the ScoreUpdateResult, as           *)
(* [db, res, op, ips] with res in {"Ban", "Disconnect", "NoAction"}; a     *)
(* Ban carries the BanOperation (op, ips).                                 *)
(***************************************************************************)
ReportPeer(d, p, a) ==
    IF ~InDB(d, p) THEN [db |-> d, res |-> "NoAction", op |-> "None", ips |-> {}]
    ELSE LET inf == ApplyPeerAction(d.info[p], a)
             tr == HandleScoreTransition(ScoreState(d.info[p].score), inf)
             d1 == [d EXCEPT !.info[p] = inf]
         IN  CASE tr = "Banned" ->
                    LET r == UpdateConnectionState(d1, p, NS("Banned"))
                    IN  [db |-> r.db, res |-> IF r.op = "None" THEN "NoAction" ELSE "Ban",
                         op |-> r.op, ips |-> r.ips]
               [] tr = "Disconnected" ->
                    [db |-> UpdateConnectionState(d1, p, DisconnectingNS(FALSE)).db,
                     res |-> "Disconnect", op |-> "None", ips |-> {}]
               [] OTHER -> [db |-> d1, res |-> "NoAction", op |-> "None", ips |-> {}]

(***************************************************************************)
(* update_scores: every peer in `decayed` has its score decay one step     *)
(* towards 0 (score_update; Score::Max and non-negative scores stay);      *)
(* the peers whose transition is Unbanned are then unbanned one after the  *)
(* other (HashMap order, fixed here by CHOOSE), each with the IPs that are *)
(* no longer banned after its own unban.                                   *)
(***************************************************************************)
Decay(inf) ==
    IF inf.score < 0 THEN [inf EXCEPT !.score = @ + 1] ELSE inf

RECURSIVE UnbanEach(_, _, _)
UnbanEach(d, todo, out) ==
    IF todo = {} THEN [db |-> d, unbanned |-> out]
    ELSE LET p == CHOOSE q \in todo : TRUE
             d1 == UpdateConnectionState(d, p, NS("Unbanned")).db
         IN  UnbanEach(d1, todo \ {p},
                       out \cup {<<p, {i \in d1.info[p].ips : ~IpIsBanned(d1, i)}>>})

UpdateScores(d, decayed) ==
    LET d1 == [d EXCEPT !.info = [p \in Peers |->
                  IF p \in decayed /\ p \in d.peers THEN Decay(@[p]) ELSE @[p]]]
        U == {p \in d.peers :
                HandleScoreTransition(ScoreState(d.info[p].score), d1.info[p])
                    = "Unbanned"}
    IN  UnbanEach(d1, U, {})

(* cleanup_dialing_peers: the Dialing peers in `timedOut` become           *)
(* Disconnected; the BanOperations are dropped and no shrink follows.      *)
RECURSIVE DisconnectEach(_, _)
DisconnectEach(d, S) ==
    IF S = {} THEN d
    ELSE LET p == CHOOSE q \in S : TRUE
         IN  DisconnectEach(UpdateConnectionState(d, p, NS("Disconnected")).db, S \ {p})

CleanupDialingPeers(d, timedOut) ==
    DisconnectEach(d, timedOut \cap PeersIn(d, {"Dialing"}))

(* Mutant: inject_disconnect without the shrink_to_fit that ends it *)
InjectDisconnectNoShrink(d, p) ==
    LET r == UpdateConnectionState(d, p, NS("Disconnected"))
    IN  [db |-> r.db, op |-> r.op, ips |-> r.ips, purged |-> {}]

(* inject_disconnect *)
InjectDisconnect(d, p) ==
    LET r == UpdateConnectionState(d, p, NS("Disconnected"))
        s == ShrinkToFit(r.db)
    IN  [db |-> s.db, op |-> r.op, ips |-> r.ips, purged |-> s.purged]

(* set_trusted_peer / unset_trusted_peer *)
SetTrustedPeer(d, p) ==
    IF InDB(d, p)
    THEN [d EXCEPT !.info[p].score = MAX_SCORE, !.info[p].trusted = TRUE]
    ELSE [d EXCEPT !.peers = @ \cup {p}, !.info[p] = TrustedInfo]

UnsetTrustedPeer(d, p) ==
    IF InDB(d, p)
    THEN [d EXCEPT !.info[p].score = 0, !.info[p].trusted = FALSE]
    ELSE d

(* update_min_ttl: entry().or_default(), so a peer the database does not   *)
(* hold is inserted as Unknown; the min_ttl is set if it is later (every   *)
(* min_ttl given is in the future, so the peer has a future duty).         *)
UpdateMinTtl(d, p) ==
    [d EXCEPT !.peers = @ \cup {p}, !.info[p].duty = TRUE]

(* extend_peers_on_subnet: every Connected peer on the subnet (the peers   *)
(* in onSubnet, by metadata and gossipsub) gets the later min_ttl.         *)
ExtendPeersOnSubnet(d, onSubnet) ==
    [d EXCEPT !.info = [p \in Peers |->
        IF p \in onSubnet /\ d.info[p].status = "Connected"
        THEN [d.info[p] EXCEPT !.duty = TRUE] ELSE d.info[p]]]
====
