----------------------------- MODULE MCPruning -----------------------------
(***************************************************************************)
(* Checks prune_excess_peers over every snapshot of two or three         *)
(* connected peers with target_peers = 1 (one or two to prune): scores -1  *)
(* or 0, any direction, future duty or not, any long-lived subnets out of  *)
(* two attestation and one sync-committee subnet.  TrustedPeers is fixed   *)
(* by the config.  MIN_SYNC_COMMITTEE_PEERS is scaled from 2 to 1 so that  *)
(* three peers can exceed it.  Each Heartbeat step picks one of the prune  *)
(* sets the code may compute for the snapshot.                             *)
(***************************************************************************)
EXTENDS Pruning

CONSTANTS Peers, TrustedPeers, TARGET_PEERS, TARGET_OUTBOUND

VARIABLES snap, pruned, ran
vars == <<snap, pruned, ran>>

Snapshots ==
    [conn: {S \in SUBSET Peers : Cardinality(S) >= 2}, score: [Peers -> {-1, 0}], outOnly: [Peers -> BOOLEAN],
     duty: [Peers -> BOOLEAN], trusted: {[p \in Peers |-> p \in TrustedPeers]},
     att: [Peers -> SUBSET AttSubnets], sync: [Peers -> SUBSET SyncSubnets],
     target: {TARGET_PEERS}, targetOut: {TARGET_OUTBOUND}]

Init == snap \in Snapshots /\ pruned = {} /\ ran = FALSE

Heartbeat == \E P \in PruneSets(snap) : pruned' = P /\ ran' = TRUE /\ UNCHANGED snap

Spec == Init /\ [][Heartbeat]_vars

Sym == Permutations(Peers \ TrustedPeers) \cup Permutations(AttSubnets)

(* The type invariant; prune_excess_peers only ever picks connected peers *)
TypeOK == snap \in Snapshots /\ pruned \subseteq snap.conn /\ ran \in BOOLEAN

Remaining == snap.conn \ pruned

(* The outbound floor: pruning never takes the outbound-only peers below   *)
(* target_outbound_peers() (the outbound_peers_pruned guards of all three  *)
(* passes).                                                                *)
OutboundFloor ==
    LET out(S) == Cardinality({q \in S : snap.outOnly[q]})
    IN  out(Remaining) >= IF out(snap.conn) < snap.targetOut THEN out(snap.conn)
                                                             ELSE snap.targetOut

(* Trusted peers are never pruned (the is_trusted filter of prune_peers!   *)
(* and of the subnet_to_peer construction).                                *)
TrustedKept == \A p \in pruned : ~snap.trusted[p]

(* A sync-committee subnet is only thinned to MIN_SYNC_COMMITTEE_PEERS by  *)
(* the subnet pass: once a pruned peer with a non-negative score was on    *)
(* it, at least MIN_SYNC_COMMITTEE_PEERS non-trusted peers remain on it.   *)
SyncFloor ==
    \A c \in SyncSubnets :
        (\E p \in pruned : snap.score[p] >= 0 /\ c \in snap.sync[p]) =>
            Cardinality({q \in Remaining : ~snap.trusted[q] /\ c \in snap.sync[q]})
                >= MIN_SYNC_COMMITTEE_PEERS

====
