------------------------------ MODULE Pruning ------------------------------
(***************************************************************************)
(* PeerManager::prune_excess_peers (src/peer_manager/mod.rs) as a pure     *)
(* operator: given a snapshot of the connected peers it yields the SET of  *)
(* peer sets the heartbeat may disconnect.  The set is not a singleton     *)
(* because the code breaks ties nondeterministically: equal scores in      *)
(* worst_connected_peers (HashMap order), equally large subnets in         *)
(* max_by_key, and the shuffle before the stable sort by                   *)
(* long_lived_subnet_count.                                                *)
(*                                                                         *)
(* A snapshot s is a record                                                *)
(*   s.conn       the connected peers                                      *)
(*   s.score      [Peers -> Int]   score().score()                         *)
(*   s.outOnly    [Peers -> BOOLEAN] is_outbound_only                      *)
(*   s.duty       [Peers -> BOOLEAN] has_future_duty (min_ttl in future)   *)
(*   s.trusted    [Peers -> BOOLEAN] is_trusted                            *)
(*   s.att        [Peers -> SUBSET AttSubnets]  long-lived attestation     *)
(*   s.sync       [Peers -> SUBSET SyncSubnets] long-lived sync committee  *)
(*   s.target     target_peers;  s.targetOut  target_outbound_peers()      *)
(***************************************************************************)
EXTENDS Integers, FiniteSets, Sequences, SequencesExt

CONSTANTS AttSubnets, SyncSubnets, MIN_SYNC_COMMITTEE_PEERS

Excess(s) == IF Cardinality(s.conn) > s.target
             THEN Cardinality(s.conn) - s.target ELSE 0
ConnectedOutbound(s) == {p \in s.conn : s.outOnly[p]}
HasLongLivedSubnet(s, p) == s.att[p] \cup s.sync[p] # {}
LongLivedSubnetCount(s, p) == Cardinality(s.att[p]) + Cardinality(s.sync[p])

(* worst_connected_peers: every order of the connected peers sorted by     *)
(* ascending score                                                         *)
WorstOrders(s) ==
    {o \in SetToSeqs(s.conn) : IsSorted(o, LAMBDA x, y : s.score[x] <= s.score[y])}

(* The filter of each prune_peers! invocation: pass 1 takes the peers with *)
(* a negative score, pass 2 those without a long-lived subnet.             *)
PassFilter(s, pass, p) ==
    IF pass = 1 THEN s.score[p] < 0 ELSE ~HasLongLivedSubnet(s, p)

(* Mutant: prune_peers! without the outbound-only guard *)
RECURSIVE PrunePassNoOutboundGuard(_, _, _, _, _)
PrunePassNoOutboundGuard(s, o, i, pass, st) ==
    IF i > Len(o) THEN st
    ELSE LET p == o[i] IN
         IF s.duty[p] \/ s.trusted[p] \/ ~PassFilter(s, pass, p)
         THEN PrunePassNoOutboundGuard(s, o, i + 1, pass, st)
         ELSE IF Cardinality(st.prune) >= Excess(s) THEN st
         ELSE PrunePassNoOutboundGuard(s, o, i + 1, pass,
                  [prune |-> st.prune \cup {p},
                   outPruned |-> IF s.outOnly[p] THEN st.outPruned + 1 ELSE st.outPruned])

(* One run of the prune_peers! macro over the order o from position i.     *)
(* st = [prune, outPruned].                                                *)
RECURSIVE PrunePass(_, _, _, _, _)
PrunePass(s, o, i, pass, st) ==
    IF i > Len(o) THEN st
    ELSE LET p == o[i] IN
         IF s.duty[p] \/ s.trusted[p] \/ ~PassFilter(s, pass, p) THEN PrunePass(s, o, i + 1, pass, st)
         ELSE IF Cardinality(st.prune) >= Excess(s) THEN st
         ELSE IF p \in st.prune THEN PrunePass(s, o, i + 1, pass, st)
         ELSE IF s.outOnly[p]
              THEN IF s.targetOut + st.outPruned < Cardinality(ConnectedOutbound(s))
                   THEN PrunePass(s, o, i + 1, pass,
                            [prune |-> st.prune \cup {p}, outPruned |-> st.outPruned + 1])
                   ELSE PrunePass(s, o, i + 1, pass, st)
              ELSE PrunePass(s, o, i + 1, pass,
                            [st EXCEPT !.prune = @ \cup {p}])

(* Pass 1 (score < 0) and, while the quota is not met, pass 2 (no          *)
(* long-lived subnet), over the same order.                                *)
FirstPasses(s, o) ==
    LET st1 == PrunePass(s, o, 1, 1, [prune |-> {}, outPruned |-> 0])
    IN  IF Cardinality(st1.prune) < Excess(s)
        THEN PrunePass(s, o, 1, 2, st1)
        ELSE st1

(***************************************************************************)
(* Pass 3, subnet rebalancing.  st3 = [prune, outPruned, onSubnet,         *)
(* syncCount]: onSubnet[a] is the list of subnet_to_peer for a (as a set), *)
(* syncCount[c] the sync_committee_peer_count of c.                        *)
(***************************************************************************)
(* Mutants: subnet_to_peer built without the is_trusted filter, or from   *)
(* every known peer rather than the connected ones                         *)
InitPass3WithTrusted(s, st) ==
    LET cand == {p \in s.conn : p \notin st.prune}
    IN  [prune |-> st.prune, outPruned |-> st.outPruned,
         onSubnet |-> [a \in AttSubnets |-> {p \in cand : a \in s.att[p]}],
         syncCount |-> [c \in SyncSubnets |->
                           Cardinality({p \in cand : c \in s.sync[p]})]]
InitPass3AllPeers(s, st) ==
    LET cand == {p \in DOMAIN s.att : ~s.trusted[p] /\ p \notin st.prune}
    IN  [prune |-> st.prune, outPruned |-> st.outPruned,
         onSubnet |-> [a \in AttSubnets |-> {p \in cand : a \in s.att[p]}],
         syncCount |-> [c \in SyncSubnets |->
                           Cardinality({p \in cand : c \in s.sync[p]})]]

InitPass3(s, st) ==
    LET cand == {p \in s.conn : ~s.trusted[p] /\ p \notin st.prune}
    IN  [prune |-> st.prune, outPruned |-> st.outPruned,
         onSubnet |-> [a \in AttSubnets |-> {p \in cand : a \in s.att[p]}],
         syncCount |-> [c \in SyncSubnets |->
                           Cardinality({p \in cand : c \in s.sync[p]})]]

(* Mutant: the sync-committee guard compares with < instead of <= *)
AcceptableOffByOne(s, st, p) ==
    /\ ~(s.outOnly[p] /\ s.targetOut >= Cardinality(ConnectedOutbound(s)) - st.outPruned)
    /\ ~(s.sync[p] # {} /\ \E c \in s.sync[p] : st.syncCount[c] < MIN_SYNC_COMMITTEE_PEERS)

Acceptable(s, st, p) ==
    /\ ~(s.outOnly[p] /\ s.targetOut >= Cardinality(ConnectedOutbound(s)) - st.outPruned)
    /\ ~(s.sync[p] # {} /\ \E c \in s.sync[p] : st.syncCount[c] <= MIN_SYNC_COMMITTEE_PEERS)

Remove3(s, st, p) ==
    [st EXCEPT !.prune = @ \cup {p},
               !.outPruned = IF s.outOnly[p] THEN @ + 1 ELSE @,
               !.onSubnet = [a \in AttSubnets |-> @[a] \ {p}],
               !.syncCount = [c \in SyncSubnets |->
                                 IF c \in s.sync[p] THEN @[c] - 1 ELSE @[c]]]

RECURSIVE Pass3(_, _)
Pass3(s, st) ==
    LET size(a) == Cardinality(st.onSubnet[a])
        largest == {a \in AttSubnets : size(a) > 0 /\ \A b \in AttSubnets : size(b) <= size(a)}
    IN  IF Cardinality(st.prune) >= Excess(s) \/ largest = {} THEN {st.prune}
        ELSE UNION {
          LET ok == {p \in st.onSubnet[a] : Acceptable(s, st, p)}
              fewest == {p \in ok : \A q \in ok :
                            LongLivedSubnetCount(s, p) <= LongLivedSubnetCount(s, q)}
          IN  IF ok = {} THEN Pass3(s, [st EXCEPT !.onSubnet[a] = {}])
              ELSE UNION {Pass3(s, Remove3(s, st, p)) : p \in fewest}
          : a \in largest}

(* prune_excess_peers: the possible peers_to_prune *)
PruneSets(s) ==
    IF Cardinality(s.conn) <= s.target THEN {{}}
    ELSE UNION {LET st == FirstPasses(s, o)
                IN  IF Cardinality(st.prune) < Excess(s)
                    THEN Pass3(s, InitPass3(s, st)) ELSE {st.prune}
                : o \in WorstOrders(s)}
====
