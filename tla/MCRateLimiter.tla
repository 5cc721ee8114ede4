--------------------------- MODULE MCRateLimiter ---------------------------
(***************************************************************************)
(* One peer, the Ping limiter (4 tokens of time per 2 tokens, t = 2) and  *)
(* the LightClientBootstrap limiter (5 per 2: t = 5 / 2 rounds down to 2), *)
(* which prune never visits; costs of 1 and 2 tokens and one of u64::MAX   *)
(* (the large_tokens test), time up to 5.  u64::MAX is scaled to 31: far   *)
(* above every TAT the times reach, as it is above every TAT of a node    *)
(* running less than 500 years (the Nanosecs comment), while cost * t     *)
(* still saturates.  The constants are set in MCRateLimiter.cfg.          *)
(***************************************************************************)
EXTENDS RateLimiter, SequencesExt

MCQuota == [p \in Protocols |->
               IF p = "Ping" THEN [replenish_all_every |-> 4, max_tokens |-> 2]
                             ELSE [replenish_all_every |-> 5, max_tokens |-> 2]]

Answers == [proto: Protocols, res: {"Ok", "TooLarge", "TooSoon"}, wait: 0..MaxNs]

(* The type invariant *)
TypeOK ==
    /\ now \in 0..MaxTime
    /\ \A p \in Protocols, k \in Keys :
          /\ tat[p][k] = Absent \/ tat[p][k] \in 0..MaxNs
          /\ accepted[p][k] \in Seq((0..MaxTime) \X Tokens)
    /\ last = NoResult \/ last \in Answers

(* The GCRA rate bound the Quota comment promises: over the allowed        *)
(* requests of one peer and protocol between any two of them, the tokens   *)
(* times t never exceed the time between them plus tau (a full burst plus  *)
(* one token per t; tau is the quota's replenish_all_every), whatever the interleaving of requests and prunes.     *)
BurstBound ==
    \A p \in Protocols, k \in Keys :
        LET acc == accepted[p][k]
            t == LimiterT(Quota[p])
            cost(i, j) == FoldLeft(LAMBDA s, x : s + x[2] * t, 0, SubSeq(acc, i, j))
        IN  \A i, j \in 1..Len(acc) :
                i <= j => cost(i, j) <= acc[j][1] - acc[i][1] + Quota[p].replenish_all_every

(* The limiter implements the GCRA meter in which every peer has a bucket  *)
(* from the start: adding entries with or_insert, the max of now and the   *)
(* TAT, and pruning the entries of full buckets are never observable in    *)
(* the answers of allows.                                                  *)
Gcra == INSTANCE GcraSpec WITH
    Tau <- [p \in Protocols |-> LimiterTau(Quota[p])],
    T <- [p \in Protocols |-> LimiterT(Quota[p])],
    due <- [p \in Protocols |-> [k \in Keys |->
               IF tat[p][k] = Absent THEN now ELSE MaxNat(tat[p][k], now)]]
GcraRefinement == Gcra!Spec

====
