------------------------------ MODULE GcraSpec ------------------------------
(***************************************************************************)
(* What the RPC rate limiter promises (src/rpc/rate_limiter.rs): one GCRA  *)
(* meter per protocol and peer that every peer has from the start, with no *)
(* entries to add or prune.  due[p][k] is the time at which the bucket of  *)
(* k for protocol p is full again, never earlier than now: an idle bucket  *)
(* stays full as time passes.  A request of n tokens costs n * T[p]; it is *)
(* refused as too large when that exceeds Tau[p], too soon when it would   *)
(* bring due past now + Tau[p], and otherwise moves due by its cost.       *)
(* Arithmetic saturates at MaxNs, which stands for u64::MAX.               *)
(***************************************************************************)
EXTENDS Naturals

CONSTANTS Keys, Protocols, Tokens, Tau, T, MaxNs, NoResult

VARIABLES now, due, last

SatAddNs(a, b) == IF a + b > MaxNs THEN MaxNs ELSE a + b
SatSubNs(a, b) == IF a < b THEN 0 ELSE a - b
SatMulNs(a, b) == IF a * b > MaxNs THEN MaxNs ELSE a * b
MaxNat(a, b) == IF a >= b THEN a ELSE b

Init ==
    /\ now = 0
    /\ due = [p \in Protocols |-> [k \in Keys |-> 0]]
    /\ last = NoResult

(* Time passes; a full bucket stays full *)
Tick ==
    /\ now < MaxNs
    /\ now' = now + 1
    /\ due' = [p \in Protocols |-> [k \in Keys |-> MaxNat(due[p][k], now')]]
    /\ UNCHANGED last

Request(p, k, n) ==
    LET cost == SatMulNs(T[p], n)
        earliest == SatSubNs(SatAddNs(due[p][k], cost), Tau[p])
    IN  /\ \/ cost > Tau[p]
              /\ last' = [proto |-> p, res |-> "TooLarge", wait |-> 0]
              /\ UNCHANGED due
           \/ cost <= Tau[p] /\ now < earliest
              /\ last' = [proto |-> p, res |-> "TooSoon", wait |-> earliest - now]
              /\ UNCHANGED due
           \/ cost <= Tau[p] /\ now >= earliest
              /\ last' = [proto |-> p, res |-> "Ok", wait |-> 0]
              /\ due' = [due EXCEPT ![p][k] = SatAddNs(@, cost)]
        /\ UNCHANGED now

Next ==
    \/ Tick
    \/ \E p \in Protocols, k \in Keys, n \in Tokens : Request(p, k, n)

Spec == Init /\ [][Next]_<<now, due, last>>
====
