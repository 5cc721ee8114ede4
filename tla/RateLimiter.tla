----------------------------- MODULE RateLimiter -----------------------------
(***************************************************************************)
(* RPCRateLimiter and Limiter (src/rpc/rate_limiter.rs).  One Limiter per  *)
(* protocol; each keeps tat_per_key, the theoretical arrival time of every *)
(* peer it has seen.  A peer without an entry is a full bucket.  Time is   *)
(* time_since_start in nanoseconds, a u64: the arithmetic saturates at     *)
(* MaxNs, which stands for u64::MAX.  The request cost (max_responses, at  *)
(* least 1) is an input from Tokens.                                       *)
(***************************************************************************)
EXTENDS Naturals, Sequences

CONSTANTS
    Keys,           \* peers
    Protocols,      \* the protocols of the limiters, by name
    Quota,          \* [Protocols -> [replenish_all_every: Nat, max_tokens: Nat]]
    Tokens,         \* the costs a request may have
    MaxNs,          \* u64::MAX
    MaxTime,        \* bound on time_since_start
    Absent,         \* model value: no entry in tat_per_key
    NoResult        \* model value: no request answered yet

VARIABLES
    now,        \* init_time.elapsed()
    tat,        \* tat[p][k]: tat_per_key of the limiter of p, or Absent
    last,       \* the answer to the last allows call
    accepted    \* accepted[p][k]: the <<time, tokens>> of every allowed request

vars == <<now, tat, last, accepted>>

SatAddNs(a, b) == IF a + b > MaxNs THEN MaxNs ELSE a + b
SatSubNs(a, b) == IF a < b THEN 0 ELSE a - b
SatMulNs(a, b) == IF a * b > MaxNs THEN MaxNs ELSE a * b
MaxNat(a, b) == IF a >= b THEN a ELSE b

(* Limiter::from_quota: tau is replenish_all_every in nanoseconds, and t   *)
(* = tau / max_tokens, rounded down; a zero tau is refused                 *)
(* Mutant: a bucket one token larger than the quota *)
LimiterTauPlusOne(q) == q.replenish_all_every + q.replenish_all_every \div q.max_tokens

LimiterTau(q) == q.replenish_all_every
LimiterT(q) == q.replenish_all_every \div q.max_tokens
FromQuotaOk(q) == q.replenish_all_every > 0 /\ q.max_tokens > 0

(* The limiters RPCRateLimiter::prune visits.  The four light-client       *)
(* limiters are not among them.                                            *)
PrunedProtocols ==
    {"Ping", "Status", "MetaData", "Goodbye", "BlocksByRange", "BlocksByRoot",
     "BlobsByRange", "BlobsByRoot", "DataColumnsByRange", "DataColumnsByRoot"}

ASSUME \A p \in Protocols : FromQuotaOk(Quota[p])

Init ==
    /\ now = 0
    /\ tat = [p \in Protocols |-> [k \in Keys |-> Absent]]
    /\ last = NoResult
    /\ accepted = [p \in Protocols |-> [k \in Keys |-> <<>>]]

(* Time passes *)
Tick ==
    /\ now < MaxTime
    /\ now' = now + 1
    /\ UNCHANGED <<tat, last, accepted>>

(* Mutant: the new TAT without the max with the current time *)
NewTatNoMax(cur, add) == SatAddNs(cur, add)

(* The TAT after an allowed request *)
NewTat(cur, add) == SatAddNs(MaxNat(now, cur), add)

(* Mutant: the wait of TooSoon computed the other way round *)
TooSoonWaitSwapped(earliest) == now - earliest

(* TooSoon's wait: how soon the request was *)
TooSoonWait(earliest) == SatSubNs(earliest, now)

(* RPCRateLimiter::allows -> Limiter::allows for the limiter of p.  A too  *)
(* large batch returns before the entry is made; otherwise or_insert puts  *)
(* a new peer at now, and the request is too soon while now is before      *)
(* tat + cost - tau.                                                       *)
Allows(p, k, n) ==
    LET tau == LimiterTau(Quota[p])
        add == SatMulNs(LimiterT(Quota[p]), n)
        cur == IF tat[p][k] = Absent THEN now ELSE tat[p][k]
        earliest == SatSubNs(SatAddNs(cur, add), tau)
        answer(res, wait) == [proto |-> p, res |-> res, wait |-> wait]
    IN  /\ \/ add > tau
              /\ last' = answer("TooLarge", 0)
              /\ UNCHANGED <<tat, accepted>>
           \/ add <= tau /\ now < earliest
              /\ last' = answer("TooSoon", TooSoonWait(earliest))
              /\ tat' = [tat EXCEPT ![p][k] = cur]
              /\ UNCHANGED accepted
           \/ add <= tau /\ now >= earliest
              /\ last' = answer("Ok", 0)
              /\ tat' = [tat EXCEPT ![p][k] = NewTat(cur, add)]
              /\ accepted' = [accepted EXCEPT ![p][k] = Append(@, <<now, n>>)]
        /\ UNCHANGED now

(* Mutant: Limiter::prune keeping the entries with tat < time_limit *)
PruneLimiterInverted(m) == [k \in Keys |-> IF m[k] # Absent /\ m[k] < now THEN m[k] ELSE Absent]

(* Limiter::prune: retain the entries with tat >= time_limit *)
PruneLimiter(m) == [k \in Keys |-> IF m[k] # Absent /\ m[k] >= now THEN m[k] ELSE Absent]

(* RPCRateLimiter::prune, on a tick of prune_interval *)
Prune ==
    /\ tat' = [p \in Protocols |-> IF p \in PrunedProtocols THEN PruneLimiter(tat[p]) ELSE tat[p]]
    /\ UNCHANGED <<now, last, accepted>>

Next ==
    \/ Tick
    \/ \E p \in Protocols, k \in Keys, n \in Tokens : Allows(p, k, n)
    \/ Prune

Spec == Init /\ [][Next]_vars
====
