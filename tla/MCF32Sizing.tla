---------------------------- MODULE MCF32Sizing ----------------------------
(***************************************************************************)
(* The limits the peer manager derives from target_peers, for every target *)
(* in Targets.  target_peers is fixed when the PeerManager is built, so    *)
(* the state is the configured target and no step changes it.              *)
(***************************************************************************)
EXTENDS F32Sizing

CONSTANT Targets

VARIABLE target

\* Every target_peers from 1 to 100 (the f32 products stay below 2^31)
MCTargets == 1..100

Init == target \in Targets
Next == UNCHANGED target
Spec == Init /\ [][Next]_target

\* ceil(target * n / 10) in exact arithmetic
CeilTenths(t, n) == (t * n + 9) \div 10

(* Spec section 4.2.1 gives the limits as exact products: max_peers =     *)
(* ceil(target * 1.1), max_priority_peers = ceil(target * 1.3),           *)
(* target_outbound = ceil(target * 0.3), min_outbound = ceil(target *     *)
(* 0.2), max_outbound_dialing = ceil(target * 1.2).  The code computes    *)
(* them in f32, where 0.3, 1.1 + 0.2 and 1.1 + 0.1 round upwards.          *)
SizingMatchesSpec ==
    /\ MaxPeersF32(target) = CeilTenths(target, 11)
    /\ MaxPriorityPeersF32(target) = CeilTenths(target, 13)
    /\ TargetOutboundPeersF32(target) = CeilTenths(target, 3)
    /\ MinOutboundOnlyPeersF32(target) = CeilTenths(target, 2)
    /\ MaxOutboundDialingPeersF32(target) = CeilTenths(target, 12)
====
