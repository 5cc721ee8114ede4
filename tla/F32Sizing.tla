----------------------------- MODULE F32Sizing -----------------------------
(***************************************************************************)
(* The peer-count limits of the peer manager (src/peer_manager/mod.rs,     *)
(* max_peers ... max_outbound_dialing_peers): ceil(target as f32 * factor) *)
(* in IEEE-754 binary32 arithmetic, as Rust evaluates it.  The factors are *)
(* f32 constants folded in f32 ((1.0 + 0.1) + 0.2 is two roundings).       *)
(*                                                                         *)
(* A finite non-negative f32 is a record [m, e] standing for m * 2^e, with *)
(* m < 2^24 after rounding.  Every operation computes its exact result as  *)
(* an integer times a power of two and rounds it to 24 significant bits,   *)
(* to nearest with ties to even.  Subnormals, infinities and NaN are not   *)
(* reached by these operands.                                              *)
(***************************************************************************)
EXTENDS Integers

MANTISSA_BITS == 24

RECURSIVE BitLen(_)
BitLen(n) == IF n = 0 THEN 0 ELSE 1 + BitLen(n \div 2)

(* n / 2^s rounded to nearest, ties to even *)
ShiftRoundEven(n, s) ==
    LET q == n \div 2^s
        r == n % 2^s
        half == 2^(s - 1)
    IN  IF s = 0 THEN n
        ELSE IF r > half \/ (r = half /\ q % 2 = 1) THEN q + 1 ELSE q

(* The f32 nearest to n * 2^e *)
Round(n, e) ==
    LET s == BitLen(n) - MANTISSA_BITS
    IN  IF s <= 0 THEN [m |-> n, e |-> e]
        ELSE [m |-> ShiftRoundEven(n, s), e |-> e + s]

(* The f32 literal p / q (a decimal constant of the source) *)
FromRatio(p, q) ==
    LET RECURSIVE Scale(_)
        \* the exponent that puts p * 2^k / q in [2^23, 2^24)
        Scale(k) == IF (p * 2^k) \div q >= 2^(MANTISSA_BITS - 1) THEN k ELSE Scale(k + 1)
        k == Scale(0)
        num == p * 2^k
        fl == num \div q
        rem == num % q
        up == 2 * rem > q \/ (2 * rem = q /\ fl % 2 = 1)
    IN  Round(IF up THEN fl + 1 ELSE fl, -k)

(* usize as f32: exact below 2^24 *)
FromInt(t) == Round(t, 0)

F32Add(a, b) ==
    LET lo == IF a.e <= b.e THEN a.e ELSE b.e
    IN  Round(a.m * 2^(a.e - lo) + b.m * 2^(b.e - lo), lo)

(* a - b for a >= b *)
F32Sub(a, b) ==
    LET lo == IF a.e <= b.e THEN a.e ELSE b.e
    IN  Round(a.m * 2^(a.e - lo) - b.m * 2^(b.e - lo), lo)

F32Mul(a, b) == Round(a.m * b.m, a.e + b.e)

F32Div2(a) == [a EXCEPT !.e = @ - 1]

(* f32::ceil, then as usize *)
F32Ceil(a) ==
    IF a.e >= 0 THEN a.m * 2^a.e
    ELSE (a.m + 2^(-a.e) - 1) \div 2^(-a.e)

ONE == FromInt(1)
PEER_EXCESS_FACTOR == FromRatio(1, 10)
TARGET_OUTBOUND_ONLY_FACTOR == FromRatio(3, 10)
MIN_OUTBOUND_ONLY_FACTOR == FromRatio(2, 10)
PRIORITY_PEER_EXCESS == FromRatio(2, 10)

Sized(t, factor) == F32Ceil(F32Mul(FromInt(t), factor))

MaxPeersF32(t) == Sized(t, F32Add(ONE, PEER_EXCESS_FACTOR))
MaxPriorityPeersF32(t) ==
    Sized(t, F32Add(F32Add(ONE, PEER_EXCESS_FACTOR), PRIORITY_PEER_EXCESS))
(* the max_established_incoming limit of Network::new:                      *)
(* ceil(target as f32 * (1.0 + PEER_EXCESS_FACTOR - MIN_OUTBOUND_ONLY_FACTOR)) *)
MaxEstablishedIncomingF32(t) ==
    Sized(t, F32Sub(F32Add(ONE, PEER_EXCESS_FACTOR), MIN_OUTBOUND_ONLY_FACTOR))
MinOutboundOnlyPeersF32(t) == Sized(t, MIN_OUTBOUND_ONLY_FACTOR)
TargetOutboundPeersF32(t) == Sized(t, TARGET_OUTBOUND_ONLY_FACTOR)
MaxOutboundDialingPeersF32(t) ==
    Sized(t, F32Add(F32Add(ONE, PEER_EXCESS_FACTOR), F32Div2(PRIORITY_PEER_EXCESS)))
====
