------------------------------- MODULE Field -------------------------------
(***************************************************************************)
(* Field elements as libsecp256k1 keeps them: a value modulo P held in     *)
(* limbs with room to spare.  How much of the room may be in use is the    *)
(* magnitude, which every function bounds by contract (field_impl.h,       *)
(* checked in builds with VERIFY only).  An element is its value v, its    *)
(* magnitude m, and n, whether the limbs are the canonical ones.           *)
(*                                                                         *)
(* An element computed in breach of a contract gets the magnitude Broken,  *)
(* which no contract admits, so that it spoils whatever is computed of it. *)
(***************************************************************************)
EXTENDS Integers

CONSTANT P

ASSUME FieldAssumption == P \in Nat /\ P > 3 /\ P % 4 = 3

MaxMagnitude == 32
Broken == MaxMagnitude + 1

Fe(v, m, n) == [v |-> v % P, m |-> m, n |-> n]
Kept(contract, e) == IF contract THEN e ELSE [e EXCEPT !.m = Broken]

FeSetInt(k) == Fe(k, IF k = 0 THEN 0 ELSE 1, TRUE)
FeNormalize(a) == Kept(a.m <= MaxMagnitude, Fe(a.v, 1, TRUE))
FeNormalizeWeak(a) == Kept(a.m <= MaxMagnitude, Fe(a.v, 1, a.n))
FeNegate(a, m) == Kept(a.m <= m /\ m < MaxMagnitude, Fe(P - a.v, m + 1, FALSE))
FeAdd(a, b) == Kept(a.m + b.m <= MaxMagnitude, Fe(a.v + b.v, a.m + b.m, FALSE))
FeAddInt(a, k) == Kept(a.m < MaxMagnitude, Fe(a.v + k, a.m + 1, FALSE))
FeMulInt(a, k) == Kept(k * a.m <= MaxMagnitude, Fe(k * a.v, k * a.m, FALSE))
FeMul(a, b) == Kept(a.m <= 8 /\ b.m <= 8, Fe(a.v * b.v, 1, FALSE))
FeSqr(a) == Kept(a.m <= 8, Fe(a.v * a.v, 1, FALSE))

FeHalf(a) == Kept(a.m < MaxMagnitude,
                  Fe((IF a.v % 2 = 0 THEN a.v ELSE a.v + P) \div 2, a.m \div 2 + 1, FALSE))

FeCmov(r, a, flag) == [v |-> IF flag THEN a.v ELSE r.v,
                       m |-> IF a.m > r.m THEN a.m ELSE r.m,
                       n |-> r.n /\ a.n]

(* Powers; the exponents of the code are written out as addition chains.   *)
Power(v, e) ==
    LET pow[i \in 0 .. e] ==
            LET half == pow[i \div 2]
            IN  IF i = 0 THEN 1 ELSE (((half * half) % P) * (IF i % 2 = 1 THEN v ELSE 1)) % P
    IN  pow[e]

(* The inverse of zero is zero.                                            *)
FeInv(a) == Kept(a.m <= MaxMagnitude, Fe(Power(a.v, P - 2), IF a.m > 0 THEN 1 ELSE 0, TRUE))

----------------------------------------------------------------------------
(* Questions about elements.  An answer given in breach of the contract is *)
(* taken to be the wrong one.                                              *)
Answer(contract, truth) == IF contract THEN truth ELSE ~ truth

FeNormalizesToZero(a) == Answer(a.m <= MaxMagnitude, a.v = 0)
FeIsZero(a) == Answer(a.n, a.v = 0)
FeIsOdd(a) == Answer(a.n, a.v % 2 = 1)
FeEqual(a, b) == FeNormalizesToZero(FeAdd(FeNegate(a, 1), b))
FeIsSquare(a) == Answer(a.m <= MaxMagnitude, Power(a.v, (P - 1) \div 2) \in {0, 1})

(* The candidate for a square root, itself a square, and whether it is one. *)
FeSqrt(a) == LET r == Kept(a.m <= 8, Fe(Power(a.v, (P + 1) \div 4), 1, FALSE))
             IN  [r |-> r, ok |-> FeEqual(FeSqr(r), a)]
=============================================================================
