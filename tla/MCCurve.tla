------------------------------ MODULE MCCurve ------------------------------
(* The curve for TLC: a group of the prime order Q, in which the y         *)
(* coordinate of x*G is odd when x, taken in 1 .. Q-1, is.                 *)
EXTENDS Integers, Sequences

CONSTANT Q

MCScalars == 0 .. Q - 1
MCAdd(a, b) == (a + b) % Q
MCNeg(a) == (Q - a) % Q
MCMul(a, b) == (a * b) % Q
MCOdd(p) == p % 2 = 1

(* Hash functions, arbitrary but for spreading over the scalars.           *)
MCKeyAggHash(pks, p) == (2 * p + pks[1] * pks[1]) % Q
MCNonceHash(id, pk) == << 1 + ((3 * id + pk) % (Q - 1)), 1 + ((id * id + 2 * pk) % (Q - 1)) >>

(* An x-only key or nonce is hashed by one of its two points.              *)
X(points) == CHOOSE p \in points : p % 2 = 0

MCNonceCoefHash(aggnonce, key, msg) ==
    (aggnonce[1] + 4 * aggnonce[2] + 2 * X(key) + msg) % Q

MCChallengeHash(r, key, msg) == (2 * X(r) + 3 * X(key) + msg + 1) % Q
=============================================================================
