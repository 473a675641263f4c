------------------------------ MODULE MCEcdsa ------------------------------
(* A group of 23 elements.  Of its eleven x coordinates, that of 3*G is    *)
(* the order itself, so that r is 0, and those of 2*G and 1*G, and of 5*G  *)
(* and 7*G, differ by the order.  Message 24 is 1 modulo the order.        *)
EXTENDS Ecdsa, MCCurve

MCInv(a) == CHOOSE b \in 1 .. Q - 1 : (a * b) % Q = 1
MCIsHigh(s) == s > Q \div 2

MCXCoord(p) ==
    LET k == IF p > Q \div 2 THEN Q - p ELSE p
    IN  << [r |-> 3, over |-> FALSE], [r |-> 3, over |-> TRUE],
           [r |-> 0, over |-> TRUE], [r |-> 19, over |-> FALSE],
           [r |-> 6, over |-> FALSE], [r |-> 14, over |-> FALSE],
           [r |-> 6, over |-> TRUE], [r |-> 21, over |-> FALSE],
           [r |-> 10, over |-> FALSE], [r |-> 17, over |-> FALSE],
           [r |-> 13, over |-> FALSE] >>[k]

MCMsgScalar(msg) == msg % Q

(* Arbitrary.  The remainders 0 and Q and above are no valid scalars.      *)
MCNonceBytes(sk, m, data, count) ==
    LET n == (5 * sk + 3 * m + 7 * data + 11 * count + data * sk) % (Q + 2)
    IN  IF n \in 1 .. Q - 1 THEN n ELSE Invalid

MCLowR(r) == r <= Q \div 2

(* A byte less for a small s, a byte more for a high r.                    *)
MCDerLength(r, s) == 70 + (IF LowR(r) THEN 0 ELSE 1) - (IF s <= 6 THEN 1 ELSE 0)
=============================================================================
