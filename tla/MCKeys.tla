------------------------------- MODULE MCKeys -------------------------------
(* Two parties with keys of different parity, who stop after MaxSteps      *)
(* derivations each.  Of the tweaks, 0 makes a multiplication fail, and 9  *)
(* an addition to the first key of alice.                                  *)
EXTENDS Keys, MCCurve

MCBaseKey == [p \in Parties |-> IF p = "alice" THEN 2 ELSE 5]

(* A nonce is the random data, if any, mixed with what is signed.          *)
MCAuxHash(aux, sk, m) == 1 + ((sk + m * (IF aux = NoAuxRand THEN 1 ELSE aux)) % (Q - 1))
=============================================================================
