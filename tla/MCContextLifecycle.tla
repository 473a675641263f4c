------------------------- MODULE MCContextLifecycle -------------------------
(* Three objects, three blocks, a buffer of exactly the size of a context  *)
(* rounded up to words, and one that is a word too short.                  *)
EXTENDS ContextLifecycle, TLC

CONSTANTS o1, o2, o3, b1, b2, b3

MCBufLen == [m \in Buffers |-> IF m = "long" THEN 3 ELSE 2]
MCSymmetry == Permutations({o1, o2, o3}) \cup Permutations({b1, b2, b3})
=============================================================================
