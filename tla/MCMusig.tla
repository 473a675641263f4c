------------------------------ MODULE MCMusig ------------------------------
(* Two signers, who share a few tweaks.  The key of alice is in the list  *)
(* twice, and she also signs with its negation; or both keys are there     *)
(* once.  After a plain tweak of the repeated key's aggregate, the same    *)
(* again leads to infinity and fails.                                      *)
EXTENDS Musig, MCCurve

OneKeypair == [s \in Signers |-> IF s = "alice" THEN {2} ELSE {3}]
WithNegated == [s \in Signers |-> IF s = "alice" THEN {2, Q - 2} ELSE {3}]

OneSecrand == [s \in Signers |-> IF s = "alice" THEN {1} ELSE {3}]

TwoKeys == << 2, 3 >>
RepeatedKey == << 2, 2, 3 >>
MCKeyLists == {KeyList}
=============================================================================
