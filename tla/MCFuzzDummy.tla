---------------------------- MODULE MCFuzzDummy ----------------------------
(* Three processes, and keys of two bytes of two bits.  Some message is    *)
(* empty, a byte short, a byte too long, or like another in its first      *)
(* bytes.  Some sums of keys wrap around the order, and some partial ones  *)
(* are zero when the whole is not.                                         *)
EXTENDS FuzzDummy, Bitwise

MCXor(a, b) == a ^^ b
MCSchnorrMessages == {[len |-> l, first |-> f] : l \in 0 .. 3, f \in {6, 15}}
MCKeyLists == {<< 5 >>, << 10 >>, << 10, 5 >>, << 12, 1, 10 >>}
=============================================================================
