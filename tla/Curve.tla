------------------------------- MODULE Curve -------------------------------
(***************************************************************************)
(* What libsecp256k1 is used for: a group of prime order written by its    *)
(* discrete logarithms.  A scalar is an element of a commutative ring; a   *)
(* point is the scalar x of x*G, and Zero is the point at infinity.  Every *)
(* point but infinity has a y coordinate that is odd or even, and negating *)
(* the point flips it.  An x-only key is the pair {P, -P}.                 *)
(*                                                                         *)
(* The ring is a parameter, so that what is proved of it holds of the      *)
(* scalars of secp256k1; TLC computes in a small one.                      *)
(***************************************************************************)
EXTENDS Integers, Sequences

CONSTANTS Scalars, Zero, One,
          Add(_, _), Neg(_), Mul(_, _),
          Odd(_)         \* the parity of the y coordinate of a point

ASSUME ClosureAssumption ==
    /\ Zero \in Scalars /\ One \in Scalars
    /\ \A a \in Scalars : Neg(a) \in Scalars
    /\ \A a, b \in Scalars : Add(a, b) \in Scalars /\ Mul(a, b) \in Scalars

ASSUME GroupAssumption ==
    /\ \A a \in Scalars : Add(a, Zero) = a /\ Add(a, Neg(a)) = Zero
    /\ \A a, b \in Scalars : Add(a, b) = Add(b, a)
    /\ \A a, b, c \in Scalars : Add(Add(a, b), c) = Add(a, Add(b, c))

ASSUME RingAssumption ==
    /\ One # Zero
    /\ \A a \in Scalars : Mul(One, a) = a
    /\ \A a, b \in Scalars : Mul(a, b) = Mul(b, a)
    /\ \A a, b, c \in Scalars : /\ Mul(Mul(a, b), c) = Mul(a, Mul(b, c))
                                /\ Mul(a, Add(b, c)) = Add(Mul(a, b), Mul(a, c))

ASSUME ParityAssumption ==
    \A p \in Scalars : /\ Odd(p) \in BOOLEAN
                       /\ p # Zero => Odd(Neg(p)) = ~ Odd(p)

Infinity == Zero
G == One
Points == Scalars \ {Infinity}

NegIf(b, x) == IF b THEN Neg(x) ELSE x

(* The point with the x coordinate of p whose y coordinate is even.        *)
EvenY(p) == NegIf(Odd(p), p)

XOnly(p) == {p, Neg(p)}

(* The sum of a sequence of scalars or points.                             *)
Sums(f) == LET sum[i \in 0 .. Len(f)] == IF i = 0 THEN Zero ELSE Add(sum[i-1], f[i])
           IN  sum

Total(f) == Sums(f)[Len(f)]
=============================================================================
