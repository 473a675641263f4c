--------------------------- MODULE LibraryProofs ---------------------------
(***************************************************************************)
(* Theorems about the C library and the encodings, for every curve, for    *)
(* strings of any symbols, for arrays of any length, for every function    *)
(* that compresses blocks, and for bytes below any base.                   *)
(*                                                                         *)
(* Magnitudes of field elements: no operation of group_impl.h without a    *)
(* loop, nor the decoding of ElligatorSwift, breaks a contract of the      *)
(* field, whatever points it gets within the bounds of group.h, and all    *)
(* leave their results within these bounds.  The argument does not depend  *)
(* on the values of the elements, only on their magnitudes: a lemma for    *)
(* each operation on elements says what magnitude it leaves, and one for   *)
(* each operation on points adds them up.                                  *)
(*                                                                         *)
(* Inputs of hashes: the string that is hashed tells the function and its  *)
(* arguments.  The tag, or the length if there is none, tells the          *)
(* function; a lemma for each function tells its arguments apart, from     *)
(* left to right where parts have a length of their own and by the length  *)
(* of the whole where one part is optional.                                *)
(*                                                                         *)
(* The heap sort and the iterator of Encodings: arrays and strings of any  *)
(* length.  The invariant of the sort is what SortAgrees says with the     *)
(* grandparents added: who is above the place that is being repaired is    *)
(* also above those below it, so that the larger child may take the place. *)
(*                                                                         *)
(* Hash: texts of any length in any chunks.  The invariant says which      *)
(* stream an object has taken: its state is that after the whole blocks,   *)
(* its buffer the rest.  The results of a loop are those of steps, one     *)
(* after the other, and no other.                                          *)
(*                                                                         *)
(* Signatures and hexadecimal strings: an encoding is read where it is,    *)
(* and what is read is an encoding, for lengths, integers, pairs and whole *)
(* signatures in turn; numbers are known from their digits; and the loop   *)
(* over characters holds the bytes of their pairs.                         *)
(***************************************************************************)
EXTENDS CurveArithmetic, Inputs, Encodings, Hash, FiniteSetTheorems, WellFoundedInduction, SequenceTheorems, TLAPS

(* e has a magnitude of k at most.                                         *)
Mag(e, k) == e.m \in 0 .. k

----------------------------------------------------------------------------
(* Field elements.                                                         *)

LEMMA MagWeaker == ASSUME NEW e, NEW k \in Nat, NEW l \in Nat, Mag(e, k), k <= l PROVE Mag(e, l)
  BY DEF Mag

LEMMA MagSetInt == ASSUME NEW k PROVE Mag(FeSetInt(k), 1)
  BY DEF Mag, FeSetInt, Fe

LEMMA MagMul == ASSUME NEW a, NEW b, Mag(a, 8), Mag(b, 8) PROVE Mag(FeMul(a, b), 1)
  BY DEF Mag, FeMul, Fe, Kept

LEMMA MagSqr == ASSUME NEW a, Mag(a, 8) PROVE Mag(FeSqr(a), 1)
  BY DEF Mag, FeSqr, Fe, Kept

LEMMA MagNormalize == ASSUME NEW a, Mag(a, 32) PROVE Mag(FeNormalize(a), 1)
  BY DEF Mag, FeNormalize, Fe, Kept, MaxMagnitude

LEMMA MagNormalizeWeak == ASSUME NEW a, Mag(a, 32) PROVE Mag(FeNormalizeWeak(a), 1)
  BY DEF Mag, FeNormalizeWeak, Fe, Kept, MaxMagnitude

LEMMA MagNegate == ASSUME NEW a, NEW k \in 0 .. 31, Mag(a, k) PROVE Mag(FeNegate(a, k), k + 1)
  BY DEF Mag, FeNegate, Fe, Kept, MaxMagnitude

LEMMA MagAdd ==
    ASSUME NEW a, NEW b, NEW k \in Nat, NEW l \in Nat, Mag(a, k), Mag(b, l), k + l <= 32
    PROVE  Mag(FeAdd(a, b), k + l)
  BY DEF Mag, FeAdd, Fe, Kept, MaxMagnitude

LEMMA MagAddInt == ASSUME NEW a, NEW i, NEW k \in 0 .. 31, Mag(a, k) PROVE Mag(FeAddInt(a, i), k + 1)
  BY DEF Mag, FeAddInt, Fe, Kept, MaxMagnitude

LEMMA MagMulInt ==
    ASSUME NEW a, NEW i \in 1 .. 4, NEW k \in 0 .. 8, Mag(a, k)
    PROVE  Mag(FeMulInt(a, i), i * k)
  BY SMT DEF Mag, FeMulInt, Fe, Kept, MaxMagnitude

LEMMA MagHalf == ASSUME NEW a, NEW k \in 0 .. 31, Mag(a, k) PROVE Mag(FeHalf(a), k \div 2 + 1)
  BY DEF Mag, FeHalf, Fe, Kept, MaxMagnitude

LEMMA MagCmov == ASSUME NEW a, NEW b, NEW f, NEW k \in Nat, Mag(a, k), Mag(b, k) PROVE Mag(FeCmov(a, b, f), k)
  BY DEF Mag, FeCmov

LEMMA MagInv == ASSUME NEW a, Mag(a, 32) PROVE Mag(FeInv(a), 1)
  BY DEF Mag, FeInv, Fe, Kept, MaxMagnitude

LEMMA MagSqrt == ASSUME NEW a, Mag(a, 8) PROVE Mag(FeSqrt(a).r, 1)
  BY DEF Mag, FeSqrt, Fe, Kept

----------------------------------------------------------------------------
(* Points.                                                                 *)
GejFits(a) == Mag(a.x, 4) /\ Mag(a.y, 4) /\ Mag(a.z, 1)
GeFits(a) == Mag(a.x, 4) /\ Mag(a.y, 3)

LEMMA FitsVerify == /\ \A a : GejFits(a) => GejVerify(a)
                    /\ \A a : GeFits(a) => GeVerify(a)
  BY DEF GejFits, GeFits, GejVerify, GeVerify, Mag, GejXMax, GejYMax, GejZMax, GeXMax, GeYMax

LEMMA InfinityFits == GejFits(GejInfinity) /\ GeFits(GeInfinity)
  <1>1. Mag(FeSetInt(0), 1)
    BY MagSetInt
  <1>2. Mag(FeSetInt(0), 4) /\ Mag(FeSetInt(0), 3)
    BY <1>1, MagWeaker
  <1> QED BY <1>1, <1>2 DEF GejFits, GeFits, GejInfinity, GeInfinity, Gej, Ge

LEMMA SetGeFits == ASSUME NEW a, GeFits(a) PROVE GejFits(SetGe(a))
  <1>1. Mag(FeOne, 1) /\ Mag(a.y, 4)
    BY MagSetInt, MagWeaker DEF FeOne, GeFits
  <1> QED BY <1>1 DEF GeFits, GejFits, SetGe, Gej

LEMMA SetZinvFits ==
    ASSUME NEW a, NEW zi, Mag(a.x, 8), Mag(a.y, 8), Mag(zi, 8) PROVE GeFits(SetZinv(a, zi))
  <1>1. Mag(FeSqr(zi), 1)
    BY MagSqr
  <1>2. Mag(FeSqr(zi), 8)
    BY <1>1, MagWeaker
  <1>3. Mag(FeMul(FeSqr(zi), zi), 1)
    BY <1>2, MagMul
  <1>4. Mag(FeMul(FeSqr(zi), zi), 8)
    BY <1>3, MagWeaker
  <1>5. Mag(FeMul(a.x, FeSqr(zi)), 1) /\ Mag(FeMul(a.y, FeMul(FeSqr(zi), zi)), 1)
    BY <1>2, <1>4, MagMul
  <1>6. Mag(FeMul(a.x, FeSqr(zi)), 4) /\ Mag(FeMul(a.y, FeMul(FeSqr(zi), zi)), 3)
    BY <1>5, MagWeaker
  <1> QED BY <1>6 DEF SetZinv, Ge, GeFits

LEMMA AffineFits ==
    ASSUME NEW a, GejFits(a)
    PROVE  GeFits(GeSetGej(a)) /\ GeFits(GeSetGejVar(a)) /\ Mag(GeSetGej(a).x, 1)
  <1>1. Mag(a.z, 32) /\ Mag(a.x, 8) /\ Mag(a.y, 8)
    BY MagWeaker DEF GejFits
  <1>2. Mag(FeInv(a.z), 1)
    BY <1>1, MagInv
  <1>3. Mag(FeInv(a.z), 8)
    BY <1>2, MagWeaker
  <1>4. GeFits(SetZinv(a, FeInv(a.z)))
    BY <1>1, <1>3, SetZinvFits
  <1>5. Mag(FeSqr(FeInv(a.z)), 8)
    BY <1>3, MagSqr, MagWeaker
  <1>6. Mag(FeMul(a.x, FeSqr(FeInv(a.z))), 1)
    BY <1>1, <1>5, MagMul
  <1> QED BY <1>4, <1>6, InfinityFits DEF GeSetGej, GeSetGejVar, GeFits, SetZinv, Ge

LEMMA GeNegFits == ASSUME NEW a, GeFits(a) PROVE GeFits(GeNeg(a))
  <1>1. Mag(a.y, 32)
    BY MagWeaker DEF GeFits
  <1>2. Mag(FeNormalizeWeak(a.y), 1)
    BY <1>1, MagNormalizeWeak
  <1>3. Mag(FeNegate(FeNormalizeWeak(a.y), 1), 2)
    BY <1>2, MagNegate
  <1> QED BY <1>3, MagWeaker DEF GeFits, GeNeg

LEMMA GejNegFits == ASSUME NEW a, GejFits(a) PROVE GejFits(GejNeg(a))
  <1>1. Mag(a.y, 32)
    BY MagWeaker DEF GejFits
  <1>2. Mag(FeNormalizeWeak(a.y), 1)
    BY <1>1, MagNormalizeWeak
  <1>3. Mag(FeNegate(FeNormalizeWeak(a.y), 1), 2)
    BY <1>2, MagNegate
  <1> QED BY <1>3, MagWeaker DEF GejFits, GejNeg

LEMMA RescaleFits == ASSUME NEW a, NEW s, GejFits(a), Mag(s, 8) PROVE GejFits(GejRescale(a, s))
  <1>1. Mag(a.x, 8) /\ Mag(a.y, 8) /\ Mag(a.z, 8)
    BY MagWeaker DEF GejFits
  <1>2. Mag(FeSqr(s), 8)
    BY MagSqr, MagWeaker
  <1>3. Mag(FeMul(a.y, FeSqr(s)), 8)
    BY <1>1, <1>2, MagMul, MagWeaker
  <1>4. Mag(FeMul(a.x, FeSqr(s)), 1) /\ Mag(FeMul(FeMul(a.y, FeSqr(s)), s), 1) /\ Mag(FeMul(a.z, s), 1)
    BY <1>1, <1>2, <1>3, MagMul
  <1> QED BY <1>4, MagWeaker DEF GejFits, GejRescale, Gej

LEMMA MulLambdaFits == ASSUME NEW a, GeFits(a) PROVE GeFits(GeMulLambda(a))
  <1>1. Mag(a.x, 8) /\ Mag(FeSetInt(Beta), 8)
    BY MagWeaker, MagSetInt DEF GeFits
  <1>2. Mag(FeMul(a.x, FeSetInt(Beta)), 4)
    BY <1>1, MagMul, MagWeaker
  <1> QED BY <1>2 DEF GeFits, GeMulLambda

----------------------------------------------------------------------------
(* Doubling and addition.                                                  *)

LEMMA DoubleFromFits ==
    ASSUME NEW a, NEW s, NEW l, NEW t, GejFits(a), Mag(s, 1), Mag(l, 2), Mag(t, 1)
    PROVE  GejFits(DoubleFrom(a, s, l, t))
  <1> DEFINE x3 == FeAdd(FeAdd(FeSqr(l), t), t)
             y3 == FeAdd(FeMul(FeAdd(t, x3), l), FeSqr(s))
  <1>1. Mag(l, 8) /\ Mag(s, 8) /\ Mag(a.y, 8) /\ Mag(a.z, 8)
    BY MagWeaker DEF GejFits
  <1>2. Mag(FeSqr(l), 1) /\ Mag(FeSqr(s), 1)
    BY <1>1, MagSqr
  <1>3. Mag(FeAdd(FeSqr(l), t), 1 + 1)
    BY <1>2, MagAdd
  <1>4. Mag(x3, 2 + 1)
    BY <1>3, MagAdd
  <1>5. Mag(FeAdd(t, x3), 1 + 3)
    BY <1>4, MagAdd
  <1>6. Mag(FeMul(FeAdd(t, x3), l), 1)
    BY <1>1, <1>5, MagMul, MagWeaker
  <1>7. Mag(y3, 1 + 1)
    BY <1>2, <1>6, MagAdd
  <1>8. Mag(FeNegate(y3, 2), 2 + 1)
    BY <1>7, MagNegate
  <1>9. Mag(FeMul(a.z, a.y), 1)
    BY <1>1, MagMul
  <1>10. Mag(x3, 4) /\ Mag(FeNegate(y3, 2), 4)
    BY <1>4, <1>8, MagWeaker
  <1> QED BY <1>9, <1>10 DEF DoubleFrom, Gej, GejFits

LEMMA DoubleFits == ASSUME NEW a, GejFits(a) PROVE GejFits(GejDouble(a))
  <1> DEFINE s == FeSqr(a.y)
             l == FeHalf(FeMulInt(FeSqr(a.x), 3))
             t == FeMul(FeNegate(s, 1), a.x)
  <1>1. Mag(a.x, 8) /\ Mag(a.y, 8)
    BY MagWeaker DEF GejFits
  <1>2. Mag(FeSqr(a.x), 1) /\ Mag(s, 1)
    BY <1>1, MagSqr
  <1>3. Mag(FeMulInt(FeSqr(a.x), 3), 3 * 1)
    BY <1>2, MagMulInt
  <1>4. Mag(l, 3 \div 2 + 1)
    BY <1>3, MagHalf
  <1>5. Mag(FeNegate(s, 1), 1 + 1)
    BY <1>2, MagNegate
  <1>6. Mag(FeNegate(s, 1), 8)
    BY <1>5, MagWeaker
  <1>7. Mag(t, 1)
    BY <1>1, <1>6, MagMul
  <1>8. Mag(l, 2)
    BY <1>4
  <1>9. GejFits(DoubleFrom(a, s, l, t))
    BY <1>2, <1>7, <1>8, DoubleFromFits
  <1> QED BY <1>9 DEF GejDouble

LEMMA DoubleVarFits == ASSUME NEW a, GejFits(a) PROVE GejFits(GejDoubleVar(a).r)
  BY DoubleFits, InfinityFits DEF GejDoubleVar, WithRatio

LEMMA ChordSumFits ==
    ASSUME NEW z, NEW i, NEW t, NEW h3, NEW s1,
           Mag(z, 1), Mag(i, 8), Mag(t, 1), Mag(h3, 1), Mag(s1, 8)
    PROVE  GejFits(ChordSum(z, i, t, h3, s1))
  <1> DEFINE x3 == FeAdd(FeAdd(FeAdd(FeSqr(i), h3), t), t)
             y3 == FeAdd(FeMul(FeAdd(t, x3), i), FeMul(h3, s1))
  <1>1. Mag(FeSqr(i), 1)
    BY MagSqr
  <1>2. Mag(FeAdd(FeSqr(i), h3), 1 + 1)
    BY <1>1, MagAdd
  <1>3. Mag(FeAdd(FeAdd(FeSqr(i), h3), t), 2 + 1)
    BY <1>2, MagAdd
  <1>4. Mag(x3, 3 + 1)
    BY <1>3, MagAdd
  <1>5. Mag(FeAdd(t, x3), 1 + 4)
    BY <1>4, MagAdd
  <1>6. Mag(FeAdd(t, x3), 8) /\ Mag(h3, 8)
    BY <1>5, MagWeaker
  <1>7. Mag(FeMul(FeAdd(t, x3), i), 1) /\ Mag(FeMul(h3, s1), 1)
    BY <1>6, MagMul
  <1>8. Mag(y3, 1 + 1)
    BY <1>7, MagAdd
  <1>9. Mag(y3, 4)
    BY <1>8, MagWeaker
  <1> QED BY <1>4, <1>9 DEF ChordSum, Gej, GejFits

(* What the three additions of variable time have to provide.              *)
LEMMA AddVarTailFits ==
    ASSUME NEW a, NEW h, NEW ratio, NEW u1, NEW s1, NEW s2,
           GejFits(a), Mag(h, 8), Mag(ratio, 8), Mag(u1, 8), Mag(s1, 4), Mag(s2, 1)
    PROVE  GejFits(AddVarTail(a, h, ratio, u1, s1, s2).r)
  <1> DEFINE i == FeAdd(FeNegate(s2, 1), s1)
             h2 == FeNegate(FeSqr(h), 1)
  <1>1. Mag(FeNegate(s2, 1), 1 + 1)
    BY MagNegate
  <1>2. Mag(i, 2 + 4)
    BY <1>1, MagAdd
  <1>3. Mag(FeSqr(h), 1)
    BY MagSqr
  <1>4. Mag(h2, 1 + 1)
    BY <1>3, MagNegate
  <1>5. Mag(h2, 8) /\ Mag(a.z, 8) /\ Mag(i, 8) /\ Mag(s1, 8)
    BY <1>2, <1>4, MagWeaker DEF GejFits
  <1>6. Mag(FeMul(a.z, ratio), 1) /\ Mag(FeMul(u1, h2), 1) /\ Mag(FeMul(h2, h), 1)
    BY <1>5, MagMul
  <1>7. GejFits(ChordSum(FeMul(a.z, ratio), i, FeMul(u1, h2), FeMul(h2, h), s1))
    BY <1>5, <1>6, ChordSumFits
  <1> QED BY <1>7, DoubleVarFits, InfinityFits DEF AddVarTail, AddOrDouble, WithRatio

LEMMA AddVarFits == ASSUME NEW a, NEW b, GejFits(a), GejFits(b) PROVE GejFits(GejAddVar(a, b).r)
  <1> DEFINE z22 == FeSqr(b.z)
             z12 == FeSqr(a.z)
             u1 == FeMul(a.x, z22)
             h == FeAdd(FeNegate(u1, 1), FeMul(b.x, z12))
             s1 == FeMul(FeMul(a.y, z22), b.z)
             s2 == FeMul(FeMul(b.y, z12), a.z)
  <1>1. /\ Mag(a.x, 8) /\ Mag(a.y, 8) /\ Mag(a.z, 8)
        /\ Mag(b.x, 8) /\ Mag(b.y, 8) /\ Mag(b.z, 8)
    BY MagWeaker DEF GejFits
  <1>2. Mag(z22, 8) /\ Mag(z12, 8)
    BY <1>1, MagSqr, MagWeaker
  <1>3. Mag(u1, 1) /\ Mag(FeMul(b.x, z12), 1)
    BY <1>1, <1>2, MagMul
  <1>4. Mag(FeMul(a.y, z22), 8) /\ Mag(FeMul(b.y, z12), 8)
    BY <1>1, <1>2, MagMul, MagWeaker
  <1>5. Mag(s1, 1) /\ Mag(s2, 1)
    BY <1>1, <1>4, MagMul
  <1>6. Mag(FeNegate(u1, 1), 1 + 1)
    BY <1>3, MagNegate
  <1>7. Mag(h, 2 + 1)
    BY <1>3, <1>6, MagAdd
  <1>8. Mag(h, 8) /\ Mag(u1, 8) /\ Mag(s1, 4)
    BY <1>3, <1>5, <1>7, MagWeaker
  <1>9. Mag(FeMul(h, b.z), 8)
    BY <1>1, <1>8, MagMul, MagWeaker
  <1>10. GejFits(AddVarTail(a, h, FeMul(h, b.z), u1, s1, s2).r)
    BY <1>5, <1>8, <1>9, AddVarTailFits
  <1> QED BY <1>10 DEF GejAddVar, WithRatio

LEMMA AddGeVarFits == ASSUME NEW a, NEW b, GejFits(a), GeFits(b) PROVE GejFits(GejAddGeVar(a, b).r)
  <1> DEFINE z12 == FeSqr(a.z)
             h == FeAdd(FeNegate(a.x, GejXMax), FeMul(b.x, z12))
             s2 == FeMul(FeMul(b.y, z12), a.z)
  <1>1. Mag(a.x, 8) /\ Mag(a.z, 8) /\ Mag(b.x, 8) /\ Mag(b.y, 8)
    BY MagWeaker DEF GejFits, GeFits
  <1>2. Mag(z12, 8)
    BY <1>1, MagSqr, MagWeaker
  <1>3. Mag(FeMul(b.x, z12), 1)
    BY <1>1, <1>2, MagMul
  <1>4. Mag(FeMul(b.y, z12), 8)
    BY <1>1, <1>2, MagMul, MagWeaker
  <1>5. Mag(s2, 1)
    BY <1>1, <1>4, MagMul
  <1>6. Mag(FeNegate(a.x, GejXMax), 4 + 1)
    BY MagNegate DEF GejFits, GejXMax
  <1>7. Mag(h, 5 + 1)
    BY <1>3, <1>6, MagAdd
  <1>8. Mag(h, 8)
    BY <1>7, MagWeaker
  <1>9. GejFits(AddVarTail(a, h, h, a.x, a.y, s2).r)
    BY <1>1, <1>5, <1>8, AddVarTailFits DEF GejFits
  <1> QED BY <1>9, SetGeFits DEF GejAddGeVar, WithRatio

LEMMA AddZinvVarFits ==
    ASSUME NEW a, NEW b, NEW zi, GejFits(a), Mag(b.x, 4), Mag(b.y, 4), Mag(zi, 1)
    PROVE  GejFits(GejAddZinvVar(a, b, zi))
  <1> DEFINE az == FeMul(a.z, zi)
             z12 == FeSqr(az)
             h == FeAdd(FeNegate(a.x, GejXMax), FeMul(b.x, z12))
             s2 == FeMul(FeMul(b.y, z12), az)
  <1>1. Mag(a.x, 8) /\ Mag(a.z, 8) /\ Mag(b.x, 8) /\ Mag(b.y, 8) /\ Mag(zi, 8)
    BY MagWeaker DEF GejFits
  <1>2. Mag(az, 8)
    BY <1>1, MagMul, MagWeaker
  <1>3. Mag(z12, 8)
    BY <1>2, MagSqr, MagWeaker
  <1>4. Mag(FeMul(b.x, z12), 1)
    BY <1>1, <1>3, MagMul
  <1>5. Mag(FeMul(b.y, z12), 8)
    BY <1>1, <1>3, MagMul, MagWeaker
  <1>6. Mag(s2, 1)
    BY <1>2, <1>5, MagMul
  <1>7. Mag(FeNegate(a.x, GejXMax), 4 + 1)
    BY MagNegate DEF GejFits, GejXMax
  <1>8. Mag(h, 5 + 1)
    BY <1>4, <1>7, MagAdd
  <1>9. Mag(h, 8)
    BY <1>8, MagWeaker
  <1>10. GejFits(AddVarTail(a, h, h, a.x, a.y, s2).r)
    BY <1>1, <1>6, <1>9, AddVarTailFits DEF GejFits
  <1>11. GejFits(SetGe(SetZinv(b, zi)))
    BY <1>1, SetZinvFits, SetGeFits
  <1>12. GejFits([SetGe(SetZinv(b, zi)) EXCEPT !.inf = b.inf])
    BY <1>11 DEF GejFits, SetGe, Gej
  <1> QED BY <1>10, <1>12 DEF GejAddZinvVar

(* The slope, its denominator and y before it is halved come close to the  *)
(* limits: 8, 6 and 6, where the square, the negation and the halving      *)
(* admit 8, 6 and 31.                                                      *)
LEMMA UnifiedSumFits ==
    ASSUME NEW a, NEW b, NEW t, NEW m, NEW rr, NEW mAlt,
           GejFits(a), GeFits(b), Mag(t, 5), Mag(m, 5), Mag(rr, 8), Mag(mAlt, 6)
    PROVE  GejFits(UnifiedSum(a, b, t, m, rr, mAlt))
  <1> DEFINE q == FeMul(FeNegate(t, GejXMax + 1), FeSqr(mAlt))
             n == FeCmov(FeSqr(FeSqr(mAlt)), m, Degenerate(m))
             x3 == FeAdd(FeSqr(rr), q)
             y3 == FeAdd(FeMul(FeAdd(FeMulInt(x3, 2), q), rr), n)
             z3 == FeCmov(FeMul(a.z, mAlt), FeOne, a.inf)
  <1>1. Mag(mAlt, 8) /\ Mag(a.z, 8)
    BY MagWeaker DEF GejFits
  <1>2. Mag(FeSqr(mAlt), 8)
    BY <1>1, MagSqr, MagWeaker
  <1>3. Mag(FeNegate(t, GejXMax + 1), 5 + 1)
    BY MagNegate DEF GejXMax
  <1>4. Mag(FeNegate(t, GejXMax + 1), 8)
    BY <1>3, MagWeaker
  <1>5. Mag(q, 1)
    BY <1>2, <1>4, MagMul
  <1>6. Mag(FeSqr(FeSqr(mAlt)), 5)
    BY <1>2, MagSqr, MagWeaker
  <1>7. Mag(n, 5)
    BY <1>6, MagCmov
  <1>8. Mag(FeSqr(rr), 1)
    BY MagSqr
  <1>9. Mag(x3, 1 + 1)
    BY <1>5, <1>8, MagAdd
  <1>10. Mag(FeMulInt(x3, 2), 2 * 2)
    BY <1>9, MagMulInt
  <1>11. Mag(FeAdd(FeMulInt(x3, 2), q), 4 + 1)
    BY <1>5, <1>10, MagAdd
  <1>12. Mag(FeMul(FeAdd(FeMulInt(x3, 2), q), rr), 1)
    BY <1>11, MagMul, MagWeaker
  <1>13. Mag(y3, 1 + 5)
    BY <1>7, <1>12, MagAdd
  <1>14. Mag(FeNegate(y3, GejYMax + 2), 6 + 1)
    BY <1>13, MagNegate DEF GejYMax
  <1>15. Mag(FeHalf(FeNegate(y3, GejYMax + 2)), 7 \div 2 + 1)
    BY <1>14, MagHalf
  <1>16. Mag(FeHalf(FeNegate(y3, GejYMax + 2)), 4) /\ Mag(x3, 4) /\ Mag(b.y, 4)
    BY <1>9, <1>15, MagWeaker DEF GeFits
  <1>17. Mag(FeMul(a.z, mAlt), 1) /\ Mag(FeOne, 1)
    BY <1>1, MagMul, MagSetInt DEF FeOne
  <1>18. /\ Mag(FeCmov(x3, b.x, a.inf), 4)
         /\ Mag(FeCmov(FeHalf(FeNegate(y3, GejYMax + 2)), b.y, a.inf), 4)
         /\ Mag(z3, 1)
    BY <1>16, <1>17, MagCmov DEF GeFits
  <1> QED BY <1>18 DEF UnifiedSum, Gej, GejFits

LEMMA UnifiedSlopeFits ==
    ASSUME NEW a, NEW b, NEW t, NEW m, NEW nu2,
           GejFits(a), GeFits(b), Mag(t, 5), Mag(m, 5), Mag(nu2, 2)
    PROVE  GejFits(UnifiedSlope(a, b, t, m, nu2))
  <1> DEFINE rr == FeCmov(FeMulInt(a.y, 2), FeAdd(FeSqr(t), FeMul(a.x, nu2)), ~ Degenerate(m))
             mAlt == FeCmov(FeAdd(nu2, a.x), m, ~ Degenerate(m))
  <1>1. Mag(t, 8) /\ Mag(a.x, 8) /\ Mag(nu2, 8) /\ Mag(m, 6)
    BY MagWeaker DEF GejFits
  <1>2. Mag(FeSqr(t), 1) /\ Mag(FeMul(a.x, nu2), 1)
    BY <1>1, MagSqr, MagMul
  <1>3. Mag(FeAdd(FeSqr(t), FeMul(a.x, nu2)), 1 + 1)
    BY <1>2, MagAdd
  <1>4. Mag(FeAdd(FeSqr(t), FeMul(a.x, nu2)), 8)
    BY <1>3, MagWeaker
  <1>5. Mag(FeMulInt(a.y, 2), 2 * 4)
    BY MagMulInt DEF GejFits
  <1>6. Mag(rr, 8)
    BY <1>4, <1>5, MagCmov
  <1>7. Mag(FeAdd(nu2, a.x), 2 + 4)
    BY MagAdd DEF GejFits
  <1>8. Mag(mAlt, 6)
    BY <1>1, <1>7, MagCmov
  <1>9. GejFits(UnifiedSum(a, b, t, m, rr, mAlt))
    BY <1>6, <1>8, UnifiedSumFits
  <1> QED BY <1>9 DEF UnifiedSlope

LEMMA AddGeFits == ASSUME NEW a, NEW b, GejFits(a), GeFits(b) PROVE GejFits(GejAddGe(a, b))
  <1> DEFINE zz == FeSqr(a.z)
             u2 == FeMul(b.x, zz)
             s2 == FeMul(FeMul(b.y, zz), a.z)
  <1>1. Mag(a.z, 8) /\ Mag(b.x, 8) /\ Mag(b.y, 8)
    BY MagWeaker DEF GejFits, GeFits
  <1>2. Mag(zz, 8)
    BY <1>1, MagSqr, MagWeaker
  <1>3. Mag(FeMul(b.y, zz), 8)
    BY <1>1, <1>2, MagMul, MagWeaker
  <1>4. Mag(u2, 1) /\ Mag(s2, 1)
    BY <1>1, <1>2, <1>3, MagMul
  <1>5. Mag(FeAdd(a.x, u2), 4 + 1) /\ Mag(FeAdd(a.y, s2), 4 + 1)
    BY <1>4, MagAdd DEF GejFits
  <1>6. Mag(FeNegate(u2, 1), 1 + 1)
    BY <1>4, MagNegate
  <1>7. GejFits(UnifiedSlope(a, b, FeAdd(a.x, u2), FeAdd(a.y, s2), FeNegate(u2, 1)))
    BY <1>5, <1>6, UnifiedSlopeFits
  <1> QED BY <1>7 DEF GejAddGe

----------------------------------------------------------------------------
(* Points from x coordinates and encodings.                                *)

LEMMA SetXoFits == ASSUME NEW x, NEW odd, Mag(x, 1) PROVE GeFits(SetXo(x, odd).ge)
  <1> DEFINE y == FeNormalize(FeSqrt(CurveRhs(x)).r)
  <1>1. Mag(x, 8)
    BY MagWeaker
  <1>2. Mag(FeSqr(x), 8)
    BY <1>1, MagSqr, MagWeaker
  <1>3. Mag(FeMul(FeSqr(x), x), 1)
    BY <1>1, <1>2, MagMul
  <1>4. Mag(CurveRhs(x), 1 + 1)
    BY <1>3, MagAddInt DEF CurveRhs
  <1>5. Mag(CurveRhs(x), 8)
    BY <1>4, MagWeaker
  <1>6. Mag(FeSqrt(CurveRhs(x)).r, 32)
    BY <1>5, MagSqrt, MagWeaker
  <1>7. Mag(y, 1)
    BY <1>6, MagNormalize
  <1>8. Mag(FeNegate(y, 1), 1 + 1)
    BY <1>7, MagNegate
  <1>9. Mag(y, 3) /\ Mag(FeNegate(y, 1), 3) /\ Mag(x, 4)
    BY <1>7, <1>8, MagWeaker
  <1> QED BY <1>9 DEF SetXo, Ge, GeFits

LEMMA XSwiftEcFits == ASSUME NEW u, NEW t, Mag(u, 1), Mag(t, 1) PROVE Mag(XSwiftEc(u, t), 1)
  <1> DEFINE u1 == IF FeNormalizesToZero(u) THEN FeOne ELSE u
             s0 == IF FeNormalizesToZero(t) THEN FeOne ELSE FeSqr(t)
             g  == FeAddInt(FeMul(FeSqr(u1), u1), B)
             s  == IF FeNormalizesToZero(FeAdd(g, s0)) THEN FeMulInt(s0, 4) ELSE s0
             p  == FeAdd(g, s)
             d3 == FeMulInt(FeMul(s, FeSqr(u1)), 3)
             n3 == FeAdd(FeMul(d3, u1), FeNegate(FeSqr(p), 1))
             sum == FeAdd(FeMul(EllC2, g), FeMul(EllC1, s))
             n2 == FeMul(sum, u1)
             n1 == FeNegate(FeAdd(n2, FeMul(p, u1)), 2)
  <1>1. Mag(FeOne, 1) /\ Mag(EllC1, 1) /\ Mag(EllC2, 1)
    BY MagSetInt DEF FeOne, EllC1, EllC2
  <1>2. Mag(u1, 1) /\ Mag(s0, 1)
    BY <1>1, MagSqr, MagWeaker
  <1>3. Mag(u1, 8) /\ Mag(FeSqr(u1), 8) /\ Mag(EllC1, 8) /\ Mag(EllC2, 8)
    BY <1>1, <1>2, MagSqr, MagWeaker
  <1>4. Mag(FeMul(FeSqr(u1), u1), 1)
    BY <1>3, MagMul
  <1>5. Mag(g, 1 + 1)
    BY <1>4, MagAddInt
  <1>6. Mag(FeMulInt(s0, 4), 4 * 1) /\ Mag(s0, 4)
    BY <1>2, MagMulInt, MagWeaker
  <1>7. Mag(s, 4)
    BY <1>6
  <1>8. Mag(p, 2 + 4)
    BY <1>5, <1>7, MagAdd
  <1>9. Mag(g, 8) /\ Mag(s, 8) /\ Mag(p, 8)
    BY <1>5, <1>7, <1>8, MagWeaker
  <1>10. Mag(FeMul(s, FeSqr(u1)), 1) /\ Mag(FeSqr(p), 1) /\ Mag(FeMul(p, u1), 1)
    BY <1>3, <1>9, MagMul, MagSqr
  <1>11. Mag(d3, 3 * 1) /\ Mag(FeNegate(FeSqr(p), 1), 1 + 1)
    BY <1>10, MagMulInt, MagNegate
  <1>12. Mag(FeMul(d3, u1), 1)
    BY <1>3, <1>11, MagMul, MagWeaker
  <1>13. Mag(n3, 1 + 2)
    BY <1>11, <1>12, MagAdd
  <1>14. Mag(FeMul(EllC2, g), 1) /\ Mag(FeMul(EllC1, s), 1)
    BY <1>3, <1>9, MagMul
  <1>15. Mag(sum, 1 + 1)
    BY <1>14, MagAdd
  <1>16. Mag(n2, 1)
    BY <1>3, <1>15, MagMul, MagWeaker
  <1>17. Mag(FeAdd(n2, FeMul(p, u1)), 1 + 1)
    BY <1>10, <1>16, MagAdd
  <1>18. Mag(n1, 2 + 1)
    BY <1>17, MagNegate
  <1>19. Mag(n1, 8) /\ Mag(n2, 8) /\ Mag(n3, 8) /\ Mag(d3, 32) /\ Mag(p, 32)
    BY <1>8, <1>11, <1>13, <1>16, <1>18, MagWeaker
  <1>20. Mag(FeInv(d3), 8) /\ Mag(FeInv(p), 8)
    BY <1>19, MagInv, MagWeaker
  <1>21. Mag(FeMul(n1, FeInv(p)), 1) /\ Mag(FeMul(n2, FeInv(p)), 1) /\ Mag(FeMul(n3, FeInv(d3)), 1)
    BY <1>19, <1>20, MagMul
  <1> QED BY <1>21 DEF XSwiftEc, Quotient, XSwiftEcFrac

LEMMA SwiftEcFits == ASSUME NEW u, NEW t PROVE GeFits(SwiftEc(FeSetInt(u), FeSetInt(t)))
  <1>1. Mag(XSwiftEc(FeSetInt(u), FeSetInt(t)), 1)
    BY MagSetInt, XSwiftEcFits
  <1> QED BY <1>1, SetXoFits DEF SwiftEc

----------------------------------------------------------------------------
(* The machine.                                                            *)

LEMMA GeOfFits == ASSUME NEW k PROVE GeFits(GeOf(k))
  <1>1. \A x : Mag(FeSetInt(x), 4) /\ Mag(FeSetInt(x), 3)
    BY MagSetInt, MagWeaker
  <1> QED BY <1>1, InfinityFits DEF GeOf, Ge, GeFits

LEMMA GejOfFits == ASSUME NEW k, NEW z PROVE GejFits(GejOf(k, z))
  <1>1. Mag(FeSetInt(z), 8)
    BY MagSetInt, MagWeaker
  <1> QED BY <1>1, GeOfFits, SetGeFits, RescaleFits DEF GejOf

LEMMA LooseFits == ASSUME NEW k, NEW z PROVE GejFits(Loose(GejOf(k, z)))
  BY GejOfFits DEF Loose, GejFits, Mag, Fe, GejXMax, GejYMax, GejOf, GejRescale, Gej

IInv == /\ GejFits(point)
        /\ GeFits(gen.ge_offset)
        /\ Mag(gen.proj_blind, 1)

LEMMA InitMagnitudes == Init => IInv
  <1>1. GeFits(G)
    BY MagSetInt, MagWeaker DEF G, Ge, GeFits
  <1>2. GeFits(GenBlindReset.ge_offset) /\ Mag(GenBlindReset.proj_blind, 1)
    BY <1>1, GeNegFits, MagSetInt DEF GenBlindReset, GenContext, FeOne
  <1> QED BY <1>2, GejOfFits, LooseFits DEF Init, IInv

LEMMA BecomesMagnitudes == ASSUME NEW p, NEW k, IInv, GejFits(p), Becomes(p, k) PROVE IInv'
  BY DEF Becomes, IInv

LEMMA StepMagnitudes == IInv /\ [GroupNext]_vars => IInv'
  <1> SUFFICES ASSUME IInv, [GroupNext]_vars PROVE IInv'
    OBVIOUS
  <1>0. GejFits(point)
    BY DEF IInv
  <1>1. CASE Double
    BY <1>0, <1>1, DoubleFits, BecomesMagnitudes DEF Double
  <1>2. CASE DoubleVar
    BY <1>0, <1>2, DoubleVarFits, BecomesMagnitudes DEF DoubleVar
  <1>3. CASE AddVar
    BY <1>0, <1>3, LooseFits, AddVarFits, BecomesMagnitudes DEF AddVar
  <1>4. CASE AddGeVar
    BY <1>0, <1>4, GeOfFits, GeNegFits, AddGeVarFits, BecomesMagnitudes DEF AddGeVar
  <1>5. CASE AddZinvVar
    <2>1. PICK k \in Others, z \in Zs :
              Becomes(GejAddZinvVar(point, [Ge(GejOf(k, z).x, GejOf(k, z).y) EXCEPT !.inf = GejOf(k, z).inf],
                                    FeInv(FeSetInt(z))), log + k)
      BY <1>5 DEF AddZinvVar
    <2> DEFINE b == [Ge(GejOf(k, z).x, GejOf(k, z).y) EXCEPT !.inf = GejOf(k, z).inf]
    <2>2. Mag(b.x, 4) /\ Mag(b.y, 4)
      BY GejOfFits DEF GejFits, Ge
    <2>3. Mag(FeInv(FeSetInt(z)), 1)
      BY MagSetInt, MagWeaker, MagInv
    <2>4. GejFits(GejAddZinvVar(point, b, FeInv(FeSetInt(z))))
      BY <1>0, <2>2, <2>3, AddZinvVarFits
    <2> QED BY <2>1, <2>4, BecomesMagnitudes
  <1>6. CASE AddGe
    BY <1>0, <1>6, GeOfFits, GeNegFits, AddGeFits, BecomesMagnitudes DEF AddGe
  <1>7. CASE Negate
    BY <1>0, <1>7, GejNegFits, BecomesMagnitudes DEF Negate
  <1>8. CASE Rescale
    <2>1. \A z : Mag(FeSetInt(z), 8)
      BY MagSetInt, MagWeaker
    <2> QED BY <1>0, <1>8, <2>1, RescaleFits, BecomesMagnitudes DEF Rescale
  <1>9. CASE MakeAffine
    BY <1>0, <1>9, AffineFits, MulLambdaFits, SetGeFits, BecomesMagnitudes DEF MakeAffine
  <1>10. CASE Encode
    BY <1>10 DEF Encode, IInv
  <1>11. CASE Decode
    BY <1>11, SwiftEcFits, SetGeFits, BecomesMagnitudes DEF Decode, EllSwiftDecode
  <1>12. CASE UNCHANGED vars
    BY <1>12 DEF vars, IInv
  <1> QED BY <1>1, <1>2, <1>3, <1>4, <1>5, <1>6, <1>7, <1>8, <1>9, <1>10, <1>11, <1>12 DEF GroupNext

(* For any curve, field, points and number of steps, the operations        *)
(* without loops keep every element within the magnitude that is admitted  *)
(* where it is used (group_impl.h:149-884, ellswift/main_impl.h:23-147).   *)
THEOREM GroupMagnitudes == GroupSpec => []MagnitudesFit
  <1>1. IInv => MagnitudesFit
    <2>1. Mag(gen.proj_blind, 1) => gen.proj_blind.m <= 1
      BY DEF Mag
    <2> QED BY <2>1, FitsVerify DEF IInv, MagnitudesFit
  <1> QED BY <1>1, InitMagnitudes, StepMagnitudes, PTL DEF GroupSpec

----------------------------------------------------------------------------
(* The strings that are hashed.                                            *)
Texts == Seq(Int)

(* Concatenation, of which only the lemmas are used.                       *)
Cat(a, b) == a \o b
Size(a) == Len(a)
OfLength(s, n) == s \in Texts /\ Size(s) = n

LEMMA Concat == \A a, b \in Texts : /\ Cat(a, b) \in Texts /\ Size(Cat(a, b)) = Size(a) + Size(b)
                                    /\ Size(a) > 0 => Cat(a, b)[1] = a[1]
BY DEF Texts, Cat, Size

LEMMA FirstSymbol == \A a \in Texts : Size(a) > 0 => a[1] \in Int
BY DEF Texts, Size

LEMMA TextLength == \A a \in Texts : Size(a) \in Nat
BY DEF Texts, Size

(* Strings of which the first parts are equally long are the same only if  *)
(* the parts are.                                                          *)
LEMMA Cancel ==
    ASSUME NEW a \in Texts, NEW b \in Texts, NEW c \in Texts, NEW d \in Texts,
           Size(a) = Size(c), Cat(a, b) = Cat(c, d)
    PROVE  a = c /\ b = d
<1>0. Size(b) = Size(d)
    BY Concat, TextLength
<1>1. Len(a) = Len(c) /\ Len(b) = Len(d)
    BY <1>0 DEF Size
<1>. a \o b = c \o d
    BY DEF Cat
<1>2. \A i \in 1 .. Len(a) : a[i] = (a \o b)[i] /\ c[i] = (c \o d)[i]
    BY <1>1 DEF Texts
<1>3. a = c
    BY <1>1, <1>2, SeqEqual DEF Texts
<1>4. ASSUME NEW i \in 1 .. Len(b) PROVE b[i] = d[i]
  <2> DEFINE j == Len(a) + i
  <2>1. j \in 1 .. Len(a) + Len(b) /\ j \in 1 .. Len(c) + Len(d) /\ ~ j <= Len(a) /\ j - Len(a) = i
      BY <1>1 DEF Texts
  <2>2. \A k \in 1 .. Len(a) + Len(b) : (a \o b)[k] = IF k <= Len(a) THEN a[k] ELSE b[k - Len(a)]
      BY ConcatProperties DEF Texts
  <2>3. \A k \in 1 .. Len(c) + Len(d) : (c \o d)[k] = IF k <= Len(c) THEN c[k] ELSE d[k - Len(c)]
      BY ConcatProperties DEF Texts
  <2> HIDE DEF j
  <2>4. (a \o b)[j] = b[i] /\ (c \o d)[j] = d[i]
      BY <1>1, <2>1, <2>2, <2>3
  <2> QED BY <2>4
<1>5. b = d
    BY <1>1, <1>4, SeqEqual DEF Texts
<1> QED BY <1>3, <1>5

LEMMA Associate == \A a, b, c \in Texts : Cat(Cat(a, b), c) = Cat(a, Cat(b, c))
<1> SUFFICES ASSUME NEW a \in Texts, NEW b \in Texts, NEW c \in Texts
             PROVE  (a \o b) \o c = a \o (b \o c)
    BY DEF Cat
<1> QED BY ConcatAssociative DEF Texts

LEMMA Singles == \A x \in Int : << x >> \in Texts /\ Size(<< x >>) = 1 /\ << x >>[1] = x
BY DEF Texts, Size

LEMMA TagFacts ==
    ASSUME NEW tag \in Int, NEW text \in Texts
    PROVE  Tagged(tag, text) \in Texts /\ Tagged(tag, text)[1] = - tag
<1>1. Tagged(tag, text) = Cat(<< - tag >>, text)
    BY DEF Tagged, Cat
<1> QED BY <1>1, Singles, Concat

LEMMA TagCancel ==
    ASSUME NEW tag \in Int, NEW tag2 \in Int, NEW text \in Texts, NEW text2 \in Texts,
           Tagged(tag, text) = Tagged(tag2, text2)
    PROVE  tag = tag2 /\ text = text2
<1> DEFINE a == << - tag >>
           c == << - tag2 >>
<1>1. a \in Texts /\ c \in Texts /\ Size(a) = Size(c) /\ a[1] = - tag /\ c[1] = - tag2
    BY Singles
<1>2. Cat(a, text) = Cat(c, text2)
    BY DEF Tagged, Cat
<1> HIDE DEF a, c
<1>3. a = c /\ text = text2
    BY <1>1, <1>2, Cancel
<1> QED BY <1>1, <1>3

----------------------------------------------------------------------------
(* The arguments.                                                          *)
LEMMA WordFacts == \A n \in Nat : \A w \in Words(n) : OfLength(w, n) /\ \A i \in 1 .. n : w[i] \in Symbols
BY InputsAssumption DEF Words, Symbols, OfLength, Size, Texts

LEMMA ZeroFacts == \A n \in Nat : Zeros(n) \in Words(n) /\ OfLength(Zeros(n), n)
<1>1. 0 \in Symbols
    BY InputsAssumption DEF Symbols
<1> QED BY <1>1, WordFacts DEF Zeros, Words

LEMMA Arguments ==
    /\ \A w \in Strings32 : w \in Words(2) /\ OfLength(w, 2)
    /\ \A w \in Strings33 \cup {Zeros(3)} : w \in Words(3) /\ OfLength(w, 3)
    /\ \A w \in Strings64 : w \in Words(4) /\ OfLength(w, 4)
    /\ \A w \in Algos : w \in Words(1) /\ OfLength(w, 1)
    /\ Messages \subseteq Texts
    /\ Zeros(2) \in Strings32
BY InputsAssumption, WordFacts, ZeroFacts DEF Texts, Symbols

LEMMA OptionalFacts == /\ \A w \in Optional(Strings32) : w = << >> \/ w \in Strings32
                       /\ \A w \in Optional(Strings32) \cup Optional(Algos) \cup Optional(Strings33) : w \in Texts
                       /\ OfLength(<< >>, 0)
<1>1. << >> \in Texts /\ Size(<< >>) = 0
    BY DEF Texts, Size
<1> QED BY <1>1, Arguments DEF Optional, OfLength

(* A masked key has the key and the mask in it, and is no string of        *)
(* symbols.                                                                *)
LEMMA Unmask ==
    \A a, b, x, y \in Symbols : Radix * (1 + a) + x = Radix * (1 + b) + y => a = b /\ x = y
<1> SUFFICES ASSUME NEW a \in Symbols, NEW b \in Symbols, NEW x \in Symbols, NEW y \in Symbols,
                    Radix * (1 + a) + x = Radix * (1 + b) + y
             PROVE  a = b /\ x = y
    OBVIOUS
<1> USE InputsAssumption DEF Symbols
<1>1. Radix * (a - b) = y - x
    BY Z3
<1>2. a - b >= 1 => Radix * (a - b) >= Radix
    BY Z3
<1>3. a - b <= -1 => Radix * (a - b) <= - Radix
    BY Z3
<1> DEFINE d == a - b
           z == Radix * d
<1> HIDE DEF z
<1>4. d = 0
    BY <1>1, <1>2, <1>3 DEF z
<1>5. a = b
    BY <1>4
<1> QED BY <1>1, <1>5

LEMMA MaskedFacts ==
    ASSUME NEW key \in Words(2), NEW aux \in Words(2)
    PROVE  OfLength(Masked(key, aux), 2) /\ Masked(key, aux)[1] \in Int /\ Masked(key, aux)[1] >= Radix
<1>1. key[1] \in Symbols /\ key[2] \in Symbols /\ aux[1] \in Symbols /\ aux[2] \in Symbols
    BY WordFacts
<1>2. Radix * (1 + aux[1]) \in Int /\ Radix * (1 + aux[2]) \in Int /\ Radix * (1 + aux[1]) >= Radix
    BY <1>1, InputsAssumption, Z3 DEF Symbols
<1> DEFINE m == Radix * (1 + aux[1])
           n == Radix * (1 + aux[2])
<1>3. Masked(key, aux) = << m + key[1], n + key[2] >> /\ m \in Int /\ n \in Int /\ m >= Radix
    BY <1>2 DEF Masked
<1> HIDE DEF m, n
<1> QED BY <1>1, <1>3, InputsAssumption DEF Symbols, OfLength, Size, Texts

LEMMA MaskedCancel ==
    ASSUME NEW key \in Words(2), NEW aux \in Words(2), NEW key2 \in Words(2), NEW aux2 \in Words(2),
           Masked(key, aux) = Masked(key2, aux2)
    PROVE  key = key2 /\ aux = aux2
<1>1. ASSUME NEW i \in {1, 2} PROVE key[i] = key2[i] /\ aux[i] = aux2[i]
  <2>1. /\ key[i] \in Symbols /\ key2[i] \in Symbols /\ aux[i] \in Symbols /\ aux2[i] \in Symbols
        /\ Radix * (1 + aux[i]) + key[i] = Radix * (1 + aux2[i]) + key2[i]
      BY WordFacts DEF Masked
  <2> QED BY <2>1, Unmask
<1> QED BY <1>1 DEF Words

----------------------------------------------------------------------------
(* Strings of three and four parts.                                        *)
Cat3(a, b, c) == Cat(Cat(a, b), c)
Cat4(a, b, c, d) == Cat(Cat3(a, b, c), d)

LEMMA Cancel3 ==
    ASSUME NEW a \in Texts, NEW b \in Texts, NEW c \in Texts,
           NEW a2 \in Texts, NEW b2 \in Texts, NEW c2 \in Texts,
           Size(a) = Size(a2), Size(b) = Size(b2), Cat3(a, b, c) = Cat3(a2, b2, c2)
    PROVE  a = a2 /\ b = b2 /\ c = c2
<1>1. Cat(a, b) \in Texts /\ Cat(a2, b2) \in Texts /\ Size(Cat(a, b)) = Size(Cat(a2, b2))
    BY Concat
<1>2. Cat(a, b) = Cat(a2, b2) /\ c = c2
    BY <1>1, Cancel DEF Cat3
<1> QED BY <1>2, Cancel

LEMMA Length4 ==
    ASSUME NEW a \in Texts, NEW b \in Texts, NEW c \in Texts, NEW d \in Texts
    PROVE  /\ Cat3(a, b, c) \in Texts /\ Size(Cat3(a, b, c)) = Size(a) + Size(b) + Size(c)
           /\ Cat4(a, b, c, d) \in Texts /\ Size(Cat4(a, b, c, d)) = Size(a) + Size(b) + Size(c) + Size(d)
           /\ Size(a) > 0 => Cat3(a, b, c)[1] = a[1] /\ Cat4(a, b, c, d)[1] = a[1]
<1>1. Cat(a, b) \in Texts /\ Size(Cat(a, b)) = Size(a) + Size(b) /\ (Size(a) > 0 => Cat(a, b)[1] = a[1])
    BY Concat
<1>2. Size(a) \in Nat /\ Size(b) \in Nat /\ Size(c) \in Nat
    BY TextLength
<1>3. /\ Cat3(a, b, c) \in Texts /\ Size(Cat3(a, b, c)) = Size(a) + Size(b) + Size(c)
      /\ Size(a) > 0 => Cat3(a, b, c)[1] = a[1]
    BY <1>1, <1>2, Concat DEF Cat3
<1> QED BY <1>2, <1>3, Concat DEF Cat4

LEMMA Sum4 == \A a, b, c, d \in Texts : Size(Cat4(a, b, c, d)) = Size(a) + Size(b) + Size(c) + Size(d)
<1> SUFFICES ASSUME NEW a \in Texts, NEW b \in Texts, NEW c \in Texts, NEW d \in Texts
             PROVE  Size(Cat4(a, b, c, d)) = Size(a) + Size(b) + Size(c) + Size(d)
    OBVIOUS
<1>1. Cat3(a, b, c) \in Texts /\ Size(Cat3(a, b, c)) = Size(a) + Size(b) + Size(c)
    BY Length4
<1> QED BY <1>1, Concat DEF Cat4

(* Four parts, of which the first three are as long as those of another.   *)
Alike(a, b, c, d, a2, b2, c2, d2) ==
    /\ a \in Texts /\ b \in Texts /\ c \in Texts /\ d \in Texts
    /\ a2 \in Texts /\ b2 \in Texts /\ c2 \in Texts /\ d2 \in Texts
    /\ Size(a) = Size(a2) /\ Size(b) = Size(b2) /\ Size(c) = Size(c2)

LEMMA Cancel4 ==
    \A a, b, c, d, a2, b2, c2, d2 :
        Alike(a, b, c, d, a2, b2, c2, d2) /\ Cat4(a, b, c, d) = Cat4(a2, b2, c2, d2)
            => a = a2 /\ b = b2 /\ c = c2 /\ d = d2
<1> SUFFICES ASSUME NEW a, NEW b, NEW c, NEW d, NEW a2, NEW b2, NEW c2, NEW d2,
                    Alike(a, b, c, d, a2, b2, c2, d2), Cat4(a, b, c, d) = Cat4(a2, b2, c2, d2)
             PROVE  a = a2 /\ b = b2 /\ c = c2 /\ d = d2
    OBVIOUS
<1>0. /\ a \in Texts /\ b \in Texts /\ c \in Texts /\ d \in Texts
      /\ a2 \in Texts /\ b2 \in Texts /\ c2 \in Texts /\ d2 \in Texts
      /\ Size(a) = Size(a2) /\ Size(b) = Size(b2) /\ Size(c) = Size(c2)
    BY DEF Alike
<1>1. Cat3(a, b, c) \in Texts /\ Cat3(a2, b2, c2) \in Texts /\ Size(Cat3(a, b, c)) = Size(Cat3(a2, b2, c2))
    BY <1>0, Length4
<1>2. Cat3(a, b, c) = Cat3(a2, b2, c2) /\ d = d2
    BY <1>0, <1>1, Cancel DEF Cat4
<1> QED BY <1>0, <1>2, Cancel3

----------------------------------------------------------------------------
(* The function that hashed a string, found from the string: by its tag,   *)
(* or by its length if there is none.                                      *)
KindOf(hashed) == IF hashed[1] >= 0
                  THEN IF Size(hashed) = 3 THEN 12 ELSE IF Size(hashed) = 14 THEN 13 ELSE 1
                  ELSE IF hashed[1] \in {-1, -12} THEN 2 ELSE - hashed[1]

(* Calls of one function.                                                  *)
Separate(kind, calls) ==
    \A c \in calls : /\ c.view[1][1] = kind /\ KindOf(c.hashed) = kind
                     /\ \A d \in calls : d.hashed = c.hashed <=> d.view = c.view

LEMMA TagKind ==
    \A tag \in 1 .. 12 : \A text \in Texts :
        KindOf(Tagged(tag, text)) = IF tag \in {1, 12} THEN 2 ELSE tag
BY TagFacts DEF KindOf

LEMMA ChallengesSeparate == Separate(3, ChallengeCalls)
<1>1. ASSUME NEW r \in Strings32, NEW pk \in Strings32, NEW msg \in Messages
      PROVE  /\ OfLength(r, 2) /\ OfLength(pk, 2) /\ msg \in Texts
             /\ Cat3(r, pk, msg) \in Texts /\ Challenge(r, pk, msg) = Tagged(3, Cat3(r, pk, msg))
             /\ KindOf(Challenge(r, pk, msg)) = 3
  <2>1. OfLength(r, 2) /\ OfLength(pk, 2) /\ msg \in Texts
      BY Arguments
  <2>2. Challenge(r, pk, msg) = Tagged(3, Cat3(r, pk, msg))
      BY DEF Challenge, Cat3, Cat
  <2> QED BY <2>1, <2>2, Length4, TagKind DEF OfLength
<1>2. ASSUME NEW r \in Strings32, NEW pk \in Strings32, NEW msg \in Messages,
             NEW r2 \in Strings32, NEW pk2 \in Strings32, NEW msg2 \in Messages,
             Challenge(r, pk, msg) = Challenge(r2, pk2, msg2)
      PROVE  r = r2 /\ pk = pk2 /\ msg = msg2
  <2>1. Cat3(r, pk, msg) = Cat3(r2, pk2, msg2)
      BY <1>1, <1>2, TagCancel
  <2>2. OfLength(r, 2) /\ OfLength(pk, 2) /\ msg \in Texts /\ OfLength(r2, 2) /\ OfLength(pk2, 2) /\ msg2 \in Texts
      BY <1>1
  <2> QED BY <2>1, <2>2, Cancel3 DEF OfLength
<1> SUFFICES ASSUME NEW c \in ChallengeCalls
             PROVE  /\ c.view[1][1] = 3 /\ KindOf(c.hashed) = 3
                    /\ \A d \in ChallengeCalls : d.hashed = c.hashed <=> d.view = c.view
    BY DEF Separate
<1>3. PICK a \in Strings32 \X Strings32 \X Messages :
          c = Of(Challenge(a[1], a[2], a[3]), << << 3 >>, a[1], a[2], a[3] >>)
    BY DEF ChallengeCalls
<1>4. ASSUME NEW d \in ChallengeCalls PROVE d.hashed = c.hashed <=> d.view = c.view
  <2>1. PICK b \in Strings32 \X Strings32 \X Messages :
            d = Of(Challenge(b[1], b[2], b[3]), << << 3 >>, b[1], b[2], b[3] >>)
      BY DEF ChallengeCalls
  <2>2. Challenge(a[1], a[2], a[3]) = Challenge(b[1], b[2], b[3])
        => a[1] = b[1] /\ a[2] = b[2] /\ a[3] = b[3]
      BY <1>2
  <2>3. a[1] = b[1] /\ a[2] = b[2] /\ a[3] = b[3] => Challenge(a[1], a[2], a[3]) = Challenge(b[1], b[2], b[3])
      BY <1>1
  <2> QED BY <1>3, <2>1, <2>2, <2>3 DEF Of
<1>5. KindOf(Challenge(a[1], a[2], a[3])) = 3
    BY <1>1
<1> QED BY <1>3, <1>4, <1>5 DEF Of

LEMMA Bip324Separate == Separate(11, Bip324Calls)
<1>1. ASSUME NEW x \in Strings32, NEW ellA \in Strings64, NEW ellB \in Strings64
      PROVE  /\ OfLength(x, 2) /\ OfLength(ellA, 4) /\ OfLength(ellB, 4)
             /\ Cat3(ellA, ellB, x) \in Texts /\ XdhBip324(x, ellA, ellB) = Tagged(11, Cat3(ellA, ellB, x))
             /\ KindOf(XdhBip324(x, ellA, ellB)) = 11
  <2>1. OfLength(x, 2) /\ OfLength(ellA, 4) /\ OfLength(ellB, 4)
      BY Arguments, ZeroFacts, OptionalFacts, Singles, InputsAssumption DEF OfLength
  <2>2. XdhBip324(x, ellA, ellB) = Tagged(11, Cat3(ellA, ellB, x))
      BY DEF XdhBip324, Cat3, Cat4, Cat
  <2>3. Cat3(ellA, ellB, x) \in Texts
      BY <2>1, Length4, Concat DEF OfLength
  <2> QED BY <2>1, <2>2, <2>3, TagKind DEF OfLength
<1>2. ASSUME NEW x \in Strings32, NEW ellA \in Strings64, NEW ellB \in Strings64,
             NEW x2 \in Strings32, NEW ellA2 \in Strings64, NEW ellB2 \in Strings64,
             XdhBip324(x, ellA, ellB) = XdhBip324(x2, ellA2, ellB2)
      PROVE  x = x2 /\ ellA = ellA2 /\ ellB = ellB2
  <2>1. OfLength(x, 2) /\ OfLength(ellA, 4) /\ OfLength(ellB, 4)
      BY <1>1
  <2>2. OfLength(x2, 2) /\ OfLength(ellA2, 4) /\ OfLength(ellB2, 4)
      BY <1>1
  <2>3. Cat3(ellA, ellB, x) \in Texts /\ Cat3(ellA2, ellB2, x2) \in Texts /\ Tagged(11, Cat3(ellA, ellB, x)) = Tagged(11, Cat3(ellA2, ellB2, x2))
      BY <1>1, <1>2
  <2>4. Cat3(ellA, ellB, x) = Cat3(ellA2, ellB2, x2)
      BY <2>3, TagCancel
  <2> QED BY <2>1, <2>2, <2>4, Cancel3 DEF OfLength
<1> SUFFICES ASSUME NEW c \in Bip324Calls
             PROVE  /\ c.view[1][1] = 11 /\ KindOf(c.hashed) = 11
                    /\ \A d \in Bip324Calls : d.hashed = c.hashed <=> d.view = c.view
    BY DEF Separate
<1>3. PICK a \in Strings32 \X Strings64 \X Strings64 :
          c = Of(XdhBip324(a[1], a[2], a[3]), << << 11 >>, a[1], a[2], a[3] >>)
    BY DEF Bip324Calls
<1>4. ASSUME NEW d \in Bip324Calls PROVE d.hashed = c.hashed <=> d.view = c.view
  <2>1. PICK b \in Strings32 \X Strings64 \X Strings64 :
            d = Of(XdhBip324(b[1], b[2], b[3]), << << 11 >>, b[1], b[2], b[3] >>)
      BY DEF Bip324Calls
  <2>2. XdhBip324(a[1], a[2], a[3]) = XdhBip324(b[1], b[2], b[3])
        => a[1] = b[1] /\ a[2] = b[2] /\ a[3] = b[3]
      BY <1>2
  <2>3. a[1] = b[1] /\ a[2] = b[2] /\ a[3] = b[3] => XdhBip324(a[1], a[2], a[3]) = XdhBip324(b[1], b[2], b[3])
      BY <1>1
  <2> QED BY <1>3, <2>1, <2>2, <2>3 DEF Of
<1>5. KindOf(XdhBip324(a[1], a[2], a[3])) = 11
    BY <1>1
<1> QED BY <1>3, <1>4, <1>5 DEF Of

LEMMA KeyAggCoefSeparate == Separate(8, KeyAggCoefCalls)
<1>1. ASSUME NEW hash \in Strings32, NEW pk \in Strings33
      PROVE  /\ OfLength(hash, 2) /\ OfLength(pk, 3)
             /\ Cat(hash, pk) \in Texts /\ KeyAggCoef(hash, pk) = Tagged(8, Cat(hash, pk))
             /\ KindOf(KeyAggCoef(hash, pk)) = 8
  <2>1. OfLength(hash, 2) /\ OfLength(pk, 3)
      BY Arguments, ZeroFacts, OptionalFacts, Singles, InputsAssumption DEF OfLength
  <2>2. KeyAggCoef(hash, pk) = Tagged(8, Cat(hash, pk))
      BY DEF KeyAggCoef, Cat3, Cat4, Cat
  <2>3. Cat(hash, pk) \in Texts
      BY <2>1, Length4, Concat DEF OfLength
  <2> QED BY <2>1, <2>2, <2>3, TagKind DEF OfLength
<1>2. ASSUME NEW hash \in Strings32, NEW pk \in Strings33,
             NEW hash2 \in Strings32, NEW pk2 \in Strings33,
             KeyAggCoef(hash, pk) = KeyAggCoef(hash2, pk2)
      PROVE  hash = hash2 /\ pk = pk2
  <2>1. OfLength(hash, 2) /\ OfLength(pk, 3)
      BY <1>1
  <2>2. OfLength(hash2, 2) /\ OfLength(pk2, 3)
      BY <1>1
  <2>3. Cat(hash, pk) \in Texts /\ Cat(hash2, pk2) \in Texts /\ Tagged(8, Cat(hash, pk)) = Tagged(8, Cat(hash2, pk2))
      BY <1>1, <1>2
  <2>4. Cat(hash, pk) = Cat(hash2, pk2)
      BY <2>3, TagCancel
  <2> QED BY <2>1, <2>2, <2>4, Cancel DEF OfLength
<1> SUFFICES ASSUME NEW c \in KeyAggCoefCalls
             PROVE  /\ c.view[1][1] = 8 /\ KindOf(c.hashed) = 8
                    /\ \A d \in KeyAggCoefCalls : d.hashed = c.hashed <=> d.view = c.view
    BY DEF Separate
<1>3. PICK a \in Strings32 \X Strings33 :
          c = Of(KeyAggCoef(a[1], a[2]), << << 8 >>, a[1], a[2] >>)
    BY DEF KeyAggCoefCalls
<1>4. ASSUME NEW d \in KeyAggCoefCalls PROVE d.hashed = c.hashed <=> d.view = c.view
  <2>1. PICK b \in Strings32 \X Strings33 :
            d = Of(KeyAggCoef(b[1], b[2]), << << 8 >>, b[1], b[2] >>)
      BY DEF KeyAggCoefCalls
  <2>2. KeyAggCoef(a[1], a[2]) = KeyAggCoef(b[1], b[2])
        => a[1] = b[1] /\ a[2] = b[2]
      BY <1>2
  <2>3. a[1] = b[1] /\ a[2] = b[2] => KeyAggCoef(a[1], a[2]) = KeyAggCoef(b[1], b[2])
      BY <1>1
  <2> QED BY <1>3, <2>1, <2>2, <2>3 DEF Of
<1>5. KindOf(KeyAggCoef(a[1], a[2])) = 8
    BY <1>1
<1> QED BY <1>3, <1>4, <1>5 DEF Of

LEMMA NonceHashSeparate == Separate(6, NonceHashCalls)
<1>1. ASSUME NEW r \in Strings33 \cup {Zeros(3)}, NEW s \in Strings33 \cup {Zeros(3)}, NEW aggpk \in Strings32, NEW msg \in Strings32
      PROVE  /\ OfLength(r, 3) /\ OfLength(s, 3) /\ OfLength(aggpk, 2) /\ OfLength(msg, 2)
             /\ Cat4(r, s, aggpk, msg) \in Texts /\ NonceHash(<< r, s >>, aggpk, msg) = Tagged(6, Cat4(r, s, aggpk, msg))
             /\ KindOf(NonceHash(<< r, s >>, aggpk, msg)) = 6
  <2>1. OfLength(r, 3) /\ OfLength(s, 3) /\ OfLength(aggpk, 2) /\ OfLength(msg, 2)
      BY Arguments, ZeroFacts, OptionalFacts, Singles, InputsAssumption DEF OfLength
  <2>2. NonceHash(<< r, s >>, aggpk, msg) = Tagged(6, Cat4(r, s, aggpk, msg))
      BY DEF NonceHash, Cat3, Cat4, Cat
  <2>3. Cat4(r, s, aggpk, msg) \in Texts
      BY <2>1, Length4, Concat DEF OfLength
  <2> QED BY <2>1, <2>2, <2>3, TagKind DEF OfLength
<1>2. ASSUME NEW a \in (Strings33 \cup {Zeros(3)}) \X (Strings33 \cup {Zeros(3)}) \X Strings32 \X Strings32,
             NEW b \in (Strings33 \cup {Zeros(3)}) \X (Strings33 \cup {Zeros(3)}) \X Strings32 \X Strings32,
             NonceHash(<< a[1], a[2] >>, a[3], a[4]) = NonceHash(<< b[1], b[2] >>, b[3], b[4])
      PROVE  a[1] = b[1] /\ a[2] = b[2] /\ a[3] = b[3] /\ a[4] = b[4]
  <2> DEFINE r == a[1]
             s == a[2]
             aggpk == a[3]
             msg == a[4]
             r2 == b[1]
             s2 == b[2]
             aggpk2 == b[3]
             msg2 == b[4]
  <2>0. /\ r \in Strings33 \cup {Zeros(3)} /\ s \in Strings33 \cup {Zeros(3)} /\ aggpk \in Strings32 /\ msg \in Strings32
        /\ r2 \in Strings33 \cup {Zeros(3)} /\ s2 \in Strings33 \cup {Zeros(3)} /\ aggpk2 \in Strings32 /\ msg2 \in Strings32
        /\ NonceHash(<< r, s >>, aggpk, msg) = NonceHash(<< r2, s2 >>, aggpk2, msg2)
      BY <1>2
  <2> HIDE DEF r, s, aggpk, msg, r2, s2, aggpk2, msg2
  <2>1. OfLength(r, 3) /\ OfLength(s, 3) /\ OfLength(aggpk, 2) /\ OfLength(msg, 2)
      BY <2>0, <1>1
  <2>2. OfLength(r2, 3) /\ OfLength(s2, 3) /\ OfLength(aggpk2, 2) /\ OfLength(msg2, 2)
      BY <2>0, <1>1
  <2>3. Cat4(r, s, aggpk, msg) \in Texts /\ Cat4(r2, s2, aggpk2, msg2) \in Texts /\ Tagged(6, Cat4(r, s, aggpk, msg)) = Tagged(6, Cat4(r2, s2, aggpk2, msg2))
      BY <2>0, <1>1
  <2>4. Cat4(r, s, aggpk, msg) = Cat4(r2, s2, aggpk2, msg2)
      BY <2>3, TagCancel
  <2>5. Alike(r, s, aggpk, msg, r2, s2, aggpk2, msg2)
      BY <2>1, <2>2 DEF Alike, OfLength
  <2>6. r = r2 /\ s = s2 /\ aggpk = aggpk2 /\ msg = msg2
      BY <2>4, <2>5, Cancel4
  <2> QED BY <2>6 DEF r, s, aggpk, msg, r2, s2, aggpk2, msg2
<1> SUFFICES ASSUME NEW c \in NonceHashCalls
             PROVE  /\ c.view[1][1] = 6 /\ KindOf(c.hashed) = 6
                    /\ \A d \in NonceHashCalls : d.hashed = c.hashed <=> d.view = c.view
    BY DEF Separate
<1>3. PICK a \in (Strings33 \cup {Zeros(3)}) \X (Strings33 \cup {Zeros(3)}) \X Strings32 \X Strings32 :
          c = Of(NonceHash(<< a[1], a[2] >>, a[3], a[4]), << << 6 >>, a[1], a[2], a[3], a[4] >>)
    BY DEF NonceHashCalls
<1>4. ASSUME NEW d \in NonceHashCalls PROVE d.hashed = c.hashed <=> d.view = c.view
  <2>1. PICK b \in (Strings33 \cup {Zeros(3)}) \X (Strings33 \cup {Zeros(3)}) \X Strings32 \X Strings32 :
            d = Of(NonceHash(<< b[1], b[2] >>, b[3], b[4]), << << 6 >>, b[1], b[2], b[3], b[4] >>)
      BY DEF NonceHashCalls
  <2>2. NonceHash(<< a[1], a[2] >>, a[3], a[4]) = NonceHash(<< b[1], b[2] >>, b[3], b[4])
        => a[1] = b[1] /\ a[2] = b[2] /\ a[3] = b[3] /\ a[4] = b[4]
      BY <1>2
  <2>3. a[1] = b[1] /\ a[2] = b[2] /\ a[3] = b[3] /\ a[4] = b[4] => NonceHash(<< a[1], a[2] >>, a[3], a[4]) = NonceHash(<< b[1], b[2] >>, b[3], b[4])
      BY <1>1
  <2> QED BY <1>3, <2>1, <2>2, <2>3 DEF Of
<1>5. KindOf(NonceHash(<< a[1], a[2] >>, a[3], a[4])) = 6
    BY <1>1
<1> QED BY <1>3, <1>4, <1>5 DEF Of

LEMMA EncodeSeparate == Separate(9, EncodeCalls)
<1>1. ASSUME NEW pk \in Strings33, NEW rnd \in Strings32, NEW cnt \in Counts
      PROVE  /\ OfLength(pk, 3) /\ OfLength(Zeros(1), 1) /\ OfLength(rnd, 2) /\ OfLength(<< cnt >>, 1)
             /\ Cat4(pk, Zeros(1), rnd, << cnt >>) \in Texts /\ EncodeHash(pk, rnd, cnt) = Tagged(9, Cat4(pk, Zeros(1), rnd, << cnt >>))
             /\ KindOf(EncodeHash(pk, rnd, cnt)) = 9
  <2>1. OfLength(pk, 3) /\ OfLength(Zeros(1), 1) /\ OfLength(rnd, 2) /\ OfLength(<< cnt >>, 1)
      BY Arguments, ZeroFacts, OptionalFacts, Singles, InputsAssumption DEF OfLength
  <2>2. EncodeHash(pk, rnd, cnt) = Tagged(9, Cat4(pk, Zeros(1), rnd, << cnt >>))
      BY DEF EncodeHash, Cat3, Cat4, Cat
  <2>3. Cat4(pk, Zeros(1), rnd, << cnt >>) \in Texts
      BY <2>1, Length4, Concat DEF OfLength
  <2> QED BY <2>1, <2>2, <2>3, TagKind DEF OfLength
<1>2. ASSUME NEW pk \in Strings33, NEW rnd \in Strings32, NEW cnt \in Counts,
             NEW pk2 \in Strings33, NEW rnd2 \in Strings32, NEW cnt2 \in Counts,
             EncodeHash(pk, rnd, cnt) = EncodeHash(pk2, rnd2, cnt2)
      PROVE  pk = pk2 /\ rnd = rnd2 /\ cnt = cnt2
  <2>1. OfLength(pk, 3) /\ OfLength(Zeros(1), 1) /\ OfLength(rnd, 2) /\ OfLength(<< cnt >>, 1)
      BY <1>1
  <2>2. OfLength(pk2, 3) /\ OfLength(Zeros(1), 1) /\ OfLength(rnd2, 2) /\ OfLength(<< cnt2 >>, 1)
      BY <1>1
  <2>3. Cat4(pk, Zeros(1), rnd, << cnt >>) \in Texts /\ Cat4(pk2, Zeros(1), rnd2, << cnt2 >>) \in Texts /\ Tagged(9, Cat4(pk, Zeros(1), rnd, << cnt >>)) = Tagged(9, Cat4(pk2, Zeros(1), rnd2, << cnt2 >>))
      BY <1>1, <1>2
  <2>4. Cat4(pk, Zeros(1), rnd, << cnt >>) = Cat4(pk2, Zeros(1), rnd2, << cnt2 >>)
      BY <2>3, TagCancel
  <2>5. Alike(pk, Zeros(1), rnd, << cnt >>, pk2, Zeros(1), rnd2, << cnt2 >>)
      BY <2>1, <2>2 DEF Alike, OfLength
  <2>6. pk = pk2 /\ rnd = rnd2 /\ << cnt >> = << cnt2 >>
      BY <2>4, <2>5, Cancel4
  <2> QED BY <2>6
<1> SUFFICES ASSUME NEW c \in EncodeCalls
             PROVE  /\ c.view[1][1] = 9 /\ KindOf(c.hashed) = 9
                    /\ \A d \in EncodeCalls : d.hashed = c.hashed <=> d.view = c.view
    BY DEF Separate
<1>3. PICK a \in Strings33 \X Strings32 \X Counts :
          c = Of(EncodeHash(a[1], a[2], a[3]), << << 9, a[3] >>, a[1], a[2] >>)
    BY DEF EncodeCalls
<1>4. ASSUME NEW d \in EncodeCalls PROVE d.hashed = c.hashed <=> d.view = c.view
  <2>1. PICK b \in Strings33 \X Strings32 \X Counts :
            d = Of(EncodeHash(b[1], b[2], b[3]), << << 9, b[3] >>, b[1], b[2] >>)
      BY DEF EncodeCalls
  <2>2. EncodeHash(a[1], a[2], a[3]) = EncodeHash(b[1], b[2], b[3])
        => a[1] = b[1] /\ a[2] = b[2] /\ a[3] = b[3]
      BY <1>2
  <2>3. a[1] = b[1] /\ a[2] = b[2] /\ a[3] = b[3] => EncodeHash(a[1], a[2], a[3]) = EncodeHash(b[1], b[2], b[3])
      BY <1>1
  <2> QED BY <1>3, <2>1, <2>2, <2>3 DEF Of
<1>5. KindOf(EncodeHash(a[1], a[2], a[3])) = 9
    BY <1>1
<1> QED BY <1>3, <1>4, <1>5 DEF Of

LEMMA EcdhSeparate == Separate(12, EcdhCalls)
<1>1. ASSUME NEW x \in Strings32, NEW odd \in {0, 1}
      PROVE  /\ OfLength(x, 2) /\ OfLength(<< 2 + odd >>, 1)
             /\ Cat(<< 2 + odd >>, x) \in Texts /\ EcdhHash(x, odd) = Cat(<< 2 + odd >>, x)
             /\ KindOf(EcdhHash(x, odd)) = 12
  <2>1. OfLength(x, 2) /\ OfLength(<< 2 + odd >>, 1) /\ << 2 + odd >>[1] = 2 + odd
      BY Arguments, Singles DEF OfLength
  <2>2. EcdhHash(x, odd) = Cat(<< 2 + odd >>, x)
      BY DEF EcdhHash, Cat
  <2>3. Cat(<< 2 + odd >>, x) \in Texts /\ Size(Cat(<< 2 + odd >>, x)) = 3 /\ Cat(<< 2 + odd >>, x)[1] = 2 + odd
      BY <2>1, Concat DEF OfLength
  <2> QED BY <2>1, <2>2, <2>3 DEF KindOf
<1>2. ASSUME NEW x \in Strings32, NEW odd \in {0, 1},
             NEW x2 \in Strings32, NEW odd2 \in {0, 1},
             EcdhHash(x, odd) = EcdhHash(x2, odd2)
      PROVE  x = x2 /\ odd = odd2
  <2>1. OfLength(x, 2) /\ OfLength(<< 2 + odd >>, 1) /\ OfLength(x2, 2) /\ OfLength(<< 2 + odd2 >>, 1)
      BY <1>1
  <2>2. Cat(<< 2 + odd >>, x) = Cat(<< 2 + odd2 >>, x2)
      BY <1>1, <1>2
  <2>3. << 2 + odd >> = << 2 + odd2 >> /\ x = x2
      BY <2>1, <2>2, Cancel DEF OfLength
  <2> QED BY <2>3
<1> SUFFICES ASSUME NEW c \in EcdhCalls
             PROVE  /\ c.view[1][1] = 12 /\ KindOf(c.hashed) = 12
                    /\ \A d \in EcdhCalls : d.hashed = c.hashed <=> d.view = c.view
    BY DEF Separate
<1>3. PICK a \in Strings32 \X {0, 1} :
          c = Of(EcdhHash(a[1], a[2]), << << 12, a[2] >>, a[1] >>)
    BY DEF EcdhCalls
<1>4. ASSUME NEW d \in EcdhCalls PROVE d.hashed = c.hashed <=> d.view = c.view
  <2>1. PICK b \in Strings32 \X {0, 1} :
            d = Of(EcdhHash(b[1], b[2]), << << 12, b[2] >>, b[1] >>)
      BY DEF EcdhCalls
  <2>2. EcdhHash(a[1], a[2]) = EcdhHash(b[1], b[2])
        => a[1] = b[1] /\ a[2] = b[2]
      BY <1>2
  <2>3. a[1] = b[1] /\ a[2] = b[2] => EcdhHash(a[1], a[2]) = EcdhHash(b[1], b[2])
      BY <1>1
  <2> QED BY <1>3, <2>1, <2>2, <2>3 DEF Of
<1>5. KindOf(EcdhHash(a[1], a[2])) = 12
    BY <1>1
<1> QED BY <1>3, <1>4, <1>5 DEF Of

LEMMA PrefixSeparate == Separate(13, PrefixCalls)
<1>1. ASSUME NEW x \in Strings32, NEW ellA \in Strings64, NEW ellB \in Strings64, NEW data \in Strings64
      PROVE  /\ OfLength(data, 4) /\ OfLength(ellA, 4) /\ OfLength(ellB, 4) /\ OfLength(x, 2)
             /\ Cat4(data, ellA, ellB, x) \in Texts /\ XdhPrefix(x, ellA, ellB, data) = Cat4(data, ellA, ellB, x)
             /\ KindOf(XdhPrefix(x, ellA, ellB, data)) = 13
  <2>1. OfLength(data, 4) /\ OfLength(ellA, 4) /\ OfLength(ellB, 4) /\ OfLength(x, 2) /\ data[1] \in Symbols
      BY Arguments, WordFacts
  <2>2. XdhPrefix(x, ellA, ellB, data) = Cat4(data, ellA, ellB, x)
      BY DEF XdhPrefix, Cat4, Cat3, Cat
  <2>3. /\ Cat4(data, ellA, ellB, x) \in Texts /\ Size(Cat4(data, ellA, ellB, x)) = 14
        /\ Cat4(data, ellA, ellB, x)[1] = data[1]
      BY <2>1, Length4 DEF OfLength
  <2> QED BY <2>1, <2>2, <2>3 DEF KindOf, Symbols
<1>2. ASSUME NEW a \in Strings32 \X Strings64 \X Strings64 \X Strings64,
             NEW b \in Strings32 \X Strings64 \X Strings64 \X Strings64,
             XdhPrefix(a[1], a[2], a[3], a[4]) = XdhPrefix(b[1], b[2], b[3], b[4])
      PROVE  a[1] = b[1] /\ a[2] = b[2] /\ a[3] = b[3] /\ a[4] = b[4]
  <2> DEFINE x == a[1]
             ellA == a[2]
             ellB == a[3]
             data == a[4]
             x2 == b[1]
             ellA2 == b[2]
             ellB2 == b[3]
             data2 == b[4]
  <2>0. /\ x \in Strings32 /\ ellA \in Strings64 /\ ellB \in Strings64 /\ data \in Strings64
        /\ x2 \in Strings32 /\ ellA2 \in Strings64 /\ ellB2 \in Strings64 /\ data2 \in Strings64
        /\ XdhPrefix(x, ellA, ellB, data) = XdhPrefix(x2, ellA2, ellB2, data2)
      BY <1>2
  <2> HIDE DEF x, ellA, ellB, data, x2, ellA2, ellB2, data2
  <2>1. OfLength(data, 4) /\ OfLength(ellA, 4) /\ OfLength(ellB, 4) /\ OfLength(x, 2)
      BY <2>0, <1>1
  <2>2. OfLength(data2, 4) /\ OfLength(ellA2, 4) /\ OfLength(ellB2, 4) /\ OfLength(x2, 2)
      BY <2>0, <1>1
  <2>3. Cat4(data, ellA, ellB, x) = Cat4(data2, ellA2, ellB2, x2)
      BY <2>0, <1>1
  <2>4. Alike(data, ellA, ellB, x, data2, ellA2, ellB2, x2)
      BY <2>1, <2>2 DEF Alike, OfLength
  <2>5. data = data2 /\ ellA = ellA2 /\ ellB = ellB2 /\ x = x2
      BY <2>3, <2>4, Cancel4
  <2> QED BY <2>5 DEF x, ellA, ellB, data, x2, ellA2, ellB2, data2
<1> SUFFICES ASSUME NEW c \in PrefixCalls
             PROVE  /\ c.view[1][1] = 13 /\ KindOf(c.hashed) = 13
                    /\ \A d \in PrefixCalls : d.hashed = c.hashed <=> d.view = c.view
    BY DEF Separate
<1>3. PICK a \in Strings32 \X Strings64 \X Strings64 \X Strings64 :
          c = Of(XdhPrefix(a[1], a[2], a[3], a[4]), << << 13 >>, a[1], a[2], a[3], a[4] >>)
    BY DEF PrefixCalls
<1>4. ASSUME NEW d \in PrefixCalls PROVE d.hashed = c.hashed <=> d.view = c.view
  <2>1. PICK b \in Strings32 \X Strings64 \X Strings64 \X Strings64 :
            d = Of(XdhPrefix(b[1], b[2], b[3], b[4]), << << 13 >>, b[1], b[2], b[3], b[4] >>)
      BY DEF PrefixCalls
  <2>2. XdhPrefix(a[1], a[2], a[3], a[4]) = XdhPrefix(b[1], b[2], b[3], b[4])
        => a[1] = b[1] /\ a[2] = b[2] /\ a[3] = b[3] /\ a[4] = b[4]
      BY <1>2
  <2>3. a[1] = b[1] /\ a[2] = b[2] /\ a[3] = b[3] /\ a[4] = b[4] => XdhPrefix(a[1], a[2], a[3], a[4]) = XdhPrefix(b[1], b[2], b[3], b[4])
      BY <1>1
  <2> QED BY <1>3, <2>1, <2>2, <2>3 DEF Of
<1>5. KindOf(XdhPrefix(a[1], a[2], a[3], a[4])) = 13
    BY <1>1
<1> QED BY <1>3, <1>4, <1>5 DEF Of

LEMMA CreateSeparate == Separate(10, CreateCalls)
<1>1. ASSUME NEW seckey \in Strings32, NEW aux \in Optional(Strings32), NEW cnt \in Counts
      PROVE  /\ OfLength(seckey, 2) /\ OfLength(Zeros(2), 2) /\ aux \in Texts /\ OfLength(<< cnt >>, 1)
             /\ Cat4(seckey, Zeros(2), aux, << cnt >>) \in Texts /\ CreateHash(seckey, aux, cnt) = Tagged(10, Cat4(seckey, Zeros(2), aux, << cnt >>))
             /\ KindOf(CreateHash(seckey, aux, cnt)) = 10
  <2>1. OfLength(seckey, 2) /\ OfLength(Zeros(2), 2) /\ aux \in Texts /\ OfLength(<< cnt >>, 1)
      BY Arguments, ZeroFacts, OptionalFacts, Singles, InputsAssumption DEF OfLength
  <2>2. CreateHash(seckey, aux, cnt) = Tagged(10, Cat4(seckey, Zeros(2), aux, << cnt >>))
      BY DEF CreateHash, Cat4, Cat3, Cat
  <2>3. Cat4(seckey, Zeros(2), aux, << cnt >>) \in Texts
      BY <2>1, Length4 DEF OfLength
  <2> QED BY <2>1, <2>2, <2>3, TagKind
<1>2. ASSUME NEW seckey \in Strings32, NEW aux \in Optional(Strings32), NEW cnt \in Counts,
             NEW seckey2 \in Strings32, NEW aux2 \in Optional(Strings32), NEW cnt2 \in Counts,
             CreateHash(seckey, aux, cnt) = CreateHash(seckey2, aux2, cnt2)
      PROVE  seckey = seckey2 /\ aux = aux2 /\ cnt = cnt2
  <2>1. OfLength(seckey, 2) /\ OfLength(Zeros(2), 2) /\ aux \in Texts /\ OfLength(<< cnt >>, 1)
      BY <1>1
  <2>2. OfLength(seckey2, 2) /\ OfLength(Zeros(2), 2) /\ aux2 \in Texts /\ OfLength(<< cnt2 >>, 1)
      BY <1>1
  <2> DEFINE h == Cat4(seckey, Zeros(2), aux, << cnt >>)
             h2 == Cat4(seckey2, Zeros(2), aux2, << cnt2 >>)
  <2>3. h \in Texts /\ h2 \in Texts /\ Tagged(10, h) = Tagged(10, h2)
      BY <1>1, <1>2
  <2>4. h = h2
      BY <2>3, TagCancel
  <2>5. Size(h) = 4 + Size(aux) + 1 /\ Size(h2) = 4 + Size(aux2) + 1
    <3>1. Size(h) = Size(seckey) + Size(Zeros(2)) + Size(aux) + Size(<< cnt >>)
        BY <2>1, Length4 DEF OfLength
    <3>2. Size(h2) = Size(seckey2) + Size(Zeros(2)) + Size(aux2) + Size(<< cnt2 >>)
        BY <2>2, Length4 DEF OfLength
    <3> QED BY <3>1, <3>2, <2>1, <2>2, TextLength DEF OfLength
  <2>6. Size(aux) = Size(aux2)
      BY <2>1, <2>2, <2>4, <2>5, TextLength
  <2>7. Alike(seckey, Zeros(2), aux, << cnt >>, seckey2, Zeros(2), aux2, << cnt2 >>)
      BY <2>1, <2>2, <2>6 DEF Alike, OfLength
  <2>8. seckey = seckey2 /\ aux = aux2 /\ << cnt >> = << cnt2 >>
      BY <2>4, <2>7, Cancel4
  <2> QED BY <2>8
<1> SUFFICES ASSUME NEW c \in CreateCalls
             PROVE  /\ c.view[1][1] = 10 /\ KindOf(c.hashed) = 10
                    /\ \A d \in CreateCalls : d.hashed = c.hashed <=> d.view = c.view
    BY DEF Separate
<1>3. PICK a \in Strings32 \X Optional(Strings32) \X Counts :
          c = Of(CreateHash(a[1], a[2], a[3]), << << 10, a[3] >>, a[1], a[2] >>)
    BY DEF CreateCalls
<1>4. ASSUME NEW d \in CreateCalls PROVE d.hashed = c.hashed <=> d.view = c.view
  <2>1. PICK b \in Strings32 \X Optional(Strings32) \X Counts :
            d = Of(CreateHash(b[1], b[2], b[3]), << << 10, b[3] >>, b[1], b[2] >>)
      BY DEF CreateCalls
  <2>2. CreateHash(a[1], a[2], a[3]) = CreateHash(b[1], b[2], b[3])
        => a[1] = b[1] /\ a[2] = b[2] /\ a[3] = b[3]
      BY <1>2
  <2>3. a[1] = b[1] /\ a[2] = b[2] /\ a[3] = b[3] => CreateHash(a[1], a[2], a[3]) = CreateHash(b[1], b[2], b[3])
      BY <1>1
  <2> QED BY <1>3, <2>1, <2>2, <2>3 DEF Of
<1>5. KindOf(CreateHash(a[1], a[2], a[3])) = 10
    BY <1>1
<1> QED BY <1>3, <1>4, <1>5 DEF Of

LEMMA Bip340Separate == Separate(2, Bip340Calls)
<1>1. ASSUME NEW key \in Strings32, NEW pk \in Strings32, NEW msg \in Messages, NEW algo \in {1, 12}, NEW data \in Optional(Strings32)
      PROVE  /\ OfLength(Masked(key, AuxOf(data)), 2) /\ OfLength(pk, 2) /\ msg \in Texts /\ key \in Words(2) /\ AuxOf(data) \in Words(2)
             /\ Cat3(Masked(key, AuxOf(data)), pk, msg) \in Texts /\ Bip340Nonce(key, pk, msg, algo, data) = Tagged(algo, Cat3(Masked(key, AuxOf(data)), pk, msg))
             /\ KindOf(Bip340Nonce(key, pk, msg, algo, data)) = 2
  <2>1. key \in Words(2) /\ AuxOf(data) \in Words(2)
      BY Arguments, OptionalFacts DEF AuxOf
  <2>2. OfLength(Masked(key, AuxOf(data)), 2) /\ OfLength(pk, 2) /\ msg \in Texts
      BY <2>1, Arguments, MaskedFacts
  <2>3. Bip340Nonce(key, pk, msg, algo, data) = Tagged(algo, Cat3(Masked(key, AuxOf(data)), pk, msg))
      BY DEF Bip340Nonce, Cat3, Cat
  <2>4. Cat3(Masked(key, AuxOf(data)), pk, msg) \in Texts
      BY <2>2, Length4 DEF OfLength
  <2>5. algo \in 1 .. 12
      OBVIOUS
  <2> QED BY <2>1, <2>2, <2>3, <2>4, <2>5, TagKind
<1>2. ASSUME NEW a \in Strings32 \X Strings32 \X Messages \X {1, 12} \X Optional(Strings32),
             NEW b \in Strings32 \X Strings32 \X Messages \X {1, 12} \X Optional(Strings32),
             Bip340Nonce(a[1], a[2], a[3], a[4], a[5]) = Bip340Nonce(b[1], b[2], b[3], b[4], b[5])
      PROVE  a[1] = b[1] /\ a[2] = b[2] /\ a[3] = b[3] /\ a[4] = b[4] /\ AuxOf(a[5]) = AuxOf(b[5])
  <2> DEFINE key == a[1]
             pk == a[2]
             msg == a[3]
             algo == a[4]
             data == a[5]
             key2 == b[1]
             pk2 == b[2]
             msg2 == b[3]
             algo2 == b[4]
             data2 == b[5]
  <2>0. /\ key \in Strings32 /\ pk \in Strings32 /\ msg \in Messages /\ algo \in {1, 12} /\ data \in Optional(Strings32)
        /\ key2 \in Strings32 /\ pk2 \in Strings32 /\ msg2 \in Messages /\ algo2 \in {1, 12} /\ data2 \in Optional(Strings32)
        /\ Bip340Nonce(key, pk, msg, algo, data) = Bip340Nonce(key2, pk2, msg2, algo2, data2)
      BY <1>2
  <2> HIDE DEF key, pk, msg, algo, data, key2, pk2, msg2, algo2, data2
  <2>1. /\ OfLength(Masked(key, AuxOf(data)), 2) /\ OfLength(pk, 2) /\ msg \in Texts
        /\ key \in Words(2) /\ AuxOf(data) \in Words(2)
      BY <2>0, <1>1
  <2>2. /\ OfLength(Masked(key2, AuxOf(data2)), 2) /\ OfLength(pk2, 2) /\ msg2 \in Texts
        /\ key2 \in Words(2) /\ AuxOf(data2) \in Words(2)
      BY <2>0, <1>1
  <2> DEFINE h == Cat3(Masked(key, AuxOf(data)), pk, msg)
             h2 == Cat3(Masked(key2, AuxOf(data2)), pk2, msg2)
  <2>3. h \in Texts /\ h2 \in Texts /\ Tagged(algo, h) = Tagged(algo2, h2)
    <3>1. h \in Texts /\ h2 \in Texts
        BY <2>1, <2>2, Length4 DEF OfLength
    <3>2. /\ Bip340Nonce(key, pk, msg, algo, data) = Tagged(algo, h)
          /\ Bip340Nonce(key2, pk2, msg2, algo2, data2) = Tagged(algo2, h2)
        BY DEF Bip340Nonce, Cat3, Cat
    <3> QED BY <2>0, <3>1, <3>2
  <2>4. algo = algo2 /\ h = h2
    <3>1. algo \in Int /\ algo2 \in Int
        BY <2>0
    <3> HIDE DEF h, h2
    <3> QED BY <2>3, <3>1, TagCancel DEF h, h2
  <2>5. Masked(key, AuxOf(data)) = Masked(key2, AuxOf(data2)) /\ pk = pk2 /\ msg = msg2
      BY <2>1, <2>2, <2>4, Cancel3 DEF OfLength
  <2>6. key = key2 /\ AuxOf(data) = AuxOf(data2)
      BY <2>1, <2>2, <2>5, MaskedCancel
  <2> QED BY <2>4, <2>5, <2>6 DEF key, pk, msg, algo, data, key2, pk2, msg2, algo2, data2
<1> SUFFICES ASSUME NEW c \in Bip340Calls
             PROVE  /\ c.view[1][1] = 2 /\ KindOf(c.hashed) = 2
                    /\ \A d \in Bip340Calls : d.hashed = c.hashed <=> d.view = c.view
    BY DEF Separate
<1>3. PICK a \in Strings32 \X Strings32 \X Messages \X {1, 12} \X Optional(Strings32) :
          c = Of(Bip340Nonce(a[1], a[2], a[3], a[4], a[5]), << << 2, a[4] >>, a[1], a[2], a[3], AuxOf(a[5]) >>)
    BY DEF Bip340Calls
<1>4. ASSUME NEW d \in Bip340Calls PROVE d.hashed = c.hashed <=> d.view = c.view
  <2>1. PICK b \in Strings32 \X Strings32 \X Messages \X {1, 12} \X Optional(Strings32) :
            d = Of(Bip340Nonce(b[1], b[2], b[3], b[4], b[5]), << << 2, b[4] >>, b[1], b[2], b[3], AuxOf(b[5]) >>)
      BY DEF Bip340Calls
  <2>2. Bip340Nonce(a[1], a[2], a[3], a[4], a[5]) = Bip340Nonce(b[1], b[2], b[3], b[4], b[5])
        => a[1] = b[1] /\ a[2] = b[2] /\ a[3] = b[3] /\ a[4] = b[4] /\ AuxOf(a[5]) = AuxOf(b[5])
      BY <1>2
  <2>3. a[1] = b[1] /\ a[2] = b[2] /\ a[3] = b[3] /\ a[4] = b[4] /\ AuxOf(a[5]) = AuxOf(b[5]) => Bip340Nonce(a[1], a[2], a[3], a[4], a[5]) = Bip340Nonce(b[1], b[2], b[3], b[4], b[5])
      BY <1>1
  <2> QED BY <1>3, <2>1, <2>2, <2>3 DEF Of
<1>5. KindOf(Bip340Nonce(a[1], a[2], a[3], a[4], a[5])) = 2
    BY <1>1
<1> QED BY <1>3, <1>4, <1>5 DEF Of

(* A reduced message is of two numbers.                                    *)
LEMMA ReducedWords == \A msg \in Words(2) : OfLength(Reduced(msg), 2) /\ Reduced(msg)[1] >= 0
<1> SUFFICES ASSUME NEW msg \in Words(2) PROVE OfLength(Reduced(msg), 2) /\ Reduced(msg)[1] >= 0
    OBVIOUS
<1>1. msg \in Words(2) /\ OfLength(msg, 2) /\ msg[1] \in Symbols /\ msg[2] \in Symbols
    BY WordFacts
<1> DEFINE m == Radix * msg[1] + msg[2]
           over == m - ScalarOrder
<1>2. m \in Int /\ over \in Int
    BY <1>1, InputsAssumption DEF Symbols
<1>3. Reduced(msg) = IF m >= ScalarOrder THEN << over \div Radix, over % Radix >> ELSE msg
    BY DEF Reduced
<1>4. m >= ScalarOrder <=> over >= 0
    BY <1>2, InputsAssumption
<1> HIDE DEF m, over
<1>5. over \div Radix \in Int /\ over % Radix \in Int /\ (over >= 0 => over \div Radix >= 0)
    BY <1>2, InputsAssumption
<1> QED BY <1>1, <1>3, <1>4, <1>5 DEF OfLength, Texts, Size, Symbols

LEMMA ReducedFacts == \A msg \in MessageHashes : OfLength(Reduced(msg), 2)
BY ReducedWords, InputsAssumption

LEMMA KeyDataSeparate == Separate(1, KeyDataCalls)
<1>1. ASSUME NEW key \in Strings32, NEW msg \in MessageHashes, NEW data \in Optional(Strings32), NEW algo \in Optional(Algos)
      PROVE  /\ OfLength(key, 2) /\ OfLength(Reduced(msg), 2) /\ data \in Texts /\ Size(data) \in {0, 2} /\ algo \in Texts /\ Size(algo) \in {0, 1}
             /\ Cat4(key, Reduced(msg), data, algo) \in Texts /\ KeyData(key, msg, data, algo) = Cat4(key, Reduced(msg), data, algo)
             /\ KindOf(KeyData(key, msg, data, algo)) = 1
  <2>1. OfLength(key, 2) /\ OfLength(Reduced(msg), 2) /\ key[1] \in Symbols
      BY Arguments, ReducedFacts, WordFacts
  <2>2. data \in Texts /\ Size(data) \in {0, 2}
      BY Arguments, OptionalFacts DEF OfLength
  <2>3. algo \in Texts /\ Size(algo) \in {0, 1}
      BY Arguments, OptionalFacts DEF OfLength, Optional
  <2>4. KeyData(key, msg, data, algo) = Cat4(key, Reduced(msg), data, algo)
      BY DEF KeyData, Cat4, Cat3, Cat
  <2>5. /\ Cat4(key, Reduced(msg), data, algo) \in Texts
        /\ Size(Cat4(key, Reduced(msg), data, algo)) \in 4 .. 7
        /\ Cat4(key, Reduced(msg), data, algo)[1] = key[1]
      BY <2>1, <2>2, <2>3, Length4 DEF OfLength
  <2> QED BY <2>1, <2>2, <2>3, <2>4, <2>5 DEF KindOf, Symbols
<1>2. ASSUME NEW a \in Strings32 \X MessageHashes \X Optional(Strings32) \X Optional(Algos),
             NEW b \in Strings32 \X MessageHashes \X Optional(Strings32) \X Optional(Algos),
             KeyData(a[1], a[2], a[3], a[4]) = KeyData(b[1], b[2], b[3], b[4])
      PROVE  a[1] = b[1] /\ Reduced(a[2]) = Reduced(b[2]) /\ a[3] = b[3] /\ a[4] = b[4]
  <2> DEFINE key == a[1]
             msg == a[2]
             data == a[3]
             algo == a[4]
             key2 == b[1]
             msg2 == b[2]
             data2 == b[3]
             algo2 == b[4]
  <2>0. /\ key \in Strings32 /\ msg \in MessageHashes /\ data \in Optional(Strings32) /\ algo \in Optional(Algos)
        /\ key2 \in Strings32 /\ msg2 \in MessageHashes /\ data2 \in Optional(Strings32) /\ algo2 \in Optional(Algos)
        /\ KeyData(key, msg, data, algo) = KeyData(key2, msg2, data2, algo2)
      BY <1>2
  <2> HIDE DEF key, msg, data, algo, key2, msg2, data2, algo2
  <2>1. /\ OfLength(key, 2) /\ OfLength(Reduced(msg), 2) /\ data \in Texts /\ Size(data) \in {0, 2}
        /\ algo \in Texts /\ Size(algo) \in {0, 1}
      BY <2>0, <1>1
  <2>2. /\ OfLength(key2, 2) /\ OfLength(Reduced(msg2), 2) /\ data2 \in Texts /\ Size(data2) \in {0, 2}
        /\ algo2 \in Texts /\ Size(algo2) \in {0, 1}
      BY <2>0, <1>1
  <2> DEFINE h == Cat4(key, Reduced(msg), data, algo)
             h2 == Cat4(key2, Reduced(msg2), data2, algo2)
  <2>3. h = h2
      BY <2>0, <1>1
  <2>4. Size(h) = 4 + Size(data) + Size(algo) /\ Size(h2) = 4 + Size(data2) + Size(algo2)
    <3>0. /\ key \in Texts /\ Reduced(msg) \in Texts /\ data \in Texts /\ algo \in Texts
          /\ key2 \in Texts /\ Reduced(msg2) \in Texts /\ data2 \in Texts /\ algo2 \in Texts
        BY <2>1, <2>2 DEF OfLength
    <3>1. Size(h) = Size(key) + Size(Reduced(msg)) + Size(data) + Size(algo)
        BY <3>0, Sum4
    <3>2. Size(h2) = Size(key2) + Size(Reduced(msg2)) + Size(data2) + Size(algo2)
        BY <3>0, Sum4
    <3> QED BY <3>1, <3>2, <2>1, <2>2, TextLength DEF OfLength
  <2>5. Size(data) = Size(data2)
      BY <2>1, <2>2, <2>3, <2>4
  <2>6. Alike(key, Reduced(msg), data, algo, key2, Reduced(msg2), data2, algo2)
      BY <2>1, <2>2, <2>5 DEF Alike, OfLength
  <2>7. key = key2 /\ Reduced(msg) = Reduced(msg2) /\ data = data2 /\ algo = algo2
      BY <2>3, <2>6, Cancel4
  <2> QED BY <2>7 DEF key, msg, data, algo, key2, msg2, data2, algo2
<1> SUFFICES ASSUME NEW c \in KeyDataCalls
             PROVE  /\ c.view[1][1] = 1 /\ KindOf(c.hashed) = 1
                    /\ \A d \in KeyDataCalls : d.hashed = c.hashed <=> d.view = c.view
    BY DEF Separate
<1>3. PICK a \in Strings32 \X MessageHashes \X Optional(Strings32) \X Optional(Algos) :
          c = Of(KeyData(a[1], a[2], a[3], a[4]), << << 1 >>, a[1], Reduced(a[2]), a[3], a[4] >>)
    BY DEF KeyDataCalls
<1>4. ASSUME NEW d \in KeyDataCalls PROVE d.hashed = c.hashed <=> d.view = c.view
  <2>1. PICK b \in Strings32 \X MessageHashes \X Optional(Strings32) \X Optional(Algos) :
            d = Of(KeyData(b[1], b[2], b[3], b[4]), << << 1 >>, b[1], Reduced(b[2]), b[3], b[4] >>)
      BY DEF KeyDataCalls
  <2>2. KeyData(a[1], a[2], a[3], a[4]) = KeyData(b[1], b[2], b[3], b[4])
        => a[1] = b[1] /\ Reduced(a[2]) = Reduced(b[2]) /\ a[3] = b[3] /\ a[4] = b[4]
      BY <1>2
  <2>3. a[1] = b[1] /\ Reduced(a[2]) = Reduced(b[2]) /\ a[3] = b[3] /\ a[4] = b[4] => KeyData(a[1], a[2], a[3], a[4]) = KeyData(b[1], b[2], b[3], b[4])
      BY <1>1
  <2> QED BY <1>3, <2>1, <2>2, <2>3 DEF Of
<1>5. KindOf(KeyData(a[1], a[2], a[3], a[4])) = 1
    BY <1>1
<1> QED BY <1>3, <1>4, <1>5 DEF Of

(* An input after its length is found again before whatever follows.       *)
LEMMA HelperFacts ==
    ASSUME NEW n \in Nat \ {0}, NEW x \in Texts
    PROVE  /\ Helper(n, x) = Cat3(Zeros(n - 1), << Size(x) >>, x) /\ Helper(n, x) \in Texts
           /\ Zeros(n - 1) \in Texts /\ << Size(x) >> \in Texts
           /\ Size(<< Size(x) >>) = 1 /\ << Size(x) >>[1] = Size(x)
<1>1. Helper(n, x) = Cat3(Zeros(n - 1), << Size(x) >>, x)
    BY DEF Helper, Cat3, Cat, Size
<1>2. Zeros(n - 1) \in Texts
    BY ZeroFacts DEF OfLength
<1>3. Size(x) \in Int
    BY TextLength
<1>4. << Size(x) >> \in Texts /\ Size(<< Size(x) >>) = 1 /\ << Size(x) >>[1] = Size(x)
    BY <1>3, Singles
<1> QED BY <1>1, <1>2, <1>4, Length4

LEMMA HelperCancel ==
    ASSUME NEW n \in Nat \ {0}, NEW x \in Texts, NEW y \in Texts, NEW t \in Texts, NEW u \in Texts,
           Cat(Helper(n, x), t) = Cat(Helper(n, y), u)
    PROVE  x = y /\ t = u
<1> DEFINE z == Zeros(n - 1)
           p == << Size(x) >>
           q == << Size(y) >>
<1>1. /\ z \in Texts /\ p \in Texts /\ q \in Texts /\ Size(p) = Size(q) /\ p[1] = Size(x) /\ q[1] = Size(y)
      /\ Helper(n, x) = Cat3(z, p, x) /\ Helper(n, y) = Cat3(z, q, y)
    BY HelperFacts
<1> HIDE DEF z, p, q
<1>2. /\ Cat(z, p) \in Texts /\ Cat(z, q) \in Texts /\ Size(Cat(z, p)) = Size(Cat(z, q))
      /\ Cat(x, t) \in Texts /\ Cat(y, u) \in Texts
    BY <1>1, Concat
<1>3. /\ Cat(Helper(n, x), t) = Cat(Cat(z, p), Cat(x, t))
      /\ Cat(Helper(n, y), u) = Cat(Cat(z, q), Cat(y, u))
    BY <1>1, <1>2, Associate DEF Cat3
<1>4. Cat(z, p) = Cat(z, q) /\ Cat(x, t) = Cat(y, u)
  <2>1. Cat(Cat(z, p), Cat(x, t)) = Cat(Cat(z, q), Cat(y, u))
      BY <1>3
  <2> DEFINE zp == Cat(z, p)
             zq == Cat(z, q)
             xt == Cat(x, t)
             yu == Cat(y, u)
  <2> HIDE DEF zp, zq, xt, yu
  <2> QED BY <1>2, <2>1, Cancel DEF zp, zq, xt, yu
<1>5. p = q
    BY <1>1, <1>4, Cancel
<1> QED BY <1>1, <1>4, <1>5, Cancel

LEMMA MessageFacts ==
    ASSUME NEW x \in Texts
    PROVE  /\ MessagePart(x) \in Texts /\ Helper(8, x) \in Texts
           /\ x = << >> => MessagePart(x) = << 0 >>
           /\ x # << >> => MessagePart(x) = Cat(<< 1 >>, Helper(8, x))
<1>0. 8 \in Nat \ {0}
    OBVIOUS
<1>1. Helper(8, x) \in Texts
    BY <1>0, HelperFacts
<1>3. << 0 >> \in Texts /\ << 1 >> \in Texts
    BY Singles
<1>2. MessagePart(x) = IF x = << >> THEN << 0 >> ELSE Cat(<< 1 >>, Helper(8, x))
    BY DEF MessagePart, Cat
<1> QED BY <1>1, <1>2, <1>3, Concat

LEMMA MessageCancel ==
    ASSUME NEW x \in Texts, NEW y \in Texts, NEW t \in Texts, NEW u \in Texts,
           Cat(MessagePart(x), t) = Cat(MessagePart(y), u)
    PROVE  x = y /\ t = u
<1> DEFINE zero == << 0 >>
           one == << 1 >>
<1>1. /\ zero \in Texts /\ one \in Texts /\ Size(zero) = 1 /\ Size(one) = 1
      /\ zero[1] = 0 /\ one[1] = 1
    BY Singles
<1>2. ASSUME NEW w \in Texts, NEW v \in Texts
      PROVE  /\ w = << >> => MessagePart(w) = zero /\ Cat(MessagePart(w), v)[1] = 0
             /\ w # << >> => /\ Cat(MessagePart(w), v) = Cat(one, Cat(Helper(8, w), v))
                             /\ Cat(Helper(8, w), v) \in Texts /\ Cat(MessagePart(w), v)[1] = 1
  <2>1. /\ Helper(8, w) \in Texts /\ (w = << >> => MessagePart(w) = zero)
        /\ (w # << >> => MessagePart(w) = Cat(one, Helper(8, w)))
      BY MessageFacts
  <2> HIDE DEF zero, one
  <2>2. Cat(Helper(8, w), v) \in Texts /\ Cat(Cat(one, Helper(8, w)), v) = Cat(one, Cat(Helper(8, w), v))
      BY <1>1, <2>1, Concat, Associate
  <2>3. Cat(zero, v)[1] = 0 /\ Cat(one, Cat(Helper(8, w), v))[1] = 1
      BY <1>1, <2>2, Concat
  <2> QED BY <2>1, <2>2, <2>3
<1> HIDE DEF zero, one
<1>3. x = << >> <=> y = << >>
    BY <1>2
<1>4. CASE x = << >>
  <2>1. y = << >> /\ Cat(zero, t) = Cat(zero, u)
      BY <1>2, <1>3, <1>4
  <2> QED BY <1>1, <1>4, <2>1, Cancel
<1>5. CASE x # << >>
  <2> DEFINE h == Cat(Helper(8, x), t)
             g == Cat(Helper(8, y), u)
  <2>1. h \in Texts /\ g \in Texts /\ Cat(one, h) = Cat(one, g)
      BY <1>2, <1>3, <1>5
  <2>2. h = g
      BY <1>1, <2>1, Cancel
  <2> QED BY <2>2, HelperCancel
<1> QED BY <1>4, <1>5

(* The random number of a nonce, masked with the key if there is one.      *)
RandomPart(secrand, seckey) == IF seckey = << >> THEN secrand ELSE Masked(seckey, secrand)

LEMMA RandomFacts ==
    ASSUME NEW secrand \in Strings32, NEW seckey \in Optional(Strings32)
    PROVE  /\ OfLength(RandomPart(secrand, seckey), 2)
           /\ seckey = << >> => RandomPart(secrand, seckey)[1] < Radix
           /\ seckey # << >> => RandomPart(secrand, seckey)[1] >= Radix
<1>1. secrand \in Words(2) /\ OfLength(secrand, 2) /\ secrand[1] \in Symbols
    BY Arguments, WordFacts
<1>2. seckey # << >> => OfLength(Masked(seckey, secrand), 2) /\ Masked(seckey, secrand)[1] >= Radix
    BY <1>1, Arguments, OptionalFacts, MaskedFacts
<1> QED BY <1>1, <1>2, InputsAssumption DEF RandomPart, Symbols

LEMMA RandomCancel ==
    ASSUME NEW secrand \in Strings32, NEW seckey \in Optional(Strings32),
           NEW secrand2 \in Strings32, NEW seckey2 \in Optional(Strings32),
           RandomPart(secrand, seckey) = RandomPart(secrand2, seckey2)
    PROVE  secrand = secrand2 /\ seckey = seckey2
<1> DEFINE r == RandomPart(secrand, seckey)
           r2 == RandomPart(secrand2, seckey2)
<1>1. r = r2 /\ r[1] \in Int
    BY RandomFacts, FirstSymbol DEF OfLength
<1>2. /\ (seckey = << >> => r[1] < Radix) /\ (seckey # << >> => r[1] >= Radix)
      /\ (seckey2 = << >> => r2[1] < Radix) /\ (seckey2 # << >> => r2[1] >= Radix)
    BY RandomFacts
<1>3. seckey = << >> <=> seckey2 = << >>
  <2> HIDE DEF r, r2
  <2> QED BY <1>1, <1>2, InputsAssumption
<1>4. CASE seckey = << >>
    BY <1>1, <1>3, <1>4 DEF RandomPart
<1>5. CASE seckey # << >>
  <2>1. /\ seckey \in Words(2) /\ seckey2 \in Words(2) /\ secrand \in Words(2) /\ secrand2 \in Words(2)
        /\ Masked(seckey, secrand) = Masked(seckey2, secrand2)
      BY <1>1, <1>3, <1>5, Arguments, OptionalFacts DEF RandomPart
  <2> QED BY <2>1, MaskedCancel
<1> QED BY <1>4, <1>5

(* Six parts, from the right.                                              *)
Chain(a, b, c, d, e, f) == Cat(a, Cat(b, Cat(c, Cat(d, Cat(e, f)))))

LEMMA ChainFacts ==
    ASSUME NEW a \in Texts, NEW b \in Texts, NEW c \in Texts, NEW d \in Texts, NEW e \in Texts, NEW f \in Texts
    PROVE  /\ Cat(e, f) \in Texts /\ Cat(d, Cat(e, f)) \in Texts /\ Cat(c, Cat(d, Cat(e, f))) \in Texts
           /\ Cat(b, Cat(c, Cat(d, Cat(e, f)))) \in Texts /\ Chain(a, b, c, d, e, f) \in Texts
           /\ Cat(Cat(Cat4(a, b, c, d), e), f) = Chain(a, b, c, d, e, f)
<1>1. Cat(e, f) \in Texts /\ Cat(d, Cat(e, f)) \in Texts /\ Cat(c, Cat(d, Cat(e, f))) \in Texts
    BY Concat
<1>2. Cat(b, Cat(c, Cat(d, Cat(e, f)))) \in Texts /\ Cat(a, Cat(b, Cat(c, Cat(d, Cat(e, f))))) \in Texts
    BY <1>1, Concat
<1>3. Cat(a, b) \in Texts /\ Cat3(a, b, c) \in Texts /\ Cat4(a, b, c, d) \in Texts
    BY Concat, Length4
<1>4. Cat(Cat(Cat4(a, b, c, d), e), f) = Cat(Cat4(a, b, c, d), Cat(e, f))
    BY <1>3, Associate
<1>5. Cat(Cat4(a, b, c, d), Cat(e, f)) = Cat(Cat3(a, b, c), Cat(d, Cat(e, f)))
    BY <1>1, <1>3, Associate DEF Cat4
<1>6. Cat(Cat3(a, b, c), Cat(d, Cat(e, f))) = Cat(Cat(a, b), Cat(c, Cat(d, Cat(e, f))))
    BY <1>1, <1>3, Associate DEF Cat3
<1>7. Cat(Cat(a, b), Cat(c, Cat(d, Cat(e, f)))) = Cat(a, Cat(b, Cat(c, Cat(d, Cat(e, f)))))
    BY <1>1, Associate
<1> QED BY <1>1, <1>2, <1>4, <1>5, <1>6, <1>7 DEF Chain

(* What the nonce function of MuSig hashes, by its parts.                  *)
MusigChain(r, pk, aggpk, msg, extra, i) ==
    Chain(r, Helper(1, pk), Helper(1, aggpk), MessagePart(msg), Helper(4, extra), i)
Matching(r, pk, aggpk, msg, extra, i, r2, pk2, aggpk2, msg2, extra2, i2) ==
    /\ r \in Texts /\ pk \in Texts /\ aggpk \in Texts /\ msg \in Texts /\ extra \in Texts /\ i \in Texts
    /\ r2 \in Texts /\ pk2 \in Texts /\ aggpk2 \in Texts /\ msg2 \in Texts /\ extra2 \in Texts /\ i2 \in Texts
    /\ Size(r) = Size(r2)
    /\ MusigChain(r, pk, aggpk, msg, extra, i) = MusigChain(r2, pk2, aggpk2, msg2, extra2, i2)

LEMMA MusigCancel ==
    \A r, pk, aggpk, msg, extra, i, r2, pk2, aggpk2, msg2, extra2, i2 :
        Matching(r, pk, aggpk, msg, extra, i, r2, pk2, aggpk2, msg2, extra2, i2)
        => r = r2 /\ pk = pk2 /\ aggpk = aggpk2 /\ msg = msg2 /\ extra = extra2 /\ i = i2
<1> SUFFICES ASSUME NEW r, NEW pk, NEW aggpk, NEW msg, NEW extra, NEW i,
                    NEW r2, NEW pk2, NEW aggpk2, NEW msg2, NEW extra2, NEW i2,
                    Matching(r, pk, aggpk, msg, extra, i, r2, pk2, aggpk2, msg2, extra2, i2)
             PROVE  r = r2 /\ pk = pk2 /\ aggpk = aggpk2 /\ msg = msg2 /\ extra = extra2 /\ i = i2
    OBVIOUS
<1> USE DEF Matching
<1> DEFINE e == Cat(Helper(4, extra), i)
           e2 == Cat(Helper(4, extra2), i2)
           d == Cat(MessagePart(msg), e)
           d2 == Cat(MessagePart(msg2), e2)
           c == Cat(Helper(1, aggpk), d)
           c2 == Cat(Helper(1, aggpk2), d2)
           b == Cat(Helper(1, pk), c)
           b2 == Cat(Helper(1, pk2), c2)
<1>0. 1 \in Nat \ {0} /\ 4 \in Nat \ {0}
    OBVIOUS
<1>1. /\ Helper(1, pk) \in Texts /\ Helper(1, aggpk) \in Texts /\ Helper(4, extra) \in Texts
      /\ Helper(1, pk2) \in Texts /\ Helper(1, aggpk2) \in Texts /\ Helper(4, extra2) \in Texts
    BY <1>0, HelperFacts
<1>2. MessagePart(msg) \in Texts /\ MessagePart(msg2) \in Texts
    BY MessageFacts
<1>3. e \in Texts /\ e2 \in Texts
    BY <1>1, Concat
<1>4. d \in Texts /\ d2 \in Texts
  <2> HIDE DEF e, e2
  <2> QED BY <1>2, <1>3, Concat
<1>5. c \in Texts /\ c2 \in Texts
  <2> HIDE DEF d, d2
  <2> QED BY <1>1, <1>4, Concat
<1>6. b \in Texts /\ b2 \in Texts
  <2> HIDE DEF c, c2
  <2> QED BY <1>1, <1>5, Concat
<1>7. Cat(r, b) = Cat(r2, b2)
    BY DEF MusigChain, Chain
<1>8. r = r2 /\ b = b2
  <2> HIDE DEF b, b2
  <2> QED BY <1>6, <1>7, Cancel
<1>9. pk = pk2 /\ c = c2
  <2>1. Cat(Helper(1, pk), c) = Cat(Helper(1, pk2), c2)
      BY <1>8
  <2> HIDE DEF c, c2
  <2> QED BY <1>0, <1>5, <2>1, HelperCancel
<1>10. aggpk = aggpk2 /\ d = d2
  <2>1. Cat(Helper(1, aggpk), d) = Cat(Helper(1, aggpk2), d2)
      BY <1>9
  <2> HIDE DEF d, d2
  <2> QED BY <1>0, <1>4, <2>1, HelperCancel
<1>11. msg = msg2 /\ e = e2
  <2>1. Cat(MessagePart(msg), e) = Cat(MessagePart(msg2), e2)
      BY <1>10
  <2> HIDE DEF e, e2
  <2> QED BY <1>3, <2>1, MessageCancel
<1>12. extra = extra2 /\ i = i2
    BY <1>0, <1>11, HelperCancel
<1> QED BY <1>8, <1>9, <1>10, <1>11, <1>12

(* The arguments of that function, and its parts.                          *)
MusigArguments(secrand, seckey, pk, aggpk, msg, extra, i) ==
    /\ secrand \in Strings32 /\ seckey \in Optional(Strings32) /\ pk \in Strings33
    /\ aggpk \in Optional(Strings32) /\ msg \in Optional(Strings32) /\ extra \in Optional(Strings32)
    /\ i \in {0, 1}

LEMMA MusigFacts ==
    \A secrand, seckey, pk, aggpk, msg, extra, i :
        MusigArguments(secrand, seckey, pk, aggpk, msg, extra, i)
        => /\ OfLength(RandomPart(secrand, seckey), 2) /\ pk \in Texts /\ aggpk \in Texts /\ msg \in Texts /\ extra \in Texts
           /\ Helper(1, pk) \in Texts /\ Helper(1, aggpk) \in Texts /\ MessagePart(msg) \in Texts
           /\ Helper(4, extra) \in Texts /\ << i >> \in Texts
           /\ MusigChain(RandomPart(secrand, seckey), pk, aggpk, msg, extra, << i >>) \in Texts
           /\ MusigNonce(secrand, seckey, pk, aggpk, msg, extra, i) = Tagged(5, MusigChain(RandomPart(secrand, seckey), pk, aggpk, msg, extra, << i >>))
           /\ KindOf(MusigNonce(secrand, seckey, pk, aggpk, msg, extra, i)) = 5
<1> SUFFICES ASSUME NEW secrand, NEW seckey, NEW pk, NEW aggpk, NEW msg, NEW extra, NEW i,
                    MusigArguments(secrand, seckey, pk, aggpk, msg, extra, i)
             PROVE  /\ OfLength(RandomPart(secrand, seckey), 2) /\ pk \in Texts /\ aggpk \in Texts /\ msg \in Texts /\ extra \in Texts
                    /\ Helper(1, pk) \in Texts /\ Helper(1, aggpk) \in Texts /\ MessagePart(msg) \in Texts
                    /\ Helper(4, extra) \in Texts /\ << i >> \in Texts
                    /\ MusigChain(RandomPart(secrand, seckey), pk, aggpk, msg, extra, << i >>) \in Texts
                    /\ MusigNonce(secrand, seckey, pk, aggpk, msg, extra, i) = Tagged(5, MusigChain(RandomPart(secrand, seckey), pk, aggpk, msg, extra, << i >>))
                    /\ KindOf(MusigNonce(secrand, seckey, pk, aggpk, msg, extra, i)) = 5
    OBVIOUS
<1>0. /\ secrand \in Strings32 /\ seckey \in Optional(Strings32) /\ pk \in Strings33
      /\ aggpk \in Optional(Strings32) /\ msg \in Optional(Strings32) /\ extra \in Optional(Strings32)
      /\ i \in {0, 1}
    BY DEF MusigArguments
<1>1. pk \in Texts /\ aggpk \in Texts /\ msg \in Texts /\ extra \in Texts
    BY <1>0, Arguments, OptionalFacts DEF OfLength
<1>2. /\ OfLength(RandomPart(secrand, seckey), 2) /\ Helper(1, pk) \in Texts /\ Helper(1, aggpk) \in Texts
      /\ MessagePart(msg) \in Texts /\ Helper(4, extra) \in Texts /\ << i >> \in Texts
  <2>1. OfLength(RandomPart(secrand, seckey), 2)
      BY <1>0, RandomFacts
  <2>2. Helper(1, pk) \in Texts /\ Helper(1, aggpk) \in Texts /\ Helper(4, extra) \in Texts
    <3>1. 1 \in Nat \ {0} /\ 4 \in Nat \ {0}
        OBVIOUS
    <3> QED BY <1>1, <3>1, HelperFacts
  <2>3. MessagePart(msg) \in Texts /\ << i >> \in Texts
      BY <1>0, <1>1, MessageFacts, Singles
  <2> QED BY <2>1, <2>2, <2>3
<1> DEFINE a == RandomPart(secrand, seckey)
           b == Helper(1, pk)
           c == Helper(1, aggpk)
           d == MessagePart(msg)
           e == Helper(4, extra)
           f == << i >>
<1>3. MusigNonce(secrand, seckey, pk, aggpk, msg, extra, i) = Tagged(5, Cat(Cat(Cat4(a, b, c, d), e), f))
    BY DEF MusigNonce, RandomPart, Cat4, Cat3, Cat
<1>4. a \in Texts /\ b \in Texts /\ c \in Texts /\ d \in Texts /\ e \in Texts /\ f \in Texts
    BY <1>2 DEF OfLength
<1>5. Chain(a, b, c, d, e, f) \in Texts /\ Cat(Cat(Cat4(a, b, c, d), e), f) = Chain(a, b, c, d, e, f)
  <2> HIDE DEF a, b, c, d, e, f
  <2> QED BY <1>4, ChainFacts
<1>6. KindOf(Tagged(5, Chain(a, b, c, d, e, f))) = 5
  <2> DEFINE g == Chain(a, b, c, d, e, f)
  <2> HIDE DEF g
  <2> QED BY <1>5, TagKind DEF g
<1> QED BY <1>1, <1>2, <1>3, <1>5, <1>6 DEF MusigChain

LEMMA MusigNonceSeparate == Separate(5, MusigNonceCalls)
<1>1. ASSUME NEW secrand \in Strings32, NEW seckey \in Optional(Strings32), NEW pk \in Strings33, NEW aggpk \in Optional(Strings32), NEW msg \in Optional(Strings32), NEW extra \in Optional(Strings32), NEW i \in {0, 1}
      PROVE  /\ OfLength(RandomPart(secrand, seckey), 2) /\ pk \in Texts /\ aggpk \in Texts /\ msg \in Texts /\ extra \in Texts
             /\ Helper(1, pk) \in Texts /\ Helper(1, aggpk) \in Texts /\ MessagePart(msg) \in Texts
             /\ Helper(4, extra) \in Texts /\ << i >> \in Texts
             /\ MusigChain(RandomPart(secrand, seckey), pk, aggpk, msg, extra, << i >>) \in Texts /\ MusigNonce(secrand, seckey, pk, aggpk, msg, extra, i) = Tagged(5, MusigChain(RandomPart(secrand, seckey), pk, aggpk, msg, extra, << i >>))
             /\ KindOf(MusigNonce(secrand, seckey, pk, aggpk, msg, extra, i)) = 5
  <2>1. MusigArguments(secrand, seckey, pk, aggpk, msg, extra, i)
      BY DEF MusigArguments
  <2> QED BY <2>1, MusigFacts
<1>2. ASSUME NEW a \in Strings32 \X Optional(Strings32) \X Strings33 \X Optional(Strings32)
          \X Optional(Strings32) \X Optional(Strings32) \X {0, 1},
             NEW b \in Strings32 \X Optional(Strings32) \X Strings33 \X Optional(Strings32)
          \X Optional(Strings32) \X Optional(Strings32) \X {0, 1},
             MusigNonce(a[1], a[2], a[3], a[4], a[5], a[6], a[7]) = MusigNonce(b[1], b[2], b[3], b[4], b[5], b[6], b[7])
      PROVE  a[1] = b[1] /\ a[2] = b[2] /\ a[3] = b[3] /\ a[4] = b[4] /\ a[5] = b[5] /\ a[6] = b[6] /\ a[7] = b[7]
  <2> DEFINE secrand == a[1]
             seckey == a[2]
             pk == a[3]
             aggpk == a[4]
             msg == a[5]
             extra == a[6]
             i == a[7]
             secrand2 == b[1]
             seckey2 == b[2]
             pk2 == b[3]
             aggpk2 == b[4]
             msg2 == b[5]
             extra2 == b[6]
             i2 == b[7]
  <2>0. /\ secrand \in Strings32 /\ seckey \in Optional(Strings32) /\ pk \in Strings33 /\ aggpk \in Optional(Strings32) /\ msg \in Optional(Strings32) /\ extra \in Optional(Strings32) /\ i \in {0, 1}
        /\ secrand2 \in Strings32 /\ seckey2 \in Optional(Strings32) /\ pk2 \in Strings33 /\ aggpk2 \in Optional(Strings32) /\ msg2 \in Optional(Strings32) /\ extra2 \in Optional(Strings32) /\ i2 \in {0, 1}
        /\ MusigNonce(secrand, seckey, pk, aggpk, msg, extra, i) = MusigNonce(secrand2, seckey2, pk2, aggpk2, msg2, extra2, i2)
      BY <1>2
  <2> HIDE DEF secrand, seckey, pk, aggpk, msg, extra, i, secrand2, seckey2, pk2, aggpk2, msg2, extra2, i2
  <2>1. /\ OfLength(RandomPart(secrand, seckey), 2) /\ pk \in Texts /\ aggpk \in Texts /\ msg \in Texts /\ extra \in Texts
        /\ Helper(1, pk) \in Texts /\ Helper(1, aggpk) \in Texts /\ MessagePart(msg) \in Texts
        /\ Helper(4, extra) \in Texts /\ << i >> \in Texts
      BY <2>0, MusigFacts DEF MusigArguments
  <2>2. /\ OfLength(RandomPart(secrand2, seckey2), 2) /\ pk2 \in Texts /\ aggpk2 \in Texts /\ msg2 \in Texts /\ extra2 \in Texts
        /\ Helper(1, pk2) \in Texts /\ Helper(1, aggpk2) \in Texts /\ MessagePart(msg2) \in Texts
        /\ Helper(4, extra2) \in Texts /\ << i2 >> \in Texts
      BY <2>0, MusigFacts DEF MusigArguments
  <2>3. MusigChain(RandomPart(secrand, seckey), pk, aggpk, msg, extra, << i >>)
        = MusigChain(RandomPart(secrand2, seckey2), pk2, aggpk2, msg2, extra2, << i2 >>)
    <3> DEFINE h == MusigChain(RandomPart(secrand, seckey), pk, aggpk, msg, extra, << i >>)
               h2 == MusigChain(RandomPart(secrand2, seckey2), pk2, aggpk2, msg2, extra2, << i2 >>)
    <3>1. h \in Texts /\ h2 \in Texts /\ Tagged(5, h) = Tagged(5, h2)
        BY <2>0, MusigFacts DEF MusigArguments
    <3>2. h = h2
      <4> HIDE DEF h, h2
      <4> QED BY <3>1, TagCancel
    <3> QED BY <3>2
  <2>4. /\ RandomPart(secrand, seckey) = RandomPart(secrand2, seckey2)
        /\ pk = pk2 /\ aggpk = aggpk2 /\ msg = msg2 /\ extra = extra2 /\ << i >> = << i2 >>
    <3> DEFINE r == RandomPart(secrand, seckey)
               r2 == RandomPart(secrand2, seckey2)
               f == << i >>
               f2 == << i2 >>
    <3>1. r \in Texts /\ r2 \in Texts /\ Size(r) = Size(r2)
        BY <2>1, <2>2 DEF OfLength
    <3>2. r = r2 /\ pk = pk2 /\ aggpk = aggpk2 /\ msg = msg2 /\ extra = extra2 /\ f = f2
      <4>1. MusigChain(r, pk, aggpk, msg, extra, f) = MusigChain(r2, pk2, aggpk2, msg2, extra2, f2)
          BY <2>3
      <4>2. f \in Texts /\ f2 \in Texts
          BY <2>1, <2>2
      <4> HIDE DEF r, r2, f, f2
      <4> QED BY <2>1, <2>2, <3>1, <4>1, <4>2, MusigCancel DEF Matching
    <3> QED BY <3>2
  <2>5. secrand = secrand2 /\ seckey = seckey2
      BY <2>0, <2>4, RandomCancel
  <2> QED BY <2>4, <2>5 DEF secrand, seckey, pk, aggpk, msg, extra, i, secrand2, seckey2, pk2, aggpk2, msg2, extra2, i2
<1> SUFFICES ASSUME NEW c \in MusigNonceCalls
             PROVE  /\ c.view[1][1] = 5 /\ KindOf(c.hashed) = 5
                    /\ \A d \in MusigNonceCalls : d.hashed = c.hashed <=> d.view = c.view
    BY DEF Separate
<1>3. PICK a \in Strings32 \X Optional(Strings32) \X Strings33 \X Optional(Strings32)
          \X Optional(Strings32) \X Optional(Strings32) \X {0, 1} :
          c = Of(MusigNonce(a[1], a[2], a[3], a[4], a[5], a[6], a[7]), << << 5, a[7] >>, a[1], a[2], a[3], a[4], a[5], a[6] >>)
    BY DEF MusigNonceCalls
<1>4. ASSUME NEW d \in MusigNonceCalls PROVE d.hashed = c.hashed <=> d.view = c.view
  <2>1. PICK b \in Strings32 \X Optional(Strings32) \X Strings33 \X Optional(Strings32)
          \X Optional(Strings32) \X Optional(Strings32) \X {0, 1} :
            d = Of(MusigNonce(b[1], b[2], b[3], b[4], b[5], b[6], b[7]), << << 5, b[7] >>, b[1], b[2], b[3], b[4], b[5], b[6] >>)
      BY DEF MusigNonceCalls
  <2>2. MusigNonce(a[1], a[2], a[3], a[4], a[5], a[6], a[7]) = MusigNonce(b[1], b[2], b[3], b[4], b[5], b[6], b[7])
        => a[1] = b[1] /\ a[2] = b[2] /\ a[3] = b[3] /\ a[4] = b[4] /\ a[5] = b[5] /\ a[6] = b[6] /\ a[7] = b[7]
      BY <1>2
  <2>3. a[1] = b[1] /\ a[2] = b[2] /\ a[3] = b[3] /\ a[4] = b[4] /\ a[5] = b[5] /\ a[6] = b[6] /\ a[7] = b[7] => MusigNonce(a[1], a[2], a[3], a[4], a[5], a[6], a[7]) = MusigNonce(b[1], b[2], b[3], b[4], b[5], b[6], b[7])
      BY <1>1
  <2> QED BY <1>3, <2>1, <2>2, <2>3 DEF Of
<1>5. KindOf(MusigNonce(a[1], a[2], a[3], a[4], a[5], a[6], a[7])) = 5
    BY <1>1
<1> QED BY <1>3, <1>4, <1>5 DEF Of

(* Induction up to a bound.                                                *)
LEMMA UpTo ==
    ASSUME NEW n \in Nat, NEW T, 0 \in T, \A i \in 1 .. n : i - 1 \in T => i \in T
    PROVE  \A i \in 0 .. n : i \in T
<1> DEFINE Bad == {i \in 0 .. n : i \notin T}
           Less == {p \in Nat \X Nat : p[1] < p[2]}
<1> SUFFICES ASSUME Bad # {} PROVE FALSE
    OBVIOUS
<1>1. IsWellFoundedOn(Less, Nat)
    BY NatLessThanWellFounded DEF OpToRel
<1>2. \A x, y \in Bad : y < x => << y, x >> \in Less
    OBVIOUS
<1>3. Bad \in SUBSET Nat
    OBVIOUS
<1> HIDE DEF Less, Bad
<1>4. PICK x \in Bad : \A y \in Bad : ~ (<< y, x >> \in Less)
    BY <1>1, <1>3, WFMin
<1> USE DEF Bad
<1>5. x \in 1 .. n /\ x - 1 \notin T
    BY <1>4
<1>6. x - 1 \in Bad /\ x - 1 < x
    BY <1>5
<1> HIDE DEF Bad
<1> QED BY <1>2, <1>4, <1>6

(* A list of keys, and the strings of its first keys.                      *)
KeyList(pks, n) == /\ n \in Nat /\ Len(pks) = n /\ pks \in [1 .. n -> Strings33]
                   /\ \A i \in 1 .. n : OfLength(pks[i], 3)
Flat(g, pks, n) == g = [i \in 1 .. n |-> IF i = 1 THEN pks[i] ELSE Cat(g[i - 1], pks[i])]

LEMMA KeyLists == \A pks \in SeqOf(Strings33, MaxPublicKeys) : \E n \in Nat : KeyList(pks, n)
<1> SUFFICES ASSUME NEW pks \in SeqOf(Strings33, MaxPublicKeys) PROVE \E n \in Nat : KeyList(pks, n)
    OBVIOUS
<1>1. PICK n \in 0 .. MaxPublicKeys : pks \in [1 .. n -> Strings33]
    BY DEF SeqOf
<1>2. n \in Nat /\ Len(pks) = n
    BY <1>1, InputsAssumption
<1> QED BY <1>1, <1>2, Arguments DEF KeyList

LEMMA FlatExists == ASSUME NEW pks, NEW n \in Nat PROVE \E g : Flat(g, pks, n)
<1> DEFINE T == {m \in 0 .. n : \E g : Flat(g, pks, m)}
<1>1. 0 \in T
  <2>1. Flat(<< >>, pks, 0)
      BY DEF Flat
  <2> QED BY <2>1
<1>2. ASSUME NEW m \in 1 .. n, m - 1 \in T PROVE m \in T
  <2>1. PICK g : Flat(g, pks, m - 1)
      BY <1>2
  <2> DEFINE h == [i \in 1 .. m |-> IF i = m THEN IF m = 1 THEN pks[m] ELSE Cat(g[m - 1], pks[m]) ELSE g[i]]
  <2>2. \A i \in 1 .. m - 1 : h[i] = g[i] /\ g[i] = IF i = 1 THEN pks[i] ELSE Cat(g[i - 1], pks[i])
      BY <2>1 DEF Flat
  <2>3. \A i \in 1 .. m : h[i] = IF i = 1 THEN pks[i] ELSE Cat(h[i - 1], pks[i])
    <3> SUFFICES ASSUME NEW i \in 1 .. m PROVE h[i] = IF i = 1 THEN pks[i] ELSE Cat(h[i - 1], pks[i])
        OBVIOUS
    <3>1. CASE i = m
      <4>1. h[m] = IF m = 1 THEN pks[m] ELSE Cat(g[m - 1], pks[m])
          OBVIOUS
      <4>2. m # 1 => m - 1 \in 1 .. m - 1
          OBVIOUS
      <4> HIDE DEF h
      <4> QED BY <2>2, <3>1, <4>1, <4>2
    <3>2. CASE i # m
      <4>1. i \in 1 .. m - 1 /\ (i # 1 => i - 1 \in 1 .. m - 1)
          BY <3>2
      <4> HIDE DEF h
      <4> QED BY <2>2, <4>1
    <3> QED BY <3>1, <3>2
  <2>4. h = [i \in 1 .. m |-> h[i]]
      OBVIOUS
  <2> HIDE DEF h
  <2>5. Flat(h, pks, m)
      BY <2>3, <2>4 DEF Flat
  <2> QED BY <2>5
<1> HIDE DEF T
<1>3. n \in T
    BY <1>1, <1>2, UpTo
<1> QED BY <1>3 DEF T

LEMMA FlatFacts ==
    ASSUME NEW pks, NEW n, KeyList(pks, n), NEW g, Flat(g, pks, n)
    PROVE  \A i \in 1 .. n : OfLength(g[i], 3 * i)
<1>1. n \in Nat /\ \A i \in 1 .. n : OfLength(pks[i], 3)
    BY DEF KeyList
<1>2. \A i \in 1 .. n : g[i] = IF i = 1 THEN pks[i] ELSE Cat(g[i - 1], pks[i])
    BY DEF Flat
<1> DEFINE T == {m \in 0 .. n : m = 0 \/ OfLength(g[m], 3 * m)}
<1>3. 0 \in T
    BY <1>1
<1>4. ASSUME NEW m \in 1 .. n, m - 1 \in T PROVE m \in T
  <2>1. CASE m = 1
      BY <1>1, <1>2, <2>1
  <2>2. CASE m # 1
    <3>1. g[m - 1] \in Texts /\ Size(g[m - 1]) = 3 * (m - 1) /\ pks[m] \in Texts /\ Size(pks[m]) = 3
        BY <1>1, <1>4, <2>2 DEF OfLength
    <3>2. g[m] = Cat(g[m - 1], pks[m])
        BY <1>2, <2>2
    <3>3. g[m] \in Texts /\ Size(g[m]) = 3 * (m - 1) + 3
        BY <3>1, <3>2, Concat
    <3> QED BY <3>3 DEF OfLength
  <2> QED BY <2>1, <2>2
<1> HIDE DEF T
<1>5. \A i \in 0 .. n : i \in T
    BY <1>1, <1>3, <1>4, UpTo
<1> QED BY <1>1, <1>5 DEF T

(* What is flattened is the last string.                                   *)
LEMMA Flattened ==
    ASSUME NEW pks, NEW n, KeyList(pks, n)
    PROVE  IF n = 0 THEN FlattenSeq(pks) = pks ELSE \E g : Flat(g, pks, n) /\ FlattenSeq(pks) = g[n]
<1>1. n \in Nat /\ Len(pks) = n
    BY DEF KeyList
<1>2. CASE n = 0
    BY <1>1, <1>2 DEF FlattenSeq
<1>3. CASE n # 0
  <2> DEFINE g == CHOOSE f : f = [i \in 1 .. n |-> IF i = 1 THEN pks[i] ELSE f[i - 1] \o pks[i]]
  <2>1. FlattenSeq(pks) = g[n]
      BY <1>1, <1>3 DEF FlattenSeq
  <2>2. PICK f : Flat(f, pks, n)
      BY <1>1, FlatExists, SMTT(20)
  <2>3. Flat(g, pks, n)
      BY <2>2 DEF Flat, Cat
  <2> HIDE DEF g
  <2> QED BY <1>3, <2>1, <2>3
<1> QED BY <1>2, <1>3

LEMMA FlattenFacts ==
    ASSUME NEW pks, NEW n, KeyList(pks, n)
    PROVE  OfLength(FlattenSeq(pks), 3 * n)
<1>1. n \in Nat /\ Len(pks) = n /\ pks \in [1 .. n -> Strings33]
    BY DEF KeyList
<1>2. CASE n = 0
  <2>1. FlattenSeq(pks) = pks
      BY <1>2, Flattened
  <2>2. pks \in Texts /\ Size(pks) = 0
      BY <1>1, <1>2 DEF Texts, Size
  <2> QED BY <1>2, <2>1, <2>2 DEF OfLength
<1>3. CASE n # 0
  <2>1. PICK g : Flat(g, pks, n) /\ FlattenSeq(pks) = g[n]
      BY <1>3, Flattened
  <2>2. n \in 1 .. n
      BY <1>1, <1>3
  <2> QED BY <2>1, <2>2, FlatFacts
<1> QED BY <1>2, <1>3

LEMMA FlattenCancel ==
    ASSUME NEW pks, NEW n, KeyList(pks, n), NEW qks, NEW m, KeyList(qks, m),
           FlattenSeq(pks) = FlattenSeq(qks)
    PROVE  pks = qks
<1>1. n \in Nat /\ m \in Nat /\ 3 * n = 3 * m
    BY FlattenFacts DEF KeyList, OfLength
<1>2. n = m
    BY <1>1
<1>3. CASE n = 0
    BY <1>2, <1>3, Flattened
<1>4. CASE n # 0
  <2>1. PICK g : Flat(g, pks, n) /\ FlattenSeq(pks) = g[n]
      BY <1>4, Flattened
  <2>2. PICK h : Flat(h, qks, n) /\ FlattenSeq(qks) = h[n]
      BY <1>2, <1>4, Flattened
  <2>3. \A i \in 1 .. n : OfLength(g[i], 3 * i) /\ OfLength(h[i], 3 * i)
      BY <1>2, <2>1, <2>2, FlatFacts
  <2>4. \A i \in 1 .. n : OfLength(pks[i], 3) /\ OfLength(qks[i], 3)
      BY <1>2 DEF KeyList
  <2>5. /\ \A i \in 1 .. n : g[i] = IF i = 1 THEN pks[i] ELSE Cat(g[i - 1], pks[i])
        /\ \A i \in 1 .. n : h[i] = IF i = 1 THEN qks[i] ELSE Cat(h[i - 1], qks[i])
      BY <2>1, <2>2 DEF Flat
  <2>6. ASSUME NEW i \in 2 .. n, g[i] = h[i] PROVE g[i - 1] = h[i - 1] /\ pks[i] = qks[i]
    <3>1. i \in 1 .. n /\ i - 1 \in 1 .. n /\ i # 1
        BY <1>1
    <3> DEFINE a == g[i - 1]
               b == h[i - 1]
    <3>2. /\ a \in Texts /\ b \in Texts /\ Size(a) = Size(b) /\ pks[i] \in Texts /\ qks[i] \in Texts
          /\ Cat(a, pks[i]) = Cat(b, qks[i])
        BY <2>3, <2>4, <2>5, <2>6, <3>1 DEF OfLength
    <3> HIDE DEF a, b
    <3>3. a = b /\ pks[i] = qks[i]
        BY <3>2, Cancel
    <3> QED BY <3>3 DEF a, b
  <2> DEFINE T == {k \in 0 .. n - 1 : g[n - k] = h[n - k]}
  <2>7. 0 \in T
    <3>1. g[n] = h[n]
        BY <2>1, <2>2
    <3>2. n - 0 = n /\ 0 \in 0 .. n - 1
        BY <1>1, <1>4
    <3> QED BY <3>1, <3>2
  <2>8. ASSUME NEW k \in 1 .. n - 1, k - 1 \in T PROVE k \in T
    <3>1. n - (k - 1) \in 2 .. n /\ n - (k - 1) - 1 = n - k /\ g[n - (k - 1)] = h[n - (k - 1)]
        BY <1>1, <2>8
    <3> QED BY <2>6, <3>1
  <2>9. \A k \in 0 .. n - 1 : k \in T
    <3> HIDE DEF T
    <3> QED BY <1>1, <1>4, <2>7, <2>8, UpTo
  <2>10. ASSUME NEW i \in 1 .. n PROVE pks[i] = qks[i]
    <3>1. g[i] = h[i]
      <4>1. n - i \in 0 .. n - 1 /\ n - (n - i) = i
          BY <1>1
      <4> QED BY <2>9, <4>1
    <3> QED BY <1>1, <2>5, <2>6, <3>1
  <2> QED BY <1>2, <2>10 DEF KeyList
<1> QED BY <1>3, <1>4

LEMMA PksHashSeparate == Separate(7, PksHashCalls)
<1>1. ASSUME NEW pks \in SeqOf(Strings33, MaxPublicKeys)
      PROVE  FlattenSeq(pks) \in Texts /\ KindOf(PksHash(pks)) = 7
  <2>1. FlattenSeq(pks) \in Texts
      BY KeyLists, FlattenFacts DEF OfLength
  <2> QED BY <2>1, TagKind DEF PksHash
<1>2. ASSUME NEW pks \in SeqOf(Strings33, MaxPublicKeys), NEW qks \in SeqOf(Strings33, MaxPublicKeys),
             PksHash(pks) = PksHash(qks)
      PROVE  pks = qks
  <2>1. FlattenSeq(pks) = FlattenSeq(qks)
      BY <1>1, <1>2, TagCancel DEF PksHash
  <2> QED BY <2>1, KeyLists, FlattenCancel
<1> SUFFICES ASSUME NEW c \in PksHashCalls
             PROVE  /\ c.view[1][1] = 7 /\ KindOf(c.hashed) = 7
                    /\ \A d \in PksHashCalls : d.hashed = c.hashed <=> d.view = c.view
    BY DEF Separate
<1>3. PICK pks \in SeqOf(Strings33, MaxPublicKeys) : c = Of(PksHash(pks), << << 7 >>, pks >>)
    BY DEF PksHashCalls
<1>4. ASSUME NEW d \in PksHashCalls PROVE d.hashed = c.hashed <=> d.view = c.view
  <2>1. PICK qks \in SeqOf(Strings33, MaxPublicKeys) : d = Of(PksHash(qks), << << 7 >>, qks >>)
      BY DEF PksHashCalls
  <2> QED BY <1>2, <1>3, <2>1 DEF Of
<1> QED BY <1>1, <1>3, <1>4 DEF Of

----------------------------------------------------------------------------
(* Calls of different functions differ in the kind, which both the string  *)
(* and the arguments determine.                                            *)
FunctionOf(c) == c.view[1][1]
Distinct == KeyDataCalls \cup Bip340Calls \cup ChallengeCalls \cup MusigNonceCalls \cup NonceHashCalls
            \cup PksHashCalls \cup KeyAggCoefCalls \cup EncodeCalls \cup CreateCalls \cup Bip324Calls
            \cup EcdhCalls \cup PrefixCalls

LEMMA Kinds ==
    /\ \A c \in Distinct : KindOf(c.hashed) = FunctionOf(c)
    /\ \A c \in Distinct : FunctionOf(c) = 1 => c \in KeyDataCalls
    /\ \A c \in Distinct : FunctionOf(c) = 2 => c \in Bip340Calls
    /\ \A c \in Distinct : FunctionOf(c) = 3 => c \in ChallengeCalls
    /\ \A c \in Distinct : FunctionOf(c) = 5 => c \in MusigNonceCalls
    /\ \A c \in Distinct : FunctionOf(c) = 6 => c \in NonceHashCalls
    /\ \A c \in Distinct : FunctionOf(c) = 7 => c \in PksHashCalls
    /\ \A c \in Distinct : FunctionOf(c) = 8 => c \in KeyAggCoefCalls
    /\ \A c \in Distinct : FunctionOf(c) = 9 => c \in EncodeCalls
    /\ \A c \in Distinct : FunctionOf(c) = 10 => c \in CreateCalls
    /\ \A c \in Distinct : FunctionOf(c) = 11 => c \in Bip324Calls
    /\ \A c \in Distinct : FunctionOf(c) = 12 => c \in EcdhCalls
    /\ \A c \in Distinct : FunctionOf(c) = 13 => c \in PrefixCalls
    /\ \A c \in Distinct : FunctionOf(c) # 14
<1>1. /\ \A c \in KeyDataCalls : KindOf(c.hashed) = 1 /\ FunctionOf(c) = 1
      /\ \A c \in Bip340Calls : KindOf(c.hashed) = 2 /\ FunctionOf(c) = 2
      /\ \A c \in ChallengeCalls : KindOf(c.hashed) = 3 /\ FunctionOf(c) = 3
      /\ \A c \in MusigNonceCalls : KindOf(c.hashed) = 5 /\ FunctionOf(c) = 5
      /\ \A c \in NonceHashCalls : KindOf(c.hashed) = 6 /\ FunctionOf(c) = 6
      /\ \A c \in PksHashCalls : KindOf(c.hashed) = 7 /\ FunctionOf(c) = 7
      /\ \A c \in KeyAggCoefCalls : KindOf(c.hashed) = 8 /\ FunctionOf(c) = 8
      /\ \A c \in EncodeCalls : KindOf(c.hashed) = 9 /\ FunctionOf(c) = 9
      /\ \A c \in CreateCalls : KindOf(c.hashed) = 10 /\ FunctionOf(c) = 10
      /\ \A c \in Bip324Calls : KindOf(c.hashed) = 11 /\ FunctionOf(c) = 11
      /\ \A c \in EcdhCalls : KindOf(c.hashed) = 12 /\ FunctionOf(c) = 12
      /\ \A c \in PrefixCalls : KindOf(c.hashed) = 13 /\ FunctionOf(c) = 13
    BY KeyDataSeparate, Bip340Separate, ChallengesSeparate, MusigNonceSeparate, NonceHashSeparate, PksHashSeparate,
       KeyAggCoefSeparate, EncodeSeparate, CreateSeparate, Bip324Separate, EcdhSeparate, PrefixSeparate DEF Separate, FunctionOf
<1> QED BY <1>1 DEF Distinct

LEMMA DistinctSeparate ==
    ASSUME NEW c \in Distinct, NEW d \in Distinct
    PROVE  d.hashed = c.hashed <=> d.view = c.view
<1> SUFFICES ASSUME FunctionOf(c) = FunctionOf(d)
             PROVE  d.hashed = c.hashed <=> d.view = c.view
  <2>1. /\ d.hashed = c.hashed => KindOf(d.hashed) = KindOf(c.hashed)
        /\ d.view = c.view => FunctionOf(d) = FunctionOf(c)
      BY DEF FunctionOf
  <2> QED BY <2>1, Kinds
<1>1. CASE c \in KeyDataCalls
  <2>1. d \in KeyDataCalls
      BY <1>1, KeyDataSeparate, Kinds DEF Separate, FunctionOf
  <2> QED BY <1>1, <2>1, KeyDataSeparate DEF Separate
<1>2. CASE c \in Bip340Calls
  <2>1. d \in Bip340Calls
      BY <1>2, Bip340Separate, Kinds DEF Separate
  <2> QED BY <1>2, <2>1, Bip340Separate DEF Separate
<1>3. CASE c \in ChallengeCalls
  <2>1. d \in ChallengeCalls
      BY <1>3, ChallengesSeparate, Kinds DEF Separate
  <2> QED BY <1>3, <2>1, ChallengesSeparate DEF Separate
<1>4. CASE c \in MusigNonceCalls
  <2>1. d \in MusigNonceCalls
      BY <1>4, MusigNonceSeparate, Kinds DEF Separate
  <2> QED BY <1>4, <2>1, MusigNonceSeparate DEF Separate
<1>5. CASE c \in NonceHashCalls
  <2>1. d \in NonceHashCalls
      BY <1>5, NonceHashSeparate, Kinds DEF Separate
  <2> QED BY <1>5, <2>1, NonceHashSeparate DEF Separate
<1>6. CASE c \in PksHashCalls
  <2>1. d \in PksHashCalls
      BY <1>6, PksHashSeparate, Kinds DEF Separate
  <2> QED BY <1>6, <2>1, PksHashSeparate DEF Separate
<1>7. CASE c \in KeyAggCoefCalls
  <2>1. d \in KeyAggCoefCalls
      BY <1>7, KeyAggCoefSeparate, Kinds DEF Separate
  <2> QED BY <1>7, <2>1, KeyAggCoefSeparate DEF Separate
<1>8. CASE c \in EncodeCalls
  <2>1. d \in EncodeCalls
      BY <1>8, EncodeSeparate, Kinds DEF Separate
  <2> QED BY <1>8, <2>1, EncodeSeparate DEF Separate
<1>9. CASE c \in CreateCalls
  <2>1. d \in CreateCalls
      BY <1>9, CreateSeparate, Kinds DEF Separate
  <2> QED BY <1>9, <2>1, CreateSeparate DEF Separate
<1>10. CASE c \in Bip324Calls
  <2>1. d \in Bip324Calls
      BY <1>10, Bip324Separate, Kinds DEF Separate
  <2> QED BY <1>10, <2>1, Bip324Separate DEF Separate
<1>11. CASE c \in EcdhCalls
  <2>1. d \in EcdhCalls
      BY <1>11, EcdhSeparate, Kinds DEF Separate
  <2> QED BY <1>11, <2>1, EcdhSeparate DEF Separate
<1>12. CASE c \in PrefixCalls
  <2>1. d \in PrefixCalls
      BY <1>12, PrefixSeparate, Kinds DEF Separate
  <2> QED BY <1>12, <2>1, PrefixSeparate DEF Separate
<1> QED BY <1>1, <1>2, <1>3, <1>4, <1>5, <1>6, <1>7, <1>8, <1>9, <1>10, <1>11, <1>12 DEF Distinct

(* Blinding is the exception: its string is that of a nonce function with  *)
(* neither data nor algorithm.                                             *)
LEMMA NothingAfter ==
    ASSUME NEW a \in Texts, NEW b \in Texts
    PROVE  Cat4(a, b, << >>, << >>) = Cat(a, b) /\ << >> \in Texts /\ Size(<< >>) = 0
<1>1. \A x \in Texts : x \o << >> = x
    BY DEF Texts
<1>2. Cat(a, b) \in Texts
    BY Concat
<1>3. Cat(Cat(a, b), << >>) = Cat(a, b)
    BY <1>1, <1>2 DEF Cat
<1>4. << >> \in Texts /\ Size(<< >>) = 0
    BY DEF Texts, Size
<1> QED BY <1>3, <1>4 DEF Cat4, Cat3

LEMMA BlindFacts ==
    ASSUME NEW c \in BlindCalls
    PROVE  LET offset == c.view[2]
               seed == c.view[3]
           IN  /\ c.view = << << 14 >>, offset, seed >> /\ c.hashed = Cat(offset, seed)
               /\ OfLength(offset, 2) /\ OfLength(seed, 2)
               /\ Size(c.hashed) = 4 /\ c.hashed \in Texts /\ FunctionOf(c) = 14
<1>1. PICK a \in { Reduced(s) : s \in Strings32 } \X Strings32 :
          c = Of(BlindData(a[1], a[2]), << << 14 >>, a[1], a[2] >>)
    BY DEF BlindCalls
<1>2. OfLength(a[1], 2) /\ OfLength(a[2], 2)
  <2>1. \A s \in Strings32 : s \in Words(2)
      BY Arguments
  <2> QED BY <1>1, <2>1, ReducedWords, Arguments
<1>3. c.view = << << 14 >>, a[1], a[2] >> /\ c.hashed = Cat(a[1], a[2])
    BY <1>1 DEF Of, BlindData, Cat
<1>4. Size(Cat(a[1], a[2])) = 4 /\ Cat(a[1], a[2]) \in Texts
    BY <1>2, Concat DEF OfLength
<1> QED BY <1>2, <1>3, <1>4 DEF FunctionOf

LEMMA BlindingsSeparate ==
    ASSUME NEW c \in BlindCalls, NEW d \in BlindCalls
    PROVE  d.hashed = c.hashed <=> d.view = c.view
<1>1. d.hashed = c.hashed => d.view[2] = c.view[2] /\ d.view[3] = c.view[3]
    BY BlindFacts, Cancel DEF OfLength
<1> QED BY <1>1, BlindFacts

(* A string of four without a tag is of a nonce or of a blinding.          *)
LEMMA BlindKind == \A c \in BlindCalls : KindOf(c.hashed) = 1
<1> SUFFICES ASSUME NEW c \in BlindCalls PROVE KindOf(c.hashed) = 1
    OBVIOUS
<1>1. PICK a \in { Reduced(s) : s \in Strings32 } \X Strings32 :
          c = Of(BlindData(a[1], a[2]), << << 14 >>, a[1], a[2] >>)
    BY DEF BlindCalls
<1>2. OfLength(a[1], 2) /\ OfLength(a[2], 2) /\ a[1][1] >= 0
  <2>1. \A s \in Strings32 : s \in Words(2)
      BY Arguments
  <2> QED BY <1>1, <2>1, ReducedWords, Arguments
<1>3. c.hashed = Cat(a[1], a[2])
    BY <1>1 DEF Of, BlindData, Cat
<1>4. Size(c.hashed) = 4 /\ c.hashed[1] = a[1][1]
    BY <1>2, <1>3, Concat DEF OfLength
<1> QED BY <1>2, <1>4 DEF KindOf

LEMMA BlindAsNonce ==
    ASSUME NEW c \in BlindCalls, NEW d \in Distinct
    PROVE  d.hashed = c.hashed <=> Emulates(c, d)
<1> DEFINE offset == c.view[2]
           seed == c.view[3]
<1>1. /\ c.view[1] = << 14 >> /\ c.hashed = Cat(offset, seed) /\ Size(c.hashed) = 4
      /\ OfLength(offset, 2) /\ OfLength(seed, 2)
    BY BlindFacts
<1> HIDE DEF offset, seed
<1>2. Emulates(c, d) <=> d.view = << << 1 >>, offset, seed, << >>, << >> >>
    BY <1>1 DEF Emulates, offset, seed
<1>3. CASE FunctionOf(d) # 1
  <2>1. KindOf(d.hashed) # 1
      BY <1>3, Kinds
  <2>2. d.hashed # c.hashed
      BY <2>1, BlindKind
  <2>3. ~ Emulates(c, d)
      BY <1>2, <1>3 DEF FunctionOf
  <2> QED BY <2>2, <2>3
<1>4. CASE FunctionOf(d) = 1
  <2>1. d \in KeyDataCalls
      BY <1>4, Kinds
  <2>2. PICK b \in Strings32 \X MessageHashes \X Optional(Strings32) \X Optional(Algos) :
            d = Of(KeyData(b[1], b[2], b[3], b[4]), << << 1 >>, b[1], Reduced(b[2]), b[3], b[4] >>)
      BY <2>1 DEF KeyDataCalls
  <2> DEFINE key == b[1]
             msg == Reduced(b[2])
             data == b[3]
             algo == b[4]
  <2>3. /\ OfLength(key, 2) /\ OfLength(msg, 2) /\ data \in Texts /\ algo \in Texts
    <3>1. b[1] \in Strings32 /\ b[2] \in MessageHashes /\ b[3] \in Optional(Strings32) /\ b[4] \in Optional(Algos)
        OBVIOUS
    <3> QED BY <3>1, Arguments, ReducedFacts, OptionalFacts
  <2>4. d.hashed = Cat4(key, msg, data, algo) /\ d.view = << << 1 >>, key, msg, data, algo >>
      BY <2>2 DEF Of, KeyData, Cat4, Cat3, Cat
  <2> HIDE DEF key, msg, data, algo
  <2>5. ASSUME d.hashed = c.hashed
        PROVE  key = offset /\ msg = seed /\ data = << >> /\ algo = << >>
    <3>1. Size(d.hashed) = 2 + 2 + Size(data) + Size(algo)
        BY <2>3, <2>4, Sum4 DEF OfLength
    <3>2. Size(data) = 0 /\ Size(algo) = 0
        BY <1>1, <2>3, <2>5, <3>1, TextLength
    <3>3. data = << >> /\ algo = << >>
        BY <2>3, <3>2 DEF Size, Texts
    <3>4. Cat(key, msg) = Cat(offset, seed)
        BY <1>1, <2>3, <2>4, <2>5, <3>3, NothingAfter DEF OfLength
    <3> QED BY <1>1, <2>3, <3>3, <3>4, Cancel DEF OfLength
  <2>6. ASSUME d.view = << << 1 >>, offset, seed, << >>, << >> >>
        PROVE  d.hashed = c.hashed
    <3>1. key = offset /\ msg = seed /\ data = << >> /\ algo = << >>
        BY <2>4, <2>6
    <3> QED BY <1>1, <2>4, <3>1, NothingAfter DEF OfLength
  <2>7. key = offset /\ msg = seed /\ data = << >> /\ algo = << >>
            => d.view = << << 1 >>, offset, seed, << >>, << >> >>
      BY <2>4
  <2> QED BY <1>2, <2>5, <2>6, <2>7
<1> QED BY <1>3, <1>4

LEMMA CallsSeparate ==
    ASSUME NEW c \in Calls, NEW d \in Calls
    PROVE  d.hashed = c.hashed <=> d.view = c.view \/ Emulates(c, d) \/ Emulates(d, c)
<1>1. c \in Distinct \cup BlindCalls /\ d \in Distinct \cup BlindCalls
    BY DEF Calls, Distinct
<1>2. \A e \in Distinct : FunctionOf(e) # 14
    BY Kinds
<1>3. \A e \in Distinct : \A f : ~ Emulates(e, f)
    BY <1>2 DEF Emulates, FunctionOf
<1>4. \A e \in BlindCalls : FunctionOf(e) = 14
    BY BlindFacts
<1>5. CASE c \in Distinct /\ d \in Distinct
    BY <1>3, <1>5, DistinctSeparate
<1>6. CASE c \in BlindCalls /\ d \in BlindCalls
  <2>1. \A e, f \in BlindCalls : ~ Emulates(e, f)
      BY <1>4 DEF Emulates, FunctionOf
  <2> QED BY <1>6, <2>1, BlindingsSeparate
<1>7. CASE c \in BlindCalls /\ d \in Distinct
  <2>1. d.view # c.view
      BY <1>2, <1>4, <1>7 DEF FunctionOf
  <2> QED BY <1>3, <1>7, <2>1, BlindAsNonce
<1>8. CASE c \in Distinct /\ d \in BlindCalls
  <2>1. d.view # c.view
      BY <1>2, <1>4, <1>8 DEF FunctionOf
  <2>2. c.hashed = d.hashed <=> Emulates(d, c)
      BY <1>8, BlindAsNonce
  <2> QED BY <1>3, <1>8, <2>1, <2>2
<1> QED BY <1>1, <1>5, <1>6, <1>7, <1>8

(* The string that is hashed tells the function and its arguments, for     *)
(* every number of messages, keys and counts and strings of any symbols.   *)
THEOREM InputsNeverMix == CallSpec => []InputsSeparate
<1>1. InputsSeparate
    BY CallsSeparate DEF InputsSeparate
<1> QED BY <1>1, PTL

----------------------------------------------------------------------------
(* Sorting.  k is a child of j.                                            *)
Below(j, k) == k = 2 * j + 1 \/ k = 2 * j + 2

(* No element of the heap is above its parent, from lo on, but those below *)
(* one place.                                                              *)
Heap(arr, lo, size, place) ==
    \A j, k \in 0 .. size - 1 : j >= lo /\ Below(j, k) /\ j # place => arr[j] >= arr[k]

(* Nor are the elements below that place above its own parent.             *)
Bridged(arr, lo, size, place) ==
    \A j, k \in 0 .. size - 1 : j >= lo /\ Below(j, place) /\ Below(place, k) => arr[j] >= arr[k]

(* Behind the heap the array is sorted, and nothing before is larger.     *)
Behind(arr, size, n) == \A j \in size .. n - 1, k \in 0 .. n - 1 : k <= j => arr[k] <= arr[j]

(* The same elements as often as before.                                   *)
Places(arr, n, v) == {j \in 0 .. n - 1 : arr[j] = v}
Permuted(arr, was, n) == \A v \in 1 .. MaxKey : Cardinality(Places(arr, n, v)) = Cardinality(Places(was, n, v))
Arrays(n) == [0 .. n - 1 -> 1 .. MaxKey]

(* The state of a sort of n elements.                                      *)
Sorts(n) == [arr : Arrays(n), was : Arrays(n), count : {n}, building : BOOLEAN,
             i : 0 .. n, at : 0 .. n, size : 0 .. n]
Building(h) == h.building = TRUE
Lo(h) == IF Building(h) THEN h.i ELSE 0
SortTyped(h) ==
    /\ h.count \in Nat /\ h \in Sorts(h.count)
    /\ IF Building(h) THEN h.size = h.count /\ h.i <= h.at ELSE h.size = h.i
(* The heap begins at Lo: all of it is one but while it is being built.    *)
SortInv(h) == /\ SortTyped(h)
              /\ Heap(h.arr, Lo(h), h.size, h.at)
              /\ Bridged(h.arr, Lo(h), h.size, h.at)
              /\ Behind(h.arr, h.size, h.count)
              /\ Permuted(h.arr, h.was, h.count)

(* What a step changes of the state, and what is then left to show.        *)
Fields(g, n, was, building, arr, i, at, size) ==
    /\ g \in Sorts(n) /\ g.count = n /\ g.was = was /\ (Building(g) <=> building)
    /\ g.arr = arr /\ g.i = i /\ g.at = at /\ g.size = size

LEMMA NewFields ==
    ASSUME NEW n, NEW h \in Sorts(n), NEW new \in Arrays(n), NEW i \in 0 .. n, NEW at \in 0 .. n
    PROVE  /\ Fields([h EXCEPT !.arr = new, !.at = at], n, h.was, Building(h), new, h.i, at, h.size)
           /\ Fields([h EXCEPT !.at = at], n, h.was, Building(h), h.arr, h.i, at, h.size)
           /\ Fields([h EXCEPT !.i = i, !.at = at], n, h.was, Building(h), h.arr, i, at, h.size)
           /\ Fields([h EXCEPT !.building = FALSE, !.i = i], n, h.was, FALSE, h.arr, i, h.at, h.size)
           /\ Fields([h EXCEPT !.arr = new, !.i = i, !.at = at, !.size = i], n, h.was, Building(h), new, i, at, i)
<1>1. Fields([h EXCEPT !.arr = new, !.at = at], n, h.was, Building(h), new, h.i, at, h.size)
    BY DEF Sorts, Building, Fields
<1>2. Fields([h EXCEPT !.at = at], n, h.was, Building(h), h.arr, h.i, at, h.size)
    BY DEF Sorts, Building, Fields
<1>3. Fields([h EXCEPT !.i = i, !.at = at], n, h.was, Building(h), h.arr, i, at, h.size)
    BY DEF Sorts, Building, Fields
<1>4. Fields([h EXCEPT !.building = FALSE, !.i = i], n, h.was, FALSE, h.arr, i, h.at, h.size)
    BY DEF Sorts, Building, Fields
<1>5. Fields([h EXCEPT !.arr = new, !.i = i, !.at = at, !.size = i], n, h.was, Building(h), new, i, at, i)
    BY DEF Sorts, Building, Fields
<1> QED BY <1>1, <1>2, <1>3, <1>4, <1>5

LEMMA SortInvFrom ==
    ASSUME NEW g, NEW n \in Nat, NEW was, NEW building \in BOOLEAN, NEW arr, NEW i, NEW at, NEW size,
           Fields(g, n, was, building, arr, i, at, size),
           IF building THEN size = n /\ i <= at ELSE size = i,
           LET lo == IF building THEN i ELSE 0 IN Heap(arr, lo, size, at) /\ Bridged(arr, lo, size, at),
           Behind(arr, size, n), Permuted(arr, was, n)
    PROVE  SortInv(g)
  BY DEF Fields, SortInv, SortTyped, Lo

LEMMA SortFacts ==
    ASSUME NEW h, SortInv(h)
    PROVE  /\ h.count \in Nat /\ h \in Sorts(h.count) /\ h.arr \in Arrays(h.count)
           /\ h.size \in 0 .. h.count /\ h.at \in 0 .. h.count /\ h.i \in 0 .. h.size /\ h.building \in BOOLEAN
           /\ Lo(h) = IF Building(h) THEN h.i ELSE 0
           /\ IF Building(h) THEN h.size = h.count /\ h.i <= h.at ELSE h.size = h.i
           /\ Building(h) \in BOOLEAN
<1>1. h.count \in Nat /\ h \in Sorts(h.count) /\ IF Building(h) THEN h.size = h.count /\ h.i <= h.at ELSE h.size = h.i
    BY DEF SortInv, SortTyped
<1>2. /\ h.arr \in Arrays(h.count) /\ h.size \in 0 .. h.count /\ h.at \in 0 .. h.count
      /\ h.i \in 0 .. h.count /\ h.building \in BOOLEAN
    BY <1>1 DEF Sorts
<1>3. Lo(h) = IF Building(h) THEN h.i ELSE 0
    BY DEF Lo
<1>4. Building(h) \in BOOLEAN
    BY DEF Building
<1> QED BY <1>1, <1>2, <1>3, <1>4

(* To swap two elements permutes an array.                                 *)
LEMMA SwapPermutes ==
    ASSUME NEW n \in Nat, NEW arr \in Arrays(n), NEW was, Permuted(arr, was, n),
           NEW a \in 0 .. n - 1, NEW b \in 0 .. n - 1
    PROVE  Swap(arr, a, b) \in Arrays(n) /\ Permuted(Swap(arr, a, b), was, n)
<1> DEFINE new == Swap(arr, a, b)
           other(j) == IF j = a THEN b ELSE IF j = b THEN a ELSE j
<1>1. new \in Arrays(n) /\ \A j \in 0 .. n - 1 : new[j] = arr[other(j)]
    BY DEF Swap, Arrays
<1>2. \A j \in 0 .. n - 1 : other(j) \in 0 .. n - 1 /\ other(other(j)) = j
    OBVIOUS
<1> HIDE DEF new, other
<1>3. ASSUME NEW v \in 1 .. MaxKey
      PROVE  Cardinality(Places(new, n, v)) = Cardinality(Places(arr, n, v))
  <2> DEFINE S == Places(arr, n, v)
             T == Places(new, n, v)
             f == [j \in S |-> other(j)]
  <2>1. IsFiniteSet(S)
    <3>1. S \in SUBSET (0 .. n - 1)
        BY DEF Places
    <3>2. IsFiniteSet(0 .. n - 1)
        BY FS_Interval
    <3> QED BY <3>1, <3>2, FS_Subset
  <2>2. \A j \in S : other(j) \in T
      BY <1>1, <1>2 DEF Places
  <2>3. \A j \in T : other(j) \in S
      BY <1>1, <1>2 DEF Places
  <2>4. f \in [S -> T] /\ \A x, y \in S : f[x] = f[y] => x = y
      BY <1>2, <2>2 DEF Places
  <2>5. \A y \in T : \E x \in S : f[x] = y
    <3> TAKE y \in T
    <3>1. other(y) \in S /\ f[other(y)] = y
        BY <1>2, <2>3 DEF Places
    <3> QED BY <3>1
  <2>6. f \in Bijection(S, T)
      BY <2>4, <2>5 DEF Bijection, Injection, Surjection, IsInjective
  <2>7. ExistsBijection(S, T)
      BY <2>6 DEF ExistsBijection
  <2> QED BY <2>1, <2>7, FS_Bijection
<1> QED BY <1>1, <1>3 DEF Permuted, new

(* The root of a heap is the largest.                                      *)
LEMMA RootIsLargest ==
    ASSUME NEW n \in Nat, NEW arr \in Arrays(n), NEW size \in 1 .. n, NEW place,
           Heap(arr, 0, size, place), place >= size \div 2, place \in Nat
    PROVE  \A k \in 0 .. size - 1 : arr[k] <= arr[0]
<1> DEFINE T == {k \in 0 .. size - 1 : \A l \in 0 .. k : arr[l] <= arr[0]}
<1>1. 0 \in T
    BY DEF Arrays
<1>2. ASSUME NEW i \in 1 .. size - 1, i - 1 \in T PROVE i \in T
  <2> DEFINE p == (i - 1) \div 2
  <2>1. p \in 0 .. i - 1 /\ Below(p, i) /\ p # place
      BY DEF Below
  <2> HIDE DEF p
  <2>2. arr[p] >= arr[i]
      BY <2>1 DEF Heap
  <2>3. arr[p] <= arr[0]
      BY <1>2, <2>1
  <2>4. arr[p] \in Int /\ arr[i] \in Int /\ arr[0] \in Int
      BY <2>1 DEF Arrays
  <2>5. arr[i] <= arr[0]
      BY <2>2, <2>3, <2>4
  <2> QED BY <1>2, <2>5
<1> HIDE DEF T
<1>3. \A k \in 0 .. size - 1 : k \in T
    BY <1>1, <1>2, UpTo
<1>4. \A k \in 0 .. size - 1 : k \in 0 .. k
    OBVIOUS
<1> QED BY <1>3, <1>4 DEF T

(* The sort starts, goes down the heap and goes on to the next element.    *)
LEMMA SortStarts == \A n \in Nat : \A arr \in Arrays(n) : SortInv(HsortStart(arr, n))
<1> SUFFICES ASSUME NEW n \in Nat, NEW arr \in Arrays(n) PROVE SortInv(HsortStart(arr, n))
    OBVIOUS
<1> DEFINE h == HsortStart(arr, n)
<1>1. /\ h \in Sorts(n) /\ h.count = n /\ h.arr = arr /\ h.was = arr /\ Building(h)
      /\ h.i = n \div 2 /\ h.at = n /\ h.size = n
    BY DEF HsortStart, Sorts, Building
<1> HIDE DEF h
<1>2. SortTyped(h)
    BY <1>1 DEF SortTyped
<1>3. Lo(h) = n \div 2
    BY <1>1 DEF Lo
<1>4. Heap(arr, n \div 2, n, n) /\ Bridged(arr, n \div 2, n, n) /\ Behind(arr, n, n) /\ Permuted(arr, arr, n)
    BY DEF Heap, Bridged, Behind, Permuted, Below
<1>5. SortInv(h)
    BY <1>1, <1>2, <1>3, <1>4 DEF SortInv
<1> QED BY <1>5 DEF h

(* An element that goes down makes room for the larger of its children.    *)
LEMMA DownHeap ==
    ASSUME NEW n \in Nat, NEW arr \in Arrays(n), NEW size \in 0 .. n, NEW lo \in Nat,
           NEW at \in Nat, lo <= at, NEW c \in 0 .. size - 1, Below(at, c),
           Heap(arr, lo, size, at), Bridged(arr, lo, size, at), Behind(arr, size, n),
           \A k \in 0 .. size - 1 : Below(at, k) => arr[k] <= arr[c]
    PROVE  /\ arr[c] > arr[at] => LET new == Swap(arr, at, c) IN /\ Heap(new, lo, size, c)
                                                                /\ Bridged(new, lo, size, c)
                                                                /\ Behind(new, size, n)
           /\ ~ (arr[c] > arr[at]) => Heap(arr, lo, size, n) /\ Bridged(arr, lo, size, n)
<1>1. \A j \in 0 .. n - 1 : arr[j] \in 1 .. MaxKey
    BY DEF Arrays
<1>2. at \in 0 .. size - 1 /\ at < c
    BY DEF Below
<1>3. ASSUME arr[c] > arr[at]
      PROVE LET new == Swap(arr, at, c) IN Heap(new, lo, size, c) /\ Bridged(new, lo, size, c) /\ Behind(new, size, n)
  <2> DEFINE new == Swap(arr, at, c)
  <2>1. /\ new[at] = arr[c] /\ new[c] = arr[at]
        /\ \A j \in 0 .. n - 1 : j # at /\ j # c => new[j] = arr[j]
      BY <1>2 DEF Swap, Arrays
  <2> HIDE DEF new
  <2>2. ASSUME NEW j \in 0 .. size - 1, NEW k \in 0 .. size - 1, j >= lo, Below(j, k), j # c
        PROVE  new[j] >= new[k]
    <3>1. CASE j = at
      <4>1. k # at /\ arr[k] <= arr[c]
          BY <2>2, <3>1 DEF Below
      <4> QED BY <1>1, <1>3, <2>1, <3>1, <4>1
    <3>2. CASE j # at /\ k = at
      <4>1. arr[j] >= arr[c]
          BY <2>2, <3>2 DEF Bridged
      <4> QED BY <2>1, <2>2, <3>2, <4>1
    <3>3. CASE j # at /\ k # at
      <4>1. k # c
          BY <2>2, <3>3 DEF Below
      <4>2. arr[j] >= arr[k]
          BY <2>2, <3>3 DEF Heap
      <4> QED BY <2>1, <2>2, <3>3, <4>1, <4>2
    <3> QED BY <3>1, <3>2, <3>3
  <2>3. ASSUME NEW j \in 0 .. size - 1, NEW k \in 0 .. size - 1, j >= lo, Below(j, c), Below(c, k)
        PROVE  new[j] >= new[k]
    <3>1. j = at /\ k # at /\ k # c /\ c >= lo
        BY <1>2, <2>3 DEF Below
    <3>2. arr[c] >= arr[k]
        BY <1>2, <2>3, <3>1 DEF Heap
    <3> QED BY <2>1, <3>1, <3>2
  <2>4. Behind(new, size, n)
      BY <1>2, <2>1 DEF Behind
  <2> QED BY <2>2, <2>3, <2>4 DEF Heap, Bridged, new
<1>4. ASSUME ~ (arr[c] > arr[at]) PROVE Heap(arr, lo, size, n) /\ Bridged(arr, lo, size, n)
  <2>1. ASSUME NEW j \in 0 .. size - 1, NEW k \in 0 .. size - 1, j >= lo, Below(j, k)
        PROVE  arr[j] >= arr[k]
    <3>1. CASE j = at
      BY <1>1, <1>2, <1>4, <2>1, <3>1
    <3>2. CASE j # at
      BY <2>1, <3>2 DEF Heap
    <3> QED BY <3>1, <3>2
  <2>2. Bridged(arr, lo, size, n)
      BY DEF Bridged, Below
  <2> QED BY <2>1, <2>2 DEF Heap
<1> QED BY <1>3, <1>4

LEMMA DownSorts == \A h : SortInv(h) /\ h.at < h.size \div 2 => SortInv(HsortDown(h))
<1> SUFFICES ASSUME NEW h, SortInv(h), h.at < h.size \div 2 PROVE SortInv(HsortDown(h))
    OBVIOUS
<1> DEFINE c1 == Child1(h.at)
           c2 == Child2(h.at)
           second == c2 < h.size /\ h.arr[c2] >= h.arr[c1]
           c == IF second THEN c2 ELSE c1
<1>1. /\ h.count \in Nat /\ h \in Sorts(h.count) /\ h.arr \in Arrays(h.count) /\ h.size \in 0 .. h.count
      /\ h.at \in 0 .. h.count /\ h.i \in 0 .. h.size /\ Building(h) \in BOOLEAN
      /\ Lo(h) = IF Building(h) THEN h.i ELSE 0
      /\ IF Building(h) THEN h.size = h.count /\ h.i <= h.at ELSE h.size = h.i
    BY SortFacts
<1>2. h.count \in Nat /\ h.arr \in Arrays(h.count) /\ h.size \in 0 .. h.count /\ h.at \in Nat
    BY <1>1
<1>3. Lo(h) \in Nat /\ Lo(h) <= h.at
    BY <1>1
<1>4. c \in 0 .. h.size - 1 /\ Below(h.at, c)
    BY <1>2 DEF Child1, Child2, Below
<1>5. \A k \in 0 .. h.count - 1 : h.arr[k] \in 1 .. MaxKey
    BY <1>2 DEF Arrays
<1>6. \A k \in 0 .. h.size - 1 : Below(h.at, k) => h.arr[k] <= h.arr[c]
    BY <1>2, <1>4, <1>5 DEF Child1, Child2, Below
<1>7. HsortDown(h) = IF h.arr[c] > h.arr[h.at] THEN [h EXCEPT !.arr = Swap(h.arr, h.at, c), !.at = c]
                     ELSE [h EXCEPT !.at = h.count]
    BY DEF HsortDown
<1> HIDE DEF c1, c2, second, c
<1>8. CASE h.arr[c] > h.arr[h.at]
  <2> DEFINE new == Swap(h.arr, h.at, c)
             g == [h EXCEPT !.arr = new, !.at = c]
  <2>1. new \in Arrays(h.count) /\ Permuted(new, h.was, h.count)
      BY <1>2, <1>4, SwapPermutes DEF SortInv, Below
  <2>2. Heap(new, Lo(h), h.size, c) /\ Bridged(new, Lo(h), h.size, c) /\ Behind(new, h.size, h.count)
      BY <1>2, <1>3, <1>4, <1>6, <1>8, DownHeap DEF SortInv
  <2>3. h.at < c /\ c \in 0 .. h.count
      BY <1>2, <1>4 DEF Below
  <2> HIDE DEF new
  <2>4. Fields(g, h.count, h.was, Building(h), new, h.i, c, h.size)
      BY <1>1, <2>1, <2>3, NewFields
  <2>5. IF Building(h) THEN h.size = h.count /\ h.i <= c ELSE h.size = h.i
      BY <1>1, <2>3
  <2> HIDE DEF g
  <2>6. SortInv(g)
      BY <1>1, <2>1, <2>2, <2>4, <2>5, SortInvFrom
  <2> QED BY <1>7, <1>8, <2>6 DEF g, new
<1>9. CASE ~ (h.arr[c] > h.arr[h.at])
  <2> DEFINE g == [h EXCEPT !.at = h.count]
  <2>1. Heap(h.arr, Lo(h), h.size, h.count) /\ Bridged(h.arr, Lo(h), h.size, h.count)
      BY <1>2, <1>3, <1>4, <1>6, <1>9, DownHeap DEF SortInv
  <2>2. Fields(g, h.count, h.was, Building(h), h.arr, h.i, h.count, h.size)
    <3>1. h.count \in 0 .. h.count
        BY <1>1
    <3> QED BY <1>1, <3>1, NewFields
  <2>3. IF Building(h) THEN h.size = h.count /\ h.i <= h.count ELSE h.size = h.i
      BY <1>1
  <2>4. Behind(h.arr, h.size, h.count) /\ Permuted(h.arr, h.was, h.count)
      BY DEF SortInv
  <2> HIDE DEF g
  <2>5. SortInv(g)
      BY <1>1, <2>1, <2>2, <2>3, <2>4, SortInvFrom
  <2> QED BY <1>7, <1>9, <2>5 DEF g
<1> QED BY <1>8, <1>9

LEMMA NextSorts == \A h : /\ SortInv(h) /\ h.at >= h.size \div 2 /\ (h.building \/ h.i > 1)
                          => SortInv(HsortNext(h))
<1> SUFFICES ASSUME NEW h, SortInv(h), h.at >= h.size \div 2, h.building \/ h.i > 1 PROVE SortInv(HsortNext(h))
    OBVIOUS
<1>1. /\ h.count \in Nat /\ h \in Sorts(h.count) /\ h.arr \in Arrays(h.count) /\ h.size \in 0 .. h.count
      /\ h.at \in 0 .. h.count /\ h.i \in 0 .. h.size /\ Building(h) \in BOOLEAN
      /\ Lo(h) = IF Building(h) THEN h.i ELSE 0
      /\ IF Building(h) THEN h.size = h.count /\ h.i <= h.at ELSE h.size = h.i
    BY SortFacts
<1>2. (h.building <=> Building(h)) /\ (Building(h) \/ h.i > 1)
  <2>1. h.building \in BOOLEAN
      BY SortFacts
  <2> QED BY <2>1 DEF Building
<1>3. Heap(h.arr, Lo(h), h.size, h.count) /\ \A k \in 0 .. h.size - 1 : ~ Below(h.at, k)
  <2>1. \A k \in 0 .. h.size - 1 : ~ Below(h.at, k)
      BY <1>1 DEF Below
  <2> QED BY <2>1 DEF SortInv, Heap
<1>4. Behind(h.arr, h.size, h.count) /\ Permuted(h.arr, h.was, h.count)
    BY DEF SortInv
<1>5. CASE Building(h) /\ h.i > 0
  <2> DEFINE i == h.i - 1
             g == [h EXCEPT !.i = i, !.at = i]
  <2>1. HsortNext(h) = g
      BY <1>2, <1>5 DEF HsortNext
  <2>2. i \in 0 .. h.count /\ i <= i /\ Lo(h) = i + 1 /\ h.size = h.count
      BY <1>1, <1>5, SMTT(20)
  <2> HIDE DEF i
  <2>3. Fields(g, h.count, h.was, Building(h), h.arr, i, i, h.size)
      BY <1>1, <2>2, NewFields
  <2>4. Heap(h.arr, i, h.size, i)
      BY <1>1, <1>3, <2>2 DEF Heap, Below
  <2>5. Bridged(h.arr, i, h.size, i)
      BY <2>2 DEF Bridged, Below
  <2> HIDE DEF g
  <2>6. SortInv(g)
      BY <1>1, <1>4, <1>5, <2>2, <2>3, <2>4, <2>5, SortInvFrom
  <2> QED BY <2>1, <2>6
<1>6. CASE Building(h) /\ ~ (h.i > 0)
  <2> DEFINE g == [h EXCEPT !.building = FALSE, !.i = h.count]
  <2>1. HsortNext(h) = g
      BY <1>2, <1>6 DEF HsortNext
  <2>2. Fields(g, h.count, h.was, FALSE, h.arr, h.count, h.at, h.size)
    <3>1. h.count \in 0 .. h.count
        BY <1>1
    <3> QED BY <1>1, <3>1, NewFields
  <2>3. Lo(h) = 0 /\ h.size = h.count
      BY <1>1, <1>6
  <2>4. Heap(h.arr, 0, h.size, h.at) /\ Bridged(h.arr, 0, h.size, h.at)
      BY <2>3 DEF SortInv
  <2> HIDE DEF g
  <2>5. SortInv(g)
      BY <1>1, <1>4, <2>2, <2>3, <2>4, SortInvFrom
  <2> QED BY <2>1, <2>5
<1>7. CASE ~ Building(h)
  <2> DEFINE last == h.i - 1
             new == Swap(h.arr, 0, last)
             g == [h EXCEPT !.arr = new, !.i = last, !.at = 0, !.size = last]
  <2>1. HsortNext(h) = g
      BY <1>2, <1>7 DEF HsortNext
  <2>2. h.i > 1 /\ h.size = h.i /\ Lo(h) = 0
      BY <1>1, <1>2, <1>7
  <2>3. last \in 1 .. h.count - 1 /\ h.size = last + 1
      BY <1>1, <2>2
  <2> HIDE DEF last
  <2>4. new \in Arrays(h.count) /\ Permuted(new, h.was, h.count)
      BY <1>1, <1>4, <2>3, SwapPermutes
  <2>5. /\ new[0] = h.arr[last] /\ new[last] = h.arr[0]
        /\ \A j \in 0 .. h.count - 1 : j # 0 /\ j # last => new[j] = h.arr[j]
    <3>1. h.arr \in [0 .. h.count - 1 -> 1 .. MaxKey] /\ 0 \in 0 .. h.count - 1 /\ last \in 0 .. h.count - 1
        BY <1>1, <2>3 DEF Arrays
    <3> QED BY <2>3, <3>1 DEF Swap
  <2> HIDE DEF new
  <2>6. \A k \in 0 .. last : h.arr[k] <= h.arr[0]
    <3>1. Heap(h.arr, 0, h.size, h.at) /\ h.size \in 1 .. h.count
        BY <1>1, <2>2 DEF SortInv
    <3>2. \A k \in 0 .. h.size - 1 : h.arr[k] <= h.arr[0]
        BY <1>1, <3>1, RootIsLargest, SMTT(20)
    <3> QED BY <2>3, <3>2
  <2>7. Fields(g, h.count, h.was, Building(h), new, last, 0, last)
    <3>1. last \in 0 .. h.count /\ 0 \in 0 .. h.count
        BY <1>1, <2>3
    <3> QED BY <1>1, <2>4, <3>1, NewFields
  <2> HIDE DEF g
  <2>8. Heap(new, 0, last, 0)
      BY <1>1, <1>3, <2>2, <2>3, <2>5 DEF Heap, Below
  <2>9. Bridged(new, 0, last, 0)
      BY <2>3 DEF Bridged, Below
  <2>10. Behind(new, last, h.count)
    <3>1. ASSUME NEW j \in last .. h.count - 1, NEW k \in 0 .. h.count - 1, k <= j
          PROVE  new[k] <= new[j]
      <4>1. \A l \in 0 .. h.count - 1 : h.arr[l] \in 1 .. MaxKey
          BY <1>1 DEF Arrays
      <4>2. CASE j = last
        BY <2>3, <2>5, <2>6, <3>1, <4>1, <4>2
      <4>3. CASE j # last
        <5>1. j \in h.size .. h.count - 1 /\ new[j] = h.arr[j]
            BY <1>1, <2>3, <2>5, <3>1, <4>3
        <5>2. \A l \in 0 .. h.count - 1 : l <= j => h.arr[l] <= h.arr[j]
            BY <1>4, <5>1 DEF Behind
        <5>3. h.arr[0] <= h.arr[j] /\ h.arr[last] <= h.arr[j] /\ h.arr[k] <= h.arr[j]
            BY <1>1, <2>3, <3>1, <4>3, <5>2
        <5> QED BY <2>5, <5>1, <5>3
      <4> QED BY <4>2, <4>3
    <3> QED BY <3>1 DEF Behind
  <2>11. SortInv(g)
      BY <1>1, <1>7, <2>4, <2>7, <2>8, <2>9, <2>10, SortInvFrom
  <2> QED BY <2>1, <2>11
<1> QED BY <1>1, <1>5, <1>6, <1>7

(* What SortAgrees of Encodings says of a sort.                            *)
LEMMA SortHolds == Kind("sort") /\ SortInv(coding.sort) => SortAgrees
<1> SUFFICES ASSUME Kind("sort"), SortInv(coding.sort) PROVE SortAgrees
    OBVIOUS
<1> DEFINE h == coding.sort
           n == h.count
<1>1. /\ h.arr \in Arrays(n) /\ h.size \in 0 .. n /\ n \in Nat /\ h.i \in 0 .. h.size
      /\ Lo(h) = (IF Building(h) THEN h.i ELSE 0) /\ (~ Building(h) => h.size = h.i)
    BY SortFacts
<1>2. h.building <=> Building(h)
  <2>1. h.building \in BOOLEAN
      BY SortFacts
  <2> QED BY <2>1 DEF Building
<1>3. ASSUME NEW v \in 1 .. MaxKey
      PROVE  Cardinality({j \in 0 .. n - 1 : h.arr[j] = v}) = Cardinality({j \in 0 .. n - 1 : h.was[j] = v})
    BY DEF SortInv, Permuted, Places
<1>4. ASSUME NEW j \in 0 .. h.size - 1, NEW k \in 0 .. h.size - 1,
             k \in {Child1(j), Child2(j)}, j # h.at, h.building => j >= h.i
      PROVE  h.arr[j] >= h.arr[k]
  <2>1. j >= Lo(h) /\ Below(j, k)
      BY <1>1, <1>2, <1>4 DEF Below, Child1, Child2
  <2> QED BY <1>4, <2>1 DEF SortInv, Heap
<1>5. \A j \in h.size .. n - 1, k \in 0 .. n - 1 : k <= j => h.arr[k] <= h.arr[j]
    BY DEF SortInv, Behind
<1>6. ASSUME ~ h.building, h.i <= 1, NEW j \in 0 .. n - 1, NEW k \in 0 .. n - 1, j <= k
      PROVE  h.arr[j] <= h.arr[k]
  <2>1. h.size <= 1
      BY <1>1, <1>2, <1>6
  <2>2. CASE k >= h.size
    BY <1>1, <1>5, <1>6, <2>2
  <2>3. CASE k < h.size
    <3>1. j = k /\ h.arr[j] \in Int
        BY <1>1, <1>6, <2>1, <2>3 DEF Arrays
    <3> QED BY <3>1
  <2> QED BY <1>1, <2>2, <2>3
<1> HIDE DEF h, n
<1> QED BY <1>3, <1>4, <1>5, <1>6 DEF SortAgrees, h, n

(* The sorts among the codings.                                            *)
SortCodings == \E h : coding = [sort |-> h] /\ SortInv(h)

LEMMA SortsOnly == \A h : [sort |-> h].sort = h /\ DOMAIN [sort |-> h] = {"sort"}
  OBVIOUS

(* An encoding of one kind is of no other.                                 *)
LEMMA StartingKinds ==
    ASSUME CodingInit
    PROVE  /\ Kind("sort") => \E n \in 0 .. MaxSorted : \E arr \in [0 .. n - 1 -> 1 .. MaxKey] :
                                  coding = [sort |-> HsortStart(arr, n)]
           /\ Kind("iter") => \E n \in 0 .. MaxIter : LET data == [i \in 1 .. n |-> 10 * i]
                                                      IN  coding = [iter |-> IterNew(data), rest |-> data]
<1> DEFINE Sorted == \E n \in 0 .. MaxSorted : \E arr \in [0 .. n - 1 -> 1 .. MaxKey] :
                         coding = [sort |-> HsortStart(arr, n)]
           Iterated == \E n \in 0 .. MaxIter : LET data == [i \in 1 .. n |-> 10 * i]
                                               IN  coding = [iter |-> IterNew(data), rest |-> data]
<1>1. Sorted => ~ Kind("iter")
    BY DEF Kind
<1>2. Iterated => ~ Kind("sort")
    BY DEF Kind
<1>3. (\E seed \in DerSeeds : coding = [der |-> seed]) => ~ Kind("sort") /\ ~ Kind("iter")
    BY DEF Kind
<1>4. (\E n \in 0 .. 2 : coding = [hex |-> << >>, target |-> n]) => ~ Kind("sort") /\ ~ Kind("iter")
    BY DEF Kind
<1> DEFINE Seeded == \E seed \in DerSeeds : coding = [der |-> seed]
           Typed == \E n \in 0 .. 2 : coding = [hex |-> << >>, target |-> n]
<1>5. Seeded \/ Typed \/ Iterated \/ Sorted
    BY Zenon DEF CodingInit
<1> HIDE DEF Sorted, Iterated, Seeded, Typed
<1>6. (Kind("sort") => Sorted) /\ (Kind("iter") => Iterated)
    BY <1>1, <1>2, <1>3, <1>4, <1>5 DEF Seeded, Typed
<1> QED BY <1>6 DEF Sorted, Iterated

LEMMA SortInit == ASSUME CodingInit, Kind("sort") PROVE SortCodings
<1>1. PICK n \in 0 .. MaxSorted : \E arr \in Arrays(n) : coding = [sort |-> HsortStart(arr, n)]
    BY StartingKinds DEF Arrays
<1>2. PICK arr \in Arrays(n) : coding = [sort |-> HsortStart(arr, n)]
    BY <1>1
<1>3. SortInv(HsortStart(arr, n))
    BY SortStarts
<1> QED BY <1>2, <1>3 DEF SortCodings

LEMMA SortKeeps == ASSUME Kind("sort") => SortCodings, [CodingNext]_codingVars, Kind("sort")' PROVE SortCodings'
<1>1. ASSUME Edit PROVE FALSE
    BY <1>1 DEF Edit, Kind
<1>2. ASSUME TypeHex PROVE FALSE
  <2>1. Kind("hex") /\ DOMAIN coding' = DOMAIN coding
      BY <1>2 DEF TypeHex
  <2>2. Kind("sort") /\ Kind("hex")
      BY <2>1 DEF Kind
  <2>3. SortCodings
      BY <2>2
  <2> QED BY <2>2, <2>3, SortsOnly DEF SortCodings, Kind
<1>3. ASSUME Iterate PROVE FALSE
  <2>1. \E it, rest : coding' = [iter |-> it, rest |-> rest]
      BY <1>3 DEF Iterate, Took
  <2> QED BY <2>1 DEF Kind
<1>4. ASSUME SortStep PROVE SortCodings'
  <2> DEFINE h == coding.sort
  <2>1. SortInv(h)
      BY <1>4, SortsOnly DEF SortStep, SortCodings
  <2>2. \/ h.at < h.size \div 2 /\ coding' = [sort |-> HsortDown(h)]
        \/ h.at >= h.size \div 2 /\ (h.building \/ h.i > 1) /\ coding' = [sort |-> HsortNext(h)]
      BY <1>4 DEF SortStep
  <2> HIDE DEF h
  <2> QED BY <2>1, <2>2, DownSorts, NextSorts DEF SortCodings
<1>5. ASSUME UNCHANGED codingVars PROVE SortCodings'
    BY <1>5 DEF codingVars, Kind, SortCodings
<1> QED BY <1>1, <1>2, <1>3, <1>4, <1>5 DEF CodingNext

(* Whatever the number of keys and their order, the sort keeps the keys,   *)
(* has a heap above the place that it repairs and sorted keys behind the   *)
(* heap, and ends with all of them sorted (hsort_impl.h:45).               *)
THEOREM SortAlwaysAgrees == CodingSpec => []SortAgrees
<1>1. CodingInit => (Kind("sort") => SortCodings)
    BY SortInit
<1>2. (Kind("sort") => SortCodings) /\ [CodingNext]_codingVars => (Kind("sort") => SortCodings)'
    BY SortKeeps
<1>3. (Kind("sort") => SortCodings) => SortAgrees
  <2>1. SortCodings => SortInv(coding.sort)
      BY SortsOnly DEF SortCodings
  <2> QED BY <2>1, SortHolds DEF SortAgrees
<1> QED BY <1>1, <1>2, <1>3, PTL DEF CodingSpec

----------------------------------------------------------------------------
(* The iterator has left what lies between its ends.                       *)
IterInv(it, rest) ==
    /\ it \in [data : Seq(Int), len : Nat, pos : Nat]
    /\ it.pos <= it.len /\ it.len <= Len(it.data)
    /\ rest = SubSeq(it.data, it.pos + 1, it.len)

(* To take from the ends of a part of a sequence.                          *)
LEMMA PartOfPart ==
    ASSUME NEW data \in Seq(Int), NEW l \in 0 .. Len(data), NEW p \in 0 .. l, NEW a \in Nat, NEW b \in Nat
    PROVE  /\ SubSeq(SubSeq(data, p + 1, l), a + 1, l - p - b) =
                IF a + b < l - p THEN SubSeq(data, p + a + 1, l - b) ELSE << >>
           /\ Len(SubSeq(data, p + 1, l)) = l - p
<1>1. Len(data) \in Nat /\ \A i \in 1 .. Len(data) : data[i] \in Int
    OBVIOUS
<1>2. SubSeq(data, p + 1, l) \in Seq(Int) /\ Len(SubSeq(data, p + 1, l)) = l - p
  <2>1. \A i \in p + 1 .. l : data[i] \in Int
      BY <1>1
  <2>2. /\ SubSeq(data, p + 1, l) \in Seq(Int)
        /\ Len(SubSeq(data, p + 1, l)) = IF p + 1 <= l THEN l - (p + 1) + 1 ELSE 0
      BY <1>1, <2>1, SubSeqProperties
  <2> QED BY <1>1, <2>2
<1>3. CASE a + b < l - p
  <2> DEFINE i == p + 1
             m == a + 1
             n == l - p - b
  <2>1. i \in 1 .. Len(data) /\ l \in 1 .. Len(data) /\ m \in 1 .. l - i + 1 /\ n \in 1 .. l - i + 1
      BY <1>1, <1>3
  <2>2. i + m - 1 = p + a + 1 /\ i + n - 1 = l - b
      BY <1>1
  <2> HIDE DEF i, m, n
  <2>3. SubSeq(SubSeq(data, i, l), m, n) = SubSeq(data, i + m - 1, i + n - 1)
      BY <2>1, SubSeqOfSubSeq
  <2> QED BY <1>2, <1>3, <2>2, <2>3 DEF i, m, n
<1>4. CASE ~ (a + b < l - p)
  <2>1. a + 1 \in Int /\ l - p - b \in Int /\ l - p - b < a + 1
      BY <1>1, <1>4
  <2>2. SubSeq(SubSeq(data, p + 1, l), a + 1, l - p - b) = << >>
      BY <2>1, SubSeqEmpty
  <2> QED BY <1>2, <1>4, <2>2
<1> QED BY <1>3, <1>4

(* The moves from either end; a move to the next is one over none.         *)
LEMMA NthMoves ==
    ASSUME NEW it, NEW rest, IterInv(it, rest), NEW n \in Nat
    PROVE  IterInv(IterNth(it, n).it, SubSeq(rest, n + 2, Len(rest)))
<1> DEFINE d == it.data
           l == it.len
           p == it.pos
<1>1. d \in Seq(Int) /\ Len(d) \in Nat /\ l \in 0 .. Len(d) /\ p \in 0 .. l /\ rest = SubSeq(d, p + 1, l)
    BY DEF IterInv
<1>2. \A q \in Nat : q <= l => [it EXCEPT !.pos = q] \in [data : Seq(Int), len : Nat, pos : Nat]
    BY DEF IterInv
<1>3. \A q : LET next == [it EXCEPT !.pos = q] IN next.data = d /\ next.len = l /\ next.pos = q
    BY DEF IterInv
<1>4. IterNth(it, n).it = IF n >= l - p THEN [it EXCEPT !.pos = l] ELSE [it EXCEPT !.pos = p + n + 1]
  <2>1. CASE n >= l - p
    BY <2>1 DEF IterNth
  <2>2. CASE n < l - p
    <3> DEFINE far == [it EXCEPT !.pos = p + n]
    <3>1. far.pos = p + n /\ far.len = l /\ [far EXCEPT !.pos = far.pos + 1] = [it EXCEPT !.pos = p + n + 1]
        BY <1>1 DEF IterInv
    <3>2. IterNth(it, n).it = IterNext(far).it
        BY <1>1, <2>2 DEF IterNth
    <3>3. IterNext(far).it = [far EXCEPT !.pos = far.pos + 1]
        BY <1>1, <2>2, <3>1 DEF IterNext
    <3> QED BY <1>1, <2>2, <3>1, <3>2, <3>3
  <2> QED BY <1>1, <2>1, <2>2
<1> DEFINE next == IterNth(it, n).it
           left == SubSeq(rest, n + 2, Len(rest))
<1> HIDE DEF d, l, p
<1>5. Len(rest) = l - p /\ left = IF n + 1 < l - p THEN SubSeq(d, p + n + 2, l) ELSE << >>
  <2>1. n + 1 \in Nat /\ 0 \in Nat /\ (n + 1) + 1 = n + 2 /\ l - p - 0 = l - p /\ p + (n + 1) + 1 = p + n + 2
        /\ l - 0 = l /\ (n + 1) + 0 = n + 1
      BY <1>1
  <2>2. SubSeq(SubSeq(d, p + 1, l), (n + 1) + 1, l - p - 0) = IF (n + 1) + 0 < l - p THEN SubSeq(d, p + (n + 1) + 1, l - 0) ELSE << >>
      BY <1>1, <2>1, PartOfPart
  <2>3. Len(rest) = l - p
      BY <1>1, PartOfPart
  <2> QED BY <1>1, <2>1, <2>2, <2>3
<1>6. SubSeq(d, l + 1, l) = << >>
    BY <1>1, SubSeqEmpty
<1>7. PICK q \in Nat : q <= l /\ next = [it EXCEPT !.pos = q] /\ left = SubSeq(d, q + 1, l)
  <2>1. CASE n + 1 < l - p
    <3>1. p + n + 1 \in Nat /\ p + n + 1 <= l /\ (p + n + 1) + 1 = p + n + 2 /\ ~ (n >= l - p)
        BY <1>1, <2>1
    <3> QED BY <1>4, <1>5, <2>1, <3>1
  <2>2. CASE ~ (n + 1 < l - p)
    <3>1. (n >= l - p \/ p + n + 1 = l) /\ l \in Nat
        BY <1>1, <2>2
    <3> QED BY <1>4, <1>5, <1>6, <2>2, <3>1
  <2> QED BY <2>1, <2>2
<1> HIDE DEF next, left
<1>8. next.data = d /\ next.len = l /\ next.pos = q /\ next \in [data : Seq(Int), len : Nat, pos : Nat]
    BY <1>2, <1>3, <1>7
<1>9. IterInv(next, left)
    BY <1>1, <1>7, <1>8 DEF IterInv
<1> QED BY <1>9 DEF next, left

LEMMA NextIsNth == \A it \in [data : Seq(Int), len : Nat, pos : Nat] : it.pos <= it.len => IterNext(it).it = IterNth(it, 0).it
<1> SUFFICES ASSUME NEW it \in [data : Seq(Int), len : Nat, pos : Nat], it.pos <= it.len
             PROVE  IterNext(it).it = IterNth(it, 0).it
    OBVIOUS
<1>1. CASE it.pos = it.len
  <2>1. IterNext(it).it = it /\ IterNth(it, 0).it = [it EXCEPT !.pos = it.len]
      BY <1>1 DEF IterNext, IterNth
  <2>2. [it EXCEPT !.pos = it.len] = it
      BY <1>1
  <2> QED BY <2>1, <2>2
<1>2. CASE it.pos < it.len
  <2>1. [it EXCEPT !.pos = @ + 0] = it
      OBVIOUS
  <2>2. IterNth(it, 0) = IterNext([it EXCEPT !.pos = @ + 0])
      BY <1>2 DEF IterNth
  <2> QED BY <2>1, <2>2
<1> QED BY <1>1, <1>2

LEMMA BackMoves ==
    ASSUME NEW it, NEW rest, IterInv(it, rest)
    PROVE  IterInv(IterNextBack(it).it, SubSeq(rest, 1, Len(rest) - 1))
<1> DEFINE d == it.data
           l == it.len
           p == it.pos
           left == SubSeq(rest, 1, Len(rest) - 1)
<1>1. d \in Seq(Int) /\ Len(d) \in Nat /\ l \in 0 .. Len(d) /\ p \in 0 .. l /\ rest = SubSeq(d, p + 1, l)
    BY DEF IterInv
<1>2. \A q \in Nat : LET next == [it EXCEPT !.len = q]
                     IN  /\ next \in [data : Seq(Int), len : Nat, pos : Nat]
                         /\ next.data = d /\ next.len = q /\ next.pos = p
    BY DEF IterInv
<1>3. p = l => IterNextBack(it).it = it
    BY DEF IterNextBack
<1>4. p # l => IterNextBack(it).it = [it EXCEPT !.len = l - 1]
    BY DEF IterNextBack
<1> HIDE DEF d, l, p
<1>5. left = IF 1 < l - p THEN SubSeq(d, p + 1, l - 1) ELSE << >>
  <2>1. 0 \in Nat /\ 1 \in Nat /\ 0 + 1 = 1 /\ p + 0 + 1 = p + 1
      BY <1>1
  <2>2. SubSeq(SubSeq(d, p + 1, l), 0 + 1, l - p - 1) = IF 0 + 1 < l - p THEN SubSeq(d, p + 0 + 1, l - 1) ELSE << >>
      BY <1>1, <2>1, PartOfPart
  <2>3. Len(rest) = l - p
      BY <1>1, PartOfPart
  <2> QED BY <1>1, <2>1, <2>2, <2>3
<1>6. CASE p = l
  <2>1. rest = << >> /\ left = << >>
      BY <1>1, <1>5, <1>6, SubSeqEmpty
  <2> QED BY <1>3, <1>6, <2>1 DEF left
<1>7. CASE p # l
  <2> DEFINE next == [it EXCEPT !.len = l - 1]
  <2>1. l - 1 \in Nat /\ p <= l - 1 /\ l - 1 <= Len(d)
      BY <1>1, <1>7
  <2>2. left = SubSeq(d, p + 1, l - 1)
    <3>1. CASE 1 < l - p
      BY <1>5, <3>1
    <3>2. CASE ~ (1 < l - p)
      BY <1>1, <1>5, <2>1, <3>2, SubSeqEmpty
    <3> QED BY <3>1, <3>2
  <2>3. /\ next \in [data : Seq(Int), len : Nat, pos : Nat]
        /\ next.data = d /\ next.len = l - 1 /\ next.pos = p
      BY <1>2, <2>1
  <2> HIDE DEF next, left
  <2>4. IterInv(next, left)
      BY <2>1, <2>2, <2>3 DEF IterInv
  <2> QED BY <1>4, <1>7, <2>4 DEF next, left
<1> QED BY <1>6, <1>7

(* The iterators among the codings.                                        *)
IterCodings == \E it, rest : coding = [iter |-> it, rest |-> rest] /\ IterInv(it, rest)

LEMMA ItersOnly == \A it, rest : LET c == [iter |-> it, rest |-> rest]
                                 IN  c.iter = it /\ c.rest = rest /\ DOMAIN c = {"iter", "rest"}
  OBVIOUS

LEMMA IterInit == ASSUME CodingInit, Kind("iter") PROVE IterCodings
<1>1. PICK n \in 0 .. MaxIter : LET data == [i \in 1 .. n |-> 10 * i] IN coding = [iter |-> IterNew(data), rest |-> data]
    BY StartingKinds
<1> DEFINE data == [i \in 1 .. n |-> 10 * i]
           it == IterNew(data)
<1>2. data \in Seq(Int) /\ Len(data) = n
    OBVIOUS
<1> HIDE DEF data
<1>3. it \in [data : Seq(Int), len : Nat, pos : Nat] /\ it.data = data /\ it.len = n /\ it.pos = 0
    BY <1>2 DEF IterNew
<1>4. SubSeq(data, 1, n) = data
    BY <1>2, SubSeqFull
<1>5. IterInv(it, data)
    BY <1>2, <1>3, <1>4 DEF IterInv
<1> QED BY <1>1, <1>5 DEF IterCodings, data

LEMMA IterKeeps == ASSUME Kind("iter") => IterCodings, [CodingNext]_codingVars, Kind("iter")' PROVE IterCodings'
<1>1. ASSUME Edit PROVE FALSE
    BY <1>1 DEF Edit, Kind
<1>2. ASSUME TypeHex PROVE FALSE
  <2>1. Kind("hex") /\ DOMAIN coding' = DOMAIN coding
      BY <1>2 DEF TypeHex
  <2>2. Kind("iter") /\ Kind("hex")
      BY <2>1 DEF Kind
  <2>3. IterCodings
      BY <2>2
  <2> QED BY <2>2, <2>3, ItersOnly DEF IterCodings, Kind
<1>3. ASSUME SortStep PROVE FALSE
  <2>1. \E h : coding' = [sort |-> h]
      BY <1>3 DEF SortStep
  <2> QED BY <2>1 DEF Kind
<1>4. ASSUME Iterate PROVE IterCodings'
  <2> DEFINE it == coding.iter
             rest == coding.rest
  <2>1. IterInv(it, rest)
      BY <1>4, ItersOnly DEF Iterate, IterCodings
  <2>2. \/ coding' = [iter |-> IterNext(it).it, rest |-> SubSeq(rest, 2, Len(rest))]
        \/ \E n \in 0 .. MaxSkip : coding' = [iter |-> IterNth(it, n).it, rest |-> SubSeq(rest, n + 2, Len(rest))]
        \/ coding' = [iter |-> IterNextBack(it).it, rest |-> SubSeq(rest, 1, Len(rest) - 1)]
      BY <1>4 DEF Iterate, Took
  <2> HIDE DEF it, rest
  <2>3. IterNext(it).it = IterNth(it, 0).it
      BY <2>1, NextIsNth DEF IterInv
  <2>4. IterInv(IterNth(it, 0).it, SubSeq(rest, 2, Len(rest)))
    <3>1. 0 \in Nat /\ 0 + 2 = 2
        OBVIOUS
    <3>2. IterInv(IterNth(it, 0).it, SubSeq(rest, 0 + 2, Len(rest)))
        BY <2>1, <3>1, NthMoves
    <3> QED BY <3>1, <3>2
  <2>5. \A n \in 0 .. MaxSkip : IterInv(IterNth(it, n).it, SubSeq(rest, n + 2, Len(rest)))
      BY <2>1, NthMoves
  <2>6. IterInv(IterNextBack(it).it, SubSeq(rest, 1, Len(rest) - 1))
      BY <2>1, BackMoves
  <2> QED BY <2>2, <2>3, <2>4, <2>5, <2>6 DEF IterCodings
<1>5. ASSUME UNCHANGED codingVars PROVE IterCodings'
    BY <1>5 DEF codingVars, Kind, IterCodings
<1> QED BY <1>1, <1>2, <1>3, <1>4, <1>5 DEF CodingNext

(* However its two ends are moved, one byte at a time or over several, the *)
(* iterator has left what a slice would have, and its position never       *)
(* passes its length (serialized_signature.rs:216).                        *)
THEOREM IteratorAlwaysAgrees == CodingSpec => []IteratorAgrees
<1>1. CodingInit => (Kind("iter") => IterCodings)
    BY IterInit
<1>2. (Kind("iter") => IterCodings) /\ [CodingNext]_codingVars => (Kind("iter") => IterCodings)'
    BY IterKeeps
<1>3. (Kind("iter") => IterCodings) => IteratorAgrees
    BY ItersOnly DEF IterCodings, IterInv, IteratorAgrees, AsSlice
<1> QED BY <1>1, <1>2, <1>3, PTL DEF CodingSpec

----------------------------------------------------------------------------
(* A block takes a state to a state, which has a digest of its length.     *)
Compresses(States) ==
    /\ StartState \in States
    /\ \A s \in States, block \in Streams : Len(block) = BlockSize => Compress(s, block) \in States
    /\ \A s \in States : Digest(s) \in Streams /\ Len(Digest(s)) = DigestSize

LEMMA Divided ==
    ASSUME NEW n \in Nat, NEW b \in Nat \ {0}
    PROVE  /\ n \div b \in Nat /\ n % b \in 0 .. b - 1
           /\ n = (n \div b) * b + (n % b)
  OBVIOUS

LEMMA DividedOnce ==
    ASSUME NEW n \in Nat, NEW b \in Nat \ {0}, NEW q \in Nat, NEW r \in 0 .. b - 1, n = q * b + r
    PROVE  n \div b = q /\ n % b = r
<1>1. n \div b \in Nat /\ n % b \in 0 .. b - 1 /\ n = (n \div b) * b + (n % b)
    BY Divided
<1> DEFINE p == n \div b
           t == n % b
<1>2. p \in Nat /\ t \in 0 .. b - 1 /\ p * b + t = q * b + r
    BY <1>1
<1> HIDE DEF p, t
<1>3. (p - q) * b = r - t /\ r - t < b /\ t - r < b
    BY <1>2
<1>4. ~ (p - q >= 1)
    BY <1>2, <1>3
<1>5. ~ (q - p >= 1)
    BY <1>2, <1>3
<1>6. p = q
    BY <1>2, <1>4, <1>5
<1> QED BY <1>2, <1>6 DEF p, t

LEMMA Elements == ASSUME NEW S, NEW x \in Seq(S) PROVE Len(x) \in Nat /\ \A i \in 1 .. Len(x) : x[i] \in S
  OBVIOUS

LEMMA BytesTyped == ASSUME NEW x \in Streams PROVE Len(x) \in Nat /\ \A i \in 1 .. Len(x) : x[i] \in 0 .. 255
<1> DEFINE S == 0 .. 255
<1>1. x \in Seq(S)
    BY DEF Streams
<1> HIDE DEF S
<1>2. Len(x) \in Nat /\ \A i \in 1 .. Len(x) : x[i] \in S
    BY <1>1, Elements
<1> QED BY <1>2 DEF S

LEMMA Part ==
    ASSUME NEW x \in Streams, NEW a \in Nat, NEW b \in Nat, a <= b, b <= Len(x)
    PROVE  /\ SubSeq(x, a + 1, b) \in Streams /\ Len(SubSeq(x, a + 1, b)) = b - a
           /\ \A i \in 1 .. b - a : SubSeq(x, a + 1, b)[i] = x[a + i]
<1>1. \A i \in a + 1 .. b : x[i] \in 0 .. 255
  <2>1. Len(x) \in Nat /\ \A i \in 1 .. Len(x) : x[i] \in 0 .. 255
      BY BytesTyped
  <2>2. \A i \in a + 1 .. b : i \in 1 .. Len(x)
      BY <2>1
  <2> QED BY <2>1, <2>2
<1>2. a + 1 \in Int /\ b \in Int
    OBVIOUS
<1>3. /\ SubSeq(x, a + 1, b) \in Seq(0 .. 255)
      /\ Len(SubSeq(x, a + 1, b)) = IF a + 1 <= b THEN b - (a + 1) + 1 ELSE 0
      /\ \A i \in 1 .. b - (a + 1) + 1 : SubSeq(x, a + 1, b)[i] = x[a + 1 + i - 1]
    BY <1>1, <1>2, SubSeqProperties
<1> QED BY <1>3 DEF Streams

LEMMA Same ==
    ASSUME NEW x \in Streams, NEW y \in Streams, Len(x) = Len(y), \A i \in 1 .. Len(x) : x[i] = y[i]
    PROVE  x = y
  BY DEF Streams

LEMMA Joined ==
    ASSUME NEW x \in Streams, NEW y \in Streams
    PROVE  /\ x \o y \in Streams /\ Len(x \o y) = Len(x) + Len(y)
           /\ \A i \in 1 .. Len(x) : (x \o y)[i] = x[i]
           /\ \A i \in 1 .. Len(y) : (x \o y)[Len(x) + i] = y[i]
<1>1. /\ x \o y \in Seq(0 .. 255) /\ Len(x \o y) = Len(x) + Len(y)
      /\ \A i \in 1 .. Len(x) + Len(y) : (x \o y)[i] = IF i <= Len(x) THEN x[i] ELSE y[i - Len(x)]
    BY ConcatProperties DEF Streams
<1>2. Len(x) \in Nat /\ Len(y) \in Nat
    BY DEF Streams
<1> QED BY <1>1, <1>2 DEF Streams

LEMMA RestJoined ==
    ASSUME NEW x \in Streams, NEW y \in Streams, NEW a \in 0 .. Len(x)
    PROVE  SubSeq(x, a + 1, Len(x)) \o y = SubSeq(x \o y, a + 1, Len(x) + Len(y))
<1>1. Len(x) \in Nat /\ Len(y) \in Nat
    BY DEF Streams
<1> DEFINE r == SubSeq(x, a + 1, Len(x))
           z == SubSeq(x \o y, a + 1, Len(x) + Len(y))
<1>2. /\ r \in Streams /\ Len(r) = Len(x) - a
      /\ \A i \in 1 .. Len(x) - a : r[i] = x[a + i]
    BY <1>1, Part
<1>3. /\ x \o y \in Streams /\ Len(x \o y) = Len(x) + Len(y)
      /\ \A i \in 1 .. Len(x) : (x \o y)[i] = x[i]
      /\ \A i \in 1 .. Len(y) : (x \o y)[Len(x) + i] = y[i]
    BY Joined
<1>4. /\ z \in Streams /\ Len(z) = Len(x) + Len(y) - a
      /\ \A i \in 1 .. Len(x) + Len(y) - a : z[i] = (x \o y)[a + i]
  <2> DEFINE n == Len(x) + Len(y)
  <2>1. a \in Nat /\ n \in Nat /\ a <= n /\ x \o y \in Streams /\ n <= Len(x \o y)
      BY <1>1, <1>3
  <2> HIDE DEF n
  <2>2. /\ SubSeq(x \o y, a + 1, n) \in Streams /\ Len(SubSeq(x \o y, a + 1, n)) = n - a
        /\ \A i \in 1 .. n - a : SubSeq(x \o y, a + 1, n)[i] = (x \o y)[a + i]
      BY <2>1, Part
  <2>3. z = SubSeq(x \o y, a + 1, n) /\ Len(x) + Len(y) - a = n - a
      BY DEF n
  <2> HIDE DEF z
  <2> QED BY <2>2, <2>3
<1> HIDE DEF r, z
<1>5. /\ r \o y \in Streams /\ Len(r \o y) = Len(x) - a + Len(y)
      /\ \A i \in 1 .. Len(x) - a : (r \o y)[i] = r[i]
      /\ \A i \in 1 .. Len(y) : (r \o y)[Len(x) - a + i] = y[i]
  <2>1. /\ r \o y \in Streams /\ Len(r \o y) = Len(r) + Len(y)
        /\ \A i \in 1 .. Len(r) : (r \o y)[i] = r[i]
        /\ \A i \in 1 .. Len(y) : (r \o y)[Len(r) + i] = y[i]
      BY <1>2, Joined
  <2> QED BY <1>2, <2>1
<1>6. ASSUME NEW i \in 1 .. Len(r \o y) PROVE (r \o y)[i] = z[i]
  <2>1. CASE i <= Len(x) - a
    <3>1. i \in 1 .. Len(x) - a /\ a + i \in 1 .. Len(x) /\ i \in 1 .. Len(x) + Len(y) - a
        BY <1>1, <2>1
    <3> QED BY <1>2, <1>3, <1>4, <1>5, <3>1
  <2>2. CASE ~ (i <= Len(x) - a)
    <3> DEFINE j == i - (Len(x) - a)
    <3>1. j \in 1 .. Len(y) /\ i = Len(x) - a + j /\ a + i = Len(x) + j /\ i \in 1 .. Len(x) + Len(y) - a
        BY <1>1, <1>5, <2>2
    <3> HIDE DEF j
    <3>2. (r \o y)[i] = y[j]
        BY <1>5, <3>1
    <3>3. z[i] = (x \o y)[a + i] /\ (x \o y)[Len(x) + j] = y[j]
        BY <1>3, <1>4, <3>1
    <3> QED BY <3>1, <3>2, <3>3
  <2> QED BY <2>1, <2>2
<1>7. Len(r \o y) = Len(z)
    BY <1>1, <1>4, <1>5
<1>8. r \o y = z
    BY <1>4, <1>5, <1>6, <1>7, Same
<1> QED BY <1>8 DEF r, z

LEMMA PartOfRest ==
    ASSUME NEW x \in Streams, NEW a \in 0 .. Len(x), NEW i \in Nat, NEW j \in Nat, i <= j, j <= Len(x) - a
    PROVE  SubSeq(SubSeq(x, a + 1, Len(x)), i + 1, j) = SubSeq(x, a + i + 1, a + j)
<1>1. Len(x) \in Nat
    BY DEF Streams
<1> DEFINE r == SubSeq(x, a + 1, Len(x))
           u == SubSeq(r, i + 1, j)
           v == SubSeq(x, a + i + 1, a + j)
<1>2. /\ r \in Streams /\ Len(r) = Len(x) - a
      /\ \A k \in 1 .. Len(x) - a : r[k] = x[a + k]
    BY <1>1, Part
<1>3. /\ v \in Streams /\ Len(v) = j - i
      /\ \A k \in 1 .. j - i : v[k] = x[a + i + k]
  <2> DEFINE m == a + i
             n == a + j
  <2>1. m \in Nat /\ n \in Nat /\ m <= n /\ n <= Len(x) /\ n - m = j - i
      BY <1>1
  <2> HIDE DEF m, n
  <2>2. /\ SubSeq(x, m + 1, n) \in Streams /\ Len(SubSeq(x, m + 1, n)) = n - m
        /\ \A k \in 1 .. n - m : SubSeq(x, m + 1, n)[k] = x[m + k]
      BY <2>1, Part
  <2> QED BY <2>1, <2>2 DEF m, n
<1> HIDE DEF r, v
<1>4. /\ u \in Streams /\ Len(u) = j - i
      /\ \A k \in 1 .. j - i : u[k] = r[i + k]
    BY <1>2, Part
<1> HIDE DEF u
<1>5. ASSUME NEW k \in 1 .. j - i PROVE u[k] = v[k]
  <2>1. i + k \in 1 .. Len(x) - a /\ a + (i + k) = a + i + k
      BY <1>1
  <2> QED BY <1>2, <1>3, <1>4, <2>1
<1>6. u = v
    BY <1>3, <1>4, <1>5, Same
<1> QED BY <1>6 DEF u, v, r

----------------------------------------------------------------------------
(* The results of steps, one after the other; they are these and no other. *)
Iterates(f, d, g, n) == \A i \in 0 .. n : f[i] = IF i = 0 THEN d ELSE g[<< i, f[i - 1] >>]

LEMMA IteratesExist ==
    ASSUME NEW D, NEW d \in D, NEW n \in Nat, NEW g \in [(1 .. n) \X D -> D]
    PROVE  \E f \in [0 .. n -> D] : Iterates(f, d, g, n)
<1> DEFINE T == {m \in 0 .. n : \E f \in [0 .. m -> D] : Iterates(f, d, g, m)}
<1>1. 0 \in T
  <2> DEFINE f == [i \in 0 .. 0 |-> d]
  <2>1. f \in [0 .. 0 -> D] /\ Iterates(f, d, g, 0)
      BY DEF Iterates
  <2> QED BY <2>1
<1>2. ASSUME NEW m \in 1 .. n, m - 1 \in T PROVE m \in T
  <2>1. PICK f \in [0 .. m - 1 -> D] : Iterates(f, d, g, m - 1)
      BY <1>2
  <2> DEFINE h == [i \in 0 .. m |-> IF i = m THEN g[<< m, f[m - 1] >>] ELSE f[i]]
  <2>2. f[m - 1] \in D /\ \A i \in 0 .. m - 1 : f[i] \in D
      BY <2>1
  <2>3. g[<< m, f[m - 1] >>] \in D
      BY <2>2
  <2>4. h \in [0 .. m -> D]
      BY <2>2, <2>3
  <2>5. /\ \A i \in 0 .. m - 1 : h[i] = f[i]
        /\ h[m] = g[<< m, f[m - 1] >>]
      OBVIOUS
  <2> HIDE DEF h
  <2>6. ASSUME NEW i \in 0 .. m PROVE h[i] = IF i = 0 THEN d ELSE g[<< i, h[i - 1] >>]
    <3>1. CASE i = m
      <4>1. m # 0 /\ m - 1 \in 0 .. m - 1 /\ h[m - 1] = f[m - 1]
          BY <2>5
      <4> QED BY <2>5, <3>1, <4>1
    <3>2. CASE i # m
      <4>1. i \in 0 .. m - 1 /\ (i # 0 => i - 1 \in 0 .. m - 1)
          BY <3>2
      <4>2. f[i] = IF i = 0 THEN d ELSE g[<< i, f[i - 1] >>]
          BY <2>1, <4>1 DEF Iterates
      <4> QED BY <2>5, <4>1, <4>2
    <3> QED BY <3>1, <3>2
  <2>7. Iterates(h, d, g, m)
      BY <2>6 DEF Iterates
  <2> QED BY <2>4, <2>7
<1> HIDE DEF T
<1>3. n \in T
    BY <1>1, <1>2, UpTo
<1> QED BY <1>3 DEF T

(* A function that takes the same steps from the same start is the same.   *)
StepAlike(f, h, n) == /\ f[0] = h[0]
                      /\ \A i \in 1 .. n : f[i - 1] = h[i - 1] => f[i] = h[i]

LEMMA SameSteps ==
    ASSUME NEW n \in Nat, NEW f, NEW h, StepAlike(f, h, n)
    PROVE  \A i \in 0 .. n : f[i] = h[i]
<1> DEFINE T == {i \in 0 .. n : f[i] = h[i]}
<1>1. 0 \in T
    BY DEF StepAlike
<1>2. \A i \in 1 .. n : i - 1 \in T => i \in T
    BY DEF StepAlike
<1> HIDE DEF T
<1>3. \A i \in 0 .. n : i \in T
    BY <1>1, <1>2, UpTo
<1> QED BY <1>3 DEF T

LEMMA SameAt == ASSUME NEW n \in Nat, NEW f, NEW h, StepAlike(f, h, n) PROVE f[n] = h[n]
<1>1. \A i \in 0 .. n : f[i] = h[i]
    BY SameSteps
<1> QED BY <1>1

----------------------------------------------------------------------------
(* Blocks of a stream.                                                     *)
Block(stream, i) == SubSeq(stream, (i - 1) * BlockSize + 1, i * BlockSize)

HasBlocks(x, n) == n * BlockSize <= Len(x)

LEMMA SizesTyped == ASSUME NEW States, Compresses(States)
    PROVE /\ BlockSize \in Nat \ {0} /\ DigestSize \in Nat \ {0} /\ SizeBytes \in Nat
          /\ DigestSize <= BlockSize /\ SizeBytes < BlockSize
          /\ StartState \in States
  BY HashSizesAssumption DEF Compresses

LEMMA BlockFacts ==
    ASSUME NEW States, Compresses(States), NEW x \in Streams, NEW n \in Nat, HasBlocks(x, n),
           NEW i \in 1 .. n
    PROVE  /\ Block(x, i) \in Streams /\ Len(Block(x, i)) = BlockSize
           /\ \A k \in 1 .. BlockSize : Block(x, i)[k] = x[(i - 1) * BlockSize + k]
           /\ \A s \in States : Compress(s, Block(x, i)) \in States
<1>1. BlockSize \in Nat \ {0}
    BY SizesTyped
<1> DEFINE a == (i - 1) * BlockSize
           b == i * BlockSize
<1>2. a \in Nat /\ b \in Nat /\ b - a = BlockSize
    BY <1>1
<1>3. n - i \in Nat /\ n * BlockSize = b + (n - i) * BlockSize /\ (n - i) * BlockSize \in Nat
    BY <1>1
<1>4. a <= b /\ b <= Len(x)
  <2>1. Len(x) \in Nat
      BY BytesTyped
  <2> QED BY <1>1, <1>2, <1>3, <2>1 DEF HasBlocks
<1> HIDE DEF a, b
<1>5. /\ SubSeq(x, a + 1, b) \in Streams /\ Len(SubSeq(x, a + 1, b)) = b - a
      /\ \A k \in 1 .. b - a : SubSeq(x, a + 1, b)[k] = x[a + k]
    BY <1>2, <1>4, Part
<1>6. Block(x, i) = SubSeq(x, a + 1, b)
    BY DEF Block, a, b
<1>7. /\ Block(x, i) \in Streams /\ Len(Block(x, i)) = BlockSize
      /\ \A k \in 1 .. BlockSize : Block(x, i)[k] = x[a + k]
    BY <1>2, <1>5, <1>6
<1>8. \A s \in States : Compress(s, Block(x, i)) \in States
    BY <1>7 DEF Compresses
<1> QED BY <1>7, <1>8 DEF a

(* The states after blocks.                                                *)
StatesOf(f, s, x, n) == /\ f[0] = s
                        /\ \A i \in 1 .. n : f[i] = Compress(f[i - 1], Block(x, i))

LEMMA AfterIs ==
    ASSUME NEW States, Compresses(States), NEW s \in States,
           NEW x \in Streams, NEW n \in Nat, HasBlocks(x, n)
    PROVE  \E f \in [0 .. n -> States] : StatesOf(f, s, x, n) /\ After(s, x, n) = f[n]
<1> DEFINE g == [p \in (1 .. n) \X States |-> Compress(p[2], Block(x, p[1]))]
<1>1. g \in [(1 .. n) \X States -> States]
    BY BlockFacts
<1>2. \A i \in 1 .. n, st \in States : g[<< i, st >>] = Compress(st, Block(x, i))
    OBVIOUS
<1> HIDE DEF g
<1>3. PICK h \in [0 .. n -> States] : Iterates(h, s, g, n)
    BY <1>1, IteratesExist
<1> DEFINE Steps(f) == f = [i \in 0 .. n |-> IF i = 0 THEN s ELSE Compress(f[i - 1], Block(x, i))]
           after == CHOOSE f : Steps(f)
<1>4. ASSUME NEW i \in 0 .. n PROVE h[i] = IF i = 0 THEN s ELSE Compress(h[i - 1], Block(x, i))
  <2>1. h[i] = IF i = 0 THEN s ELSE g[<< i, h[i - 1] >>]
      BY <1>3 DEF Iterates
  <2>2. i # 0 => i \in 1 .. n /\ h[i - 1] \in States
      BY <1>3
  <2> QED BY <1>2, <2>1, <2>2
<1>5. Steps(h)
    BY <1>3, <1>4
<1>6. Steps(after)
    BY <1>5
<1>7. After(s, x, n) = after[n]
    BY DEF After, Block
<1> HIDE DEF after
<1>8. \A i \in 0 .. n : after[i] = IF i = 0 THEN s ELSE Compress(after[i - 1], Block(x, i))
    BY <1>6
<1>9. StatesOf(after, s, x, n)
    BY <1>8 DEF StatesOf
<1>10. \A i \in 0 .. n : after[i] = h[i]
  <2>1. after[0] = h[0]
      BY <1>4, <1>8
  <2>2. \A i \in 1 .. n : after[i - 1] = h[i - 1] => after[i] = h[i]
      BY <1>4, <1>8
  <2>3. StepAlike(after, h, n)
      BY <2>1, <2>2 DEF StepAlike
  <2> QED BY <2>3, SameSteps
<1>11. after = h
    BY <1>3, <1>6, <1>10
<1> QED BY <1>3, <1>7, <1>9, <1>11

IsSum(m, q, n) == m = q + n
GoesOn(y, x, q, n) == \A i \in 1 .. n : Block(y, i) = Block(x, q + i)

(* After more blocks, of a stream that goes on from a part that is hashed  *)
(* already, the state is that after all of them.                           *)
LEMMA AfterGoesOn ==
    ASSUME NEW States, Compresses(States), NEW s \in States, NEW x \in Streams, NEW y \in Streams,
           NEW q \in Nat, NEW n \in Nat, NEW m \in Nat, IsSum(m, q, n), HasBlocks(x, m), HasBlocks(y, n),
           GoesOn(y, x, q, n)
    PROVE  After(After(s, x, q), y, n) = After(s, x, m)
<1>1. BlockSize \in Nat \ {0} /\ m \in Nat
    BY SizesTyped DEF IsSum
<1>2. HasBlocks(x, q)
  <2>1. m * BlockSize = q * BlockSize + n * BlockSize /\ n * BlockSize \in Nat /\ Len(x) \in Nat
      BY <1>1, BytesTyped DEF IsSum
  <2> QED BY <1>1, <2>1 DEF HasBlocks
<1>3. PICK f \in [0 .. m -> States] : StatesOf(f, s, x, m) /\ After(s, x, m) = f[m]
    BY <1>1, AfterIs
<1>4. PICK h \in [0 .. q -> States] : StatesOf(h, s, x, q) /\ After(s, x, q) = h[q]
    BY <1>2, AfterIs
<1>5. \A i \in 0 .. q : h[i] = f[i]
  <2>1. h[0] = f[0]
      BY <1>3, <1>4 DEF StatesOf
  <2>2. \A i \in 1 .. q : h[i - 1] = f[i - 1] => h[i] = f[i]
    <3>1. \A i \in 1 .. q : i \in 1 .. m
        BY DEF IsSum
    <3> QED BY <1>3, <1>4, <3>1 DEF StatesOf
  <2>3. StepAlike(h, f, q)
      BY <2>1, <2>2 DEF StepAlike
  <2> QED BY <2>3, SameSteps
<1>6. h[q] = f[q] /\ f[q] \in States
    BY <1>3, <1>5
<1>7. PICK e \in [0 .. n -> States] : StatesOf(e, f[q], y, n) /\ After(f[q], y, n) = e[n]
  <2> DEFINE st == f[q]
  <2>1. st \in States
      BY <1>6
  <2> HIDE DEF st
  <2>2. \E e \in [0 .. n -> States] : StatesOf(e, st, y, n) /\ After(st, y, n) = e[n]
      BY <2>1, AfterIs
  <2> QED BY <2>2 DEF st
<1> DEFINE t == [i \in 0 .. n |-> f[q + i]]
<1>8. \A i \in 0 .. n : t[i] = f[q + i]
    OBVIOUS
<1> HIDE DEF t
<1>9. \A i \in 0 .. n : e[i] = t[i]
  <2>1. e[0] = t[0]
      BY <1>7, <1>8 DEF StatesOf
  <2>2. ASSUME NEW i \in 1 .. n, e[i - 1] = t[i - 1] PROVE e[i] = t[i]
    <3>1. e[i] = Compress(e[i - 1], Block(y, i))
        BY <1>7 DEF StatesOf
    <3>2. i - 1 \in 0 .. n /\ i \in 0 .. n /\ q + i \in 1 .. m /\ q + (i - 1) = (q + i) - 1
        BY DEF IsSum
    <3>3. f[q + i] = Compress(f[(q + i) - 1], Block(x, q + i))
        BY <1>3, <3>2 DEF StatesOf
    <3>4. Block(y, i) = Block(x, q + i)
        BY DEF GoesOn
    <3> QED BY <1>8, <2>2, <3>1, <3>2, <3>3, <3>4
  <2>3. StepAlike(e, t, n)
      BY <2>1, <2>2 DEF StepAlike
  <2> QED BY <2>3, SameSteps
<1>10. n \in 0 .. n /\ m = q + n
    BY DEF IsSum
<1> QED BY <1>3, <1>4, <1>6, <1>7, <1>8, <1>9, <1>10

(* The state after blocks depends on these blocks.                         *)
LEMMA AfterSame ==
    ASSUME NEW States, Compresses(States), NEW s \in States, NEW x \in Streams, NEW y \in Streams,
           NEW n \in Nat, HasBlocks(x, n), HasBlocks(y, n),
           \A i \in 1 .. n : Block(y, i) = Block(x, i)
    PROVE  After(s, x, n) = After(s, y, n)
<1>1. PICK f \in [0 .. n -> States] : StatesOf(f, s, x, n) /\ After(s, x, n) = f[n]
    BY AfterIs
<1>2. PICK h \in [0 .. n -> States] : StatesOf(h, s, y, n) /\ After(s, y, n) = h[n]
    BY AfterIs
<1>3. \A i \in 0 .. n : f[i] = h[i]
  <2>1. f[0] = h[0]
      BY <1>1, <1>2 DEF StatesOf
  <2>2. \A i \in 1 .. n : f[i - 1] = h[i - 1] => f[i] = h[i]
      BY <1>1, <1>2 DEF StatesOf
  <2>3. StepAlike(f, h, n)
      BY <2>1, <2>2 DEF StepAlike
  <2> QED BY <2>3, SameSteps
<1> QED BY <1>1, <1>2, <1>3

LEMMA AfterTyped ==
    ASSUME NEW States, Compresses(States), NEW s \in States, NEW x \in Streams,
           NEW n \in Nat, HasBlocks(x, n)
    PROVE  After(s, x, n) \in States
<1>1. PICK f \in [0 .. n -> States] : After(s, x, n) = f[n]
    BY AfterIs
<1> QED BY <1>1

----------------------------------------------------------------------------
(* A hash object that took the stream t.                                   *)
Takes(States, h, t) ==
    /\ h \in [s : States, buf : Streams, bytes : Nat]
    /\ h.s = After(StartState, t, Len(t) \div BlockSize)
    /\ h.buf = SubSeq(t, (Len(t) \div BlockSize) * BlockSize + 1, Len(t))
    /\ h.bytes = Len(t)

Wrote(w, h, u, v, k) == w = [[h EXCEPT !.s = u, !.buf = v] EXCEPT !.bytes = @ + k]

LEMMA NewHash ==
    ASSUME NEW X, NEW Y, NEW h \in [s : X, buf : Y, bytes : Nat], NEW u \in X, NEW v \in Y, NEW k \in Nat,
           NEW w, Wrote(w, h, u, v, k)
    PROVE  w \in [s : X, buf : Y, bytes : Nat] /\ w.s = u /\ w.buf = v /\ w.bytes = h.bytes + k
<1> DEFINE e == [h EXCEPT !.s = u, !.buf = v]
<1>1. e \in [s : X, buf : Y, bytes : Nat] /\ e.s = u /\ e.buf = v /\ e.bytes = h.bytes
    OBVIOUS
<1>2. w = [e EXCEPT !.bytes = e.bytes + k]
    BY DEF Wrote
<1> HIDE DEF e
<1>3. w \in [s : X, buf : Y, bytes : Nat] /\ w.s = e.s /\ w.buf = e.buf /\ w.bytes = e.bytes + k
    BY <1>1, <1>2
<1> QED BY <1>1, <1>3

LEMMA EmptyStream == << >> \in Streams /\ Len(<< >>) = 0 /\ \A x \in Streams : << >> \o x = x /\ x \o << >> = x
  BY DEF Streams

LEMMA InitializeTakes == ASSUME NEW States, Compresses(States) PROVE Takes(States, Initialize, << >>)
<1>1. BlockSize \in Nat \ {0} /\ StartState \in States
    BY SizesTyped
<1>2. 0 \div BlockSize = 0 /\ 0 * BlockSize = 0
    BY <1>1, DividedOnce
<1>3. After(StartState, << >>, 0) = StartState
  <2> DEFINE x == << >>
             n == 0
  <2>1. x \in Streams /\ n \in Nat /\ HasBlocks(x, n)
      BY <1>2, EmptyStream DEF HasBlocks
  <2> HIDE DEF x, n
  <2>2. PICK f \in [0 .. n -> States] : StatesOf(f, StartState, x, n) /\ After(StartState, x, n) = f[n]
      BY <1>1, <2>1, AfterIs
  <2> QED BY <2>2 DEF StatesOf, x, n
<1>4. SubSeq(<< >>, 1, 0) = << >>
    BY SubSeqEmpty
<1>5. Initialize \in [s : States, buf : Streams, bytes : Nat]
    BY <1>1, EmptyStream DEF Initialize
<1> QED BY <1>2, <1>3, <1>4, <1>5, EmptyStream DEF Takes, Initialize

(* To write is to append to the stream.                                    *)
LEMMA WriteTakes ==
    ASSUME NEW States, Compresses(States), NEW h, NEW t \in Streams, Takes(States, h, t), NEW d \in Streams
    PROVE  Takes(States, Write(h, d), t \o d)
<1> DEFINE u == t \o d
           q == Len(t) \div BlockSize
           a == q * BlockSize
           y == SubSeq(t, a + 1, Len(t)) \o d
           n == (Len(h.buf) + Len(d)) \div BlockSize
<1>1. BlockSize \in Nat \ {0} /\ StartState \in States
    BY SizesTyped
<1>2. Len(t) \in Nat /\ Len(d) \in Nat
    BY BytesTyped
<1>3. q \in Nat /\ a \in 0 .. Len(t) /\ Len(t) - a < BlockSize
  <2>1. q \in Nat /\ Len(t) % BlockSize \in 0 .. BlockSize - 1 /\ Len(t) = q * BlockSize + (Len(t) % BlockSize)
      BY <1>1, <1>2, Divided
  <2>2. a \in Nat
      BY <1>1, <2>1
  <2> QED BY <1>1, <1>2, <2>1, <2>2
<1>4. h.s = After(StartState, t, q) /\ h.buf = SubSeq(t, a + 1, Len(t)) /\ h.bytes = Len(t)
    BY DEF Takes
<1>5. h \in [s : States, buf : Streams, bytes : Nat]
    BY DEF Takes
<1> HIDE DEF q, a
<1>6. Len(h.buf) = Len(t) - a
    BY <1>2, <1>3, <1>4, Part
<1>7. u \in Streams /\ Len(u) = Len(t) + Len(d)
    BY Joined
<1> HIDE DEF u
<1>8. y = SubSeq(u, a + 1, Len(u))
    BY <1>3, <1>7, RestJoined, ZenonT(40) DEF u
<1> HIDE DEF y
<1>9. a \in 0 .. Len(u) /\ Len(u) \in Nat
    BY <1>2, <1>3, <1>7
<1>10. y \in Streams /\ Len(y) = Len(u) - a
    BY <1>8, <1>9, <1>7, Part
<1>11. n \in Nat /\ n * BlockSize <= Len(y) /\ Len(y) < n * BlockSize + BlockSize
  <2> DEFINE l == Len(h.buf) + Len(d)
  <2>1. l \in Nat /\ l = Len(y)
      BY <1>2, <1>3, <1>6, <1>7, <1>10
  <2> HIDE DEF l
  <2>2. l \div BlockSize \in Nat /\ l % BlockSize \in 0 .. BlockSize - 1
        /\ l = (l \div BlockSize) * BlockSize + (l % BlockSize)
      BY <1>1, <2>1, Divided
  <2>3. n = l \div BlockSize
      BY DEF l
  <2> HIDE DEF n
  <2> QED BY <1>1, <2>1, <2>2, <2>3
<1> HIDE DEF n
<1> DEFINE b == n * BlockSize
<1>12. b \in Nat /\ (q + n) * BlockSize = a + b /\ b <= Len(y)
    BY <1>1, <1>3, <1>11 DEF a
<1>13. Len(u) \div BlockSize = q + n
  <2> DEFINE m == q + n
             r == Len(u) - m * BlockSize
  <2>1. m \in Nat /\ r \in 0 .. BlockSize - 1 /\ Len(u) = m * BlockSize + r
      BY <1>1, <1>3, <1>9, <1>10, <1>11, <1>12
  <2> HIDE DEF m, r
  <2>2. Len(u) \div BlockSize = m
      BY <1>1, <1>9, <2>1, DividedOnce
  <2> QED BY <2>2 DEF m
<1>14. \A i \in 1 .. n : Block(y, i) = Block(u, q + i)
  <2> SUFFICES ASSUME NEW i \in 1 .. n PROVE Block(y, i) = Block(u, q + i)
      OBVIOUS
  <2> DEFINE k == (i - 1) * BlockSize
             m == i * BlockSize
  <2>1. k \in Nat /\ m \in Nat /\ m = k + BlockSize /\ ((q + i) - 1) * BlockSize = a + k /\ (q + i) * BlockSize = a + m
      BY <1>1, <1>3, <1>11 DEF a
  <2>2. n - i \in Nat /\ b = m + (n - i) * BlockSize /\ (n - i) * BlockSize \in Nat
      BY <1>1, <1>11
  <2>3. Block(y, i) = SubSeq(y, k + 1, m) /\ Block(u, q + i) = SubSeq(u, a + k + 1, a + m)
      BY <2>1 DEF Block
  <2> HIDE DEF k, m, b
  <2>4. k <= m /\ m <= Len(u) - a
      BY <1>1, <1>10, <1>12, <2>1, <2>2
  <2>5. SubSeq(SubSeq(u, a + 1, Len(u)), k + 1, m) = SubSeq(u, a + k + 1, a + m)
      BY <1>7, <1>9, <2>1, <2>4, PartOfRest
  <2> QED BY <1>8, <2>3, <2>5
<1>15. After(StartState, t, q) = After(StartState, u, q)
  <2>1. HasBlocks(t, q) /\ HasBlocks(u, q)
      BY <1>3, <1>9 DEF a, HasBlocks
  <2>2. ASSUME NEW i \in 1 .. q PROVE Block(u, i) = Block(t, i)
    <3>1. /\ Block(t, i) \in Streams /\ Len(Block(t, i)) = BlockSize
          /\ \A k \in 1 .. BlockSize : Block(t, i)[k] = t[(i - 1) * BlockSize + k]
        BY <1>3, <2>1, BlockFacts
    <3>2. /\ Block(u, i) \in Streams /\ Len(Block(u, i)) = BlockSize
          /\ \A k \in 1 .. BlockSize : Block(u, i)[k] = u[(i - 1) * BlockSize + k]
      <4>1. u \in Streams /\ q \in Nat /\ HasBlocks(u, q)
          BY <1>3, <1>7, <2>1
      <4> QED BY <4>1, BlockFacts
    <3>3. ASSUME NEW k \in 1 .. BlockSize PROVE Block(u, i)[k] = Block(t, i)[k]
      <4> DEFINE j == (i - 1) * BlockSize + k
      <4>1. (i - 1) * BlockSize \in Nat /\ (q - i) * BlockSize \in Nat
            /\ q * BlockSize = (i - 1) * BlockSize + BlockSize + (q - i) * BlockSize
          BY <1>1, <1>3
      <4>2. j \in 1 .. Len(t)
          BY <1>1, <1>2, <2>1, <4>1 DEF HasBlocks
      <4>3. u[j] = t[j]
          BY <4>2, Joined DEF u
      <4> QED BY <3>1, <3>2, <4>3
    <3> QED BY <3>1, <3>2, <3>3, Same
  <2> QED BY <1>1, <1>3, <1>7, <2>1, <2>2, AfterSame
<1>16. After(h.s, y, n) = After(StartState, u, q + n)
  <2> DEFINE m == q + n
  <2>1. HasBlocks(u, m) /\ HasBlocks(y, n) /\ IsSum(m, q, n)
      BY <1>9, <1>10, <1>12 DEF IsSum, HasBlocks
  <2>2. GoesOn(y, u, q, n)
      BY <1>14 DEF GoesOn
  <2> HIDE DEF m
  <2>3. After(After(StartState, u, q), y, n) = After(StartState, u, m)
    <3>1. StartState \in States /\ u \in Streams /\ y \in Streams /\ q \in Nat /\ n \in Nat
        BY <1>1, <1>3, <1>7, <1>10, <1>11
    <3>2. q + n \in Nat
        BY <3>1
    <3>3. m \in Nat
        BY <3>2 DEF m
    <3> QED BY <2>1, <2>2, <3>1, <3>3, AfterGoesOn
  <2> QED BY <1>4, <1>15, <2>3 DEF m
<1>17. SubSeq(y, b + 1, Len(y)) = SubSeq(u, a + b + 1, Len(u))
  <2>1. Len(y) \in Nat /\ b <= Len(y) /\ Len(y) <= Len(u) - a /\ a + Len(y) = Len(u)
      BY <1>9, <1>10, <1>12
  <2> HIDE DEF b
  <2>2. SubSeq(SubSeq(u, a + 1, Len(u)), b + 1, Len(y)) = SubSeq(u, a + b + 1, a + Len(y))
      BY <1>7, <1>9, <1>12, <2>1, PartOfRest
  <2> QED BY <1>8, <2>1, <2>2
<1>18. Write(h, d) = [[h EXCEPT !.s = After(h.s, y, n), !.buf = SubSeq(y, b + 1, Len(y))] EXCEPT !.bytes = @ + Len(d)]
  <2>1. h.buf \o d = y
      BY <1>4 DEF y
  <2> QED BY <2>1 DEF Write, Process, n, b
<1>19. After(StartState, u, q + n) \in States
  <2> DEFINE m == q + n
  <2>1. m \in Nat /\ HasBlocks(u, m)
      BY <1>3, <1>9, <1>10, <1>11, <1>12 DEF HasBlocks
  <2> HIDE DEF m
  <2>2. After(StartState, u, m) \in States
      BY <1>1, <1>7, <2>1, AfterTyped
  <2> QED BY <2>2 DEF m
<1>20. SubSeq(u, a + b + 1, Len(u)) \in Streams
  <2> DEFINE m == a + b
  <2>1. m \in Nat /\ m <= Len(u)
      BY <1>9, <1>10, <1>12
  <2> HIDE DEF m
  <2>2. SubSeq(u, m + 1, Len(u)) \in Streams
      BY <1>7, <1>9, <2>1, Part
  <2> QED BY <2>2 DEF m
<1> DEFINE w == Write(h, d)
<1>21. /\ w.s = After(StartState, u, q + n) /\ w.buf = SubSeq(u, a + b + 1, Len(u)) /\ w.bytes = Len(u)
       /\ w \in [s : States, buf : Streams, bytes : Nat]
  <2> DEFINE st == After(StartState, u, q + n)
             bf == SubSeq(u, a + b + 1, Len(u))
             k == Len(d)
  <2>1. Wrote(w, h, st, bf, k)
      BY <1>16, <1>17, <1>18 DEF Wrote
  <2>2. st \in States /\ bf \in Streams /\ k \in Nat
      BY <1>2, <1>19, <1>20
  <2> HIDE DEF w, st, bf, k
  <2>3. w.s = st /\ w.buf = bf /\ w.bytes = h.bytes + k /\ w \in [s : States, buf : Streams, bytes : Nat]
      BY <1>5, <2>1, <2>2, NewHash
  <2> QED BY <1>4, <1>7, <2>3 DEF st, bf, k
<1> HIDE DEF w, b
<1>22. Takes(States, w, u)
    BY <1>12, <1>13, <1>21 DEF Takes
<1> QED BY <1>22 DEF w, u

----------------------------------------------------------------------------
(* The bytes of the length.                                                *)
LEMMA DividedTwice ==
    ASSUME NEW n \in Nat, NEW w \in Nat \ {0}, NEW u, u = 256 * w
    PROVE  (n \div w) \div 256 = n \div u
<1> DEFINE q == n \div w
           r == n % w
           a == q \div 256
           b == q % 256
<1>1. q \in Nat /\ r \in 0 .. w - 1 /\ n = q * w + r
    BY Divided
<1> HIDE DEF q, r
<1>2. a \in Nat /\ b \in 0 .. 255 /\ q = a * 256 + b
    BY <1>1, Divided
<1> HIDE DEF a, b
<1> DEFINE v == 256 * w
           t == b * w + r
<1>3. v \in Nat \ {0} /\ t \in 0 .. v - 1
  <2>1. (255 - b) * w \in Nat /\ b * w \in Nat /\ (255 - b) * w + b * w = 255 * w
      BY <1>2
  <2> QED BY <1>1, <2>1
<1>4. n = a * v + t
    BY <1>1, <1>2
<1> HIDE DEF v, t
<1>5. n \div v = a
    BY <1>2, <1>3, <1>4, DividedOnce
<1>6. u = v
    BY DEF v
<1> QED BY <1>5, <1>6 DEF a, q

LEMMA WeightIs ==
    ASSUME NEW j \in Nat
    PROVE  \E f \in [0 .. j -> Nat \ {0}] : /\ f[0] = 1 /\ \A i \in 1 .. j : f[i] = 256 * f[i - 1]
                                            /\ Weight(j) = f[j]
<1> DEFINE D == Nat \ {0}
           g == [p \in (1 .. j) \X D |-> 256 * p[2]]
<1>1. g \in [(1 .. j) \X D -> D] /\ 1 \in D
    OBVIOUS
<1>2. \A i \in 1 .. j, x \in D : g[<< i, x >>] = 256 * x
    OBVIOUS
<1> HIDE DEF g, D
<1>3. PICK h \in [0 .. j -> D] : Iterates(h, 1, g, j)
    BY <1>1, IteratesExist
<1> DEFINE Steps(f) == f = [i \in 0 .. j |-> IF i = 0 THEN 1 ELSE 256 * f[i - 1]]
           weight == CHOOSE f : Steps(f)
<1>4. ASSUME NEW i \in 0 .. j PROVE h[i] = IF i = 0 THEN 1 ELSE 256 * h[i - 1]
  <2>1. h[i] = IF i = 0 THEN 1 ELSE g[<< i, h[i - 1] >>]
      BY <1>3 DEF Iterates
  <2>2. i # 0 => i \in 1 .. j /\ h[i - 1] \in D
      BY <1>3
  <2> QED BY <1>2, <2>1, <2>2
<1>5. Steps(h)
    BY <1>3, <1>4
<1>6. Steps(weight)
    BY <1>5, ZenonT(40)
<1>7. Weight(j) = weight[j]
    BY DEF Weight
<1> HIDE DEF weight
<1>8. \A i \in 0 .. j : weight[i] = IF i = 0 THEN 1 ELSE 256 * weight[i - 1]
    BY <1>6
<1>9. \A i \in 0 .. j : weight[i] = h[i]
  <2>1. \A i \in 1 .. j : weight[i] = 256 * weight[i - 1] /\ h[i] = 256 * h[i - 1]
      BY <1>4, <1>8
  <2>2. weight[0] = h[0]
      BY <1>4, <1>8
  <2>3. StepAlike(weight, h, j)
      BY <2>1, <2>2 DEF StepAlike
  <2> QED BY <2>3, SameSteps
<1>10. weight = h
    BY <1>3, <1>6, <1>9
<1>11. h \in [0 .. j -> Nat \ {0}]
    BY <1>3 DEF D
<1>12. h[0] = 1 /\ \A i \in 1 .. j : h[i] = 256 * h[i - 1]
    BY <1>4
<1> QED BY <1>7, <1>10, <1>11, <1>12

LEMMA WeightFacts == ASSUME NEW j \in Nat
    PROVE Weight(j) \in Nat \ {0} /\ Weight(0) = 1 /\ Weight(j + 1) = 256 * Weight(j)
<1>1. PICK f \in [0 .. j -> Nat \ {0}] : /\ f[0] = 1 /\ \A i \in 1 .. j : f[i] = 256 * f[i - 1]
                                         /\ Weight(j) = f[j]
    BY WeightIs
<1> DEFINE m == j + 1
<1>2. m \in Nat /\ m \in 1 .. m /\ m - 1 = j /\ \A i \in 1 .. j : i \in 1 .. m
    OBVIOUS
<1> HIDE DEF m
<1>3. PICK e \in [0 .. m -> Nat \ {0}] : /\ e[0] = 1 /\ \A i \in 1 .. m : e[i] = 256 * e[i - 1]
                                         /\ Weight(m) = e[m]
    BY <1>2, WeightIs
<1>4. e[j] = f[j]
  <2>1. StepAlike(e, f, j)
      BY <1>1, <1>2, <1>3 DEF StepAlike
  <2> QED BY <2>1, SameAt
<1>6. e[j] = f[j] /\ e[m] = 256 * e[j]
    BY <1>2, <1>3, <1>4
<1>5. Weight(0) = 1
  <2>1. \E w \in [0 .. 0 -> Nat \ {0}] : w[0] = 1 /\ Weight(0) = w[0]
      BY WeightIs
  <2> QED BY <2>1
<1>7. Weight(m) = 256 * Weight(j)
    BY <1>1, <1>3, <1>6
<1> QED BY <1>1, <1>5, <1>7 DEF m

LEMMA SizeDescIs ==
    ASSUME NEW States, Compresses(States), NEW n \in Nat
    PROVE  SizeDesc(n) = BigEndian(8 * n) /\ SizeDesc(n) \in Streams /\ Len(SizeDesc(n)) = SizeBytes
<1>1. SizeBytes \in Nat
    BY SizesTyped
<1> DEFINE Steps(f) == f = [i \in 0 .. SizeBytes |-> IF i = 0 THEN 8 * n ELSE f[i - 1] \div 256]
           rest == CHOOSE f : Steps(f)
           h == [i \in 0 .. SizeBytes |-> (8 * n) \div Weight(i)]
<1>2. ASSUME NEW i \in 0 .. SizeBytes PROVE h[i] = IF i = 0 THEN 8 * n ELSE h[i - 1] \div 256
  <2>1. CASE i = 0
    <3>1. (8 * n) \div 1 = 8 * n
        OBVIOUS
    <3> QED BY <1>1, <2>1, <3>1, WeightFacts
  <2>2. CASE i # 0
    <3> DEFINE j == i - 1
    <3>1. j \in Nat /\ j + 1 = i /\ j \in 0 .. SizeBytes
        BY <1>1, <2>2
    <3> HIDE DEF j
    <3>2. Weight(j) \in Nat \ {0} /\ Weight(j + 1) = 256 * Weight(j)
        BY <3>1, WeightFacts
    <3>3. ((8 * n) \div Weight(j)) \div 256 = (8 * n) \div Weight(j + 1)
      <4> DEFINE m == 8 * n
      <4>1. m \in Nat
          OBVIOUS
      <4> HIDE DEF m
      <4>2. (m \div Weight(j)) \div 256 = m \div Weight(j + 1)
          BY <3>2, <4>1, DividedTwice
      <4> QED BY <4>2 DEF m
    <3>4. h[i] = (8 * n) \div Weight(j + 1) /\ h[j] = (8 * n) \div Weight(j)
        BY <3>1
    <3> HIDE DEF h
    <3>5. h[i] = h[j] \div 256
        BY <3>3, <3>4
    <3> QED BY <2>2, <3>5 DEF j
  <2> QED BY <2>1, <2>2
<1>3. Steps(h)
    BY <1>2
<1>4. Steps(rest)
    BY <1>3
<1>5. SizeDesc(n) = [i \in 1 .. SizeBytes |-> rest[SizeBytes - i] % 256]
    BY DEF SizeDesc
<1> HIDE DEF rest
<1>6. \A i \in 0 .. SizeBytes : rest[i] = h[i]
  <2>1. \A i \in 0 .. SizeBytes : rest[i] = IF i = 0 THEN 8 * n ELSE rest[i - 1] \div 256
      BY <1>4
  <2> HIDE DEF h
  <2>2. StepAlike(rest, h, SizeBytes)
      BY <1>1, <1>2, <2>1 DEF StepAlike
  <2> QED BY <1>1, <2>2, SameSteps
<1>7. \A i \in 1 .. SizeBytes : rest[SizeBytes - i] = (8 * n) \div Weight(SizeBytes - i)
  <2>1. \A i \in 0 .. SizeBytes : rest[i] = (8 * n) \div Weight(i)
      BY <1>6
  <2> QED BY <1>1, <2>1
<1>8. SizeDesc(n) = BigEndian(8 * n)
    BY <1>5, <1>7 DEF BigEndian
<1>9. \A i \in 1 .. SizeBytes : ((8 * n) \div Weight(SizeBytes - i)) % 256 \in 0 .. 255
  <2> SUFFICES ASSUME NEW i \in 1 .. SizeBytes PROVE ((8 * n) \div Weight(SizeBytes - i)) % 256 \in 0 .. 255
      OBVIOUS
  <2> DEFINE m == 8 * n
             j == SizeBytes - i
             w == Weight(j)
  <2>1. m \in Nat /\ j \in Nat
      BY <1>1
  <2> HIDE DEF m, j
  <2>2. w \in Nat \ {0}
      BY <2>1, WeightFacts
  <2> HIDE DEF w
  <2>3. m \div w \in Nat
      BY <2>1, <2>2, Divided
  <2>4. (m \div w) % 256 \in 0 .. 255
      BY <2>3
  <2> QED BY <2>4 DEF m, j, w
<1>10. SizeDesc(n) \in [1 .. SizeBytes -> 0 .. 255]
    BY <1>8, <1>9, ZenonT(40) DEF BigEndian
<1>11. SizeDesc(n) \in Streams /\ Len(SizeDesc(n)) = SizeBytes
    BY <1>1, <1>10 DEF Streams
<1> QED BY <1>8, <1>11

----------------------------------------------------------------------------
(* The padding fills the last block.                                       *)
LEMMA PadFills ==
    ASSUME NEW States, Compresses(States), NEW l \in Nat
    PROVE  /\ PadLength(l) - 1 \in 0 .. BlockSize - 1
           /\ PadLength(l) - 1 = CHOOSE k \in 0 .. BlockSize - 1 : (l + 1 + k + SizeBytes) % BlockSize = 0
<1> DEFINE q == l \div BlockSize
           r == l % BlockSize
           m == 2 * BlockSize - SizeBytes - 1 - r
           p == m \div BlockSize
           z == m % BlockSize
           Fills(k) == (l + 1 + k + SizeBytes) % BlockSize = 0
<1>1. BlockSize \in Nat \ {0} /\ SizeBytes \in Nat /\ SizeBytes < BlockSize
    BY SizesTyped
<1>2. q \in Nat /\ r \in 0 .. BlockSize - 1 /\ l = q * BlockSize + r
    BY <1>1, Divided
<1>3. PadLength(l) - 1 = z
  <2>1. PadLength(l) = 1 + z
      BY DEF PadLength
  <2>2. m \in Nat
      BY <1>1, <1>2
  <2> HIDE DEF m
  <2>3. z \in Nat
      BY <1>1, <2>2, Divided
  <2> QED BY <2>1, <2>3
<1> HIDE DEF q, r
<1>4. m \in Nat
    BY <1>1, <1>2
<1>5. p \in Nat /\ z \in 0 .. BlockSize - 1 /\ m = p * BlockSize + z
  <2> HIDE DEF m
  <2> QED BY <1>1, <1>4, Divided
<1> HIDE DEF p, z
<1>6. q + 2 - p \in Nat /\ l + 1 + z + SizeBytes = (q + 2 - p) * BlockSize
  <2>1. m < 2 * BlockSize
      BY <1>1, <1>2
  <2>2. p < 2
    <3> SUFFICES ASSUME p >= 2 PROVE FALSE
        BY <1>5
    <3>1. (p - 2) * BlockSize \in Nat /\ p * BlockSize = 2 * BlockSize + (p - 2) * BlockSize
        BY <1>1, <1>5
    <3> QED BY <1>1, <1>5, <2>1, <3>1
  <2> QED BY <1>1, <1>2, <1>5, <2>2
<1>7. Fills(z)
  <2> DEFINE a == q + 2 - p
             n == l + 1 + z + SizeBytes
  <2>1. a \in Nat /\ n \in Nat /\ n = a * BlockSize + 0 /\ 0 \in 0 .. BlockSize - 1
      BY <1>1, <1>5, <1>6
  <2> HIDE DEF a, n
  <2>2. n % BlockSize = 0
      BY <1>1, <2>1, DividedOnce
  <2> QED BY <2>2 DEF n
<1>8. ASSUME NEW k \in 0 .. BlockSize - 1, Fills(k) PROVE k = z
  <2> DEFINE n == l + 1 + k + SizeBytes
             a == n \div BlockSize
             b == q + 2 - p
  <2>1. n \in Nat
      BY <1>1
  <2>2. a \in Nat /\ n = a * BlockSize + (n % BlockSize) /\ n % BlockSize = 0
    <3>1. n % BlockSize = 0
        BY <1>8
    <3> HIDE DEF n
    <3> QED BY <1>1, <2>1, <3>1, Divided
  <2> HIDE DEF a
  <2>3. k + b * BlockSize = z + a * BlockSize
      BY <1>1, <1>5, <1>6, <2>2
  <2>4. b \in Nat
      BY <1>6
  <2> HIDE DEF n, b
  <2> DEFINE x == b * BlockSize + k
  <2>5. x \in Nat /\ x = a * BlockSize + z
      BY <1>1, <1>5, <2>2, <2>3, <2>4
  <2> HIDE DEF x
  <2>6. x % BlockSize = z
      BY <1>1, <1>5, <2>2, <2>5, DividedOnce
  <2>7. x = b * BlockSize + k
      BY DEF x
  <2>8. x % BlockSize = k
      BY <1>1, <2>4, <2>5, <2>7, DividedOnce
  <2> QED BY <2>6, <2>8
<1> HIDE DEF Fills, m
<1>9. z = CHOOSE k \in 0 .. BlockSize - 1 : Fills(k)
    BY <1>5, <1>7, <1>8
<1> QED BY <1>3, <1>5, <1>9 DEF Fills

LEMMA ZeroBytes == ASSUME NEW n \in Nat, NEW b \in 0 .. 255
    PROVE  Repeated(b, n) \in Streams /\ Len(Repeated(b, n)) = n /\ \A i \in 1 .. n : Repeated(b, n)[i] = b
<1>1. Repeated(b, n) \in [1 .. n -> 0 .. 255]
    BY DEF Repeated
<1> QED BY <1>1 DEF Streams, Repeated

LEMMA OneByte == ASSUME NEW b \in 0 .. 255 PROVE << b >> \in Streams /\ Len(<< b >>) = 1
  BY DEF Streams

LEMMA JoinedAgain == ASSUME NEW x \in Streams, NEW y \in Streams, NEW z \in Streams
    PROVE  (x \o y) \o z = x \o (y \o z)
  BY ConcatAssociative DEF Streams

(* What is padded and hashed is the whole stream.                          *)
LEMMA FinalizeIs ==
    ASSUME NEW States, Compresses(States), NEW h, NEW t \in Streams, Takes(States, h, t)
    PROVE  Finalize(h) = WholeHash(t) /\ WholeHash(t) \in Streams /\ Len(WholeHash(t)) = DigestSize
<1> DEFINE n == Len(t)
           z == PadLength(n) - 1
           pad == << 128 >> \o Repeated(0, z)
           u == t \o pad
           v == u \o SizeDesc(n)
           w == Write(Write(h, pad), SizeDesc(n))
<1>1. h.bytes = n
    BY DEF Takes
<1>2. n \in Nat
    BY BytesTyped
<1> HIDE DEF n
<1>3. z \in Nat /\ z = CHOOSE k \in 0 .. BlockSize - 1 : (n + 1 + k + SizeBytes) % BlockSize = 0
  <2>1. BlockSize \in Nat
      BY SizesTyped
  <2> QED BY <1>2, <2>1, PadFills
<1>4. Finalize(h) = Digest(w.s)
    BY <1>1 DEF Finalize
<1> HIDE DEF z
<1>5. 0 \in 0 .. 255 /\ 128 \in 0 .. 255
    OBVIOUS
<1>6. << 128 >> \in Streams /\ Repeated(0, z) \in Streams
    BY <1>3, <1>5, ZeroBytes, OneByte
<1>7. pad \in Streams /\ u = (t \o << 128 >>) \o Repeated(0, z)
  <2>1. pad \in Streams
      BY <1>6, Joined
  <2>2. (t \o << 128 >>) \o Repeated(0, z) = t \o (<< 128 >> \o Repeated(0, z))
      BY <1>6, JoinedAgain
  <2> QED BY <2>1, <2>2
<1> HIDE DEF pad
<1>8. u \in Streams /\ Takes(States, Write(h, pad), u)
    BY <1>7, Joined, WriteTakes
<1>9. SizeDesc(n) \in Streams /\ SizeDesc(n) = BigEndian(8 * n)
    BY <1>2, SizeDescIs
<1>10. PaddedText(t) = v
    BY <1>3, <1>7, <1>9 DEF PaddedText, n
<1> HIDE DEF u
<1>11. v \in Streams /\ Takes(States, w, v)
    BY <1>8, <1>9, Joined, WriteTakes
<1> HIDE DEF v, w
<1>12. w.s = After(StartState, v, Len(v) \div BlockSize) /\ w \in [s : States, buf : Streams, bytes : Nat]
    BY <1>11 DEF Takes
<1>13. w.s \in States
    BY <1>12
<1>14. Digest(w.s) \in Streams /\ Len(Digest(w.s)) = DigestSize
    BY <1>13 DEF Compresses
<1>15. WholeHash(t) = Digest(w.s)
    BY <1>10, <1>12 DEF WholeHash, BlocksHash
<1> QED BY <1>4, <1>14, <1>15

LEMMA HashOfIs ==
    ASSUME NEW States, Compresses(States), NEW t \in Streams
    PROVE  HashOf(t) = WholeHash(t) /\ WholeHash(t) \in Streams /\ Len(WholeHash(t)) = DigestSize
<1>1. << >> \in Streams /\ << >> \o t = t
    BY EmptyStream
<1>2. Takes(States, Initialize, << >>)
    BY InitializeTakes
<1>3. Takes(States, Write(Initialize, t), t)
    BY <1>1, <1>2, WriteTakes
<1> QED BY <1>3, FinalizeIs DEF HashOf

LEMMA WriteFirst ==
    ASSUME NEW States, Compresses(States), NEW t \in Streams
    PROVE  Takes(States, Write(Initialize, t), t)
<1>1. << >> \in Streams /\ << >> \o t = t
    BY EmptyStream
<1>2. Takes(States, Initialize, << >>)
    BY InitializeTakes
<1> QED BY <1>1, <1>2, WriteTakes

----------------------------------------------------------------------------
(* The keys of HMAC, with the masks.                                       *)
LEMMA KeyWithIs ==
    ASSUME NEW States, Compresses(States), NEW k \in Streams, Len(k) <= BlockSize
    PROVE  /\ KeyWith(k, 92) \in Streams /\ KeyWith(k, 54) \in Streams
           /\ XoredWith(Filled(k), 92) = KeyWith(k, 92)
           /\ XoredWith(XoredWith(Filled(k), 92), XorByte(92, 54)) = KeyWith(k, 54)
<1>1. BlockSize \in Nat \ {0}
    BY SizesTyped
<1>2. Len(k) \in Nat /\ \A i \in 1 .. Len(k) : k[i] \in 0 .. 255
    BY BytesTyped
<1> DEFINE n == BlockSize - Len(k)
           f == Filled(k)
           byte == [i \in 1 .. BlockSize |-> IF i <= Len(k) THEN k[i] ELSE 0]
<1>3. n \in Nat /\ Len(k) + n = BlockSize
    BY <1>1, <1>2
<1>4. Repeated(0, n) \in Streams /\ Len(Repeated(0, n)) = n /\ \A i \in 1 .. n : Repeated(0, n)[i] = 0
  <2>1. 0 \in 0 .. 255
      OBVIOUS
  <2> HIDE DEF n
  <2> QED BY <1>3, <2>1, ZeroBytes
<1>5. f = k \o Repeated(0, n)
    BY DEF Filled
<1> HIDE DEF f, n
<1>6. /\ f \in Streams /\ Len(f) = BlockSize
      /\ \A i \in 1 .. Len(k) : f[i] = k[i]
      /\ \A i \in 1 .. n : f[Len(k) + i] = 0
  <2> DEFINE y == Repeated(0, n)
  <2>1. y \in Streams /\ Len(y) = n /\ \A i \in 1 .. n : y[i] = 0
      BY <1>4
  <2>2. f = k \o y
      BY <1>5
  <2> HIDE DEF y
  <2>3. /\ k \o y \in Streams /\ Len(k \o y) = Len(k) + Len(y)
        /\ \A i \in 1 .. Len(k) : (k \o y)[i] = k[i]
        /\ \A i \in 1 .. Len(y) : (k \o y)[Len(k) + i] = y[i]
      BY <2>1, Joined
  <2> QED BY <1>3, <2>1, <2>2, <2>3
<1>7. ASSUME NEW i \in 1 .. BlockSize PROVE f[i] = byte[i] /\ byte[i] \in 0 .. 255
  <2>1. CASE i <= Len(k)
    <3>1. i \in 1 .. Len(k)
        BY <1>1, <1>2, <2>1
    <3> QED BY <1>2, <1>6, <2>1, <3>1
  <2>2. CASE ~ (i <= Len(k))
    <3>1. i - Len(k) \in 1 .. n /\ Len(k) + (i - Len(k)) = i
        BY <1>1, <1>2, <1>3, <2>2
    <3>2. f[i] = 0
        BY <1>6, <3>1
    <3> QED BY <2>2, <3>2
  <2> QED BY <2>1, <2>2
<1>8. DOMAIN f = 1 .. BlockSize
    BY <1>6 DEF Streams
<1>9. \A b \in {92, 54} : KeyWith(k, b) = [i \in 1 .. BlockSize |-> XorByte(byte[i], b)]
    BY SMTT(20) DEF KeyWith
<1> HIDE DEF byte
<1>10. \A b \in 0 .. 255 : /\ XorByte(b, 92) \in 0 .. 255 /\ XorByte(b, 54) \in 0 .. 255
                           /\ XorByte(XorByte(b, 92), XorByte(92, 54)) = XorByte(b, 54)
    BY MasksAssumption
<1>11. ASSUME NEW b \in {92, 54} PROVE KeyWith(k, b) \in Streams
  <2>2. \A i \in 1 .. BlockSize : XorByte(byte[i], b) \in 0 .. 255
      BY <1>7, <1>10, ZenonT(40)
  <2>3. KeyWith(k, b) \in [1 .. BlockSize -> 0 .. 255]
    <3> DEFINE x == [i \in 1 .. BlockSize |-> XorByte(byte[i], b)]
    <3>1. KeyWith(k, b) = x
        BY <1>9
    <3>2. x \in [1 .. BlockSize -> 0 .. 255]
        BY <2>2
    <3> HIDE DEF x
    <3> QED BY <3>1, <3>2
  <2> QED BY <1>1, <2>3, SMTT(20) DEF Streams
<1>12. KeyWith(k, 92) \in Streams /\ KeyWith(k, 54) \in Streams
    BY <1>11
<1>13. XoredWith(f, 92) = KeyWith(k, 92)
    BY <1>7, <1>8, <1>9 DEF XoredWith
<1> DEFINE x == XorByte(92, 54)
<1>14. XoredWith(KeyWith(k, 92), x) = [i \in 1 .. BlockSize |-> XorByte(XorByte(byte[i], 92), x)]
    BY <1>9 DEF XoredWith
<1>15. \A i \in 1 .. BlockSize : XorByte(XorByte(byte[i], 92), x) = XorByte(byte[i], 54)
    BY <1>7, <1>10
<1> HIDE DEF x
<1>16. XoredWith(KeyWith(k, 92), x) = KeyWith(k, 54)
  <2>1. KeyWith(k, 54) = [i \in 1 .. BlockSize |-> XorByte(byte[i], 54)]
      BY <1>9
  <2> QED BY <1>14, <1>15, <2>1
<1> QED BY <1>12, <1>13, <1>16 DEF x, f

(* A MAC that took its key and the stream t.                               *)
MacTakes(States, hmac, key, t) ==
    /\ hmac \in [outer : [s : States, buf : Streams, bytes : Nat], inner : [s : States, buf : Streams, bytes : Nat]]
    /\ Takes(States, hmac.outer, KeyWith(ShortKey(key), 92))
    /\ Takes(States, hmac.inner, KeyWith(ShortKey(key), 54) \o t)

LEMMA ShortKeyIs ==
    ASSUME NEW States, Compresses(States), NEW key \in Streams
    PROVE  /\ ShortKey(key) \in Streams /\ Len(ShortKey(key)) <= BlockSize
           /\ (IF Len(key) <= BlockSize THEN key ELSE HashOf(key)) = ShortKey(key)
<1>1. BlockSize \in Nat /\ DigestSize \in Nat /\ DigestSize <= BlockSize
    BY SizesTyped
<1>2. Len(key) \in Nat
    BY BytesTyped
<1>3. HashOf(key) = WholeHash(key) /\ WholeHash(key) \in Streams /\ Len(WholeHash(key)) = DigestSize
    BY HashOfIs
<1>4. Len(key) > BlockSize <=> ~ (Len(key) <= BlockSize)
    BY <1>1, <1>2
<1> QED BY <1>1, <1>3, <1>4 DEF ShortKey

LEMMA HmacInitializeTakes ==
    ASSUME NEW States, Compresses(States), NEW key \in Streams
    PROVE  MacTakes(States, HmacInitialize(key), key, << >>)
<1> DEFINE k == ShortKey(key)
           objects == [s : States, buf : Streams, bytes : Nat]
           a == Write(Initialize, KeyWith(k, 92))
           b == Write(Initialize, KeyWith(k, 54))
<1>1. k \in Streams /\ Len(k) <= BlockSize /\ HmacInitialize(key) = HmacPads(Filled(k))
    BY ShortKeyIs DEF HmacInitialize
<1> HIDE DEF k
<1>2. /\ KeyWith(k, 92) \in Streams /\ KeyWith(k, 54) \in Streams
      /\ HmacInitialize(key) = [outer |-> a, inner |-> b]
    BY <1>1, KeyWithIs DEF HmacPads
<1>3. Takes(States, a, KeyWith(k, 92)) /\ Takes(States, b, KeyWith(k, 54))
    BY <1>2, WriteFirst
<1>4. a \in objects /\ b \in objects
    BY <1>3 DEF Takes
<1>5. KeyWith(k, 54) \o << >> = KeyWith(k, 54)
    BY <1>2, EmptyStream
<1> HIDE DEF a, b, objects
<1> DEFINE hmac == HmacInitialize(key)
<1>6. hmac \in [outer : objects, inner : objects] /\ hmac.outer = a /\ hmac.inner = b
    BY <1>2, <1>4
<1> HIDE DEF hmac
<1>7. MacTakes(States, hmac, key, << >>)
    BY <1>3, <1>5, <1>6 DEF MacTakes, objects, k
<1> QED BY <1>7 DEF hmac

LEMMA HmacWriteTakes ==
    ASSUME NEW States, Compresses(States), NEW key \in Streams, NEW t \in Streams, NEW d \in Streams,
           NEW hmac, MacTakes(States, hmac, key, t)
    PROVE  MacTakes(States, HmacWrite(hmac, d), key, t \o d)
<1> DEFINE k == KeyWith(ShortKey(key), 54)
           objects == [s : States, buf : Streams, bytes : Nat]
           b == Write(hmac.inner, d)
           w == HmacWrite(hmac, d)
<1>1. k \in Streams
    BY ShortKeyIs, KeyWithIs
<1>2. hmac \in [outer : objects, inner : objects] /\ Takes(States, hmac.inner, k \o t)
      /\ Takes(States, hmac.outer, KeyWith(ShortKey(key), 92))
    BY DEF MacTakes
<1> HIDE DEF k
<1>3. k \o t \in Streams /\ (k \o t) \o d = k \o (t \o d)
    BY <1>1, Joined, JoinedAgain
<1>4. Takes(States, b, k \o (t \o d))
    BY <1>2, <1>3, WriteTakes
<1>5. b \in objects
    BY <1>4 DEF Takes
<1>6. w = [hmac EXCEPT !.inner = b]
    BY DEF HmacWrite
<1> HIDE DEF w, b, objects
<1>7. w \in [outer : objects, inner : objects] /\ w.outer = hmac.outer /\ w.inner = b
    BY <1>2, <1>5, <1>6
<1>8. MacTakes(States, w, key, t \o d)
    BY <1>2, <1>4, <1>7 DEF MacTakes, objects, k
<1> QED BY <1>8 DEF w

LEMMA HmacFinalizeIs ==
    ASSUME NEW States, Compresses(States), NEW key \in Streams, NEW t \in Streams,
           NEW hmac, MacTakes(States, hmac, key, t)
    PROVE  /\ HmacFinalize(hmac) = WholeHmac(key, t)
           /\ WholeHmac(key, t) \in Streams /\ Len(WholeHmac(key, t)) = DigestSize
<1> DEFINE k == ShortKey(key)
           x == KeyWith(k, 54) \o t
           y == KeyWith(k, 92) \o WholeHash(x)
<1>1. KeyWith(k, 54) \in Streams /\ KeyWith(k, 92) \in Streams
    BY ShortKeyIs, KeyWithIs
<1>2. Takes(States, hmac.inner, x) /\ Takes(States, hmac.outer, KeyWith(k, 92))
    BY DEF MacTakes
<1> HIDE DEF k
<1>3. x \in Streams
    BY <1>1, Joined
<1> HIDE DEF x
<1>4. Finalize(hmac.inner) = WholeHash(x) /\ WholeHash(x) \in Streams
    BY <1>2, <1>3, FinalizeIs
<1>5. y \in Streams /\ Takes(States, Write(hmac.outer, WholeHash(x)), y)
    BY <1>1, <1>2, <1>4, Joined, WriteTakes
<1> HIDE DEF y
<1>6. /\ Finalize(Write(hmac.outer, WholeHash(x))) = WholeHash(y)
      /\ WholeHash(y) \in Streams /\ Len(WholeHash(y)) = DigestSize
    BY <1>5, FinalizeIs
<1>7. WholeHmac(key, t) = WholeHash(y)
    BY DEF WholeHmac, HmacOf, k, x, y
<1> QED BY <1>4, <1>6, <1>7 DEF HmacFinalize

LEMMA HmacIs ==
    ASSUME NEW States, Compresses(States), NEW key \in Streams, NEW t \in Streams
    PROVE  /\ Hmac(key, t) = WholeHmac(key, t)
           /\ WholeHmac(key, t) \in Streams /\ Len(WholeHmac(key, t)) = DigestSize
<1>1. MacTakes(States, HmacInitialize(key), key, << >>) /\ << >> \in Streams /\ << >> \o t = t
    BY HmacInitializeTakes, EmptyStream
<1>2. MacTakes(States, HmacWrite(HmacInitialize(key), t), key, t)
    BY <1>1, HmacWriteTakes
<1> QED BY <1>2, HmacFinalizeIs DEF Hmac

----------------------------------------------------------------------------
(* The generator: what it keeps, and whether it gave numbers already.      *)
Rngs == [v : Streams, k : Streams, retry : BOOLEAN, out : Streams]
Retries(rng) == rng.retry = TRUE
IsRng(rng, k, v, out, again) == rng \in Rngs /\ rng.k = k /\ rng.v = v /\ rng.out = out /\ (Retries(rng) <=> again)

LEMMA NewRngs ==
    ASSUME NEW rng \in Rngs, NEW x \in Streams
    PROVE  /\ IsRng([rng EXCEPT !.v = x], rng.k, x, rng.out, Retries(rng))
           /\ IsRng([rng EXCEPT !.k = x], x, rng.v, rng.out, Retries(rng))
           /\ IsRng([rng EXCEPT !.out = x], rng.k, rng.v, x, Retries(rng))
           /\ IsRng([rng EXCEPT !.retry = TRUE, !.out = x], rng.k, rng.v, x, TRUE)
<1>1. IsRng([rng EXCEPT !.v = x], rng.k, x, rng.out, Retries(rng))
    BY DEF IsRng, Rngs, Retries
<1>2. IsRng([rng EXCEPT !.k = x], x, rng.v, rng.out, Retries(rng))
    BY DEF IsRng, Rngs, Retries
<1>3. IsRng([rng EXCEPT !.out = x], rng.k, rng.v, x, Retries(rng))
    BY DEF IsRng, Rngs, Retries
<1>4. IsRng([rng EXCEPT !.retry = TRUE, !.out = x], rng.k, rng.v, x, TRUE)
    BY DEF IsRng, Rngs, Retries
<1> QED BY <1>1, <1>2, <1>3, <1>4

LEMMA RngTyped ==
    ASSUME NEW rng, NEW k, NEW v, NEW out, NEW again, IsRng(rng, k, v, out, again)
    PROVE  rng \in Rngs /\ k \in Streams /\ v \in Streams /\ out \in Streams
  BY DEF IsRng, Rngs

LEMMA RevaluedIs ==
    ASSUME NEW States, Compresses(States), NEW rng \in Rngs
    PROVE  /\ IsRng(Revalued(rng), rng.k, WholeHmac(rng.k, rng.v), rng.out, Retries(rng))
           /\ Revalued(rng) \in Rngs
           /\ WholeHmac(rng.k, rng.v) \in Streams /\ Len(WholeHmac(rng.k, rng.v)) = DigestSize
<1>1. rng.k \in Streams /\ rng.v \in Streams
    BY DEF Rngs
<1>2. /\ Hmac(rng.k, rng.v) = WholeHmac(rng.k, rng.v) /\ WholeHmac(rng.k, rng.v) \in Streams
      /\ Len(WholeHmac(rng.k, rng.v)) = DigestSize
    BY <1>1, HmacIs
<1>3. IsRng(Revalued(rng), rng.k, WholeHmac(rng.k, rng.v), rng.out, Retries(rng))
    BY <1>2, NewRngs DEF Revalued
<1> QED BY <1>2, <1>3 DEF IsRng

LEMMA RekeyIs ==
    ASSUME NEW States, Compresses(States), NEW rng \in Rngs, NEW d \in Streams, NEW kv, kv = << rng.k, rng.v >>
    PROVE  IsRng(Rekey(rng, d), Updated(kv, d)[1], Updated(kv, d)[2], rng.out, Retries(rng))
<1>1. rng.k \in Streams /\ rng.v \in Streams
    BY DEF Rngs
<1> DEFINE k == WholeHmac(rng.k, rng.v \o d)
           r == [rng EXCEPT !.k = k]
<1>2. Hmac(rng.k, rng.v \o d) = k /\ k \in Streams
    BY <1>1, Joined, HmacIs
<1>3. Rekey(rng, d) = Revalued(r)
    BY <1>2 DEF Rekey
<1>4. Updated(kv, d)[1] = k /\ Updated(kv, d)[2] = WholeHmac(k, rng.v)
    BY DEF Updated, WithValue
<1> HIDE DEF k
<1>5. IsRng(r, k, rng.v, rng.out, Retries(rng))
    BY <1>2, NewRngs
<1> HIDE DEF r
<1>6. r \in Rngs /\ r.k = k /\ r.v = rng.v /\ r.out = rng.out /\ (Retries(r) <=> Retries(rng))
    BY <1>5 DEF IsRng
<1>7. IsRng(Revalued(r), r.k, WholeHmac(r.k, r.v), r.out, Retries(r))
    BY <1>6, RevaluedIs
<1> QED BY <1>3, <1>4, <1>6, <1>7 DEF IsRng

LEMMA RngInitializeIs ==
    ASSUME NEW States, Compresses(States), NEW seed \in Streams
    PROVE  IsRng(RngInitialize(seed), FirstKv(seed)[1], FirstKv(seed)[2], << >>, FALSE)
<1> DEFINE zeros == Repeated(0, DigestSize)
           ones == Repeated(1, DigestSize)
           start == [v |-> ones, k |-> zeros, retry |-> FALSE, out |-> << >>]
           d == << 0 >> \o seed
           e == << 1 >> \o seed
           r == Rekey(start, d)
           kv == Updated(<< zeros, ones >>, d)
<1>1. 0 \in 0 .. 255 /\ 1 \in 0 .. 255
    OBVIOUS
<1>2. d \in Streams /\ e \in Streams
    BY <1>1, OneByte, Joined
<1>3. zeros \in Streams /\ ones \in Streams
  <2>1. DigestSize \in Nat
      BY SizesTyped
  <2> QED BY <1>1, <2>1, ZeroBytes
<1>4. RngInitialize(seed) = Rekey(r, e)
    BY DEF RngInitialize
<1>5. FirstKv(seed) = Updated(kv, e)
    BY DEF FirstKv
<1> HIDE DEF zeros, ones, d, e
<1>6. start \in Rngs /\ start.k = zeros /\ start.v = ones /\ start.out = << >> /\ ~ Retries(start)
    BY <1>3, EmptyStream DEF Rngs, Retries
<1> HIDE DEF start
<1>7. IsRng(r, kv[1], kv[2], start.out, Retries(start))
    BY <1>2, <1>6, RekeyIs
<1>8. kv = << kv[1], kv[2] >>
    BY DEF Updated, WithValue
<1> HIDE DEF kv, r
<1>9. r \in Rngs /\ kv = << r.k, r.v >> /\ r.out = << >> /\ ~ Retries(r)
    BY <1>6, <1>7, <1>8 DEF IsRng
<1>10. IsRng(Rekey(r, e), Updated(kv, e)[1], Updated(kv, e)[2], r.out, Retries(r))
    BY <1>2, <1>9, RekeyIs
<1> QED BY <1>4, <1>5, <1>9, <1>10 DEF IsRng

----------------------------------------------------------------------------
(* The values of V in a call.                                              *)
ValuesOf(f, k, v, n) == /\ f[0] = v
                        /\ \A i \in 1 .. n : f[i] = WholeHmac(k, f[i - 1])

LEMMA ValueIs ==
    ASSUME NEW States, Compresses(States), NEW k \in Streams, NEW v \in Streams, NEW n \in Nat
    PROVE  \E f \in [0 .. n -> Streams] : ValuesOf(f, k, v, n) /\ Value(<< k, v >>, n) = f[n]
<1> DEFINE g == [p \in (1 .. n) \X Streams |-> WholeHmac(k, p[2])]
<1>1. g \in [(1 .. n) \X Streams -> Streams]
    BY HmacIs
<1>2. \A i \in 1 .. n, x \in Streams : g[<< i, x >>] = WholeHmac(k, x)
    OBVIOUS
<1> HIDE DEF g
<1>3. PICK h \in [0 .. n -> Streams] : Iterates(h, v, g, n)
    BY <1>1, IteratesExist
<1> DEFINE Steps(f) == f = [i \in 0 .. n |-> IF i = 0 THEN v ELSE WholeHmac(k, f[i - 1])]
           value == CHOOSE f : Steps(f)
<1>4. ASSUME NEW i \in 0 .. n PROVE h[i] = IF i = 0 THEN v ELSE WholeHmac(k, h[i - 1])
  <2>1. h[i] = IF i = 0 THEN v ELSE g[<< i, h[i - 1] >>]
      BY <1>3 DEF Iterates
  <2>2. i # 0 => i \in 1 .. n /\ h[i - 1] \in Streams
      BY <1>3
  <2> QED BY <1>2, <2>1, <2>2
<1>5. Steps(h)
    BY <1>3, <1>4
<1>6. Steps(value)
    BY <1>5
<1>7. Value(<< k, v >>, n) = value[n]
    BY DEF Value
<1> HIDE DEF value
<1>8. \A i \in 0 .. n : value[i] = IF i = 0 THEN v ELSE WholeHmac(k, value[i - 1])
    BY <1>6
<1>9. \A i \in 0 .. n : value[i] = h[i]
  <2>1. value[0] = h[0]
      BY <1>4, <1>8
  <2>2. \A i \in 1 .. n : value[i - 1] = h[i - 1] => value[i] = h[i]
      BY <1>4, <1>8
  <2>3. StepAlike(value, h, n)
      BY <2>1, <2>2 DEF StepAlike
  <2> QED BY <2>3, SameSteps
<1>10. value = h
    BY <1>3, <1>6, <1>9
<1>11. ValuesOf(h, k, v, n)
    BY <1>8, <1>10 DEF ValuesOf
<1> QED BY <1>3, <1>7, <1>10, <1>11

LEMMA ValueFacts ==
    ASSUME NEW States, Compresses(States), NEW k \in Streams, NEW v \in Streams, NEW n \in Nat
    PROVE  /\ Value(<< k, v >>, 0) = v /\ Value(<< k, v >>, n) \in Streams
           /\ Value(<< k, v >>, n + 1) = WholeHmac(k, Value(<< k, v >>, n))
<1>1. PICK f \in [0 .. n -> Streams] : ValuesOf(f, k, v, n) /\ Value(<< k, v >>, n) = f[n]
    BY ValueIs
<1> DEFINE m == n + 1
<1>2. m \in Nat /\ m \in 1 .. m /\ m - 1 = n /\ \A i \in 1 .. n : i \in 1 .. m
    OBVIOUS
<1> HIDE DEF m
<1>3. PICK e \in [0 .. m -> Streams] : ValuesOf(e, k, v, m) /\ Value(<< k, v >>, m) = e[m]
    BY <1>2, ValueIs
<1>4. e[n] = f[n]
  <2>1. StepAlike(e, f, n)
      BY <1>1, <1>2, <1>3 DEF StepAlike, ValuesOf
  <2> QED BY <2>1, SameAt
<1>5. e[m] = WholeHmac(k, e[n])
    BY <1>2, <1>3 DEF ValuesOf
<1>6. Value(<< k, v >>, 0) = v
  <2>1. \E w \in [0 .. 0 -> Streams] : ValuesOf(w, k, v, 0) /\ Value(<< k, v >>, 0) = w[0]
      BY ValueIs
  <2> QED BY <2>1 DEF ValuesOf
<1>7. f[n] \in Streams
    OBVIOUS
<1>8. Value(<< k, v >>, m) = WholeHmac(k, Value(<< k, v >>, n))
    BY <1>1, <1>3, <1>4, <1>5
<1> QED BY <1>1, <1>6, <1>7, <1>8 DEF m

----------------------------------------------------------------------------
(* The bytes of a call, before it cuts them.                               *)
OutputIs(out, k, v, r) ==
    /\ out \in Streams /\ Len(out) = r * DigestSize
    /\ \A i \in 1 .. r * DigestSize :
          out[i] = Value(<< k, v >>, ((i - 1) \div DigestSize) + 1)[((i - 1) % DigestSize) + 1]

LEMMA OutputGrows ==
    ASSUME NEW States, Compresses(States), NEW k \in Streams, NEW v \in Streams, NEW r \in Nat,
           NEW out, OutputIs(out, k, v, r), Len(Value(<< k, v >>, r + 1)) = DigestSize
    PROVE  OutputIs(out \o Value(<< k, v >>, r + 1), k, v, r + 1)
<1> DEFINE val == Value(<< k, v >>, r + 1)
           a == r * DigestSize
           b == (r + 1) * DigestSize
           new == out \o val
<1>1. DigestSize \in Nat \ {0} /\ a \in Nat /\ b = a + DigestSize
    BY SizesTyped
<1>2. val \in Streams /\ Len(val) = DigestSize
  <2>1. r + 1 \in Nat
      OBVIOUS
  <2> QED BY <2>1, ValueFacts
<1>3. /\ out \in Streams /\ Len(out) = a
      /\ \A i \in 1 .. a : out[i] = Value(<< k, v >>, ((i - 1) \div DigestSize) + 1)[((i - 1) % DigestSize) + 1]
    BY DEF OutputIs
<1> HIDE DEF val
<1>4. /\ new \in Streams /\ Len(new) = Len(out) + Len(val)
      /\ \A i \in 1 .. Len(out) : new[i] = out[i]
      /\ \A i \in 1 .. Len(val) : new[Len(out) + i] = val[i]
    BY <1>2, <1>3, Joined
<1>5. \A i \in 1 .. DigestSize : ((a + i - 1) \div DigestSize) + 1 = r + 1 /\ ((a + i - 1) % DigestSize) + 1 = i
  <2> SUFFICES ASSUME NEW i \in 1 .. DigestSize
               PROVE  ((a + i - 1) \div DigestSize) + 1 = r + 1 /\ ((a + i - 1) % DigestSize) + 1 = i
      OBVIOUS
  <2> DEFINE n == a + i - 1
             t == i - 1
  <2>1. n \in Nat /\ t \in 0 .. DigestSize - 1 /\ n = r * DigestSize + t
      BY <1>1
  <2> HIDE DEF n, t
  <2>2. n \div DigestSize = r /\ n % DigestSize = t
      BY <1>1, <2>1, DividedOnce
  <2>3. ((a + i - 1) \div DigestSize) + 1 = (n \div DigestSize) + 1 /\ ((a + i - 1) % DigestSize) + 1 = (n % DigestSize) + 1
      BY DEF n
  <2>4. t + 1 = i
      BY DEF t
  <2> QED BY <2>2, <2>3, <2>4
<1> HIDE DEF a, b, new
<1>6. ASSUME NEW i \in 1 .. b
      PROVE  new[i] = Value(<< k, v >>, ((i - 1) \div DigestSize) + 1)[((i - 1) % DigestSize) + 1]
  <2>1. CASE i \in 1 .. a
      BY <1>3, <1>4, <2>1
  <2>2. CASE i \notin 1 .. a
    <3> DEFINE j == i - a
    <3>1. j \in 1 .. DigestSize /\ a + j = i /\ a + j - 1 = i - 1
        BY <1>1, <2>2
    <3> HIDE DEF j
    <3>2. new[i] = val[j]
        BY <1>2, <1>3, <1>4, <3>1
    <3>3. ((a + j - 1) \div DigestSize) + 1 = r + 1 /\ ((a + j - 1) % DigestSize) + 1 = j
        BY <1>5, <3>1
    <3>4. ((i - 1) \div DigestSize) + 1 = r + 1 /\ ((i - 1) % DigestSize) + 1 = j
        BY <3>1, <3>3
    <3> QED BY <3>2, <3>4 DEF val
  <2> QED BY <2>1, <2>2
<1>7. new \in Streams /\ Len(new) = b
    BY <1>1, <1>2, <1>3, <1>4
<1>8. OutputIs(new, k, v, r + 1)
    BY <1>6, <1>7 DEF OutputIs, b
<1> QED BY <1>8 DEF new, val

LEMMA OutputRevalued ==
    ASSUME NEW States, Compresses(States), NEW rng \in Rngs
    PROVE  /\ IsRng(Output(Revalued(rng)), rng.k, WholeHmac(rng.k, rng.v), rng.out \o WholeHmac(rng.k, rng.v),
                    Retries(rng))
           /\ Output(Revalued(rng)) \in Rngs
<1> DEFINE r == Revalued(rng)
           x == WholeHmac(rng.k, rng.v)
           w == Output(r)
<1>1. IsRng(r, rng.k, x, rng.out, Retries(rng)) /\ x \in Streams
    BY RevaluedIs
<1> HIDE DEF r, x
<1>2. r \in Rngs /\ r.k = rng.k /\ r.v = x /\ r.out = rng.out /\ (Retries(r) <=> Retries(rng))
    BY <1>1 DEF IsRng
<1>3. rng.out \in Streams
    BY DEF Rngs
<1>4. rng.out \o x \in Streams
    BY <1>1, <1>3, Joined
<1>5. w = [r EXCEPT !.out = rng.out \o x]
    BY <1>2 DEF Output
<1> HIDE DEF w
<1> DEFINE o == rng.out \o x
<1> HIDE DEF o
<1>6. IsRng(w, r.k, r.v, o, Retries(r))
    BY <1>2, <1>4, <1>5, NewRngs DEF o
<1>7. IsRng(w, rng.k, x, o, Retries(rng))
    BY <1>2, <1>6 DEF IsRng
<1> QED BY <1>7 DEF IsRng, w, r, x, o

LEMMA GeneratedIs ==
    ASSUME NEW States, Compresses(States), NEW rng \in Rngs, NEW n \in Nat
    PROVE  \E out : /\ IsRng(Generated(rng, n), rng.k, Value(<< rng.k, rng.v >>, n), out, Retries(rng))
                    /\ OutputIs(out, rng.k, rng.v, n)
<1> DEFINE g == [p \in (1 .. n) \X Rngs |-> Output(Revalued(p[2]))]
           start == [rng EXCEPT !.out = << >>]
           k == rng.k
           v == rng.v
           again == Retries(rng)
<1>1. g \in [(1 .. n) \X Rngs -> Rngs]
    BY OutputRevalued
<1>2. \A i \in 1 .. n, x \in Rngs : g[<< i, x >>] = Output(Revalued(x))
    OBVIOUS
<1>3. IsRng(start, k, v, << >>, again) /\ start \in Rngs
  <2>1. << >> \in Streams
      BY EmptyStream
  <2>2. IsRng(start, k, v, << >>, again)
      BY <2>1, NewRngs
  <2> QED BY <2>2 DEF IsRng
<1>4. k \in Streams /\ v \in Streams
    BY DEF Rngs
<1> HIDE DEF g, start, k, v, again
<1>5. PICK h \in [0 .. n -> Rngs] : Iterates(h, start, g, n)
    BY <1>1, <1>3, IteratesExist
<1> DEFINE Steps(f) == f = [i \in 0 .. n |-> IF i = 0 THEN start ELSE Output(Revalued(f[i - 1]))]
           after == CHOOSE f : Steps(f)
<1>6. ASSUME NEW i \in 0 .. n PROVE h[i] = IF i = 0 THEN start ELSE Output(Revalued(h[i - 1]))
  <2>1. h[i] = IF i = 0 THEN start ELSE g[<< i, h[i - 1] >>]
      BY <1>5 DEF Iterates
  <2>2. i # 0 => i \in 1 .. n /\ h[i - 1] \in Rngs
      BY <1>5
  <2> QED BY <1>2, <2>1, <2>2
<1>7. Steps(h)
    BY <1>5, <1>6
<1>8. Steps(after)
    BY <1>7
<1>9. Generated(rng, n) = after[n]
    BY DEF Generated, start
<1> HIDE DEF after
<1>10. \A i \in 0 .. n : after[i] = IF i = 0 THEN start ELSE Output(Revalued(after[i - 1]))
    BY <1>8
<1> DEFINE Holds(i) == \E out : IsRng(after[i], k, Value(<< k, v >>, i), out, again) /\ OutputIs(out, k, v, i)
           T == {i \in 0 .. n : Holds(i)}
<1>11. 0 \in T
  <2>1. after[0] = start
      BY <1>10
  <2>2. Value(<< k, v >>, 0) = v
      BY <1>4, ValueFacts
  <2>3. OutputIs(<< >>, k, v, 0)
    <3>1. 0 * DigestSize = 0
        BY SizesTyped
    <3> QED BY <3>1, EmptyStream DEF OutputIs
  <2> QED BY <1>3, <2>1, <2>2, <2>3
<1>12. ASSUME NEW i \in 1 .. n, i - 1 \in T PROVE i \in T
  <2> DEFINE j == i - 1
  <2>1. j \in Nat /\ j + 1 = i
      OBVIOUS
  <2>2. Holds(j)
      BY <1>12
  <2>3. after[i] = Output(Revalued(after[j]))
      BY <1>10
  <2> HIDE DEF j
  <2> DEFINE r == after[j]
             x == Value(<< k, v >>, j + 1)
  <2>4. PICK out : IsRng(r, k, Value(<< k, v >>, j), out, again) /\ OutputIs(out, k, v, j)
      BY <2>2
  <2>5. x = WholeHmac(k, Value(<< k, v >>, j)) /\ Value(<< k, v >>, j) \in Streams
      BY <1>4, <2>1, ValueFacts
  <2> HIDE DEF r, x
  <2>6. r \in Rngs /\ r.k = k /\ r.v = Value(<< k, v >>, j) /\ r.out = out /\ (Retries(r) <=> again)
      BY <2>4 DEF IsRng
  <2>7. IsRng(Output(Revalued(r)), r.k, WholeHmac(r.k, r.v), r.out \o WholeHmac(r.k, r.v), Retries(r))
      BY <2>6, OutputRevalued
  <2>8. IsRng(Output(Revalued(r)), k, x, out \o x, again)
      BY <2>5, <2>6, <2>7 DEF IsRng
  <2>9. Len(x) = DigestSize
      BY <1>4, <2>5, HmacIs
  <2>10. OutputIs(out \o x, k, v, j + 1)
      BY <1>4, <2>1, <2>4, <2>9, OutputGrows DEF x
  <2>11. Holds(i)
      BY <2>1, <2>3, <2>8, <2>10 DEF r, x
  <2> QED BY <2>11
<1> HIDE DEF T, Holds
<1>13. n \in T
    BY <1>11, <1>12, UpTo
<1>14. Holds(n)
    BY <1>13 DEF T
<1> QED BY <1>9, <1>14 DEF Holds, k, v, again

----------------------------------------------------------------------------
(* A call, and all calls.                                                  *)
LEMMA UpdatedTyped ==
    ASSUME NEW States, Compresses(States), NEW kv \in Streams \X Streams, NEW d \in Streams
    PROVE  Updated(kv, d) \in Streams \X Streams
<1>1. kv[1] \in Streams /\ kv[2] \in Streams /\ kv[2] \o d \in Streams
    BY Joined
<1> DEFINE k == WholeHmac(kv[1], kv[2] \o d)
<1>2. k \in Streams
    BY <1>1, HmacIs
<1>3. Updated(kv, d) = << k, WholeHmac(k, kv[2]) >>
    BY DEF Updated, WithValue
<1> HIDE DEF k
<1>4. WholeHmac(k, kv[2]) \in Streams
    BY <1>1, <1>2, HmacIs
<1> QED BY <1>2, <1>3, <1>4

LEMMA RoundsSuffice ==
    ASSUME NEW States, Compresses(States), NEW n \in Nat
    PROVE  Rounds(n) \in Nat /\ n <= Rounds(n) * DigestSize
<1> DEFINE m == n + DigestSize - 1
           q == m \div DigestSize
<1>1. DigestSize \in Nat \ {0} /\ m \in Nat
    BY SizesTyped
<1>2. Rounds(n) = q
    BY DEF Rounds
<1>3. q \in Nat /\ m < q * DigestSize + DigestSize
  <2> HIDE DEF m
  <2>1. q \in Nat /\ m % DigestSize \in 0 .. DigestSize - 1 /\ m = q * DigestSize + (m % DigestSize)
      BY <1>1, Divided
  <2> QED BY <1>1, <2>1
<1> HIDE DEF q
<1>4. q * DigestSize \in Nat
    BY <1>1, <1>3
<1> QED BY <1>1, <1>2, <1>3, <1>4

(* The numbers of a call, and K and V after it.                            *)
LEMMA CallIs ==
    ASSUME NEW States, Compresses(States), NEW rng \in Rngs, NEW n \in Nat,
           NEW kv, kv = << rng.k, rng.v >>, NEW w,
           w = [Generated(rng, Rounds(n)) EXCEPT !.retry = TRUE, !.out = SubSeq(@, 1, n)]
    PROVE  IsRng(w, Called(kv, n)[1][1], Called(kv, n)[1][2], Called(kv, n)[2], TRUE)
<1> DEFINE r == Rounds(n)
           g == Generated(rng, r)
           bytes == [i \in 1 .. n |-> Value(kv, ((i - 1) \div DigestSize) + 1)[((i - 1) % DigestSize) + 1]]
<1>1. r \in Nat /\ n <= r * DigestSize
    BY RoundsSuffice
<1>2. Called(kv, n) = << << kv[1], Value(kv, r) >>, bytes >>
    BY DEF Called
<1> HIDE DEF r
<1>3. PICK out : /\ IsRng(g, rng.k, Value(<< rng.k, rng.v >>, r), out, Retries(rng))
                 /\ OutputIs(out, rng.k, rng.v, r)
    BY <1>1, GeneratedIs
<1>4. g \in Rngs /\ g.k = rng.k /\ g.v = Value(kv, r) /\ g.out = out
    BY <1>3 DEF IsRng
<1>5. out \in Streams /\ n <= Len(out)
    BY <1>1, <1>3 DEF OutputIs
<1> DEFINE cut == SubSeq(out, 1, n)
<1>6. cut \in Streams /\ Len(cut) = n /\ \A i \in 1 .. n : cut[i] = out[i]
  <2> DEFINE a == 0
  <2>1. a \in Nat /\ a <= n
      OBVIOUS
  <2> HIDE DEF a
  <2>2. /\ SubSeq(out, a + 1, n) \in Streams /\ Len(SubSeq(out, a + 1, n)) = n - a
        /\ \A i \in 1 .. n - a : SubSeq(out, a + 1, n)[i] = out[a + i]
      BY <1>5, <2>1, Part
  <2> QED BY <2>2 DEF a
<1> HIDE DEF cut
<1>7. \A i \in 1 .. n : cut[i] = bytes[i]
  <2> SUFFICES ASSUME NEW i \in 1 .. n PROVE cut[i] = bytes[i]
      OBVIOUS
  <2>1. i \in 1 .. r * DigestSize
    <3>1. DigestSize \in Nat
        BY SizesTyped
    <3>2. r * DigestSize \in Nat
        BY <1>1, <3>1
    <3> QED BY <1>1, <3>2
  <2>2. out[i] = Value(kv, ((i - 1) \div DigestSize) + 1)[((i - 1) % DigestSize) + 1]
      BY <1>3, <2>1 DEF OutputIs
  <2> QED BY <1>6, <2>2
<1>8. cut = bytes
  <2>1. cut = [i \in 1 .. n |-> cut[i]]
      BY <1>6 DEF Streams
  <2> QED BY <1>7, <2>1
<1>9. w = [g EXCEPT !.retry = TRUE, !.out = cut]
    BY <1>4 DEF r, cut
<1> HIDE DEF g, bytes
<1>10. IsRng([g EXCEPT !.retry = TRUE, !.out = cut], g.k, g.v, cut, TRUE)
    BY <1>4, <1>6, NewRngs
<1> DEFINE c == Called(kv, n)
<1>11. c[1][1] = g.k /\ c[1][2] = g.v /\ c[2] = cut
    BY <1>2, <1>4, <1>8
<1> HIDE DEF c
<1>12. IsRng(w, c[1][1], c[1][2], c[2], TRUE)
    BY <1>9, <1>10, <1>11
<1> QED BY <1>12 DEF c

LEMMA CalledTyped ==
    ASSUME NEW States, Compresses(States), NEW kv \in Streams \X Streams, NEW n \in Nat
    PROVE  Called(kv, n) \in (Streams \X Streams) \X Streams
<1> DEFINE rng == [v |-> kv[2], k |-> kv[1], retry |-> FALSE, out |-> << >>]
           w == [Generated(rng, Rounds(n)) EXCEPT !.retry = TRUE, !.out = SubSeq(@, 1, n)]
           c == Called(kv, n)
<1>1. rng \in Rngs /\ kv = << rng.k, rng.v >>
    BY EmptyStream DEF Rngs
<1> HIDE DEF rng
<1>2. w = [Generated(rng, Rounds(n)) EXCEPT !.retry = TRUE, !.out = SubSeq(@, 1, n)]
    OBVIOUS
<1> HIDE DEF w
<1>3. IsRng(w, c[1][1], c[1][2], c[2], TRUE)
    BY <1>1, <1>2, CallIs
<1>4. c[1][1] \in Streams /\ c[1][2] \in Streams /\ c[2] \in Streams
    BY <1>3, RngTyped
<1>5. c = << << c[1][1], c[1][2] >>, c[2] >>
    BY DEF Called
<1> HIDE DEF c
<1>6. << << c[1][1], c[1][2] >>, c[2] >> \in (Streams \X Streams) \X Streams
    BY <1>4
<1>7. c \in (Streams \X Streams) \X Streams
    BY <1>5, <1>6
<1> QED BY <1>7 DEF c

(* A call of a generator, that updates K and V first if it is not the one  *)
(* after the seed.                                                         *)
LEMMA RngGenerateIs ==
    ASSUME NEW States, Compresses(States), NEW rng, NEW kv \in Streams \X Streams, NEW out,
           NEW i \in Nat, NEW n \in Nat, IsRng(rng, kv[1], kv[2], out, i # 1)
    PROVE  IsRng(RngGenerate(rng, n), NextCalled(i, kv, n)[1][1], NextCalled(i, kv, n)[1][2],
                 NextCalled(i, kv, n)[2], TRUE)
<1> DEFINE base == IF rng.retry THEN Rekey(rng, << 0 >>) ELSE rng
           kw == IF i = 1 THEN kv ELSE Updated(kv, << 0 >>)
           w == [Generated(base, Rounds(n)) EXCEPT !.retry = TRUE, !.out = SubSeq(@, 1, n)]
<1>1. rng \in Rngs /\ rng.k = kv[1] /\ rng.v = kv[2] /\ (Retries(rng) <=> i # 1)
    BY DEF IsRng
<1>2. kv = << rng.k, rng.v >>
    BY <1>1
<1>3. RngGenerate(rng, n) = w
    BY DEF RngGenerate, Rounds
<1>4. NextCalled(i, kv, n) = Called(kw, n)
    BY DEF NextCalled
<1>5. base \in Rngs /\ kw = << base.k, base.v >>
  <2>1. CASE i = 1
    <3>1. ~ rng.retry
        BY <1>1, <2>1 DEF Retries, Rngs
    <3> QED BY <1>1, <1>2, <2>1, <3>1
  <2>2. CASE i # 1
    <3> DEFINE r == Rekey(rng, << 0 >>)
               kx == Updated(kv, << 0 >>)
    <3>1. rng.retry
        BY <1>1, <2>2 DEF Retries
    <3>2. << 0 >> \in Streams
      <4>1. 0 \in 0 .. 255
          OBVIOUS
      <4> QED BY <4>1, OneByte
    <3>3. IsRng(r, kx[1], kx[2], rng.out, Retries(rng))
        BY <1>1, <1>2, <3>2, RekeyIs
    <3>4. kx = << kx[1], kx[2] >>
        BY DEF Updated, WithValue
    <3>5. base = r /\ kw = kx
        BY <2>2, <3>1
    <3> HIDE DEF r, kx, base, kw
    <3>6. r \in Rngs /\ kx = << r.k, r.v >>
        BY <3>3, <3>4 DEF IsRng
    <3> QED BY <3>5, <3>6
  <2> QED BY <2>1, <2>2
<1>6. w = [Generated(base, Rounds(n)) EXCEPT !.retry = TRUE, !.out = SubSeq(@, 1, n)]
    OBVIOUS
<1> HIDE DEF base, kw, w
<1>7. IsRng(w, Called(kw, n)[1][1], Called(kw, n)[1][2], Called(kw, n)[2], TRUE)
    BY <1>5, <1>6, CallIs
<1> QED BY <1>3, <1>4, <1>7

(* What all the calls gave, one after the other.                           *)
KeyedOutputs == (Streams \X Streams) \X Streams

LEMMA NextCalledTyped ==
    ASSUME NEW States, Compresses(States), NEW kv \in Streams \X Streams, NEW i \in Nat, NEW n \in Nat
    PROVE  NextCalled(i, kv, n) \in KeyedOutputs
<1>1. 0 \in 0 .. 255
    OBVIOUS
<1>2. Updated(kv, << 0 >>) \in Streams \X Streams
    BY <1>1, OneByte, UpdatedTyped
<1> DEFINE kw == IF i = 1 THEN kv ELSE Updated(kv, << 0 >>)
<1>3. kw \in Streams \X Streams /\ NextCalled(i, kv, n) = Called(kw, n)
    BY <1>2 DEF NextCalled
<1> HIDE DEF kw
<1> QED BY <1>3, CalledTyped DEF KeyedOutputs

LEMMA FirstKvTyped ==
    ASSUME NEW States, Compresses(States), NEW seed \in Streams
    PROVE  << FirstKv(seed), << >> >> \in KeyedOutputs
<1> DEFINE s == FirstKv(seed)
<1>1. s[1] \in Streams /\ s[2] \in Streams
    BY RngInitializeIs, RngTyped
<1>2. s = << s[1], s[2] >>
    BY DEF FirstKv, Updated, WithValue
<1> HIDE DEF s
<1>3. << s, << >> >> \in KeyedOutputs
    BY <1>1, <1>2, EmptyStream DEF KeyedOutputs
<1> QED BY <1>3 DEF s

CallsOf(f, seed, calls, n) == /\ f[0] = << FirstKv(seed), << >> >>
                              /\ \A i \in 1 .. n : f[i] = NextCalled(i, f[i - 1][1], calls[i])

LEMMA AfterCallsIs ==
    ASSUME NEW States, Compresses(States), NEW seed \in Streams, NEW calls \in Seq(Nat),
           NEW n, n = Len(calls)
    PROVE  /\ n \in Nat
           /\ \E f \in [0 .. n -> KeyedOutputs] : CallsOf(f, seed, calls, n) /\ AfterCalls(seed, calls) = f[n]
<1> DEFINE g == [p \in (1 .. n) \X KeyedOutputs |-> NextCalled(p[1], p[2][1], calls[p[1]])]
           start == << FirstKv(seed), << >> >>
<1>1. n \in Nat /\ \A i \in 1 .. n : calls[i] \in Nat
    BY Elements
<1>2. start \in KeyedOutputs
    BY FirstKvTyped
<1>3. g \in [(1 .. n) \X KeyedOutputs -> KeyedOutputs]
  <2>1. ASSUME NEW i \in 1 .. n, NEW x \in KeyedOutputs PROVE NextCalled(i, x[1], calls[i]) \in KeyedOutputs
    <3>1. x[1] \in Streams \X Streams /\ i \in Nat /\ calls[i] \in Nat
        BY <1>1 DEF KeyedOutputs
    <3> QED BY <3>1, NextCalledTyped
  <2> QED BY <2>1
<1>4. \A i \in 1 .. n, x \in KeyedOutputs : g[<< i, x >>] = NextCalled(i, x[1], calls[i])
    OBVIOUS
<1> HIDE DEF g, start
<1>5. PICK h \in [0 .. n -> KeyedOutputs] : Iterates(h, start, g, n)
    BY <1>1, <1>2, <1>3, IteratesExist
<1> DEFINE Steps(f) == f = [i \in 0 .. n |-> IF i = 0 THEN start ELSE NextCalled(i, f[i - 1][1], calls[i])]
           after == CHOOSE f : Steps(f)
<1>6. ASSUME NEW i \in 0 .. n PROVE h[i] = IF i = 0 THEN start ELSE NextCalled(i, h[i - 1][1], calls[i])
  <2>1. h[i] = IF i = 0 THEN start ELSE g[<< i, h[i - 1] >>]
      BY <1>5 DEF Iterates
  <2>2. i # 0 => i \in 1 .. n /\ h[i - 1] \in KeyedOutputs
      BY <1>1, <1>5
  <2> QED BY <1>4, <2>1, <2>2
<1>7. Steps(h)
    BY <1>5, <1>6
<1>8. Steps(after)
    BY <1>7
<1>9. AfterCalls(seed, calls) = after[n]
    BY DEF AfterCalls, start
<1> HIDE DEF after
<1>10. \A i \in 0 .. n : after[i] = IF i = 0 THEN start ELSE NextCalled(i, after[i - 1][1], calls[i])
    BY <1>8
<1>11. \A i \in 0 .. n : after[i] = h[i]
  <2>1. after[0] = h[0]
      BY <1>1, <1>6, <1>10
  <2>2. ASSUME NEW i \in 1 .. n, after[i - 1] = h[i - 1] PROVE after[i] = h[i]
    <3>1. i \in 0 .. n /\ i # 0
        BY <1>1
    <3>2. h[i] = NextCalled(i, h[i - 1][1], calls[i])
        BY <1>6, <3>1
    <3>3. after[i] = NextCalled(i, after[i - 1][1], calls[i])
        BY <1>10, <3>1
    <3> QED BY <2>2, <3>2, <3>3
  <2>3. StepAlike(after, h, n)
      BY <2>1, <2>2 DEF StepAlike
  <2> QED BY <1>1, <2>3, SameSteps
<1>12. after[n] = h[n]
    BY <1>1, <1>11
<1>13. CallsOf(h, seed, calls, n)
    BY <1>1, <1>6 DEF CallsOf, start
<1> QED BY <1>1, <1>5, <1>9, <1>12, <1>13

LEMMA AfterCallsFacts ==
    ASSUME NEW States, Compresses(States), NEW seed \in Streams, NEW calls \in Seq(Nat), NEW n \in Nat
    PROVE  /\ AfterCalls(seed, << >>) = << FirstKv(seed), << >> >>
           /\ AfterCalls(seed, calls) \in KeyedOutputs
           /\ AfterCalls(seed, Append(calls, n)) = NextCalled(Len(calls) + 1, AfterCalls(seed, calls)[1], n)
<1> DEFINE l == Len(calls)
           more == Append(calls, n)
           m == Len(more)
<1>1. l \in Nat /\ more \in Seq(Nat) /\ m = l + 1 /\ more[l + 1] = n /\ \A i \in 1 .. l : more[i] = calls[i]
    OBVIOUS
<1>2. AfterCalls(seed, << >>) = << FirstKv(seed), << >> >>
  <2> DEFINE none == << >>
             z == 0
  <2>1. none \in Seq(Nat) /\ z = Len(none) /\ z \in Nat
      OBVIOUS
  <2> HIDE DEF none, z
  <2>2. PICK f \in [0 .. z -> KeyedOutputs] : CallsOf(f, seed, none, z) /\ AfterCalls(seed, none) = f[z]
      BY <2>1, AfterCallsIs
  <2> QED BY <2>2 DEF CallsOf, none, z
<1>3. l = Len(calls) /\ m = Len(more)
    OBVIOUS
<1> HIDE DEF l, more, m
<1>4. PICK f \in [0 .. l -> KeyedOutputs] : CallsOf(f, seed, calls, l) /\ AfterCalls(seed, calls) = f[l]
    BY <1>3, AfterCallsIs
<1>5. PICK h \in [0 .. m -> KeyedOutputs] : CallsOf(h, seed, more, m) /\ AfterCalls(seed, more) = h[m]
    BY <1>1, <1>3, AfterCallsIs
<1>6. m \in 1 .. m /\ m - 1 = l /\ \A i \in 1 .. l : i \in 1 .. m
    BY <1>1
<1>7. h[l] = f[l]
  <2>1. h[0] = f[0]
      BY <1>4, <1>5 DEF CallsOf
  <2>2. ASSUME NEW i \in 1 .. l, h[i - 1] = f[i - 1] PROVE h[i] = f[i]
    <3>1. h[i] = NextCalled(i, h[i - 1][1], more[i])
        BY <1>5, <1>6 DEF CallsOf
    <3>2. f[i] = NextCalled(i, f[i - 1][1], calls[i])
        BY <1>4 DEF CallsOf
    <3> QED BY <1>1, <2>2, <3>1, <3>2
  <2>3. StepAlike(h, f, l)
      BY <2>1, <2>2 DEF StepAlike
  <2> QED BY <1>1, <2>3, SameAt
<1>8. h[m] = NextCalled(m, h[l][1], more[m])
    BY <1>5, <1>6 DEF CallsOf
<1>9. f[l] \in KeyedOutputs
    BY <1>1, <1>4
<1>10. more[m] = n
    BY <1>1
<1>11. AfterCalls(seed, more) = NextCalled(l + 1, AfterCalls(seed, calls)[1], n)
    BY <1>1, <1>4, <1>5, <1>7, <1>8, <1>10
<1> QED BY <1>2, <1>4, <1>9, <1>11 DEF l, more

----------------------------------------------------------------------------
(* What the machine keeps: the object took the whole stream or the whole   *)
(* text of the MAC, and the generator is where the calls leave it.         *)
HashObjects(States) == [s : States, buf : Streams, bytes : Nat]
ShaWell(States) ==
    /\ hashing \in [sha : HashObjects(States), prefix : Streams, written : Streams]
    /\ Takes(States, hashing.sha, hashing.prefix \o hashing.written)
HmacWell(States) ==
    /\ hashing \in [hmac : [outer : HashObjects(States), inner : HashObjects(States)],
                    key : Streams, written : Streams]
    /\ MacTakes(States, hashing.hmac, hashing.key, hashing.written)
Follows(rng, after, again) == IsRng(rng, after[1][1], after[1][2], after[2], again)
RngWell ==
    /\ hashing \in [rng : Rngs, seed : Streams, calls : Seq(Nat)]
    /\ Follows(hashing.rng, AfterCalls(hashing.seed, hashing.calls), hashing.calls # << >>)
HashWell(States) == ShaWell(States) \/ HmacWell(States) \/ RngWell

LEMMA HashKinds ==
    ASSUME NEW States
    PROVE  /\ ShaWell(States) => Hashes("sha") /\ ~ Hashes("hmac") /\ ~ Hashes("rng")
           /\ HmacWell(States) => ~ Hashes("sha") /\ Hashes("hmac") /\ ~ Hashes("rng")
           /\ RngWell => ~ Hashes("sha") /\ ~ Hashes("hmac") /\ Hashes("rng")
<1>1. ShaWell(States) => DOMAIN hashing = {"sha", "prefix", "written"}
    BY DEF ShaWell
<1>2. HmacWell(States) => DOMAIN hashing = {"hmac", "key", "written"}
    BY DEF HmacWell
<1>3. RngWell => DOMAIN hashing = {"rng", "seed", "calls"}
    BY DEF RngWell
<1> QED BY <1>1, <1>2, <1>3 DEF Hashes

LEMMA ShaStarts ==
    ASSUME NEW States, Compresses(States), NEW sha, NEW prefix \in Streams, Takes(States, sha, prefix),
           hashing = [sha |-> sha, prefix |-> prefix, written |-> << >>]
    PROVE  ShaWell(States)
<1>1. sha \in HashObjects(States)
    BY DEF Takes, HashObjects
<1>2. << >> \in Streams /\ prefix \o << >> = prefix
    BY EmptyStream
<1>3. hashing.sha = sha /\ hashing.prefix = prefix /\ hashing.written = << >>
    OBVIOUS
<1>4. hashing \in [sha : HashObjects(States), prefix : Streams, written : Streams]
    BY <1>1, <1>2
<1> QED BY <1>2, <1>3, <1>4 DEF ShaWell

LEMMA TaggedTakes ==
    ASSUME NEW States, Compresses(States), NEW tag \in Streams
    PROVE  /\ WholeHash(tag) \o WholeHash(tag) \in Streams
           /\ Takes(States, InitializeTagged(tag), WholeHash(tag) \o WholeHash(tag))
<1> DEFINE x == WholeHash(tag)
<1>1. HashOf(tag) = x /\ x \in Streams
    BY HashOfIs
<1>2. InitializeTagged(tag) = Write(Write(Initialize, x), x)
    BY <1>1 DEF InitializeTagged, WrittenTwice
<1> HIDE DEF x
<1>3. Takes(States, Write(Initialize, x), x)
    BY <1>1, WriteFirst
<1>4. x \o x \in Streams /\ Takes(States, Write(Write(Initialize, x), x), x \o x)
    BY <1>1, <1>3, Joined, WriteTakes
<1> QED BY <1>2, <1>4 DEF x

LEMMA HmacStarts ==
    ASSUME NEW States, Compresses(States), NEW key \in Streams,
           hashing = [hmac |-> HmacInitialize(key), key |-> key, written |-> << >>]
    PROVE  HmacWell(States)
<1> DEFINE hmac == HmacInitialize(key)
<1>1. MacTakes(States, hmac, key, << >>) /\ << >> \in Streams
    BY HmacInitializeTakes, EmptyStream
<1> HIDE DEF hmac
<1>2. hmac \in [outer : HashObjects(States), inner : HashObjects(States)]
    BY <1>1 DEF MacTakes, HashObjects
<1>3. hashing = [hmac |-> hmac, key |-> key, written |-> << >>]
    BY DEF hmac
<1>4. hashing.hmac = hmac /\ hashing.key = key /\ hashing.written = << >>
    BY <1>3
<1>5. hashing \in [hmac : [outer : HashObjects(States), inner : HashObjects(States)], key : Streams, written : Streams]
    BY <1>1, <1>2, <1>3
<1> QED BY <1>1, <1>4, <1>5 DEF HmacWell

LEMMA RngStarts ==
    ASSUME NEW States, Compresses(States), NEW seed \in Streams,
           hashing = [rng |-> RngInitialize(seed), seed |-> seed, calls |-> << >>]
    PROVE  RngWell
<1> DEFINE rng == RngInitialize(seed)
           s == FirstKv(seed)
           a == << s, << >> >>
           none == << >>
<1>1. IsRng(rng, s[1], s[2], << >>, FALSE)
    BY RngInitializeIs
<1>2. none \in Seq(Nat) /\ 0 \in Nat
    OBVIOUS
<1>3. AfterCalls(seed, << >>) = a
    BY <1>2, AfterCallsFacts
<1>4. hashing = [rng |-> rng, seed |-> seed, calls |-> none]
    OBVIOUS
<1> HIDE DEF rng, s
<1>5. rng \in Rngs
    BY <1>1, RngTyped
<1>6. Follows(rng, a, none # << >>)
    BY <1>1 DEF Follows, IsRng
<1>7. a = AfterCalls(seed, none)
    BY <1>3
<1> HIDE DEF none, a
<1>8. hashing.rng = rng /\ hashing.seed = seed /\ hashing.calls = none
    BY <1>4
<1>9. hashing \in [rng : Rngs, seed : Streams, calls : Seq(Nat)]
    BY <1>2, <1>4, <1>5
<1> QED BY <1>6, <1>7, <1>8, <1>9 DEF RngWell

LEMMA HashInitWell ==
    ASSUME NEW States, Compresses(States), HashInit
    PROVE  HashWell(States)
<1>1. HashKeys \subseteq Streams
    BY BytesAssumption
<1>2. CASE hashing = [sha |-> Initialize, prefix |-> << >>, written |-> << >>]
    BY <1>2, InitializeTakes, EmptyStream, ShaStarts DEF HashWell
<1>3. ASSUME NEW tag \in HashKeys,
             hashing = [sha |-> InitializeTagged(tag), prefix |-> WholeHash(tag) \o WholeHash(tag), written |-> << >>]
      PROVE  HashWell(States)
    BY <1>1, <1>3, TaggedTakes, ShaStarts DEF HashWell
<1>4. ASSUME NEW key \in HashKeys, hashing = [hmac |-> HmacInitialize(key), key |-> key, written |-> << >>]
      PROVE  HashWell(States)
    BY <1>1, <1>4, HmacStarts DEF HashWell
<1>5. ASSUME NEW seed \in HashKeys, hashing = [rng |-> RngInitialize(seed), seed |-> seed, calls |-> << >>]
      PROVE  HashWell(States)
    BY <1>1, <1>5, RngStarts DEF HashWell
<1> QED BY <1>2, <1>3, <1>4, <1>5 DEF HashInit

----------------------------------------------------------------------------
LEMMA WriteShaWell ==
    ASSUME NEW States, Compresses(States), ShaWell(States), WriteSha
    PROVE  ShaWell(States)'
<1>1. PICK data \in Chunks :
         hashing' = [hashing EXCEPT !.sha = Write(@, data), !.written = @ \o data]
    BY DEF WriteSha
<1>2. data \in Streams
    BY BytesAssumption
<1> DEFINE sha == Write(hashing.sha, data)
           written == hashing.written \o data
           text == hashing.prefix \o hashing.written
<1>3. /\ hashing \in [sha : HashObjects(States), prefix : Streams, written : Streams]
      /\ Takes(States, hashing.sha, text)
    BY DEF ShaWell
<1>4. hashing.prefix \in Streams /\ hashing.written \in Streams
    BY <1>3
<1>5. text \in Streams /\ written \in Streams /\ text \o data = hashing.prefix \o written
  <2>1. text \in Streams /\ written \in Streams
      BY <1>2, <1>4, Joined
  <2>2. text \o data = hashing.prefix \o written
      BY <1>2, <1>4, JoinedAgain
  <2> QED BY <2>1, <2>2
<1> HIDE DEF text
<1>6. Takes(States, sha, hashing.prefix \o written)
    BY <1>2, <1>3, <1>5, WriteTakes
<1>7. sha \in HashObjects(States)
    BY <1>6 DEF Takes, HashObjects
<1>8. hashing' = [hashing EXCEPT !.sha = sha, !.written = written]
    BY <1>1
<1> HIDE DEF sha, written
<1>9. /\ hashing' \in [sha : HashObjects(States), prefix : Streams, written : Streams]
      /\ hashing'.sha = sha /\ hashing'.prefix = hashing.prefix /\ hashing'.written = written
    BY <1>3, <1>5, <1>7, <1>8
<1> QED BY <1>6, <1>9 DEF ShaWell

LEMMA WriteHmacWell ==
    ASSUME NEW States, Compresses(States), HmacWell(States), WriteHmac
    PROVE  HmacWell(States)'
<1>1. PICK data \in Chunks :
         hashing' = [hashing EXCEPT !.hmac = HmacWrite(@, data), !.written = @ \o data]
    BY DEF WriteHmac
<1>2. data \in Streams
    BY BytesAssumption
<1> DEFINE hmac == HmacWrite(hashing.hmac, data)
           written == hashing.written \o data
           macs == [outer : HashObjects(States), inner : HashObjects(States)]
<1>3. /\ hashing \in [hmac : macs, key : Streams, written : Streams]
      /\ MacTakes(States, hashing.hmac, hashing.key, hashing.written)
    BY DEF HmacWell
<1>4. hashing.key \in Streams /\ hashing.written \in Streams
    BY <1>3
<1>5. written \in Streams
    BY <1>2, <1>4, Joined
<1>6. MacTakes(States, hmac, hashing.key, written)
    BY <1>2, <1>3, <1>4, HmacWriteTakes
<1>7. hmac \in macs
    BY <1>6 DEF MacTakes, HashObjects
<1>8. hashing' = [hashing EXCEPT !.hmac = hmac, !.written = written]
    BY <1>1
<1> HIDE DEF hmac, written, macs
<1>9. /\ hashing' \in [hmac : macs, key : Streams, written : Streams]
      /\ hashing'.hmac = hmac /\ hashing'.key = hashing.key /\ hashing'.written = written
    BY <1>3, <1>5, <1>7, <1>8
<1> QED BY <1>6, <1>9 DEF HmacWell, macs

LEMMA HashGenerateWell ==
    ASSUME NEW States, Compresses(States), RngWell, HashGenerate
    PROVE  RngWell'
<1>1. PICK n \in OutLengths :
         hashing' = [hashing EXCEPT !.rng = RngGenerate(@, n), !.calls = Append(@, n)]
    BY DEF HashGenerate
<1>2. n \in Nat
    BY BytesAssumption
<1> DEFINE rng == RngGenerate(hashing.rng, n)
           seed == hashing.seed
           calls == hashing.calls
           more == Append(calls, n)
           i == Len(calls) + 1
           after == AfterCalls(seed, calls)
           next == NextCalled(i, after[1], n)
<1>3. /\ hashing \in [rng : Rngs, seed : Streams, calls : Seq(Nat)]
      /\ Follows(hashing.rng, after, calls # << >>)
    BY DEF RngWell
<1>4. seed \in Streams /\ calls \in Seq(Nat)
    BY <1>3
<1>5. i \in Nat /\ (i # 1 <=> calls # << >>) /\ more \in Seq(Nat) /\ more # << >>
    BY <1>2, <1>4
<1>6. after \in KeyedOutputs /\ AfterCalls(seed, more) = next
    BY <1>2, <1>4, AfterCallsFacts
<1>7. hashing' = [hashing EXCEPT !.rng = rng, !.calls = more]
    BY <1>1
<1> HIDE DEF i, after
<1>8. after[1] \in Streams \X Streams
    BY <1>6 DEF KeyedOutputs
<1>9. IsRng(hashing.rng, after[1][1], after[1][2], after[2], i # 1)
    BY <1>3, <1>5 DEF Follows, IsRng
<1>10. IsRng(rng, next[1][1], next[1][2], next[2], TRUE)
    BY <1>2, <1>5, <1>8, <1>9, RngGenerateIs
<1> HIDE DEF rng, next
<1>11. Follows(rng, next, more # << >>)
    BY <1>5, <1>10 DEF Follows, IsRng
<1>12. rng \in Rngs
    BY <1>10, RngTyped
<1> HIDE DEF more
<1>13. /\ hashing' \in [rng : Rngs, seed : Streams, calls : Seq(Nat)]
       /\ hashing'.rng = rng /\ hashing'.seed = seed /\ hashing'.calls = more
    BY <1>3, <1>5, <1>7, <1>12
<1> HIDE DEF seed, calls
<1> QED BY <1>6, <1>11, <1>13 DEF RngWell

LEMMA HashNextWell ==
    ASSUME NEW States, Compresses(States), HashWell(States), [HashNext]_hashVars
    PROVE  HashWell(States)'
<1>1. CASE UNCHANGED hashVars
  <2>1. hashing' = hashing
      BY <1>1 DEF hashVars
  <2> QED BY <2>1 DEF HashWell, ShaWell, HmacWell, RngWell
<1>2. CASE WriteSha
  <2>1. ShaWell(States)
      BY <1>2, HashKinds DEF HashWell, WriteSha
  <2> QED BY <1>2, <2>1, WriteShaWell DEF HashWell
<1>3. CASE WriteHmac
  <2>1. HmacWell(States)
      BY <1>3, HashKinds DEF HashWell, WriteHmac
  <2> QED BY <1>3, <2>1, WriteHmacWell DEF HashWell
<1>4. CASE HashGenerate
  <2>1. RngWell
      BY <1>4, HashKinds DEF HashWell, HashGenerate
  <2> QED BY <1>4, <2>1, HashGenerateWell DEF HashWell
<1> QED BY <1>1, <1>2, <1>3, <1>4 DEF HashNext

LEMMA WellAgrees ==
    ASSUME NEW States, Compresses(States), HashWell(States)
    PROVE  HashesAgree
<1>1. CASE ShaWell(States)
  <2> DEFINE text == hashing.prefix \o hashing.written
  <2>1. hashing.prefix \in Streams /\ hashing.written \in Streams /\ Takes(States, hashing.sha, text)
      BY <1>1 DEF ShaWell
  <2>2. text \in Streams
      BY <2>1, Joined
  <2>3. Finalize(hashing.sha) = WholeHash(text)
      BY <2>1, <2>2, FinalizeIs
  <2> QED BY <1>1, <2>3, HashKinds DEF HashesAgree
<1>2. CASE HmacWell(States)
  <2>1. /\ hashing.key \in Streams /\ hashing.written \in Streams
        /\ MacTakes(States, hashing.hmac, hashing.key, hashing.written)
      BY <1>2 DEF HmacWell
  <2>2. HmacFinalize(hashing.hmac) = WholeHmac(hashing.key, hashing.written)
      BY <2>1, HmacFinalizeIs
  <2> QED BY <1>2, <2>2, HashKinds DEF HashesAgree
<1>3. CASE RngWell
  <2>1. hashing.rng.out = AfterCalls(hashing.seed, hashing.calls)[2]
      BY <1>3 DEF RngWell, Follows, IsRng
  <2> QED BY <1>3, <2>1, HashKinds DEF HashesAgree
<1> QED BY <1>1, <1>2, <1>3 DEF HashWell

(* For every function that compresses blocks, every key, tag and seed,     *)
(* every text in every chunks and every sequence of calls, of any lengths, *)
(* the code gives the hash and the MAC of the whole text and the numbers   *)
(* of RFC 6979 (hash_impl.h).                                              *)
THEOREM HashesAlwaysAgree ==
    ASSUME NEW CONSTANT States, Compresses(States)
    PROVE  HashSpec => []HashesAgree
<1>1. HashInit => HashWell(States)
    BY HashInitWell
<1>2. HashWell(States) /\ [HashNext]_hashVars => HashWell(States)'
    BY HashNextWell
<1>3. HashWell(States) => HashesAgree
    BY WellAgrees
<1> QED BY <1>1, <1>2, <1>3, PTL DEF HashSpec

----------------------------------------------------------------------------
(* Strings of bytes, and their rests.                                      *)
Data == Seq(Bytes)
From(in, p) == SubSeq(in, p, Len(in))

LEMMA DataTyped == ASSUME NEW x \in Data PROVE Len(x) \in Nat /\ \A i \in 1 .. Len(x) : x[i] \in Bytes
<1> HIDE DEF Bytes
<1> QED BY Elements DEF Data

LEMMA DataBytes == ASSUME NEW b \in Bytes PROVE b \in 0 .. 255 /\ b \in 0 .. Base - 1 /\ b \in Int
  BY SizesAssumption DEF Bytes

LEMMA DataSame ==
    ASSUME NEW x \in Data, NEW y \in Data, Len(x) = Len(y), \A i \in 1 .. Len(x) : x[i] = y[i]
    PROVE  x = y
  BY DEF Data

LEMMA DataPart ==
    ASSUME NEW x \in Data, NEW a \in Nat, NEW b \in Nat, a <= b, b <= Len(x)
    PROVE  /\ SubSeq(x, a + 1, b) \in Data /\ Len(SubSeq(x, a + 1, b)) = b - a
           /\ \A i \in 1 .. b - a : SubSeq(x, a + 1, b)[i] = x[a + i]
<1>1. \A i \in a + 1 .. b : x[i] \in Bytes
  <2>1. Len(x) \in Nat /\ \A i \in 1 .. Len(x) : x[i] \in Bytes
      BY DataTyped
  <2>2. \A i \in a + 1 .. b : i \in 1 .. Len(x)
      BY <2>1
  <2> QED BY <2>1, <2>2
<1>2. a + 1 \in Int /\ b \in Int
    OBVIOUS
<1>3. /\ SubSeq(x, a + 1, b) \in Seq(Bytes)
      /\ Len(SubSeq(x, a + 1, b)) = IF a + 1 <= b THEN b - (a + 1) + 1 ELSE 0
      /\ \A i \in 1 .. b - (a + 1) + 1 : SubSeq(x, a + 1, b)[i] = x[a + 1 + i - 1]
    BY <1>1, <1>2, SubSeqProperties
<1> QED BY <1>3 DEF Data

LEMMA DataJoined ==
    ASSUME NEW x \in Data, NEW y \in Data
    PROVE  /\ x \o y \in Data /\ Len(x \o y) = Len(x) + Len(y)
           /\ \A i \in 1 .. Len(x) : (x \o y)[i] = x[i]
           /\ \A i \in 1 .. Len(y) : (x \o y)[Len(x) + i] = y[i]
<1>1. /\ x \o y \in Seq(Bytes) /\ Len(x \o y) = Len(x) + Len(y)
      /\ \A i \in 1 .. Len(x) + Len(y) : (x \o y)[i] = IF i <= Len(x) THEN x[i] ELSE y[i - Len(x)]
    BY ConcatProperties DEF Data
<1>2. Len(x) \in Nat /\ Len(y) \in Nat
    BY DEF Data
<1> QED BY <1>1, <1>2 DEF Data

LEMMA DataAgain == ASSUME NEW x \in Data, NEW y \in Data, NEW z \in Data PROVE (x \o y) \o z = x \o (y \o z)
  BY DEF Data

(* The three join the same in either order.                                *)
Again(x, y, z) == (x \o y) \o z = x \o (y \o z)

LEMMA DataAgainHolds == ASSUME NEW x \in Data, NEW y \in Data, NEW z \in Data PROVE Again(x, y, z)
  BY DataAgain DEF Again

LEMMA DataSingle == ASSUME NEW b \in Bytes PROVE << b >> \in Data /\ Len(<< b >>) = 1 /\ << b >>[1] = b
  BY DEF Data

LEMMA DataDouble == ASSUME NEW b \in Bytes, NEW c \in Bytes
                    PROVE  << b, c >> \in Data /\ Len(<< b, c >>) = 2 /\ << b, c >>[1] = b /\ << b, c >>[2] = c
  BY DEF Data

LEMMA DataZeros == ASSUME NEW n \in Nat PROVE /\ [i \in 1 .. n |-> 0] \in Data /\ Len([i \in 1 .. n |-> 0]) = n
                                              /\ \A i \in 1 .. n : [j \in 1 .. n |-> 0][i] = 0
  BY SizesAssumption DEF Data, Bytes

(* The rest of a string after its first part, and a string in parts.       *)
Parted(in, p, x, y) ==
    /\ p + Len(x) \in 1 .. Len(in) + 1 /\ Len(y) = Len(in) - (p + Len(x)) + 1
    /\ From(in, p + Len(x)) = y
    /\ SubSeq(in, p, p + Len(x) - 1) = x
    /\ \A i \in 1 .. Len(x) : in[p - 1 + i] = x[i]

LEMMA Split ==
    ASSUME NEW in \in Data, NEW p \in 1 .. Len(in) + 1, NEW x \in Data, NEW y \in Data, From(in, p) = x \o y
    PROVE  Parted(in, p, x, y)
<1>1. Len(in) \in Nat /\ Len(x) \in Nat /\ Len(y) \in Nat
    BY DataTyped
<1> DEFINE a == p - 1
           q == a + Len(x)
           n == Len(in)
           z == SubSeq(in, a + 1, n)
<1>2. a \in Nat /\ n \in Nat /\ a <= n /\ p = a + 1 /\ n = Len(in) /\ q = a + Len(x)
    BY <1>1
<1> HIDE DEF a, q, n
<1>3. /\ z \in Data /\ Len(z) = n - a
      /\ \A i \in 1 .. n - a : z[i] = in[a + i]
  <2>1. in \in Data /\ a \in Nat /\ n \in Nat /\ a <= n /\ n <= Len(in)
      BY <1>1, <1>2
  <2> QED BY ONLY <2>1, DataPart
<1>4. /\ Len(x \o y) = Len(x) + Len(y)
      /\ \A i \in 1 .. Len(x) : (x \o y)[i] = x[i]
      /\ \A i \in 1 .. Len(y) : (x \o y)[Len(x) + i] = y[i]
    BY DataJoined
<1>5. z = x \o y
    BY <1>2 DEF From
<1>6. q \in Nat /\ a <= q /\ q <= n /\ n - q = Len(y) /\ n - a = Len(x) + Len(y) /\ q - a = Len(x)
    BY <1>1, <1>2, <1>3, <1>4, <1>5
<1> DEFINE u == SubSeq(in, q + 1, n)
           v == SubSeq(in, a + 1, q)
<1> HIDE DEF z
<1>7. /\ u \in Data /\ Len(u) = n - q
      /\ \A i \in 1 .. n - q : u[i] = in[q + i]
  <2>1. in \in Data /\ q \in Nat /\ n \in Nat /\ q <= n /\ n <= Len(in)
      BY <1>1, <1>2, <1>6
  <2> QED BY ONLY <2>1, DataPart
<1>8. /\ v \in Data /\ Len(v) = q - a
      /\ \A i \in 1 .. q - a : v[i] = in[a + i]
    BY <1>2, <1>6, DataPart
<1> HIDE DEF z, u, v
<1>9. \A i \in 1 .. Len(x) : in[a + i] = x[i]
  <2> SUFFICES ASSUME NEW i \in 1 .. Len(x) PROVE in[a + i] = x[i]
      OBVIOUS
  <2>1. i \in 1 .. n - a
      BY <1>1, <1>6
  <2> QED BY <1>3, <1>4, <1>5, <2>1
<1>10. u = y
  <2>1. ASSUME NEW i \in 1 .. Len(u) PROVE u[i] = y[i]
    <3>1. i \in 1 .. n - q /\ i \in 1 .. Len(y) /\ Len(x) + i \in 1 .. n - a /\ a + (Len(x) + i) = q + i
        BY <1>1, <1>2, <1>6, <1>7
    <3>2. u[i] = in[q + i] /\ z[Len(x) + i] = in[a + (Len(x) + i)] /\ (x \o y)[Len(x) + i] = y[i]
        BY <1>3, <1>4, <1>7, <3>1
    <3> QED BY <1>5, <3>1, <3>2
  <2>2. Len(u) = Len(y)
      BY <1>6, <1>7
  <2> QED BY <1>7, <2>1, <2>2, DataSame
<1>11. v = x
  <2>1. Len(v) = Len(x) /\ \A i \in 1 .. Len(v) : v[i] = x[i]
      BY <1>6, <1>8, <1>9
  <2> QED BY <1>8, <2>1, DataSame
<1>12. p + Len(x) = q + 1 /\ p + Len(x) - 1 = q
    BY <1>1, <1>2
<1>13. From(in, p + Len(x)) = u /\ SubSeq(in, p, p + Len(x) - 1) = v /\ p + Len(x) \in 1 .. Len(in) + 1
    BY <1>1, <1>2, <1>6, <1>12 DEF From, u, v
<1>14. Len(y) = Len(in) - (p + Len(x)) + 1 /\ \A i \in 1 .. Len(x) : p - 1 + i = a + i
  <2>1. /\ a \in Nat /\ n \in Nat /\ Len(x) \in Nat /\ Len(y) \in Nat
        /\ p = a + 1 /\ n = Len(in) /\ q = a + Len(x) /\ n - q = Len(y)
      BY <1>1, <1>2, <1>6
  <2>2. Len(y) = Len(in) - (p + Len(x)) + 1
      BY ONLY <2>1
  <2>3. \A i \in 1 .. Len(x) : p - 1 + i = a + i
      BY ONLY <2>1
  <2> QED BY ONLY <2>2, <2>3
<1>15. \A i \in 1 .. Len(x) : in[p - 1 + i] = x[i]
    BY <1>9, <1>14
<1> QED BY <1>10, <1>11, <1>13, <1>14, <1>15 DEF Parted

LEMMA Unsplit ==
    ASSUME NEW in \in Data, NEW p \in 1 .. Len(in) + 1, NEW k \in Nat, p + k <= Len(in) + 1
    PROVE  /\ SubSeq(in, p, p + k - 1) \in Data /\ Len(SubSeq(in, p, p + k - 1)) = k
           /\ From(in, p + k) \in Data /\ Len(From(in, p + k)) = Len(in) - (p + k) + 1
           /\ From(in, p) = SubSeq(in, p, p + k - 1) \o From(in, p + k)
           /\ \A i \in 1 .. k : SubSeq(in, p, p + k - 1)[i] = in[p - 1 + i]
<1>1. Len(in) \in Nat
    BY DataTyped
<1> DEFINE a == p - 1
           q == a + k
           n == Len(in)
           x == SubSeq(in, a + 1, q)
           y == SubSeq(in, q + 1, n)
           z == SubSeq(in, a + 1, n)
<1>2. a \in Nat /\ n \in Nat /\ a <= n /\ p = a + 1 /\ n = Len(in) /\ q = a + k /\ q \in Nat /\ a <= q /\ q <= n
    BY <1>1
<1> HIDE DEF a, q, n
<1>3. z \in Data /\ Len(z) = n - a /\ \A i \in 1 .. n - a : z[i] = in[a + i]
  <2>1. in \in Data /\ a \in Nat /\ n \in Nat /\ a <= n /\ n <= Len(in)
      BY <1>1, <1>2
  <2> QED BY ONLY <2>1, DataPart
<1>4. x \in Data /\ Len(x) = q - a /\ \A i \in 1 .. q - a : x[i] = in[a + i]
    BY <1>2, DataPart
<1>5. y \in Data /\ Len(y) = n - q /\ \A i \in 1 .. n - q : y[i] = in[q + i]
  <2>1. in \in Data /\ q \in Nat /\ n \in Nat /\ q <= n /\ n <= Len(in)
      BY <1>1, <1>2
  <2> QED BY ONLY <2>1, DataPart
<1> HIDE DEF x, y, z
<1>6. /\ x \o y \in Data /\ Len(x \o y) = Len(x) + Len(y)
      /\ \A i \in 1 .. Len(x) : (x \o y)[i] = x[i]
      /\ \A i \in 1 .. Len(y) : (x \o y)[Len(x) + i] = y[i]
    BY <1>4, <1>5, DataJoined
<1>7. q - a = k /\ Len(z) = Len(x \o y)
    BY <1>2, <1>3, <1>4, <1>5, <1>6
<1>8. ASSUME NEW i \in 1 .. Len(z) PROVE z[i] = (x \o y)[i]
  <2>1. CASE i \in 1 .. k
      BY <1>3, <1>4, <1>6, <1>7, <2>1
  <2>2. CASE i \notin 1 .. k
    <3> DEFINE j == i - k
    <3>1. j \in 1 .. n - q /\ i = Len(x) + j /\ q + j = a + i
        BY <1>2, <1>3, <1>4, <1>7, <2>2
    <3> HIDE DEF j
    <3>2. (x \o y)[i] = y[j] /\ y[j] = in[q + j] /\ z[i] = in[a + i]
        BY <1>3, <1>5, <1>6, <3>1
    <3> QED BY <3>1, <3>2
  <2> QED BY <2>1, <2>2
<1>9. z = x \o y
    BY <1>3, <1>6, <1>7, <1>8, DataSame
<1>10. p + k = q + 1 /\ p + k - 1 = q
    BY <1>2
<1>11. From(in, p + k) = y /\ SubSeq(in, p, p + k - 1) = x /\ From(in, p) = z
    BY <1>2, <1>10 DEF From, x, y, z
<1>12. Len(in) - (p + k) + 1 = n - q /\ \A i \in 1 .. k : p - 1 + i = a + i
    BY <1>1, <1>2
<1>13. \A i \in 1 .. k : x[i] = in[p - 1 + i]
    BY <1>4, <1>7, <1>12
<1> QED BY <1>4, <1>5, <1>7, <1>9, <1>11, <1>12, <1>13

LEMMA BaseTyped == /\ Base \in Nat \ {0} /\ Base > 4 /\ Base <= 256
                   /\ Top \in Nat /\ Top > 2 /\ 2 * Top = Base /\ Bytes = 0 .. Base - 1
  BY SizesAssumption DEF Top, Bytes

LEMMA NextTimes == ASSUME NEW m \in Nat, NEW w \in Nat, NEW c \in Nat, m < w PROVE m * c + c <= w * c
<1> DEFINE d == w - (m + 1)
<1>1. d \in Nat /\ w = m + 1 + d
    OBVIOUS
<1> HIDE DEF d
<1>2. w * c = m * c + c + d * c /\ d * c \in Nat
    BY <1>1
<1>3. m * c \in Nat
    OBVIOUS
<1> QED BY <1>2, <1>3

LEMMA BeyondIs ==
    ASSUME NEW j \in Nat
    PROVE  \E f \in [0 .. j -> Nat \ {0}] : /\ f[0] = 1 /\ \A i \in 1 .. j : f[i] = f[i - 1] * Base
                                            /\ Beyond(j) = f[j]
<1> DEFINE D == Nat \ {0}
           g == [p \in (1 .. j) \X D |-> p[2] * Base]
<1>1. g \in [(1 .. j) \X D -> D] /\ 1 \in D
    BY BaseTyped
<1>2. \A i \in 1 .. j, x \in D : g[<< i, x >>] = x * Base
    OBVIOUS
<1> HIDE DEF g, D
<1>3. PICK h \in [0 .. j -> D] : Iterates(h, 1, g, j)
    BY <1>1, IteratesExist
<1> DEFINE Steps(f) == f = [i \in 0 .. j |-> IF i = 0 THEN 1 ELSE f[i - 1] * Base]
           beyond == CHOOSE f : Steps(f)
<1>4. ASSUME NEW i \in 0 .. j PROVE h[i] = IF i = 0 THEN 1 ELSE h[i - 1] * Base
  <2>1. h[i] = IF i = 0 THEN 1 ELSE g[<< i, h[i - 1] >>]
      BY <1>3 DEF Iterates
  <2>2. i # 0 => i \in 1 .. j /\ h[i - 1] \in D
      BY <1>3
  <2> QED BY <1>2, <2>1, <2>2
<1>5. Steps(h)
    BY <1>3, <1>4
<1>6. Steps(beyond)
    BY <1>5
<1>7. Beyond(j) = beyond[j]
    BY DEF Beyond
<1> HIDE DEF beyond
<1>8. \A i \in 0 .. j : beyond[i] = IF i = 0 THEN 1 ELSE beyond[i - 1] * Base
    BY <1>6
<1>9. \A i \in 0 .. j : beyond[i] = h[i]
  <2>1. \A i \in 1 .. j : beyond[i] = beyond[i - 1] * Base /\ h[i] = h[i - 1] * Base
      BY <1>4, <1>8
  <2>2. beyond[0] = h[0]
      BY <1>4, <1>8
  <2>3. StepAlike(beyond, h, j)
      BY <2>1, <2>2 DEF StepAlike
  <2> QED BY <2>3, SameSteps
<1>10. beyond = h
    BY <1>3, <1>6, <1>9
<1>11. h \in [0 .. j -> Nat \ {0}]
    BY <1>3 DEF D
<1>12. h[0] = 1 /\ \A i \in 1 .. j : h[i] = h[i - 1] * Base
    BY <1>4
<1> QED BY <1>7, <1>10, <1>11, <1>12

LEMMA BeyondFacts == ASSUME NEW j \in Nat
    PROVE Beyond(j) \in Nat \ {0} /\ Beyond(0) = 1 /\ Beyond(j + 1) = Beyond(j) * Base
<1>1. PICK f \in [0 .. j -> Nat \ {0}] : /\ f[0] = 1 /\ \A i \in 1 .. j : f[i] = f[i - 1] * Base
                                         /\ Beyond(j) = f[j]
    BY BeyondIs
<1> DEFINE m == j + 1
<1>2. m \in Nat /\ m \in 1 .. m /\ m - 1 = j /\ \A i \in 1 .. j : i \in 1 .. m
    OBVIOUS
<1> HIDE DEF m
<1>3. PICK e \in [0 .. m -> Nat \ {0}] : /\ e[0] = 1 /\ \A i \in 1 .. m : e[i] = e[i - 1] * Base
                                         /\ Beyond(m) = e[m]
    BY <1>2, BeyondIs
<1>4. e[j] = f[j]
  <2>1. StepAlike(e, f, j)
      BY <1>1, <1>2, <1>3 DEF StepAlike
  <2> QED BY <2>1, SameAt
<1>6. e[j] = f[j] /\ e[m] = e[j] * Base
    BY <1>2, <1>3, <1>4
<1>5. Beyond(0) = 1
  <2>1. \E w \in [0 .. 0 -> Nat \ {0}] : w[0] = 1 /\ Beyond(0) = w[0]
      BY BeyondIs
  <2> QED BY <2>1
<1>7. Beyond(m) = Beyond(j) * Base
    BY <1>1, <1>3, <1>6
<1> QED BY <1>1, <1>5, <1>7 DEF m

(* The values of the first bytes of a string.                              *)
Values(f, x) == f[0] = 0 /\ \A i \in 1 .. Len(x) : f[i] = f[i - 1] * Base + x[i]

LEMMA ValueOfIs ==
    ASSUME NEW x \in Data
    PROVE  \E f \in [0 .. Len(x) -> Nat] : Values(f, x) /\ ValueOf(x) = f[Len(x)]
<1> DEFINE n == Len(x)
           g == [p \in (1 .. n) \X Nat |-> p[2] * Base + x[p[1]]]
<1>1. n \in Nat /\ \A i \in 1 .. n : x[i] \in Nat
    BY DataTyped, BaseTyped
<1> HIDE DEF n
<1>2. g \in [(1 .. n) \X Nat -> Nat] /\ 0 \in Nat
    BY <1>1, BaseTyped
<1>3. \A i \in 1 .. n, v \in Nat : g[<< i, v >>] = v * Base + x[i]
    OBVIOUS
<1> HIDE DEF g
<1>4. PICK h \in [0 .. n -> Nat] : Iterates(h, 0, g, n)
    BY <1>1, <1>2, IteratesExist
<1> DEFINE Steps(f) == f = [k \in 0 .. n |-> IF k = 0 THEN 0 ELSE f[k - 1] * Base + x[k]]
           value == CHOOSE f : Steps(f)
<1>5. ASSUME NEW i \in 0 .. n PROVE h[i] = IF i = 0 THEN 0 ELSE h[i - 1] * Base + x[i]
  <2>1. h[i] = IF i = 0 THEN 0 ELSE g[<< i, h[i - 1] >>]
      BY <1>4 DEF Iterates
  <2>2. i # 0 => i \in 1 .. n /\ h[i - 1] \in Nat
      BY <1>1, <1>4
  <2> QED BY <1>3, <2>1, <2>2
<1>6. Steps(h)
    BY <1>4, <1>5
<1>7. Steps(value)
    BY <1>6
<1>8. ValueOf(x) = value[n]
    BY DEF ValueOf, n
<1> HIDE DEF value
<1>9. \A i \in 0 .. n : value[i] = IF i = 0 THEN 0 ELSE value[i - 1] * Base + x[i]
    BY <1>7
<1>10. \A i \in 0 .. n : value[i] = h[i]
  <2>1. \A i \in 1 .. n : value[i] = value[i - 1] * Base + x[i] /\ h[i] = h[i - 1] * Base + x[i]
      BY <1>1, <1>5, <1>9
  <2>2. value[0] = h[0]
      BY <1>1, <1>5, <1>9
  <2>3. StepAlike(value, h, n)
      BY <2>1, <2>2 DEF StepAlike
  <2> QED BY <1>1, <2>3, SameSteps
<1>11. value = h
    BY <1>4, <1>7, <1>10
<1>12. h[0] = 0 /\ \A i \in 1 .. n : h[i] = h[i - 1] * Base + x[i]
    BY <1>1, <1>5
<1>13. Values(h, x)
    BY <1>12 DEF Values, n
<1>14. h \in [0 .. Len(x) -> Nat] /\ ValueOf(x) = h[Len(x)]
    BY <1>4, <1>8, <1>11 DEF n
<1> QED BY <1>13, <1>14

LEMMA ValuesOnly ==
    ASSUME NEW x \in Data, NEW f, Values(f, x)
    PROVE  ValueOf(x) = f[Len(x)]
<1>1. PICK h \in [0 .. Len(x) -> Nat] : Values(h, x) /\ ValueOf(x) = h[Len(x)]
    BY ValueOfIs
<1>2. Len(x) \in Nat
    BY DataTyped
<1>3. StepAlike(h, f, Len(x))
    BY <1>1 DEF StepAlike, Values
<1> QED BY <1>1, <1>2, <1>3, SameAt

(* A value is below the power of the base, and at least the first byte     *)
(* times the base if there are more bytes.                                 *)
LEMMA ValueBounds ==
    ASSUME NEW x \in Data
    PROVE  /\ ValueOf(x) \in Nat /\ ValueOf(x) < Beyond(Len(x))
           /\ Len(x) = 0 => ValueOf(x) = 0
           /\ Len(x) = 1 => ValueOf(x) = x[1]
           /\ Len(x) >= 2 /\ x[1] # 0 => ValueOf(x) >= Base
<1>1. PICK f \in [0 .. Len(x) -> Nat] : Values(f, x) /\ ValueOf(x) = f[Len(x)]
    BY ValueOfIs
<1> DEFINE n == Len(x)
<1>2. n \in Nat /\ \A i \in 1 .. n : x[i] \in 0 .. Base - 1
    BY DataTyped, BaseTyped
<1>3. f \in [0 .. n -> Nat] /\ f[0] = 0 /\ \A i \in 1 .. n : f[i] = f[i - 1] * Base + x[i]
    BY <1>1 DEF Values
<1>4. ValueOf(x) = f[n]
    BY <1>1
<1> HIDE DEF n
<1>5. Base \in Nat /\ Base > 4
    BY BaseTyped
<1>6. ASSUME NEW i \in 1 .. n, f[i - 1] < Beyond(i - 1) PROVE f[i] < Beyond(i)
  <2> DEFINE j == i - 1
             m == f[j]
             w == Beyond(j)
  <2>1. j \in Nat /\ j + 1 = i /\ j \in 0 .. n
      BY <1>2
  <2>2. m \in Nat
      BY <1>3, <2>1
  <2>3. w \in Nat /\ Beyond(i) = w * Base
      BY <2>1, BeyondFacts
  <2>4. m < w /\ f[i] = m * Base + x[i]
      BY <1>3, <1>6, <2>1
  <2> HIDE DEF m, w, j
  <2>5. m * Base + Base <= w * Base
      BY <1>5, <2>2, <2>3, <2>4, NextTimes
  <2>6. m * Base \in Nat /\ w * Base \in Nat /\ x[i] < Base /\ x[i] \in Nat
      BY <1>2, <1>5, <2>2, <2>3
  <2> QED BY <1>5, <2>3, <2>4, <2>5, <2>6
<1>7. f[n] < Beyond(n)
  <2> DEFINE T == {i \in 0 .. n : f[i] < Beyond(i)}
  <2>1. 0 \in T
    <3>1. Beyond(0) = 1
        BY BeyondFacts
    <3> QED BY <1>2, <1>3, <3>1
  <2>2. \A i \in 1 .. n : i - 1 \in T => i \in T
      BY <1>6
  <2> HIDE DEF T
  <2>3. \A i \in 0 .. n : i \in T
      BY <1>2, <2>1, <2>2, UpTo
  <2>4. n \in T
      BY <1>2, <2>3
  <2> QED BY <2>4 DEF T
<1>8. n = 1 => f[n] = x[1]
    BY <1>2, <1>3, <1>5
<1>9. ASSUME n >= 2, x[1] # 0 PROVE f[n] >= Base
  <2>0. 1 \in 1 .. n /\ x[1] \in Nat /\ x[1] >= 1
      BY <1>2, <1>9
  <2>1. f[1] = x[1] /\ f[1] >= 1
    <3>1. f[1] = f[1 - 1] * Base + x[1]
        BY <1>3, <2>0
    <3>2. f[1] = 0 * Base + x[1]
        BY <1>3, <3>1
    <3> QED BY <1>5, <2>0, <3>2
  <2> DEFINE T == {i \in 0 .. n - 1 : f[i + 1] >= 1}
  <2>2. 0 \in T
      BY <1>9, <2>1
  <2>3. \A i \in 1 .. n - 1 : i - 1 \in T => i \in T
    <3> SUFFICES ASSUME NEW i \in 1 .. n - 1, f[i] >= 1 PROVE f[i + 1] >= 1
        OBVIOUS
    <3>1. i + 1 \in 1 .. n /\ i \in 0 .. n
        BY <1>2
    <3>2. f[i + 1] = f[i] * Base + x[i + 1] /\ x[i + 1] \in 0 .. Base - 1 /\ f[i] \in Nat
        BY <1>2, <1>3, <3>1, SMTT(20)
    <3> QED BY <1>5, <3>2
  <2> HIDE DEF T
  <2>4. \A i \in 0 .. n - 1 : i \in T
    <3>1. n - 1 \in Nat
        BY <1>2, <1>9
    <3> QED BY <2>2, <2>3, <3>1, UpTo
  <2>5. f[n - 1] >= 1
    <3>1. n - 2 \in 0 .. n - 1 /\ n - 2 + 1 = n - 1
        BY <1>2, <1>9
    <3> QED BY <2>4, <3>1 DEF T
  <2>6. f[n] = f[n - 1] * Base + x[n] /\ x[n] \in 0 .. Base - 1 /\ f[n - 1] \in Nat
      BY <1>2, <1>3, <1>9
  <2> QED BY <1>5, <2>5, <2>6
<1> QED BY <1>2, <1>3, <1>4, <1>7, <1>8, <1>9 DEF n

LEMMA ZerosBefore ==
    ASSUME NEW n \in Nat, NEW x \in Data, NEW z \in Data, Len(z) = n, \A i \in 1 .. n : z[i] = 0
    PROVE  ValueOf(z \o x) = ValueOf(x)
<1>1. /\ z \o x \in Data /\ Len(z \o x) = n + Len(x)
      /\ \A i \in 1 .. n : (z \o x)[i] = 0
      /\ \A i \in 1 .. Len(x) : (z \o x)[n + i] = x[i]
    BY DataJoined
<1>2. PICK f \in [0 .. Len(x) -> Nat] : Values(f, x) /\ ValueOf(x) = f[Len(x)]
    BY ValueOfIs
<1> DEFINE m == Len(x)
           y == z \o x
           h == [i \in 0 .. n + m |-> IF i <= n THEN 0 ELSE f[i - n]]
<1>3. m \in Nat /\ f[0] = 0 /\ \A i \in 1 .. m : f[i] = f[i - 1] * Base + x[i]
    BY <1>2, DataTyped DEF Values
<1>4. /\ y \in Data /\ Len(y) = n + m /\ \A i \in 1 .. n : y[i] = 0
      /\ \A i \in 1 .. m : y[n + i] = x[i]
    BY <1>1
<1>5. ValueOf(x) = f[m]
    BY <1>2
<1> HIDE DEF m, y
<1>6. ASSUME NEW i \in 1 .. n + m PROVE h[i] = h[i - 1] * Base + y[i]
  <2>1. CASE i <= n
    <3>1. i \in 1 .. n /\ h[i] = 0 /\ h[i - 1] = 0
        BY <1>3, <2>1
    <3> QED BY <1>4, <3>1, BaseTyped
  <2>2. CASE ~ (i <= n)
    <3> DEFINE j == i - n
    <3>1. j \in 1 .. m /\ i = n + j
        BY <1>3, <2>2
    <3>2. h[i] = f[j] /\ h[i - 1] = f[j - 1]
        BY <1>3, <2>2
    <3> HIDE DEF j, h
    <3> QED BY <1>3, <1>4, <3>1, <3>2
  <2> QED BY <2>1, <2>2
<1>7. h[0] = 0 /\ h[n + m] = f[m]
    BY <1>3
<1> HIDE DEF h
<1>8. Values(h, y)
    BY <1>4, <1>6, <1>7 DEF Values
<1>9. ValueOf(y) = h[Len(y)]
    BY <1>4, <1>8, ValuesOnly
<1> QED BY <1>4, <1>5, <1>7, <1>9 DEF y

(* What is left of a number after its low bytes.                           *)
Rests(f, v) == f[0] = v /\ \A i \in 1 .. Width : f[i] = f[i - 1] \div Base

LEMMA WidthTyped == Width \in Nat \ {0} /\ 2 * Width + 6 < Top /\ Order \in 1 .. Beyond(Width)
  BY SizesAssumption

LEMMA DividedBase == \A n \in Nat : /\ n \div Base \in Nat /\ n % Base \in Bytes /\ n % Base \in Nat
                                   /\ n = (n \div Base) * Base + (n % Base)
<1> SUFFICES ASSUME NEW n \in Nat
             PROVE  /\ n \div Base \in Nat /\ n % Base \in Bytes /\ n % Base \in Nat
                    /\ n = (n \div Base) * Base + (n % Base)
    OBVIOUS
<1>1. n \div Base \in Nat /\ n % Base \in 0 .. Base - 1 /\ n = (n \div Base) * Base + (n % Base)
    BY BaseTyped, Divided
<1> QED BY <1>1, BaseTyped

LEMMA ScalarBytesIs ==
    ASSUME NEW v \in Nat
    PROVE  \E f \in [0 .. Width -> Nat] : Rests(f, v) /\ ScalarBytes(v) = [i \in 1 .. Width |-> f[Width - i] % Base]
<1> DEFINE g == [p \in (1 .. Width) \X Nat |-> p[2] \div Base]
<1>1. g \in [(1 .. Width) \X Nat -> Nat]
    BY DividedBase
<1>2. \A i \in 1 .. Width, x \in Nat : g[<< i, x >>] = x \div Base
    OBVIOUS
<1> HIDE DEF g
<1>3. PICK h \in [0 .. Width -> Nat] : Iterates(h, v, g, Width)
    BY <1>1, WidthTyped, IteratesExist
<1> DEFINE Steps(f) == f = [i \in 0 .. Width |-> IF i = 0 THEN v ELSE f[i - 1] \div Base]
           rest == CHOOSE f : Steps(f)
<1>4. ASSUME NEW i \in 0 .. Width PROVE h[i] = IF i = 0 THEN v ELSE h[i - 1] \div Base
  <2>1. h[i] = IF i = 0 THEN v ELSE g[<< i, h[i - 1] >>]
      BY <1>3 DEF Iterates
  <2>2. i # 0 => i \in 1 .. Width /\ h[i - 1] \in Nat
      BY <1>3, WidthTyped
  <2> QED BY <1>2, <2>1, <2>2
<1>5. Steps(h)
    BY <1>3, <1>4
<1>6. Steps(rest)
    BY <1>5
<1>7. ScalarBytes(v) = [i \in 1 .. Width |-> rest[Width - i] % Base]
    BY DEF ScalarBytes
<1> HIDE DEF rest
<1>8. \A i \in 0 .. Width : rest[i] = IF i = 0 THEN v ELSE rest[i - 1] \div Base
    BY <1>6
<1>9. \A i \in 0 .. Width : rest[i] = h[i]
  <2>1. \A i \in 1 .. Width : rest[i] = rest[i - 1] \div Base /\ h[i] = h[i - 1] \div Base
      BY <1>4, <1>8, WidthTyped
  <2>2. rest[0] = h[0]
      BY <1>4, <1>8, WidthTyped
  <2>3. StepAlike(rest, h, Width)
      BY <2>1, <2>2 DEF StepAlike
  <2> QED BY <2>3, SameSteps, WidthTyped
<1>10. rest = h
    BY <1>3, <1>6, <1>9
<1>11. h[0] = v /\ \A i \in 1 .. Width : h[i] = h[i - 1] \div Base
  <2>1. Width \in Nat /\ \A i \in 0 .. Width : h[i] = IF i = 0 THEN v ELSE h[i - 1] \div Base
      BY <1>4, WidthTyped
  <2>2. h[0] = v
      BY ONLY <2>1
  <2>3. ASSUME NEW i \in 1 .. Width PROVE h[i] = h[i - 1] \div Base
    <3>1. i \in 0 .. Width /\ i # 0
        BY ONLY <2>1, <2>3
    <3>2. h[i] = IF i = 0 THEN v ELSE h[i - 1] \div Base
        BY ONLY <2>1, <3>1, Zenon
    <3> QED BY ONLY <3>1, <3>2, Zenon
  <2> QED BY ONLY <2>2, <2>3, Zenon
<1> QED BY <1>3, <1>7, <1>10, <1>11 DEF Rests

LEMMA ScalarBytesTyped ==
    ASSUME NEW v \in Nat
    PROVE  ScalarBytes(v) \in Data /\ Len(ScalarBytes(v)) = Width
<1>1. PICK f \in [0 .. Width -> Nat] : ScalarBytes(v) = [i \in 1 .. Width |-> f[Width - i] % Base]
    BY ScalarBytesIs
<1>2. \A i \in 1 .. Width : f[Width - i] % Base \in Bytes
  <2> SUFFICES ASSUME NEW i \in 1 .. Width PROVE f[Width - i] % Base \in Bytes
      OBVIOUS
  <2>1. Width - i \in 0 .. Width
      BY WidthTyped
  <2>2. f[Width - i] \in Nat
      BY <2>1
  <2> QED BY <2>2, DividedBase
<1>3. ScalarBytes(v) \in [1 .. Width -> Bytes]
    BY <1>1, <1>2
<1> HIDE DEF Bytes
<1> QED BY <1>3, WidthTyped DEF Data

(* The bytes of a number have its value, if it fits.                       *)
LEMMA ScalarBytesValue ==
    ASSUME NEW v \in Nat, v < Beyond(Width)
    PROVE  ValueOf(ScalarBytes(v)) = v
<1>1. PICK f \in [0 .. Width -> Nat] : Rests(f, v) /\ ScalarBytes(v) = [i \in 1 .. Width |-> f[Width - i] % Base]
    BY ScalarBytesIs
<1>2. f[0] = v /\ \A i \in 1 .. Width : f[i] = f[i - 1] \div Base
    BY <1>1 DEF Rests
<1>3. ASSUME NEW i \in 1 .. Width, f[i - 1] < Beyond(Width - (i - 1)) PROVE f[i] < Beyond(Width - i)
  <2> DEFINE m == f[i - 1]
             q == f[i]
             k == Width - i
             w == Beyond(k)
  <2>1. k \in Nat /\ k + 1 = Width - (i - 1) /\ i - 1 \in 0 .. Width
      BY WidthTyped
  <2>2. m \in Nat /\ q = m \div Base
      BY <1>2, <2>1
  <2>3. w \in Nat /\ Beyond(k + 1) = w * Base
      BY <2>1, BeyondFacts
  <2>4. m < w * Base
      BY <1>3, <2>1, <2>3
  <2> HIDE DEF m, q, k, w
  <2>5. q \in Nat /\ m % Base \in Nat /\ m = q * Base + (m % Base)
      BY <2>2, DividedBase
  <2>6. CASE w = q
      BY <2>3, <2>4, <2>5, <2>6, BaseTyped
  <2>7. CASE w < q
    <3>1. w * Base + Base <= q * Base
        BY <2>3, <2>5, <2>7, BaseTyped, NextTimes
    <3>2. q * Base \in Nat /\ w * Base \in Nat
        BY <2>3, <2>5, BaseTyped
    <3> QED BY <2>4, <2>5, <3>1, <3>2, BaseTyped
  <2>8. CASE q < w
      BY <2>8 DEF q, w, k
  <2> QED BY <2>3, <2>5, <2>6, <2>7, <2>8
<1>4. f[Width] = 0
  <2> DEFINE T == {i \in 0 .. Width : f[i] < Beyond(Width - i)}
  <2>1. 0 \in T
      BY <1>2, WidthTyped
  <2>2. \A i \in 1 .. Width : i - 1 \in T => i \in T
      BY <1>3
  <2> HIDE DEF T
  <2>3. \A i \in 0 .. Width : i \in T
      BY <2>1, <2>2, WidthTyped, UpTo
  <2>4. f[Width] < Beyond(Width - Width) /\ f[Width] \in Nat
      BY <2>3, WidthTyped DEF T
  <2>5. Width - Width = 0 /\ Beyond(0) = 1
      BY BeyondFacts, WidthTyped
  <2> QED BY <2>4, <2>5
<1> DEFINE h == [k \in 0 .. Width |-> f[Width - k]]
           x == ScalarBytes(v)
<1>5. x \in Data /\ Len(x) = Width
    BY ScalarBytesTyped
<1>6. \A i \in 1 .. Width : x[i] = f[Width - i] % Base
    BY <1>1
<1>7. ASSUME NEW i \in 1 .. Width PROVE h[i] = h[i - 1] * Base + x[i]
  <2> DEFINE k == Width - i
  <2>1. k \in 0 .. Width /\ k + 1 \in 1 .. Width /\ k + 1 - 1 = k /\ Width - (i - 1) = k + 1 /\ i - 1 \in 0 .. Width
      BY WidthTyped
  <2>2. h[i] = f[k] /\ h[i - 1] = f[k + 1] /\ x[i] = f[k] % Base
      BY <1>6, <2>1
  <2> HIDE DEF k, h, x
  <2>3. f[k] \in Nat /\ f[k + 1] = f[k] \div Base
      BY <1>2, <2>1
  <2> DEFINE m == f[k]
  <2> HIDE DEF m
  <2>4. m = (m \div Base) * Base + (m % Base)
      BY <2>3, DividedBase DEF m
  <2> QED BY <2>2, <2>3, <2>4 DEF m
<1>8. h[0] = 0 /\ h[Width] = v
    BY <1>2, <1>4, WidthTyped
<1> HIDE DEF h, x
<1>9. Values(h, x)
    BY <1>5, <1>7, <1>8 DEF Values
<1>10. ValueOf(x) = h[Width]
    BY <1>5, <1>9, ValuesOnly
<1> QED BY <1>8, <1>10 DEF x

LEMMA ValueScalarBytes ==
    ASSUME NEW x \in Data, Len(x) = Width
    PROVE  ScalarBytes(ValueOf(x)) = x
<1>1. PICK h \in [0 .. Len(x) -> Nat] : Values(h, x) /\ ValueOf(x) = h[Len(x)]
    BY ValueOfIs
<1> DEFINE v == ValueOf(x)
<1>2. v \in Nat /\ v = h[Width] /\ h \in [0 .. Width -> Nat]
    BY <1>1, WidthTyped
<1>3. \A i \in 1 .. Width : h[i] = h[i - 1] * Base + x[i]
    BY <1>1 DEF Values
<1>4. \A i \in 1 .. Width : x[i] \in 0 .. Base - 1
    BY DataTyped, BaseTyped
<1> HIDE DEF v
<1>5. PICK f \in [0 .. Width -> Nat] : Rests(f, v) /\ ScalarBytes(v) = [i \in 1 .. Width |-> f[Width - i] % Base]
    BY <1>2, ScalarBytesIs
<1>6. f[0] = v /\ \A i \in 1 .. Width : f[i] = f[i - 1] \div Base
    BY <1>5 DEF Rests
<1>7. ASSUME NEW k \in 1 .. Width PROVE h[k] \div Base = h[k - 1] /\ h[k] % Base = x[k]
  <2>1. h[k] \in Nat /\ h[k - 1] \in Nat /\ x[k] \in 0 .. Base - 1 /\ h[k] = h[k - 1] * Base + x[k]
      BY <1>2, <1>3, <1>4, WidthTyped
  <2> QED BY <2>1, BaseTyped, DividedOnce, SMTT(20)
<1> DEFINE e == [i \in 0 .. Width |-> h[Width - i]]
<1>8. \A i \in 0 .. Width : f[i] = e[i]
  <2>1. f[0] = e[0]
      BY <1>2, <1>6, WidthTyped
  <2>2. ASSUME NEW i \in 1 .. Width, f[i - 1] = e[i - 1] PROVE f[i] = e[i]
    <3> DEFINE k == Width - (i - 1)
    <3>1. k \in 1 .. Width /\ k - 1 = Width - i /\ i - 1 \in 0 .. Width
        BY WidthTyped
    <3>2. e[i - 1] = h[k] /\ e[i] = h[k - 1]
        BY <3>1
    <3> HIDE DEF e, k
    <3> QED BY <1>6, <1>7, <2>2, <3>1, <3>2
  <2> HIDE DEF e
  <2>3. StepAlike(f, e, Width)
      BY <2>1, <2>2 DEF StepAlike
  <2> QED BY <2>3, SameSteps, WidthTyped
<1>9. ASSUME NEW i \in 1 .. Width PROVE f[Width - i] % Base = x[i]
  <2>1. Width - i \in 0 .. Width /\ Width - (Width - i) = i
      BY WidthTyped
  <2>2. f[Width - i] = h[i]
      BY <1>8, <2>1
  <2> QED BY <1>7, <2>2
<1>10. ScalarBytes(v) \in Data /\ Len(ScalarBytes(v)) = Width
    BY <1>2, ScalarBytesTyped
<1>11. \A i \in 1 .. Width : ScalarBytes(v)[i] = x[i]
    BY <1>5, <1>9
<1>12. ScalarBytes(v) = x
    BY <1>10, <1>11, DataSame
<1> QED BY <1>12 DEF v

LEMMA FirstOutside ==
    ASSUME NEW n \in Nat, NEW T, n + 1 \notin T
    PROVE  \E i \in 1 .. n + 1 : i \notin T /\ \A j \in 1 .. i - 1 : j \in T
<1> SUFFICES ASSUME \A i \in 1 .. n + 1 : (\A j \in 1 .. i - 1 : j \in T) => i \in T PROVE FALSE
    OBVIOUS
<1> DEFINE S == {i \in 0 .. n + 1 : \A j \in 1 .. i : j \in T}
<1>1. 0 \in S
    OBVIOUS
<1>2. ASSUME NEW i \in 1 .. n + 1, i - 1 \in S PROVE i \in S
  <2>1. \A j \in 1 .. i - 1 : j \in T
      BY <1>2
  <2>2. i \in T
      BY <2>1
  <2>3. \A j \in 1 .. i : j = i \/ j \in 1 .. i - 1
      OBVIOUS
  <2> QED BY <2>1, <2>2, <2>3
<1> HIDE DEF S
<1>3. n + 1 \in Nat
    OBVIOUS
<1>4. \A i \in 0 .. n + 1 : i \in S
    BY <1>1, <1>2, <1>3, UpTo
<1>5. n + 1 \in S
    BY <1>4
<1> QED BY <1>5 DEF S

LEMMA FromOne == ASSUME NEW x \in Data PROVE From(x, 1) = x
<1> DEFINE n == Len(x)
<1>1. n \in Nat /\ 0 \in Nat /\ 0 <= n /\ n <= Len(x)
    BY DataTyped
<1> HIDE DEF n
<1>2. /\ SubSeq(x, 0 + 1, n) \in Data /\ Len(SubSeq(x, 0 + 1, n)) = n - 0
      /\ \A i \in 1 .. n - 0 : SubSeq(x, 0 + 1, n)[i] = x[0 + i]
    BY ONLY <1>1, DataPart, x \in Data
<1> DEFINE y == SubSeq(x, 1, n)
<1>3. y \in Data /\ Len(y) = n /\ \A i \in 1 .. n : y[i] = x[i]
    BY <1>1, <1>2
<1> HIDE DEF y
<1>4. y = x
    BY <1>3, DataSame DEF n
<1> QED BY <1>4 DEF y, n, From

(* Without its leading zeros, a string begins with another byte.           *)
TrimsAt(x, k) == /\ \A j \in 1 .. k : x[j] = 0
                 /\ k < Len(x) => x[k + 1] # 0

LEMMA TrimmedOnly ==
    ASSUME NEW x \in Data, NEW k \in 0 .. Len(x), TrimsAt(x, k)
    PROVE  Trimmed(x) = From(x, k + 1)
<1> DEFINE zero(j) == j <= Len(x) /\ x[j] = 0
           Is(i) == ~ zero(i) /\ \A j \in 1 .. i - 1 : zero(j)
           first == CHOOSE i \in 1 .. Len(x) + 1 : Is(i)
<1>1. Len(x) \in Nat
    BY DataTyped
<1>2. k + 1 \in 1 .. Len(x) + 1 /\ Is(k + 1)
    BY <1>1 DEF TrimsAt
<1>3. \A i \in 1 .. Len(x) + 1 : Is(i) => i = k + 1
  <2> SUFFICES ASSUME NEW i \in 1 .. Len(x) + 1, Is(i), i # k + 1 PROVE FALSE
      OBVIOUS
  <2>1. i < k + 1 \/ k + 1 < i
      BY <1>1
  <2>2. CASE i < k + 1
    <3>1. i \in 1 .. k + 1 - 1
        BY <2>2
    <3> QED BY <1>2, <3>1
  <2>3. CASE k + 1 < i
    <3>1. k + 1 \in 1 .. i - 1
        BY <2>3
    <3> QED BY <1>2, <3>1
  <2> QED BY <2>1, <2>2, <2>3
<1>4. first \in 1 .. Len(x) + 1 /\ Is(first)
    BY <1>2
<1>5. Trimmed(x) = SubSeq(x, first, Len(x))
    BY DEF Trimmed
<1> HIDE DEF first, Is
<1>6. first = k + 1
    BY <1>3, <1>4
<1> QED BY <1>5, <1>6 DEF From

LEMMA TrimmedIs ==
    ASSUME NEW x \in Data
    PROVE  \E k \in 0 .. Len(x) : TrimsAt(x, k) /\ Trimmed(x) = From(x, k + 1)
<1> DEFINE n == Len(x)
           T == {j \in 1 .. n : x[j] = 0}
<1>1. n \in Nat /\ n + 1 \notin T
    BY DataTyped
<1> HIDE DEF T, n
<1>2. PICK i \in 1 .. n + 1 : i \notin T /\ \A j \in 1 .. i - 1 : j \in T
    BY <1>1, FirstOutside
<1> DEFINE k == i - 1
<1>3. k \in 0 .. n /\ k + 1 = i
    BY <1>1
<1>4. TrimsAt(x, k)
  <2>1. \A j \in 1 .. k : x[j] = 0
      BY <1>2, <1>3 DEF T
  <2>2. k < n => x[k + 1] # 0
      BY <1>1, <1>2, <1>3 DEF T
  <2> QED BY <2>1, <2>2 DEF TrimsAt, n
<1> HIDE DEF k
<1>5. Trimmed(x) = From(x, k + 1)
    BY <1>3, <1>4, TrimmedOnly DEF n
<1> QED BY <1>3, <1>4, <1>5 DEF n

LEMMA TrimmedFacts ==
    ASSUME NEW x \in Data
    PROVE  /\ Trimmed(x) \in Data /\ Len(Trimmed(x)) <= Len(x) /\ Len(Trimmed(x)) \in Nat
           /\ ValueOf(Trimmed(x)) = ValueOf(x)
<1>1. PICK k \in 0 .. Len(x) : TrimsAt(x, k) /\ Trimmed(x) = From(x, k + 1)
    BY TrimmedIs
<1>2. Len(x) \in Nat
    BY DataTyped
<1>3. 1 \in 1 .. Len(x) + 1 /\ k \in Nat /\ 1 + k <= Len(x) + 1
    BY <1>2
<1> DEFINE z == SubSeq(x, 1, 1 + k - 1)
           y == From(x, 1 + k)
<1>4. /\ z \in Data /\ Len(z) = k /\ y \in Data /\ Len(y) = Len(x) - (1 + k) + 1
      /\ From(x, 1) = z \o y /\ \A i \in 1 .. k : z[i] = x[1 - 1 + i]
    BY <1>3, Unsplit
<1>5. 1 + k = k + 1 /\ \A i \in 1 .. k : 1 - 1 + i = i
    OBVIOUS
<1>6. \A i \in 1 .. k : z[i] = 0
    BY <1>1, <1>4, <1>5 DEF TrimsAt
<1>7. Trimmed(x) = y
    BY <1>1, <1>5
<1> HIDE DEF z, y
<1>8. x = z \o y
    BY <1>4, FromOne
<1>9. ValueOf(z \o y) = ValueOf(y)
    BY <1>3, <1>4, <1>6, ZerosBefore
<1> QED BY <1>2, <1>4, <1>7, <1>8, <1>9

(* An integer that takes no more bytes than it needs has a zero before the *)
(* others at most.                                                         *)
LEMMA TrimmedMinimal ==
    ASSUME NEW c \in Data, Minimal(c)
    PROVE  Trimmed(c) = IF c[1] = 0 THEN From(c, 2) ELSE c
<1>1. Len(c) \in Nat /\ Len(c) > 0
    BY DataTyped DEF Minimal
<1>2. CASE c[1] # 0
  <2>1. TrimsAt(c, 0) /\ 0 \in 0 .. Len(c)
      BY <1>1, <1>2 DEF TrimsAt
  <2>2. Trimmed(c) = From(c, 0 + 1)
      BY <2>1, TrimmedOnly
  <2> QED BY <1>2, <2>2, FromOne
<1>3. CASE c[1] = 0
  <2>1. Len(c) > 1 => c[2] # 0
      BY <1>3, BaseTyped DEF Minimal
  <2>2. TrimsAt(c, 1) /\ 1 \in 0 .. Len(c)
      BY <1>1, <1>3, <2>1 DEF TrimsAt
  <2>3. Trimmed(c) = From(c, 1 + 1)
      BY <2>2, TrimmedOnly
  <2> QED BY <1>3, <2>3
<1> QED BY <1>2, <1>3

LEMMA TailFrom == ASSUME NEW c \in Data, Len(c) > 0 PROVE Tail(c) = From(c, 2)
  BY DEF Data, From

LEMMA IntegerNumber ==
    ASSUME NEW c \in Data, Minimal(c)
    PROVE  IntegerOf(c) = Number(c)
<1> DEFINE t == Trimmed(c)
<1>1. Len(c) > 0 /\ Len(c) \in Nat /\ c[1] \in Nat
    BY DataTyped, BaseTyped DEF Minimal
<1>2. t = IF c[1] = 0 THEN Tail(c) ELSE c
    BY <1>1, TrimmedMinimal, TailFrom
<1> HIDE DEF t
<1>3. t \in Data /\ Len(t) \in Nat /\ ValueOf(t) \in Nat
    BY TrimmedFacts, ValueBounds DEF t
<1>4. Number(c) = IF c[1] < Top /\ Len(t) <= Width /\ ValueOf(t) < Order THEN ValueOf(t) ELSE 0
    BY DEF Number, InRange, t
<1>5. IntegerOf(c) = IF c[1] >= Top \/ Len(t) > Width \/ ValueOf(t) >= Order THEN 0 ELSE ValueOf(t)
    BY <1>2 DEF IntegerOf
<1>6. Order \in Nat /\ Top \in Nat /\ Width \in Nat
    BY BaseTyped, WidthTyped, BeyondFacts
<1> QED BY <1>1, <1>3, <1>4, <1>5, <1>6

LEMMA NumberTyped == ASSUME NEW c \in Data PROVE Number(c) \in 0 .. Order - 1
<1>1. Trimmed(c) \in Data
    BY TrimmedFacts
<1>2. ValueOf(Trimmed(c)) \in Nat
    BY <1>1, ValueBounds
<1>3. Order \in Nat \ {0}
    BY WidthTyped, BeyondFacts
<1> QED BY <1>2, <1>3 DEF Number, InRange

(* Where the serialization of a number begins.                             *)
FullOf(v) == << 0 >> \o ScalarBytes(v)
Excess(x, j) == j < Len(x) /\ x[j] = 0 /\ x[j + 1] < Top
BeginsAt(x, i) == ~ Excess(x, i) /\ \A j \in 1 .. i - 1 : Excess(x, j)

LEMMA FullTyped ==
    ASSUME NEW v \in Nat
    PROVE  FullOf(v) \in Data /\ Len(FullOf(v)) = Width + 1 /\ FullOf(v)[1] = 0
<1>1. 0 \in Bytes
    BY BaseTyped
<1>2. << 0 >> \in Data /\ Len(<< 0 >>) = 1 /\ << 0 >>[1] = 0
    BY <1>1, DataSingle
<1> DEFINE y == ScalarBytes(v)
           z == << 0 >>
<1>3. y \in Data /\ Len(y) = Width
    BY ScalarBytesTyped
<1>4. z \in Data /\ Len(z) = 1 /\ z[1] = 0
    BY <1>2
<1> HIDE DEF y, z
<1>5. z \o y \in Data /\ Len(z \o y) = 1 + Width /\ (z \o y)[1] = 0
  <2>1. /\ z \o y \in Data /\ Len(z \o y) = Len(z) + Len(y)
        /\ \A i \in 1 .. Len(z) : (z \o y)[i] = z[i]
      BY <1>3, <1>4, DataJoined
  <2>2. 1 \in 1 .. Len(z)
      BY <1>4
  <2> QED BY <1>3, <1>4, <2>1, <2>2
<1> QED BY <1>5, WidthTyped DEF FullOf, y, z

LEMMA DigitsOnly ==
    ASSUME NEW v \in Nat, NEW k \in 1 .. Width + 1, BeginsAt(FullOf(v), k)
    PROVE  Digits(v) = From(FullOf(v), k)
<1> DEFINE x == FullOf(v)
           first == CHOOSE i \in 1 .. Len(x) : BeginsAt(x, i)
<1>1. Len(x) = Width + 1 /\ BeginsAt(x, k)
    BY FullTyped
<1>2. Digits(v) = From(x, first)
    BY DEF Digits, FullOf, From, BeginsAt, Excess
<1> HIDE DEF x
<1>3. \A i \in 1 .. Len(x) : BeginsAt(x, i) => i = k
  <2> SUFFICES ASSUME NEW i \in 1 .. Len(x), BeginsAt(x, i), i # k PROVE FALSE
      OBVIOUS
  <2>1. i < k \/ k < i
      BY <1>1, WidthTyped
  <2>2. CASE i < k
    <3>1. i \in 1 .. k - 1
        BY <1>1, <2>2, WidthTyped
    <3> QED BY <1>1, <3>1 DEF BeginsAt
  <2>3. CASE k < i
    <3>1. k \in 1 .. i - 1
        BY <1>1, <2>3, WidthTyped
    <3> QED BY <1>1, <3>1 DEF BeginsAt
  <2> QED BY <2>1, <2>2, <2>3
<1>4. first \in 1 .. Len(x) /\ BeginsAt(x, first)
    BY <1>1
<1> HIDE DEF first
<1>5. first = k
    BY <1>3, <1>4
<1> QED BY <1>2, <1>5 DEF x

LEMMA DigitsIs ==
    ASSUME NEW v \in Nat
    PROVE  \E k \in 1 .. Width + 1 : BeginsAt(FullOf(v), k) /\ Digits(v) = From(FullOf(v), k)
<1> DEFINE x == FullOf(v)
           T == {j \in 1 .. Width + 1 : Excess(x, j)}
<1>1. Width \in Nat /\ Len(x) = Width + 1
    BY FullTyped, WidthTyped
<1> HIDE DEF x
<1>2. Width + 1 \notin T
    BY <1>1 DEF Excess
<1> HIDE DEF T
<1>3. PICK i \in 1 .. Width + 1 : i \notin T /\ \A j \in 1 .. i - 1 : j \in T
    BY <1>1, <1>2, FirstOutside
<1>4. BeginsAt(x, i)
    BY <1>3 DEF BeginsAt, T
<1>5. Digits(v) = From(x, i)
    BY <1>4, DigitsOnly DEF x
<1> QED BY <1>4, <1>5 DEF x

LEMMA FirstTrimmed ==
    ASSUME NEW c \in Data, Len(c) > 0
    PROVE  IF c[1] = 0 THEN Len(Trimmed(c)) < Len(c) ELSE Trimmed(c) = c
<1>1. PICK k \in 0 .. Len(c) : TrimsAt(c, k) /\ Trimmed(c) = From(c, k + 1)
    BY TrimmedIs
<1>2. Len(c) \in Nat
    BY DataTyped
<1>3. CASE c[1] # 0
  <2>1. k = 0
      BY <1>1, <1>2, <1>3 DEF TrimsAt
  <2> QED BY <1>1, <1>3, <2>1, FromOne
<1>4. CASE c[1] = 0
  <2>1. k # 0
      BY <1>1, <1>2, <1>4 DEF TrimsAt
  <2>2. 1 \in 1 .. Len(c) + 1 /\ k \in Nat /\ 1 + k <= Len(c) + 1
      BY <1>2
  <2>3. Len(From(c, 1 + k)) = Len(c) - (1 + k) + 1
      BY <2>2, Unsplit
  <2>4. 1 + k = k + 1
      OBVIOUS
  <2> QED BY <1>1, <1>2, <1>4, <2>1, <2>3, <2>4
<1> QED BY <1>3, <1>4

(* A number is serialized as a positive integer in the fewest bytes, and   *)
(* only as this one.                                                       *)
LEMMA DigitsFacts ==
    ASSUME NEW v \in Nat, v < Beyond(Width)
    PROVE  /\ Digits(v) \in Data /\ Len(Digits(v)) \in 1 .. Width + 1 /\ Minimal(Digits(v))
           /\ Digits(v)[1] < Top /\ ValueOf(Trimmed(Digits(v))) = v /\ Len(Trimmed(Digits(v))) <= Width
<1> DEFINE x == FullOf(v)
           c == Digits(v)
<1>1. x \in Data /\ Len(x) = Width + 1 /\ x[1] = 0
    BY FullTyped
<1>2. PICK k \in 1 .. Width + 1 : BeginsAt(x, k) /\ c = From(x, k)
    BY DigitsIs
<1>3. ValueOf(x) = v
  <2> DEFINE z == << 0 >>
             y == ScalarBytes(v)
  <2>1. 0 \in Bytes /\ 1 \in Nat
      BY BaseTyped
  <2>2. z \in Data /\ Len(z) = 1 /\ \A i \in 1 .. 1 : z[i] = 0
      BY <2>1, DataSingle
  <2>3. y \in Data /\ ValueOf(y) = v
      BY ScalarBytesTyped, ScalarBytesValue
  <2> HIDE DEF z, y
  <2>4. ValueOf(z \o y) = ValueOf(y)
      BY <2>1, <2>2, <2>3, ZerosBefore
  <2> QED BY <2>3, <2>4 DEF z, y, FullOf
<1> HIDE DEF x, c
<1> DEFINE p == k - 1
           z == SubSeq(x, 1, p)
<1>4. p \in Nat /\ 1 + p = k /\ 1 + p - 1 = p /\ 1 \in 1 .. Len(x) + 1 /\ 1 + p <= Len(x) + 1
      /\ Width \in Nat /\ Len(x) - (1 + p) + 1 \in 1 .. Width + 1 /\ (k > 1 => Len(x) - (1 + p) + 1 <= Width)
    BY <1>1, WidthTyped
<1> HIDE DEF p
<1>5. /\ SubSeq(x, 1, 1 + p - 1) \in Data /\ Len(SubSeq(x, 1, 1 + p - 1)) = p
      /\ From(x, 1 + p) \in Data /\ Len(From(x, 1 + p)) = Len(x) - (1 + p) + 1
      /\ From(x, 1) = SubSeq(x, 1, 1 + p - 1) \o From(x, 1 + p)
      /\ \A i \in 1 .. p : SubSeq(x, 1, 1 + p - 1)[i] = x[1 - 1 + i]
    BY <1>1, <1>4, Unsplit
<1>6. /\ z \in Data /\ Len(z) = p /\ c \in Data /\ Len(c) = Len(x) - (1 + p) + 1
      /\ x = z \o c /\ \A i \in 1 .. p : z[i] = x[i]
  <2>1. \A i \in 1 .. p : 1 - 1 + i = i
      BY <1>4
  <2> QED BY <1>1, <1>2, <1>4, <1>5, <2>1, FromOne
<1> HIDE DEF z
<1>7. \A i \in 1 .. p : z[i] = 0
  <2>1. \A i \in 1 .. p : i \in 1 .. k - 1
      BY <1>4
  <2> QED BY <1>2, <1>6, <2>1 DEF BeginsAt, Excess
<1>8. ValueOf(c) = v
    BY <1>3, <1>4, <1>6, <1>7, ZerosBefore
<1>9. Len(c) \in 1 .. Width + 1 /\ (k > 1 => Len(c) <= Width)
    BY <1>4, <1>6
<1>10. /\ \A i \in 1 .. Len(z) : (z \o c)[i] = z[i]
       /\ \A i \in 1 .. Len(c) : (z \o c)[Len(z) + i] = c[i]
    BY <1>6, DataJoined
<1>11. \A i \in 1 .. Len(c) : x[p + i] = c[i]
    BY <1>6, <1>10
<1>12. c[1] = x[k] /\ (Len(c) > 1 => c[2] = x[k + 1])
  <2>1. p + 1 = k /\ 1 \in 1 .. Len(c) /\ p + 2 = k + 1 /\ (Len(c) > 1 => 2 \in 1 .. Len(c))
      BY <1>4, <1>9
  <2>2. c[1] = x[p + 1] /\ (Len(c) > 1 => c[2] = x[p + 2])
      BY <1>11, <2>1
  <2> QED BY <2>1, <2>2
<1>13. \A i \in 1 .. Len(c) : c[i] \in 0 .. Base - 1
    BY <1>6, DataTyped, BaseTyped
<1>14. c[1] < Top
  <2>1. CASE k = 1
      BY <1>1, <1>12, <2>1, BaseTyped
  <2>2. CASE k # 1
    <3>1. k - 1 \in 1 .. k - 1 /\ k - 1 + 1 = k
        BY <1>1, <2>2, WidthTyped
    <3>2. Excess(x, k - 1)
        BY <1>2, <3>1 DEF BeginsAt
    <3> QED BY <1>12, <3>1, <3>2 DEF Excess
  <2> QED BY <2>1, <2>2
<1>15. Minimal(c)
  <2>1. c[1] # Base - 1
      BY <1>9, <1>13, <1>14, BaseTyped
  <2>2. ASSUME Len(c) > 1 PROVE ~ (c[1] = 0 /\ c[2] < Top)
    <3>1. k < Len(x)
        BY <1>1, <1>4, <1>6, <2>2, WidthTyped
    <3>2. ~ Excess(x, k)
        BY <1>2 DEF BeginsAt
    <3> QED BY <1>12, <2>2, <3>1, <3>2 DEF Excess
  <2> QED BY <1>9, <2>1, <2>2 DEF Minimal
<1>16. ValueOf(Trimmed(c)) = v
    BY <1>6, <1>8, TrimmedFacts
<1>17. Len(Trimmed(c)) <= Width
  <2>1. Len(Trimmed(c)) <= Len(c) /\ Len(Trimmed(c)) \in Nat
      BY <1>6, TrimmedFacts
  <2>2. CASE c[1] = 0
    <3>1. Len(Trimmed(c)) < Len(c)
        BY <1>6, <1>9, <2>2, FirstTrimmed
    <3> QED BY <1>9, <2>1, <3>1, WidthTyped
  <2>3. CASE c[1] # 0
    <3>1. k > 1
        BY <1>1, <1>12, <2>3
    <3> QED BY <1>9, <2>1, <3>1, WidthTyped
  <2> QED BY <2>2, <2>3
<1> QED BY <1>6, <1>9, <1>14, <1>15, <1>16, <1>17 DEF c

LEMMA DigitsOf ==
    ASSUME NEW c \in Data, Minimal(c), InRange(c)
    PROVE  Digits(ValueOf(Trimmed(c))) = c
<1> DEFINE t == Trimmed(c)
           v == ValueOf(t)
           n == Width - Len(t)
           z == [i \in 1 .. n |-> 0]
<1>1. c[1] < Top /\ Len(t) <= Width
    BY DEF InRange
<1>2. t \in Data /\ Len(t) \in Nat /\ v \in Nat
    BY TrimmedFacts, ValueBounds
<1>3. Len(c) \in Nat /\ Len(c) > 0 /\ \A i \in 1 .. Len(c) : c[i] \in 0 .. Base - 1
    BY DataTyped, BaseTyped DEF Minimal
<1>4. t = IF c[1] = 0 THEN From(c, 2) ELSE c
    BY TrimmedMinimal
<1> HIDE DEF t
<1>5. n \in Nat /\ Width = n + Len(t)
    BY <1>1, <1>2, WidthTyped
<1> HIDE DEF v, n
<1>6. z \in Data /\ Len(z) = n /\ \A i \in 1 .. n : z[i] = 0
    BY <1>5, DataZeros
<1> HIDE DEF z
<1>7. /\ z \o t \in Data /\ Len(z \o t) = Width
      /\ \A i \in 1 .. n : (z \o t)[i] = 0
      /\ \A i \in 1 .. Len(t) : (z \o t)[n + i] = t[i]
    BY <1>2, <1>5, <1>6, DataJoined
<1>8. ScalarBytes(v) = z \o t
  <2>1. ValueOf(z \o t) = v
      BY <1>2, <1>5, <1>6, ZerosBefore DEF v
  <2> QED BY <1>7, <2>1, ValueScalarBytes
<1> DEFINE x == FullOf(v)
           y == z \o t
           o == << 0 >>
<1>9. x \in Data /\ Len(x) = Width + 1 /\ x[1] = 0
    BY <1>2, FullTyped
<1>10. \A i \in 1 .. Width : x[1 + i] = y[i]
  <2>1. 0 \in Bytes
      BY BaseTyped
  <2>2. o \in Data /\ Len(o) = 1
      BY <2>1, DataSingle
  <2>3. x = o \o y /\ y \in Data /\ Len(y) = Width
      BY <1>7, <1>8 DEF FullOf
  <2> HIDE DEF o, x, y
  <2>4. \A i \in 1 .. Len(y) : (o \o y)[Len(o) + i] = y[i]
      BY <2>2, <2>3, DataJoined
  <2> QED BY <2>2, <2>3, <2>4
<1> HIDE DEF x, y, o
<1>11. \A j \in 1 .. n + 1 : x[j] = 0
  <2> SUFFICES ASSUME NEW j \in 1 .. n + 1 PROVE x[j] = 0
      OBVIOUS
  <2>1. CASE j = 1
      BY <1>9, <2>1
  <2>2. CASE j # 1
    <3>1. j - 1 \in 1 .. n /\ j - 1 \in 1 .. Width /\ 1 + (j - 1) = j
        BY <1>2, <1>5, <2>2
    <3>2. x[1 + (j - 1)] = y[j - 1] /\ y[j - 1] = 0
        BY <1>7, <1>10, <3>1 DEF y
    <3> QED BY <3>1, <3>2
  <2> QED BY <2>1, <2>2
<1>12. \A i \in 1 .. Len(t) : x[n + 1 + i] = t[i]
  <2> SUFFICES ASSUME NEW i \in 1 .. Len(t) PROVE x[n + 1 + i] = t[i]
      OBVIOUS
  <2>1. n + i \in 1 .. Width /\ 1 + (n + i) = n + 1 + i
      BY <1>2, <1>5
  <2>2. x[1 + (n + i)] = y[n + i] /\ y[n + i] = t[i]
      BY <1>7, <1>10, <2>1 DEF y
  <2> QED BY <2>1, <2>2
<1> DEFINE a == Width + 1 - Len(c)
<1>13. a \in Nat /\ Len(c) + a = Width + 1 /\ a <= n + 1 /\ \A i \in 1 .. Len(c) : x[a + i] = c[i]
  <2>1. CASE c[1] # 0
    <3>1. t = c /\ a = n + 1
        BY <1>2, <1>3, <1>4, <1>5, <2>1
    <3> QED BY <1>2, <1>3, <1>5, <1>12, <3>1
  <2>2. CASE c[1] = 0
    <3>1. 1 \in 1 .. Len(c) + 1 /\ 1 \in Nat /\ 1 + 1 <= Len(c) + 1
        BY <1>3
    <3>2. /\ Len(From(c, 1 + 1)) = Len(c) - (1 + 1) + 1
          /\ From(c, 1) = SubSeq(c, 1, 1 + 1 - 1) \o From(c, 1 + 1)
          /\ SubSeq(c, 1, 1 + 1 - 1) \in Data /\ From(c, 1 + 1) \in Data
          /\ Len(SubSeq(c, 1, 1 + 1 - 1)) = 1
        BY <3>1, Unsplit, ZenonT(40)
    <3> DEFINE u == SubSeq(c, 1, 1 + 1 - 1)
    <3>3. t = From(c, 1 + 1) /\ Len(t) = Len(c) - 1 /\ c = u \o t /\ u \in Data /\ Len(u) = 1
        BY <1>3, <1>4, <2>2, <3>2, FromOne
    <3> HIDE DEF u
    <3>4. \A i \in 1 .. Len(t) : c[1 + i] = t[i]
        BY <1>2, <3>3, DataJoined
    <3>5. a = n
      <4>1. Len(t) = Len(c) - 1 /\ Len(t) \in Nat /\ Len(c) \in Nat /\ n \in Nat /\ Width = n + Len(t)
          BY <1>2, <1>3, <1>5, <3>3
      <4> QED BY ONLY <4>1 DEF a
    <3>6. ASSUME NEW i \in 1 .. Len(c) PROVE x[n + i] = c[i]
      <4>1. CASE i = 1
        <5>1. n + 1 \in 1 .. n + 1
            BY <1>5
        <5> QED BY <1>11, <2>2, <4>1, <5>1
      <4>2. CASE i # 1
        <5>1. i - 1 \in 1 .. Len(t) /\ 1 + (i - 1) = i /\ n + 1 + (i - 1) = n + i
            BY <1>3, <1>5, <3>3, <4>2
        <5>2. c[1 + (i - 1)] = t[i - 1] /\ x[n + 1 + (i - 1)] = t[i - 1]
            BY <1>12, <3>4, <5>1
        <5> QED BY <5>1, <5>2
      <4> QED BY <4>1, <4>2
    <3>7. a \in Nat /\ Len(c) + a = Width + 1 /\ a <= n + 1
        BY <1>3, <1>5, <3>5, WidthTyped
    <3> HIDE DEF a
    <3> QED BY <3>5, <3>6, <3>7
  <2> QED BY <2>1, <2>2
<1> DEFINE k == a + 1
<1> HIDE DEF a
<1>14. k \in 1 .. Width + 1 /\ x[k] = c[1] /\ (Len(c) > 1 => x[k + 1] = c[2]) /\ (k < Len(x) => Len(c) > 1)
  <2>1. 1 \in 1 .. Len(c) /\ (Len(c) > 1 => 2 \in 1 .. Len(c)) /\ a + 2 = k + 1
      BY <1>3, <1>13
  <2>2. x[a + 1] = c[1] /\ (Len(c) > 1 => x[a + 2] = c[2])
      BY <1>13, <2>1
  <2>3. k \in 1 .. Width + 1 /\ (k < Len(x) => Len(c) > 1)
      BY <1>3, <1>9, <1>13, WidthTyped
  <2> QED BY <2>1, <2>2, <2>3
<1>15. BeginsAt(x, k)
  <2>1. ~ Excess(x, k)
      BY <1>14 DEF Excess, Minimal
  <2>2. ASSUME NEW j \in 1 .. k - 1 PROVE Excess(x, j)
    <3>1. j \in 1 .. n + 1 /\ j < Len(x) /\ (j + 1 = k \/ j + 1 \in 1 .. n + 1)
        BY <1>3, <1>5, <1>9, <1>13, WidthTyped
    <3>2. x[j] = 0 /\ (x[j + 1] = c[1] \/ x[j + 1] = 0)
        BY <1>11, <1>14, <3>1
    <3> QED BY <1>1, <3>1, <3>2, BaseTyped DEF Excess
  <2> QED BY <2>1, <2>2 DEF BeginsAt
<1>16. Digits(v) = From(x, k)
    BY <1>2, <1>14, <1>15, DigitsOnly DEF x
<1>17. From(x, k) = c
  <2> DEFINE m == Len(c)
             w == From(x, k)
  <2>1. k \in 1 .. Len(x) + 1 /\ m \in Nat /\ k + m <= Len(x) + 1 /\ k + m - 1 = Len(x) /\ k - 1 = a
      BY <1>3, <1>9, <1>13, <1>14, WidthTyped
  <2> HIDE DEF m, k
  <2>2. /\ SubSeq(x, k, k + m - 1) \in Data /\ Len(SubSeq(x, k, k + m - 1)) = m
        /\ \A i \in 1 .. m : SubSeq(x, k, k + m - 1)[i] = x[k - 1 + i]
      BY <1>9, <2>1, Unsplit
  <2>3. w \in Data /\ Len(w) = m /\ \A i \in 1 .. m : w[i] = x[a + i]
      BY <2>1, <2>2 DEF From
  <2> HIDE DEF w
  <2>4. w = c
      BY <1>13, <2>3, DataSame DEF m
  <2> QED BY <2>4 DEF w
<1> QED BY <1>16, <1>17 DEF v, t

----------------------------------------------------------------------------
(* What a parser gives.                                                    *)
Ok(parsed) == parsed.ok

LEMMA DoneFacts == /\ ~ Ok(Fail)
                   /\ \A p, v : Ok(Done(p, v)) /\ Done(p, v).pos = p /\ Done(p, v).value = v
  BY DEF Ok, Done, Fail

LEMMA TagReads ==
    ASSUME NEW in \in Data, NEW p \in 1 .. Len(in) + 1, NEW t \in Bytes, NEW y \in Data, From(in, p) = << t >> \o y
    PROVE  Tag(in, p, t) = Done(p + 1, t) /\ p + 1 \in 1 .. Len(in) + 1 /\ From(in, p + 1) = y
<1> DEFINE x == << t >>
<1>1. x \in Data /\ Len(x) = 1 /\ x[1] = t
    BY DataSingle
<1> HIDE DEF x
<1>2. From(in, p) = x \o y
    BY DEF x
<1>3. /\ p + Len(x) \in 1 .. Len(in) + 1 /\ Len(y) = Len(in) - (p + Len(x)) + 1
      /\ From(in, p + Len(x)) = y
      /\ SubSeq(in, p, p + Len(x) - 1) = x
      /\ \A i \in 1 .. Len(x) : in[p - 1 + i] = x[i]
  <2>1. Parted(in, p, x, y)
      BY <1>1, <1>2, Split
  <2> QED BY <2>1 DEF Parted
<1>4. p - 1 + 1 = p /\ 1 \in 1 .. Len(x) /\ Len(in) \in Nat
    BY <1>1, DataTyped
<1>5. in[p] = t /\ p <= Len(in)
    BY <1>1, <1>3, <1>4
<1> QED BY <1>1, <1>3, <1>5 DEF Tag

LEMMA TagRead ==
    ASSUME NEW in \in Data, NEW p \in 1 .. Len(in) + 1, NEW t \in Bytes, Tag(in, p, t) # Fail
    PROVE  Tag(in, p, t) = Done(p + 1, t) /\ p + 1 \in 1 .. Len(in) + 1 /\ From(in, p) = << t >> \o From(in, p + 1)
<1>1. p <= Len(in) /\ in[p] = t /\ Tag(in, p, t) = Done(p + 1, t)
    BY DEF Tag
<1>2. Len(in) \in Nat
    BY DataTyped
<1>3. p + 1 \in 1 .. Len(in) + 1 /\ 1 \in Nat /\ p + 1 <= Len(in) + 1
    BY <1>1, <1>2
<1> DEFINE x == SubSeq(in, p, p + 1 - 1)
<1>4. /\ x \in Data /\ Len(x) = 1 /\ From(in, p) = x \o From(in, p + 1)
      /\ \A i \in 1 .. 1 : x[i] = in[p - 1 + i]
    BY <1>3, Unsplit, ZenonT(40)
<1> HIDE DEF x
<1>5. p - 1 + 1 = p /\ x[1] = t
    BY <1>1, <1>4
<1> DEFINE z == << t >>
<1>6. z \in Data /\ Len(z) = 1 /\ z[1] = t
    BY DataSingle
<1> HIDE DEF z
<1>7. x = z
    BY <1>4, <1>5, <1>6, DataSame
<1> QED BY <1>1, <1>3, <1>4, <1>7 DEF z

LEMMA LenOfTyped == ASSUME NEW n \in Bytes
    PROVE /\ LenOf(n) \in Data /\ LenOf(n) = (IF n < Top THEN << n >> ELSE << Top + 1, n >>)
          /\ Len(LenOf(n)) = IF n < Top THEN 1 ELSE 2
<1>1. Top + 1 \in Bytes
    BY BaseTyped
<1>2. << n >> \in Data /\ Len(<< n >>) = 1 /\ << Top + 1, n >> \in Data /\ Len(<< Top + 1, n >>) = 2
    BY <1>1, DataSingle, DataDouble
<1> QED BY <1>2 DEF LenOf

(* The byte of a length.                                                   *)
LEMMA LengthByte ==
    ASSUME NEW in \in Data, NEW p \in 1 .. Len(in)
    PROVE  /\ SubSeq(in, p, p) \in Data /\ Len(SubSeq(in, p, p)) = 1 /\ SubSeq(in, p, p)[1] = in[p]
           /\ ValueOf(SubSeq(in, p, p)) = in[p]
           /\ Len(Trimmed(SubSeq(in, p, p))) <= 1 /\ ValueOf(Trimmed(SubSeq(in, p, p))) = in[p]
<1>1. Len(in) \in Nat
    BY DataTyped
<1> DEFINE x == SubSeq(in, p, p + 1 - 1)
<1>2. p \in 1 .. Len(in) + 1 /\ 1 \in Nat /\ p + 1 <= Len(in) + 1 /\ p + 1 - 1 = p /\ p - 1 + 1 = p /\ 1 \in 1 .. 1
    BY <1>1
<1>3. x \in Data /\ Len(x) = 1 /\ \A i \in 1 .. 1 : x[i] = in[p - 1 + i]
    BY <1>2, Unsplit
<1> HIDE DEF x
<1>4. x[1] = in[p]
    BY <1>2, <1>3
<1>5. ValueOf(x) = x[1]
    BY <1>3, ValueBounds
<1>6. Len(Trimmed(x)) <= 1 /\ ValueOf(Trimmed(x)) = ValueOf(x)
    BY <1>3, TrimmedFacts
<1> QED BY <1>2, <1>3, <1>4, <1>5, <1>6 DEF x

LEMMA LenReads ==
    ASSUME NEW in \in Data, NEW p \in 1 .. Len(in) + 1, NEW n \in Bytes, NEW y \in Data, n <= Len(y),
           From(in, p) = LenOf(n) \o y
    PROVE  /\ ReadLen(in, p) = Done(p + Len(LenOf(n)), n) /\ LaxLen(in, p) = Done(p + Len(LenOf(n)), n)
           /\ p + Len(LenOf(n)) \in 1 .. Len(in) + 1 /\ From(in, p + Len(LenOf(n))) = y
           /\ Len(y) = Len(in) - (p + Len(LenOf(n))) + 1
           /\ LaxStart(in, p) = Done(p + Len(LenOf(n)), 0)
<1> DEFINE x == LenOf(n)
           q == p + Len(x)
<1>1. /\ x \in Data /\ x = (IF n < Top THEN << n >> ELSE << Top + 1, n >>)
      /\ Len(x) = IF n < Top THEN 1 ELSE 2
    BY LenOfTyped
<1>2. Len(in) \in Nat /\ Len(y) \in Nat /\ n \in Nat /\ n < Base
    BY DataTyped, BaseTyped
<1> HIDE DEF x
<1>0. From(in, p) = x \o y /\ x \in Data /\ in \in Data /\ y \in Data /\ p \in 1 .. Len(in) + 1
    BY <1>1 DEF x
<1>3. /\ p + Len(x) \in 1 .. Len(in) + 1 /\ Len(y) = Len(in) - (p + Len(x)) + 1
      /\ From(in, p + Len(x)) = y
      /\ SubSeq(in, p, p + Len(x) - 1) = x
      /\ \A i \in 1 .. Len(x) : in[p - 1 + i] = x[i]
  <2>1. Parted(in, p, x, y)
      BY <1>0, Split
  <2> QED BY <2>1 DEF Parted
<1>4. CASE n < Top
  <2>1. Len(x) = 1 /\ x[1] = n /\ p - 1 + 1 = p
      BY <1>1, <1>4
  <2>2. in[p] = n /\ q = p + 1
      BY <1>3, <2>1
  <2>3. p <= Len(in) /\ in[p] # Base - 1 /\ in[p] # Top /\ in[p] < Top
      BY <1>2, <1>3, <1>4, <2>2, BaseTyped
  <2>0. ~ (p > Len(in))
      BY <1>2, <2>3
  <2>4. ReadLen(in, p) = Done(p + 1, n)
      BY <2>2, <2>3, <2>0 DEF ReadLen
  <2>5. LaxLen(in, p) = Done(p + 1, n) /\ LaxStart(in, p) = Done(p + 1, 0)
    <3>1. ~ (p > Len(in))
        BY <1>2, <2>3
    <3> QED BY <2>2, <2>3, <3>1 DEF LaxLen, LaxStart
  <2> QED BY <1>3, <2>2, <2>4, <2>5 DEF x
<1>5. CASE ~ (n < Top)
  <2>1. Len(x) = 2 /\ x[1] = Top + 1 /\ x[2] = n /\ p - 1 + 1 = p /\ p - 1 + 2 = p + 1
      BY <1>1, <1>5
  <2>2. in[p] = Top + 1 /\ in[p + 1] = n /\ q = p + 2
    <3>1. 1 \in 1 .. Len(x) /\ 2 \in 1 .. Len(x)
        BY <2>1
    <3> QED BY <1>3, <2>1, <3>1
  <2>3. ~ (p > Len(in)) /\ in[p] # Base - 1 /\ in[p] # Top /\ ~ (in[p] < Top) /\ in[p] - Top = 1
      BY <1>2, <1>3, <1>5, <2>2, BaseTyped
  <2>4. p + 1 \in 1 .. Len(in)
      BY <1>2, <1>3, <2>2
  <2>5. /\ ValueOf(SubSeq(in, p + 1, p + 1)) = n
        /\ Len(Trimmed(SubSeq(in, p + 1, p + 1))) <= 1 /\ ValueOf(Trimmed(SubSeq(in, p + 1, p + 1))) = n
      BY <2>2, <2>4, LengthByte
  <2>6. Len(Trimmed(SubSeq(in, p + 1, p + 1))) \in Nat
      BY <2>4, LengthByte, TrimmedFacts
  <2>7. SizeOfSize \in Nat /\ SizeOfSize > 1
      BY SizesAssumption
  <2>8. /\ ~ (1 > Len(in) - p) /\ n # 0 /\ ~ (1 > SizeOfSize) /\ ~ (n > Len(in) - p - 1) /\ ~ (n < Top)
        /\ ~ (Len(Trimmed(SubSeq(in, p + 1, p + 1))) >= SizeOfSize) /\ p + 1 + 1 = q
      BY <1>2, <1>3, <1>5, <2>2, <2>4, <2>5, <2>6, <2>7, BaseTyped
  <2>9. ReadLen(in, p) = Done(p + 1 + 1, n)
      BY <2>2, <2>3, <2>5, <2>8 DEF ReadLen
  <2>10. LaxLen(in, p) = Done(p + 1 + 1, n)
      BY <2>2, <2>3, <2>5, <2>8 DEF LaxLen
  <2>11. LaxStart(in, p) = Done(q, 0)
    <3>1. p + 1 + (Top + 1) - Top = q
        BY <2>2, BaseTyped
    <3> QED BY <2>2, <2>3, <2>8, <3>1 DEF LaxStart
  <2> QED BY <1>3, <2>8, <2>9, <2>10, <2>11 DEF x
<1> QED BY <1>4, <1>5

LEMMA LenRead ==
    ASSUME NEW in \in Data, Len(in) < Base, NEW p \in 1 .. Len(in) + 1, ReadLen(in, p) # Fail
    PROVE  \E n \in Bytes : /\ ReadLen(in, p) = Done(p + Len(LenOf(n)), n)
                            /\ p + Len(LenOf(n)) \in 1 .. Len(in) + 1
                            /\ From(in, p) = LenOf(n) \o From(in, p + Len(LenOf(n)))
<1>1. ~ (p > Len(in)) /\ in[p] # Base - 1 /\ in[p] # Top
    BY DEF ReadLen
<1>2. Len(in) \in Nat /\ p \in 1 .. Len(in) /\ \A i \in 1 .. Len(in) : in[i] \in Bytes /\ in[i] \in 0 .. Base - 1
    BY <1>1, DataTyped, BaseTyped
<1>3. CASE in[p] < Top
  <2> DEFINE n == in[p]
             x == SubSeq(in, p, p + 1 - 1)
  <2>1. n \in Bytes /\ LenOf(n) = << n >> /\ Len(LenOf(n)) = 1 /\ LenOf(n) \in Data /\ LenOf(n)[1] = n
    <3>1. n \in Bytes
        BY <1>2
    <3>2. << n >>[1] = n
        BY <3>1, DataSingle
    <3> QED BY <1>3, <3>1, <3>2, LenOfTyped
  <2>2. ReadLen(in, p) = Done(p + 1, n)
      BY <1>1, <1>3 DEF ReadLen
  <2>3. p \in 1 .. Len(in) + 1 /\ 1 \in Nat /\ p + 1 <= Len(in) + 1 /\ p + 1 \in 1 .. Len(in) + 1 /\ p - 1 + 1 = p
      BY <1>2
  <2>4. /\ x \in Data /\ Len(x) = 1 /\ From(in, p) = x \o From(in, p + 1)
        /\ \A i \in 1 .. 1 : x[i] = in[p - 1 + i]
      BY <2>3, Unsplit
  <2> HIDE DEF x, n
  <2>5. x[1] = n
      BY <2>3, <2>4 DEF n
  <2>6. x = LenOf(n)
      BY <2>1, <2>4, <2>5, DataSame
  <2> QED BY <2>1, <2>2, <2>3, <2>4, <2>6
<1>4. CASE ~ (in[p] < Top)
  <2> DEFINE left == in[p] - Top
             z == SubSeq(in, p + 1, p + left)
             value == ValueOf(z)
             n == in[p + 1]
             x == SubSeq(in, p, p + 2 - 1)
  <2>1. /\ ~ (left > Len(in) - p) /\ in[p + 1] # 0 /\ ~ (left > SizeOfSize)
        /\ ~ (value > Len(in) - p - left) /\ ~ (value < Top)
        /\ ReadLen(in, p) = Done(p + 1 + left, value)
      BY <1>1, <1>4 DEF ReadLen
  <2>2. left \in Nat /\ left >= 1
      BY <1>1, <1>2, <1>4, BaseTyped
  <2>3. z \in Data /\ Len(z) = left /\ z[1] = n
    <3> DEFINE q == p + 1
               u == SubSeq(in, q, q + left - 1)
    <3>0. left \in Nat /\ left >= 1 /\ left <= Len(in) - p
        BY <1>2, <2>1, <2>2
    <3> HIDE DEF left
    <3>1. q \in 1 .. Len(in) + 1 /\ q + left <= Len(in) + 1 /\ q + left - 1 = p + left /\ q - 1 + 1 = p + 1 /\ 1 \in 1 .. left
        BY <1>2, <3>0
    <3> HIDE DEF q
    <3>2. u \in Data /\ Len(u) = left /\ \A i \in 1 .. left : u[i] = in[q - 1 + i]
        BY <2>2, <3>1, Unsplit
    <3>3. u = z
        BY <3>1 DEF q
    <3> HIDE DEF u, z
    <3> QED BY <3>1, <3>2, <3>3
  <2> HIDE DEF z, left, n
  <2>4. value \in Nat /\ (Len(z) = 1 => value = z[1]) /\ (Len(z) >= 2 /\ z[1] # 0 => value >= Base)
      BY <2>3, ValueBounds
  <2> HIDE DEF value
  <2>5. left = 1
      BY <1>2, <2>1, <2>2, <2>3, <2>4, BaseTyped DEF n
  <2>6. n \in Bytes /\ value = n /\ ~ (n < Top) /\ p + 2 <= Len(in) + 1 /\ ReadLen(in, p) = Done(p + 2, n)
    <3>1. value = n /\ ~ (value < Top) /\ p + 1 \in 1 .. Len(in) /\ p + 1 + left = p + 2
        BY <1>2, <2>1, <2>3, <2>4, <2>5
    <3> QED BY <1>2, <2>1, <3>1 DEF n
  <2>7. in[p] = Top + 1
      BY <1>2, <2>5, BaseTyped DEF left
  <2>8. p \in 1 .. Len(in) + 1 /\ 2 \in Nat /\ p + 2 \in 1 .. Len(in) + 1 /\ p - 1 + 1 = p /\ p - 1 + 2 = p + 1
      BY <1>2, <2>6
  <2>9. /\ x \in Data /\ Len(x) = 2 /\ From(in, p) = x \o From(in, p + 2)
        /\ \A i \in 1 .. 2 : x[i] = in[p - 1 + i]
      BY <2>6, <2>8, Unsplit
  <2> HIDE DEF x
  <2>10. x[1] = Top + 1 /\ x[2] = n
      BY <2>7, <2>8, <2>9 DEF n
  <2>11. Top + 1 \in Bytes
      BY BaseTyped
  <2>12. /\ LenOf(n) = << Top + 1, n >> /\ Len(LenOf(n)) = 2 /\ LenOf(n) \in Data
         /\ LenOf(n)[1] = Top + 1 /\ LenOf(n)[2] = n
      BY <2>6, <2>11, LenOfTyped, DataDouble
  <2>13. x = LenOf(n)
    <3>1. \A i \in 1 .. 2 : i = 1 \/ i = 2
        OBVIOUS
    <3> QED BY <2>9, <2>10, <2>12, <3>1, DataSame
  <2> QED BY <2>6, <2>8, <2>9, <2>12, <2>13
<1> QED BY <1>3, <1>4

LEMMA MinimalIs == \A c : Minimal(c) <=> Len(c) > 0 /\ ~ Padded(c)
  BY DEF Minimal, Padded

LEMMA ContentReads ==
    ASSUME NEW in \in Data, NEW p \in 1 .. Len(in) + 1, NEW c \in Data, NEW y \in Data, Minimal(c), From(in, p) = c \o y
    PROVE  /\ ParseContent(in, p, Len(c)) = Done(p + Len(c), IntegerOf(c))
           /\ SubSeq(in, p, p + Len(c) - 1) = c
           /\ p + Len(c) \in 1 .. Len(in) + 1 /\ From(in, p + Len(c)) = y /\ ~ (Len(c) > Len(in) - p + 1)
<1>1. /\ p + Len(c) \in 1 .. Len(in) + 1 /\ Len(y) = Len(in) - (p + Len(c)) + 1
      /\ From(in, p + Len(c)) = y
      /\ SubSeq(in, p, p + Len(c) - 1) = c
      /\ \A i \in 1 .. Len(c) : in[p - 1 + i] = c[i]
  <2>1. Parted(in, p, c, y)
      BY Split
  <2> QED BY <2>1 DEF Parted
<1>2. ~ (Len(c) = 0) /\ ~ (Len(c) > Len(in) - p + 1) /\ ~ Padded(c)
    BY <1>1, MinimalIs, DataTyped
<1> QED BY <1>1, <1>2 DEF ParseContent

LEMMA ContentRead ==
    ASSUME NEW in \in Data, NEW p \in 1 .. Len(in) + 1, NEW n \in Bytes, ParseContent(in, p, n) # Fail
    PROVE  \E c \in Data : /\ Len(c) = n /\ Minimal(c) /\ ParseContent(in, p, n) = Done(p + n, IntegerOf(c))
                           /\ p + n \in 1 .. Len(in) + 1 /\ From(in, p) = c \o From(in, p + n)
<1> DEFINE c == SubSeq(in, p, p + n - 1)
<1>1. n # 0 /\ ~ (n > Len(in) - p + 1) /\ ~ Padded(c) /\ ParseContent(in, p, n) = Done(p + n, IntegerOf(c))
    BY DEF ParseContent
<1>2. Len(in) \in Nat /\ n \in Nat
    BY DataTyped, BaseTyped
<1>3. p + n <= Len(in) + 1 /\ p + n \in 1 .. Len(in) + 1
    BY <1>1, <1>2
<1>4. c \in Data /\ Len(c) = n /\ From(in, p) = c \o From(in, p + n)
    BY <1>2, <1>3, Unsplit, ZenonT(40)
<1> HIDE DEF c
<1>5. Minimal(c)
    BY <1>1, <1>2, <1>4, MinimalIs
<1> QED BY <1>1, <1>3, <1>4, <1>5

LEMMA TagsTyped == IntTag \in Bytes /\ SeqTag \in Bytes
  BY SizesAssumption

LEMMA DerTyped ==
    ASSUME NEW c \in Data, Len(c) < Base
    PROVE  /\ Der(c) \in Data /\ LenOf(Len(c)) \in Data /\ Len(c) \in Bytes
           /\ << IntTag >> \in Data /\ LenOf(Len(c)) \o c \in Data
           /\ Len(Der(c)) = 1 + (Len(LenOf(Len(c))) + Len(c))
           /\ Len(LenOf(Len(c))) = IF Len(c) < Top THEN 1 ELSE 2
<1> DEFINE n == Len(c)
           x == LenOf(n)
           o == << IntTag >>
<1>1. n \in Bytes
    BY DataTyped, BaseTyped
<1> HIDE DEF n
<1>2. x \in Data /\ Len(x) = IF n < Top THEN 1 ELSE 2
    BY <1>1, LenOfTyped
<1>3. o \in Data /\ Len(o) = 1
    BY TagsTyped, DataSingle
<1> HIDE DEF x, o
<1>4. x \o c \in Data /\ Len(x \o c) = Len(x) + Len(c)
    BY <1>2, DataJoined
<1>5. o \o (x \o c) \in Data /\ Len(o \o (x \o c)) = 1 + (Len(x) + Len(c))
  <2> DEFINE u == x \o c
  <2>1. u \in Data /\ Len(u) = Len(x) + Len(c)
      BY <1>4
  <2> HIDE DEF u
  <2>2. o \o u \in Data /\ Len(o \o u) = Len(o) + Len(u)
      BY <1>3, <2>1, DataJoined
  <2> QED BY <1>3, <2>1, <2>2 DEF u
<1> QED BY <1>1, <1>2, <1>3, <1>4, <1>5 DEF Der, n, x, o

(* An integer is read where its encoding is, and only there.               *)
LEMMA IntegerReads ==
    ASSUME NEW in \in Data, NEW p \in 1 .. Len(in) + 1, NEW c \in Data, Len(c) < Base, Minimal(c),
           NEW y \in Data, From(in, p) = Der(c) \o y
    PROVE  /\ ParseInteger(in, p) = Done(p + Len(Der(c)), IntegerOf(c))
           /\ LaxInteger(in, p) = Done(p + Len(Der(c)), Trimmed(c))
           /\ p + Len(Der(c)) \in 1 .. Len(in) + 1 /\ From(in, p + Len(Der(c))) = y
<1> DEFINE n == Len(c)
           x == LenOf(n)
           o == << IntTag >>
           p1 == p + 1
           p2 == p1 + Len(x)
<1>1. /\ Der(c) = o \o (x \o c) /\ x \in Data /\ n \in Bytes /\ o \in Data /\ x \o c \in Data
      /\ Len(Der(c)) = 1 + (Len(x) + n) /\ Len(x) \in Nat /\ n \in Nat
    BY DerTyped, DataTyped DEF Der
<1>2. c \o y \in Data /\ Len(c \o y) = n + Len(y) /\ Len(y) \in Nat
    BY DataJoined, DataTyped
<1> HIDE DEF x, n
<1>3. x \o (c \o y) \in Data
    BY <1>1, <1>2, DataJoined
<1>4. From(in, p) = o \o (x \o (c \o y))
  <2> DEFINE xc == x \o c
  <2>1. o \in Data /\ x \in Data /\ c \in Data /\ xc \in Data /\ y \in Data
      BY <1>1
  <2> HIDE DEF o, xc
  <2>2. Again(o, xc, y) /\ Again(x, c, y)
      BY ONLY <2>1, DataAgainHolds
  <2>3. (o \o (x \o c)) \o y = o \o (x \o (c \o y))
      BY <2>2 DEF Again, xc
  <2> QED BY <1>1, <2>3
<1>5. Tag(in, p, IntTag) = Done(p1, IntTag) /\ p1 \in 1 .. Len(in) + 1 /\ From(in, p1) = x \o (c \o y)
  <2> DEFINE z == x \o (c \o y)
  <2>1. z \in Data /\ From(in, p) = << IntTag >> \o z
      BY <1>3, <1>4
  <2> HIDE DEF z
  <2>2. Tag(in, p, IntTag) = Done(p + 1, IntTag) /\ p + 1 \in 1 .. Len(in) + 1 /\ From(in, p + 1) = z
      BY <2>1, TagReads, TagsTyped
  <2> QED BY <2>2 DEF z
<1> HIDE DEF p1, o
<1>6. n <= Len(c \o y)
    BY <1>1, <1>2
<1>7. /\ ReadLen(in, p1) = Done(p2, n) /\ LaxLen(in, p1) = Done(p2, n)
      /\ p2 \in 1 .. Len(in) + 1 /\ From(in, p2) = c \o y
  <2> DEFINE w == c \o y
  <2>1. w \in Data /\ n <= Len(w) /\ From(in, p1) = LenOf(n) \o w
      BY <1>2, <1>5, <1>6 DEF x
  <2> HIDE DEF w
  <2>2. /\ ReadLen(in, p1) = Done(p1 + Len(LenOf(n)), n) /\ LaxLen(in, p1) = Done(p1 + Len(LenOf(n)), n)
        /\ p1 + Len(LenOf(n)) \in 1 .. Len(in) + 1 /\ From(in, p1 + Len(LenOf(n))) = w
        /\ Len(w) = Len(in) - (p1 + Len(LenOf(n))) + 1
        /\ LaxStart(in, p1) = Done(p1 + Len(LenOf(n)), 0)
      BY <1>1, <1>5, <2>1, LenReads
  <2> QED BY <2>2 DEF w, x
<1>8. p2 + n = p + Len(Der(c)) /\ p2 \in Nat
    BY <1>1, <1>5, <1>7 DEF p1
<1> HIDE DEF p2
<1>9. /\ ParseContent(in, p2, n) = Done(p2 + n, IntegerOf(c))
      /\ SubSeq(in, p2, p2 + n - 1) = c
      /\ p2 + n \in 1 .. Len(in) + 1 /\ From(in, p2 + n) = y /\ ~ (n > Len(in) - p2 + 1)
    BY <1>7, ContentReads DEF n
<1>10. ParseInteger(in, p) = Done(p2 + n, IntegerOf(c))
  <2>1. ParseInteger(in, p) = ParseContent(in, p2, n)
      BY <1>5, <1>7 DEF ParseInteger, Then, Done
  <2> QED BY <1>9, <2>1
<1>11. LaxInteger(in, p) = Done(p2 + n, Trimmed(c))
  <2>1. LaxInteger(in, p) = IF n > Len(in) - p2 + 1 THEN Fail ELSE Done(p2 + n, Trimmed(SubSeq(in, p2, p2 + n - 1)))
    <3> DEFINE t == Tag(in, p, IntTag)
               l == LaxLen(in, t.pos)
    <3>1. LaxInteger(in, p) = IF Ok(t) THEN IF Ok(l) THEN IF l.value > Len(in) - l.pos + 1 THEN Fail
                                 ELSE Done(l.pos + l.value, Trimmed(SubSeq(in, l.pos, l.pos + l.value - 1))) ELSE Fail ELSE Fail
        BY DEF LaxInteger, Then, Ok
    <3>2. Ok(t) /\ t.pos = p1
        BY <1>5, DoneFacts
    <3>3. Ok(l) /\ l.pos = p2 /\ l.value = n
        BY <1>7, <3>2, DoneFacts
    <3> HIDE DEF t, l
    <3> QED BY <3>1, <3>2, <3>3
  <2> QED BY <1>9, <2>1
<1> QED BY <1>8, <1>9, <1>10, <1>11

LEMMA ThenIs == ASSUME NEW in, NEW p
    PROVE ParseInteger(in, p) # Fail =>
             /\ Tag(in, p, IntTag) # Fail
             /\ ReadLen(in, Tag(in, p, IntTag).pos) # Fail
             /\ ParseInteger(in, p) = ParseContent(in, ReadLen(in, Tag(in, p, IntTag).pos).pos, ReadLen(in, Tag(in, p, IntTag).pos).value)
<1> DEFINE t == Tag(in, p, IntTag)
           l == ReadLen(in, t.pos)
<1>1. ParseInteger(in, p) = IF t.ok THEN IF l.ok THEN ParseContent(in, l.pos, l.value) ELSE Fail ELSE Fail
    BY DEF ParseInteger, Then
<1>2. ~ Fail.ok
    BY DEF Fail
<1> QED BY <1>1, <1>2

LEMMA IntegerRead ==
    ASSUME NEW in \in Data, Len(in) < Base, NEW p \in 1 .. Len(in) + 1, ParseInteger(in, p) # Fail
    PROVE  \E c \in Data : /\ Len(c) < Base /\ Minimal(c)
                           /\ p + Len(Der(c)) \in 1 .. Len(in) + 1
                           /\ From(in, p) = Der(c) \o From(in, p + Len(Der(c)))
<1> DEFINE t == Tag(in, p, IntTag)
           l == ReadLen(in, t.pos)
           o == << IntTag >>
<1>1. t # Fail /\ l # Fail /\ ParseInteger(in, p) = ParseContent(in, l.pos, l.value)
    BY ThenIs
<1> DEFINE p1 == p + 1
<1>2. t = Done(p1, IntTag) /\ p1 \in 1 .. Len(in) + 1 /\ From(in, p) = o \o From(in, p1)
    BY <1>1, TagRead, TagsTyped
<1>3. t.pos = p1
    BY <1>2, DoneFacts
<1> HIDE DEF t, p1
<1>4. ReadLen(in, p1) # Fail
    BY <1>1, <1>3
<1>5. PICK n \in Bytes : /\ ReadLen(in, p1) = Done(p1 + Len(LenOf(n)), n)
                         /\ p1 + Len(LenOf(n)) \in 1 .. Len(in) + 1
                         /\ From(in, p1) = LenOf(n) \o From(in, p1 + Len(LenOf(n)))
    BY <1>2, <1>4, LenRead
<1> DEFINE x == LenOf(n)
           p2 == p1 + Len(x)
<1>6. l.pos = p2 /\ l.value = n
    BY <1>3, <1>5, DoneFacts
<1> HIDE DEF l
<1>7. p2 \in 1 .. Len(in) + 1 /\ ParseContent(in, p2, n) # Fail /\ From(in, p1) = x \o From(in, p2)
    BY <1>1, <1>5, <1>6
<1> HIDE DEF x, p2
<1>8. PICK c \in Data : /\ Len(c) = n /\ Minimal(c)
                        /\ p2 + n \in 1 .. Len(in) + 1 /\ From(in, p2) = c \o From(in, p2 + n)
    BY <1>7, ContentRead
<1>9. Len(c) < Base /\ Der(c) = o \o (x \o c)
    BY <1>8, BaseTyped DEF Der, x
<1>10. /\ x \in Data /\ o \in Data /\ x \o c \in Data /\ Len(Der(c)) = 1 + (Len(x) + n) /\ Len(x) \in Nat
    BY <1>8, <1>9, DerTyped, DataTyped DEF x
<1>11. p + Len(Der(c)) = p2 + n
    BY <1>8, <1>10 DEF p2, p1
<1> DEFINE y == From(in, p2 + n)
<1>12. y \in Data
  <2>1. n \in Nat /\ Len(in) \in Nat /\ p2 + n \in 1 .. Len(in) + 1
      BY <1>8, BaseTyped, DataTyped
  <2>2. p2 + n \in 1 .. Len(in) + 1 /\ 0 \in Nat /\ p2 + n + 0 <= Len(in) + 1 /\ p2 + n + 0 = p2 + n
      BY <1>7, <2>1
  <2> DEFINE q == p2 + n
  <2> HIDE DEF q
  <2>3. q \in 1 .. Len(in) + 1 /\ 0 \in Nat /\ q + 0 <= Len(in) + 1 /\ q + 0 = q
      BY <2>2 DEF q
  <2>4. From(in, q + 0) \in Data
      BY <2>3, Unsplit
  <2> QED BY <2>3, <2>4 DEF q
<1> HIDE DEF y
<1>13. From(in, p) = o \o (x \o (c \o y))
    BY <1>2, <1>7, <1>8 DEF y
<1>14. (o \o (x \o c)) \o y = o \o (x \o (c \o y))
  <2> DEFINE xc == x \o c
  <2>1. o \in Data /\ x \in Data /\ c \in Data /\ xc \in Data /\ y \in Data
      BY <1>10, <1>12
  <2> HIDE DEF o, xc
  <2>2. Again(o, xc, y) /\ Again(x, c, y)
      BY ONLY <2>1, DataAgainHolds
  <2> QED BY <2>2 DEF Again, xc
<1>15. From(in, p) = Der(c) \o y
    BY <1>9, <1>13, <1>14
<1> QED BY <1>8, <1>9, <1>11, <1>15 DEF y

LEMMA DataEmpty == << >> \in Data /\ Len(<< >>) = 0 /\ \A x \in Data : x \o << >> = x /\ (Len(x) = 0 => x = << >>)
  BY DEF Data

LEMMA FromTyped == ASSUME NEW in \in Data, NEW p \in 1 .. Len(in) + 1
                   PROVE  From(in, p) \in Data /\ Len(From(in, p)) = Len(in) - p + 1
<1>1. 0 \in Nat /\ p + 0 <= Len(in) + 1 /\ p + 0 = p
    BY DataTyped
<1>2. From(in, p + 0) \in Data /\ Len(From(in, p + 0)) = Len(in) - (p + 0) + 1
    BY <1>1, Unsplit
<1> QED BY <1>1, <1>2

(* An encoding is of two integers, and of fewer bytes than the base.       *)
Integers2(c, d) == /\ c \in Data /\ Len(c) < Base /\ Minimal(c)
                   /\ d \in Data /\ Len(d) < Base /\ Minimal(d)
Body(c, d) == Der(c) \o Der(d)

LEMMA BodyTyped ==
    ASSUME NEW c, NEW d, Integers2(c, d)
    PROVE  /\ Body(c, d) \in Data /\ Len(Body(c, d)) = Len(Der(c)) + Len(Der(d))
           /\ Der(c) \in Data /\ Der(d) \in Data /\ Len(Der(c)) \in Nat /\ Len(Der(d)) \in Nat
           /\ Len(c) <= Len(Der(c)) /\ Len(d) <= Len(Der(d))
<1>1. /\ Der(c) \in Data /\ Der(d) \in Data
      /\ Len(Der(c)) = 1 + (Len(LenOf(Len(c))) + Len(c)) /\ Len(LenOf(Len(c))) \in 1 .. 2
      /\ Len(Der(d)) = 1 + (Len(LenOf(Len(d))) + Len(d)) /\ Len(LenOf(Len(d))) \in 1 .. 2
    BY DerTyped DEF Integers2
<1>2. Len(c) \in Nat /\ Len(d) \in Nat
    BY DataTyped DEF Integers2
<1>3. Len(Der(c)) \in Nat /\ Len(Der(d)) \in Nat /\ Len(c) <= Len(Der(c)) /\ Len(d) <= Len(Der(d))
    BY <1>1, <1>2
<1>4. Body(c, d) \in Data /\ Len(Body(c, d)) = Len(Der(c)) + Len(Der(d))
    BY <1>1, DataJoined DEF Body
<1> QED BY <1>1, <1>3, <1>4

LEMMA PairReads ==
    ASSUME NEW in \in Data, NEW p \in 1 .. Len(in) + 1, NEW c, NEW d, Integers2(c, d), From(in, p) = Body(c, d)
    PROVE  /\ ParsePair(in, p, ParseInteger) = Done(Len(in) + 1, << IntegerOf(c), IntegerOf(d) >>)
           /\ ParsePair(in, p, LaxInteger) = Done(Len(in) + 1, << Trimmed(c), Trimmed(d) >>)
<1> DEFINE p1 == p + Len(Der(c))
           p2 == p1 + Len(Der(d))
           y == Der(d)
           e == << >>
<1>1. y \in Data /\ e \in Data /\ y \o e = y /\ Len(e) = 0
    BY BodyTyped, DataEmpty
<1> HIDE DEF y, e
<1>2. c \in Data /\ Len(c) < Base /\ Minimal(c) /\ From(in, p) = Der(c) \o y
    BY DEF Integers2, Body, y
<1>3. /\ ParseInteger(in, p) = Done(p1, IntegerOf(c)) /\ LaxInteger(in, p) = Done(p1, Trimmed(c))
      /\ p1 \in 1 .. Len(in) + 1 /\ From(in, p1) = y
  <2>1. y \in Data
      BY <1>1
  <2>2. /\ ParseInteger(in, p) = Done(p + Len(Der(c)), IntegerOf(c))
        /\ LaxInteger(in, p) = Done(p + Len(Der(c)), Trimmed(c))
        /\ p + Len(Der(c)) \in 1 .. Len(in) + 1 /\ From(in, p + Len(Der(c))) = y
      BY <1>2, <2>1, IntegerReads
  <2> QED BY <2>2
<1> HIDE DEF p1
<1>4. d \in Data /\ Len(d) < Base /\ Minimal(d) /\ From(in, p1) = Der(d) \o e
    BY <1>1, <1>3 DEF Integers2, y
<1>5. /\ ParseInteger(in, p1) = Done(p2, IntegerOf(d)) /\ LaxInteger(in, p1) = Done(p2, Trimmed(d))
      /\ p2 \in 1 .. Len(in) + 1 /\ From(in, p2) = e
    BY <1>1, <1>3, <1>4, IntegerReads
<1> HIDE DEF p2
<1>6. p2 = Len(in) + 1
  <2>1. Len(From(in, p2)) = Len(in) - p2 + 1
      BY <1>5, FromTyped
  <2>2. Len(in) \in Nat
      BY DataTyped
  <2> QED BY <1>1, <1>5, <2>1, <2>2
<1>7. ParsePair(in, p, ParseInteger) = Done(p2, << IntegerOf(c), IntegerOf(d) >>)
  <2> DEFINE r == ParseInteger(in, p)
             s == ParseInteger(in, r.pos)
  <2>1. ParsePair(in, p, ParseInteger) = IF Ok(r) THEN IF Ok(s) THEN Done(s.pos, << r.value, s.value >>) ELSE Fail ELSE Fail
      BY DEF ParsePair, Then, Ok
  <2>2. Ok(r) /\ r.pos = p1 /\ r.value = IntegerOf(c)
      BY <1>3, DoneFacts
  <2>3. Ok(s) /\ s.pos = p2 /\ s.value = IntegerOf(d)
      BY <1>5, <2>2, DoneFacts
  <2> HIDE DEF r, s
  <2> QED BY <2>1, <2>2, <2>3
<1>8. ParsePair(in, p, LaxInteger) = Done(p2, << Trimmed(c), Trimmed(d) >>)
  <2> DEFINE r == LaxInteger(in, p)
             s == LaxInteger(in, r.pos)
  <2>1. ParsePair(in, p, LaxInteger) = IF Ok(r) THEN IF Ok(s) THEN Done(s.pos, << r.value, s.value >>) ELSE Fail ELSE Fail
      BY DEF ParsePair, Then, Ok
  <2>2. Ok(r) /\ r.pos = p1 /\ r.value = Trimmed(c)
      BY <1>3, DoneFacts
  <2>3. Ok(s) /\ s.pos = p2 /\ s.value = Trimmed(d)
      BY <1>5, <2>2, DoneFacts
  <2> HIDE DEF r, s
  <2> QED BY <2>1, <2>2, <2>3
<1> QED BY <1>6, <1>7, <1>8

LEMMA PairRead ==
    ASSUME NEW in \in Data, Len(in) < Base, NEW p \in 1 .. Len(in) + 1,
           ParsePair(in, p, ParseInteger) # Fail, ParsePair(in, p, ParseInteger).pos = Len(in) + 1
    PROVE  \E c, d : Integers2(c, d) /\ From(in, p) = Body(c, d)
<1> DEFINE r == ParseInteger(in, p)
           s == ParseInteger(in, r.pos)
<1>1. ParsePair(in, p, ParseInteger) = IF Ok(r) THEN IF Ok(s) THEN Done(s.pos, << r.value, s.value >>) ELSE Fail ELSE Fail
    BY DEF ParsePair, Then, Ok
<1>2. Ok(r) /\ Ok(s) /\ s.pos = Len(in) + 1
    BY <1>1, DoneFacts
<1>3. r # Fail /\ s # Fail
    BY <1>2, DoneFacts
<1>4. PICK c \in Data : /\ Len(c) < Base /\ Minimal(c)
                        /\ p + Len(Der(c)) \in 1 .. Len(in) + 1
                        /\ From(in, p) = Der(c) \o From(in, p + Len(Der(c)))
    BY <1>3, IntegerRead
<1> DEFINE p1 == p + Len(Der(c))
           y == From(in, p1)
<1>5. y \in Data
    BY <1>4, FromTyped
<1>6. r = Done(p1, IntegerOf(c))
    BY <1>4, <1>5, IntegerReads
<1>7. r.pos = p1
    BY <1>6, DoneFacts
<1>8. p1 \in 1 .. Len(in) + 1 /\ From(in, p) = Der(c) \o y
    BY <1>4
<1> HIDE DEF p1, r
<1>9. ParseInteger(in, p1) # Fail /\ ParseInteger(in, p1).pos = Len(in) + 1
    BY <1>2, <1>3, <1>7
<1>10. PICK d \in Data : /\ Len(d) < Base /\ Minimal(d)
                         /\ p1 + Len(Der(d)) \in 1 .. Len(in) + 1
                         /\ From(in, p1) = Der(d) \o From(in, p1 + Len(Der(d)))
    BY <1>8, <1>9, IntegerRead
<1> DEFINE p2 == p1 + Len(Der(d))
           e == From(in, p2)
<1>11. e \in Data /\ Len(e) = Len(in) - p2 + 1
    BY <1>10, FromTyped
<1>12. ParseInteger(in, p1) = Done(p2, IntegerOf(d))
    BY <1>8, <1>10, <1>11, IntegerReads, ZenonT(40)
<1>13. p2 = Len(in) + 1
    BY <1>9, <1>12, DoneFacts
<1>14. From(in, p1) = Der(d) \o e
    BY <1>10
<1> HIDE DEF p2, e
<1>15. e = << >>
    BY <1>11, <1>13, DataEmpty, DataTyped
<1>16. Integers2(c, d)
    BY <1>4, <1>10 DEF Integers2
<1>17. Der(d) \in Data
    BY <1>16, BodyTyped
<1>18. y = Der(d)
    BY <1>14, <1>15, <1>17, DataEmpty
<1> QED BY <1>8, <1>16, <1>18 DEF Body

LEMMA DerOfPairTyped ==
    ASSUME NEW in \in Data, Len(in) < Base, NEW c, NEW d, Integers2(c, d)
    PROVE  /\ DerOfPair(<< c, d >>) = << SeqTag >> \o (LenOf(Len(Body(c, d))) \o Body(c, d))
           /\ Len(Body(c, d)) < Base =>
                 /\ Len(Body(c, d)) \in Bytes /\ LenOf(Len(Body(c, d))) \in Data /\ LenOf(Len(Body(c, d))) \o Body(c, d) \in Data
                 /\ Len(LenOf(Len(Body(c, d)))) = IF Len(Body(c, d)) < Top THEN 1 ELSE 2
<1>1. DerOfPair(<< c, d >>) = << SeqTag >> \o (LenOf(Len(Body(c, d))) \o Body(c, d))
    BY DEF DerOfPair, Body
<1> DEFINE y == Body(c, d)
           n == Len(y)
<1>2. y \in Data
    BY BodyTyped
<1> HIDE DEF y
<1>3. ASSUME n < Base PROVE n \in Bytes
    BY <1>2, <1>3, DataTyped, BaseTyped
<1> HIDE DEF n
<1>4. ASSUME n < Base PROVE LenOf(n) \in Data /\ LenOf(n) \o y \in Data /\ Len(LenOf(n)) = IF n < Top THEN 1 ELSE 2
    BY <1>2, <1>3, <1>4, LenOfTyped, DataJoined
<1> QED BY <1>1, <1>3, <1>4 DEF y, n

LEMMA DerReads ==
    ASSUME NEW in \in Data, Len(in) < Base, NEW c, NEW d, Integers2(c, d), in = DerOfPair(<< c, d >>), Len(Body(c, d)) < Base
    PROVE  /\ ParseDer(in) = Done(Len(in) + 1, << IntegerOf(c), IntegerOf(d) >>)
           /\ ParseDerLax(in) = Done(Len(in) + 1, LaxSig(Trimmed(c), Trimmed(d)))
<1> DEFINE y == Body(c, d)
           n == Len(y)
           x == LenOf(n)
           z == x \o y
<1>1. y \in Data /\ n \in Bytes /\ x \in Data /\ z \in Data
    BY BodyTyped, DerOfPairTyped
<1>2. Len(in) \in Nat /\ 1 \in 1 .. Len(in) + 1 /\ 1 + 1 = 2
    BY DataTyped
<1>3. From(in, 1) = << SeqTag >> \o z
    BY DerOfPairTyped, FromOne
<1> HIDE DEF z
<1>4. Tag(in, 1, SeqTag) = Done(2, SeqTag) /\ 2 \in 1 .. Len(in) + 1 /\ From(in, 2) = z
  <2> DEFINE p == 1
  <2>1. p \in 1 .. Len(in) + 1 /\ From(in, p) = << SeqTag >> \o z /\ p + 1 = 2 /\ z \in Data /\ SeqTag \in Bytes
      BY <1>1, <1>2, <1>3, TagsTyped
  <2> HIDE DEF p
  <2>2. Tag(in, p, SeqTag) = Done(p + 1, SeqTag) /\ p + 1 \in 1 .. Len(in) + 1 /\ From(in, p + 1) = z
      BY ONLY in \in Data, <2>1, TagReads, SMTT(20)
  <2>3. Tag(in, p, SeqTag) = Done(2, SeqTag) /\ 2 \in 1 .. Len(in) + 1 /\ From(in, 2) = z
      BY <2>1, <2>2
  <2> QED BY <2>3 DEF p
<1>5. 2 \in 1 .. Len(in) + 1 /\ From(in, 2) = LenOf(n) \o y
    BY <1>4 DEF z
<1> HIDE DEF x, n
<1> DEFINE q == 2 + Len(LenOf(n))
<1>6. /\ ReadLen(in, 2) = Done(q, n) /\ q \in 1 .. Len(in) + 1 /\ From(in, q) = y
      /\ Len(y) = Len(in) - q + 1 /\ LaxStart(in, 2) = Done(q, 0)
  <2>1. n <= Len(y)
      BY <1>1, BaseTyped DEF n
  <2>2. /\ ReadLen(in, 2) = Done(2 + Len(LenOf(n)), n) /\ LaxLen(in, 2) = Done(2 + Len(LenOf(n)), n)
        /\ 2 + Len(LenOf(n)) \in 1 .. Len(in) + 1 /\ From(in, 2 + Len(LenOf(n))) = y
        /\ Len(y) = Len(in) - (2 + Len(LenOf(n))) + 1
        /\ LaxStart(in, 2) = Done(2 + Len(LenOf(n)), 0)
    <3> HIDE DEF y
    <3> QED BY <1>1, <1>5, <2>1, LenReads
  <2> QED BY <2>2
<1> HIDE DEF q
<1>7. /\ ParsePair(in, q, ParseInteger) = Done(Len(in) + 1, << IntegerOf(c), IntegerOf(d) >>)
      /\ ParsePair(in, q, LaxInteger) = Done(Len(in) + 1, << Trimmed(c), Trimmed(d) >>)
    BY <1>6, PairReads
<1> DEFINE t == Tag(in, 1, SeqTag)
<1>8. Ok(t) /\ t.pos = 2
    BY <1>2, <1>4, DoneFacts
<1>9. ParseDer(in) = Done(Len(in) + 1, << IntegerOf(c), IntegerOf(d) >>)
  <2> DEFINE l == ReadLen(in, t.pos)
             sig == ParsePair(in, l.pos, ParseInteger)
  <2>1. ParseDer(in) = IF Ok(t) THEN IF Ok(l) THEN IF l.value # Len(in) - l.pos + 1 THEN Fail
                          ELSE IF Ok(sig) THEN IF sig.pos = Len(in) + 1 THEN sig ELSE Fail ELSE Fail ELSE Fail ELSE Fail
      BY DEF ParseDer, Then, Ok
  <2>2. Ok(l) /\ l.pos = q /\ l.value = n
      BY <1>6, <1>8, DoneFacts
  <2> HIDE DEF l
  <2>3. Ok(sig) /\ sig.pos = Len(in) + 1 /\ sig = Done(Len(in) + 1, << IntegerOf(c), IntegerOf(d) >>)
      BY <1>7, <2>2, DoneFacts
  <2>4. l.value = Len(in) - l.pos + 1
      BY <1>6, <2>2 DEF n
  <2> HIDE DEF sig, t
  <2> QED BY <1>8, <2>1, <2>2, <2>3, <2>4
<1>10. ParseDerLax(in) = Done(Len(in) + 1, LaxSig(Trimmed(c), Trimmed(d)))
  <2> DEFINE l == LaxStart(in, t.pos)
             pair == ParsePair(in, l.pos, LaxInteger)
  <2>1. ParseDerLax(in) = IF Ok(t) THEN IF Ok(l) THEN IF Ok(pair)
                          THEN Done(pair.pos, LaxSig(pair.value[1], pair.value[2])) ELSE Fail ELSE Fail ELSE Fail
      BY DEF ParseDerLax, Then, Ok
  <2>2. Ok(l) /\ l.pos = q
      BY <1>6, <1>8, DoneFacts
  <2> HIDE DEF l
  <2>3. Ok(pair) /\ pair.pos = Len(in) + 1 /\ pair.value = << Trimmed(c), Trimmed(d) >>
      BY <1>7, <2>2, DoneFacts
  <2> HIDE DEF pair, t
  <2>4. pair.value[1] = Trimmed(c) /\ pair.value[2] = Trimmed(d)
      BY <2>3
  <2> QED BY <1>8, <2>1, <2>2, <2>3, <2>4
<1> QED BY <1>9, <1>10

LEMMA DerRead ==
    ASSUME NEW in \in Data, Len(in) < Base, ParseDer(in) # Fail
    PROVE  \E c, d : Integers2(c, d) /\ in = DerOfPair(<< c, d >>)
<1> DEFINE t == Tag(in, 1, SeqTag)
           l == ReadLen(in, t.pos)
           sig == ParsePair(in, l.pos, ParseInteger)
<1>1. ParseDer(in) = IF Ok(t) THEN IF Ok(l) THEN IF l.value # Len(in) - l.pos + 1 THEN Fail
                        ELSE IF Ok(sig) THEN IF sig.pos = Len(in) + 1 THEN sig ELSE Fail ELSE Fail ELSE Fail ELSE Fail
    BY DEF ParseDer, Then, Ok
<1>2. Ok(t) /\ Ok(l) /\ l.value = Len(in) - l.pos + 1 /\ Ok(sig) /\ sig.pos = Len(in) + 1
    BY <1>1
<1>3. t # Fail /\ l # Fail /\ sig # Fail
    BY <1>2, DoneFacts
<1>4. Len(in) \in Nat /\ 1 \in 1 .. Len(in) + 1 /\ 1 + 1 = 2
    BY DataTyped
<1>5. t = Done(1 + 1, SeqTag) /\ 1 + 1 \in 1 .. Len(in) + 1 /\ From(in, 1) = << SeqTag >> \o From(in, 1 + 1)
    BY <1>3, <1>4, TagRead, TagsTyped
<1>6. t.pos = 2 /\ 2 \in 1 .. Len(in) + 1 /\ in = << SeqTag >> \o From(in, 2)
    BY <1>4, <1>5, DoneFacts, FromOne
<1> HIDE DEF t
<1>7. ReadLen(in, 2) # Fail
    BY <1>3, <1>6
<1>8. PICK n \in Bytes : /\ ReadLen(in, 2) = Done(2 + Len(LenOf(n)), n)
                         /\ 2 + Len(LenOf(n)) \in 1 .. Len(in) + 1
                         /\ From(in, 2) = LenOf(n) \o From(in, 2 + Len(LenOf(n)))
    BY <1>6, <1>7, LenRead
<1> DEFINE q == 2 + Len(LenOf(n))
<1>9. l.pos = q /\ l.value = n
    BY <1>6, <1>8, DoneFacts
<1>10. q \in 1 .. Len(in) + 1 /\ From(in, 2) = LenOf(n) \o From(in, q)
    BY <1>8
<1> HIDE DEF q, l
<1>11. n = Len(in) - q + 1 /\ ParsePair(in, q, ParseInteger) # Fail /\ ParsePair(in, q, ParseInteger).pos = Len(in) + 1
    BY <1>2, <1>3, <1>9
<1>12. PICK c, d : Integers2(c, d) /\ From(in, q) = Body(c, d)
    BY <1>10, <1>11, PairRead
<1>13. Len(From(in, q)) = n
    BY <1>10, <1>11, FromTyped
<1>14. in = << SeqTag >> \o (LenOf(Len(Body(c, d))) \o Body(c, d))
    BY <1>6, <1>10, <1>12, <1>13
<1> QED BY <1>12, <1>14, DerOfPairTyped

(* The body of an encoding is shorter than the encoding.                   *)
LEMMA BodyShort ==
    ASSUME NEW in \in Data, Len(in) < Base, NEW c, NEW d, Integers2(c, d), in = DerOfPair(<< c, d >>)
    PROVE  Len(Body(c, d)) < Base
<1> DEFINE y == Body(c, d)
           n == Len(y)
<1>1. y \in Data /\ in = << SeqTag >> \o (LenOf(n) \o y)
    BY BodyTyped, DerOfPairTyped
<1>2. n \in Nat
    BY <1>1, DataTyped
<1>3. LenOf(n) \in Seq(Nat) /\ << SeqTag >> \in Seq(Nat) /\ y \in Seq(Nat)
    BY <1>1, <1>2, BaseTyped, TagsTyped DEF LenOf, Data
<1> HIDE DEF n, y
<1>4. LenOf(n) \o y \in Seq(Nat) /\ Len(LenOf(n) \o y) >= Len(y)
    BY <1>3
<1> DEFINE z == LenOf(n) \o y
           o == << SeqTag >>
<1>5. z \in Seq(Nat) /\ o \in Seq(Nat) /\ Len(z) >= Len(y) /\ in = o \o z
    BY <1>1, <1>3, <1>4
<1> HIDE DEF z, o
<1>6. Len(in) >= Len(y)
    BY <1>3, <1>5
<1>7. Len(in) \in Nat /\ Len(y) \in Nat
    BY <1>1, DataTyped
<1> QED BY <1>6, <1>7, BaseTyped DEF y

LEMMA SubTyped ==
    ASSUME NEW in \in Data, NEW i \in Nat \ {0}, NEW j \in 0 .. Len(in), Len(SubSeq(in, i, j)) > 0
    PROVE  SubSeq(in, i, j) \in Data /\ Len(SubSeq(in, i, j)) <= Len(in)
<1>1. Len(in) \in Nat /\ \A k \in 1 .. Len(in) : in[k] \in Bytes
    BY DataTyped
<1>2. i \in Int /\ j \in Int /\ \A k \in i .. j : in[k] \in Bytes
  <2>1. \A k \in i .. j : k \in 1 .. Len(in)
      BY <1>1
  <2> QED BY <1>1, <2>1
<1>3. SubSeq(in, i, j) \in Seq(Bytes) /\ Len(SubSeq(in, i, j)) = IF i <= j THEN j - i + 1 ELSE 0
    BY <1>2, SubSeqProperties
<1> QED BY <1>1, <1>3 DEF Data

InParts(in, cs) == \E i \in 5 .. 7, j \in 1 .. Len(in), gap \in {3, 4} :
                       cs = << SubSeq(in, i, j), SubSeq(in, j + gap, Len(in)) >>

LEMMA PartsAre == \A in, cs : cs \in Parts(in) <=> InParts(in, cs)
<1> SUFFICES ASSUME NEW in, NEW cs PROVE cs \in Parts(in) <=> InParts(in, cs)
    OBVIOUS
<1> DEFINE parts(i, j, gap) == << SubSeq(in, i, j), SubSeq(in, j + gap, Len(in)) >>
           js == 1 .. Len(in)
<1>1. Parts(in) = { parts(i, j, gap) : i \in 5 .. 7, j \in js, gap \in {3, 4} }
    BY DEF Parts
<1> HIDE DEF parts, js
<1>2. cs \in Parts(in) <=> \E i \in 5 .. 7, j \in js, gap \in {3, 4} : cs = parts(i, j, gap)
    BY <1>1
<1> QED BY <1>2 DEF parts, js, InParts

LEMMA PairsTyped ==
    ASSUME NEW in \in Data, Len(in) < Base, NEW cs \in DerPairs(in)
    PROVE  Integers2(cs[1], cs[2]) /\ in = DerOfPair(<< cs[1], cs[2] >>) /\ cs = << cs[1], cs[2] >>
<1>1. cs \in Parts(in) /\ Minimal(cs[1]) /\ Minimal(cs[2]) /\ in = DerOfPair(cs)
    BY DEF DerPairs
<1>2. PICK i \in 5 .. 7, j \in 1 .. Len(in), gap \in {3, 4} : cs = << SubSeq(in, i, j), SubSeq(in, j + gap, Len(in)) >>
  <2>1. InParts(in, cs)
      BY <1>1, PartsAre
  <2> QED BY ONLY <2>1 DEF InParts
<1>3. Len(in) \in Nat
    BY DataTyped
<1> DEFINE c == SubSeq(in, i, j)
           d == SubSeq(in, j + gap, Len(in))
<1>4. cs[1] = c /\ cs[2] = d
    BY <1>2
<1>5. Len(c) > 0 /\ Len(d) > 0
    BY <1>1, <1>4 DEF Minimal
<1>6. i \in Nat \ {0} /\ j \in 0 .. Len(in) /\ j + gap \in Nat \ {0} /\ Len(in) \in 0 .. Len(in)
    BY <1>3
<1>7. c \in Data /\ Len(c) <= Len(in)
    BY <1>5, <1>6, SubTyped
<1>8. d \in Data /\ Len(d) <= Len(in)
    BY <1>5, <1>6, SubTyped
<1>9. cs = << c, d >>
    BY <1>2
<1> HIDE DEF c, d
<1>10. Len(c) < Base /\ Len(d) < Base
    BY <1>3, <1>7, <1>8, DataTyped, BaseTyped
<1> QED BY <1>1, <1>4, <1>7, <1>8, <1>9, <1>10 DEF Integers2

LEMMA PairsHas ==
    ASSUME NEW in \in Data, Len(in) < Base, NEW c, NEW d, Integers2(c, d), in = DerOfPair(<< c, d >>)
    PROVE  << c, d >> \in DerPairs(in)
<1> DEFINE y == Body(c, d)
           n == Len(y)
           x == LenOf(n)
           s == << SeqTag >>
           o == << IntTag >>
           u == LenOf(Len(c))
           v == LenOf(Len(d))
           e == Der(d)
<1>1. y \in Data /\ x \in Data /\ x \o y \in Data /\ Len(x) \in 1 .. 2
    BY BodyShort, BodyTyped, DerOfPairTyped
<1>2. /\ c \in Data /\ d \in Data /\ u \in Data /\ v \in Data /\ o \in Data /\ s \in Data /\ e \in Data
      /\ Len(u) \in 1 .. 2 /\ Len(v) \in 1 .. 2 /\ Len(o) = 1 /\ Len(s) = 1 /\ u \o c \in Data /\ v \o d \in Data
  <2>1. c \in Data /\ Len(c) < Base /\ d \in Data /\ Len(d) < Base
      BY DEF Integers2
  <2>2. o \in Data /\ s \in Data /\ Len(o) = 1 /\ Len(s) = 1
      BY TagsTyped, DataSingle
  <2>3. u \in Data /\ u \o c \in Data /\ Len(u) = IF Len(c) < Top THEN 1 ELSE 2
      BY <2>1, DerTyped
  <2>4. v \in Data /\ v \o d \in Data /\ Len(v) = (IF Len(d) < Top THEN 1 ELSE 2) /\ e \in Data
      BY <2>1, DerTyped
  <2> QED BY <2>1, <2>2, <2>3, <2>4
<1>3. Len(in) \in Nat /\ 1 \in 1 .. Len(in) + 1 /\ Len(c) \in Nat /\ Len(c) > 0 /\ Len(d) > 0 /\ Len(d) \in Nat
    BY <1>2, DataTyped DEF Integers2, Minimal
<1>4. in = s \o (x \o y)
    BY DerOfPairTyped
<1>5. y = (o \o (u \o c)) \o e /\ e = o \o (v \o d)
    BY DEF Body, Der
<1> HIDE DEF y, x, s, o, u, v, e
<1>6. y = o \o (u \o (c \o e))
  <2> DEFINE uc == u \o c
  <2>3. o \in Data /\ uc \in Data /\ e \in Data /\ u \in Data /\ c \in Data
      BY <1>2
  <2> HIDE DEF uc
  <2>4. Again(o, uc, e) /\ Again(u, c, e)
      BY ONLY <2>3, DataAgainHolds
  <2>5. (o \o (u \o c)) \o e = o \o (u \o (c \o e))
      BY <2>4 DEF Again, uc
  <2> QED BY <1>5, <2>5
<1>7. c \o e \in Data
    BY <1>2, DataJoined
<1>8. u \o (c \o e) \in Data
    BY <1>2, <1>7, DataJoined
<1> DEFINE xy == x \o y
           ce == c \o e
           uce == u \o ce
           vd == v \o d
<1>9. xy \in Data /\ ce \in Data /\ uce \in Data /\ vd \in Data /\ in = s \o xy /\ y = o \o uce /\ e = o \o vd
    BY <1>1, <1>2, <1>4, <1>5, <1>6, <1>7, <1>8
<1>10. xy = x \o y /\ uce = u \o ce /\ ce = c \o e /\ vd = v \o d
    OBVIOUS
<1> HIDE DEF xy, ce, uce, vd
<1> DEFINE p1 == 1 + Len(s)
           p2 == p1 + Len(x)
           p3 == p2 + Len(o)
           i == p3 + Len(u)
           k == i + Len(c)
           p4 == k + Len(o)
           p5 == p4 + Len(v)
<1>11. p1 \in 1 .. Len(in) + 1 /\ From(in, p1) = xy
  <2> DEFINE p == 1
  <2>1. p \in 1 .. Len(in) + 1 /\ From(in, p) = s \o xy
      BY <1>3, <1>9, FromOne
  <2> HIDE DEF p
  <2>2. Parted(in, p, s, xy)
      BY <1>2, <1>9, <2>1, Split
  <2> QED BY <2>2 DEF Parted, p
<1> HIDE DEF p1
<1>12. p2 \in 1 .. Len(in) + 1 /\ From(in, p2) = y
  <2>1. Parted(in, p1, x, y)
      BY <1>1, <1>10, <1>11, Split
  <2> QED BY <2>1 DEF Parted
<1> HIDE DEF p2
<1>13. p3 \in 1 .. Len(in) + 1 /\ From(in, p3) = uce
  <2>1. Parted(in, p2, o, uce)
      BY <1>2, <1>9, <1>12, Split
  <2> QED BY <2>1 DEF Parted
<1> HIDE DEF p3
<1>14. i \in 1 .. Len(in) + 1 /\ From(in, i) = ce
  <2>2. u \in Data /\ ce \in Data /\ p3 \in 1 .. Len(in) + 1 /\ From(in, p3) = u \o ce
      BY <1>2, <1>9, <1>10, <1>13
  <2>1. Parted(in, p3, u, ce)
      BY ONLY in \in Data, <2>2, Split
  <2> QED BY <2>1 DEF Parted
<1> HIDE DEF i
<1> HIDE DEF k
<1>15. k \in 1 .. Len(in) + 1 /\ From(in, k) = e /\ SubSeq(in, i, k - 1) = c
  <2>2. c \in Data /\ e \in Data /\ i \in 1 .. Len(in) + 1 /\ From(in, i) = c \o e
      BY <1>2, <1>10, <1>14
  <2>1. Parted(in, i, c, e)
      BY ONLY in \in Data, <2>2, Split
  <2>3. k = i + Len(c)
      BY DEF k
  <2>4. i + (Len(c) - 1) = k - 1
      BY <1>3, <2>2, <2>3
  <2> QED BY <2>1, <2>3, <2>4 DEF Parted
<1>16. p4 \in 1 .. Len(in) + 1 /\ From(in, p4) = vd
  <2>1. Parted(in, k, o, vd)
      BY <1>2, <1>9, <1>15, Split
  <2> QED BY <2>1 DEF Parted
<1> HIDE DEF p4
<1>17. p5 \in 1 .. Len(in) + 1 /\ From(in, p5) = d
  <2>2. v \in Data /\ d \in Data /\ p4 \in 1 .. Len(in) + 1 /\ From(in, p4) = v \o d
      BY <1>2, <1>10, <1>16
  <2>1. Parted(in, p4, v, d)
      BY ONLY in \in Data, <2>2, Split
  <2> QED BY <2>1 DEF Parted
<1> HIDE DEF p5
<1>18. i \in 5 .. 7
  <2>1. p1 = 2
      BY <1>2 DEF p1
  <2>4. (Len(x) = 1 \/ Len(x) = 2) /\ (Len(u) = 1 \/ Len(u) = 2) /\ Len(o) = 1
      BY <1>1, <1>2
  <2>5. p2 = p1 + Len(x) /\ p3 = p2 + Len(o) /\ i = p3 + Len(u)
      BY DEF p2, p3, i
  <2> DEFINE lx == Len(x)
             lo == Len(o)
             lu == Len(u)
  <2>6. lx \in 1 .. 2 /\ lo = 1 /\ lu \in 1 .. 2 /\ p2 = p1 + lx /\ p3 = p2 + lo /\ i = p3 + lu
      BY <1>1, <1>2, <2>5
  <2> HIDE DEF lx, lo, lu, p1, p2, p3, i
  <2>7. p2 \in 3 .. 4
      BY ONLY <2>1, <2>6
  <2>8. p3 \in 4 .. 5
      BY ONLY <2>6, <2>7
  <2> QED BY ONLY <2>6, <2>8
<1> DEFINE j == k - 1
<1>19. j \in 1 .. Len(in) /\ k = j + 1
    BY <1>3, <1>15, <1>18 DEF k
<1>20. p5 - j \in {3, 4} /\ j + (p5 - j) = p5
  <2>1. p4 = j + 2
      BY <1>2, <1>19 DEF p4
  <2>2. p5 = j + 3 \/ p5 = j + 4
    <3>1. (Len(v) = 1 \/ Len(v) = 2) /\ j \in Nat /\ p5 = p4 + Len(v)
        BY <1>2, <1>19 DEF p5
    <3> DEFINE m == Len(v)
    <3>2. m = 1 \/ m = 2
        BY <3>1
    <3>3. p5 = p4 + m
        BY <3>1
    <3> HIDE DEF m, j, p4, p5
    <3>4. p4 = j + 2 /\ j \in Nat
        BY <2>1, <3>1
    <3> QED BY ONLY <3>2, <3>3, <3>4
  <2> HIDE DEF j
  <2> QED BY <1>19, <2>2
<1>21. c = SubSeq(in, i, j) /\ d = SubSeq(in, j + (p5 - j), Len(in))
    BY <1>15, <1>17, <1>20 DEF From
<1> HIDE DEF j
<1>22. << c, d >> \in Parts(in)
  <2> DEFINE gap == p5 - j
  <2>1. i \in 5 .. 7 /\ j \in 1 .. Len(in) /\ gap \in {3, 4}
        /\ << c, d >> = << SubSeq(in, i, j), SubSeq(in, j + gap, Len(in)) >>
      BY <1>18, <1>19, <1>20, <1>21
  <2> HIDE DEF gap
  <2>2. InParts(in, << c, d >>)
      BY ONLY <2>1 DEF InParts
  <2> QED BY ONLY <2>2, PartsAre
<1>23. << c, d >>[1] = c /\ << c, d >>[2] = d
    OBVIOUS
<1> QED BY <1>22, <1>23 DEF DerPairs, Integers2

LEMMA DataTwo == ASSUME NEW b \in Bytes, NEW c \in Bytes PROVE << b >> \o << c >> = << b, c >>
<1> DEFINE x == << b >>
           y == << c >>
           z == << b, c >>
<1>1. x \in Data /\ Len(x) = 1 /\ x[1] = b /\ y \in Data /\ Len(y) = 1 /\ y[1] = c
    BY DataSingle
<1>2. z \in Data /\ Len(z) = 2 /\ z[1] = b /\ z[2] = c
    BY DataDouble
<1> HIDE DEF x, y, z
<1>3. /\ x \o y \in Data /\ Len(x \o y) = Len(x) + Len(y)
      /\ \A i \in 1 .. Len(x) : (x \o y)[i] = x[i]
      /\ \A i \in 1 .. Len(y) : (x \o y)[Len(x) + i] = y[i]
    BY ONLY <1>1, DataJoined
<1>4. Len(x \o y) = 2 /\ (x \o y)[1] = b /\ (x \o y)[2] = c
  <2>1. 1 \in 1 .. Len(x) /\ 1 \in 1 .. Len(y) /\ Len(x) + 1 = 2
      BY <1>1
  <2> QED BY <1>1, <1>3, <2>1
<1>5. \A i \in 1 .. Len(x \o y) : (x \o y)[i] = z[i]
  <2>1. \A i \in 1 .. 2 : i = 1 \/ i = 2
      OBVIOUS
  <2> QED BY <1>2, <1>4, <2>1
<1>6. x \o y = z
    BY <1>2, <1>3, <1>4, <1>5, DataSame, ZenonT(40)
<1> QED BY <1>6 DEF x, y, z

(* A signature is serialized as the encoding of its numbers.               *)
Signatures == (0 .. Order - 1) \X (0 .. Order - 1)

LEMMA OrderTyped == Order \in Nat \ {0} /\ \A v \in 0 .. Order - 1 : v \in Nat /\ v < Beyond(Width)
<1>1. Order \in 1 .. Beyond(Width) /\ Beyond(Width) \in Nat
    BY WidthTyped, BeyondFacts
<1> QED BY <1>1

LEMMA SerializeIs ==
    ASSUME NEW r \in 0 .. Order - 1, NEW s \in 0 .. Order - 1
    PROVE  /\ Integers2(Digits(r), Digits(s)) /\ Len(Body(Digits(r), Digits(s))) < Base
           /\ SerializeDer(<< r, s >>) = DerOfPair(<< Digits(r), Digits(s) >>)
           /\ SerializeDer(<< r, s >>) \in Data /\ Len(SerializeDer(<< r, s >>)) <= MaxLen
           /\ Len(SerializeDer(<< r, s >>)) < Base /\ Len(SerializeDer(<< r, s >>)) > 0
<1> DEFINE c == Digits(r)
           d == Digits(s)
           o == << IntTag >>
           y == Body(c, d)
<1>1. c \in Data /\ Len(c) \in 1 .. Width + 1 /\ Minimal(c)
    BY OrderTyped, DigitsFacts
<1>2. d \in Data /\ Len(d) \in 1 .. Width + 1 /\ Minimal(d)
    BY OrderTyped, DigitsFacts
<1>3. Width \in Nat /\ 2 * Width + 6 < Top /\ Top \in Nat /\ 2 * Top = Base /\ MaxLen \in Nat /\ 2 * Width + 8 <= MaxLen
    BY WidthTyped, BaseTyped, SizesAssumption
<1>4. << r, s >>[1] = r /\ << r, s >>[2] = s
    OBVIOUS
<1> DEFINE integer(k) == << IntTag, Len(Digits(k)) >> \o Digits(k)
<1>5. SerializeDer(<< r, s >>) = << SeqTag, Len(integer(r) \o integer(s)) >> \o (integer(r) \o integer(s))
    BY <1>4 DEF SerializeDer
<1>6. integer(r) = << IntTag, Len(c) >> \o c /\ integer(s) = << IntTag, Len(d) >> \o d
    OBVIOUS
<1> HIDE DEF integer, c, d
<1>7. Len(c) < Base /\ Len(d) < Base /\ Len(c) < Top /\ Len(d) < Top /\ Integers2(c, d)
    BY <1>1, <1>2, <1>3 DEF Integers2
<1>8. ASSUME NEW t \in Bytes, NEW z \in Data, Len(z) < Top
      PROVE  << t, Len(z) >> \o z = << t >> \o (LenOf(Len(z)) \o z)
  <2> DEFINE n == Len(z)
             a == << t >>
             b == << n >>
  <2>1. n \in Bytes /\ LenOf(n) = b
      BY <1>8, DataTyped, BaseTyped DEF LenOf
  <2>2. a \in Data /\ b \in Data /\ a \o b = << t, n >>
    <3>1. t \in Bytes
        OBVIOUS
    <3> HIDE DEF n
    <3>2. a \in Data
        BY ONLY <3>1, DataSingle DEF a
    <3>3. b \in Data
        BY ONLY <2>1, DataSingle DEF b
    <3>4. << t >> \o << n >> = << t, n >>
        BY <2>1, <3>1, DataTwo
    <3> QED BY <3>2, <3>3, <3>4 DEF a, b
  <2> HIDE DEF a, b, n
  <2>3. (a \o b) \o z = a \o (b \o z)
    <3>1. Again(a, b, z)
        BY ONLY <2>2, DataAgainHolds
    <3> QED BY <3>1 DEF Again
  <2> QED BY <2>1, <2>2, <2>3 DEF a, n
<1>9. integer(r) = Der(c) /\ integer(s) = Der(d)
  <2>1. << IntTag, Len(c) >> \o c = << IntTag >> \o (LenOf(Len(c)) \o c)
      BY <1>1, <1>7, <1>8, TagsTyped
  <2>2. << IntTag, Len(d) >> \o d = << IntTag >> \o (LenOf(Len(d)) \o d)
      BY <1>2, <1>7, <1>8, TagsTyped
  <2> QED BY <1>6, <2>1, <2>2 DEF Der
<1>10. y \in Data /\ Len(y) <= 2 * Width + 6 /\ Len(y) \in Nat
  <2>1. Len(Der(c)) = 2 + Len(c) /\ Len(Der(d)) = 2 + Len(d)
    <3>1. Len(Der(c)) = 1 + (Len(LenOf(Len(c))) + Len(c)) /\ Len(LenOf(Len(c))) = 1
        BY <1>1, <1>7, DerTyped
    <3>2. Len(Der(d)) = 1 + (Len(LenOf(Len(d))) + Len(d)) /\ Len(LenOf(Len(d))) = 1
        BY <1>2, <1>7, DerTyped
    <3> QED BY <1>1, <1>2, <1>3, <3>1, <3>2
  <2>2. y \in Data /\ Len(y) = Len(Der(c)) + Len(Der(d))
      BY <1>7, BodyTyped
  <2> HIDE DEF y
  <2> QED BY <1>1, <1>2, <1>3, <2>1, <2>2
<1>11. SerializeDer(<< r, s >>) = << SeqTag, Len(y) >> \o y
    BY <1>5, <1>9 DEF Body
<1> HIDE DEF y
<1>12. Len(y) < Top /\ Len(y) < Base
    BY <1>3, <1>10
<1>13. << SeqTag, Len(y) >> \o y = << SeqTag >> \o (LenOf(Len(y)) \o y)
    BY <1>8, <1>10, <1>12, TagsTyped
<1>14. DerOfPair(<< c, d >>) = << SeqTag >> \o (LenOf(Len(y)) \o y)
    BY DEF DerOfPair, Body, y
<1>15. SerializeDer(<< r, s >>) \in Data /\ Len(SerializeDer(<< r, s >>)) = 2 + Len(y)
  <2> DEFINE h == << SeqTag, Len(y) >>
  <2>1. Len(y) \in Bytes
      BY <1>10, <1>12, BaseTyped
  <2>2. h \in Data /\ Len(h) = 2
      BY <2>1, TagsTyped, DataDouble
  <2> HIDE DEF h
  <2>3. h \o y \in Data /\ Len(h \o y) = 2 + Len(y)
    <3>1. h \in Data /\ y \in Data
        BY <1>10, <2>2
    <3>2. h \o y \in Data /\ Len(h \o y) = Len(h) + Len(y)
        BY ONLY <3>1, DataJoined
    <3> QED BY <2>2, <3>2
  <2> QED BY <1>11, <2>3 DEF h
<1>16. 2 + Len(y) <= MaxLen /\ 2 + Len(y) < Base /\ 2 + Len(y) > 0
    BY <1>3, <1>10
<1> QED BY <1>7, <1>11, <1>12, <1>13, <1>14, <1>15, <1>16 DEF c, d, y

----------------------------------------------------------------------------
(* Compact signatures, and those of the lax parser.                        *)
LEMMA CompactJoined ==
    ASSUME NEW x \in Data, NEW y \in Data, Len(x) = Width, Len(y) = Width
    PROVE  ParseCompact(x \o y) = IF ValueOf(x) < Order /\ ValueOf(y) < Order
                                  THEN Done(1 + 2 * Width, << ValueOf(x), ValueOf(y) >>) ELSE Fail
<1> DEFINE z == x \o y
           p == 1
<1>1. z \in Data /\ Len(z) = Len(x) + Len(y)
    BY DataJoined
<1>2. Width \in Nat \ {0}
    BY WidthTyped
<1>3. z = x \o y
    OBVIOUS
<1> HIDE DEF z
<1>4. p \in 1 .. Len(z) + 1 /\ From(z, p) = x \o y
  <2>1. From(z, 1) = z
      BY <1>1, FromOne
  <2>2. 1 \in 1 .. Len(z) + 1
      BY <1>1, <1>2
  <2> QED BY <1>3, <2>1, <2>2
<1> HIDE DEF p
<1>5. Parted(z, p, x, y)
    BY <1>1, <1>4, Split
<1>6. SubSeq(z, p, p + Len(x) - 1) = x /\ From(z, p + Len(x)) = y
    BY <1>5 DEF Parted
<1>7. SubSeq(z, 1, 1 + Width - 1) = x
    BY <1>6 DEF p
<1>8. SubSeq(z, 1 + Width, Len(z)) = y
    BY <1>6 DEF p, From
<1>9. Len(z) = 2 * Width /\ 1 + Width + (Width - 1) = Len(z)
    BY <1>1, <1>2
<1>10. SubSeq(z, 1 + Width, 1 + Width + Width - 1) = y
  <2>1. 1 + Width + Width - 1 = Len(z)
      BY <1>9
  <2> QED BY <1>8, <2>1
<1> DEFINE v(i) == ValueOf(SubSeq(z, i, i + Width - 1))
<1>11. v(1) = ValueOf(x) /\ v(1 + Width) = ValueOf(y)
    BY <1>7, <1>10
<1>12. ParseCompact(z) = IF Len(z) = 2 * Width /\ v(1) < Order /\ v(1 + Width) < Order
                         THEN Done(1 + 2 * Width, << v(1), v(1 + Width) >>) ELSE Fail
    BY DEF ParseCompact
<1> HIDE DEF v
<1>13. ParseCompact(z) = IF ValueOf(x) < Order /\ ValueOf(y) < Order
                         THEN Done(1 + 2 * Width, << ValueOf(x), ValueOf(y) >>) ELSE Fail
    BY <1>9, <1>11, <1>12
<1> QED BY <1>3, <1>13

ZeroFilled(bytes) == [i \in 1 .. Width - Len(bytes) |-> 0] \o bytes

LEMMA ZeroFilledFacts ==
    ASSUME NEW x \in Data, Len(x) <= Width
    PROVE  ZeroFilled(x) \in Data /\ Len(ZeroFilled(x)) = Width /\ ValueOf(ZeroFilled(x)) = ValueOf(x)
<1> DEFINE n == Width - Len(x)
           z == [i \in 1 .. n |-> 0]
<1>1. n \in Nat /\ Len(x) \in Nat /\ Width \in Nat
    BY WidthTyped, DataTyped
<1> HIDE DEF n
<1>2. z \in Data /\ Len(z) = n /\ \A i \in 1 .. n : z[i] = 0
    BY <1>1, DataZeros
<1> HIDE DEF z
<1>3. z \o x \in Data /\ Len(z \o x) = Len(z) + Len(x)
    BY <1>2, DataJoined
<1>4. ValueOf(z \o x) = ValueOf(x)
    BY <1>1, <1>2, ZerosBefore
<1>5. Len(z) + Len(x) = Width
    BY <1>1, <1>2 DEF n
<1> QED BY <1>3, <1>4, <1>5 DEF ZeroFilled, z, n

LEMMA LaxSigFacts ==
    ASSUME NEW r \in Data, NEW s \in Data
    PROVE  /\ \E a, b \in 0 .. Order - 1 : LaxSig(r, s) = << a, b >>
           /\ Len(r) <= Width /\ Len(s) <= Width /\ ValueOf(r) < Order /\ ValueOf(s) < Order =>
                  LaxSig(r, s) = << ValueOf(r), ValueOf(s) >>
<1> DEFINE compact == ParseCompact(ZeroFilled(r) \o ZeroFilled(s))
           inside == Len(r) <= Width /\ Len(s) <= Width
           small == ValueOf(r) < Order /\ ValueOf(s) < Order
           done == Done(1 + 2 * Width, << ValueOf(r), ValueOf(s) >>)
<1>1. LaxSig(r, s) = IF Len(r) <= Width /\ Len(s) <= Width /\ compact.ok THEN compact.value ELSE << 0, 0 >>
    BY DEF LaxSig, ZeroFilled
<1>2. LaxSig(r, s) = IF inside /\ Ok(compact) THEN compact.value ELSE << 0, 0 >>
    BY <1>1 DEF Ok
<1>3. ASSUME inside PROVE compact = IF small THEN done ELSE Fail
  <2> DEFINE x == ZeroFilled(r)
             y == ZeroFilled(s)
  <2>1. x \in Data /\ Len(x) = Width /\ ValueOf(x) = ValueOf(r)
      BY <1>3, ZeroFilledFacts
  <2>2. y \in Data /\ Len(y) = Width /\ ValueOf(y) = ValueOf(s)
      BY <1>3, ZeroFilledFacts
  <2>3. compact = ParseCompact(x \o y)
      OBVIOUS
  <2> HIDE DEF x, y, compact
  <2>4. ParseCompact(x \o y) = IF ValueOf(x) < Order /\ ValueOf(y) < Order
                               THEN Done(1 + 2 * Width, << ValueOf(x), ValueOf(y) >>) ELSE Fail
      BY ONLY <2>1, <2>2, CompactJoined
  <2> QED BY <2>1, <2>2, <2>3, <2>4
<1>4. Ok(done) /\ done.value = << ValueOf(r), ValueOf(s) >> /\ ~ Ok(Fail)
    BY DoneFacts
<1>5. ValueOf(r) \in Nat /\ ValueOf(s) \in Nat /\ Order \in Nat \ {0}
    BY ValueBounds, OrderTyped
<1> HIDE DEF compact, done
<1>6. LaxSig(r, s) = IF inside /\ small THEN << ValueOf(r), ValueOf(s) >> ELSE << 0, 0 >>
    BY <1>2, <1>3, <1>4
<1> DEFINE a == ValueOf(r)
           b == ValueOf(s)
<1>7. \E u, v \in 0 .. Order - 1 : LaxSig(r, s) = << u, v >>
  <2>1. CASE inside /\ small
    <3>1. a \in 0 .. Order - 1 /\ b \in 0 .. Order - 1 /\ LaxSig(r, s) = << a, b >>
        BY <1>5, <1>6, <2>1
    <3> QED BY <3>1
  <2>2. CASE ~ (inside /\ small)
    <3>1. 0 \in 0 .. Order - 1 /\ LaxSig(r, s) = << 0, 0 >>
        BY <1>5, <1>6, <2>2
    <3> QED BY <3>1
  <2> QED BY <2>1, <2>2
<1> QED BY <1>6, <1>7

(* Where the lax parser goes on, and the bytes it reads.                   *)
LEMMA LaxLenTyped ==
    ASSUME NEW in \in Data, NEW p \in 1 .. Len(in) + 1, Ok(LaxLen(in, p))
    PROVE  LaxLen(in, p).pos \in 1 .. Len(in) + 1 /\ LaxLen(in, p).value \in Nat
<1> DEFINE left == in[p] - Top
           part == SubSeq(in, p + 1, p + left)
           bytes == Trimmed(part)
<1>1. Len(in) \in Nat /\ p \in Nat \ {0}
    BY DataTyped
<1>2. p <= Len(in)
  <2>1. CASE p > Len(in)
    <3>1. LaxLen(in, p) = Fail
        BY <2>1 DEF LaxLen
    <3> QED BY <3>1, DoneFacts
  <2> QED BY <1>1, <2>1
<1>3. in[p] \in Nat /\ Top \in Nat
    BY <1>1, <1>2, DataTyped, BaseTyped
<1>4. LaxLen(in, p) = IF in[p] < Top THEN Done(p + 1, in[p])
                      ELSE IF left > Len(in) - p \/ Len(bytes) >= SizeOfSize THEN Fail
                      ELSE Done(p + 1 + left, ValueOf(bytes))
  <2>1. ~ (p > Len(in))
      BY <1>1, <1>2
  <2> QED BY <2>1 DEF LaxLen
<1>5. CASE in[p] < Top
  <2>1. LaxLen(in, p) = Done(p + 1, in[p])
      BY <1>4, <1>5
  <2> QED BY <1>1, <1>2, <1>3, <2>1, DoneFacts
<1>6. CASE ~ (in[p] < Top)
  <2>1. left \in Nat
      BY <1>3, <1>6
  <2> HIDE DEF bytes
  <2>2. ~ (left > Len(in) - p) /\ LaxLen(in, p) = Done(p + 1 + left, ValueOf(bytes))
      BY <1>4, <1>6, DoneFacts
  <2> HIDE DEF left
  <2>3. p + left <= Len(in) /\ p <= p + left /\ p + left \in Nat
      BY <1>1, <2>1, <2>2
  <2>4. part \in Data
      BY <1>1, <2>3, DataPart
  <2> HIDE DEF part
  <2>5. bytes \in Data
      BY <2>4, TrimmedFacts DEF bytes
  <2>6. ValueOf(bytes) \in Nat
      BY <2>5, ValueBounds
  <2>7. p + 1 + left \in 1 .. Len(in) + 1
      BY <1>1, <2>1, <2>3
  <2> QED BY <2>2, <2>6, <2>7, DoneFacts
<1> QED BY <1>5, <1>6

LEMMA TagTyped ==
    ASSUME NEW in \in Data, NEW p \in 1 .. Len(in) + 1, NEW tag, Ok(Tag(in, p, tag))
    PROVE  Tag(in, p, tag).pos \in 1 .. Len(in) + 1
<1>1. Len(in) \in Nat
    BY DataTyped
<1>2. p <= Len(in) /\ Tag(in, p, tag) = Done(p + 1, tag)
    BY DoneFacts DEF Tag
<1> QED BY <1>1, <1>2, DoneFacts

LEMMA LaxIntegerTyped ==
    ASSUME NEW in \in Data, NEW p \in 1 .. Len(in) + 1, Ok(LaxInteger(in, p))
    PROVE  LaxInteger(in, p).pos \in 1 .. Len(in) + 1 /\ LaxInteger(in, p).value \in Data
<1> DEFINE t == Tag(in, p, IntTag)
           l == LaxLen(in, t.pos)
           part == SubSeq(in, l.pos, l.pos + l.value - 1)
<1>1. LaxInteger(in, p) = IF Ok(t) THEN IF Ok(l) THEN IF l.value > Len(in) - l.pos + 1 THEN Fail
                                                       ELSE Done(l.pos + l.value, Trimmed(part))
                                         ELSE Fail
                          ELSE Fail
    BY DEF LaxInteger, Then, Ok
<1> HIDE DEF part
<1>2. Ok(t) /\ Ok(l) /\ ~ (l.value > Len(in) - l.pos + 1) /\ LaxInteger(in, p) = Done(l.pos + l.value, Trimmed(part))
  <2> HIDE DEF t, l
  <2> QED BY <1>1, DoneFacts
<1>3. t.pos \in 1 .. Len(in) + 1
    BY <1>2, TagTyped
<1>4. l.pos \in 1 .. Len(in) + 1 /\ l.value \in Nat /\ Len(in) \in Nat
    BY <1>2, <1>3, LaxLenTyped, DataTyped
<1> HIDE DEF t, l
<1>5. l.pos + l.value \in 1 .. Len(in) + 1 /\ l.pos + l.value <= Len(in) + 1
    BY <1>2, <1>4
<1> DEFINE q == l.pos
           k == l.value
<1>6. q \in 1 .. Len(in) + 1 /\ k \in Nat /\ q + k <= Len(in) + 1 /\ part = SubSeq(in, q, q + k - 1)
    BY <1>4, <1>5 DEF part
<1> HIDE DEF q, k
<1>7. part \in Data
    BY <1>6, Unsplit
<1>8. Trimmed(part) \in Data
    BY <1>7, TrimmedFacts
<1> QED BY <1>2, <1>5, <1>8, DoneFacts

LEMMA LaxStartTyped ==
    ASSUME NEW in \in Data, NEW p \in 1 .. Len(in) + 1, Ok(LaxStart(in, p))
    PROVE  LaxStart(in, p).pos \in 1 .. Len(in) + 1
<1>1. Len(in) \in Nat /\ Top \in Nat
    BY DataTyped, BaseTyped
<1>2. p <= Len(in) /\ in[p] \in Nat
  <2>1. ~ (p > Len(in))
      BY DoneFacts DEF LaxStart
  <2>2. p \in 1 .. Len(in)
      BY <1>1, <2>1
  <2> QED BY <2>2, DataTyped, BaseTyped
<1>3. CASE in[p] < Top
  <2>1. LaxStart(in, p) = Done(p + 1, 0)
      BY <1>1, <1>2, <1>3 DEF LaxStart
  <2> QED BY <1>1, <1>2, <2>1, DoneFacts
<1>4. CASE ~ (in[p] < Top)
  <2>1. ~ (in[p] - Top > Len(in) - p) /\ LaxStart(in, p) = Done(p + 1 + in[p] - Top, 0)
      BY <1>1, <1>2, <1>4, DoneFacts DEF LaxStart
  <2>2. p + 1 + in[p] - Top \in 1 .. Len(in) + 1
      BY <1>1, <1>2, <1>4, <2>1
  <2> QED BY <2>1, <2>2, DoneFacts
<1> QED BY <1>3, <1>4

LEMMA LaxRead ==
    ASSUME NEW in \in Data, Ok(ParseDerLax(in))
    PROVE  \E r, s \in Data : ParseDerLax(in).value = LaxSig(r, s)
<1> DEFINE t == Tag(in, 1, SeqTag)
           start == LaxStart(in, t.pos)
           r == LaxInteger(in, start.pos)
           s == LaxInteger(in, r.pos)
           v == << r.value, s.value >>
           pair == ParsePair(in, start.pos, LaxInteger)
<1>1. ParseDerLax(in) = IF Ok(t) THEN IF Ok(start) THEN IF Ok(pair) THEN Done(pair.pos, LaxSig(pair.value[1], pair.value[2]))
                                                        ELSE Fail ELSE Fail ELSE Fail
    BY DEF ParseDerLax, Then, Ok
<1>2. pair = IF Ok(r) THEN IF Ok(s) THEN Done(s.pos, v) ELSE Fail ELSE Fail
    BY DEF ParsePair, Then, Ok
<1> HIDE DEF pair
<1>3. Ok(t) /\ Ok(start) /\ Ok(pair) /\ ParseDerLax(in) = Done(pair.pos, LaxSig(pair.value[1], pair.value[2]))
  <2> HIDE DEF t, start
  <2> QED BY <1>1, DoneFacts
<1>4. Ok(r) /\ Ok(s) /\ pair = Done(s.pos, v)
  <2> HIDE DEF r, s, v
  <2> QED BY <1>2, <1>3, DoneFacts
<1>5. t.pos \in 1 .. Len(in) + 1
  <2> DEFINE p == 1
  <2>1. p \in 1 .. Len(in) + 1 /\ Ok(Tag(in, p, SeqTag)) /\ t = Tag(in, p, SeqTag)
      BY <1>3, DataTyped
  <2> HIDE DEF p, t
  <2> QED BY <2>1, TagTyped
<1> HIDE DEF t
<1>6. start.pos \in 1 .. Len(in) + 1
    BY <1>3, <1>5, LaxStartTyped
<1> HIDE DEF start
<1>7. r.pos \in 1 .. Len(in) + 1 /\ r.value \in Data
    BY <1>4, <1>6, LaxIntegerTyped
<1> HIDE DEF r
<1>8. s.value \in Data
    BY <1>4, <1>7, LaxIntegerTyped
<1> HIDE DEF s
<1>9. pair.value = v /\ v[1] = r.value /\ v[2] = s.value
  <2>1. v[1] = r.value /\ v[2] = s.value
      OBVIOUS
  <2> HIDE DEF v
  <2> QED BY <1>4, <2>1, DoneFacts
<1>10. ParseDerLax(in).value = LaxSig(pair.value[1], pair.value[2])
    BY <1>3, DoneFacts
<1>11. ParseDerLax(in).value = LaxSig(r.value, s.value)
    BY <1>9, <1>10
<1> QED BY <1>7, <1>8, <1>11

----------------------------------------------------------------------------
(* Hexadecimal strings.                                                    *)
Halves == 0 .. 15
Octets == 0 .. 255
HexStates(target) == [ok : BOOLEAN, b : Octets, idx : Nat, out : [1 .. target -> Octets]]

LEMMA NibbleTyped == ASSUME NEW c \in Nat PROVE Nibble(c) \in Halves \/ Nibble(c) = -1
  BY DEF Nibble, Halves

LEMMA DigitNibble == ASSUME NEW n \in Halves PROVE HexDigit(n) \in Nat /\ Nibble(HexDigit(n)) = n
  BY DEF Nibble, HexDigit, Halves

LEMMA NibbleDigit ==
    ASSUME NEW c \in Nat, Nibble(c) >= 0
    PROVE  HexDigit(Nibble(c)) = IF c \in 65 .. 70 THEN c + 32 ELSE c
  BY DEF Nibble, HexDigit

LEMMA EvenOdd ==
    ASSUME NEW i \in Nat
    PROVE  /\ (2 * i) \div 2 = i /\ (2 * i) % 2 = 0 /\ (2 * i + 1) \div 2 = i /\ (2 * i + 1) % 2 = 1
<1>1. (2 * i) \div 2 = i /\ (2 * i) % 2 = 0
    OBVIOUS
<1>2. (2 * i + 1) \div 2 = i /\ (2 * i + 1) % 2 = 1
    OBVIOUS
<1> QED BY <1>1, <1>2

(* A byte from its halves.                                                 *)
LEMMA HalvesOf ==
    ASSUME NEW b \in Octets
    PROVE  /\ b \div 16 \in Halves /\ b % 16 \in Halves /\ 16 * (b \div 16) + (b % 16) = b
<1> DEFINE q == b \div 16
           r == b % 16
           w == 16
<1>1. b \in Nat /\ b <= 255 /\ w \in Nat \ {0}
    BY DEF Octets
<1>2. b \div w \in Nat /\ b % w \in 0 .. w - 1 /\ b = (b \div w) * w + (b % w)
  <2> HIDE DEF w
  <2> QED BY <1>1, Divided
<1>3. q \in Nat /\ r \in 0 .. 15 /\ b = q * 16 + r
    BY <1>2
<1> HIDE DEF q, r
<1>4. q <= 15 /\ 16 * q + r = b
    BY <1>1, <1>3
<1>5. q \in Halves /\ r \in Halves /\ 16 * q + r = b
    BY <1>3, <1>4 DEF Halves
<1> QED BY <1>5 DEF q, r

LEMMA OctetOf ==
    ASSUME NEW h \in Halves, NEW l \in Halves
    PROVE  /\ 16 * h + l \in Octets /\ (16 * h + l) % 256 = 16 * h + l
           /\ (16 * h + l) \div 16 = h /\ (16 * h + l) % 16 = l
           /\ (16 * 0 + l) % 256 = l
  BY DEF Halves, Octets

LEMMA HexStartFacts ==
    ASSUME NEW target \in Nat
    PROVE  HexStart(target) \in HexStates(target) /\ Ok(HexStart(target)) /\ HexStart(target).b = 0 /\ HexStart(target).idx = 0
<1> DEFINE o == [i \in 1 .. target |-> 0]
<1>1. o \in [1 .. target -> Octets] /\ HexStart(target) = [ok |-> TRUE, b |-> 0, idx |-> 0, out |-> o] /\ 0 \in Octets
    BY DEF HexStart, Octets
<1> HIDE DEF o
<1> QED BY <1>1 DEF Ok, HexStates

LEMMA HexStepFacts ==
    ASSUME NEW target \in Nat, NEW st \in HexStates(target), NEW c \in Nat
    PROVE  /\ HexStep(st, c) \in HexStates(target)
           /\ Ok(HexStep(st, c)) <=> Ok(st) /\ Nibble(c) # -1
           /\ Ok(HexStep(st, c)) =>
                 LET b == (16 * st.b + Nibble(c)) % 256
                 IN  /\ HexStep(st, c).idx = st.idx + 1
                     /\ st.idx % 2 = 1 => /\ HexStep(st, c).b = 0
                                          /\ HexStep(st, c).out = [st.out EXCEPT ![(st.idx \div 2) + 1] = b]
                     /\ st.idx % 2 # 1 => HexStep(st, c).b = b /\ HexStep(st, c).out = st.out
<1> DEFINE b == (16 * st.b + Nibble(c)) % 256
           place == (st.idx \div 2) + 1
           failed == [st EXCEPT !.ok = FALSE]
           odd == [st EXCEPT !.out[place] = b, !.b = 0, !.idx = @ + 1]
           even == [st EXCEPT !.b = b, !.idx = @ + 1]
           out == [st.out EXCEPT ![place] = b]
<1>1. st.b \in Octets /\ st.idx \in Nat /\ st.out \in [1 .. target -> Octets]
    BY DEF HexStates
<1>2. Nibble(c) # -1 => b \in Octets
  <2>1. ASSUME Nibble(c) # -1 PROVE b \in Octets
    <3>1. Nibble(c) \in Halves
        BY <2>1, NibbleTyped
    <3>2. 16 * st.b + Nibble(c) \in Nat
      <4>1. \A u \in Octets, v \in Halves : 16 * u + v \in Nat
          BY DEF Octets, Halves
      <4> QED BY <1>1, <3>1, <4>1
    <3> DEFINE m == 16 * st.b + Nibble(c)
    <3> HIDE DEF m
    <3>3. m \in Nat => m % 256 \in 0 .. 255
        OBVIOUS
    <3> QED BY <3>2, <3>3 DEF Octets, m
  <2> QED BY <2>1
<1>3. HexStep(st, c) = IF ~ Ok(st) \/ Nibble(c) = -1 THEN failed ELSE IF st.idx % 2 = 1 THEN odd ELSE even
    BY DEF HexStep, Ok
<1> HIDE DEF b, place
<1>4. failed \in HexStates(target) /\ ~ Ok(failed)
    BY DEF HexStates, Ok
<1>5. ASSUME Ok(st), b \in Octets
      PROVE  odd \in HexStates(target) /\ Ok(odd) /\ odd.b = 0 /\ odd.idx = st.idx + 1 /\ odd.out = out
  <2>1. out \in [1 .. target -> Octets]
      BY <1>1, <1>5
  <2>2. odd = [st EXCEPT !.out = out, !.b = 0, !.idx = st.idx + 1]
      BY DEF HexStates
  <2> HIDE DEF out, odd
  <2>3. odd = [ok |-> st.ok, b |-> 0, idx |-> st.idx + 1, out |-> out]
      BY <2>2 DEF HexStates
  <2>4. st.ok \in BOOLEAN /\ st.ok /\ 0 \in Octets /\ st.idx + 1 \in Nat
      BY <1>1, <1>5 DEF HexStates, Ok, Octets
  <2> QED BY <2>1, <2>3, <2>4 DEF HexStates, Ok
<1>6. ASSUME Ok(st), b \in Octets
      PROVE  even \in HexStates(target) /\ Ok(even) /\ even.b = b /\ even.idx = st.idx + 1 /\ even.out = st.out
  <2>2. even = [st EXCEPT !.b = b, !.idx = st.idx + 1]
      BY DEF HexStates
  <2> HIDE DEF even
  <2>1. even = [ok |-> st.ok, b |-> b, idx |-> st.idx + 1, out |-> st.out]
      BY <2>2 DEF HexStates
  <2>4. st.ok \in BOOLEAN /\ st.ok /\ st.idx + 1 \in Nat
      BY <1>1, <1>6 DEF HexStates, Ok
  <2> QED BY <1>1, <1>6, <2>1, <2>4 DEF HexStates, Ok
<1> HIDE DEF failed, odd, even, out
<1>7. /\ HexStep(st, c) \in HexStates(target)
      /\ Ok(HexStep(st, c)) <=> Ok(st) /\ Nibble(c) # -1
    BY <1>2, <1>3, <1>4, <1>5, <1>6
<1>8. ASSUME Ok(HexStep(st, c))
      PROVE  /\ HexStep(st, c).idx = st.idx + 1
             /\ st.idx % 2 = 1 => HexStep(st, c).b = 0 /\ HexStep(st, c).out = out
             /\ st.idx % 2 # 1 => HexStep(st, c).b = b /\ HexStep(st, c).out = st.out
    BY <1>2, <1>3, <1>4, <1>5, <1>6, <1>8
<1> QED BY <1>7, <1>8 DEF b, place, out

(* The states of the loop.                                                 *)
HexRun(f, hex, target) == f[0] = HexStart(target) /\ \A i \in 1 .. Len(hex) : f[i] = HexStep(f[i - 1], hex[i])

LEMMA FromHexIs ==
    ASSUME NEW hex \in Seq(Nat), NEW target \in Nat
    PROVE  \E f \in [0 .. Len(hex) -> HexStates(target)] :
              /\ HexRun(f, hex, target)
              /\ FromHex(hex, target) = IF Len(hex) % 2 = 1 \/ Len(hex) > 2 * target THEN << -1 >>
                                        ELSE IF Ok(f[Len(hex)]) THEN SubSeq(f[Len(hex)].out, 1, f[Len(hex)].idx \div 2)
                                        ELSE << -1 >>
<1> DEFINE n == Len(hex)
           D == HexStates(target)
           d == HexStart(target)
           g == [p \in (1 .. n) \X D |-> HexStep(p[2], hex[p[1]])]
<1>1. n \in Nat /\ \A i \in 1 .. n : hex[i] \in Nat
    BY Elements
<1> HIDE DEF n
<1>2. \A i \in 1 .. n, st \in D : HexStep(st, hex[i]) \in D
    BY <1>1, HexStepFacts
<1>3. d \in D
    BY HexStartFacts
<1> HIDE DEF D, d
<1>4. g \in [(1 .. n) \X D -> D]
    BY <1>2
<1>5. \A i \in 1 .. n, st \in D : g[<< i, st >>] = HexStep(st, hex[i])
    OBVIOUS
<1> HIDE DEF g
<1>6. PICK h \in [0 .. n -> D] : Iterates(h, d, g, n)
    BY <1>1, <1>3, <1>4, IteratesExist
<1> DEFINE Steps(f) == f = [k \in 0 .. n |-> IF k = 0 THEN d ELSE HexStep(f[k - 1], hex[k])]
           after == CHOOSE f : Steps(f)
<1>7. ASSUME NEW i \in 0 .. n PROVE h[i] = IF i = 0 THEN d ELSE HexStep(h[i - 1], hex[i])
  <2>1. h[i] = IF i = 0 THEN d ELSE g[<< i, h[i - 1] >>]
      BY <1>6 DEF Iterates
  <2>2. i # 0 => i \in 1 .. n /\ h[i - 1] \in D
      BY <1>1, <1>6
  <2> QED BY <1>5, <2>1, <2>2
<1>8. Steps(h)
    BY <1>6, <1>7
<1>9. Steps(after)
    BY <1>8
<1> DEFINE last == after[n]
<1>10. FromHex(hex, target) = IF n % 2 = 1 \/ n > 2 * target THEN << -1 >>
                              ELSE IF Ok(last) THEN SubSeq(last.out, 1, last.idx \div 2) ELSE << -1 >>
    BY DEF FromHex, Ok, n, d
<1> HIDE DEF after
<1>11. \A i \in 0 .. n : after[i] = IF i = 0 THEN d ELSE HexStep(after[i - 1], hex[i])
    BY <1>9
<1>12. \A i \in 0 .. n : after[i] = h[i]
  <2>1. \A i \in 1 .. n : after[i] = HexStep(after[i - 1], hex[i]) /\ h[i] = HexStep(h[i - 1], hex[i])
      BY <1>1, <1>7, <1>11
  <2>2. after[0] = h[0]
      BY <1>1, <1>7, <1>11
  <2>3. StepAlike(after, h, n)
      BY <2>1, <2>2 DEF StepAlike
  <2> QED BY <1>1, <2>3, SameSteps
<1>13. last = h[n]
    BY <1>1, <1>12
<1>14. HexRun(h, hex, target)
  <2>1. h[0] = d /\ \A i \in 1 .. n : h[i] = HexStep(h[i - 1], hex[i])
      BY <1>1, <1>7
  <2> QED BY <2>1 DEF HexRun, n, d
<1>15. h \in [0 .. Len(hex) -> HexStates(target)]
    BY <1>6 DEF n, D
<1> HIDE DEF last
<1>16. FromHex(hex, target) = IF Len(hex) % 2 = 1 \/ Len(hex) > 2 * target THEN << -1 >>
                              ELSE IF Ok(h[Len(hex)]) THEN SubSeq(h[Len(hex)].out, 1, h[Len(hex)].idx \div 2) ELSE << -1 >>
    BY <1>10, <1>13 DEF n
<1> QED BY <1>14, <1>15, <1>16

OctetAt(hex, i) == 16 * Nibble(hex[2 * i - 1]) + Nibble(hex[2 * i])
HexDigits(hex) == \A i \in 1 .. Len(hex) : Nibble(hex[i]) >= 0
OctetsOf(hex, m) == [i \in 1 .. m |-> OctetAt(hex, i)]

(* After k characters the loop holds the bytes of their pairs, and the     *)
(* half of a byte if the last is alone.                                    *)
HexAfter(hex, target, k, st) ==
    /\ Ok(st) <=> \A i \in 1 .. k : Nibble(hex[i]) >= 0
    /\ Ok(st) => /\ st.idx = k
                 /\ \A m \in Nat : (k = 2 * m => st.b = 0) /\ (k = 2 * m + 1 => st.b = Nibble(hex[k]))
                 /\ \A i \in 1 .. target : 2 * i <= k => st.out[i] = OctetAt(hex, i)

LEMMA HexAfterStep ==
    ASSUME NEW hex \in Seq(Nat), NEW target \in Nat, Len(hex) <= 2 * target, NEW k \in 1 .. Len(hex),
           NEW st \in HexStates(target), HexAfter(hex, target, k - 1, st)
    PROVE  HexAfter(hex, target, k, HexStep(st, hex[k]))
<1> DEFINE c == hex[k]
           next == HexStep(st, c)
<1>1. /\ Len(hex) \in Nat /\ \A i \in 1 .. Len(hex) : hex[i] \in Nat /\ (Nibble(hex[i]) \in Halves \/ Nibble(hex[i]) = -1)
  <2>1. Len(hex) \in Nat /\ \A i \in 1 .. Len(hex) : hex[i] \in Nat
      BY Elements
  <2> QED BY <2>1, NibbleTyped
<1>2. \A i \in 1 .. Len(hex) : Nibble(hex[i]) >= 0 <=> Nibble(hex[i]) # -1
  <2> SUFFICES ASSUME NEW i \in 1 .. Len(hex) PROVE Nibble(hex[i]) >= 0 <=> Nibble(hex[i]) # -1
      OBVIOUS
  <2> DEFINE h == Nibble(hex[i])
  <2>1. h \in Halves \/ h = -1
      BY <1>1
  <2> HIDE DEF h
  <2>2. h >= 0 <=> h # -1
    <3>1. CASE h \in Halves
      <4>1. h \in 0 .. 15
          BY <3>1 DEF Halves
      <4>2. h \in Int /\ h >= 0
          BY <4>1
      <4> QED BY <4>2
    <3>2. CASE h = -1
        BY <3>2
    <3> QED BY <2>1, <3>1, <3>2
  <2> QED BY <2>2 DEF h
<1> DEFINE b == (16 * st.b + Nibble(c)) % 256
           place == (st.idx \div 2) + 1
<1>3. c \in Nat /\ (Nibble(c) >= 0 <=> Nibble(c) # -1) /\ (Nibble(c) \in Halves \/ Nibble(c) = -1)
    BY <1>1, <1>2
<1>4. /\ Ok(next) <=> Ok(st) /\ Nibble(c) # -1
      /\ Ok(next) => /\ next.idx = st.idx + 1
                     /\ st.idx % 2 = 1 => next.b = 0 /\ next.out = [st.out EXCEPT ![place] = b]
                     /\ st.idx % 2 # 1 => next.b = b /\ next.out = st.out
    BY <1>3, HexStepFacts
<1>5. Ok(next) <=> \A i \in 1 .. k : Nibble(hex[i]) >= 0
  <2>1. \A i \in 1 .. k : i \in 1 .. k - 1 \/ i = k
      BY <1>1
  <2>2. (1 .. k - 1) \subseteq 1 .. k /\ k \in 1 .. k
      BY <1>1
  <2>3. Ok(st) <=> \A i \in 1 .. k - 1 : Nibble(hex[i]) >= 0
      BY DEF HexAfter
  <2> HIDE DEF next
  <2> QED BY <1>3, <1>4, <2>1, <2>2, <2>3
<1>6. ASSUME Ok(next)
      PROVE  /\ next.idx = k
             /\ \A m \in Nat : (k = 2 * m => next.b = 0) /\ (k = 2 * m + 1 => next.b = Nibble(hex[k]))
             /\ \A i \in 1 .. target : 2 * i <= k => next.out[i] = OctetAt(hex, i)
  <2>1. Ok(st) /\ Nibble(c) \in Halves /\ next.idx = st.idx + 1
      BY <1>3, <1>4, <1>6
  <2>2. /\ st.idx = k - 1
        /\ \A m \in Nat : (k - 1 = 2 * m => st.b = 0) /\ (k - 1 = 2 * m + 1 => st.b = Nibble(hex[k - 1]))
        /\ \A i \in 1 .. target : 2 * i <= k - 1 => st.out[i] = OctetAt(hex, i)
      BY <2>1 DEF HexAfter
  <2>3. /\ st.idx % 2 = 1 => next.b = 0 /\ next.out = [st.out EXCEPT ![place] = b]
        /\ st.idx % 2 # 1 => next.b = b /\ next.out = st.out
      BY <1>4, <1>6
  <2>4. next.idx = k
      BY <1>1, <2>1, <2>2
  <2>5. st.out \in [1 .. target -> Octets]
      BY DEF HexStates
  <2>6. PICK j \in Nat : k = 2 * j + 1 \/ (k = 2 * j /\ j > 0)
    <3>1. k \in Nat /\ k > 0
        BY <1>1
    <3>2. k = 2 * (k \div 2) \/ k = 2 * (k \div 2) + 1
        BY <3>1
    <3>3. k \div 2 \in Nat /\ (k = 2 * (k \div 2) => k \div 2 > 0)
        BY <3>1, <3>2
    <3> QED BY <3>2, <3>3
  <2>7. CASE k = 2 * j + 1
    <3>1. k - 1 = 2 * j /\ st.b = 0 /\ st.idx = 2 * j
      <4>1. k - 1 = 2 * j
          BY <2>7
      <4> QED BY <2>2, <4>1
    <3>2. st.idx % 2 = 0
        BY <3>1, EvenOdd
    <3>3. b = Nibble(c)
      <4> DEFINE h == Nibble(c)
      <4>1. h \in Halves
          BY <2>1
      <4>2. b = (16 * 0 + h) % 256
          BY <3>1
      <4> HIDE DEF h, b
      <4>3. (16 * 0 + h) % 256 = h
          BY <4>1 DEF Halves
      <4> QED BY <4>2, <4>3 DEF h
    <3>4. next.b = Nibble(c) /\ next.out = st.out
        BY <2>3, <3>2, <3>3
    <3>5. \A i \in 1 .. target : 2 * i <= k => 2 * i <= k - 1
        BY <2>7
    <3>6. \A m \in Nat : k # 2 * m
        BY <2>7
    <3> HIDE DEF next
    <3> QED BY <2>2, <2>4, <3>4, <3>5, <3>6
  <2>8. CASE k = 2 * j /\ j > 0
    <3>1. k - 1 = 2 * (j - 1) + 1 /\ j - 1 \in Nat /\ j \in 1 .. target
        BY <1>1, <2>8
    <3>2. st.b = Nibble(hex[k - 1]) /\ st.idx = 2 * (j - 1) + 1
        BY <2>2, <3>1
    <3>3. st.idx % 2 = 1 /\ st.idx \div 2 = j - 1
        BY <3>1, <3>2, EvenOdd
    <3>4. place = j
        BY <3>1, <3>3
    <3>5. next.b = 0 /\ next.out = [st.out EXCEPT ![j] = b]
        BY <2>3, <3>3, <3>4
    <3>6. b = OctetAt(hex, j)
      <4> DEFINE h == Nibble(hex[k - 1])
                 l == Nibble(c)
      <4>1. k - 1 \in 1 .. k - 1 /\ k - 1 \in 1 .. Len(hex)
          BY <1>1, <2>8
      <4>2. Nibble(hex[k - 1]) >= 0
          BY <2>1, <4>1 DEF HexAfter
      <4>3. h \in Halves /\ l \in Halves
          BY <1>1, <1>2, <2>1, <4>1, <4>2
      <4>4. b = (16 * h + l) % 256
          BY <3>2
      <4>5. 2 * j = k /\ 2 * j - 1 = k - 1
          BY <2>8
      <4>6. OctetAt(hex, j) = 16 * h + l
          BY <4>5 DEF OctetAt
      <4> HIDE DEF h, l, b
      <4> QED BY <4>3, <4>4, <4>6, OctetOf
    <3>7. \A i \in 1 .. target : 2 * i <= k => i = j \/ 2 * i <= k - 1
        BY <2>8
    <3>8. \A m \in Nat : k # 2 * m + 1
        BY <2>8
    <3> HIDE DEF next, b
    <3>9. \A i \in 1 .. target : next.out[i] = IF i = j THEN OctetAt(hex, j) ELSE st.out[i]
        BY <2>5, <3>1, <3>5, <3>6
    <3> QED BY <2>2, <2>4, <3>5, <3>7, <3>8, <3>9
  <2> QED BY <2>6, <2>7, <2>8
<1> HIDE DEF next
<1>7. HexAfter(hex, target, k, next)
    BY <1>5, <1>6 DEF HexAfter
<1> QED BY <1>7 DEF next

LEMMA HexRuns ==
    ASSUME NEW hex \in Seq(Nat), NEW target \in Nat, Len(hex) <= 2 * target,
           NEW f \in [0 .. Len(hex) -> HexStates(target)], HexRun(f, hex, target)
    PROVE  HexAfter(hex, target, Len(hex), f[Len(hex)])
<1> DEFINE n == Len(hex)
           T == { k \in 0 .. n : HexAfter(hex, target, k, f[k]) }
<1>1. n \in Nat
    BY Elements
<1>2. f[0] = HexStart(target) /\ \A i \in 1 .. n : f[i] = HexStep(f[i - 1], hex[i])
    BY DEF HexRun
<1>3. 0 \in T
  <2>1. HexAfter(hex, target, 0, HexStart(target))
    <3>1. Ok(HexStart(target)) /\ HexStart(target).b = 0 /\ HexStart(target).idx = 0
        BY HexStartFacts
    <3>2. \A i \in 1 .. target : ~ (2 * i <= 0)
        OBVIOUS
    <3>3. \A m \in Nat : 0 # 2 * m + 1
        OBVIOUS
    <3>4. 1 .. 0 = {}
        OBVIOUS
    <3> QED BY <3>1, <3>2, <3>3, <3>4 DEF HexAfter
  <2> QED BY <1>1, <1>2, <2>1
<1>4. ASSUME NEW k \in 1 .. n, k - 1 \in T PROVE k \in T
  <2>1. k - 1 \in 0 .. n /\ HexAfter(hex, target, k - 1, f[k - 1]) /\ f[k - 1] \in HexStates(target) /\ k \in 0 .. n
      BY <1>1, <1>4, SMTT(20)
  <2>2. HexAfter(hex, target, k, HexStep(f[k - 1], hex[k]))
    <3> DEFINE st == f[k - 1]
    <3>1. st \in HexStates(target) /\ HexAfter(hex, target, k - 1, st) /\ k \in 1 .. Len(hex)
        BY <2>1
    <3> HIDE DEF st
    <3>2. HexAfter(hex, target, k, HexStep(st, hex[k]))
        BY <3>1, HexAfterStep
    <3> QED BY <3>2 DEF st
  <2> QED BY <1>2, <2>1, <2>2
<1> HIDE DEF T
<1>5. n \in T
  <2>1. \A i \in 1 .. n : i - 1 \in T => i \in T
      BY <1>4
  <2> HIDE DEF n
  <2>2. \A i \in 0 .. n : i \in T
      BY <1>1, <1>3, <2>1, UpTo
  <2> QED BY <1>1, <2>2
<1> QED BY <1>5 DEF T

(* What is read of a string of pairs that fit.                             *)
LEMMA FromHexExact ==
    ASSUME NEW hex \in Seq(Nat), NEW target \in Nat, NEW m \in Nat, Len(hex) = 2 * m, m <= target
    PROVE  FromHex(hex, target) = IF HexDigits(hex) THEN OctetsOf(hex, m) ELSE << -1 >>
<1>1. PICK f \in [0 .. Len(hex) -> HexStates(target)] :
         /\ HexRun(f, hex, target)
         /\ FromHex(hex, target) = IF Len(hex) % 2 = 1 \/ Len(hex) > 2 * target THEN << -1 >>
                                   ELSE IF Ok(f[Len(hex)]) THEN SubSeq(f[Len(hex)].out, 1, f[Len(hex)].idx \div 2)
                                   ELSE << -1 >>
    BY FromHexIs
<1> DEFINE n == Len(hex)
           st == f[n]
<1>2. n = 2 * m /\ n <= 2 * target /\ n \in Nat
    OBVIOUS
<1>3. HexAfter(hex, target, n, st)
    BY <1>1, <1>2, HexRuns
<1>4. st \in HexStates(target)
    BY <1>1, <1>2
<1>5. n % 2 # 1 /\ ~ (n > 2 * target)
    BY <1>2, EvenOdd
<1>6. FromHex(hex, target) = IF Ok(st) THEN SubSeq(st.out, 1, st.idx \div 2) ELSE << -1 >>
    BY <1>1, <1>5
<1> HIDE DEF st
<1>7. Ok(st) <=> HexDigits(hex)
    BY <1>3 DEF HexAfter, HexDigits
<1>8. ASSUME Ok(st) PROVE SubSeq(st.out, 1, st.idx \div 2) = OctetsOf(hex, m)
  <2> DEFINE out == st.out
  <2>1. st.idx = n /\ \A i \in 1 .. target : 2 * i <= n => out[i] = OctetAt(hex, i)
      BY <1>3, <1>8 DEF HexAfter
  <2>2. st.idx \div 2 = m
      BY <1>2, <2>1, EvenOdd
  <2>3. out \in [1 .. target -> Octets]
      BY <1>4 DEF HexStates
  <2> HIDE DEF out, n
  <2>4. \A i \in 1 .. m : i \in 1 .. target /\ out[i] = OctetAt(hex, i)
      BY <1>2, <2>1
  <2>5. SubSeq(out, 1, m) = [i \in 1 .. m |-> out[i]]
    <3>1. /\ SubSeq(out, 1, m) \in Seq(Octets) /\ Len(SubSeq(out, 1, m)) = IF 1 <= m THEN m - 1 + 1 ELSE 0
          /\ \A i \in 1 .. m - 1 + 1 : SubSeq(out, 1, m)[i] = out[1 + i - 1]
      <4>1. \A i \in 1 .. m : out[i] \in Octets
          BY <2>3, <2>4
      <4>2. out \in Seq(Octets) /\ 1 \in Int /\ m \in Int
        <5> HIDE DEF Octets
        <5> QED BY <2>3
      <4> HIDE DEF Octets
      <4> QED BY ONLY <4>1, <4>2, SubSeqProperties
    <3> DEFINE part == SubSeq(out, 1, m)
    <3>2. part \in Seq(Octets) /\ Len(part) = m /\ \A i \in 1 .. m : part[i] = out[i]
      <4>1. m - 1 + 1 = m /\ \A i \in 1 .. m : 1 + i - 1 = i
          OBVIOUS
      <4>2. (IF 1 <= m THEN m - 1 + 1 ELSE 0) = m
          OBVIOUS
      <4> HIDE DEF Octets, part
      <4> QED BY <3>1, <4>1, <4>2 DEF part
    <3> HIDE DEF part, Octets
    <3>3. part = [i \in 1 .. Len(part) |-> part[i]]
        BY <3>2
    <3> QED BY <3>2, <3>3 DEF part
  <2> QED BY <2>2, <2>4, <2>5 DEF OctetsOf, out
<1> QED BY <1>6, <1>7, <1>8

LEMMA FromHexNot ==
    ASSUME NEW hex \in Seq(Nat), NEW target \in Nat, Len(hex) % 2 = 1 \/ Len(hex) > 2 * target
    PROVE  FromHex(hex, target) = << -1 >>
BY FromHexIs

LEMMA PlaceHalf ==
    ASSUME NEW n \in Nat, NEW k \in 1 .. 2 * n
    PROVE  \E i \in 1 .. n : k = 2 * i - 1 \/ k = 2 * i
<1>1. k \in Nat /\ k > 0 /\ k <= 2 * n
    OBVIOUS
<1> DEFINE j == k \div 2
<1>2. j \in Nat /\ (k = 2 * j \/ k = 2 * j + 1)
    BY <1>1
<1> HIDE DEF j
<1>3. CASE k = 2 * j
  <2>1. j \in 1 .. n
      BY <1>1, <1>2, <1>3
  <2> QED BY <1>3, <2>1
<1>4. CASE k = 2 * j + 1
  <2> DEFINE i == j + 1
  <2>1. i \in 1 .. n /\ k = 2 * i - 1
      BY <1>1, <1>2, <1>4
  <2> HIDE DEF i
  <2> QED BY <2>1
<1> QED BY <1>2, <1>3, <1>4

LEMMA PlaceOf ==
    ASSUME NEW i \in Nat \ {0}
    PROVE  /\ (2 * i - 1 + 1) \div 2 = i /\ (2 * i - 1) % 2 = 1
           /\ (2 * i + 1) \div 2 = i /\ (2 * i) % 2 = 0
<1>1. 2 * i - 1 + 1 = 2 * i /\ 2 * i - 1 = 2 * (i - 1) + 1 /\ i - 1 \in Nat /\ i \in Nat
    OBVIOUS
<1>2. (2 * i) \div 2 = i /\ (2 * i) % 2 = 0 /\ (2 * i + 1) \div 2 = i
    BY EvenOdd
<1> DEFINE j == i - 1
<1>3. j \in Nat
    BY <1>1
<1> HIDE DEF j
<1>4. (2 * j + 1) % 2 = 1
    BY <1>3, EvenOdd
<1> QED BY <1>1, <1>2, <1>4 DEF j

(* Bytes as text.                                                          *)
LEMMA ToHexAt ==
    ASSUME NEW src, NEW n \in Nat, Len(src) = n, \A i \in 1 .. n : src[i] \in Octets
    PROVE  /\ ToHex(src) \in Seq(Nat) /\ Len(ToHex(src)) = 2 * n /\ DOMAIN ToHex(src) = 1 .. 2 * n
           /\ \A i \in 1 .. n : /\ ToHex(src)[2 * i - 1] = HexDigit(src[i] \div 16)
                                /\ ToHex(src)[2 * i] = HexDigit(src[i] % 16)
<1> DEFINE half(k) == LET byte == src[(k + 1) \div 2] IN IF k % 2 = 1 THEN byte \div 16 ELSE byte % 16
           digit(k) == HexDigit(half(k))
           N2 == 2 * n
<1>1. ToHex(src) = [k \in 1 .. N2 |-> digit(k)]
    BY DEF ToHex
<1>2. \A i \in 1 .. n : half(2 * i - 1) = src[i] \div 16 /\ half(2 * i) = src[i] % 16
  <2> SUFFICES ASSUME NEW i \in 1 .. n PROVE half(2 * i - 1) = src[i] \div 16 /\ half(2 * i) = src[i] % 16
      OBVIOUS
  <2>1. i \in Nat \ {0}
      OBVIOUS
  <2>2. (2 * i - 1 + 1) \div 2 = i /\ (2 * i - 1) % 2 = 1 /\ (2 * i + 1) \div 2 = i /\ (2 * i) % 2 = 0
      BY <2>1, PlaceOf
  <2>3. half(2 * i - 1) = src[i] \div 16
      BY <2>2
  <2>4. half(2 * i) = src[i] % 16
      BY <2>2
  <2> QED BY <2>3, <2>4
<1>3. N2 \in Nat
    OBVIOUS
<1> HIDE DEF half
<1>4. \A k \in 1 .. N2 : digit(k) \in Nat
  <2> SUFFICES ASSUME NEW k \in 1 .. N2 PROVE digit(k) \in Nat
      OBVIOUS
  <2>1. PICK i \in 1 .. n : k = 2 * i - 1 \/ k = 2 * i
      BY PlaceHalf
  <2>2. half(k) \in Halves
    <3> DEFINE byte == src[i]
    <3>1. byte \in Octets
        OBVIOUS
    <3>2. half(k) = byte \div 16 \/ half(k) = byte % 16
        BY <1>2, <2>1
    <3> HIDE DEF byte
    <3>3. byte \div 16 \in Halves /\ byte % 16 \in Halves
        BY <3>1, HalvesOf
    <3> QED BY <3>2, <3>3
  <2> QED BY <2>2, DigitNibble
<1>5. \A i \in 1 .. n : 2 * i - 1 \in 1 .. N2 /\ 2 * i \in 1 .. N2
    OBVIOUS
<1> HIDE DEF N2
<1>6. ToHex(src) \in [1 .. N2 -> Nat] /\ \A k \in 1 .. N2 : ToHex(src)[k] = digit(k)
    BY <1>1, <1>4
<1>7. ToHex(src) \in Seq(Nat) /\ Len(ToHex(src)) = N2 /\ DOMAIN ToHex(src) = 1 .. N2
    BY <1>3, <1>6
<1>8. ASSUME NEW i \in 1 .. n
      PROVE  ToHex(src)[2 * i - 1] = HexDigit(src[i] \div 16) /\ ToHex(src)[2 * i] = HexDigit(src[i] % 16)
  <2>1. ToHex(src)[2 * i - 1] = digit(2 * i - 1) /\ ToHex(src)[2 * i] = digit(2 * i)
      BY <1>5, <1>6
  <2> QED BY <1>2, <2>1
<1> QED BY <1>7, <1>8 DEF N2

LEMMA TextOf ==
    ASSUME NEW in \in Data
    PROVE  /\ ToHex(in) \in Seq(Nat) /\ Len(ToHex(in)) = 2 * Len(in)
           /\ HexDigits(ToHex(in)) /\ OctetsOf(ToHex(in), Len(in)) = in
<1> DEFINE n == Len(in)
           hex == ToHex(in)
<1>1. n \in Nat /\ \A i \in 1 .. n : in[i] \in Octets
  <2>1. \A b \in Bytes : b \in 0 .. 255
      BY DataBytes
  <2> QED BY <2>1, DataTyped DEF Octets
<1> HIDE DEF hex
<1>2. /\ hex \in Seq(Nat) /\ Len(hex) = 2 * n
      /\ \A i \in 1 .. n : hex[2 * i - 1] = HexDigit(in[i] \div 16) /\ hex[2 * i] = HexDigit(in[i] % 16)
  <2> HIDE DEF n
  <2>1. Len(in) = n
      BY DEF n
  <2> QED BY <1>1, <2>1, ToHexAt DEF hex
<1> HIDE DEF n
<1>3. ASSUME NEW i \in 1 .. n
      PROVE  /\ Nibble(hex[2 * i - 1]) = in[i] \div 16 /\ Nibble(hex[2 * i]) = in[i] % 16
             /\ in[i] \div 16 \in Halves /\ in[i] % 16 \in Halves /\ OctetAt(hex, i) = in[i]
  <2> DEFINE byte == in[i]
  <2>1. byte \in Octets
      BY <1>1
  <2>2. hex[2 * i - 1] = HexDigit(byte \div 16) /\ hex[2 * i] = HexDigit(byte % 16)
      BY <1>2
  <2>5. OctetAt(hex, i) = 16 * Nibble(hex[2 * i - 1]) + Nibble(hex[2 * i])
      BY DEF OctetAt
  <2> HIDE DEF byte
  <2>3. byte \div 16 \in Halves /\ byte % 16 \in Halves /\ 16 * (byte \div 16) + (byte % 16) = byte
      BY <2>1, HalvesOf
  <2>4. Nibble(HexDigit(byte \div 16)) = byte \div 16 /\ Nibble(HexDigit(byte % 16)) = byte % 16
      BY <2>3, DigitNibble
  <2>6. Nibble(hex[2 * i - 1]) = byte \div 16 /\ Nibble(hex[2 * i]) = byte % 16
      BY <2>2, <2>4
  <2>7. OctetAt(hex, i) = byte
      BY <2>3, <2>5, <2>6
  <2> QED BY <2>3, <2>6, <2>7 DEF byte
<1>4. HexDigits(hex)
  <2> SUFFICES ASSUME NEW k \in 1 .. Len(hex) PROVE Nibble(hex[k]) >= 0
      BY DEF HexDigits
  <2>1. PICK i \in 1 .. n : k = 2 * i - 1 \/ k = 2 * i
      BY <1>1, <1>2, PlaceHalf
  <2>2. Nibble(hex[k]) \in Halves
      BY <1>3, <2>1
  <2> QED BY <2>2 DEF Halves
<1>5. OctetsOf(hex, n) = in
  <2>1. OctetsOf(hex, n) = [i \in 1 .. n |-> in[i]]
      BY <1>3 DEF OctetsOf
  <2>2. in \in Seq(Bytes) /\ Len(in) = n
      BY DEF Data, n
  <2> HIDE DEF Bytes
  <2>3. in = [i \in 1 .. Len(in) |-> in[i]]
      BY <2>2
  <2> QED BY <2>1, <2>2, <2>3
<1> QED BY <1>2, <1>4, <1>5 DEF hex, n

(* The bytes of pairs of digits, and these as text.                        *)
LEMMA OctetsTyped ==
    ASSUME NEW hex \in Seq(Nat), NEW m \in Nat, Len(hex) = 2 * m, HexDigits(hex)
    PROVE  /\ OctetsOf(hex, m) \in Seq(Octets) /\ Len(OctetsOf(hex, m)) = m /\ OctetsOf(hex, m) # << -1 >>
           /\ \A i \in 1 .. m : /\ OctetsOf(hex, m)[i] = OctetAt(hex, i) /\ OctetAt(hex, i) \in Octets
                                /\ OctetAt(hex, i) \div 16 = Nibble(hex[2 * i - 1]) /\ OctetAt(hex, i) % 16 = Nibble(hex[2 * i])
<1>1. \A i \in 1 .. Len(hex) : hex[i] \in Nat /\ Nibble(hex[i]) \in Halves
  <2> SUFFICES ASSUME NEW i \in 1 .. Len(hex) PROVE hex[i] \in Nat /\ Nibble(hex[i]) \in Halves
      OBVIOUS
  <2>1. hex[i] \in Nat
      BY Elements
  <2>2. Nibble(hex[i]) >= 0
      BY DEF HexDigits
  <2> DEFINE h == Nibble(hex[i])
  <2>3. h \in Halves \/ h = -1
      BY <2>1, NibbleTyped
  <2>4. h >= 0
      BY <2>2
  <2> HIDE DEF h
  <2>5. h # -1
      BY <2>4
  <2> QED BY <2>1, <2>3, <2>5 DEF h
<1>2. ASSUME NEW i \in 1 .. m
      PROVE  /\ OctetAt(hex, i) \in Octets
             /\ OctetAt(hex, i) \div 16 = Nibble(hex[2 * i - 1]) /\ OctetAt(hex, i) % 16 = Nibble(hex[2 * i])
  <2> DEFINE h == Nibble(hex[2 * i - 1])
             l == Nibble(hex[2 * i])
  <2>1. 2 * i - 1 \in 1 .. Len(hex) /\ 2 * i \in 1 .. Len(hex)
      OBVIOUS
  <2>2. h \in Halves /\ l \in Halves /\ OctetAt(hex, i) = 16 * h + l
      BY <1>1, <2>1 DEF OctetAt
  <2> HIDE DEF h, l
  <2>3. 16 * h + l \in Octets /\ (16 * h + l) \div 16 = h /\ (16 * h + l) % 16 = l
      BY <2>2, OctetOf
  <2> QED BY <2>2, <2>3 DEF h, l
<1>3. OctetsOf(hex, m) \in [1 .. m -> Octets] /\ \A i \in 1 .. m : OctetsOf(hex, m)[i] = OctetAt(hex, i)
    BY <1>2 DEF OctetsOf
<1>4. OctetsOf(hex, m) \in Seq(Octets) /\ Len(OctetsOf(hex, m)) = m
  <2> HIDE DEF Octets
  <2> QED BY <1>3
<1>5. OctetsOf(hex, m) # << -1 >>
  <2> SUFFICES ASSUME OctetsOf(hex, m) = << -1 >> PROVE FALSE
      OBVIOUS
  <2>1. << -1 >> \in Seq(Octets) /\ Len(<< -1 >>) = 1 /\ << -1 >>[1] = -1
      BY <1>4
  <2>2. -1 \in Octets
      BY <2>1, Elements
  <2> QED BY <2>2 DEF Octets
<1> QED BY <1>2, <1>3, <1>4, <1>5

LowerOf(hex) == << >> \o [i \in DOMAIN hex |-> IF hex[i] \in 65 .. 70 THEN hex[i] + 32 ELSE hex[i]]

LEMMA ToHexLower ==
    ASSUME NEW hex \in Seq(Nat), NEW m \in Nat, Len(hex) = 2 * m, HexDigits(hex)
    PROVE  ToHex(OctetsOf(hex, m)) = LowerOf(hex)
<1> DEFINE src == OctetsOf(hex, m)
           low(c) == IF c \in 65 .. 70 THEN c + 32 ELSE c
           f == [i \in DOMAIN hex |-> low(hex[i])]
<1>1. /\ Len(src) = m
      /\ \A i \in 1 .. m : /\ src[i] \in Octets
                           /\ src[i] \div 16 = Nibble(hex[2 * i - 1]) /\ src[i] % 16 = Nibble(hex[2 * i])
    BY OctetsTyped
<1>2. \A i \in 1 .. 2 * m : hex[i] \in Nat /\ Nibble(hex[i]) >= 0
    BY Elements DEF HexDigits
<1>3. \A i \in 1 .. 2 * m : HexDigit(Nibble(hex[i])) = low(hex[i])
    BY <1>2, NibbleDigit
<1>4. DOMAIN hex = 1 .. 2 * m
    OBVIOUS
<1>5. f = [i \in 1 .. 2 * m |-> low(hex[i])] /\ \A i \in 1 .. 2 * m : low(hex[i]) \in Nat
    BY <1>2, <1>4
<1> HIDE DEF src, low, f
<1>6. /\ ToHex(src) \in Seq(Nat) /\ Len(ToHex(src)) = 2 * m /\ DOMAIN ToHex(src) = 1 .. 2 * m
      /\ \A i \in 1 .. m : /\ ToHex(src)[2 * i - 1] = HexDigit(src[i] \div 16)
                           /\ ToHex(src)[2 * i] = HexDigit(src[i] % 16)
    BY <1>1, ToHexAt
<1>7. ASSUME NEW k \in 1 .. 2 * m PROVE ToHex(src)[k] = low(hex[k])
  <2>1. PICK i \in 1 .. m : k = 2 * i - 1 \/ k = 2 * i
      BY PlaceHalf
  <2>2. ToHex(src)[k] = HexDigit(Nibble(hex[k]))
      BY <1>1, <1>6, <2>1
  <2> QED BY <1>3, <2>2
<1>8. ToHex(src) = f
  <2>1. ToHex(src) = [k \in 1 .. 2 * m |-> ToHex(src)[k]]
      BY <1>6
  <2> QED BY <1>5, <1>7, <2>1
<1>9. << >> \o f = f
  <2>1. f \in Seq(Nat)
      BY <1>6, <1>8
  <2> QED BY <2>1
<1> QED BY <1>8, <1>9 DEF src, f, low, LowerOf

LEMMA FromStrIs ==
    ASSUME NEW hex \in Seq(Nat), NEW m \in Nat, Len(hex) = 2 * m, HexDigits(hex),
           NEW target \in Nat, NEW sizes, \A size \in sizes : size <= target
    PROVE  FromStr(hex, sizes, target) = IF m \in sizes THEN OctetsOf(hex, m) ELSE << -1 >>
<1> DEFINE bytes == FromHex(hex, target)
<1>1. FromStr(hex, sizes, target) = IF bytes # << -1 >> /\ Len(bytes) \in sizes THEN bytes ELSE << -1 >>
    BY DEF FromStr
<1>2. CASE m <= target
  <2>1. bytes = OctetsOf(hex, m)
      BY <1>2, FromHexExact
  <2>2. Len(OctetsOf(hex, m)) = m /\ OctetsOf(hex, m) # << -1 >>
      BY OctetsTyped
  <2> HIDE DEF bytes
  <2> QED BY <1>1, <2>1, <2>2
<1>3. CASE ~ (m <= target)
  <2>1. Len(hex) > 2 * target
      BY <1>3
  <2>2. bytes = << -1 >>
      BY <2>1, FromHexNot
  <2>3. m \notin sizes
      BY <1>3
  <2> HIDE DEF bytes
  <2> QED BY <1>1, <2>2, <2>3
<1> QED BY <1>2, <1>3

HexHolds(hex, target) ==
    IF /\ Len(hex) % 2 = 0 /\ Len(hex) <= 2 * target
       /\ \A i \in DOMAIN hex : Nibble(hex[i]) >= 0
    THEN /\ ToHex(FromHex(hex, target)) = LowerOf(hex)
         /\ KeyFromStr(hex) = IF Len(hex) = 2 THEN FromHex(hex, target) ELSE << -1 >>
         /\ PublicNonceFromStr(hex) = IF Len(hex) = 4 THEN FromHex(hex, target) ELSE << -1 >>
         /\ PublicKeyFromStr(hex) = IF Len(hex) \in {2, 4} THEN FromHex(hex, target) ELSE << -1 >>
    ELSE FromHex(hex, target) = << -1 >>

LEMMA HexHeld ==
    ASSUME NEW hex \in Seq(Nat), NEW target \in Nat
    PROVE  HexHolds(hex, target)
<1>1. Len(hex) \in Nat /\ DOMAIN hex = 1 .. Len(hex)
    OBVIOUS
<1>2. PICK m \in Nat : Len(hex) = 2 * m \/ Len(hex) = 2 * m + 1
  <2> DEFINE n == Len(hex)
             m == n \div 2
  <2>1. n \in Nat
      BY <1>1
  <2> HIDE DEF n
  <2>2. m \in Nat /\ (n = 2 * m \/ n = 2 * m + 1)
      BY <2>1
  <2> HIDE DEF m
  <2> QED BY <2>2 DEF n
<1>3. CASE Len(hex) = 2 * m /\ m <= target
  <2>1. Len(hex) % 2 = 0 /\ Len(hex) <= 2 * target
      BY <1>2, <1>3, EvenOdd
  <2>2. FromHex(hex, target) = IF HexDigits(hex) THEN OctetsOf(hex, m) ELSE << -1 >>
      BY <1>3, FromHexExact
  <2>3. HexDigits(hex) <=> \A i \in DOMAIN hex : Nibble(hex[i]) >= 0
      BY <1>1 DEF HexDigits
  <2>4. CASE HexDigits(hex)
    <3>1. ToHex(OctetsOf(hex, m)) = LowerOf(hex)
        BY <1>3, <2>4, ToHexLower
    <3>2. KeyFromStr(hex) = IF m \in {1} THEN OctetsOf(hex, m) ELSE << -1 >>
      <4> DEFINE sizes == {1}
                 t == 1
      <4>1. t \in Nat /\ \A size \in sizes : size <= t
          OBVIOUS
      <4>2. KeyFromStr(hex) = FromStr(hex, sizes, t)
          BY DEF KeyFromStr
      <4> HIDE DEF sizes, t
      <4>3. KeyFromStr(hex) = IF m \in sizes THEN OctetsOf(hex, m) ELSE << -1 >>
          BY <1>3, <2>4, <4>1, <4>2, FromStrIs
      <4> QED BY <4>3 DEF sizes
    <3>3. PublicNonceFromStr(hex) = IF m \in {2} THEN OctetsOf(hex, m) ELSE << -1 >>
      <4> DEFINE sizes == {2}
                 t == 2
      <4>1. t \in Nat /\ \A size \in sizes : size <= t
          OBVIOUS
      <4>2. PublicNonceFromStr(hex) = FromStr(hex, sizes, t)
          BY DEF PublicNonceFromStr
      <4> HIDE DEF sizes, t
      <4>3. PublicNonceFromStr(hex) = IF m \in sizes THEN OctetsOf(hex, m) ELSE << -1 >>
          BY <1>3, <2>4, <4>1, <4>2, FromStrIs
      <4> QED BY <4>3 DEF sizes
    <3>4. PublicKeyFromStr(hex) = IF m \in {1, 2} THEN OctetsOf(hex, m) ELSE << -1 >>
      <4> DEFINE sizes == {1, 2}
                 t == 2
      <4>1. t \in Nat /\ \A size \in sizes : size <= t
          OBVIOUS
      <4>2. PublicKeyFromStr(hex) = FromStr(hex, sizes, t)
          BY DEF PublicKeyFromStr
      <4> HIDE DEF sizes, t
      <4>3. PublicKeyFromStr(hex) = IF m \in sizes THEN OctetsOf(hex, m) ELSE << -1 >>
          BY <1>3, <2>4, <4>1, <4>2, FromStrIs
      <4> QED BY <4>3 DEF sizes
    <3>5. (m \in {1} <=> Len(hex) = 2) /\ (m \in {2} <=> Len(hex) = 4) /\ (m \in {1, 2} <=> Len(hex) \in {2, 4})
        BY <1>3
    <3> QED BY <2>1, <2>2, <2>3, <2>4, <3>1, <3>2, <3>3, <3>4, <3>5 DEF HexHolds
  <2>5. CASE ~ HexDigits(hex)
      BY <2>2, <2>3, <2>5 DEF HexHolds
  <2> QED BY <2>4, <2>5
<1>4. CASE Len(hex) = 2 * m /\ ~ (m <= target)
  <2>1. Len(hex) > 2 * target /\ ~ (Len(hex) <= 2 * target)
      BY <1>4
  <2>2. FromHex(hex, target) = << -1 >>
      BY <2>1, FromHexNot
  <2> QED BY <2>1, <2>2 DEF HexHolds
<1>5. CASE Len(hex) = 2 * m + 1
  <2>1. Len(hex) % 2 = 1
      BY <1>5, EvenOdd
  <2>2. FromHex(hex, target) = << -1 >>
      BY <2>1, FromHexNot
  <2>3. ~ (Len(hex) % 2 = 0)
      BY <2>1
  <2> QED BY <2>2, <2>3 DEF HexHolds
<1> QED BY <1>2, <1>3, <1>4, <1>5

----------------------------------------------------------------------------
(* A signature and its serializations.                                     *)
LEMMA TextRead ==
    ASSUME NEW in \in Data
    PROVE  FromHex(ToHex(in), MaxLen) = IF Len(in) <= MaxLen THEN in ELSE << -1 >>
<1> DEFINE hex == ToHex(in)
           m == Len(in)
<1>1. hex \in Seq(Nat) /\ Len(hex) = 2 * m /\ HexDigits(hex) /\ OctetsOf(hex, m) = in
    BY TextOf
<1>2. m \in Nat /\ MaxLen \in Nat
    BY DataTyped, SizesAssumption
<1> HIDE DEF hex, m
<1>3. CASE m <= MaxLen
  <2>1. FromHex(hex, MaxLen) = in
      BY <1>1, <1>2, <1>3, FromHexExact
  <2> QED BY <1>3, <2>1 DEF hex, m
<1>4. CASE ~ (m <= MaxLen)
  <2>1. Len(hex) > 2 * MaxLen
      BY <1>1, <1>2, <1>4
  <2>2. FromHex(hex, MaxLen) = << -1 >>
      BY <1>1, <1>2, <2>1, FromHexNot
  <2> QED BY <1>4, <2>2 DEF hex, m
<1> QED BY <1>3, <1>4

LEMMA TextHeld == ASSUME NEW in \in Data PROVE TextHolds(in)
<1>1. in # << -1 >>
  <2> SUFFICES ASSUME in = << -1 >> PROVE FALSE
      OBVIOUS
  <2>1. Len(<< -1 >>) = 1 /\ << -1 >>[1] = -1
      OBVIOUS
  <2>2. -1 \in Bytes
      BY <2>1, DataTyped
  <2> QED BY <2>2 DEF Bytes
<1> DEFINE res == FromHex(ToHex(in), MaxLen)
<1>2. res = IF Len(in) <= MaxLen THEN in ELSE << -1 >>
    BY TextRead
<1>3. SignatureFromStr(ToHex(in)) = IF res = << -1 >> THEN NoSignature ELSE FromDer(res)
    BY DEF SignatureFromStr
<1> HIDE DEF res
<1> QED BY <1>1, <1>2, <1>3 DEF TextHolds

LEMMA HalfOrder ==
    /\ Order \div 2 \in Nat
    /\ Order = 2 * (Order \div 2) \/ Order = 2 * (Order \div 2) + 1
<1>1. Order \in Nat
    BY OrderTyped
<1> DEFINE n == Order
<1>2. n \in Nat
    BY <1>1
<1> HIDE DEF n
<1>3. n \div 2 \in Nat /\ (n = 2 * (n \div 2) \/ n = 2 * (n \div 2) + 1)
    BY <1>2
<1> QED BY <1>3 DEF n

LEMMA NormalizeFacts ==
    ASSUME NEW r, NEW s \in 0 .. Order - 1
    PROVE  /\ ~ IsHigh(Normalize(<< r, s >>)[2])
           /\ s > 0 => Normalize(<< r, Order - s >>) = Normalize(<< r, s >>)
<1> DEFINE h == Order \div 2
           low(v) == IF v > h THEN Order - v ELSE v
<1>1. h \in Nat /\ (Order = 2 * h \/ Order = 2 * h + 1) /\ Order \in Nat
    BY HalfOrder, OrderTyped
<1>2. \A v : Normalize(<< r, v >>) = << r, low(v) >>
    BY DEF Normalize, IsHigh
<1>3. \A v : IsHigh(v) <=> v > h
    BY DEF IsHigh
<1> HIDE DEF h
<1>4. ~ (low(s) > h)
    BY <1>1
<1>5. s > 0 => low(Order - s) = low(s)
    BY <1>1
<1> HIDE DEF low
<1>6. << r, low(s) >>[2] = low(s)
    OBVIOUS
<1> QED BY <1>2, <1>3, <1>4, <1>5, <1>6

LEMMA DigitsNumber ==
    ASSUME NEW v \in 0 .. Order - 1
    PROVE  Digits(v) \in Data /\ Minimal(Digits(v)) /\ InRange(Digits(v)) /\ Number(Digits(v)) = v /\ IntegerOf(Digits(v)) = v
<1>1. v \in Nat /\ v < Beyond(Width) /\ v < Order
    BY OrderTyped
<1> DEFINE c == Digits(v)
<1>2. c \in Data /\ Minimal(c) /\ c[1] < Top /\ ValueOf(Trimmed(c)) = v /\ Len(Trimmed(c)) <= Width
    BY <1>1, DigitsFacts
<1> HIDE DEF c
<1>3. InRange(c) /\ Number(c) = v
    BY <1>1, <1>2 DEF InRange, Number
<1>4. IntegerOf(c) = v
    BY <1>2, <1>3, IntegerNumber
<1> QED BY <1>2, <1>3, <1>4 DEF c

LEMMA SerializedRead ==
    ASSUME NEW r \in 0 .. Order - 1, NEW s \in 0 .. Order - 1
    PROVE  /\ FromDer(SerializeDer(<< r, s >>)) = << r, s >>
           /\ ~ SerializedOf(<< r, s >>).panicked
           /\ Deref(SerializedOf(<< r, s >>)) = SerializeDer(<< r, s >>)
<1> DEFINE sig == << r, s >>
           der == SerializeDer(sig)
           c == Digits(r)
           d == Digits(s)
<1>1. /\ Integers2(c, d) /\ Len(Body(c, d)) < Base /\ der = DerOfPair(<< c, d >>)
      /\ der \in Data /\ Len(der) <= MaxLen /\ Len(der) < Base /\ Len(der) > 0
    BY SerializeIs
<1>2. IntegerOf(c) = r /\ IntegerOf(d) = s
    BY DigitsNumber
<1> HIDE DEF c, d, der
<1>3. ParseDer(der) = Done(Len(der) + 1, << IntegerOf(c), IntegerOf(d) >>)
    BY <1>1, DerReads
<1>4. Ok(ParseDer(der)) /\ ParseDer(der).value = sig
    BY <1>2, <1>3, DoneFacts
<1>5. der # << >>
    BY <1>1, DataEmpty
<1>6. FromDer(der) = sig
  <2>1. SignatureParseDer(der) = IF Ok(ParseDer(der)) THEN ParseDer(der) ELSE [Fail EXCEPT !.value = << 0, 0 >>]
      BY DEF SignatureParseDer, Ok
  <2>2. SignatureParseDer(der) = ParseDer(der)
      BY <1>4, <2>1
  <2>3. FromDer(der) = IF der = << >> \/ ~ Ok(ParseDer(der)) THEN NoSignature ELSE ParseDer(der).value
      BY <2>2 DEF FromDer, Signature, Ok
  <2> QED BY <1>4, <1>5, <2>3
<1>7. SerializedOf(sig) = FromRawParts(der \o [i \in 1 .. MaxLen - Len(der) |-> 0], Len(der))
    BY DEF SerializedOf, der
<1> DEFINE n == MaxLen - Len(der)
           z == [i \in 1 .. n |-> 0]
           data == der \o z
<1>8. n \in Nat /\ Len(der) \in Nat /\ MaxLen \in Nat
    BY <1>1, SizesAssumption, DataTyped
<1>9. SerializedOf(sig) = [data |-> data, len |-> Len(der), panicked |-> Len(der) > MaxLen]
    BY <1>7 DEF FromRawParts
<1> HIDE DEF n
<1>10. z \in Data
    BY <1>8, DataZeros
<1> HIDE DEF z
<1>11. data \in Data /\ Len(data) = Len(der) + Len(z)
    BY <1>1, <1>10, DataJoined
<1>12. data = der \o z
    OBVIOUS
<1> HIDE DEF data, sig
<1>13. SubSeq(data, 1, Len(der)) = der
  <2> DEFINE p == 1
  <2>1. From(data, 1) = data /\ 1 \in 1 .. Len(data) + 1
      BY <1>8, <1>10, <1>11, FromOne, DataTyped
  <2>2. p \in 1 .. Len(data) + 1 /\ From(data, p) = der \o z
      BY <1>12, <2>1
  <2> HIDE DEF p
  <2>3. Parted(data, p, der, z)
      BY <1>1, <1>10, <1>11, <2>2, Split
  <2>4. SubSeq(data, p, p + Len(der) - 1) = der
      BY <2>3 DEF Parted
  <2>5. p + (Len(der) - 1) = Len(der) /\ p = 1
      BY <1>8 DEF p
  <2> QED BY <2>4, <2>5
<1>14. Deref(SerializedOf(sig)) = SubSeq(data, 1, Len(der))
    BY <1>9 DEF Deref
<1>15. ~ SerializedOf(sig).panicked
  <2>1. (Len(der) > MaxLen) = FALSE
      BY <1>1, <1>8
  <2>2. SerializedOf(sig) = [data |-> data, len |-> Len(der), panicked |-> FALSE]
      BY <1>9, <2>1
  <2>3. SerializedOf(sig).panicked = FALSE
      BY <2>2
  <2> QED BY <2>3
<1> QED BY <1>6, <1>13, <1>14, <1>15 DEF der, sig

LEMMA CompactRead ==
    ASSUME NEW r \in 0 .. Order - 1, NEW s \in 0 .. Order - 1
    PROVE  FromCompact(SerializeCompact(<< r, s >>)) = << r, s >>
<1> DEFINE x == ScalarBytes(r)
           y == ScalarBytes(s)
           in == SerializeCompact(<< r, s >>)
<1>1. r \in Nat /\ r < Beyond(Width) /\ r < Order /\ s \in Nat /\ s < Beyond(Width) /\ s < Order
    BY OrderTyped
<1>2. x \in Data /\ Len(x) = Width /\ ValueOf(x) = r
    BY <1>1, ScalarBytesTyped, ScalarBytesValue
<1>3. y \in Data /\ Len(y) = Width /\ ValueOf(y) = s
    BY <1>1, ScalarBytesTyped, ScalarBytesValue
<1>4. in = x \o y
  <2>1. << r, s >>[1] = r /\ << r, s >>[2] = s
      OBVIOUS
  <2> QED BY <2>1 DEF SerializeCompact
<1> HIDE DEF x, y, in
<1>5. ParseCompact(x \o y) = IF ValueOf(x) < Order /\ ValueOf(y) < Order
                             THEN Done(1 + 2 * Width, << ValueOf(x), ValueOf(y) >>) ELSE Fail
    BY <1>2, <1>3, CompactJoined
<1>6. ParseCompact(in) = Done(1 + 2 * Width, << r, s >>)
    BY <1>1, <1>2, <1>3, <1>4, <1>5
<1>7. in # << >>
  <2>1. x \o y \in Data /\ Len(x \o y) = Len(x) + Len(y)
      BY <1>2, <1>3, DataJoined
  <2>2. Len(in) > 0
      BY <1>2, <1>3, <1>4, <2>1, WidthTyped
  <2> QED BY <2>2, DataEmpty
<1>8. FromCompact(in) = IF in = << >> \/ ~ Ok(ParseCompact(in)) THEN NoSignature ELSE ParseCompact(in).value
    BY DEF FromCompact, Signature, Ok
<1>9. FromCompact(in) = << r, s >>
    BY <1>6, <1>7, <1>8, DoneFacts
<1> QED BY <1>9 DEF in

LEMMA SignatureHeld ==
    ASSUME NEW r \in 0 .. Order - 1, NEW s \in 0 .. Order - 1
    PROVE  SignatureHolds(<< r, s >>)
<1> DEFINE sig == << r, s >>
           der == SerializeDer(sig)
<1>1. FromDer(der) = sig /\ ~ SerializedOf(sig).panicked /\ Deref(SerializedOf(sig)) = der
    BY SerializedRead
<1>2. der \in Data /\ Len(der) <= MaxLen
    BY SerializeIs
<1>3. FromCompact(SerializeCompact(sig)) = sig
    BY CompactRead
<1>4. ~ IsHigh(Normalize(sig)[2]) /\ (s > 0 => Normalize(<< r, Order - s >>) = Normalize(sig))
    BY NormalizeFacts
<1>5. sig[1] = r /\ sig[2] = s
    OBVIOUS
<1> HIDE DEF der, sig
<1>6. ToSignature(SerializedOf(sig)) = sig
    BY <1>1 DEF ToSignature
<1>7. SignatureFromStr(Display(sig)) = sig
  <2>1. Display(sig) = ToHex(der)
      BY <1>1 DEF Display
  <2>2. SignatureFromStr(ToHex(der)) = FromDer(der)
      BY <1>2, TextHeld DEF TextHolds
  <2> QED BY <1>1, <2>1, <2>2
<1>8. SignatureHolds(sig)
    BY <1>1, <1>3, <1>4, <1>5, <1>6, <1>7 DEF SignatureHolds
<1> QED BY <1>8 DEF sig

(* What the parsers give of any input shorter than the base.               *)
LEMMA DerHeld ==
    ASSUME NEW in \in Data, Len(in) < Base
    PROVE  DerHolds(in, DerPairs(in), ParseDer(in), ParseDerLax(in))
<1> DEFINE pairs == DerPairs(in)
           strict == ParseDer(in)
           lax == ParseDerLax(in)
<1>1. ASSUME NEW cs \in pairs
      PROVE  LET c == cs[1] d == cs[2]
             IN  /\ Integers2(c, d) /\ in = DerOfPair(<< c, d >>)
                 /\ strict = Done(Len(in) + 1, << IntegerOf(c), IntegerOf(d) >>)
                 /\ lax = Done(Len(in) + 1, LaxSig(Trimmed(c), Trimmed(d)))
  <2> DEFINE c == cs[1]
             d == cs[2]
  <2>1. Integers2(c, d) /\ in = DerOfPair(<< c, d >>)
      BY PairsTyped
  <2> HIDE DEF c, d
  <2>2. Len(Body(c, d)) < Base
      BY <2>1, BodyShort
  <2>3. /\ strict = Done(Len(in) + 1, << IntegerOf(c), IntegerOf(d) >>)
        /\ lax = Done(Len(in) + 1, LaxSig(Trimmed(c), Trimmed(d)))
      BY <2>1, <2>2, DerReads
  <2> QED BY <2>1, <2>3 DEF c, d
<1>2. strict # Fail => pairs # {}
  <2>1. ASSUME strict # Fail PROVE pairs # {}
    <3>1. PICK c, d : Integers2(c, d) /\ in = DerOfPair(<< c, d >>)
        BY <2>1, DerRead
    <3>2. << c, d >> \in pairs
        BY <3>1, PairsHas
    <3> QED BY <3>2
  <2> QED BY <2>1
<1>3. Ok(lax) => \E r, s \in Data : lax.value = LaxSig(r, s)
    BY LaxRead
<1> HIDE DEF pairs, strict, lax
<1>4. strict.ok = (pairs # {})
  <2>1. CASE pairs = {}
    <3>1. strict = Fail
        BY <1>2, <2>1
    <3>2. strict.ok = FALSE
        BY <3>1 DEF Fail
    <3> QED BY <2>1, <3>2
  <2>2. CASE pairs # {}
    <3>1. PICK cs \in pairs : TRUE
        BY <2>2
    <3>2. \E p, v : strict = Done(p, v)
        BY <1>1, <3>1
    <3>3. strict.ok = TRUE
        BY <3>2 DEF Done
    <3> QED BY <2>2, <3>3
  <2> QED BY <2>1, <2>2
<1>5. ASSUME NEW cs \in pairs
      PROVE  /\ strict.value = << Number(cs[1]), Number(cs[2]) >>
             /\ Ok(lax)
             /\ InRange(cs[1]) /\ InRange(cs[2]) => lax = strict /\ SerializeDer(strict.value) = in /\ Len(in) <= MaxLen
  <2> DEFINE c == cs[1]
             d == cs[2]
  <2>1. /\ Integers2(c, d) /\ in = DerOfPair(<< c, d >>)
        /\ strict = Done(Len(in) + 1, << IntegerOf(c), IntegerOf(d) >>)
        /\ lax = Done(Len(in) + 1, LaxSig(Trimmed(c), Trimmed(d)))
      BY <1>1
  <2> HIDE DEF c, d
  <2>2. c \in Data /\ Minimal(c) /\ d \in Data /\ Minimal(d)
      BY <2>1 DEF Integers2
  <2>3. IntegerOf(c) = Number(c) /\ IntegerOf(d) = Number(d)
      BY <2>2, IntegerNumber
  <2>4. strict.value = << Number(c), Number(d) >> /\ Ok(lax)
      BY <2>1, <2>3, DoneFacts
  <2>5. ASSUME InRange(c), InRange(d) PROVE lax = strict /\ SerializeDer(strict.value) = in /\ Len(in) <= MaxLen
    <3> DEFINE r == Number(c)
               s == Number(d)
    <3>1. r = ValueOf(Trimmed(c)) /\ s = ValueOf(Trimmed(d))
        BY <2>5 DEF Number
    <3>2. r \in 0 .. Order - 1 /\ s \in 0 .. Order - 1
        BY <2>2, NumberTyped
    <3>3. Digits(r) = c /\ Digits(s) = d
        BY <2>2, <2>5, <3>1, DigitsOf
    <3>4. /\ Len(Trimmed(c)) <= Width /\ ValueOf(Trimmed(c)) < Order /\ Trimmed(c) \in Data
          /\ Len(Trimmed(d)) <= Width /\ ValueOf(Trimmed(d)) < Order /\ Trimmed(d) \in Data
        BY <2>2, <2>5, TrimmedFacts DEF InRange
    <3>5. LaxSig(Trimmed(c), Trimmed(d)) = << ValueOf(Trimmed(c)), ValueOf(Trimmed(d)) >>
        BY <3>4, LaxSigFacts
    <3> HIDE DEF r, s
    <3>6. lax = strict
        BY <2>1, <2>3, <3>1, <3>5 DEF r, s
    <3>7. SerializeDer(<< r, s >>) = DerOfPair(<< Digits(r), Digits(s) >>) /\ Len(SerializeDer(<< r, s >>)) <= MaxLen
        BY <3>2, SerializeIs
    <3>8. SerializeDer(<< r, s >>) = in
        BY <2>1, <3>3, <3>7
    <3> QED BY <2>4, <3>6, <3>7, <3>8 DEF r, s
  <2> QED BY <2>4, <2>5 DEF c, d
<1>6. ASSUME Ok(lax) PROVE (\A i \in 1 .. 2 : lax.value[i] < Order) /\ SignatureHolds(lax.value)
  <2>1. PICK r, s \in Data : lax.value = LaxSig(r, s)
      BY <1>3, <1>6
  <2>2. PICK a, b \in 0 .. Order - 1 : LaxSig(r, s) = << a, b >>
      BY LaxSigFacts
  <2>3. SignatureHolds(<< a, b >>)
      BY SignatureHeld
  <2>4. \A i \in 1 .. 2 : << a, b >>[i] < Order
    <3>1. a < Order /\ b < Order
        BY OrderTyped
    <3>2. << a, b >>[1] = a /\ << a, b >>[2] = b
        OBVIOUS
    <3>3. \A i \in 1 .. 2 : i = 1 \/ i = 2
        OBVIOUS
    <3> QED BY <3>1, <3>2, <3>3
  <2> QED BY <2>1, <2>2, <2>3, <2>4
<1>7. DerHolds(in, pairs, strict, lax)
  <2> SUFFICES /\ strict.ok = (pairs # {})
               /\ \A cs \in pairs :
                     /\ strict.value = << Number(cs[1]), Number(cs[2]) >>
                     /\ Ok(lax)
                     /\ InRange(cs[1]) /\ InRange(cs[2]) => /\ lax = strict
                                                            /\ SerializeDer(strict.value) = in
                                                            /\ Len(in) <= MaxLen
               /\ Ok(lax) => (\A i \in 1 .. 2 : lax.value[i] < Order) /\ SignatureHolds(lax.value)
      BY DEF DerHolds, Ok
  <2> QED BY <1>4, <1>5, <1>6
<1> QED BY <1>7 DEF pairs, strict, lax

----------------------------------------------------------------------------
(* The edited inputs and the typed strings among the codings.              *)
DerCodings == \E der \in Data : /\ coding = [der |-> der] /\ codingSteps \in 0 .. MaxEdits + 1
                                /\ Len(der) + MaxEdits + 1 < Base + codingSteps
HexCodings == \E hex \in Seq(Nat), target \in Nat : coding = [hex |-> hex, target |-> target]

LEMMA DersOnly == \A der : [der |-> der].der = der /\ DOMAIN [der |-> der] = {"der"}
  OBVIOUS

LEMMA HexesOnly == \A hex, target : LET c == [hex |-> hex, target |-> target]
                                    IN  c.hex = hex /\ c.target = target /\ DOMAIN c = {"hex", "target"}
  OBVIOUS

LEMMA DerInit == ASSUME CodingInit, Kind("der") PROVE DerCodings
<1>1. PICK seed \in DerSeeds : coding = [der |-> seed]
  <2>1. \A it, rest : "der" \notin DOMAIN [iter |-> it, rest |-> rest]
      OBVIOUS
  <2>2. \A h : "der" \notin DOMAIN [sort |-> h]
      OBVIOUS
  <2>3. \A hex, n : "der" \notin DOMAIN [hex |-> hex, target |-> n]
      OBVIOUS
  <2> QED BY <2>1, <2>2, <2>3 DEF CodingInit, Kind
<1>2. seed \in Data /\ Len(seed) + MaxEdits + 1 < Base /\ MaxEdits \in Nat
    BY SeedsAssumption DEF Data
<1>3. codingSteps = 0
    BY DEF CodingInit
<1> QED BY <1>1, <1>2, <1>3, BaseTyped, DataTyped DEF DerCodings

LEMMA HexInit == ASSUME CodingInit, Kind("hex") PROVE HexCodings
<1>1. PICK n \in 0 .. 2 : coding = [hex |-> << >>, target |-> n]
  <2>1. \A it, rest : "hex" \notin DOMAIN [iter |-> it, rest |-> rest]
      OBVIOUS
  <2>2. \A h : "hex" \notin DOMAIN [sort |-> h]
      OBVIOUS
  <2>3. \A der : "hex" \notin DOMAIN [der |-> der]
      OBVIOUS
  <2> QED BY <2>1, <2>2, <2>3 DEF CodingInit, Kind
<1> DEFINE none == << >>
<1>2. none \in Seq(Nat) /\ n \in Nat /\ coding = [hex |-> none, target |-> n]
    BY <1>1
<1> HIDE DEF none
<1> QED BY <1>2 DEF HexCodings

(* An edit makes a string of bytes that is longer by one at most.          *)
LEMMA Edited ==
    ASSUME NEW der \in Data, NEW i \in 1 .. Len(der) + 1, NEW b \in EditBytes, NEW take \in {0, 1}, NEW put \in {0, 1},
           i + take <= Len(der) + 1
    PROVE  LET x == SubSeq(der, 1, i - 1) \o [j \in 1 .. put |-> b] \o SubSeq(der, i + take, Len(der))
           IN  x \in Data /\ Len(x) <= Len(der) + 1
<1> DEFINE n == Len(der)
           a == SubSeq(der, 1, i - 1)
           m == [j \in 1 .. put |-> b]
           z == From(der, i + take)
<1>1. n \in Nat /\ i \in Nat /\ i - 1 \in Nat /\ take \in Nat /\ put \in Nat /\ i - 1 <= n
    BY DataTyped
<1>2. a \in Data /\ Len(a) = i - 1
  <2> DEFINE k == i - 1
             low == 0
  <2>1. low \in Nat /\ k \in Nat /\ low <= k /\ k <= Len(der) /\ k - low = k
      BY <1>1
  <2>2. a = SubSeq(der, low + 1, k)
      OBVIOUS
  <2> HIDE DEF low, k, a
  <2>3. SubSeq(der, low + 1, k) \in Data /\ Len(SubSeq(der, low + 1, k)) = k - low
      BY <2>1, DataPart
  <2> QED BY <2>1, <2>2, <2>3 DEF k
<1>3. m \in Data /\ Len(m) = put
  <2>1. b \in Bytes
      BY SizesAssumption
  <2> HIDE DEF Bytes
  <2>2. m \in [1 .. put -> Bytes]
      BY <2>1
  <2> QED BY <1>1, <2>2 DEF Data
<1>4. z \in Data /\ Len(z) = n - (i + take) + 1
  <2> DEFINE q == i + take
  <2>1. q \in 1 .. Len(der) + 1
      BY <1>1
  <2> HIDE DEF q
  <2>2. From(der, q) \in Data /\ Len(From(der, q)) = Len(der) - q + 1
      BY <2>1, FromTyped
  <2> QED BY <2>2 DEF q
<1> HIDE DEF a, m, z
<1>5. a \o m \in Data /\ Len(a \o m) = Len(a) + Len(m)
    BY <1>2, <1>3, DataJoined
<1> DEFINE am == a \o m
<1>6. am \in Data /\ Len(am) = Len(a) + Len(m)
    BY <1>5
<1> HIDE DEF am
<1>7. am \o z \in Data /\ Len(am \o z) = Len(am) + Len(z)
    BY <1>4, <1>6, DataJoined
<1>8. Len(am) + Len(z) <= n + 1
    BY <1>1, <1>2, <1>3, <1>4, <1>6
<1> QED BY <1>7, <1>8 DEF am, a, m, z, From

LEMMA DerKeeps == ASSUME Kind("der") => DerCodings, [CodingNext]_codingVars, Kind("der")' PROVE DerCodings'
<1>1. ASSUME Edit PROVE DerCodings'
  <2>1. PICK der \in Data : /\ coding = [der |-> der] /\ codingSteps \in 0 .. MaxEdits + 1
                            /\ Len(der) + MaxEdits + 1 < Base + codingSteps
      BY <1>1 DEF Edit, DerCodings
  <2>2. coding.der = der
      BY <2>1, DersOnly
  <2>3. /\ codingSteps' = codingSteps + 1
        /\ codingSteps < IF Len(der) <= MaxLen + 1 THEN MaxEdits ELSE 1
      BY <1>1, <2>2 DEF Edit
  <2>4. PICK i \in 1 .. Len(der) + 1 : \E b \in EditBytes, take \in {0, 1}, put \in {0, 1} :
              /\ i + take <= Len(der) + 1
              /\ coding' = [der |-> SubSeq(der, 1, i - 1) \o [j \in 1 .. put |-> b] \o SubSeq(der, i + take, Len(der))]
      BY <1>1, <2>2, ZenonT(40) DEF Edit
  <2>5. PICK x \in Data : Len(x) <= Len(der) + 1 /\ coding' = [der |-> x]
      BY <2>4, Edited
  <2>6. MaxEdits \in Nat /\ Base \in Nat /\ Len(der) \in Nat /\ Len(x) \in Nat
      BY SeedsAssumption, BaseTyped, DataTyped
  <2>7. codingSteps' \in 0 .. MaxEdits + 1
    <3>1. codingSteps < MaxEdits \/ codingSteps < 1
        BY <2>3
    <3> QED BY <2>1, <2>3, <2>6, <3>1
  <2>8. Len(x) + MaxEdits + 1 < Base + codingSteps'
      BY <2>1, <2>3, <2>5, <2>6
  <2> QED BY <2>5, <2>7, <2>8 DEF DerCodings
<1>2. ASSUME TypeHex PROVE FALSE
  <2>1. Kind("hex") /\ DOMAIN coding' = DOMAIN coding
      BY <1>2 DEF TypeHex
  <2>2. Kind("der") /\ Kind("hex")
      BY <2>1 DEF Kind
  <2>3. DerCodings
      BY <2>2
  <2> QED BY <2>2, <2>3, DersOnly DEF DerCodings, Kind
<1>3. ASSUME SortStep PROVE FALSE
  <2>1. \E h : coding' = [sort |-> h]
      BY <1>3 DEF SortStep
  <2> QED BY <2>1 DEF Kind
<1>4. ASSUME Iterate PROVE FALSE
  <2>1. \E it, rest : coding' = [iter |-> it, rest |-> rest]
      BY <1>4 DEF Iterate, Took
  <2>2. \A it, rest : "der" \notin DOMAIN [iter |-> it, rest |-> rest]
      OBVIOUS
  <2> QED BY <2>1, <2>2 DEF Kind
<1>5. ASSUME UNCHANGED codingVars PROVE DerCodings'
    BY <1>5 DEF codingVars, Kind, DerCodings
<1> QED BY <1>1, <1>2, <1>3, <1>4, <1>5 DEF CodingNext

LEMMA HexKeeps == ASSUME Kind("hex") => HexCodings, [CodingNext]_codingVars, Kind("hex")' PROVE HexCodings'
<1>1. ASSUME Edit PROVE FALSE
  <2>1. \E x : coding' = [der |-> x]
      BY <1>1 DEF Edit
  <2> QED BY <2>1, DersOnly DEF Kind
<1>2. ASSUME TypeHex PROVE HexCodings'
  <2>1. PICK hex \in Seq(Nat), target \in Nat : coding = [hex |-> hex, target |-> target]
      BY <1>2 DEF TypeHex, HexCodings
  <2>2. PICK c \in HexChars : coding' = [coding EXCEPT !.hex = Append(@, c)]
      BY <1>2 DEF TypeHex
  <2>3. c \in Nat
      BY SeedsAssumption
  <2> DEFINE longer == Append(hex, c)
  <2>4. longer \in Seq(Nat)
      BY <2>3
  <2>5. coding' = [hex |-> longer, target |-> target]
      BY <2>1, <2>2
  <2> HIDE DEF longer
  <2> QED BY <2>4, <2>5 DEF HexCodings
<1>3. ASSUME SortStep PROVE FALSE
  <2>1. \E h : coding' = [sort |-> h]
      BY <1>3 DEF SortStep
  <2> QED BY <2>1 DEF Kind
<1>4. ASSUME Iterate PROVE FALSE
  <2>1. \E it, rest : coding' = [iter |-> it, rest |-> rest]
      BY <1>4 DEF Iterate, Took
  <2>2. \A it, rest : "hex" \notin DOMAIN [iter |-> it, rest |-> rest]
      OBVIOUS
  <2> QED BY <2>1, <2>2 DEF Kind
<1>5. ASSUME UNCHANGED codingVars PROVE HexCodings'
    BY <1>5 DEF codingVars, Kind, HexCodings
<1> QED BY <1>1, <1>2, <1>3, <1>4, <1>5 DEF CodingNext

LEMMA DersAgree == ASSUME DerCodings PROVE DerAgrees
<1>1. PICK der \in Data : /\ coding = [der |-> der] /\ codingSteps \in 0 .. MaxEdits + 1
                          /\ Len(der) + MaxEdits + 1 < Base + codingSteps
    BY DEF DerCodings
<1>2. coding.der = der
    BY <1>1, DersOnly
<1>3. Len(der) < Base
    BY <1>1, SeedsAssumption, BaseTyped, DataTyped
<1>4. DerHolds(der, DerPairs(der), ParseDer(der), ParseDerLax(der))
    BY <1>3, DerHeld
<1>5. TextHolds(der)
    BY TextHeld
<1> QED BY <1>2, <1>4, <1>5 DEF DerAgrees

LEMMA HexesAgree == ASSUME HexCodings PROVE HexAgrees
<1>1. PICK hex \in Seq(Nat), target \in Nat : coding = [hex |-> hex, target |-> target]
    BY DEF HexCodings
<1>2. coding.hex = hex /\ coding.target = target
    BY <1>1, HexesOnly
<1>3. HexHolds(hex, target)
    BY HexHeld
<1> QED BY <1>2, <1>3, Zenon DEF HexHolds, HexAgrees, LowerOf

(* The strict parser accepts the encodings of pairs of integers only, the  *)
(* lax one reads them alike, serializations and text are read back, and    *)
(* iterators and the sort of keys agree with slices and sorted arrays, for *)
(* every base and order and inputs of fewer bytes than the base            *)
(* (ecdsa_impl.h:58, lax_der_parsing.c:13, lib.rs:454,                     *)
(* serialized_signature.rs:216, hsort_impl.h:34).                          *)
THEOREM CodingsAlwaysAgree == CodingSpec => []CodingsAgree
<1>1. CodingInit => (Kind("der") => DerCodings) /\ (Kind("hex") => HexCodings)
    BY DerInit, HexInit
<1>2. (Kind("der") => DerCodings) /\ [CodingNext]_codingVars => (Kind("der") => DerCodings)'
    BY DerKeeps
<1>3. (Kind("hex") => HexCodings) /\ [CodingNext]_codingVars => (Kind("hex") => HexCodings)'
    BY HexKeeps
<1>4. (Kind("der") => DerCodings) => DerAgrees
    BY DersAgree DEF DerAgrees
<1>5. (Kind("hex") => HexCodings) => HexAgrees
    BY HexesAgree DEF HexAgrees
<1>6. CodingSpec => []DerAgrees
    BY <1>1, <1>2, <1>4, PTL DEF CodingSpec
<1>7. CodingSpec => []HexAgrees
    BY <1>1, <1>3, <1>5, PTL DEF CodingSpec
<1>8. DerAgrees /\ HexAgrees /\ IteratorAgrees /\ SortAgrees => CodingsAgree
    BY DEF CodingsAgree
<1> QED BY <1>6, <1>7, <1>8, IteratorAlwaysAgrees, SortAlwaysAgrees, PTL
=============================================================================
