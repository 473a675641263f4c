------------------------------- MODULE Group -------------------------------
(***************************************************************************)
(* The curve y^2 = x^3 + B of group_impl.h: points in affine (ge) and in   *)
(* Jacobian coordinates (gej: x = X/Z^2, y = Y/Z^3), over elements that    *)
(* carry their magnitudes.                                                 *)
(***************************************************************************)
EXTENDS Field, Sequences

CONSTANTS B, Beta      \* the curve, and a cube root of one

Ge(x, y) == [x |-> x, y |-> y, inf |-> FALSE]
Gej(x, y, z, inf) == [x |-> x, y |-> y, z |-> z, inf |-> inf]
FeOne == FeSetInt(1)
GeInfinity == [Ge(FeSetInt(0), FeSetInt(0)) EXCEPT !.inf = TRUE]
GejInfinity == Gej(FeSetInt(0), FeSetInt(0), FeSetInt(0), TRUE)

(* The magnitudes of group.h.                                              *)
GejXMax == 4
GejYMax == 4
GejZMax == 1
GeXMax == 4
GeYMax == 3

GeVerify(a) == a.x.m <= GeXMax /\ a.y.m <= GeYMax
GejVerify(a) == a.x.m <= GejXMax /\ a.y.m <= GejYMax /\ a.z.m <= GejZMax

SetGe(a) == Gej(a.x, a.y, FeOne, a.inf)

(* The affine point (x, y, 1/zi): ge_set_gej_zinv and ge_set_ge_zinv.      *)
SetZinv(a, zi) == LET zi2 == FeSqr(zi)
                  IN  Ge(FeMul(a.x, zi2), FeMul(a.y, FeMul(zi2, zi)))

GeSetGej(a) == [SetZinv(a, FeInv(a.z)) EXCEPT !.inf = a.inf]
GeSetGejVar(a) == IF a.inf THEN GeInfinity ELSE SetZinv(a, FeInv(a.z))

GeNeg(a) == [a EXCEPT !.y = FeNegate(FeNormalizeWeak(@), 1)]
GejNegLoose(a) == [a EXCEPT !.y = FeNegate(@, 1)]
GejNeg(a) == [a EXCEPT !.y = FeNegate(FeNormalizeWeak(@), 1)]

GejRescale(a, s) == LET zz == FeSqr(s)
                    IN  Gej(FeMul(a.x, zz), FeMul(FeMul(a.y, zz), s), FeMul(a.z, s), a.inf)

GeMulLambda(a) == [a EXCEPT !.x = FeMul(@, FeSetInt(Beta))]

----------------------------------------------------------------------------
(* The third point on the tangent with slope l, or on a chord.             *)
DoubleFrom(a, s, l, t) ==
    LET x3 == FeAdd(FeAdd(FeSqr(l), t), t)
    IN  Gej(x3, FeNegate(FeAdd(FeMul(FeAdd(t, x3), l), FeSqr(s)), 2), FeMul(a.z, a.y), a.inf)

GejDouble(a) ==
    LET s == FeSqr(a.y)
    IN  DoubleFrom(a, s, FeHalf(FeMulInt(FeSqr(a.x), 3)), FeMul(FeNegate(s, 1), a.x))

(* With rzr, the ratio of the new z coordinate to the old.                 *)
WithRatio(r, rzr) == [r |-> r, rzr |-> rzr]

GejDoubleVar(a) == IF a.inf THEN WithRatio(GejInfinity, FeOne)
                   ELSE WithRatio(GejDouble(a), FeNormalizeWeak(a.y))

ChordSum(z, i, t, h3, s1) ==
    LET x3 == FeAdd(FeAdd(FeAdd(FeSqr(i), h3), t), t)
    IN  Gej(x3, FeAdd(FeMul(FeAdd(t, x3), i), FeMul(h3, s1)), z, FALSE)

(* What the three additions of variable time have in common: u1 and s1 are *)
(* the coordinates of a and s2 the other y, all brought to the same z, h   *)
(* is u2 - u1 and ratio that of the z coordinates.                         *)
AddOrDouble(a, h, ratio, u1, s1, i) ==
    LET h2 == FeNegate(FeSqr(h), 1)
    IN  IF ~ FeNormalizesToZero(h)
        THEN WithRatio(ChordSum(FeMul(a.z, ratio), i, FeMul(u1, h2), FeMul(h2, h), s1), ratio)
        ELSE IF FeNormalizesToZero(i) THEN GejDoubleVar(a)
        ELSE WithRatio(GejInfinity, FeSetInt(0))
AddVarTail(a, h, ratio, u1, s1, s2) == AddOrDouble(a, h, ratio, u1, s1, FeAdd(FeNegate(s2, 1), s1))

GejAddVar(a, b) ==
    LET z22 == FeSqr(b.z)
        z12 == FeSqr(a.z)
        u1  == FeMul(a.x, z22)
        h   == FeAdd(FeNegate(u1, 1), FeMul(b.x, z12))
    IN  IF a.inf THEN WithRatio(b, FeOne)      \* the ratio must not be asked for
        ELSE IF b.inf THEN WithRatio(a, FeOne)
        ELSE AddVarTail(a, h, FeMul(h, b.z), u1,
                        FeMul(FeMul(a.y, z22), b.z), FeMul(FeMul(b.y, z12), a.z))

GejAddGeVar(a, b) ==
    LET z12 == FeSqr(a.z)
        h   == FeAdd(FeNegate(a.x, GejXMax), FeMul(b.x, z12))
    IN  IF a.inf THEN WithRatio(SetGe(b), FeOne)
        ELSE IF b.inf THEN WithRatio(a, FeOne)
        ELSE AddVarTail(a, h, h, a.x, a.y, FeMul(FeMul(b.y, z12), a.z))

(* b has the z coordinate 1/bzinv, and a is multiplied by bzinv instead.   *)
GejAddZinvVar(a, b, bzinv) ==
    LET az  == FeMul(a.z, bzinv)
        z12 == FeSqr(az)
        h   == FeAdd(FeNegate(a.x, GejXMax), FeMul(b.x, z12))
    IN  IF a.inf THEN [SetGe(SetZinv(b, bzinv)) EXCEPT !.inf = b.inf]
        ELSE IF b.inf THEN a
        ELSE AddVarTail(a, h, h, a.x, a.y, FeMul(FeMul(b.y, z12), az)).r

(* y1 = -y2: the slope of the chord is a fraction with denominator zero.   *)
NeverDegenerate(m) == FALSE
Degenerate(m) == FeNormalizesToZero(m)

(* The addition of constant time, by one formula for sums and doubles, and *)
(* another slope, moved in place, if y1 = -y2 although x1 # x2.            *)
UnifiedSum(a, b, t, m, rr, mAlt) ==
    LET q  == FeMul(FeNegate(t, GejXMax + 1), FeSqr(mAlt))
        n  == FeCmov(FeSqr(FeSqr(mAlt)), m, Degenerate(m))
        x3 == FeAdd(FeSqr(rr), q)
        y3 == FeAdd(FeMul(FeAdd(FeMulInt(x3, 2), q), rr), n)
        z3 == FeCmov(FeMul(a.z, mAlt), FeOne, a.inf)
    IN  Gej(FeCmov(x3, b.x, a.inf), FeCmov(FeHalf(FeNegate(y3, GejYMax + 2)), b.y, a.inf),
            z3, FeNormalizesToZero(z3))

UnifiedSlope(a, b, t, m, nu2) ==
    UnifiedSum(a, b, t, m, FeCmov(FeMulInt(a.y, 2), FeAdd(FeSqr(t), FeMul(a.x, nu2)), ~ Degenerate(m)),
               FeCmov(FeAdd(nu2, a.x), m, ~ Degenerate(m)))

GejAddGe(a, b) ==
    LET zz == FeSqr(a.z)
        u2 == FeMul(b.x, zz)
    IN  UnifiedSlope(a, b, FeAdd(a.x, u2), FeAdd(a.y, FeMul(FeMul(b.y, zz), a.z)), FeNegate(u2, 1))

----------------------------------------------------------------------------
(* Tests.                                                                  *)
GejEqVar(a, b) == GejAddVar(GejNeg(a), b).r.inf
GejEqGeVar(a, b) == GejAddGeVar(GejNeg(a), b).r.inf
GeEqVar(a, b) == IF a.inf \/ b.inf THEN a.inf = b.inf
                 ELSE /\ FeEqual(FeNormalizeWeak(a.x), b.x)
                      /\ FeEqual(FeNormalizeWeak(a.y), b.y)
GejEqXVarAffine(x, a) == FeEqual(FeMul(a.z, x), a.x)
GejEqXVar(x, a) == FeEqual(FeMul(FeSqr(a.z), x), a.x)

CurveRhs(x) == FeAddInt(FeMul(FeSqr(x), x), B)
GeIsValidVar(a) == ~ a.inf /\ FeEqual(FeSqr(a.y), CurveRhs(a.x))
XOnCurve(x) == FeIsSquare(CurveRhs(x))
XFracOnCurve(xn, xd) ==
    FeIsSquare(FeAdd(FeMul(FeMul(xd, xn), FeSqr(xn)), FeMulInt(FeSqr(FeSqr(xd)), B)))

(* The point with x coordinate x whose y coordinate is odd or not.         *)
SetXo(x, odd) ==
    LET root == FeSqrt(CurveRhs(x))
        y    == FeNormalize(root.r)
    IN  [ge |-> Ge(x, IF FeIsOdd(y) = odd THEN y ELSE FeNegate(y, 1)), ok |-> root.ok]

----------------------------------------------------------------------------
(* Sequences of points.                                                    *)

(* All points made affine with a single inversion: the products of the z   *)
(* coordinates are taken up to each point, the last is inverted, and going *)
(* back the inverses of the single ones are split off.                     *)
SetAllGejVar(a) ==
    LET finite == SelectSeq([i \in 1 .. Len(a) |-> i], LAMBDA i : ~ a[i].inf)
        n == Len(finite)
        z(k) == a[finite[k]].z
        prod[k \in 1 .. n] == IF k = 1 THEN z(k) ELSE FeMul(prod[k - 1], z(k))
        rest[k \in 1 .. n] ==      \* the inverse of prod[k]
            IF k = n THEN FeInv(prod[n]) ELSE FeMul(rest[k + 1], z(k + 1))
        zinv(k) == IF k = 1 THEN rest[k] ELSE FeMul(prod[k - 1], rest[k])
    IN  [i \in 1 .. Len(a) |->
            IF a[i].inf THEN GeInfinity
            ELSE SetZinv(a[i], zinv(CHOOSE k \in 1 .. n : finite[k] = i))]

(* The points of a table, whose z coordinates are left out, brought to the *)
(* z coordinate of the last: zr[i] is the ratio of that of i to i-1.       *)
TableSetGlobalZ(a, zr) ==
    LET n == Len(a)
        zs[i \in 1 .. n - 1] == IF i = n - 1 THEN zr[n] ELSE FeMul(zs[i + 1], zr[i + 1])
    IN  [i \in 1 .. n |-> IF i = n THEN [a[n] EXCEPT !.y = FeNormalizeWeak(@)]
                          ELSE SetZinv(a[i], zs[i])]
=============================================================================
