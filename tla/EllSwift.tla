------------------------------ MODULE EllSwift ------------------------------
(***************************************************************************)
(* ElligatorSwift of modules/ellswift/main_impl.h: points written as pairs *)
(* (u, t) of arbitrary field elements, and the key exchange on them.       *)
(***************************************************************************)
EXTENDS EcmultConst

CONSTANT C1                     \* (sqrt(-3) - 1) / 2

EllC1 == FeSetInt(C1)
EllC2 == FeSetInt(P - 1 - C1)
EllC3 == FeSetInt(P - C1)
EllC4 == FeSetInt(C1 + 1)

(* An x coordinate of the curve as a fraction, whatever u and t are.       *)
XSwiftEcFrac(u, t) ==
    LET u1 == IF FeNormalizesToZero(u) THEN FeOne ELSE u
        s0 == IF FeNormalizesToZero(t) THEN FeOne ELSE FeSqr(t)
        g  == FeAddInt(FeMul(FeSqr(u1), u1), B)
        s  == IF FeNormalizesToZero(FeAdd(g, s0)) THEN FeMulInt(s0, 4) ELSE s0
        p  == FeAdd(g, s)
        d3 == FeMulInt(FeMul(s, FeSqr(u1)), 3)
        n3 == FeAdd(FeMul(d3, u1), FeNegate(FeSqr(p), 1))
        n2 == FeMul(FeAdd(FeMul(EllC2, g), FeMul(EllC1, s)), u1)
    IN  IF XFracOnCurve(n3, d3) THEN [n |-> n3, d |-> d3]
        ELSE IF XFracOnCurve(n2, p) THEN [n |-> n2, d |-> p]
        ELSE [n |-> FeNegate(FeAdd(n2, FeMul(p, u1)), 2), d |-> p]

Quotient(x) == FeMul(x.n, FeInv(x.d))
XSwiftEc(u, t) == Quotient(XSwiftEcFrac(u, t))

SwiftEc(u, t) == SetXo(XSwiftEc(u, t), FeIsOdd(t)).ge

(* Decoding takes x1 before x2, of which -u-x may be the one.              *)
FirstFailsUnless(m, square) == ~ FeIsSquare(square)
FirstFails(m, square) == XOnCurve(m) \/ ~ FeIsSquare(square)

(* One of at most eight t such that (u, t) stands for x.                   *)
Found(ok, t) == [ok |-> ok, t |-> t]
XSwiftEcInv(xIn, uIn, c) ==
    LET x  == FeNormalizeWeak(xIn)
        u  == FeNormalizeWeak(uIn)
        low == c % 2 = 1
        g  == FeMul(FeSqr(u), u)
        (* c = 0, 1, 4, 5: an inverse under the formula of x1 or x2 *)
        m1 == FeNegate(FeAdd(x, u), 2)
        s1 == FeAdd(FeNegate(FeSqr(m1), 1), FeMul(u, x))
        g1 == FeAddInt(g, B)
        fails1 == FirstFails(m1, FeMul(s1, g1))
        (* c = 2, 3, 6, 7: an inverse under that of x3 *)
        m3 == FeNegate(u, 1)
        s3 == FeAdd(m3, x)
        q  == FeNegate(FeMul(FeAdd(FeMulInt(FeMul(s3, FeSqr(u)), 3), FeAddInt(FeMulInt(g, 4), 4 * B)), s3), 1)
        r  == FeSqrt(q).r
        fails3 == \/ ~ FeIsSquare(s3)
                  \/ ~ FeIsSquare(q)
                  \/ low /\ FeNormalizesToZero(r)
                  \/ FeNormalizesToZero(s3)
        third == (c \div 2) % 2 = 1
        v  == IF third THEN FeHalf(FeAdd(FeMul(FeInv(s3), r), m3)) ELSE x
        w  == FeSqrt(IF third THEN s3 ELSE FeMul(FeInv(s1), g1)).r
        m  == IF low = (c \div 4 = 1) THEN FeNegate(w, 1) ELSE w
    IN  IF (IF third THEN fails3 ELSE fails1) THEN Found(FALSE, FeSetInt(0))
        ELSE Found(TRUE, FeMul(m, FeAdd(FeMul(u, IF low THEN EllC4 ELSE EllC3), v)))

(* The attempt to encode p with the u and the branch c that the hash gives. *)
WithParityOf(p, ok, t) ==
    Found(ok, IF FeIsOdd(t) = FeIsOdd(p.y) THEN t ELSE FeNormalize(FeNegate(t, 1)))
AttemptOf(p, inv) == WithParityOf(p, inv.ok, FeNormalize(inv.t))
ElligatorSwift(p, u, c) == AttemptOf(p, XSwiftEcInv(p.x, u, c))

(* The encodings of p that a hash, which gives u and c, may lead to; those *)
(* of the public key of sk, unless the generator's context is not built,   *)
(* when the illegal callback ends the program; and what one stands for.    *)
EllSwiftEncode(p, us) ==
    LET attempts == {<<u, ElligatorSwift(p, FeSetInt(u), c)>> : u \in us, c \in 0 .. 7}
    IN  {[u |-> a[1], t |-> a[2].t.v] : a \in {a \in attempts : a[2].ok}}
EllSwiftCreate(ctx, sk, us) ==
    IF ctx.built THEN EllSwiftEncode(Normal(GeSetGej(EcmultGen(ctx, sk))), us) ELSE {}
EllSwiftDecode(e) == SwiftEc(FeSetInt(e.u), FeSetInt(e.t))

(* Both parties are given both encodings; the coordinate that they hash.   *)
XOfProduct(x, q) == FeNormalize(EcmultConstXOnly(x.n, x.d, IF q = 0 THEN 1 ELSE q))
EllSwiftXdh(a, b, sk, party) ==
    LET theirs == IF party # 0 THEN a ELSE b
    IN  XOfProduct(XSwiftEcFrac(FeSetInt(theirs.u), FeSetInt(theirs.t)), sk % N)

----------------------------------------------------------------------------
(* src/ellswift.rs.  ElligatorSwift::new passes the static context, so     *)
(* that no encoding ever comes out of it.                                  *)
ContextOfNew == StaticGen
FromSeckey(ctx, sk, us) == EllSwiftCreate(ctx, sk, us)

ToFfiInt(party) == IF party = "Initiator" THEN 0 ELSE 1

XdhHashBip324(x, a, b) == << "bip324", a, b, x >>
SharedSecret(a, b, sk, party) == XdhHashBip324(EllSwiftXdh(a, b, sk, ToFfiInt(party)), a, b)

(* A hasher of the caller that returns the coordinate.                     *)
HashCallback(x, a, b) == x
SharedSecretWithHasher(a, b, sk, party) == HashCallback(EllSwiftXdh(a, b, sk, ToFfiInt(party)), a, b)
=============================================================================
