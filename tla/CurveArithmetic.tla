-------------------------- MODULE CurveArithmetic --------------------------
(***************************************************************************)
(* A point of the curve that is put through the operations of the C        *)
(* library, one after another, with whatever coordinates and magnitudes    *)
(* they leave behind; and the context of the multiplication by the         *)
(* generator, blinded again and again.                                     *)
(*                                                                         *)
(* log is the discrete logarithm that the point should have: what every    *)
(* operation promises is an operation on log.  Multiple(log), computed by  *)
(* the chord and tangent rules on plain numbers, is what point is compared *)
(* with.                                                                   *)
(***************************************************************************)
EXTENDS EllSwift

CONSTANTS Logs,          \* the logarithms of the points that it starts from
          Zs,            \* the z coordinates of points, and other factors
          Scalars,       \* the factors of the multiplications
          Seeds,         \* <<f, b>>: what the hash makes of a seed
          Us,            \* the u of ElligatorSwift encodings
          MaxSteps

VARIABLES point, log, gen, enc, steps
vars == <<point, log, gen, enc, steps>>

----------------------------------------------------------------------------
(* The group on plain numbers.                                             *)
Nowhere == [x |-> 0, y |-> 0, inf |-> TRUE]
At(x, y) == [x |-> x % P, y |-> y % P, inf |-> FALSE]
Chord(p, q, slope) ==
    LET x == slope * slope - p.x - q.x IN At(x, slope * ((p.x - x) % P) - p.y)
Plus(p, q) ==
    IF p.inf THEN q ELSE IF q.inf THEN p
    ELSE IF p.x # q.x THEN Chord(p, q, (((q.y - p.y) % P) * Power((q.x - p.x) % P, P - 2)) % P)
    ELSE IF (p.y + q.y) % P = 0 THEN Nowhere
    ELSE Chord(p, q, (((3 * p.x * p.x) % P) * Power((2 * p.y) % P, P - 2)) % P)

(* The first 2^j multiples of the generator, and all of them.              *)
Multiples == LET upTo[j \in 0 .. 2 * Half] ==
                     IF j = 0 THEN << Nowhere >>
                     ELSE LET m == upTo[j - 1]
                              next == Plus(m[Len(m)], At(GX, GY))
                          IN  m \o [i \in 1 .. Len(m) |-> Plus(m[i], next)]
             IN  upTo[2 * Half]
Multiple(k) == Multiples[(k % N) + 1]

(* The logarithm of the point with the same x coordinate and an even y.    *)
EvenLog(k) == IF Multiple(k).y % 2 = 0 THEN k ELSE ScalarNegate(k)

(* The coordinates of a point, computed on plain numbers.                  *)
AffineOf(a) == LET zi == Power(a.z.v, P - 2)
               IN  At(a.x.v * ((zi * zi) % P), ((a.y.v * zi) % P) * ((zi * zi) % P))

----------------------------------------------------------------------------
GeOf(k) == LET m == Multiple(k) IN IF m.inf THEN GeInfinity ELSE Ge(FeSetInt(m.x), FeSetInt(m.y))
GejOf(k, z) == GejRescale(SetGe(GeOf(k)), FeSetInt(z))

(* With the largest magnitudes that a function may leave.                  *)
Loose(a) == [a EXCEPT !.x = Fe(@.v, GejXMax, FALSE), !.y = Fe(@.v, GejYMax, FALSE)]

NoEncoding == [u |-> 0, t |-> 0]

Init == /\ \E k \in Logs, z \in Zs : log = k /\ point \in {GejOf(k, z), Loose(GejOf(k, z))}
        /\ gen = GenBlindReset
        /\ enc = NoEncoding
        /\ steps = 0

Becomes(p, k) == /\ steps < MaxSteps
                 /\ point' = p
                 /\ log' = k % N
                 /\ steps' = steps + 1
                 /\ enc' = NoEncoding
                 /\ UNCHANGED gen

(* The points added: those for which a formula may fail, and another.      *)
Others == {0, 1, log, ScalarNegate(log), (log * Lambda) % N, ScalarNegate((log * Lambda) % N)}

Double == Becomes(GejDouble(point), 2 * log)
DoubleVar == Becomes(GejDoubleVar(point).r, 2 * log)
AddVar == \E k \in Others, z \in Zs : Becomes(GejAddVar(point, Loose(GejOf(k, z))).r, log + k)
AddGeVar == \E k \in Others : Becomes(GejAddGeVar(point, GeNeg(GeNeg(GeOf(k)))).r, log + k)
AddZinvVar == \E k \in Others, z \in Zs :
    LET j == GejOf(k, z)
    IN  Becomes(GejAddZinvVar(point, [Ge(j.x, j.y) EXCEPT !.inf = j.inf],
                              FeInv(FeSetInt(z))), log + k)
AddGe == \E k \in Others \ {0} : Becomes(GejAddGe(point, GeNeg(GeNeg(GeOf(k)))), log + k)
Negate == Becomes(GejNeg(point), ScalarNegate(log))
Rescale == \E z \in Zs : Becomes(GejRescale(point, FeSetInt(z)), log)
MakeAffine == \/ Becomes(SetGe(GeSetGejVar(point)), log)
              \/ log # 0 /\ Becomes(SetGe(GeMulLambda(GeSetGej(point))), Lambda * log)
Batch == \E k \in Others, z \in Zs, i \in {2, 3} :
    LET a == << GejOf(1, z), point, GejOf(k, z), GejInfinity >>
    IN  Becomes(SetGe(SetAllGejVar(a)[i]), << 1, log, k, 0 >>[i])

(* Multiplications of the points that it starts from.                      *)
AtStart == steps = 0
Mult == AtStart /\ \E na, ng \in Scalars : Becomes(EcmultVar(point, na, ng), na * log + ng)
MultConst == AtStart /\ \E q \in Scalars : Becomes(EcmultConstMul(GeSetGejVar(point), q), q * log)
MultGen == \E k \in Scalars : Becomes(EcmultGen(gen, k), k)
MultMulti == AtStart /\ \E k \in {0, 1, ScalarNegate(log)}, na, nb \in Scalars, max \in 0 .. 3 :
    Becomes(EcmultMultiVar(max, max \div 2,
                           << GeSetGejVar(point), GeOf(k), GeOf(1), GeOf(2), GeOf(k) >>,
                           << na, nb, 0, 1, na >>, nb),
            na * log + nb * k + 2 + na * k + nb)

(* The context of the generator is blinded.                                *)
Blind == /\ steps < MaxSteps
         /\ \/ gen' = GenBlindReset
            \/ \E s \in Seeds : gen' = GenBlind(gen, s[1], s[2])
         /\ steps' = steps + 1
         /\ UNCHANGED <<point, log, enc>>

(* A public key is encoded; receivers make a point of the encoding, or the *)
(* x coordinate of a product, here lifted to a point.  In the exchange the *)
(* receiver may be either party, and its own encoding does not matter.     *)
Encode == /\ AtStart /\ log # 0
          /\ enc' \in EllSwiftEncode(Normal(GeSetGej(point)), Us)
          /\ steps' = steps + 1
          /\ UNCHANGED <<point, log, gen>>
Decode == /\ enc # NoEncoding
          /\ Becomes(SetGe(EllSwiftDecode(enc)), log)
Exchange == /\ enc # NoEncoding
            /\ \E q \in Scalars \ {0}, party \in {"Initiator", "Responder"} :
                  LET first == party = "Initiator"
                      x == SharedSecretWithHasher(IF first THEN NoEncoding ELSE enc,
                                                  IF first THEN enc ELSE NoEncoding, q, party)
                  IN  Becomes(SetGe(SetXo(x, FALSE).ge), EvenLog(q * log))

(* The operations without loops, of which there are proofs.                *)
GroupNext == \/ Double \/ DoubleVar \/ AddVar \/ AddGeVar \/ AddZinvVar \/ AddGe
             \/ Negate \/ Rescale \/ MakeAffine \/ Encode \/ Decode

Next == \/ GroupNext
        \/ Batch \/ Mult \/ MultConst \/ MultGen \/ MultMulti \/ Blind \/ Exchange

Spec == Init /\ [][Next]_vars
GroupSpec == Init /\ [][GroupNext]_vars

----------------------------------------------------------------------------
(* Properties.                                                             *)

(* Whatever the operations, and with the coordinates and exceptional cases *)
(* they lead to, the point is the multiple of the generator that it should *)
(* be (group_impl.h:422-821, ecmult_impl.h:162-349, ecmult_const_impl.h,   *)
(* ecmult_gen_impl.h:54-282, modules/ellswift/main_impl.h:115-157).        *)
PointIsMultiple == /\ point.inf = (log = 0)
                   /\ ~ point.inf => point.z.v # 0 /\ AffineOf(point) = Multiple(log)

(* No function is given an element whose magnitude exceeds what it admits, *)
(* and all leave their results within the bounds of group.h:49-53: with    *)
(* larger ones the limbs of field_5x52 overflow, though rarely.            *)
MagnitudesFit == /\ GejVerify(point)
                 /\ GeVerify(gen.ge_offset) /\ gen.proj_blind.m <= 1

(* The comparisons find a point equal to itself, in other coordinates, and *)
(* different from others (group_impl.h:340-420); and of any scalar the     *)
(* halves are as short as the multiplications need (scalar_impl.h:289).    *)
TestsDecide ==
    /\ LET split == SplitLambda(log) IN SplitLambdaVerify(log, split.r1, split.r2)
    /\ \E affine \in {GeSetGejVar(point)} :
        /\ log # 0 => GeIsValidVar(affine) /\ XOnCurve(affine.x)
        /\ \A k \in Others : \E a \in {GeOf(k)} :
               /\ \A z \in Zs : GejEqVar(point, Loose(GejOf(k, z))) = (k = log)
               /\ GejEqGeVar(point, a) = (k = log)
               /\ GeEqVar(affine, a) = (k = log)
               /\ log # 0 /\ k # 0 => GejEqXVar(a.x, point) = (k \in {log, ScalarNegate(log)})

(* "Given (x, u), all t values that map back to x can be reached by        *)
(* combining the successful results from this function over all c values", *)
(* apart from t = 0 and u^3 + t^2 + B = 0, and "no two distinct c values   *)
(* give the same successful result" (ellswift/main_impl.h:165-172).        *)
EncodingsComplete ==
    enc # NoEncoding =>
        LET u == FeSetInt(enc.u)
            x == GeOf(log).x
        IN  \E inv \in {<< >> \o [c \in 1 .. 8 |-> XSwiftEcInv(x, u, c - 1)]} :
                LET found == {c \in 1 .. 8 : inv[c].ok}
                IN  /\ {inv[c].t.v : c \in found} =
                           {t \in 1 .. P - 1 : /\ (((enc.u * enc.u) % P) * enc.u + t * t + B) % P # 0
                                               /\ XSwiftEc(u, FeSetInt(t)).v = x.v}
                    /\ \A c, d \in found : inv[c].t.v = inv[d].t.v => c = d

(* One of the encodings that a hash may lead to, if there is any.          *)
Pick(encodings) == {e \in encodings : e = CHOOSE other \in encodings : TRUE}

(* Two parties with keys of their own, encoded with a context blinded or   *)
(* not, get the same secret of the exchange: the one that initiates it     *)
(* from the encoding of the other, and the other from its encoding         *)
(* (ellswift/main_impl.h:551-590, ellswift.rs:173-229).                    *)
ExchangesAgree ==
    enc # NoEncoding =>
        \A q \in Scalars \ {0}, u \in Us :
            \A own \in Pick(UNION {FromSeckey(ctx, q, {u}) : ctx \in {gen, ContextOfNew}}) :
                \E secret \in {[party \in {"Initiator", "Responder"} |->
                                   SharedSecret(enc, own, IF party = "Initiator" THEN log ELSE q, party)]} :
                    secret["Initiator"] = secret["Responder"]

(* Encodings are found, all of them, and the exchange of two parties who   *)
(* sent each other one ends with one secret.                               *)
EncodingsWork == EncodingsComplete /\ ExchangesAgree
=============================================================================
