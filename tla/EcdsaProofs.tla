---------------------------- MODULE EcdsaProofs ----------------------------
(***************************************************************************)
(* What signatures are worth, for every field, every map of points to x    *)
(* coordinates and every nonce function.                                   *)
(*                                                                         *)
(* A pair r, s fits a point R for a key and a message if s*R is            *)
(* r*sk*G + m*G and r is the x coordinate of R.  Signing makes a pair that *)
(* fits; a pair that fits R verifies, and R is the only point from which   *)
(* the key is recovered.  Negating s negates R.                            *)
(***************************************************************************)
EXTENDS Ecdsa, CurveLemmas

Fits(r, s, sk, m, R) ==
    /\ R \in Points
    /\ Mul(s, R) = Add(Mul(r, sk), m)
    /\ XCoord(R).r = r

(* The inverse undoes a multiplication.                                    *)
LEMMA InvUndoes ==
    \A a \in Points, x \in Scalars :
        /\ Inv(a) \in Points
        /\ Mul(Inv(a), Mul(a, x)) = x
        /\ Mul(a, Mul(Inv(a), x)) = x
<1> TAKE a \in Points, x \in Scalars
<1>1. a \in Scalars /\ Inv(a) \in Points /\ Inv(a) \in Scalars /\ Mul(a, Inv(a)) = One
    BY InverseAssumption DEF Points
<1>2. Mul(Inv(a), a) = One /\ Mul(One, x) = x
    BY <1>1, RingAssumption
<1>3. Mul(Mul(Inv(a), a), x) = Mul(Inv(a), Mul(a, x))
    BY <1>1, RingAssumption
<1>4. Mul(Mul(a, Inv(a)), x) = Mul(a, Mul(Inv(a), x))
    BY <1>1, RingAssumption
<1> QED BY <1>1, <1>2, <1>3, <1>4

LEMMA MulPoints == \A a, b \in Points : Mul(a, b) \in Points
<1> TAKE a, b \in Points
<1>1. a \in Scalars /\ b \in Scalars /\ b # Zero /\ Mul(a, b) \in Scalars
    BY ClosureAssumption DEF Points, Infinity
<1>2. Mul(Inv(a), Mul(a, b)) = b /\ Inv(a) \in Scalars
    BY <1>1, InvUndoes DEF Points
<1>3. Mul(a, b) # Zero
    BY <1>1, <1>2, MulZero
<1> QED BY <1>1, <1>3 DEF Points, Infinity

LEMMA MulCancel == \A a \in Points, x, y \in Scalars : Mul(a, x) = Mul(a, y) => x = y
<1> TAKE a \in Points, x, y \in Scalars
<1>1. Mul(Inv(a), Mul(a, x)) = x /\ Mul(Inv(a), Mul(a, y)) = y
    BY InvUndoes
<1> QED BY <1>1

(* Both sides negated.                                                     *)
LEMMA MulNegNeg == \A a, b \in Scalars : Mul(Neg(a), Neg(b)) = Mul(a, b)
<1> TAKE a, b \in Scalars
<1>1. Neg(a) \in Scalars /\ Neg(b) \in Scalars /\ Mul(a, b) \in Scalars
    BY ClosureAssumption
<1>2. Mul(Neg(a), Neg(b)) = Neg(Mul(Neg(a), b))
    BY <1>1, MulNeg
<1>3. Mul(Neg(a), b) = Mul(b, Neg(a)) /\ Mul(b, a) = Mul(a, b)
    BY <1>1, RingAssumption
<1>4. Mul(b, Neg(a)) = Neg(Mul(b, a))
    BY MulNeg
<1> QED BY <1>1, <1>2, <1>3, <1>4, NegNeg

(* A pair that fits a point fits the negated point once s is negated.      *)
LEMMA FitsNegated ==
    ASSUME NEW r \in Points, NEW s \in Points, NEW sk \in Points, NEW m \in Scalars,
           NEW R, Fits(r, s, sk, m, R)
    PROVE  Fits(r, Neg(s), sk, m, Neg(R))
<1>1. R \in Points /\ R \in Scalars /\ s \in Scalars
    BY DEF Fits, Points
<1>2. Neg(R) \in Points /\ XCoord(Neg(R)) = XCoord(R)
    BY <1>1, NegPoint, XCoordAssumption
<1>3. Mul(Neg(s), Neg(R)) = Mul(s, R)
    BY <1>1, MulNegNeg
<1> QED BY <1>2, <1>3 DEF Fits

(* The pair that signing makes.                                            *)
LEMMA SigSignFits ==
    ASSUME NEW sk \in Points, NEW m \in Scalars, NEW k \in Points,
           SigSign(sk, m, k).r # Zero, SigSign(sk, m, k).s # Zero
    PROVE  LET t == SigSign(sk, m, k)
               R == IF t.id.odd = Odd(k) THEN k ELSE Neg(k)
           IN  /\ t.r \in Points /\ t.s \in Points /\ t.id \in RecoveryIds
               /\ ~ IsHigh(t.s)
               /\ Fits(t.r, t.s, sk, m, R)
               /\ XCoord(R).over = t.id.over /\ Odd(R) = t.id.odd
<1> DEFINE r == XCoord(k).r
           z == Add(Mul(r, sk), m)
           s == Mul(Inv(k), z)
           t == SigSign(sk, m, k)
<1>1. k \in Scalars /\ sk \in Scalars /\ Mul(k, G) = k
    BY MulG DEF Points
<1>2. XCoord(k) \in [r : Scalars, over : BOOLEAN]
    BY XCoordAssumption
<1>3. r \in Scalars /\ z \in Scalars /\ Inv(k) \in Points /\ Inv(k) \in Scalars
    BY <1>1, <1>2, ClosureAssumption, InverseAssumption DEF Points
<1>4. s \in Scalars
    BY <1>3, ClosureAssumption
<1>5. Mul(s, k) = z
  <2>1. Mul(s, k) = Mul(k, s)
      BY <1>1, <1>4, RingAssumption
  <2>2. Mul(k, Mul(Inv(k), z)) = z
      BY <1>3, InvUndoes
  <2> QED BY <2>1, <2>2
<1>6. /\ t.r = r
      /\ t.s = NegIf(IsHigh(s), s)
      /\ t.id = [over |-> XCoord(k).over, odd |-> IF IsHigh(s) THEN ~ Odd(k) ELSE Odd(k)]
  <2> HIDE DEF s, r
  <2>1. t = [r |-> r, s |-> NegIf(IsHigh(s), s),
             id |-> IF IsHigh(s) THEN FlipId([over |-> XCoord(k).over, odd |-> Odd(k)])
                    ELSE [over |-> XCoord(k).over, odd |-> Odd(k)]]
      BY <1>1 DEF SigSign, r, s
  <2>2. FlipId([over |-> XCoord(k).over, odd |-> Odd(k)]) =
            [over |-> XCoord(k).over, odd |-> ~ Odd(k)]
      BY DEF FlipId
  <2> QED BY <2>1, <2>2
<1>7. Odd(k) \in BOOLEAN /\ Neg(k) \in Points /\ Odd(Neg(k)) = ~ Odd(k)
      /\ XCoord(Neg(k)) = XCoord(k)
    BY NegPoint, XCoordAssumption
<1> HIDE DEF s, t, r, z
<1>8. r \in Points
    BY <1>3, <1>6 DEF t, Points, Infinity
<1>9. s \in Points
  <2>1. s # Zero
      BY <1>6, NegZero DEF t, NegIf
  <2> QED BY <2>1, <1>4 DEF Points, Infinity
<1>10. Fits(r, s, sk, m, k)
    BY <1>5, <1>1 DEF Fits, r, z
<1>11. IsHigh(s) \in BOOLEAN /\ IsHigh(Neg(s)) = ~ IsHigh(s) /\ Neg(s) \in Points
    BY <1>9, HighAssumption, NegPoint
<1>12. t.id \in RecoveryIds
  <2>1. XCoord(k).over \in BOOLEAN
      BY <1>2
  <2>2. (IF IsHigh(s) THEN ~ Odd(k) ELSE Odd(k)) \in BOOLEAN
      BY ONLY <1>7
  <2>3. \A a, b \in BOOLEAN : [over |-> a, odd |-> b] \in RecoveryIds
      BY ONLY DEF RecoveryIds
  <2> QED BY <1>6, <2>1, <2>2, <2>3
<1>13. CASE IsHigh(s)
  <2>1. t.s = Neg(s) /\ t.id.odd = ~ Odd(k) /\ t.id.over = XCoord(k).over
      BY <1>6, <1>13 DEF NegIf
  <2>2. Fits(r, Neg(s), sk, m, Neg(k))
      BY <1>8, <1>9, <1>10, FitsNegated
  <2> QED BY <1>6, <1>7, <1>8, <1>11, <1>12, <1>13, <2>1, <2>2 DEF t
<1>14. CASE ~ IsHigh(s)
  <2>1. t.s = s /\ t.id.odd = Odd(k) /\ t.id.over = XCoord(k).over
      BY <1>6, <1>14 DEF NegIf
  <2> QED BY <1>6, <1>7, <1>8, <1>9, <1>10, <1>12, <1>14, <2>1 DEF t
<1> QED BY <1>13, <1>14

(* What secp256k1_ecdsa_sig_verify computes: 1/s times (r*pk + m*G).       *)
LEMMA VerifyPoint ==
    ASSUME NEW r \in Points, NEW s \in Points, NEW pk \in Scalars, NEW m \in Scalars
    PROVE  Add(Mul(Mul(Inv(s), m), G), Mul(Mul(Inv(s), r), pk)) =
               Mul(Inv(s), Add(Mul(r, pk), m))
<1>1. r \in Scalars /\ Inv(s) \in Scalars
    BY InverseAssumption DEF Points
<1>2. Mul(Inv(s), m) \in Scalars /\ Mul(r, pk) \in Scalars /\ Mul(Inv(s), Mul(r, pk)) \in Scalars
    BY <1>1, ClosureAssumption
<1>3. Mul(Mul(Inv(s), m), G) = Mul(Inv(s), m)
    BY <1>2, MulG
<1>4. Mul(Mul(Inv(s), r), pk) = Mul(Inv(s), Mul(r, pk))
    BY <1>1, RingAssumption
<1>5. Mul(Inv(s), Add(Mul(r, pk), m)) = Add(Mul(Inv(s), Mul(r, pk)), Mul(Inv(s), m))
    BY <1>1, <1>2, RingAssumption
<1>6. Add(Mul(Inv(s), Mul(r, pk)), Mul(Inv(s), m)) = Add(Mul(Inv(s), m), Mul(Inv(s), Mul(r, pk)))
    BY <1>2, GroupAssumption
<1> QED BY <1>3, <1>4, <1>5, <1>6

(* A pair that fits some point verifies.                                   *)
LEMMA FitsVerifies ==
    ASSUME NEW r \in Points, NEW s \in Points, NEW pk \in Scalars, NEW m \in Scalars,
           NEW R, Fits(r, s, pk, m, R)
    PROVE  SigVerify(r, s, m, pk)
<1>1. R \in Points /\ R \in Scalars /\ R # Infinity /\ XCoord(R).r = r
      /\ Mul(s, R) = Add(Mul(r, pk), m)
    BY DEF Fits, Points
<1>2. Mul(Inv(s), Mul(s, R)) = R
    BY <1>1, InvUndoes
<1>3. Add(Mul(Mul(Inv(s), m), G), Mul(Mul(Inv(s), r), pk)) = R
    BY <1>1, <1>2, VerifyPoint
<1>4. r # Zero /\ s # Zero
    BY DEF Points, Infinity
<1> QED BY <1>1, <1>3, <1>4 DEF SigVerify

(* A recovery id names at most one point.                                  *)
LEMMA OneRecoveredNonce ==
    \A r, id : \A R, S \in RecoveredNonces(r, id) : R = S
<1> TAKE r, id
<1> TAKE R, S \in RecoveredNonces(r, id)
<1>1. R \in Points /\ S \in Points /\ XCoord(R) = XCoord(S) /\ Odd(R) = Odd(S)
    BY DEF RecoveredNonces
<1>2. S = R \/ S = Neg(R)
    BY <1>1, XCoordAssumption DEF XOnly
<1>3. S # Neg(R)
    BY <1>1, NegPoint
<1> QED BY <1>2, <1>3

(* What secp256k1_ecdsa_sig_recover computes.  The key that it finds fits, *)
(* and it is the only one that fits the point.                             *)
LEMMA RecoverPoint ==
    ASSUME NEW r \in Points, NEW s \in Points, NEW id, NEW msg \in Messages,
           NEW R \in RecoveredNonces(r, id)
    PROVE  LET pk == Recover(r, s, id, msg)
           IN  /\ pk \in Scalars
               /\ Mul(s, R) = Add(Mul(r, pk), MsgScalar(msg))
<1> DEFINE m == MsgScalar(msg)
           u == Mul(Mul(Inv(r), s), R)
           v == Neg(Mul(Inv(r), m))
<1>1. /\ r \in Scalars /\ s \in Scalars /\ R \in Scalars /\ m \in Scalars
      /\ Inv(r) \in Scalars /\ r # Zero /\ s # Zero
    BY InverseAssumption, MessagesAssumption DEF Points, Infinity, RecoveredNonces
<1>2. /\ Mul(Inv(r), m) \in Scalars /\ Mul(s, R) \in Scalars /\ Neg(m) \in Scalars
      /\ u \in Scalars /\ v \in Scalars
    BY <1>1, ClosureAssumption
<1>3. Recover(r, s, id, msg) = Add(u, v)
  <2>1. R = CHOOSE p \in RecoveredNonces(r, id) : TRUE
      BY OneRecoveredNonce
  <2> QED BY <1>1, <2>1 DEF Recover
<1>4. Mul(r, u) = Mul(s, R)
  <2>1. u = Mul(Inv(r), Mul(s, R))
      BY <1>1, RingAssumption
  <2> QED BY <1>2, <2>1, InvUndoes
<1>5. Mul(r, v) = Neg(m)
  <2>1. Mul(r, v) = Neg(Mul(r, Mul(Inv(r), m)))
      BY <1>1, <1>2, MulNeg
  <2> QED BY <1>1, <2>1, InvUndoes
<1> HIDE DEF u, v, m
<1>6. Mul(r, Add(u, v)) = Add(Mul(s, R), Neg(m))
    BY <1>1, <1>2, <1>4, <1>5, RingAssumption
<1>7. Add(Add(Mul(s, R), Neg(m)), m) = Mul(s, R)
  <2>1. Add(Add(Mul(s, R), Neg(m)), m) = Add(Mul(s, R), Add(Neg(m), m))
      BY <1>1, <1>2, GroupAssumption
  <2>2. Add(Neg(m), m) = Zero
      BY <1>1, <1>2, GroupAssumption
  <2> QED BY <1>2, <2>1, <2>2, GroupAssumption
<1>8. Add(u, v) \in Scalars
    BY <1>2, ClosureAssumption
<1> QED BY <1>3, <1>6, <1>7, <1>8 DEF m

(* The key of a pair that fits R is recovered from an id iff the id is     *)
(* that of R.                                                              *)
LEMMA FitsRecovers ==
    ASSUME NEW r \in Points, NEW s \in Points, NEW sk \in Points, NEW msg \in Messages,
           NEW R, Fits(r, s, sk, MsgScalar(msg), R),
           NEW id
    PROVE  Recover(r, s, id, msg) = sk <=> R \in RecoveredNonces(r, id)
<1> DEFINE m == MsgScalar(msg)
<1>1. /\ R \in Points /\ R \in Scalars /\ r \in Scalars /\ s \in Scalars
      /\ sk \in Scalars /\ sk # Infinity /\ m \in Scalars
      /\ Mul(s, R) = Add(Mul(r, sk), m)
    BY MessagesAssumption DEF Fits, Points
<1>2. ASSUME R \in RecoveredNonces(r, id) PROVE Recover(r, s, id, msg) = sk
  <2> DEFINE pk == Recover(r, s, id, msg)
  <2>1. pk \in Scalars /\ Mul(s, R) = Add(Mul(r, pk), m)
      BY <1>2, RecoverPoint
  <2> HIDE DEF pk
  <2>2. Mul(r, pk) \in Scalars /\ Mul(r, sk) \in Scalars
      BY <1>1, <2>1, ClosureAssumption
  <2>3. Add(m, Mul(r, pk)) = Add(m, Mul(r, sk))
      BY <1>1, <2>1, <2>2, GroupAssumption
  <2>4. Mul(r, pk) = Mul(r, sk)
      BY <1>1, <2>2, <2>3, AddCancel
  <2> QED BY <1>1, <2>1, <2>4, MulCancel DEF pk
<1>3. ASSUME Recover(r, s, id, msg) = sk PROVE R \in RecoveredNonces(r, id)
  <2>1. RecoveredNonces(r, id) # {}
      BY <1>1, <1>3 DEF Recover
  <2>2. PICK S : S \in RecoveredNonces(r, id)
      BY <2>1
  <2>3. S \in Points /\ S \in Scalars
      BY <2>2 DEF RecoveredNonces, Points
  <2>4. Mul(s, S) = Add(Mul(r, sk), m)
      BY <1>3, <2>2, RecoverPoint
  <2>5. S = R
      BY <1>1, <2>3, <2>4, MulCancel
  <2> QED BY <2>2, <2>5
<1> QED BY <1>2, <1>3

----------------------------------------------------------------------------
(* The calls, and what their attempts give.                                *)
Kinds == {"plain", "recoverable", "lowR", "grindR"}

Calls == [kind : Kinds, sk : SecretKeys, msg : Messages,
          data : NonceData \cup 0 .. MaxCounter, count : 0 .. MaxCount,
          grind : BytesToGrind \cup {0}]

Sigs == [kind : Kinds, r : Points, s : Points, id : RecoveryIds \cup {NoId},
         made : [r : Points, s : Points, id : RecoveryIds], by : Calls]

NonceAt(sk, msg, data, count) == NonceBytes(sk, MsgScalar(msg), data, count)

MadeAt(sk, msg, data, count) == SigSign(sk, MsgScalar(msg), NonceAt(sk, msg, data, count))

SucceedsAt(sk, msg, data, count) == /\ NonceAt(sk, msg, data, count) # Invalid
                                    /\ MadeAt(sk, msg, data, count).r # Zero
                                    /\ MadeAt(sk, msg, data, count).s # Zero

FirstAt(sk, msg, data, count) == /\ SucceedsAt(sk, msg, data, count)
                                 /\ \A n \in 0 .. count - 1 : ~ SucceedsAt(sk, msg, data, n)

(* The attempts before that of c: those with the same noncedata failed,    *)
(* and each earlier value of the counter gave a signature that was refused.*)
Refused(c, data) ==
    \E n \in 0 .. MaxCount :
        /\ FirstAt(c.sk, c.msg, data, n)
        /\ ~ Accepts(c, MadeAt(c.sk, c.msg, data, n).r, MadeAt(c.sk, c.msg, data, n).s)

InOrder(c) ==
    /\ \A n \in 0 .. c.count - 1 : ~ SucceedsAt(c.sk, c.msg, c.data, n)
    /\ c.kind \in {"lowR", "grindR"} => /\ c.data \in 0 .. MaxCounter
                                        /\ \A d \in 0 .. c.data - 1 : Refused(c, d)

(* What signing made, and how the signature at hand relates to it.         *)
MadeBy(g) ==
    /\ g.kind = g.by.kind
    /\ g.made = MadeAt(g.by.sk, g.by.msg, g.by.data, g.by.count)
    /\ SucceedsAt(g.by.sk, g.by.msg, g.by.data, g.by.count)
    /\ Accepts(g.by, g.made.r, g.made.s)
    /\ InOrder(g.by)
    /\ g.r = g.made.r
    /\ g.s \in {g.made.s, Neg(g.made.s)}

CallInv == call # NoCall => call \in Calls /\ InOrder(call)
SigInv == sig # NoSig => call = NoCall /\ sig \in Sigs /\ MadeBy(sig)
SigningInv == CallInv /\ SigInv

(* An attempt that succeeds makes a signature that fits.                   *)
LEMMA AttemptFits ==
    ASSUME NEW c \in Calls, SucceedsAt(c.sk, c.msg, c.data, c.count)
    PROVE  LET t == MadeAt(c.sk, c.msg, c.data, c.count)
           IN  /\ t.r \in Points /\ t.s \in Points /\ t.id \in RecoveryIds
               /\ ~ IsHigh(t.s)
               /\ \E R : /\ Fits(t.r, t.s, c.sk, MsgScalar(c.msg), R)
                         /\ XCoord(R).over = t.id.over /\ Odd(R) = t.id.odd
<1> DEFINE k == NonceAt(c.sk, c.msg, c.data, c.count)
           t == MadeAt(c.sk, c.msg, c.data, c.count)
<1>1. /\ c.sk \in SecretKeys /\ c.msg \in Messages /\ c.count \in 0 .. MaxCount
      /\ c.data \in NonceData \cup 0 .. MaxCounter
    BY DEF Calls
<1>2. k \in Points
    BY <1>1, NonceAssumption DEF SucceedsAt, NonceAt
<1>3. c.sk \in Points /\ MsgScalar(c.msg) \in Scalars
    BY <1>1, SecretKeysAssumption, MessagesAssumption
<1>4. t = SigSign(c.sk, MsgScalar(c.msg), k) /\ t.r # Zero /\ t.s # Zero
    BY DEF SucceedsAt, MadeAt
<1> HIDE DEF k, t
<1>5. /\ t.r \in Points /\ t.s \in Points /\ t.id \in RecoveryIds
      /\ ~ IsHigh(t.s)
      /\ \E R : /\ Fits(t.r, t.s, c.sk, MsgScalar(c.msg), R)
                /\ XCoord(R).over = t.id.over /\ Odd(R) = t.id.odd
    BY <1>2, <1>3, <1>4, SigSignFits
<1> QED BY <1>5 DEF t

LEMMA SigSignRecord ==
    \A sk, m, k : SigSign(sk, m, k) =
        [r |-> SigSign(sk, m, k).r, s |-> SigSign(sk, m, k).s, id |-> SigSign(sk, m, k).id]
BY DEF SigSign

LEMMA SigningInit == Init => SigningInv
BY DEF Init, SigningInv, CallInv, SigInv

LEMMA StartInv ==
    ASSUME SigningInv, NEW kind \in Kinds, NEW sk \in SecretKeys, NEW msg \in Messages,
           NEW data \in NonceData \cup {0}, NEW n \in BytesToGrind \cup {0},
           Begin(kind, sk, msg, data, n),
           kind \in {"lowR", "grindR"} => data = 0
    PROVE  SigningInv'
<1>1. sig' = NoSig
    BY DEF Begin
<1>2. call' = [kind |-> kind, sk |-> sk, msg |-> msg, data |-> data, count |-> 0, grind |-> n]
    BY DEF Begin
<1>3. 0 \in 0 .. MaxCounter /\ 0 \in 0 .. MaxCount
    BY BoundsAssumption
<1>4. call' \in Calls
    BY <1>2, <1>3 DEF Calls
<1>5. call'.count = 0 /\ call'.kind = kind /\ call'.data = data
    BY <1>2
<1>6. 0 .. call'.count - 1 = {} /\ (call'.data = 0 => 0 .. call'.data - 1 = {})
    BY <1>5
<1>7. InOrder(call')
    BY <1>3, <1>5, <1>6 DEF InOrder
<1> QED BY <1>1, <1>4, <1>7 DEF SigningInv, CallInv, SigInv

LEMMA RetryNonceInv == SigningInv /\ RetryNonce => SigningInv'
<1> SUFFICES ASSUME SigningInv, RetryNonce PROVE SigningInv'
    OBVIOUS
<1>1. call \in Calls /\ InOrder(call) /\ call.count < MaxCount /\ ~ AttemptSucceeds
      /\ call' = [call EXCEPT !.count = @ + 1] /\ sig' = sig /\ call # NoCall
    BY DEF RetryNonce, SigningInv, CallInv
<1>2. sig' = NoSig
    BY <1>1 DEF SigningInv, SigInv
<1>3. /\ call'.count = call.count + 1 /\ call'.kind = call.kind /\ call'.sk = call.sk
      /\ call'.msg = call.msg /\ call'.data = call.data /\ call'.grind = call.grind
      /\ call.count \in 0 .. MaxCount
    BY <1>1 DEF Calls
<1>4. call' \in Calls
  <2>1. call.count + 1 \in 0 .. MaxCount
      BY <1>1, <1>3, BoundsAssumption
  <2> QED BY <1>1, <2>1 DEF Calls
<1>5. ~ SucceedsAt(call.sk, call.msg, call.data, call.count)
    BY <1>1 DEF AttemptSucceeds, Attempt, Nonce, SucceedsAt, MadeAt, NonceAt
<1>6. \A n \in 0 .. call'.count - 1 : n \in 0 .. call.count - 1 \/ n = call.count
    BY <1>3, BoundsAssumption
<1>7. \A d : Refused(call, d) => Refused(call', d)
    BY <1>3 DEF Refused, Accepts
<1>8. InOrder(call')
    BY <1>1, <1>3, <1>5, <1>6, <1>7 DEF InOrder
<1> QED BY <1>2, <1>4, <1>8 DEF SigningInv, CallInv, SigInv

LEMMA GrindInv == SigningInv /\ Grind => SigningInv'
<1> SUFFICES ASSUME SigningInv, Grind PROVE SigningInv'
    OBVIOUS
<1>1. /\ call \in Calls /\ InOrder(call) /\ call.data < MaxCounter /\ AttemptSucceeds
      /\ ~ Accepts(call, Attempt.r, Attempt.s)
      /\ call' = [call EXCEPT !.data = @ + 1, !.count = 0] /\ sig' = sig /\ call # NoCall
    BY DEF Grind, SigningInv, CallInv
<1>2. sig' = NoSig
    BY <1>1 DEF SigningInv, SigInv
<1>3. /\ call'.count = 0 /\ call'.kind = call.kind /\ call'.sk = call.sk
      /\ call'.msg = call.msg /\ call'.data = call.data + 1 /\ call'.grind = call.grind
      /\ call.count \in 0 .. MaxCount
    BY <1>1 DEF Calls
<1>4. call.kind \in {"lowR", "grindR"}
    BY <1>1 DEF Accepts
<1>5. call.data \in 0 .. MaxCounter /\ call.data + 1 \in 0 .. MaxCounter
      /\ 0 \in 0 .. MaxCount
    BY <1>1, <1>4, BoundsAssumption DEF InOrder
<1>6. call' \in Calls
    BY <1>1, <1>5 DEF Calls
<1>7. Refused(call, call.data)
  <2>1. FirstAt(call.sk, call.msg, call.data, call.count)
      BY <1>1 DEF FirstAt, InOrder, AttemptSucceeds, Attempt, Nonce, SucceedsAt, MadeAt, NonceAt
  <2>2. Attempt = MadeAt(call.sk, call.msg, call.data, call.count)
      BY DEF Attempt, Nonce, MadeAt, NonceAt
  <2> QED BY <1>1, <1>3, <2>1, <2>2 DEF Refused
<1>8. \A d \in 0 .. call'.data - 1 : d \in 0 .. call.data - 1 \/ d = call.data
    BY <1>3, <1>5, BoundsAssumption
<1>9. \A d : Refused(call, d) => Refused(call', d)
    BY <1>3 DEF Refused, Accepts
<1>10. \A d \in 0 .. call'.data - 1 : Refused(call', d)
    BY <1>1, <1>4, <1>7, <1>8, <1>9 DEF InOrder
<1>11. 0 .. call'.count - 1 = {}
    BY <1>3
<1>12. InOrder(call')
    BY <1>3, <1>5, <1>10, <1>11 DEF InOrder
<1> QED BY <1>2, <1>6, <1>12 DEF SigningInv, CallInv, SigInv

LEMMA ReturnInv == SigningInv /\ Return => SigningInv'
<1> SUFFICES ASSUME SigningInv, Return PROVE SigningInv'
    OBVIOUS
<1>1. /\ call \in Calls /\ InOrder(call) /\ AttemptSucceeds
      /\ Accepts(call, Attempt.r, Attempt.s) /\ call' = NoCall
      /\ sig' = [kind |-> call.kind, r |-> Attempt.r, s |-> Attempt.s,
                 id |-> IF call.kind = "recoverable" THEN Attempt.id ELSE NoId,
                 made |-> Attempt, by |-> call]
    BY DEF Return, SigningInv, CallInv
<1>2. Attempt = MadeAt(call.sk, call.msg, call.data, call.count)
    BY DEF Attempt, Nonce, MadeAt, NonceAt
<1>3. SucceedsAt(call.sk, call.msg, call.data, call.count)
    BY <1>1 DEF AttemptSucceeds, Attempt, Nonce, SucceedsAt, MadeAt, NonceAt
<1>4. Attempt.r \in Points /\ Attempt.s \in Points /\ Attempt.id \in RecoveryIds
    BY <1>1, <1>2, <1>3, AttemptFits
<1>5. Attempt \in [r : Points, s : Points, id : RecoveryIds]
  <2>1. Attempt = [r |-> Attempt.r, s |-> Attempt.s, id |-> Attempt.id]
      BY SigSignRecord DEF Attempt
  <2> QED BY <1>4, <2>1
<1>6. /\ sig'.kind = call.kind /\ sig'.made = Attempt /\ sig'.by = call
      /\ sig'.r = Attempt.r /\ sig'.s = Attempt.s
    BY <1>1
<1>7. MadeBy(sig')
    BY <1>1, <1>2, <1>3, <1>6 DEF MadeBy
<1>8. sig' \in Sigs
  <2>1. call.kind \in Kinds
      BY <1>1 DEF Calls
  <2> HIDE DEF Attempt, NoId, RecoveryIds, Calls, Kinds
  <2> QED BY <1>1, <1>4, <1>5, <2>1 DEF Sigs
<1> QED BY <1>1, <1>7, <1>8 DEF SigningInv, CallInv, SigInv

(* What is done to a signature replaces its s and its id.                  *)
LEMMA HandledInv ==
    ASSUME SigningInv, sig # NoSig, UNCHANGED call,
           NEW s, NEW id \in RecoveryIds \cup {NoId}, s \in {sig.s, Neg(sig.s)},
           sig' = [sig EXCEPT !.s = s, !.id = id]
    PROVE  SigningInv'
<1>1. sig \in Sigs /\ MadeBy(sig) /\ call' = NoCall
    BY DEF SigningInv, SigInv
<1> HIDE DEF NoId, RecoveryIds, Calls, Kinds
<1>2. /\ sig.s \in Points /\ sig.made.s \in Points
    BY <1>1 DEF Sigs
<1>3. s \in Points /\ s \in {sig.made.s, Neg(sig.made.s)}
    BY <1>1, <1>2, NegPoint DEF MadeBy
<1>4. sig' \in Sigs
    BY <1>1, <1>3 DEF Sigs
<1>5. /\ sig'.kind = sig.kind /\ sig'.r = sig.r /\ sig'.made = sig.made /\ sig'.by = sig.by
      /\ sig'.s = s
    BY <1>1 DEF Sigs
<1>6. MadeBy(sig')
    BY <1>1, <1>3, <1>5 DEF MadeBy
<1> QED BY <1>1, <1>4, <1>6 DEF SigningInv, CallInv, SigInv

LEMMA SigningNext == SigningInv /\ [Next]_vars => SigningInv'
<1> SUFFICES ASSUME SigningInv, [Next]_vars PROVE SigningInv'
    OBVIOUS
<1>1. CASE Start
  <2> USE DEF Kinds
  <2>1. PICK sk \in SecretKeys, msg \in Messages :
            \/ Sign(sk, msg)
            \/ SignLowR(sk, msg)
            \/ \E data \in NonceData : SignWithNoncedata(sk, msg, data)
            \/ \E data \in NonceData \cup {NoData} : SignRecoverable(sk, msg, data)
            \/ \E n \in BytesToGrind : SignGrindR(sk, msg, n)
      BY <1>1 DEF Start
  <2>2. CASE Sign(sk, msg)
      BY <2>2, StartInv DEF Sign, NoData
  <2>3. CASE SignLowR(sk, msg)
      BY <2>3, StartInv DEF SignLowR, NoData
  <2>4. ASSUME NEW data \in NonceData, SignWithNoncedata(sk, msg, data) PROVE SigningInv'
      BY <2>4, StartInv DEF SignWithNoncedata
  <2>5. ASSUME NEW data \in NonceData \cup {NoData}, SignRecoverable(sk, msg, data)
        PROVE  SigningInv'
      BY <2>5, StartInv DEF SignRecoverable, NoData
  <2>6. ASSUME NEW n \in BytesToGrind, SignGrindR(sk, msg, n) PROVE SigningInv'
      BY <2>6, StartInv DEF SignGrindR, NoData
  <2> QED BY <2>1, <2>2, <2>3, <2>4, <2>5, <2>6
<1>2. CASE Iterate
    BY <1>2, RetryNonceInv, GrindInv, ReturnInv DEF Iterate
<1>3. sig # NoSig => sig \in Sigs
    BY DEF SigningInv, SigInv
<1>4. sig # NoSig => sig.id \in RecoveryIds \cup {NoId}
    BY <1>3 DEF Sigs
<1>5. CASE ParseOtherS
    BY <1>5, HandledInv DEF ParseOtherS
<1>6. ASSUME NEW id \in RecoveryIds, FromCompact(id) PROVE SigningInv'
  <2>1. sig # NoSig /\ UNCHANGED call /\ sig' = [sig EXCEPT !.s = sig.s, !.id = id]
      BY <1>3, <1>6 DEF FromCompact, Sigs
  <2> QED BY <2>1, HandledInv
<1>7. CASE ToStandard
  <2>1. sig # NoSig /\ UNCHANGED call /\ sig' = [sig EXCEPT !.s = sig.s, !.id = NoId]
      BY <1>3, <1>7 DEF ToStandard, Sigs
  <2> QED BY <2>1, HandledInv
<1>8. CASE NormalizeS
  <2>1. /\ sig # NoSig /\ UNCHANGED call
        /\ sig' = [sig EXCEPT !.s = NegIf(IsHigh(sig.s), sig.s), !.id = sig.id]
      BY <1>3, <1>8 DEF NormalizeS, Sigs
  <2>2. NegIf(IsHigh(sig.s), sig.s) \in {sig.s, Neg(sig.s)}
      BY DEF NegIf
  <2> QED BY <1>4, <2>1, <2>2, HandledInv
<1>9. CASE UNCHANGED vars
    BY <1>9 DEF vars, SigningInv, CallInv, SigInv
<1> QED BY <1>1, <1>2, <1>5, <1>6, <1>7, <1>8, <1>9 DEF Next

LEMMA SigningInvariant == Spec => []SigningInv
BY SigningInit, SigningNext, PTL DEF Spec

----------------------------------------------------------------------------
(* Every call and signature has the type its code gives it; in particular  *)
(* no signature has a zero r or s.                                         *)
THEOREM SignaturesTyped == Spec => []TypeOK
<1>1. SigningInv => TypeOK
    BY DEF SigningInv, CallInv, SigInv, TypeOK, Calls, Sigs, Kinds
<1> QED BY <1>1, SigningInvariant, PTL

(* The signature at hand, or the one with the other s, fits a point.       *)
LEMMA AtHand ==
    ASSUME SigningInv, sig # NoSig
    PROVE  /\ sig.r \in Points /\ sig.s \in Points
           /\ sig.by.sk \in Points /\ SignerKey = sig.by.sk
           /\ sig.by.msg \in Messages /\ MsgScalar(sig.by.msg) \in Scalars
           /\ sig.made.id \in RecoveryIds
           /\ IsHigh(sig.s) = (sig.s # sig.made.s)
           /\ \E R : /\ Fits(sig.r, sig.s, sig.by.sk, MsgScalar(sig.by.msg), R)
                     /\ XCoord(R).over = sig.made.id.over
                     /\ Odd(R) = IF sig.s = sig.made.s THEN sig.made.id.odd
                                 ELSE ~ sig.made.id.odd
<1> DEFINE c == sig.by
           t == sig.made
           m == MsgScalar(sig.by.msg)
<1>1. /\ sig \in Sigs /\ MadeBy(sig)
    BY DEF SigningInv, SigInv
<1>2. /\ c \in Calls /\ sig.r \in Points /\ sig.s \in Points
      /\ c.sk \in SecretKeys /\ c.msg \in Messages
    BY <1>1 DEF Sigs, Calls
<1>3. /\ t = MadeAt(c.sk, c.msg, c.data, c.count)
      /\ SucceedsAt(c.sk, c.msg, c.data, c.count)
      /\ sig.r = t.r /\ sig.s \in {t.s, Neg(t.s)}
    BY <1>1 DEF MadeBy
<1>4. c.sk \in Points /\ m \in Scalars /\ SignerKey = c.sk
    BY <1>2, SecretKeysAssumption, MessagesAssumption, MulG DEF SignerKey, Points
<1> HIDE DEF c, t, m
<1>5. /\ t.r \in Points /\ t.s \in Points /\ t.id \in RecoveryIds /\ ~ IsHigh(t.s)
    BY <1>2, <1>3, AttemptFits
<1>6. PICK R : /\ Fits(t.r, t.s, c.sk, m, R)
               /\ XCoord(R).over = t.id.over /\ Odd(R) = t.id.odd
    BY <1>2, <1>3, AttemptFits DEF c, m
<1>7. Neg(t.s) # t.s /\ IsHigh(Neg(t.s)) = ~ IsHigh(t.s) /\ IsHigh(t.s) \in BOOLEAN
    BY <1>5, NegPoint, HighAssumption
<1>8. IsHigh(sig.s) = (sig.s # t.s)
    BY <1>3, <1>5, <1>7
<1>9. \E S : /\ Fits(sig.r, sig.s, c.sk, m, S)
             /\ XCoord(S).over = t.id.over
             /\ Odd(S) = IF sig.s = t.s THEN t.id.odd ELSE ~ t.id.odd
  <2>1. CASE sig.s = t.s
      BY <1>3, <1>6, <2>1
  <2>2. CASE sig.s # t.s
    <3>1. sig.s = Neg(t.s)
        BY <1>3, <2>2
    <3>2. Fits(t.r, Neg(t.s), c.sk, m, Neg(R))
        BY <1>4, <1>5, <1>6, FitsNegated
    <3>3. R \in Points
        BY <1>6 DEF Fits
    <3>4. Odd(Neg(R)) = ~ Odd(R) /\ XCoord(Neg(R)) = XCoord(R)
        BY <3>3, NegPoint, XCoordAssumption
    <3> QED BY <1>3, <1>6, <2>2, <3>1, <3>2, <3>4
  <2> QED BY <2>1, <2>2
<1> QED BY <1>2, <1>4, <1>5, <1>8, <1>9 DEF c, t, m

(* Of the signatures with the r and the s that were made, up to the sign   *)
(* of s, the one that signing returned verifies for the signer's key, and  *)
(* only that one: ecdsa/mod.rs, verify.                                    *)
THEOREM MadeVerifies == Spec => []OnlyTheMadeVerifies
<1>1. SigningInv => OnlyTheMadeVerifies
  <2> SUFFICES ASSUME SigningInv, sig # NoSig, NEW msg \in Messages,
                      MsgScalar(msg) = MsgScalar(sig.by.msg)
               PROVE  Verify(sig.r, sig.s, msg, SignerKey) <=> sig.s = sig.made.s
      BY DEF OnlyTheMadeVerifies
  <2>1. /\ sig.r \in Points /\ sig.s \in Points /\ SignerKey \in Scalars
        /\ MsgScalar(msg) \in Scalars /\ IsHigh(sig.s) = (sig.s # sig.made.s)
        /\ \E R : Fits(sig.r, sig.s, SignerKey, MsgScalar(msg), R)
      BY AtHand DEF Points
  <2>2. SigVerify(sig.r, sig.s, MsgScalar(msg), SignerKey)
      BY <2>1, FitsVerifies
  <2> QED BY <2>1, <2>2 DEF Verify
<1> QED BY <1>1, SigningInvariant, PTL

(* Exactly one recovery id gives the signer's key: that of the signature   *)
(* made, with the other parity if s was negated since.                     *)
THEOREM IdRecovers == Spec => []OneIdRecovers
<1>1. SigningInv => OneIdRecovers
  <2> SUFFICES ASSUME SigningInv, sig # NoSig, NEW id \in RecoveryIds
               PROVE  Recover(sig.r, sig.s, id, sig.by.msg) = SignerKey
                        <=> id = IF sig.s = sig.made.s THEN sig.made.id
                                 ELSE FlipId(sig.made.id)
      BY DEF OneIdRecovers
  <2> DEFINE t == sig.made.id
             odd == IF sig.s = sig.made.s THEN t.odd ELSE ~ t.odd
  <2>1. /\ sig.r \in Points /\ sig.s \in Points /\ sig.by.sk \in Points
        /\ SignerKey = sig.by.sk /\ sig.by.msg \in Messages /\ t \in RecoveryIds
      BY AtHand
  <2>2. PICK R : /\ Fits(sig.r, sig.s, sig.by.sk, MsgScalar(sig.by.msg), R)
                 /\ XCoord(R).over = t.over /\ Odd(R) = odd
      BY AtHand
  <2>3. Recover(sig.r, sig.s, id, sig.by.msg) = SignerKey <=> R \in RecoveredNonces(sig.r, id)
      BY <2>1, <2>2, FitsRecovers
  <2>4. XCoord(R) = [r |-> sig.r, over |-> t.over] /\ R \in Points
    <3>1. R \in Points /\ XCoord(R).r = sig.r
        BY <2>2 DEF Fits
    <3>2. XCoord(R) \in [r : Scalars, over : BOOLEAN]
        BY <3>1, XCoordAssumption
    <3> QED BY <2>2, <3>1, <3>2
  <2>5. R \in RecoveredNonces(sig.r, id) <=> id.over = t.over /\ id.odd = odd
    <3> HIDE DEF odd
    <3>1. R \in RecoveredNonces(sig.r, id) <=>
              [r |-> sig.r, over |-> t.over] = [r |-> sig.r, over |-> id.over] /\ odd = id.odd
        BY <2>2, <2>4 DEF RecoveredNonces
    <3>2. [r |-> sig.r, over |-> t.over] = [r |-> sig.r, over |-> id.over] <=> t.over = id.over
        OBVIOUS
    <3> QED BY <3>1, <3>2
  <2>6. id = [over |-> id.over, odd |-> id.odd] /\ t = [over |-> t.over, odd |-> t.odd]
      BY <2>1 DEF RecoveryIds
  <2>7. FlipId(t) = [over |-> t.over, odd |-> ~ t.odd]
      BY <2>6 DEF FlipId
  <2> QED BY <2>3, <2>5, <2>6, <2>7
<1> QED BY <1>1, SigningInvariant, PTL

(* Whatever key is recovered, the signature is valid for it, unless its s  *)
(* is high.                                                                *)
THEOREM RecoveredKeys == Spec => []RecoveredVerifies
<1>1. SigningInv => RecoveredVerifies
  <2> SUFFICES ASSUME SigningInv, sig # NoSig, ~ IsHigh(sig.s),
                      NEW id \in RecoveryIds, NEW msg \in Messages,
                      Recover(sig.r, sig.s, id, msg) # Infinity
               PROVE  Verify(sig.r, sig.s, msg, Recover(sig.r, sig.s, id, msg))
      BY DEF RecoveredVerifies
  <2> DEFINE pk == Recover(sig.r, sig.s, id, msg)
             m == MsgScalar(msg)
  <2>1. sig.r \in Points /\ sig.s \in Points
      BY AtHand
  <2>2. RecoveredNonces(sig.r, id) # {}
      BY DEF Recover
  <2>3. PICK R : R \in RecoveredNonces(sig.r, id)
      BY <2>2
  <2>4. pk \in Scalars /\ Mul(sig.s, R) = Add(Mul(sig.r, pk), m)
      BY <2>1, <2>3, RecoverPoint
  <2>5. R \in Points /\ XCoord(R).r = sig.r /\ m \in Scalars
      BY <2>3, MessagesAssumption DEF RecoveredNonces
  <2> HIDE DEF pk, m
  <2>6. Fits(sig.r, sig.s, pk, m, R)
      BY <2>4, <2>5 DEF Fits
  <2>7. SigVerify(sig.r, sig.s, m, pk)
      BY <2>1, <2>4, <2>5, <2>6, FitsVerifies
  <2> QED BY <2>7 DEF Verify, pk, m
<1> QED BY <1>1, SigningInvariant, PTL

(* The first attempt that succeeds is what RFC 6979 gives.                 *)
LEMMA FirstIsSignedWith ==
    ASSUME NEW sk, NEW msg, NEW data, NEW count \in 0 .. MaxCount,
           FirstAt(sk, msg, data, count)
    PROVE  SignedWith(sk, msg, data) = MadeAt(sk, msg, data, count)
<1> DEFINE first(n) == /\ SucceedsAt(sk, msg, data, n)
                       /\ \A c \in 0 .. n - 1 : ~ SucceedsAt(sk, msg, data, c)
<1>1. SignedWith(sk, msg, data) =
          MadeAt(sk, msg, data, CHOOSE n \in 0 .. MaxCount : first(n))
    BY DEF SignedWith, SucceedsAt, MadeAt, NonceAt
<1>2. first(count)
    BY DEF FirstAt
<1> HIDE DEF first
<1>3. \A n \in 0 .. MaxCount : first(n) => n = count
  <2> SUFFICES ASSUME NEW n \in 0 .. MaxCount, first(n), n # count PROVE FALSE
      OBVIOUS
  <2>1. n \in 0 .. count - 1 \/ count \in 0 .. n - 1
      BY BoundsAssumption
  <2> QED BY <1>2, <2>1 DEF first
<1>4. (CHOOSE n \in 0 .. MaxCount : first(n)) = count
    BY <1>2, <1>3
<1> QED BY <1>1, <1>4

(* Grinding returns the first signature that passes: the counters of its   *)
(* two loops leave none out.                                               *)
THEOREM GrindsInOrder == Spec => []GrindIsFirst
<1>1. SigningInv => GrindIsFirst
  <2> SUFFICES ASSUME SigningInv, sig # NoSig, sig.kind \in {"lowR", "grindR"}
               PROVE  GrindIsFirst
      BY DEF GrindIsFirst
  <2> DEFINE c == sig.by
             signed(d) == SignedWith(c.sk, c.msg, d)
             passes(d) == Accepts(c, signed(d).r, signed(d).s)
             first(d) == passes(d) /\ \A e \in 0 .. d - 1 : ~ passes(e)
  <2>1. /\ c \in Calls /\ c.count \in 0 .. MaxCount /\ InOrder(c)
        /\ c.kind \in {"lowR", "grindR"}
        /\ sig.made = MadeAt(c.sk, c.msg, c.data, c.count)
        /\ SucceedsAt(c.sk, c.msg, c.data, c.count)
        /\ Accepts(c, sig.made.r, sig.made.s)
      BY DEF SigningInv, SigInv, MadeBy, Sigs, Calls
  <2> HIDE DEF c
  <2>2. c.data \in 0 .. MaxCounter /\ \A d \in 0 .. c.data - 1 : Refused(c, d)
      BY <2>1 DEF InOrder
  <2>3. signed(c.data) = sig.made
    <3>1. FirstAt(c.sk, c.msg, c.data, c.count)
        BY <2>1 DEF FirstAt, InOrder
    <3> QED BY <2>1, <3>1, FirstIsSignedWith
  <2>4. \A d \in 0 .. c.data - 1 : ~ passes(d)
    <3> TAKE d \in 0 .. c.data - 1
    <3>1. PICK n \in 0 .. MaxCount :
              /\ FirstAt(c.sk, c.msg, d, n)
              /\ ~ Accepts(c, MadeAt(c.sk, c.msg, d, n).r, MadeAt(c.sk, c.msg, d, n).s)
        BY <2>2 DEF Refused
    <3>2. signed(d) = MadeAt(c.sk, c.msg, d, n)
        BY <3>1, FirstIsSignedWith
    <3> QED BY <3>1, <3>2
  <2>5. passes(c.data)
      BY <2>1, <2>3
  <2>6. GrindIsFirst <=> sig.made = signed(CHOOSE d \in 0 .. MaxCounter : first(d))
      BY DEF GrindIsFirst, c
  <2> HIDE DEF signed, passes
  <2>7. first(c.data)
      BY <2>4, <2>5
  <2>8. \A d \in 0 .. MaxCounter : first(d) => d = c.data
    <3> SUFFICES ASSUME NEW d \in 0 .. MaxCounter, first(d), d # c.data PROVE FALSE
        OBVIOUS
    <3>1. d \in 0 .. c.data - 1 \/ c.data \in 0 .. d - 1
        BY <2>2, BoundsAssumption
    <3> QED BY <2>4, <2>5, <3>1
  <2> HIDE DEF first
  <2>9. (CHOOSE d \in 0 .. MaxCounter : first(d)) = c.data
      BY <2>2, <2>7, <2>8
  <2> QED BY <2>3, <2>6, <2>9
<1> QED BY <1>1, SigningInvariant, PTL
=============================================================================
