---------------------------- MODULE MusigProofs ----------------------------
(***************************************************************************)
(* The safety properties of Musig, for any curve, hash functions, signers, *)
(* key lists, tweaks and messages.                                         *)
(*                                                                         *)
(* The algebra comes first.  Share is what position i of the key list owes *)
(* to the final signature; partial_sign computes it, partial_verify        *)
(* compares with it, and the shares and the tweaks add up to a signature   *)
(* for the tweaked key.  The invariant then says that the caches, sessions *)
(* and partial signatures of a run are those the algebra is about.         *)
(***************************************************************************)
EXTENDS Musig, CurveLemmas

(* The operations of a KeyAggCache keep it sound.                          *)
LEMMA KeyListFacts ==
    ASSUME NEW pks \in KeyLists
    PROVE  /\ Len(pks) \in Nat \ {0}
           /\ DOMAIN pks = 1 .. Len(pks)
           /\ pks \in [1 .. Len(pks) -> Points]
           /\ \A i \in DOMAIN pks : pks[i] \in Scalars /\ pks[i] # Zero
BY KeyListsAssumption DEF Points, Infinity

LEMMA SecondKeyClosed == \A pks \in KeyLists : SecondKey(pks) \in Scalars
<1> TAKE pks \in KeyLists
<1> DEFINE others == {i \in DOMAIN pks : pks[i] # pks[1]}
<1>1. CASE others = {}
    BY <1>1, ClosureAssumption DEF SecondKey, NoSecondKey, Infinity
<1>2. CASE others # {}
  <2>1. others \in SUBSET Nat
      BY KeyListFacts
  <2>2. \E i \in others : \A j \in others : i <= j
      BY <1>2, <2>1, LeastElement
  <2>3. SecondKey(pks) = pks[CHOOSE i \in others : \A j \in others : i <= j]
      BY <1>2 DEF SecondKey
  <2>4. (CHOOSE i \in others : \A j \in others : i <= j) \in others
      BY <2>2
  <2> HIDE DEF others
  <2> QED BY <2>3, <2>4, KeyListFacts DEF others
<1> QED BY <1>1, <1>2

LEMMA CoefficientClosed ==
    \A pks \in KeyLists, second, p \in Scalars : Coefficient(pks, second, p) \in Scalars
BY KeyAggHashAssumption, ClosureAssumption DEF Coefficient

LEMMA NewCacheSound ==
    ASSUME NEW pks \in KeyLists, PubkeyAgg(pks) \in Points
    PROVE  /\ NewCache(pks) \in Caches
           /\ KeyIsAccounted(NewCache(pks)) /\ CopiesAgree(NewCache(pks))
<1> DEFINE c == NewCache(pks)
           pk == PubkeyAgg(pks)
<1>1. /\ c.pks = pks /\ c.second = SecondKey(pks) /\ c.pk = pk /\ c.tweak = Zero
      /\ c.parityAcc = FALSE /\ c.aggPk = XOnly(pk)
    BY DEF NewCache
<1>2. pk \in Scalars /\ Neg(pk) \in Scalars /\ Zero \in Scalars /\ Add(pk, Zero) = pk
    BY ClosureAssumption, GroupAssumption DEF Points
<1>3. SecondKey(pks) \in Scalars
    BY SecondKeyClosed
<1>4. XOnly(pk) \in SUBSET Scalars
    BY <1>2 DEF XOnly
<1>5. c \in Caches
    BY <1>2, <1>3, <1>4 DEF NewCache, Caches
<1>6. KeyIsAccounted(c)
    BY <1>1, <1>2 DEF KeyIsAccounted, NegIf
<1>7. CopiesAgree(c)
    BY <1>1 DEF CopiesAgree, AggPk, AggPkFull
<1> QED BY <1>5, <1>6, <1>7

(* A tweak, x-only or not, failed or not, keeps a cache sound.             *)
LEMMA TweakSound ==
    ASSUME NEW c \in Caches, NEW t \in Scalars, NEW xonly \in BOOLEAN,
           PubkeyAgg(c.pks) \in Points, KeyIsAccounted(c), CopiesAgree(c)
    PROVE  LET d == PubkeyTweakAdd(c, t, xonly)
           IN  /\ d \in Caches /\ d.pks = c.pks /\ d.second = c.second
               /\ KeyIsAccounted(d) /\ CopiesAgree(d)
<1> DEFINE d == Tweaked(c, t, xonly)
           flip == xonly /\ Odd(c.pk)
           pk == Add(NegIf(flip, c.pk), t)
           P0 == PubkeyAgg(c.pks)
<1>1. CASE d.pk = Infinity
    BY <1>1 DEF PubkeyTweakAdd
<1>2. CASE d.pk # Infinity
  <2>1. /\ c.pk \in Scalars /\ c.tweak \in Scalars /\ c.parityAcc \in BOOLEAN
        /\ c.second \in Scalars /\ c.pks \in KeyLists /\ P0 \in Scalars
      BY DEF Caches, Points
  <2>2. flip \in BOOLEAN
      BY <2>1, ParityAssumption
  <2>3. /\ d.pks = c.pks /\ d.second = c.second /\ d.pk = pk
        /\ d.tweak = Add(NegIf(flip, c.tweak), t)
        /\ d.parityAcc = (c.parityAcc # flip)
        /\ d.aggPk = XOnly(pk)
        /\ d \in [pks : {d.pks}, second : {d.second}, pk : {d.pk}, tweak : {d.tweak},
                  parityAcc : {d.parityAcc}, aggPk : {d.aggPk}]
      BY DEF Tweaked, Caches
  <2> HIDE DEF d, flip
  <2>4. /\ NegIf(flip, c.pk) \in Scalars /\ NegIf(flip, c.tweak) \in Scalars
        /\ NegIf(c.parityAcc, P0) \in Scalars
      BY <2>1, <2>2, NegIfClosed
  <2>5. pk \in Scalars /\ d.tweak \in Scalars /\ Neg(pk) \in Scalars
      BY <2>3, <2>4, ClosureAssumption
  <2>6. d \in Caches
      BY <1>2, <2>1, <2>2, <2>3, <2>5 DEF Caches, Points, XOnly
  <2>7. KeyIsAccounted(d)
    <3>1. NegIf(flip, c.pk) = Add(NegIf(flip, NegIf(c.parityAcc, P0)), NegIf(flip, c.tweak))
        BY <2>1, <2>2, <2>4, NegIfAdd DEF KeyIsAccounted
    <3>2. NegIf(flip, NegIf(c.parityAcc, P0)) = NegIf(d.parityAcc, P0)
        BY <2>1, <2>2, <2>3, NegIfNegIf
    <3>3. NegIf(d.parityAcc, P0) \in Scalars
        BY <2>1, <2>2, <2>3, NegIfClosed
    <3>4. pk = Add(NegIf(d.parityAcc, P0), d.tweak)
        BY <2>3, <2>4, <3>1, <3>2, <3>3, GroupAssumption
    <3> QED BY <2>3, <3>4 DEF KeyIsAccounted
  <2>8. CopiesAgree(d)
      BY <2>3 DEF CopiesAgree, AggPk, AggPkFull
  <2> QED BY <1>2, <2>3, <2>6, <2>7, <2>8 DEF PubkeyTweakAdd, d
<1> QED BY <1>1, <1>2

-----------------------------------------------------------------------------

GoodCache(c) == /\ c \in Caches /\ c.pks = KeyList /\ c.second = SecondKey(KeyList)
                /\ PubkeyAgg(KeyList) \in Points
                /\ KeyIsAccounted(c) /\ CopiesAgree(c)

GoodNonces(nonces) == /\ nonces \in [DOMAIN KeyList -> Nonces]
                      /\ \A i \in DOMAIN KeyList : nonces[i].pk = KeyList[i]

GoodSession(x) ==
    \E c \in Caches, nonces \in [DOMAIN KeyList -> Nonces], msg \in Messages :
        GoodCache(c) /\ GoodNonces(nonces) /\ x = NonceProcess(c, nonces, msg)

KeyShare(e, c, pk) ==
    NegIf(KeyNegated(c), Mul(e, Mul(Coefficient(c.pks, c.second, pk), pk)))

NonceShare(odd, b, n) == NegIf(odd, EffectiveNonce(K(n), b))

Share(x, c, n, pk) == Add(KeyShare(x.challenge, c, pk),
                          NonceShare(x.finNonceParity, x.noncecoef, n))

-----------------------------------------------------------------------------
(* The types of what the operators of Musig compute.                       *)
LEMMA PointFacts ==
    /\ \A p \in Points : p \in Scalars /\ XOnly(p) \in XOnlyPoints /\ XOnly(p) \in SUBSET Points
    /\ \A p \in Scalars : Odd(p) \in BOOLEAN
    /\ G \in Points
<1>1. \A p \in Points : XOnly(p) \in SUBSET Points
  <2> TAKE p \in Points
  <2>1. p \in Scalars /\ p # Zero /\ Neg(p) \in Scalars /\ Neg(Neg(p)) = p
      BY ClosureAssumption, NegNeg DEF Points, Infinity
  <2>2. Neg(p) # Zero
      BY <2>1, NegZero
  <2> QED BY <2>1, <2>2 DEF XOnly, Points, Infinity
<1>2. G \in Points
    BY ClosureAssumption, RingAssumption DEF G, Points, Infinity
<1> QED BY <1>1, <1>2, ParityAssumption DEF XOnlyPoints, Points

LEMMA KeypairFacts ==
    /\ AllKeypairs \in SUBSET Points
    /\ \A n \in Nonces : /\ n.pk \in AllKeypairs /\ n.pk \in Points
                         /\ K(n) \in Scalars \X Scalars
<1>1. AllKeypairs \in SUBSET Points
    BY KeypairsAssumption DEF AllKeypairs
<1> QED BY <1>1, HashAssumption DEF Nonces, K

LEMMA EffectiveNonceClosed ==
    \A pair \in Scalars \X Scalars, b \in Scalars : EffectiveNonce(pair, b) \in Scalars
BY ClosureAssumption DEF EffectiveNonce

LEMMA KeyNegatedClosed == \A c \in Caches : KeyNegated(c) \in BOOLEAN
BY PointFacts DEF KeyNegated, Caches

LEMMA KeyShareClosed ==
    \A e \in Scalars, c \in Caches, pk \in Points : KeyShare(e, c, pk) \in Scalars
<1> TAKE e \in Scalars, c \in Caches, pk \in Points
<1>1. c.pks \in KeyLists /\ c.second \in Scalars /\ pk \in Scalars
    BY PointFacts DEF Caches
<1>2. Mul(e, Mul(Coefficient(c.pks, c.second, pk), pk)) \in Scalars
    BY <1>1, CoefficientClosed, ClosureAssumption
<1> QED BY <1>2, KeyNegatedClosed, NegIfClosed DEF KeyShare

LEMMA NonceShareClosed ==
    \A odd \in BOOLEAN, b \in Scalars, n \in Nonces : NonceShare(odd, b, n) \in Scalars
BY KeypairFacts, EffectiveNonceClosed, NegIfClosed DEF NonceShare

-----------------------------------------------------------------------------
(* What partial_sign computes, and what partial_verify accepts.            *)
LEMMA AddSolve ==
    \A a, r, s \in Scalars : (Add(Add(a, Neg(s)), r) = Zero) <=> (s = Add(a, r))
<1> TAKE a, r, s \in Scalars
<1> Neg(s) \in Scalars /\ Add(a, r) \in Scalars /\ Zero \in Scalars
    BY ClosureAssumption
<1>1. Add(Add(a, Neg(s)), r) = Add(Add(a, r), Neg(s))
  <2>1. Add(Add(a, Neg(s)), r) = Add(a, Add(Neg(s), r))
      BY GroupAssumption
  <2>2. Add(Neg(s), r) = Add(r, Neg(s))
      BY GroupAssumption
  <2>3. Add(a, Add(r, Neg(s))) = Add(Add(a, r), Neg(s))
      BY GroupAssumption
  <2> QED BY <2>1, <2>2, <2>3
<1>2. ASSUME Add(Add(a, r), Neg(s)) = Zero PROVE s = Add(a, r)
  <2>1. Neg(s) = Neg(Add(a, r))
      BY <1>2, NegUnique
  <2> QED BY <2>1, NegNeg
<1>3. ASSUME s = Add(a, r) PROVE Add(Add(a, r), Neg(s)) = Zero
    BY <1>3, GroupAssumption
<1> QED BY <1>1, <1>2, <1>3

LEMMA MulSwapSign ==
    \A b \in BOOLEAN, e, a, p \in Scalars :
        /\ Mul(e, Mul(NegIf(b, p), a)) = NegIf(b, Mul(e, Mul(a, p)))
        /\ Mul(NegIf(b, Mul(e, a)), p) = NegIf(b, Mul(e, Mul(a, p)))
<1> TAKE b \in BOOLEAN, e, a, p \in Scalars
<1> /\ NegIf(b, p) \in Scalars /\ Mul(a, p) \in Scalars /\ Mul(e, a) \in Scalars
    /\ NegIf(b, Mul(e, a)) \in Scalars
    BY NegIfClosed, ClosureAssumption
<1>1. Mul(NegIf(b, p), a) = Mul(a, NegIf(b, p))
    BY RingAssumption
<1>2. Mul(a, NegIf(b, p)) = NegIf(b, Mul(a, p))
    BY NegIfMul
<1>3. Mul(e, NegIf(b, Mul(a, p))) = NegIf(b, Mul(e, Mul(a, p)))
    BY NegIfMul
<1>4. Mul(NegIf(b, Mul(e, a)), p) = Mul(p, NegIf(b, Mul(e, a)))
    BY RingAssumption
<1>5. Mul(p, NegIf(b, Mul(e, a))) = NegIf(b, Mul(p, Mul(e, a)))
    BY NegIfMul
<1>6. Mul(p, Mul(e, a)) = Mul(e, Mul(a, p))
    BY RingAssumption
<1> QED BY <1>1, <1>2, <1>3, <1>4, <1>5, <1>6

LEMMA PartialSigIsShare ==
    ASSUME NEW x \in Sessions, NEW c \in Caches, NEW n \in Nonces, NEW pk \in Points
    PROVE  PartialSig(x, n, pk, c) = Share(x, c, n, pk)
<1> DEFINE co == Coefficient(c.pks, c.second, pk)
<1>1. x.challenge \in Scalars /\ pk \in Scalars /\ KeyNegated(c) \in BOOLEAN
    BY PointFacts, KeyNegatedClosed DEF Sessions
<1>2. co \in Scalars
    BY <1>1, CoefficientClosed DEF Caches
<1> HIDE DEF co
<1>3. Mul(x.challenge, Mul(NegIf(KeyNegated(c), pk), co))
          = NegIf(KeyNegated(c), Mul(x.challenge, Mul(co, pk)))
    BY <1>1, <1>2, MulSwapSign
<1> QED BY <1>3 DEF PartialSig, Share, KeyShare, NonceShare, co

LEMMA VerifiesIffShare ==
    ASSUME NEW x \in Sessions, NEW c \in Caches, NEW n \in Nonces, NEW pk \in Points,
           NEW s \in Scalars
    PROVE  PartialVerify(x, c, s, n, pk) <=> s = Share(x, c, n, pk)
<1> DEFINE co == Coefficient(c.pks, c.second, pk)
           r == NonceShare(x.finNonceParity, x.noncecoef, n)
           a == KeyShare(x.challenge, c, pk)
<1>1. /\ x.challenge \in Scalars /\ x.finNonceParity \in BOOLEAN /\ x.noncecoef \in Scalars
      /\ pk \in Scalars /\ KeyNegated(c) \in BOOLEAN
    BY PointFacts, KeyNegatedClosed DEF Sessions
<1>2. co \in Scalars /\ r \in Scalars /\ a \in Scalars
    BY <1>1, CoefficientClosed, KeyShareClosed, NonceShareClosed DEF Caches
<1> HIDE DEF co
<1>3. Mul(NegIf(KeyNegated(c), Mul(x.challenge, co)), pk)
          = NegIf(KeyNegated(c), Mul(x.challenge, Mul(co, pk)))
    BY <1>1, <1>2, MulSwapSign
<1>4. PartialVerify(x, c, s, n, pk) <=> Add(Add(a, Neg(s)), r) = Zero
    BY <1>3 DEF PartialVerify, KeyShare, NonceShare, Infinity, co
<1> HIDE DEF a, r
<1> QED BY <1>2, <1>4, AddSolve DEF Share, a, r

-----------------------------------------------------------------------------
(* Sums over the positions of the key list.                                *)
N == Len(KeyList)

FinalSum(nonces, b) == EffectiveNonce(NonceAgg(nonces), b)

FinalNonce(nonces, b) == IF FinalSum(nonces, b) = Infinity THEN G ELSE FinalSum(nonces, b)

LEMMA ListFacts ==
    /\ KeyList \in KeyLists /\ N \in Nat /\ DOMAIN KeyList = 1 .. N
    /\ KeyList \in [1 .. N -> Points]
BY KeyListAssumption, KeyListFacts DEF N

LEMMA NonceAggClosed ==
    ASSUME NEW nonces \in [DOMAIN KeyList -> Nonces]
    PROVE  NonceAgg(nonces) \in Scalars \X Scalars
<1> DEFINE f == [i \in DOMAIN nonces |-> K(nonces[i])[1]]
           g == [i \in DOMAIN nonces |-> K(nonces[i])[2]]
<1>1. f \in [1 .. N -> Scalars] /\ g \in [1 .. N -> Scalars]
    BY ListFacts, KeypairFacts
<1>2. N \in Nat
    BY ListFacts
<1> HIDE DEF f, g
<1>3. Total(f) \in Scalars /\ Total(g) \in Scalars
    BY <1>1, <1>2, TotalClosed
<1> QED BY <1>3 DEF NonceAgg, f, g

(* The fields of a session, and their types.                               *)
SessionOf(x, c, nonces, msg) ==
    /\ x \in Sessions
    /\ x.made = TRUE /\ x.of = c /\ x.nonces = nonces /\ x.msg = msg
    /\ FinalNonce(nonces, x.noncecoef) \in Points
    /\ x.finNonce = XOnly(FinalNonce(nonces, x.noncecoef))
    /\ x.finNonceParity = Odd(FinalNonce(nonces, x.noncecoef))
    /\ x.challenge = ChallengeHash(x.finNonce, XOnly(c.pk), msg)
    /\ x.sPart = NegIf(Odd(c.pk), Mul(x.challenge, c.tweak))
    /\ x.degenerate = (FinalSum(nonces, x.noncecoef) = Infinity)

LEMMA NonceProcessFacts ==
    ASSUME NEW c \in Caches, NEW nonces \in [DOMAIN KeyList -> Nonces], NEW msg \in Messages
    PROVE  SessionOf(NonceProcess(c, nonces, msg), c, nonces, msg)
<1> DEFINE x == NonceProcess(c, nonces, msg)
<1> DEFINE b == NonceCoefHash(NonceAgg(nonces), XOnly(c.pk), msg)
           R == FinalNonce(nonces, b)
           e == ChallengeHash(XOnly(R), XOnly(c.pk), msg)
           sPart == NegIf(Odd(c.pk), Mul(e, c.tweak))
           degenerate == FinalSum(nonces, b) = Infinity
<1>1. x = [made |-> TRUE, finNonce |-> XOnly(R), finNonceParity |-> Odd(R), noncecoef |-> b,
           challenge |-> e, sPart |-> sPart, msg |-> msg, of |-> c, nonces |-> nonces,
           degenerate |-> degenerate]
    BY DEF NonceProcess, FinalNonce, FinalSum, Challenge
<1>2. c.pk \in Points /\ c.tweak \in Scalars /\ XOnly(c.pk) \in XOnlyPoints
      /\ Odd(c.pk) \in BOOLEAN
    BY PointFacts DEF Caches
<1>3. b \in Scalars
    BY <1>2, NonceAggClosed, HashAssumption
<1>4. FinalSum(nonces, b) \in Scalars
    BY <1>3, NonceAggClosed, EffectiveNonceClosed DEF FinalSum
<1>5. R \in Points
    BY <1>4, PointFacts DEF FinalNonce, Points
<1> HIDE DEF R
<1>6. XOnly(R) \in XOnlyPoints /\ XOnly(R) \in SUBSET Points /\ Odd(R) \in BOOLEAN
    BY <1>5, PointFacts
<1>7. e \in Scalars
    BY <1>2, <1>6, HashAssumption
<1> HIDE DEF b, e
<1>8. sPart \in Scalars
    BY <1>2, <1>7, ClosureAssumption, NegIfClosed
<1>9. degenerate \in BOOLEAN
    OBVIOUS
<1> HIDE DEF sPart, degenerate
<1>10. x \in Sessions
    BY <1>1, <1>3, <1>6, <1>7, <1>8, <1>9 DEF Sessions
<1>11. /\ x.made = TRUE /\ x.of = c /\ x.nonces = nonces /\ x.msg = msg
       /\ x.noncecoef = b /\ x.finNonce = XOnly(R) /\ x.finNonceParity = Odd(R)
       /\ x.challenge = e /\ x.sPart = sPart /\ x.degenerate = degenerate
    BY <1>1
<1> QED BY <1>4, <1>5, <1>10, <1>11 DEF SessionOf, R, e, sPart, degenerate

(* The nonce shares add up to the final nonce, with its sign.              *)
LEMMA NonceSharesTotal ==
    ASSUME NEW nonces \in [DOMAIN KeyList -> Nonces], NEW b \in Scalars, NEW odd \in BOOLEAN,
           NEW f \in [1 .. N -> Scalars],
           \A i \in 1 .. N : f[i] = NonceShare(odd, b, nonces[i])
    PROVE  Total(f) = NegIf(odd, FinalSum(nonces, b))
<1> DEFINE f1 == [i \in DOMAIN nonces |-> K(nonces[i])[1]]
           f2 == [i \in DOMAIN nonces |-> K(nonces[i])[2]]
           g == [i \in 1 .. N |-> Mul(b, f2[i])]
           h == [i \in 1 .. N |-> EffectiveNonce(K(nonces[i]), b)]
<1>1. N \in Nat /\ DOMAIN nonces = 1 .. N
    BY ListFacts
<1>2. \A i \in 1 .. N : K(nonces[i]) \in Scalars \X Scalars
    BY <1>1, KeypairFacts
<1>3. f1 \in [1 .. N -> Scalars] /\ f2 \in [1 .. N -> Scalars]
    BY <1>1, <1>2
<1>4. g \in [1 .. N -> Scalars]
    BY <1>3, ClosureAssumption
<1>5. h \in [1 .. N -> Scalars]
    BY <1>2, EffectiveNonceClosed
<1>6. \A i \in 1 .. N : h[i] = Add(f1[i], g[i])
    BY <1>1 DEF EffectiveNonce
<1>7. \A i \in 1 .. N : g[i] = Mul(b, f2[i])
    OBVIOUS
<1>8. \A i \in 1 .. N : f[i] = NegIf(odd, h[i])
    BY DEF NonceShare
<1>9. FinalSum(nonces, b) = Add(Total(f1), Mul(b, Total(f2)))
    BY DEF FinalSum, EffectiveNonce, NonceAgg
<1> HIDE DEF f1, f2, g, h
<1>10. Total(g) = Mul(b, Total(f2))
    BY <1>1, <1>3, <1>4, <1>7, TotalMul
<1>11. Total(h) = Add(Total(f1), Total(g))
    BY <1>1, <1>3, <1>4, <1>5, <1>6, TotalAdd
<1>12. Total(f) = NegIf(odd, Total(h))
    BY <1>1, <1>5, <1>8, TotalNegIf
<1> QED BY <1>9, <1>10, <1>11, <1>12

(* The key shares add up to the untweaked key times the challenge.         *)
LEMMA KeySharesTotal ==
    ASSUME NEW c, GoodCache(c), NEW e \in Scalars,
           NEW f \in [1 .. N -> Scalars],
           \A i \in 1 .. N : f[i] = KeyShare(e, c, KeyList[i])
    PROVE  Total(f) = NegIf(KeyNegated(c), Mul(e, PubkeyAgg(KeyList)))
<1> DEFINE g == [i \in DOMAIN KeyList |->
                    Mul(Coefficient(KeyList, SecondKey(KeyList), KeyList[i]), KeyList[i])]
           h == [i \in 1 .. N |-> Mul(e, g[i])]
<1>1. N \in Nat /\ DOMAIN KeyList = 1 .. N /\ KeyNegated(c) \in BOOLEAN
    BY ListFacts, KeyNegatedClosed DEF GoodCache
<1>2. g \in [1 .. N -> Scalars]
  <2>1. \A i \in 1 .. N : KeyList[i] \in Scalars
      BY ListFacts, PointFacts
  <2>2. KeyList \in KeyLists /\ SecondKey(KeyList) \in Scalars
      BY ListFacts, SecondKeyClosed
  <2>3. \A i \in 1 .. N : Coefficient(KeyList, SecondKey(KeyList), KeyList[i]) \in Scalars
      BY <2>1, <2>2, CoefficientClosed
  <2> QED BY <1>1, <2>1, <2>3, ClosureAssumption
<1>3. h \in [1 .. N -> Scalars]
    BY <1>2, ClosureAssumption
<1>4. Total(g) = PubkeyAgg(KeyList)
    BY DEF PubkeyAgg
<1>5. \A i \in 1 .. N : h[i] = Mul(e, g[i])
    OBVIOUS
<1>6. \A i \in 1 .. N : f[i] = NegIf(KeyNegated(c), h[i])
    BY <1>1 DEF KeyShare, GoodCache
<1> HIDE DEF g, h
<1>7. Total(h) = Mul(e, Total(g))
    BY <1>1, <1>2, <1>3, <1>5, TotalMul
<1>8. Total(f) = NegIf(KeyNegated(c), Total(h))
    BY <1>1, <1>3, <1>6, TotalNegIf
<1> QED BY <1>4, <1>7, <1>8

-----------------------------------------------------------------------------
(* The tweaks that the session answers for are those of the key.           *)
LEMMA TweaksAnswered ==
    ASSUME NEW c, GoodCache(c), NEW e \in Scalars
    PROVE  Mul(e, EvenY(c.pk)) = Add(NegIf(KeyNegated(c), Mul(e, PubkeyAgg(KeyList))),
                                     NegIf(Odd(c.pk), Mul(e, c.tweak)))
<1> DEFINE P0 == PubkeyAgg(KeyList)
           o == Odd(c.pk)
           a == NegIf(c.parityAcc, P0)
<1>1. /\ c \in Caches /\ P0 \in Scalars /\ c.tweak \in Scalars /\ c.parityAcc \in BOOLEAN
      /\ c.pk \in Scalars /\ o \in BOOLEAN
    BY PointFacts DEF GoodCache, Caches
<1>2. c.pk = Add(a, c.tweak)
    BY DEF GoodCache, KeyIsAccounted
<1>3. a \in Scalars /\ NegIf(o, a) \in Scalars /\ NegIf(o, c.tweak) \in Scalars
    BY <1>1, NegIfClosed
<1>4. EvenY(c.pk) = Add(NegIf(o, a), NegIf(o, c.tweak))
    BY <1>1, <1>2, <1>3, NegIfAdd DEF EvenY
<1>5. NegIf(o, a) = NegIf(KeyNegated(c), P0)
    BY <1>1, NegIfNegIf DEF KeyNegated
<1>6. Mul(e, NegIf(o, a)) = NegIf(KeyNegated(c), Mul(e, P0))
    BY <1>1, <1>5, NegIfMul, KeyNegatedClosed
<1>7. Mul(e, NegIf(o, c.tweak)) = NegIf(o, Mul(e, c.tweak))
    BY <1>1, NegIfMul
<1> HIDE DEF a, o, P0
<1>8. Mul(e, EvenY(c.pk)) = Add(Mul(e, NegIf(o, a)), Mul(e, NegIf(o, c.tweak)))
    BY <1>3, <1>4, RingAssumption
<1> QED BY <1>6, <1>7, <1>8 DEF o, P0

(* The only s that the verification accepts with a given nonce.            *)
LEMMA VerifyIff ==
    ASSUME NEW P \in Points, NEW R \in Points, NEW s \in Scalars, NEW msg \in Messages,
           NEW e \in Scalars, e = ChallengeHash(XOnly(R), XOnly(P), msg)
    PROVE  Verify([r |-> XOnly(R), s |-> s], XOnly(P), msg)
               <=> s = Add(Mul(e, EvenY(P)), EvenY(R))
<1> DEFINE Q == CHOOSE p \in XOnly(P) : ~ Odd(p)
           T == Add(s, Neg(Mul(e, Q)))
<1>1. Q = EvenY(P)
  <2>1. EvenY(P) \in XOnly(P) /\ ~ Odd(EvenY(P))
      BY EvenYFacts DEF EvenY, NegIf, XOnly
  <2> QED BY <2>1, EvenYFacts
<1>2. EvenY(P) \in Scalars /\ EvenY(R) \in Scalars /\ EvenY(R) # Zero
    BY EvenYFacts DEF Points, Infinity
<1> DEFINE m == Mul(e, EvenY(P))
<1>3. m \in Scalars /\ Neg(m) \in Scalars
    BY <1>2, ClosureAssumption
<1>4. Verify([r |-> XOnly(R), s |-> s], XOnly(P), msg)
          <=> T # Infinity /\ ~ Odd(T) /\ XOnly(T) = XOnly(R)
    BY DEF Verify, Challenge
<1>5. T = Add(s, Neg(m))
    BY <1>1
<1> HIDE DEF T, Q, m
<1>6. T \in Scalars
    BY <1>3, <1>5, ClosureAssumption
<1>7. ASSUME T # Infinity, ~ Odd(T), XOnly(T) = XOnly(R) PROVE T = EvenY(R)
  <2>1. T \in XOnly(R)
      BY <1>7 DEF XOnly
  <2> QED BY <1>7, <2>1, EvenYFacts
<1>8. ASSUME T = EvenY(R) PROVE T # Infinity /\ ~ Odd(T) /\ XOnly(T) = XOnly(R)
    BY <1>2, <1>8, EvenYFacts DEF Infinity
<1>9. T = EvenY(R) <=> s = Add(m, EvenY(R))
  <2>1. ASSUME T = EvenY(R) PROVE s = Add(m, EvenY(R))
    <3>1. Add(m, T) = Add(m, Add(Neg(m), s))
        BY <1>3, <1>5, GroupAssumption
    <3>2. Add(m, Add(Neg(m), s)) = Add(Add(m, Neg(m)), s)
        BY <1>3, GroupAssumption
    <3>3. Add(m, Neg(m)) = Zero /\ Add(Zero, s) = s
        BY <1>3, ClosureAssumption, GroupAssumption
    <3> QED BY <2>1, <3>1, <3>2, <3>3
  <2>2. ASSUME s = Add(m, EvenY(R)) PROVE T = EvenY(R)
    <3>1. T = Add(Add(EvenY(R), m), Neg(m))
        BY <1>2, <1>3, <1>5, <2>2, GroupAssumption
    <3>2. Add(Add(EvenY(R), m), Neg(m)) = Add(EvenY(R), Add(m, Neg(m)))
        BY <1>2, <1>3, GroupAssumption
    <3> QED BY <1>2, <1>3, <3>1, <3>2, GroupAssumption
  <2> QED BY <2>1, <2>2
<1> QED BY <1>4, <1>7, <1>8, <1>9 DEF m

-----------------------------------------------------------------------------
(* What the positions owe in a session, and when signatures are accepted.  *)
Owed(x) == [i \in 1 .. N |-> Share(x, x.of, x.nonces[i], KeyList[i])]

LEMMA OwedClosed ==
    ASSUME NEW x \in Sessions
    PROVE  /\ Owed(x) \in [1 .. N -> Scalars]
           /\ \A i \in 1 .. N : /\ KeyShare(x.challenge, x.of, KeyList[i]) \in Scalars
                                /\ NonceShare(x.finNonceParity, x.noncecoef, x.nonces[i]) \in Scalars
<1>1. /\ x.challenge \in Scalars /\ x.of \in Caches /\ x.noncecoef \in Scalars
      /\ x.finNonceParity \in BOOLEAN
      /\ \A i \in 1 .. N : x.nonces[i] \in Nonces /\ KeyList[i] \in Points
    BY ListFacts DEF Sessions
<1>2. \A i \in 1 .. N : /\ KeyShare(x.challenge, x.of, KeyList[i]) \in Scalars
                        /\ NonceShare(x.finNonceParity, x.noncecoef, x.nonces[i]) \in Scalars
    BY <1>1, KeyShareClosed, NonceShareClosed
<1> QED BY <1>2, ClosureAssumption DEF Owed, Share

LEMMA SessionFacts ==
    ASSUME NEW x, GoodSession(x)
    PROVE  /\ x \in Sessions /\ x.made /\ GoodCache(x.of) /\ GoodNonces(x.nonces)
           /\ x = NonceProcess(x.of, x.nonces, x.msg)
<1>1. PICK c \in Caches, nonces \in [DOMAIN KeyList -> Nonces], msg \in Messages :
          GoodCache(c) /\ GoodNonces(nonces) /\ x = NonceProcess(c, nonces, msg)
    BY DEF GoodSession
<1>2. SessionOf(x, c, nonces, msg)
    BY <1>1, NonceProcessFacts
<1>3. /\ x \in Sessions /\ x.made = TRUE
      /\ x.of = c /\ x.nonces = nonces /\ x.msg = msg
    BY ONLY <1>2 DEF SessionOf
<1> QED BY ONLY <1>1, <1>3

LEMMA SessionTypes ==
    ASSUME NEW x \in Sessions
    PROVE  /\ x.of \in Caches /\ x.msg \in Messages
           /\ x.nonces \in [DOMAIN KeyList -> Nonces]
           /\ x.challenge \in Scalars /\ x.noncecoef \in Scalars
           /\ x.finNonceParity \in BOOLEAN /\ x.degenerate \in BOOLEAN
<1>1. /\ x.of \in Caches /\ x.msg \in Messages
      /\ x.nonces \in [DOMAIN KeyList -> Nonces]
    BY DEF Sessions
<1>2. x.challenge \in Scalars /\ x.noncecoef \in Scalars
    BY DEF Sessions
<1>3. x.finNonceParity \in BOOLEAN /\ x.degenerate \in BOOLEAN
    BY DEF Sessions
<1> QED BY <1>1, <1>2, <1>3

LEMMA AcceptedIff ==
    ASSUME NEW x, GoodSession(x), ~ x.degenerate, NEW sigs \in [1 .. N -> Scalars]
    PROVE  Accepted(x, sigs) <=> Total(sigs) = Total(Owed(x))
<1> DEFINE c == x.of
           e == x.challenge
           R == FinalNonce(x.nonces, x.noncecoef)
           P0 == PubkeyAgg(KeyList)
           ks == [i \in 1 .. N |-> KeyShare(e, c, KeyList[i])]
           ns == [i \in 1 .. N |-> NonceShare(x.finNonceParity, x.noncecoef, x.nonces[i])]
           A == NegIf(KeyNegated(c), Mul(e, P0))
           B == NegIf(Odd(c.pk), Mul(e, c.tweak))
<1>1. /\ x \in Sessions /\ GoodCache(c) /\ c \in Caches /\ c.pk \in Points /\ P0 \in Scalars
      /\ x.nonces \in [DOMAIN KeyList -> Nonces] /\ x.msg \in Messages
      /\ e \in Scalars /\ x.noncecoef \in Scalars /\ x.finNonceParity \in BOOLEAN
      /\ c.tweak \in Scalars
  <2>1. x \in Sessions /\ GoodCache(c)
      BY SessionFacts
  <2>2. c \in Caches /\ P0 \in Points
      BY <2>1 DEF GoodCache
  <2>3. c.pk \in Points /\ c.tweak \in Scalars
      BY <2>2 DEF Caches
  <2> QED BY <2>1, <2>2, <2>3, SessionTypes, PointFacts
<1>2. /\ R \in Points /\ R = FinalSum(x.nonces, x.noncecoef)
      /\ x.finNonce = XOnly(R) /\ x.finNonceParity = Odd(R)
      /\ e = ChallengeHash(XOnly(R), XOnly(c.pk), x.msg)
      /\ x.sPart = B
  <2>1. x = NonceProcess(c, x.nonces, x.msg)
      BY SessionFacts
  <2>2. SessionOf(NonceProcess(c, x.nonces, x.msg), c, x.nonces, x.msg)
      BY <1>1, NonceProcessFacts
  <2>3. /\ R \in Points /\ x.finNonce = XOnly(R) /\ x.finNonceParity = Odd(R)
        /\ e = ChallengeHash(x.finNonce, XOnly(c.pk), x.msg)
        /\ x.sPart = B
        /\ x.degenerate = (FinalSum(x.nonces, x.noncecoef) = Infinity)
      BY <2>1, <2>2 DEF SessionOf
  <2>4. R = FinalSum(x.nonces, x.noncecoef)
      BY <2>3 DEF FinalNonce
  <2> QED BY <2>3, <2>4
<1>3. N \in Nat /\ Owed(x) \in [1 .. N -> Scalars]
      /\ ks \in [1 .. N -> Scalars] /\ ns \in [1 .. N -> Scalars]
    BY <1>1, ListFacts, OwedClosed
<1>4. \A i \in 1 .. N : Owed(x)[i] = Add(ks[i], ns[i])
    BY DEF Owed, Share
<1>5. Total(ks) = A
    BY <1>1, <1>3, KeySharesTotal
<1>6. Total(ns) = NegIf(Odd(R), R)
  <2>1. \A i \in 1 .. N : ns[i] = NonceShare(x.finNonceParity, x.noncecoef, x.nonces[i])
      OBVIOUS
  <2> HIDE DEF ns, R
  <2>2. /\ x.nonces \in [DOMAIN KeyList -> Nonces] /\ x.noncecoef \in Scalars
        /\ x.finNonceParity \in BOOLEAN /\ ns \in [1 .. N -> Scalars]
      BY <1>1, <1>3
  <2>3. Total(ns) = NegIf(x.finNonceParity, FinalSum(x.nonces, x.noncecoef))
      BY ONLY <2>1, <2>2, NonceSharesTotal
  <2> QED BY <1>2, <2>3
<1> HIDE DEF R, ks, ns
<1>7. Total(Owed(x)) = Add(A, EvenY(R))
    BY <1>3, <1>4, <1>5, <1>6, TotalAdd DEF EvenY
<1>8. A \in Scalars /\ B \in Scalars /\ EvenY(R) \in Scalars
    BY <1>1, <1>2, KeyNegatedClosed, NegIfClosed, ClosureAssumption, PointFacts, EvenYFacts
<1>9. Mul(e, EvenY(c.pk)) = Add(A, B)
    BY <1>1, TweaksAnswered
<1> HIDE DEF A, B
<1>10. Add(x.sPart, Total(Owed(x))) = Add(Mul(e, EvenY(c.pk)), EvenY(R))
  <2>1. Add(B, Add(A, EvenY(R))) = Add(Add(B, A), EvenY(R))
      BY <1>8, GroupAssumption
  <2>2. Add(B, A) = Add(A, B)
      BY <1>8, GroupAssumption
  <2> QED BY <1>2, <1>7, <1>9, <2>1, <2>2
<1>11. Total(sigs) \in Scalars /\ Total(Owed(x)) \in Scalars
    BY <1>3, TotalClosed
<1>12. Add(x.sPart, Total(sigs)) \in Scalars
    BY <1>2, <1>8, <1>11, ClosureAssumption
<1>13. Accepted(x, sigs) <=> Verify([r |-> XOnly(R), s |-> Add(x.sPart, Total(sigs))],
                                    XOnly(c.pk), x.msg)
    BY <1>1, <1>2 DEF Accepted, PartialSigAgg, GoodCache, CopiesAgree, AggPk, AggPkFull
<1>14. Accepted(x, sigs)
          <=> Add(x.sPart, Total(sigs)) = Add(Mul(e, EvenY(c.pk)), EvenY(R))
    BY <1>1, <1>2, <1>12, <1>13, VerifyIff
<1>15. Accepted(x, sigs) <=> Add(x.sPart, Total(sigs)) = Add(x.sPart, Total(Owed(x)))
    BY <1>10, <1>14
<1>16. x.sPart \in Scalars
    BY <1>2, <1>8
<1> QED BY <1>11, <1>15, <1>16, AddCancel

LEMMA RejectedIff ==
    ASSUME NEW x, GoodSession(x), NEW sigs \in [1 .. N -> Scalars], NEW i \in 1 .. N
    PROVE  i \in Rejected(x, sigs) <=> sigs[i] # Owed(x)[i]
<1>1. x \in Sessions /\ x.of \in Caches /\ x.nonces[i] \in Nonces /\ KeyList[i] \in Points
  <2>1. x \in Sessions
      BY SessionFacts
  <2> QED BY <2>1, SessionTypes, ListFacts
<1>2. PartialVerify(x, x.of, sigs[i], x.nonces[i], KeyList[i])
          <=> sigs[i] = Share(x, x.of, x.nonces[i], KeyList[i])
    BY <1>1, VerifiesIffShare
<1> QED BY <1>2, ListFacts DEF Rejected, Owed

-----------------------------------------------------------------------------
(* The invariant.                                                          *)
Types == /\ cache \in [Signers -> Caches]
         /\ tweaks \in 0 .. MaxTweaks
         /\ unused \in [Signers -> SUBSET Ids]
         /\ secnonces \in [Signers -> SUBSET Nonces]
         /\ exported \in [Signers -> SUBSET Nonces]
         /\ session \in [Signers -> Sessions \cup {NoSession}]
         /\ pubnonces \subseteq Nonces
         /\ partials \subseteq Partials

(* Caches, sessions and partial signatures come from the operations.       *)
Produced == /\ PubkeyAgg(KeyList) \in Points
            /\ \A s \in Signers : /\ GoodCache(cache[s])
                                  /\ session[s] = NoSession \/ GoodSession(session[s])
            /\ \A p \in partials : /\ p.pk = p.nonce.pk
                                  /\ p.s = Share(p.session, p.cache, p.nonce, p.pk)

(* A nonce was made from a secrand that its signer drew.  One that signed  *)
(* is gone, unless its bytes were exported.                                *)
NoncesDrawn ==
    /\ \A s \in Signers : /\ unused[s] \subseteq Secrands[s]
                          /\ secnonces[s] \cup exported[s] \subseteq pubnonces
                          /\ \A n \in secnonces[s] \cup exported[s] :
                                n.id \in Secrands[s] \ unused[s]
    /\ \A p \in partials, s \in Signers :
          /\ p.nonce.id \notin unused[s]
          /\ p.nonce \in secnonces[s] => p.nonce \in exported[s]
    /\ \A p, q \in partials :
          p.nonce = q.nonce /\ p # q => \E s \in Signers : p.nonce \in exported[s]

IInv == Types /\ Produced /\ NoncesDrawn

LEMMA NewCacheGood == PubkeyAgg(KeyList) \in Points => GoodCache(NewCache(KeyList))
<1> HAVE PubkeyAgg(KeyList) \in Points
<1>1. NewCache(KeyList).pks = KeyList /\ NewCache(KeyList).second = SecondKey(KeyList)
    BY DEF NewCache
<1> QED BY <1>1, NewCacheSound, KeyListAssumption DEF GoodCache

LEMMA TweakGood ==
    ASSUME NEW c, GoodCache(c), NEW t \in Tweaks, NEW xonly \in BOOLEAN
    PROVE  GoodCache(PubkeyTweakAdd(c, t, xonly))
<1>1. /\ c \in Caches /\ t \in Scalars /\ PubkeyAgg(c.pks) \in Points
      /\ KeyIsAccounted(c) /\ CopiesAgree(c)
    BY TweaksAssumption DEF GoodCache
<1> HIDE DEF GoodCache
<1>2. LET d == PubkeyTweakAdd(c, t, xonly)
      IN  /\ d \in Caches /\ d.pks = c.pks /\ d.second = c.second
          /\ KeyIsAccounted(d) /\ CopiesAgree(d)
    BY <1>1, TweakSound
<1> QED BY <1>2 DEF GoodCache

LEMMA InitOK == Init => IInv
<1> HAVE Init
<1>1. GoodCache(NewCache(KeyList))
    BY NewCacheGood DEF Init
<1>2. NewCache(KeyList) \in Caches
    BY <1>1 DEF GoodCache
<1>3. Types
    BY <1>2, SecrandsAssumption, MaxTweaksAssumption DEF Init, Types
<1>4. Produced
    BY <1>1 DEF Init, Produced
<1>5. NoncesDrawn
    BY DEF Init, NoncesDrawn
<1> QED BY <1>3, <1>4, <1>5 DEF IInv

LEMMA TweakOK ==
    ASSUME IInv, NEW s \in Signers, NEW t \in Tweaks, NEW xonly \in BOOLEAN, Tweak(s, t, xonly)
    PROVE  IInv'
<1>1. GoodCache(PubkeyTweakAdd(cache[s], t, xonly))
    BY TweakGood DEF IInv, Produced
<1>2. PubkeyTweakAdd(cache[s], t, xonly) \in Caches
    BY <1>1 DEF GoodCache
<1>3. cache' = [cache EXCEPT ![s] = PubkeyTweakAdd(cache[s], t, xonly)]
    BY DEF Tweak
<1>4. Types'
    BY <1>2, <1>3, MaxTweaksAssumption DEF IInv, Types, Tweak
<1>5. Produced'
    BY <1>1, <1>3 DEF IInv, Types, Produced, Tweak
<1>6. NoncesDrawn'
    BY DEF IInv, NoncesDrawn, Tweak
<1> QED BY <1>4, <1>5, <1>6 DEF IInv

LEMMA NonceGenOK ==
    ASSUME IInv, NEW s \in Signers, NEW id \in unused[s], NEW kp \in Keypairs[s],
           NonceGen(s, id, kp)
    PROVE  IInv'
<1> DEFINE n == Nonce(id, kp)
<1>1. n \in Nonces /\ n.id = id
    BY DEF IInv, Types, Nonce, Nonces, AllKeypairs
<1> HIDE DEF n
<1>2. /\ unused' = [unused EXCEPT ![s] = unused[s] \ {id}]
      /\ secnonces' = [secnonces EXCEPT ![s] = secnonces[s] \cup {n}]
      /\ pubnonces' = pubnonces \cup {n}
      /\ UNCHANGED << cache, tweaks, exported, session, partials >>
    BY DEF NonceGen, n
<1>3. Types'
    BY <1>1, <1>2 DEF IInv, Types
<1>4. Produced'
    BY <1>2 DEF IInv, Produced
<1>5. NoncesDrawn'
  <2>1. \A r \in Signers : unused'[r] \subseteq unused[r]
                           /\ secnonces'[r] \subseteq secnonces[r] \cup {n}
      BY <1>2 DEF IInv, Types
  <2>2. \A r \in Signers : /\ unused'[r] \subseteq Secrands[r]
                           /\ secnonces'[r] \cup exported'[r] \subseteq pubnonces'
                           /\ \A m \in secnonces'[r] \cup exported'[r] :
                                 m.id \in Secrands[r] \ unused'[r]
    <3> TAKE r \in Signers
    <3>1. CASE r = s
        BY <3>1, <1>1, <1>2 DEF IInv, Types, NoncesDrawn
    <3>2. CASE r # s
        BY <3>2, <1>2 DEF IInv, Types, NoncesDrawn
    <3> QED BY <3>1, <3>2
  <2>3. \A p \in partials, r \in Signers :
            /\ p.nonce.id \notin unused'[r]
            /\ p.nonce \in secnonces'[r] => p.nonce \in exported[r]
      BY <1>1, <2>1 DEF IInv, NoncesDrawn
  <2> QED BY <1>2, <2>2, <2>3 DEF IInv, NoncesDrawn
<1> QED BY <1>3, <1>4, <1>5 DEF IInv

LEMMA SessionNewOK ==
    ASSUME IInv, NEW s \in Signers, NEW nonces \in [DOMAIN KeyList -> pubnonces],
           NEW msg \in Messages, SessionNew(s, nonces, msg)
    PROVE  IInv'
<1> DEFINE x == NonceProcess(cache[s], nonces, msg)
<1>1. GoodCache(cache[s]) /\ cache[s] \in Caches
    BY DEF IInv, Types, Produced
<1>2. nonces \in [DOMAIN KeyList -> Nonces] /\ GoodNonces(nonces)
    BY DEF IInv, Types, SessionNew, GoodNonces
<1>3. GoodSession(x)
    BY <1>1, <1>2 DEF GoodSession
<1>4. x \in Sessions
    BY <1>3, SessionFacts
<1> HIDE DEF x
<1>5. /\ session' = [session EXCEPT ![s] = x]
      /\ UNCHANGED << cache, tweaks, unused, secnonces, exported, pubnonces, partials >>
    BY DEF SessionNew, x
<1>6. Types'
    BY <1>4, <1>5 DEF IInv, Types
<1>7. Produced'
    BY <1>3, <1>5 DEF IInv, Types, Produced
<1>8. NoncesDrawn'
    BY <1>5 DEF IInv, NoncesDrawn
<1> QED BY <1>6, <1>7, <1>8 DEF IInv

LEMMA PartialSignOK ==
    ASSUME IInv, NEW s \in Signers, NEW n \in secnonces[s], NEW kp \in Keypairs[s],
           PartialSign(s, n, kp)
    PROVE  IInv'
<1> DEFINE p0 == [nonce |-> n, pk |-> kp, session |-> session[s], cache |-> cache[s],
                  s |-> PartialSig(session[s], n, kp, cache[s])]
<1>1. /\ n \in Nonces /\ cache[s] \in Caches /\ session[s] \in Sessions
      /\ kp \in AllKeypairs /\ kp \in Points
  <2>1. session[s].made
      BY DEF PartialSign
  <2>2. session[s] # NoSession
      BY <2>1 DEF NoSession
  <2> QED BY <2>2, KeypairsAssumption DEF IInv, Types, AllKeypairs
<1>2. /\ p0.nonce = n /\ p0.pk = kp /\ p0.session = session[s] /\ p0.cache = cache[s]
      /\ p0.s = Share(session[s], cache[s], n, kp)
    BY <1>1, PartialSigIsShare
<1>3. p0.s \in Scalars
  <2>1. /\ KeyShare(session[s].challenge, cache[s], kp) \in Scalars
        /\ NonceShare(session[s].finNonceParity, session[s].noncecoef, n) \in Scalars
      BY <1>1, SessionTypes, KeyShareClosed, NonceShareClosed
  <2> QED BY <1>2, <2>1, ClosureAssumption DEF Share
<1>4. p0 \in Partials
    BY <1>1, <1>3 DEF Partials
<1> HIDE DEF p0
<1>5. /\ secnonces' = [secnonces EXCEPT ![s] = secnonces[s] \ {n}]
      /\ partials' = IF n.pk # kp THEN partials ELSE partials \cup {p0}
      /\ UNCHANGED << cache, tweaks, unused, exported, session, pubnonces >>
    BY DEF PartialSign, p0
<1>6. Types'
    BY <1>4, <1>5 DEF IInv, Types
<1>7. Produced'
    BY <1>2, <1>5 DEF IInv, Produced
<1>8. NoncesDrawn'
  <2>1. n.id \in Secrands[s] \ unused[s]
      BY DEF IInv, NoncesDrawn
  <2>2. \A r \in Signers : /\ secnonces'[r] \subseteq secnonces[r]
                           /\ n \notin secnonces'[r]
                           /\ n.id \notin unused[r]
    <3> TAKE r \in Signers
    <3>1. CASE r = s
        BY <3>1, <1>5, <2>1 DEF IInv, Types
    <3>2. CASE r # s
      <4>1. Secrands[r] \cap Secrands[s] = {}
          BY <3>2, SecrandsAssumption
      <4>2. secnonces'[r] = secnonces[r]
          BY <3>2, <1>5 DEF IInv, Types
      <4> QED BY <2>1, <4>1, <4>2 DEF IInv, NoncesDrawn
    <3> QED BY <3>1, <3>2
  <2>3. \A p \in partials : p.nonce = n => n \in exported[s]
      BY DEF IInv, NoncesDrawn
  <2>4. \A p \in partials' : p \in partials \/ p = p0
      BY <1>5
  <2>5. \A p \in partials', r \in Signers :
            /\ p.nonce.id \notin unused[r]
            /\ p.nonce \in secnonces'[r] => p.nonce \in exported[r]
      BY <1>2, <2>2, <2>4 DEF IInv, NoncesDrawn
  <2>6. \A p, q \in partials' :
            p.nonce = q.nonce /\ p # q => \E r \in Signers : p.nonce \in exported[r]
      BY <1>2, <2>3, <2>4 DEF IInv, NoncesDrawn
  <2>7. \A r \in Signers : /\ unused[r] \subseteq Secrands[r]
                           /\ secnonces'[r] \cup exported[r] \subseteq pubnonces
                           /\ \A m \in secnonces'[r] \cup exported[r] :
                                 m.id \in Secrands[r] \ unused[r]
      BY <2>2 DEF IInv, NoncesDrawn
  <2> QED BY <1>5, <2>5, <2>6, <2>7 DEF NoncesDrawn
<1> QED BY <1>6, <1>7, <1>8 DEF IInv

LEMMA BytesOK ==
    ASSUME IInv, NEW s \in Signers, NEW n, IntoBytes(s, n) \/ FromBytes(s, n)
    PROVE  IInv'
<1>1. Types'
    BY DEF IInv, Types, IntoBytes, FromBytes
<1>2. Produced'
    BY DEF IInv, Produced, IntoBytes, FromBytes
<1>3. /\ \A r \in Signers : secnonces'[r] \cup exported'[r] \subseteq secnonces[r] \cup exported[r]
      /\ \A r \in Signers : exported[r] \subseteq exported'[r]
      /\ \A r \in Signers : secnonces'[r] \subseteq secnonces[r] \cup exported[r]
    BY DEF IInv, Types, IntoBytes, FromBytes
<1>4. UNCHANGED << unused, pubnonces, partials >>
    BY DEF IntoBytes, FromBytes
<1>5. NoncesDrawn'
  <2>1. \A r \in Signers : /\ unused[r] \subseteq Secrands[r]
                           /\ secnonces'[r] \cup exported'[r] \subseteq pubnonces
                           /\ \A m \in secnonces'[r] \cup exported'[r] :
                                 m.id \in Secrands[r] \ unused[r]
      BY <1>3 DEF IInv, NoncesDrawn
  <2>2. \A p \in partials, r \in Signers :
            /\ p.nonce.id \notin unused[r]
            /\ p.nonce \in secnonces'[r] => p.nonce \in exported'[r]
      BY <1>3 DEF IInv, NoncesDrawn
  <2>3. \A p, q \in partials :
            p.nonce = q.nonce /\ p # q => \E r \in Signers : p.nonce \in exported'[r]
      BY <1>3 DEF IInv, NoncesDrawn
  <2> QED BY <1>4, <2>1, <2>2, <2>3 DEF NoncesDrawn
<1> QED BY <1>1, <1>2, <1>5 DEF IInv

LEMMA CrashOK ==
    ASSUME IInv, NEW s \in Signers, Crash(s)
    PROVE  IInv'
<1>1. GoodCache(NewCache(KeyList)) /\ NewCache(KeyList) \in Caches
    BY NewCacheGood DEF IInv, Produced, GoodCache
<1>2. Types'
    BY <1>1, MaxTweaksAssumption DEF IInv, Types, Crash
<1>3. Produced'
    BY <1>1 DEF IInv, Types, Produced, Crash
<1>4. \A r \in Signers : secnonces'[r] \subseteq secnonces[r]
    BY DEF IInv, Types, Crash
<1>5. NoncesDrawn'
    BY <1>4 DEF IInv, NoncesDrawn, Crash
<1> QED BY <1>2, <1>3, <1>5 DEF IInv

LEMMA NextOK == IInv /\ [Next]_vars => IInv'
<1> SUFFICES ASSUME IInv, [Next]_vars PROVE IInv'
    OBVIOUS
<1>1. CASE UNCHANGED vars
    BY <1>1 DEF IInv, Types, Produced, NoncesDrawn, vars
<1>2. ASSUME NEW s \in Signers, Step(s) PROVE IInv'
    BY <1>2, TweakOK, NonceGenOK, SessionNewOK, PartialSignOK, BytesOK, CrashOK DEF Step
<1> QED BY <1>1, <1>2 DEF Next

THEOREM Invariant == Spec => []IInv
BY InitOK, NextOK, PTL DEF Spec

-----------------------------------------------------------------------------
(* The state always has its type: the scalars are reduced, no aggregate    *)
(* key or final nonce is infinity, a nonce at hand was published.          *)
THEOREM TypeCorrect == Spec => []TypeOK
<1>1. IInv => TypeOK
    BY DEF IInv, Types, NoncesDrawn, TypeOK
<1> QED BY <1>1, Invariant, PTL

(* In every ring and after every sequence of tweaks, the accumulated sign  *)
(* and tweak account for the key, whose copy in Rust is that of the C      *)
(* cache.                                                                  *)
THEOREM CachesAccountForKeys == Spec => []KeyAccounted
<1>1. IInv => KeyAccounted
    BY DEF IInv, Produced, GoodCache, KeyAccounted, CacheSound
<1> QED BY <1>1, Invariant, PTL

(* A partial signature passes partial_verify: in any ring, with any number *)
(* of signers and tweaks.                                                  *)
THEOREM HonestPartials == Spec => []HonestPartialsVerify
<1>1. IInv => HonestPartialsVerify
  <2> SUFFICES ASSUME IInv, NEW p \in partials
               PROVE  PartialVerify(p.session, p.cache, p.s, p.nonce, p.pk)
      BY DEF HonestPartialsVerify
  <2>1. /\ p.session \in Sessions /\ p.cache \in Caches /\ p.nonce \in Nonces
        /\ p.pk \in AllKeypairs /\ p.s \in Scalars
      BY DEF IInv, Types, Partials
  <2>2. p.pk \in Points
      BY <2>1, KeypairFacts
  <2>3. p.s = Share(p.session, p.cache, p.nonce, p.pk)
      BY DEF IInv, Produced
  <2> QED BY <2>1, <2>2, <2>3, VerifiesIffShare
<1> QED BY <1>1, Invariant, PTL

LEMMA SameScalars ==
    ASSUME NEW f \in [1 .. N -> Scalars], NEW g \in [1 .. N -> Scalars],
           \A i \in 1 .. N : f[i] = g[i]
    PROVE  f = g
<1>1. f = [i \in 1 .. N |-> f[i]] /\ g = [i \in 1 .. N |-> g[i]]
    OBVIOUS
<1>2. [i \in 1 .. N |-> f[i]] = [i \in 1 .. N |-> g[i]]
    OBVIOUS
<1> QED BY <1>1, <1>2

LEMMA CollectionFacts ==
    ASSUME IInv, NEW s \in Signers, session[s].made, ~ session[s].degenerate,
           NEW sigs \in Collections
    PROVE  /\ GoodSession(session[s]) /\ sigs \in [1 .. N -> Scalars]
           /\ Rejected(session[s], sigs) \subseteq 1 .. N
<1>1. session[s] # NoSession
    BY DEF NoSession
<1>2. \A p \in partials : p.s \in Scalars
    BY DEF IInv, Types, Partials
<1>3. {p.s : p \in partials} \subseteq Scalars
    BY <1>2
<1>4. sigs \in [1 .. N -> Scalars]
    BY <1>3, ListFacts DEF Collections
<1> QED BY <1>1, <1>4, ListFacts DEF IInv, Produced, Rejected

(* Signatures that all pass partial_verify aggregate to one that verifies  *)
(* for the tweaked key, even those of signers in other sessions.           *)
THEOREM AggregatesVerify == Spec => []AggregateVerifies
<1>1. IInv => AggregateVerifies
  <2> SUFFICES ASSUME IInv, NEW s \in Signers, session[s].made, ~ session[s].degenerate,
                      NEW sigs \in Collections, Rejected(session[s], sigs) = {}
               PROVE  Accepted(session[s], sigs)
      BY DEF AggregateVerifies
  <2> DEFINE x == session[s]
  <2>1. GoodSession(x) /\ sigs \in [1 .. N -> Scalars] /\ ~ x.degenerate
      BY CollectionFacts
  <2>2. Owed(x) \in [1 .. N -> Scalars]
      BY <2>1, SessionFacts, OwedClosed
  <2> HIDE DEF x
  <2>3. \A i \in 1 .. N : sigs[i] = Owed(x)[i]
      BY <2>1, RejectedIff DEF x
  <2>4. sigs = Owed(x)
    <3> DEFINE y == Owed(x)
    <3>1. y \in [1 .. N -> Scalars] /\ \A i \in 1 .. N : sigs[i] = y[i]
        BY <2>2, <2>3
    <3> HIDE DEF y
    <3>2. sigs = y
        BY <2>1, <3>1, SameScalars
    <3> QED BY <3>2 DEF y
  <2>5. Accepted(x, sigs)
      BY <2>1, <2>4, AcceptedIff
  <2> QED BY <2>5 DEF x
<1> QED BY <1>1, Invariant, PTL

(* If exactly one of them fails partial_verify, the aggregate does not     *)
(* verify.                                                                 *)
THEOREM BadPartialIsCaught == Spec => []OneBadPartialIsCaught
<1>1. IInv => OneBadPartialIsCaught
  <2> SUFFICES ASSUME IInv, NEW s \in Signers, session[s].made, ~ session[s].degenerate,
                      NEW sigs \in Collections, NEW k \in DOMAIN KeyList,
                      Rejected(session[s], sigs) = {k},
                      Accepted(session[s], sigs)
               PROVE  FALSE
      BY DEF OneBadPartialIsCaught
  <2> DEFINE x == session[s]
  <2>1. GoodSession(x) /\ sigs \in [1 .. N -> Scalars] /\ ~ x.degenerate
      BY CollectionFacts
  <2>2. Owed(x) \in [1 .. N -> Scalars] /\ k \in 1 .. N /\ N \in Nat
      BY <2>1, SessionFacts, OwedClosed, ListFacts
  <2> HIDE DEF x
  <2>3. \A i \in 1 .. N : i # k => sigs[i] = Owed(x)[i]
      BY <2>1, RejectedIff DEF x
  <2>4. sigs[k] # Owed(x)[k]
      BY <2>1, <2>2, RejectedIff DEF x
  <2>5. Total(sigs) = Total(Owed(x))
      BY <2>1, AcceptedIff DEF x
  <2>6. sigs[k] = Owed(x)[k]
      BY <2>1, <2>2, <2>3, <2>5, TotalsDiffer
  <2> QED BY <2>4, <2>6
<1> QED BY <1>1, Invariant, PTL

(* A nonce signs at most once, through crashes and restarted sessions,     *)
(* unless its bytes were exported.                                         *)
THEOREM NoncesSignOnce == Spec => []NonceSignsOnce
<1>1. IInv => NonceSignsOnce
    BY DEF IInv, Produced, NoncesDrawn, NonceSignsOnce
<1> QED BY <1>1, Invariant, PTL
=============================================================================
