----------------------------- MODULE KeysProofs -----------------------------
(***************************************************************************)
(* What keys are worth that are derived step by step, for every field,     *)
(* every parity of points, any hash functions and any number of steps.     *)
(*                                                                         *)
(* The invariant says of every step that was told what the public          *)
(* functions make of the key before it.  The proof of a step of the owner  *)
(* is that the secret functions make the same of it, and fail for the same *)
(* keys; then the follower, who applies the public ones, stays on the path *)
(* of the owner however far behind.                                        *)
(***************************************************************************)
EXTENDS Keys, CurveLemmas

Ops == {"add", "mul", "negate", "xonly", "base"}
StepTold == [op : Ops, tweak : Scalars, key : Points]

(* What the public functions make of a key.                                *)
XOnlyResult(tweaked) == IF tweaked = Error THEN Error ELSE FromXOnly(tweaked.key, tweaked.odd)
Public(p, op, t, key) ==
    IF op = "add" THEN PubkeyTweakAdd(key, t)
    ELSE IF op = "mul" THEN PubkeyTweakMul(key, t)
    ELSE IF op = "negate" THEN Neg(key)
    ELSE IF op = "xonly" THEN XOnlyResult(XOnlyTweakAdd(EvenY(key), t))
    ELSE PubkeyCombine(<< key, Mul(BaseKey[p], G) >>)

(* A step that fails leaves the key as it was.                             *)
Kept(new, old) == IF new = Error THEN old ELSE new

(* Every step told is the public function applied to the key before it,    *)
(* and the last of them gave the present key.                              *)
StepsPublic ==
    \A p \in Parties : \A i \in DOMAIN steps[p] :
        steps[p][i].key = Kept(Public(p, steps[p][i].op, steps[p][i].tweak, KeyAfter(p, i - 1)),
                               KeyAfter(p, i - 1))
Current == \A p \in Parties : keypair[p].pk = KeyAfter(p, Len(steps[p]))

IInv == TypeOK /\ KeypairsMatch /\ Current /\ StepsPublic /\ ViewsFollow

(* Products of numbers other than zero.                                    *)
LEMMA MulPoints == \A a, b \in Points : Mul(a, b) \in Points
BY ClosureAssumption, FieldAssumption DEF Points, Infinity

(* A number or a failure, as most functions return.                        *)
LEMMA NotZeroFacts ==
    \A x \in Scalars : /\ NotZero(x) \in Points \cup {Error}
                       /\ NotZero(x) # Error => NotZero(x) = x
                       /\ NotZero(x) = Error <=> x = Zero
BY ErrorAssumption DEF NotZero, Points, Infinity

LEMMA ErrorNoKey ==
    /\ Error \notin Scalars /\ Error \notin Points
    /\ \A sk, pk \in Points : [sk |-> sk, pk |-> pk] # Error
    /\ \A key \in Points, odd \in BOOLEAN : [key |-> key, odd |-> odd] # Error
<1>1. \A sk, pk \in Points : [sk |-> sk, pk |-> pk] \in [sk : Points, pk : Points]
    OBVIOUS
<1>2. \A key \in Points, odd \in BOOLEAN :
          [key |-> key, odd |-> odd] \in [key : Points, odd : BOOLEAN]
    OBVIOUS
<1>3. Points \subseteq Scalars
    BY DEF Points
<1> HIDE DEF Points
<1> QED BY <1>1, <1>2, <1>3, ErrorAssumption

(* The secret functions and the public ones make the same of a key, and    *)
(* fail for the same.                                                      *)
LEMMA TweaksAgree ==
    ASSUME NEW k \in Points, NEW t \in Scalars
    PROVE  /\ PubkeyTweakAdd(k, t) = PrivkeyTweakAdd(k, t)
           /\ PrivkeyTweakAdd(k, t) \in Points \cup {Error}
           /\ PrivkeyTweakAdd(k, t) = NotZero(Add(k, t))
           /\ PubkeyTweakMul(k, t) = PrivkeyTweakMul(k, t)
           /\ PrivkeyTweakMul(k, t) \in Points \cup {Error}
           /\ PubkeyCombine(<< k, Mul(t, G) >>) = PrivkeyTweakAdd(k, t)
<1>1. k \in Scalars /\ Mul(t, G) = t /\ Add(k, t) \in Scalars
    BY MulG, ClosureAssumption DEF Points
<1>2. Mul(k, t) = Mul(t, k) /\ (t # Zero => Mul(k, t) \in Points)
    BY <1>1, RingAssumption, MulPoints DEF Points, Infinity
<1>3. Total(<< k, t >>) = Add(k, t)
    BY <1>1, TotalTwo
<1> QED BY <1>1, <1>2, <1>3, NotZeroFacts
        DEF PubkeyTweakAdd, PrivkeyTweakAdd, PubkeyTweakMul, PrivkeyTweakMul, PubkeyCombine

(* A point is its even one with the sign of its parity.                    *)
LEMMA EvenYBack == \A k \in Points : /\ EvenY(k) \in Points /\ Odd(k) \in BOOLEAN
                                     /\ NegIf(Odd(k), EvenY(k)) = k
BY NegPoint, EvenYFacts DEF EvenY, NegIf

LEMMA XOnlyTweaksAgree ==
    ASSUME NEW k \in Points, NEW t \in Scalars
    PROVE  LET r == PrivkeyTweakAdd(EvenY(k), t)
           IN  /\ r \in Points \cup {Error}
               /\ KeypairXOnlyTweakAdd([sk |-> k, pk |-> k], t) = FromSecret(r)
               /\ XOnlyResult(XOnlyTweakAdd(EvenY(k), t)) = r
<1> DEFINE r == PrivkeyTweakAdd(EvenY(k), t)
           tweaked == XOnlyTweakAdd(EvenY(k), t)
<1>1. EvenY(k) \in Points /\ NegIf(Odd(k), k) = EvenY(k)
    BY EvenYFacts DEF EvenY
<1>2. r \in Points \cup {Error} /\ PubkeyTweakAdd(EvenY(k), t) = r
    BY <1>1, TweaksAgree
<1>3. KeypairXOnlyTweakAdd([sk |-> k, pk |-> k], t)
          = IF r = Error THEN Error ELSE [sk |-> r, pk |-> r]
    BY <1>1, <1>2 DEF KeypairXOnlyTweakAdd
<1>4. tweaked = IF r = Error THEN Error ELSE [key |-> EvenY(r), odd |-> Odd(r)]
    BY <1>2 DEF XOnlyTweakAdd
<1> HIDE DEF r, tweaked
<1>5. FromSecret(r) = IF r = Error THEN Error ELSE [sk |-> r, pk |-> r]
    BY <1>2, MulG DEF FromSecret, Create, Points
<1>6. CASE r = Error
    BY <1>3, <1>4, <1>5, <1>6, <1>2 DEF XOnlyResult, r, tweaked
<1>7. CASE r # Error
  <2>1. r \in Points /\ EvenY(r) \in Points /\ Odd(r) \in BOOLEAN
        /\ NegIf(Odd(r), EvenY(r)) = r
      BY <1>2, <1>7, EvenYBack
  <2>2. tweaked = [key |-> EvenY(r), odd |-> Odd(r)] /\ tweaked # Error
      BY <1>4, <1>7, <2>1, ErrorNoKey
  <2>3. tweaked.key = EvenY(r) /\ tweaked.odd = Odd(r)
      BY <2>2, Zenon
  <2>4. XOnlyResult(tweaked) = r
      BY <2>1, <2>2, <2>3 DEF XOnlyResult, FromXOnly
  <2> QED BY <1>3, <1>5, <1>2, <2>4 DEF r, tweaked
<1> QED BY <1>6, <1>7

----------------------------------------------------------------------------
LEMMA StepsTyped ==
    ASSUME TypeOK, NEW p \in Parties
    PROVE  /\ steps[p] \in Seq(StepTold) /\ Len(steps[p]) \in Nat
           /\ DOMAIN steps[p] = 1 .. Len(steps[p])
           /\ view[p].at \in 0 .. Len(steps[p])
<1>1. /\ steps[p] \in Seq(StepTold)
      /\ view[p] \in [key : Points, at : Nat] /\ view[p].at <= Len(steps[p])
    BY DEF TypeOK, StepTold, Ops
<1>2. Len(steps[p]) \in Nat /\ DOMAIN steps[p] = 1 .. Len(steps[p])
    BY <1>1
<1>3. view[p].at \in Nat
    BY <1>1
<1> QED BY <1>1, <1>2, <1>3

LEMMA StepTyped ==
    ASSUME TypeOK, NEW p \in Parties, NEW i \in 1 .. Len(steps[p])
    PROVE  /\ steps[p][i] \in StepTold
           /\ steps[p][i].op \in Ops /\ steps[p][i].tweak \in Scalars
           /\ steps[p][i].key \in Points
<1>1. steps[p] \in Seq(StepTold)
    BY DEF TypeOK, StepTold, Ops
<1>2. steps[p][i] \in StepTold
    BY <1>1
<1> QED BY <1>2 DEF StepTold

LEMMA KeyAfterTyped ==
    ASSUME TypeOK, NEW p \in Parties, NEW i \in 0 .. Len(steps[p])
    PROVE  KeyAfter(p, i) \in Points
<1>1. steps[p] \in Seq(StepTold)
    BY DEF TypeOK, StepTold, Ops
<1>2. Mul(BaseKey[p], G) \in Points
    BY BaseKeyAssumption, MulG DEF Points
<1>3. CASE i = 0
    BY <1>2, <1>3 DEF KeyAfter
<1>4. CASE i # 0
  <2>1. i \in 1 .. Len(steps[p])
      BY <1>1, <1>4
  <2> QED BY <2>1, <1>4, StepTyped DEF KeyAfter
<1> QED BY <1>3, <1>4

(* The halves of a key pair are written by the same number.                *)
LEMMA KeypairIs ==
    ASSUME TypeOK, KeypairsMatch, NEW p \in Parties
    PROVE  /\ keypair[p].sk \in Points /\ keypair[p].pk = keypair[p].sk
           /\ keypair[p] = [sk |-> keypair[p].sk, pk |-> keypair[p].sk]
BY MulG DEF TypeOK, KeypairsMatch, Points

LEMMA InitIInv == Init => IInv
<1> HAVE Init
<1>1. \A p \in Parties : /\ BaseKey[p] \in Points /\ Mul(BaseKey[p], G) = BaseKey[p]
                         /\ Len(steps[p]) = 0 /\ steps[p] = << >>
    BY BaseKeyAssumption, MulG DEF Init, Points
<1>2. TypeOK
    BY <1>1 DEF Init, TypeOK, Create
<1> QED BY <1>1, <1>2
        DEF Init, IInv, KeypairsMatch, Current, StepsPublic, ViewsFollow, KeyAfter, Create

(* A step of the owner whose secret function agrees with the public one.   *)
LEMMA DeriveStep ==
    ASSUME IInv, NEW p \in Parties, NEW op \in Ops, NEW t \in Scalars,
           NEW r \in Points \cup {Error},
           Public(p, op, t, keypair[p].sk) = r,
           Derive(p, op, t, FromSecret(r))
    PROVE  IInv'
<1> DEFINE new == IF FromSecret(r) = Error THEN keypair[p] ELSE FromSecret(r)
           told == [op |-> op, tweak |-> t, key |-> new.pk]
<1> USE DEF IInv
<1>0. PICK n \in Nat : n = Len(steps[p])
    BY StepsTyped
<1>1. /\ keypair[p].sk \in Points /\ keypair[p].pk = keypair[p].sk
      /\ keypair[p] \in [sk : Points, pk : Points]
    BY KeypairIs DEF TypeOK
<1>2. /\ new \in [sk : Points, pk : Points] /\ new.pk = Mul(new.sk, G)
      /\ new.pk = Kept(r, keypair[p].sk)
  <2>1. CASE r = Error
      BY <1>1, <2>1, MulG DEF FromSecret, Kept, Points
  <2>2. CASE r # Error
    <3>1. r \in Points /\ Mul(r, G) = r
        BY <2>2, MulG DEF Points
    <3>2. FromSecret(r) = [sk |-> r, pk |-> r] /\ FromSecret(r) # Error
        BY <2>2, <3>1, ErrorNoKey DEF FromSecret, Create
    <3> QED BY <2>2, <3>1, <3>2 DEF Kept
  <2> QED BY <2>1, <2>2
<1>3. /\ keypair' = [keypair EXCEPT ![p] = new]
      /\ steps' = [steps EXCEPT ![p] = Append(@, told)]
      /\ view' = view
    BY DEF Derive
<1>4. told \in StepTold /\ told.op = op /\ told.tweak = t /\ told.key = new.pk
    BY <1>2 DEF StepTold
<1> HIDE DEF new, told
<1>5. \A q \in Parties : /\ steps[q] \in Seq(StepTold) /\ Len(steps[q]) \in Nat
                         /\ DOMAIN steps[q] = 1 .. Len(steps[q])
    BY StepsTyped
<1>6. \A q \in Parties : q # p => steps'[q] = steps[q] /\ keypair'[q] = keypair[q]
    BY <1>3 DEF TypeOK
<1>7. /\ keypair'[p] = new
      /\ steps'[p] \in Seq(StepTold) /\ Len(steps'[p]) = n + 1
      /\ DOMAIN steps'[p] = 1 .. n + 1
      /\ steps'[p][n + 1] = told
      /\ \A i \in 1 .. n : steps'[p][i] = steps[p][i]
    BY <1>0, <1>3, <1>4, <1>5 DEF TypeOK
<1>8. TypeOK'
  <2>1. keypair' \in [Parties -> [sk : Points, pk : Points]]
      BY <1>2, <1>3 DEF TypeOK
  <2>2. steps' \in [Parties -> Seq(StepTold)]
      BY <1>3, <1>5, <1>7 DEF TypeOK
  <2>3. view' \in [Parties -> [key : Points, at : Nat]]
      BY <1>3 DEF TypeOK
  <2>4. \A q \in Parties : view'[q].at <= Len(steps'[q])
      BY <1>0, <1>3, <1>5, <1>6, <1>7 DEF TypeOK
  <2> QED BY <2>1, <2>2, <2>3, <2>4 DEF TypeOK, StepTold, Ops
<1>9. \A q \in Parties : \A i \in 0 .. Len(steps[q]) : KeyAfter(q, i)' = KeyAfter(q, i)
    BY <1>0, <1>5, <1>6, <1>7 DEF KeyAfter
<1>10. KeyAfter(p, n + 1)' = new.pk
    BY <1>0, <1>4, <1>7 DEF KeyAfter
<1>11. KeypairsMatch'
    BY <1>2, <1>6, <1>7 DEF KeypairsMatch
<1>12. Current'
    BY <1>0, <1>5, <1>6, <1>7, <1>9, <1>10 DEF Current
<1>13. StepsPublic'
  <2> SUFFICES ASSUME NEW q \in Parties, NEW i \in DOMAIN steps'[q]
               PROVE  steps'[q][i].key =
                          Kept(Public(q, steps'[q][i].op, steps'[q][i].tweak, KeyAfter(q, i - 1)'),
                               KeyAfter(q, i - 1)')
      BY DEF StepsPublic
  <2>1. CASE q = p /\ i = n + 1
    <3>1. KeyAfter(p, n)' = keypair[p].sk
        BY <1>0, <1>1, <1>5, <1>9 DEF Current
    <3> QED BY <2>1, <3>1, <1>2, <1>4, <1>7
  <2>2. CASE ~ (q = p /\ i = n + 1)
    <3>1. i \in 1 .. Len(steps[q]) /\ i - 1 \in 0 .. Len(steps[q]) /\ i \in DOMAIN steps[q]
          /\ steps'[q][i] = steps[q][i]
      <4>1. CASE q = p
        <5>1. i \in 1 .. n + 1 /\ i # n + 1
            BY <2>2, <4>1, <1>7
        <5>2. i \in 1 .. n /\ i - 1 \in 0 .. n
            BY <5>1
        <5> QED BY <4>1, <5>2, <1>0, <1>5, <1>7
      <4>2. CASE q # p
        <5>1. steps'[q] = steps[q] /\ i \in 1 .. Len(steps[q])
            BY <4>2, <1>5, <1>6
        <5> QED BY <5>1, <1>5
      <4> QED BY <4>1, <4>2
    <3>2. KeyAfter(q, i - 1)' = KeyAfter(q, i - 1)
        BY <3>1, <1>9
    <3> QED BY <3>1, <3>2 DEF StepsPublic
  <2> QED BY <2>1, <2>2
<1>14. ViewsFollow'
  <2>1. \A q \in Parties : view[q].at \in 0 .. Len(steps[q])
      BY <1>5 DEF TypeOK
  <2> QED BY <2>1, <1>3, <1>9 DEF ViewsFollow
<1> QED BY <1>8, <1>11, <1>12, <1>13, <1>14

(* A step of those who follow.                                             *)
LEMMA FollowStep ==
    ASSUME IInv, NEW p \in Parties, NEW op, NEW key,
           Follow(p, op, key),
           key = Public(p, op, NextStep(p).tweak, view[p].key)
    PROVE  IInv'
<1> DEFINE i == view[p].at + 1
<1> USE DEF IInv
<1>1. /\ view[p].at \in Nat /\ steps[p] \in Seq(StepTold) /\ Len(steps[p]) \in Nat
      /\ view[p].at < Len(steps[p]) /\ DOMAIN steps[p] = 1 .. Len(steps[p])
    BY StepsTyped DEF Follow
<1>2. i \in 1 .. Len(steps[p]) /\ i \in DOMAIN steps[p] /\ i - 1 = view[p].at
    BY <1>1
<1>3. steps[p][i].op = op /\ NextStep(p).tweak = steps[p][i].tweak
    BY DEF Follow, NextStep
<1>4. view[p].key = KeyAfter(p, i - 1)
    BY <1>2 DEF ViewsFollow
<1>5. steps[p][i].key = Kept(key, view[p].key) /\ steps[p][i].key \in Points
    BY <1>2, <1>3, <1>4, StepTyped DEF StepsPublic
<1>6. /\ keypair' = keypair /\ steps' = steps
      /\ view' = [view EXCEPT ![p] = [key |-> steps[p][i].key, at |-> i]]
    BY <1>5 DEF Follow, Kept
<1>7. \A q \in Parties : \A j : KeyAfter(q, j)' = KeyAfter(q, j)
    BY <1>6 DEF KeyAfter
<1>8. KeyAfter(p, i) = steps[p][i].key
    BY <1>2 DEF KeyAfter
<1>9. TypeOK'
  <2>1. view' \in [Parties -> [key : Points, at : Nat]]
      BY <1>2, <1>5, <1>6 DEF TypeOK
  <2>2. \A q \in Parties : view'[q].at <= Len(steps[q])
      BY <1>1, <1>2, <1>6 DEF TypeOK
  <2> QED BY <1>6, <2>1, <2>2 DEF TypeOK
<1>10. KeypairsMatch' /\ Current' /\ StepsPublic'
    BY <1>6, <1>7 DEF KeypairsMatch, Current, StepsPublic
<1>11. ViewsFollow'
    BY <1>1, <1>6, <1>7, <1>8 DEF ViewsFollow, TypeOK
<1> QED BY <1>9, <1>10, <1>11

LEMMA OwnerStep ==
    ASSUME IInv, NEW p \in Parties, Owner(p)
    PROVE  IInv'
<1> DEFINE k == keypair[p].sk
<1>1. k \in Points /\ k \in Scalars /\ keypair[p] = [sk |-> k, pk |-> k]
    BY KeypairIs DEF IInv, Points
<1>2. ASSUME NEW t \in TweakScalars, AddTweak(p, t) PROVE IInv'
  <2>1. t \in Scalars /\ "add" \in Ops
      BY TweakScalarsAssumption DEF Ops
  <2>2. /\ Public(p, "add", t, k) = PrivkeyTweakAdd(k, t)
        /\ PrivkeyTweakAdd(k, t) \in Points \cup {Error}
      BY <1>1, <2>1, TweaksAgree DEF Public
  <2> QED BY <1>2, <2>1, <2>2, DeriveStep DEF AddTweak
<1>3. ASSUME NEW t \in TweakScalars, MulTweak(p, t) PROVE IInv'
  <2>1. t \in Scalars /\ "mul" \in Ops
      BY TweakScalarsAssumption DEF Ops
  <2>2. /\ Public(p, "mul", t, k) = PrivkeyTweakMul(k, t)
        /\ PrivkeyTweakMul(k, t) \in Points \cup {Error}
      BY <1>1, <2>1, TweaksAgree DEF Public
  <2> QED BY <1>3, <2>1, <2>2, DeriveStep DEF MulTweak
<1>4. ASSUME NEW t \in TweakScalars, AddXOnlyTweak(p, t) PROVE IInv'
  <2> DEFINE r == PrivkeyTweakAdd(EvenY(k), t)
  <2>1. t \in Scalars /\ "xonly" \in Ops
      BY TweakScalarsAssumption DEF Ops
  <2>2. /\ r \in Points \cup {Error}
        /\ KeypairXOnlyTweakAdd(keypair[p], t) = FromSecret(r)
        /\ Public(p, "xonly", t, k) = r
      BY <1>1, <2>1, XOnlyTweaksAgree DEF Public
  <2>3. Derive(p, "xonly", t, FromSecret(r))
      BY <1>4, <2>2 DEF AddXOnlyTweak
  <2> QED BY <2>1, <2>2, <2>3, DeriveStep
<1>5. CASE Negate(p)
  <2>1. Neg(k) \in Points /\ "negate" \in Ops /\ Zero \in Scalars
      BY <1>1, NegPoint, ClosureAssumption DEF Ops
  <2>2. Public(p, "negate", Zero, k) = Neg(k)
      BY DEF Public
  <2> QED BY <1>5, <2>1, <2>2, DeriveStep DEF Negate
<1>6. CASE AddBase(p)
  <2>1. BaseKey[p] \in Scalars /\ "base" \in Ops /\ Zero \in Scalars
      BY BaseKeyAssumption, ClosureAssumption DEF Ops, Points
  <2>2. /\ Public(p, "base", Zero, k) = PrivkeyTweakAdd(k, BaseKey[p])
        /\ PrivkeyTweakAdd(k, BaseKey[p]) \in Points \cup {Error}
      BY <1>1, <2>1, TweaksAgree DEF Public
  <2> QED BY <1>6, <2>1, <2>2, DeriveStep DEF AddBase
<1> QED BY <1>2, <1>3, <1>4, <1>5, <1>6 DEF Owner

LEMMA FollowerStep ==
    ASSUME IInv, NEW p \in Parties, Follower(p)
    PROVE  IInv'
<1>1. CASE AddExpTweak(p)
    BY <1>1, FollowStep DEF AddExpTweak, Public
<1>2. CASE MulTweakPublic(p)
    BY <1>2, FollowStep DEF MulTweakPublic, Public
<1>3. CASE NegatePublic(p)
    BY <1>3, FollowStep DEF NegatePublic, Public
<1>4. CASE AddTweakXOnly(p)
    BY <1>4, FollowStep DEF AddTweakXOnly, Public, XOnlyResult
<1>5. CASE Combine(p)
    BY <1>5, FollowStep DEF Combine, Public
<1> QED BY <1>1, <1>2, <1>3, <1>4, <1>5 DEF Follower

LEMMA IInvStep == IInv /\ [Next]_vars => IInv'
<1> SUFFICES ASSUME IInv, [Next]_vars PROVE IInv'
    OBVIOUS
<1>1. ASSUME NEW p \in Parties, Owner(p) \/ Follower(p) PROVE IInv'
    BY <1>1, OwnerStep, FollowerStep
<1>2. CASE UNCHANGED vars
    BY <1>2 DEF vars, IInv, TypeOK, KeypairsMatch, Current, StepsPublic, ViewsFollow, KeyAfter
<1> QED BY <1>1, <1>2 DEF Next

LEMMA Invariance == Spec => []IInv
BY InitIInv, IInvStep, PTL DEF Spec

----------------------------------------------------------------------------
(* What the invariant implies.  A point is its x-only key and parity.      *)
LEMMA EvenYInjective ==
    \A a, b \in Points : EvenY(a) = EvenY(b) /\ Odd(a) = Odd(b) => a = b
<1> TAKE a, b \in Points
<1>1. NegIf(Odd(a), EvenY(a)) = a /\ NegIf(Odd(b), EvenY(b)) = b
    BY EvenYBack
<1> QED BY <1>1

LEMMA IInvChecksBind == IInv => ChecksBind
<1> SUFFICES ASSUME IInv, NEW p \in Parties, NEW i \in DOMAIN steps[p],
                    steps[p][i].op = "xonly",
                    PubkeyTweakAdd(EvenY(KeyAfter(p, i - 1)), steps[p][i].tweak) # Error,
                    NEW t \in Scalars
             PROVE  TweakAddCheck(EvenY(KeyAfter(p, i - 1)), EvenY(KeyAfter(p, i)),
                                  Odd(KeyAfter(p, i)), t)
                        <=> t = steps[p][i].tweak
    BY DEF ChecksBind
<1> DEFINE used == steps[p][i].tweak
           even == EvenY(KeyAfter(p, i - 1))
           after == KeyAfter(p, i)
           r == PubkeyTweakAdd(even, used)
           pk == PubkeyTweakAdd(even, t)
<1>1. i \in 1 .. Len(steps[p]) /\ i - 1 \in 0 .. Len(steps[p])
    BY StepsTyped DEF IInv
<1>2. /\ KeyAfter(p, i - 1) \in Points /\ used \in Scalars
      /\ after = steps[p][i].key /\ after \in Points
    BY <1>1, StepTyped, KeyAfterTyped DEF IInv, KeyAfter
<1>3. even \in Points /\ even \in Scalars
    BY <1>2, EvenYFacts DEF Points
<1>4. /\ r = NotZero(Add(even, used)) /\ r = PrivkeyTweakAdd(even, used)
      /\ pk = NotZero(Add(even, t)) /\ pk \in Points \cup {Error}
    BY <1>2, <1>3, TweaksAgree
<1>5. after = r /\ after = Add(even, used)
  <2>1. after = Kept(Public(p, "xonly", used, KeyAfter(p, i - 1)), KeyAfter(p, i - 1))
      BY <1>2 DEF IInv, StepsPublic
  <2>2. Public(p, "xonly", used, KeyAfter(p, i - 1)) = r
      BY <1>2, <1>4, XOnlyTweaksAgree DEF Public
  <2>3. r # Error
      OBVIOUS
  <2>4. Add(even, used) \in Scalars
      BY <1>2, <1>3, ClosureAssumption
  <2> QED BY <2>1, <2>2, <2>3, <2>4, <1>4, NotZeroFacts DEF Kept
<1>6. TweakAddCheck(even, EvenY(after), Odd(after), t)
          <=> pk # Error /\ EvenY(pk) = EvenY(after) /\ Odd(pk) = Odd(after)
    BY DEF TweakAddCheck
<1> HIDE DEF used, even, after, r, pk
<1>7. ASSUME t = used PROVE pk = after /\ pk # Error
    BY <1>7, <1>2, <1>4, <1>5, ErrorNoKey
<1>8. ASSUME pk # Error, EvenY(pk) = EvenY(after), Odd(pk) = Odd(after) PROVE t = used
  <2>1. pk = after
      BY <1>2, <1>4, <1>8, EvenYInjective
  <2>2. Add(even, t) \in Scalars
      BY <1>3, ClosureAssumption
  <2>3. pk = Add(even, t)
      BY <2>2, <1>4, <1>8, NotZeroFacts
  <2> QED BY <2>1, <2>3, <1>2, <1>3, <1>5, AddCancel
<1> QED BY <1>6, <1>7, <1>8 DEF used, even, after

(* Who followed to the end has the present key.                            *)
LEMMA PresentKey ==
    ASSUME IInv, NEW p \in Parties, view[p].at = Len(steps[p])
    PROVE  view[p].key = keypair[p].sk /\ keypair[p].pk = keypair[p].sk
           /\ keypair[p].sk \in Points
BY KeypairIs DEF IInv, ViewsFollow, Current

LEMMA IInvSecretsAgree == IInv => SharedSecretsAgree
<1> SUFFICES ASSUME IInv, NEW p \in Parties, NEW q \in Parties,
                    view[p].at = Len(steps[p]), view[q].at = Len(steps[q])
             PROVE  Ecdh(view[q].key, keypair[p].sk) = Ecdh(view[p].key, keypair[q].sk)
    BY DEF SharedSecretsAgree, SharedSecretNew, SharedSecretPoint
<1>1. /\ view[p].key = keypair[p].sk /\ keypair[p].sk \in Points
      /\ view[q].key = keypair[q].sk /\ keypair[q].sk \in Points
    BY PresentKey
<1>2. Mul(keypair[q].sk, keypair[p].sk) = Mul(keypair[p].sk, keypair[q].sk)
    BY <1>1, RingAssumption DEF Points
<1> QED BY <1>1, <1>2 DEF Ecdh, Points, Infinity

(* A signature verifies for the s that was computed, and for no other.     *)
LEMMA SignatureVerifies ==
    ASSUME NEW k \in Points, NEW m \in Messages, NEW aux \in AuxRands \cup {NoAuxRand}
    PROVE  LET sig == SignHelper(m, [sk |-> k, pk |-> k], aux)
           IN  /\ sig # Panicked
               /\ \A s \in Scalars :
                      Verify([sig EXCEPT !.s = s], m, EvenY(k)) = "Ok" <=> s = sig.s
<1> DEFINE d == EvenY(k)
           k0 == NonceHash(aux, d, m)
           e == ChallengeHash(XOnly(k0), XOnly(k), m)
           sig == [r |-> XOnly(k0), s |-> Add(Mul(e, d), EvenY(k0))]
<1>1. d \in Points /\ XOnly(d) = XOnly(k) /\ k0 \in Points
    BY EvenYFacts, HashAssumption
<1>2. e \in Scalars
    BY <1>1, HashAssumption
<1>3. /\ d \in Scalars /\ k0 \in Scalars /\ k0 # Zero /\ Mul(k0, G) = k0
      /\ EvenY(k0) \in Points /\ EvenY(k0) \in Scalars
      /\ Mul(e, d) \in Scalars
    BY <1>1, <1>2, MulG, EvenYFacts, ClosureAssumption DEF Points, Infinity
<1>4. Add(Mul(e, d), EvenY(k0)) \in Scalars
    BY <1>3, ClosureAssumption
<1>5. SchnorrSign([sk |-> k, pk |-> k], m, aux) = sig
    BY <1>3 DEF SchnorrSign, EvenY
<1>6. sig \in [r : {XOnly(q) : q \in Points}, s : Scalars]
    BY <1>1, <1>4
<1>7. sig # Error /\ sig # Panicked
    BY <1>6, ErrorAssumption
<1>8. SignHelper(m, [sk |-> k, pk |-> k], aux) = sig
    BY <1>5, <1>7 DEF SignHelper
<1>9. ASSUME NEW s \in Scalars
      PROVE  SchnorrVerify([sig EXCEPT !.s = s], m, d) <=> s = sig.s
  <2> DEFINE ed == Mul(e, d)
             point == Add(s, Neg(ed))
  <2>1. ed \in Scalars /\ Neg(ed) \in Scalars /\ Mul(Neg(e), d) = Neg(ed) /\ Mul(s, G) = s
    <3>1. Neg(e) \in Scalars /\ Mul(Neg(e), d) = Mul(d, Neg(e)) /\ Mul(d, e) = Mul(e, d)
        BY <1>2, <1>3, ClosureAssumption, RingAssumption
    <3>2. Mul(d, Neg(e)) = Neg(Mul(d, e))
        BY <1>2, <1>3, MulNeg
    <3> QED BY <3>1, <3>2, <1>3, ClosureAssumption, MulG
  <2>2. point \in Scalars
      BY <2>1, ClosureAssumption
  <2>3. SchnorrVerify([sig EXCEPT !.s = s], m, d)
            <=> point # Infinity /\ ~ Odd(point) /\ point \in XOnly(k0)
      BY <1>1, <2>1 DEF SchnorrVerify
  <2> HIDE DEF ed, point
  <2>4. point # Infinity /\ ~ Odd(point) /\ point \in XOnly(k0) <=> point = EvenY(k0)
    <3>1. EvenY(k0) \in XOnly(k0) /\ ~ Odd(EvenY(k0)) /\ EvenY(k0) # Infinity
        BY <1>1, <1>3, EvenYFacts DEF EvenY, NegIf, XOnly, Points
    <3> QED BY <3>1, <1>1, EvenYFacts
  <2>5. point = EvenY(k0) <=> s = Add(ed, EvenY(k0))
    <3>1. Add(ed, point) = s
      <4>1. Add(ed, Add(s, Neg(ed))) = Add(Add(ed, Neg(ed)), s)
          BY <2>1, GroupAssumption
      <4> QED BY <4>1, <2>1, GroupAssumption, ClosureAssumption DEF point
    <3> QED BY <3>1, <2>1, <2>2, <1>3, AddCancel
  <2> QED BY <2>3, <2>4, <2>5 DEF ed
<1> HIDE DEF sig
<1> QED BY <1>7, <1>8, <1>9 DEF Verify

LEMMA IInvSignaturesVerify == IInv => SignaturesVerify
<1> SUFFICES ASSUME IInv, NEW p \in Parties, view[p].at = Len(steps[p]), NEW m \in Messages,
                    NEW sig \in SignWithRng(m, keypair[p]) \cup {SignNoAuxRand(m, keypair[p])}
             PROVE  /\ sig # Panicked
                    /\ \A s \in Scalars :
                           Verify([sig EXCEPT !.s = s], m, EvenY(view[p].key)) = "Ok" <=> s = sig.s
    BY DEF SignaturesVerify
<1>1. /\ keypair[p].sk \in Points /\ view[p].key = keypair[p].sk
      /\ keypair[p] = [sk |-> keypair[p].sk, pk |-> keypair[p].sk]
    BY PresentKey, KeypairIs DEF IInv
<1>2. PICK aux \in AuxRands \cup {NoAuxRand} : sig = SignHelper(m, keypair[p], aux)
    BY DEF SignWithRng, SignWithAuxRand, SignNoAuxRand
<1> QED BY <1>1, <1>2, SignatureVerifies

----------------------------------------------------------------------------
(* Theorems.                                                               *)

(* Keys are well typed: no operation that fails leaves a key that is zero, *)
(* and nobody follows further than the owner went (key/secret.rs:222-273,  *)
(* key/mod.rs:489-665).                                                    *)
THEOREM TypeCorrect == Spec => []TypeOK
<1>1. IInv => TypeOK
    BY DEF IInv
<1> QED BY <1>1, Invariance, PTL

(* Whatever the steps, failed ones included, those who repeat them on the  *)
(* public key get the keys of the owner, however far behind                *)
(* (secp256k1.c:611-729, extrakeys/main_impl.h:99-283).                    *)
THEOREM ViewsFollowOwners == Spec => []ViewsFollow
<1>1. IInv => ViewsFollow
    BY DEF IInv
<1> QED BY <1>1, Invariance, PTL

(* tweak_add_check accepts the tweak of an x-only step, with the parity    *)
(* that came of it, and no other number, whatever the group's parities     *)
(* (extrakeys/main_impl.h:135-156).                                        *)
THEOREM ChecksBindTweaks == Spec => []ChecksBind
BY IInvChecksBind, Invariance, PTL

(* However a key pair was derived, its halves belong together, two parties *)
(* who know each other's present key share a secret, and of all the s with *)
(* one nonce exactly the one signed verifies (schnorr.rs:112-151,          *)
(* schnorrsig/main_impl.h:133-267, ecdh/main_impl.h:30-69).                *)
THEOREM KeypairsAlwaysWork == Spec => []KeypairsWork
<1>1. IInv => KeypairsWork
    BY IInvSecretsAgree, IInvSignaturesVerify DEF IInv, KeypairsWork
<1> QED BY <1>1, Invariance, PTL
=============================================================================
