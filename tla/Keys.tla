-------------------------------- MODULE Keys --------------------------------
(***************************************************************************)
(* Keys, tweaks, Schnorr signatures and shared secrets (src/key,           *)
(* schnorr.rs, ecdh.rs, secp256k1.c, eckey_impl.h, modules/extrakeys,      *)
(* modules/schnorrsig, modules/ecdh).                                      *)
(*                                                                         *)
(* Every party derives keys from its key pair, step after step, and tells  *)
(* what it did, but not its secret.  The others do the same to its public  *)
(* key, with other functions and later.  A step that fails leaves the key  *)
(* as it was, on either side, since the functions of Rust take a copy.     *)
(*                                                                         *)
(* An x-only key is the point of even y, as in xonly_pubkey_load.          *)
(***************************************************************************)
EXTENDS Curve

CONSTANTS Parties,
          BaseKey,         \* BaseKey[p]: the first secret key of p
          TweakScalars,    \* the values of Scalar that are used
          MaxSteps,        \* bound: derivations of a party
          Messages,        \* that are signed
          AuxRands,        \* auxiliary random data that signatures use
          NoAuxRand,       \* the null pointer in its place
          NonceHash(_, _, _), ChallengeHash(_, _, _),
          Error,           \* what a function that fails returns
          Panicked         \* an assertion that does not hold

ASSUME BaseKeyAssumption == BaseKey \in [Parties -> Points]

ASSUME TweakScalarsAssumption == TweakScalars \subseteq Scalars

ASSUME MaxStepsAssumption == MaxSteps \in Nat

(* Failures are told apart from key pairs, tweaked keys and signatures.    *)
ASSUME ErrorAssumption ==
    /\ Error \notin Scalars \cup [sk : Points, pk : Points] \cup [key : Points, odd : BOOLEAN]
    /\ {Error, Panicked} \cap [r : {XOnly(p) : p \in Points}, s : Scalars] = {}

ASSUME NoAuxRandAssumption == NoAuxRand \notin AuxRands

ASSUME HashAssumption ==
    /\ \A m \in Messages : \A aux \in AuxRands \cup {NoAuxRand} : \A sk \in Points :
           NonceHash(aux, sk, m) \in Points
    /\ \A m \in Messages : \A r, key \in {XOnly(p) : p \in Points} : ChallengeHash(r, key, m) \in Scalars

(* The order of the group is a prime.                                      *)
ASSUME FieldAssumption ==
    \A a, b \in Scalars : Mul(a, b) = Zero => a = Zero \/ b = Zero

VARIABLES keypair,   \* keypair[p]: the Keypair of p
          steps,     \* steps[p]: what p did, with (history) its key afterwards
          view       \* view[p]: the PublicKey of p that the others have

vars == << keypair, steps, view >>

NotZero(x) == IF x = Zero THEN Error ELSE x

Create(sk) == [sk |-> sk, pk |-> Mul(sk, G)]

PrivkeyTweakAdd(sk, t) == NotZero(Add(sk, t))

PubkeyTweakAdd(pk, t) == NotZero(Add(pk, Mul(t, G)))

PrivkeyTweakMul(sk, t) == IF t = Zero THEN Error ELSE Mul(sk, t)
PubkeyTweakMul(pk, t) == IF t = Zero THEN Error ELSE Mul(t, pk)

PubkeyCombine(pks) == NotZero(Total(pks))

FromSecret(sk) == IF sk = Error THEN Error ELSE Create(sk)

(* Mutant: the secret key is not negated with the public one.              *)
KeypairXOnlyTweakAddUnsigned(kp, t) ==
    LET sk == PrivkeyTweakAdd(kp.sk, t)
        pk == PubkeyTweakAdd(EvenY(kp.pk), t)
    IN  IF sk = Error \/ pk = Error THEN Error ELSE [sk |-> sk, pk |-> pk]

(* keypair_xonly_tweak_add: both halves of the key pair are computed.      *)
KeypairXOnlyTweakAdd(kp, t) ==
    LET sk == PrivkeyTweakAdd(NegIf(Odd(kp.pk), kp.sk), t)
        pk == PubkeyTweakAdd(EvenY(kp.pk), t)
    IN  IF sk = Error \/ pk = Error THEN Error ELSE [sk |-> sk, pk |-> pk]

(* The tweaked x-only key with its parity, and back to a PublicKey.        *)
XOnlyTweakAdd(x, t) ==
    LET pk == PubkeyTweakAdd(x, t)
    IN  IF pk = Error THEN Error ELSE [key |-> EvenY(pk), odd |-> Odd(pk)]

FromXOnly(x, odd) == NegIf(odd, x)

(* Mutant: the parity is left out.                                         *)
TweakAddCheckXOnly(x, tweaked, odd, t) ==
    LET pk == PubkeyTweakAdd(x, t) IN pk # Error /\ EvenY(pk) = tweaked

TweakAddCheck(x, tweaked, odd, t) ==
    LET pk == PubkeyTweakAdd(x, t)
    IN  pk # Error /\ EvenY(pk) = tweaked /\ Odd(pk) = odd

(* What is hashed of the product: its x coordinate and, in place of y,     *)
(* whether y is odd.                                                       *)
Ecdh(point, sk) ==
    LET p == Mul(point, sk) IN IF sk = Zero THEN Error ELSE << XOnly(p), Odd(p) >>

(* SharedSecret::new, whose hash takes the parity and x, and               *)
(* shared_secret_point, which takes both coordinates.                      *)
EcdhHashDefault(p) == IF p = Error THEN Error ELSE << p[2], p[1] >>
PointCallback(p) == IF p = Error THEN Error ELSE [x |-> p[1], odd |-> p[2]]
SharedSecretNew(point, sk) == EcdhHashDefault(Ecdh(point, sk))
SharedSecretPoint(point, sk) == PointCallback(Ecdh(point, sk))

(* Mutant: the nonce is not negated when its point has an odd y.           *)
SchnorrSignOdd(kp, m, aux) ==
    LET sk == NegIf(Odd(kp.pk), kp.sk)
        k0 == NonceHash(aux, sk, m)
        r == XOnly(Mul(k0, G))
        e == ChallengeHash(r, XOnly(kp.pk), m)
    IN  IF k0 = Zero THEN Error ELSE [r |-> r, s |-> Add(Mul(e, sk), k0)]

(* Signatures hold the x coordinate of the nonce's point.  A nonce of zero *)
(* is the failure that the assertion of sign_helper excludes.              *)
SchnorrSign(kp, m, aux) ==
    LET sk == NegIf(Odd(kp.pk), kp.sk)
        k0 == NonceHash(aux, sk, m)
        r == XOnly(Mul(k0, G))
        k == NegIf(Odd(Mul(k0, G)), k0)
        e == ChallengeHash(r, XOnly(kp.pk), m)
    IN  IF k0 = Zero THEN Error ELSE [r |-> r, s |-> Add(Mul(e, sk), k)]

SchnorrVerify(sig, m, key) ==
    LET e == ChallengeHash(sig.r, XOnly(key), m)
        point == Add(Mul(sig.s, G), Mul(Neg(e), key))
    IN  point # Infinity /\ ~ Odd(point) /\ point \in sig.r

(* sign_helper, which asserts that there is a signature, and its callers.  *)
SignHelper(m, kp, aux) ==
    LET sig == SchnorrSign(kp, m, aux) IN IF sig = Error THEN Panicked ELSE sig
SignNoAuxRand(m, kp) == SignHelper(m, kp, NoAuxRand)
SignWithAuxRand(m, kp, aux) == SignHelper(m, kp, aux)
SignWithRng(m, kp) == {SignWithAuxRand(m, kp, aux) : aux \in AuxRands}

Verify(sig, m, key) == IF SchnorrVerify(sig, m, key) THEN "Ok" ELSE "IncorrectSignature"

Init ==
    /\ keypair = [p \in Parties |-> Create(BaseKey[p])]
    /\ steps = [p \in Parties |-> << >>]
    /\ view = [p \in Parties |-> [key |-> Mul(BaseKey[p], G), at |-> 0]]

----------------------------------------------------------------------------
(* The owner.                                                              *)

Derive(p, op, t, kp) ==
    LET new == IF kp = Error THEN keypair[p] ELSE kp
    IN  /\ Len(steps[p]) < MaxSteps
        /\ keypair' = [keypair EXCEPT ![p] = new]
        /\ steps' = [steps EXCEPT ![p] =
                        Append(@, [op |-> op, tweak |-> t, key |-> new.pk])]
        /\ UNCHANGED view

AddTweak(p, t) == Derive(p, "add", t, FromSecret(PrivkeyTweakAdd(keypair[p].sk, t)))

MulTweak(p, t) == Derive(p, "mul", t, FromSecret(PrivkeyTweakMul(keypair[p].sk, t)))

Negate(p) == Derive(p, "negate", Zero, FromSecret(Neg(keypair[p].sk)))

AddXOnlyTweak(p, t) == Derive(p, "xonly", t, KeypairXOnlyTweakAdd(keypair[p], t))

(* The first secret key, converted to a Scalar, is the tweak.              *)
AddBase(p) ==
    Derive(p, "base", Zero, FromSecret(PrivkeyTweakAdd(keypair[p].sk, BaseKey[p])))

----------------------------------------------------------------------------
(* The others.                                                             *)

NextStep(p) == steps[p][view[p].at + 1]

Follow(p, op, key) ==
    /\ view[p].at < Len(steps[p])
    /\ NextStep(p).op = op
    /\ view' = [view EXCEPT ![p] = [key |-> IF key = Error THEN @.key ELSE key,
                                    at |-> @.at + 1]]
    /\ UNCHANGED << keypair, steps >>

AddExpTweak(p) == Follow(p, "add", PubkeyTweakAdd(view[p].key, NextStep(p).tweak))

MulTweakPublic(p) == Follow(p, "mul", PubkeyTweakMul(view[p].key, NextStep(p).tweak))

NegatePublic(p) == Follow(p, "negate", Neg(view[p].key))

(* Mutant: the parity of the key before the tweak is used.                 *)
AddTweakXOnlyStale(p) ==
    LET tweaked == XOnlyTweakAdd(EvenY(view[p].key), NextStep(p).tweak)
    IN  Follow(p, "xonly",
               IF tweaked = Error THEN Error
               ELSE FromXOnly(tweaked.key, Odd(view[p].key)))

(* x_only_public_key, add_tweak, public_key.                               *)
AddTweakXOnly(p) ==
    LET tweaked == XOnlyTweakAdd(EvenY(view[p].key), NextStep(p).tweak)
    IN  Follow(p, "xonly",
               IF tweaked = Error THEN Error ELSE FromXOnly(tweaked.key, tweaked.odd))

Combine(p) == Follow(p, "base", PubkeyCombine(<< view[p].key, Mul(BaseKey[p], G) >>))

Owner(p) ==
    \/ \E t \in TweakScalars : AddTweak(p, t) \/ MulTweak(p, t) \/ AddXOnlyTweak(p, t)
    \/ Negate(p)
    \/ AddBase(p)

Follower(p) ==
    \/ AddExpTweak(p)
    \/ MulTweakPublic(p)
    \/ NegatePublic(p)
    \/ AddTweakXOnly(p)
    \/ Combine(p)

Next == \E p \in Parties : Owner(p) \/ Follower(p)

Spec == Init /\ [][Next]_vars

----------------------------------------------------------------------------
(* The key of p before its first step, and after step i.                   *)
KeyAfter(p, i) == IF i = 0 THEN Mul(BaseKey[p], G) ELSE steps[p][i].key

(* Type correctness; no failed operation leaves a key that is zero, or the *)
(* point at infinity, and followers do not overtake the owner.             *)
TypeOK ==
    /\ keypair \in [Parties -> [sk : Points, pk : Points]]
    /\ steps \in [Parties -> Seq([op : {"add", "mul", "negate", "xonly", "base"},
                                  tweak : Scalars, key : Points])]
    /\ view \in [Parties -> [key : Points, at : Nat]]
    /\ \A p \in Parties : view[p].at <= Len(steps[p])

(* Who repeats the steps of p on its public key, failed ones included,     *)
(* gets the keys that p had: the public functions agree with the secret    *)
(* ones on the result, and on when to fail.                                *)
ViewsFollow ==
    \A p \in Parties : view[p].key = KeyAfter(p, view[p].at)

(* tweak_add_check, of the x-only keys before and after an x-only tweak of *)
(* the owner, accepts the tweak that was used, and with the parity of the  *)
(* new key it accepts no other.  (Without the parity there would be two.)  *)
ChecksBind ==
    \A p \in Parties : \A i \in DOMAIN steps[p] :
        LET before == KeyAfter(p, i - 1)
            after == KeyAfter(p, i)
            refused == PubkeyTweakAdd(EvenY(before), steps[p][i].tweak) = Error
        IN  steps[p][i].op = "xonly" /\ ~ refused =>
                \A t \in Scalars :
                    TweakAddCheck(EvenY(before), EvenY(after), Odd(after), t)
                        <=> t = steps[p][i].tweak

(* The two halves of a Keypair, which keypair_xonly_tweak_add computes one *)
(* by one, belong together.                                                *)
KeypairsMatch ==
    \A p \in Parties : keypair[p].pk = Mul(keypair[p].sk, G)

(* Two parties that know each other's present key compute the same shared  *)
(* secret, and the same shared point.                                      *)
SharedSecretsAgree ==
    \A p, q \in Parties :
        view[p].at = Len(steps[p]) /\ view[q].at = Len(steps[q]) =>
            /\ SharedSecretNew(view[q].key, keypair[p].sk) = SharedSecretNew(view[p].key, keypair[q].sk)
            /\ SharedSecretPoint(view[q].key, keypair[p].sk) = SharedSecretPoint(view[p].key, keypair[q].sk)

(* Whatever a party signs, with auxiliary random data or without, verifies *)
(* for those who know its present key, and with no other s; and the        *)
(* assertion of sign_helper holds (schnorr.rs:130).                        *)
SignaturesVerify ==
    \A p \in Parties : view[p].at = Len(steps[p]) =>
        \A m \in Messages : \A sig \in SignWithRng(m, keypair[p]) \cup {SignNoAuxRand(m, keypair[p])} :
            /\ sig # Panicked
            /\ \A s \in Scalars :
                   Verify([sig EXCEPT !.s = s], m, EvenY(view[p].key)) = "Ok" <=> s = sig.s

(* However a key pair was derived, it works for who followed: its halves   *)
(* belong together, shared secrets agree and Schnorr signatures verify.    *)
KeypairsWork == KeypairsMatch /\ SharedSecretsAgree /\ SignaturesVerify
=============================================================================
