------------------------------- MODULE Musig -------------------------------
(***************************************************************************)
(* MuSig2 signing sessions (src/musig.rs, musig/session_impl.h).           *)
(*                                                                         *)
(* Every signer has its own KeyAggCache, SecretNonces and Session.  Public *)
(* nonces and partial signatures are sent over a network that may lose,    *)
(* duplicate and reorder them: a set of messages, of which a signer picks  *)
(* the ones it uses.  A signer may also crash, generate further nonces,    *)
(* start another session, tweak its cache at any time (so that it is not   *)
(* the cache that its session was made from), and take a secret nonce out  *)
(* of the types that guard it with dangerous_into_bytes.                   *)
(*                                                                         *)
(* A nonce is named by the session_secrand it was made from; Secrands are  *)
(* drawn once, as SessionSecretRand requires.  Its two secret scalars are  *)
(* NonceHash of that and of the key.  A key pair is named by its secret    *)
(* key, which is also the discrete logarithm of the public key.            *)
(***************************************************************************)
EXTENDS KeyAgg

CONSTANTS Signers,
          Keypairs,            \* Keypairs[s]: the key pairs that s holds
          Secrands,            \* Secrands[s]: what its rng gives it
          Messages,
          Exporters,           \* the signers that keep bytes of secret nonces
          KeyList,             \* the keys that sign together
          MaxTweaks,           \* bound: tweaks of all caches together
          NonceHash(_, _),     \* nonce_function_musig: two secret scalars
          NonceCoefHash(_, _, _),
          ChallengeHash(_, _, _)

Ids == UNION {Secrands[s] : s \in Signers}
AllKeypairs == UNION {Keypairs[s] : s \in Signers}
XOnlyPoints == {XOnly(p) : p \in Points}

ASSUME KeyListAssumption == KeyList \in KeyLists

ASSUME KeypairsAssumption ==
    /\ Keypairs \in [Signers -> SUBSET Points]
    /\ \A i \in DOMAIN KeyList : KeyList[i] \in AllKeypairs

(* "special care must be taken that the bytes are unique" (musig.rs:70).   *)
ASSUME SecrandsAssumption ==
    /\ Secrands \in [Signers -> SUBSET Ids]
    /\ \A r, s \in Signers : r # s => Secrands[r] \cap Secrands[s] = {}

ASSUME MaxTweaksAssumption == MaxTweaks \in Nat

ASSUME HashAssumption ==
    /\ \A id \in Ids, kp \in AllKeypairs : NonceHash(id, kp) \in Scalars \X Scalars
    /\ \A msg \in Messages, key \in XOnlyPoints :
          /\ \A aggnonce \in Scalars \X Scalars :
                 NonceCoefHash(aggnonce, key, msg) \in Scalars
          /\ \A r \in XOnlyPoints : ChallengeHash(r, key, msg) \in Scalars

VARIABLES cache,       \* cache[s]: its KeyAggCache
          tweaks,      \* how many tweaks there were (bound)
          unused,      \* unused[s]: the secrands it has not drawn
          secnonces,   \* secnonces[s]: the SecretNonces it owns
          exported,    \* exported[s]: the bytes of secret nonces it keeps
          session,     \* session[s]: its Session, or NoSession
          pubnonces,   \* the public nonces sent
          partials     \* the partial signatures sent

vars == << cache, tweaks, unused, secnonces, exported, session, pubnonces, partials >>

NoSession == [made |-> FALSE]

(* A SecretNonce or PublicNonce: musig_secnonce_save stores the public key *)
(* of the signer with the scalars.                                         *)
Nonce(id, kp) == [id |-> id, pk |-> kp]
K(n) == NonceHash(n.id, n.pk)

EffectiveNonce(pair, b) == Add(pair[1], Mul(b, pair[2]))

(* musig_sum_pubnonces: one nonce for each position of the key list.       *)
NonceAgg(nonces) == << Total([i \in DOMAIN nonces |-> K(nonces[i])[1]]),
                       Total([i \in DOMAIN nonces |-> K(nonces[i])[2]]) >>

Challenge(r, key, msg) == ChallengeHash(r, key, msg)

(* musig_nonce_process.  A final nonce at infinity is replaced by G.       *)
(* of, nonces and degenerate are history: the cache and the nonces it was  *)
(* made from, and whether that happened.                                   *)
NonceProcess(c, nonces, msg) ==
    LET aggnonce == NonceAgg(nonces)
        b == NonceCoefHash(aggnonce, XOnly(c.pk), msg)
        sum == EffectiveNonce(aggnonce, b)
        R == IF sum = Infinity THEN G ELSE sum
        e == Challenge(XOnly(R), XOnly(c.pk), msg)
    IN  [made |-> TRUE,
         finNonce |-> XOnly(R),
         finNonceParity |-> Odd(R),
         noncecoef |-> b,
         challenge |-> e,
         sPart |-> NegIf(Odd(c.pk), Mul(e, c.tweak)),
         msg |-> msg, of |-> c, nonces |-> nonces, degenerate |-> sum = Infinity]

(* The sign that a signer's key has in the aggregate key of even y.        *)
KeyNegated(c) == Odd(c.pk) # c.parityAcc

(* Mutant: the signs that x-only tweaks accumulated are ignored.           *)
PartialSigUntweaked(sess, n, kp, c) ==
    LET d == Mul(NegIf(Odd(c.pk), kp), Coefficient(c.pks, c.second, kp))
        k == NegIf(sess.finNonceParity, EffectiveNonce(K(n), sess.noncecoef))
    IN  Add(Mul(sess.challenge, d), k)

(* musig_partial_sign, past its checks.                                    *)
PartialSig(sess, n, kp, c) ==
    LET d == Mul(NegIf(KeyNegated(c), kp), Coefficient(c.pks, c.second, kp))
        k == NegIf(sess.finNonceParity, EffectiveNonce(K(n), sess.noncecoef))
    IN  Add(Mul(sess.challenge, d), k)

(* musig_partial_sig_verify: -s*G + e*pk + r = infinity.                   *)
PartialVerify(sess, c, s, n, pk) ==
    LET e == NegIf(KeyNegated(c), Mul(sess.challenge, Coefficient(c.pks, c.second, pk)))
        r == NegIf(sess.finNonceParity, EffectiveNonce(K(n), sess.noncecoef))
    IN  Add(Add(Mul(e, pk), Neg(s)), r) = Infinity

(* musig_partial_sig_agg.                                                  *)
PartialSigAgg(sess, sigs) == [r |-> sess.finNonce, s |-> Add(sess.sPart, Total(sigs))]

(* Mutant: the nonce in the signature is not compared.                     *)
VerifyAnyNonce(sig, key, msg) ==
    LET P == CHOOSE p \in key : ~ Odd(p)
        R == Add(sig.s, Neg(Mul(Challenge(sig.r, key, msg), P)))
    IN  R # Infinity /\ ~ Odd(R)

(* AggregatedSignature::verify, by schnorrsig_verify.                      *)
Verify(sig, key, msg) ==
    LET P == CHOOSE p \in key : ~ Odd(p)
        R == Add(sig.s, Neg(Mul(Challenge(sig.r, key, msg), P)))
    IN  R # Infinity /\ ~ Odd(R) /\ XOnly(R) = sig.r

-----------------------------------------------------------------------------
Init == /\ PubkeyAgg(KeyList) \in Points
        /\ cache = [s \in Signers |-> NewCache(KeyList)]
        /\ tweaks = 0
        /\ unused = Secrands
        /\ secnonces = [s \in Signers |-> {}]
        /\ exported = [s \in Signers |-> {}]
        /\ session = [s \in Signers |-> NoSession]
        /\ pubnonces = {}
        /\ partials = {}

Tweak(s, t, xonly) ==
    /\ tweaks < MaxTweaks
    /\ cache' = [cache EXCEPT ![s] = PubkeyTweakAdd(@, t, xonly)]
    /\ tweaks' = tweaks + 1
    /\ UNCHANGED << unused, secnonces, exported, session, pubnonces, partials >>

(* new_nonce_pair and KeyAggCache::nonce_gen, and the public half is sent. *)
NonceGen(s, id, kp) ==
    /\ id \in unused[s]
    /\ unused' = [unused EXCEPT ![s] = @ \ {id}]
    /\ secnonces' = [secnonces EXCEPT ![s] = @ \cup {Nonce(id, kp)}]
    /\ pubnonces' = pubnonces \cup {Nonce(id, kp)}
    /\ UNCHANGED << cache, tweaks, exported, session, partials >>

(* AggregatedNonce::new and Session::new, from nonces that have arrived.   *)
SessionNew(s, nonces, msg) ==
    /\ \A i \in DOMAIN KeyList : nonces[i].pk = KeyList[i]
    /\ session' = [session EXCEPT ![s] = NonceProcess(cache[s], nonces, msg)]
    /\ UNCHANGED << cache, tweaks, unused, secnonces, exported, pubnonces, partials >>

(* Mutant: the nonce is borrowed, and not erased.                          *)
PartialSignBorrows(s, n, kp) ==
    /\ session[s].made
    /\ n \in secnonces[s]
    /\ partials' = IF n.pk # kp THEN partials
                   ELSE partials \cup {[nonce |-> n, pk |-> kp, session |-> session[s],
                                        cache |-> cache[s],
                                        s |-> PartialSig(session[s], n, kp, cache[s])]}
    /\ UNCHANGED << cache, tweaks, unused, secnonces, exported, session, pubnonces >>

(* Session::partial_sign takes ownership of the nonce.  If its key is not  *)
(* that of the key pair, the C library calls its illegal-argument callback *)
(* and that panics; the nonce is gone all the same.  (A panic that aborts  *)
(* is this step and a Crash.)                                              *)
PartialSign(s, n, kp) ==
    /\ session[s].made
    /\ n \in secnonces[s]
    /\ secnonces' = [secnonces EXCEPT ![s] = @ \ {n}]
    /\ partials' = IF n.pk # kp THEN partials
                   ELSE partials \cup {[nonce |-> n, pk |-> kp, session |-> session[s],
                                        cache |-> cache[s],
                                        s |-> PartialSig(session[s], n, kp, cache[s])]}
    /\ UNCHANGED << cache, tweaks, unused, exported, session, pubnonces >>

(* SecretNonce::dangerous_into_bytes: the bytes can be copied.             *)
IntoBytes(s, n) ==
    /\ s \in Exporters
    /\ n \in secnonces[s]
    /\ secnonces' = [secnonces EXCEPT ![s] = @ \ {n}]
    /\ exported' = [exported EXCEPT ![s] = @ \cup {n}]
    /\ UNCHANGED << cache, tweaks, unused, session, pubnonces, partials >>

FromBytes(s, n) ==
    /\ n \in exported[s]
    /\ secnonces' = [secnonces EXCEPT ![s] = @ \cup {n}]
    /\ UNCHANGED << cache, tweaks, unused, exported, session, pubnonces, partials >>

(* What is in memory is lost; the key list, the tweaks to apply and the    *)
(* exported bytes are the application's.                                   *)
Crash(s) ==
    /\ cache' = [cache EXCEPT ![s] = NewCache(KeyList)]
    /\ secnonces' = [secnonces EXCEPT ![s] = {}]
    /\ session' = [session EXCEPT ![s] = NoSession]
    /\ UNCHANGED << tweaks, unused, exported, pubnonces, partials >>

Step(s) == \/ \E t \in Tweaks, xonly \in BOOLEAN : Tweak(s, t, xonly)
           \/ \E id \in unused[s], kp \in Keypairs[s] : NonceGen(s, id, kp)
           \/ \E nonces \in [DOMAIN KeyList -> pubnonces], msg \in Messages :
                 SessionNew(s, nonces, msg)
           \/ \E n \in secnonces[s], kp \in Keypairs[s] : PartialSign(s, n, kp)
           \/ \E n \in secnonces[s] : IntoBytes(s, n)
           \/ \E n \in exported[s] : FromBytes(s, n)
           \/ Crash(s)

Next == \E s \in Signers : Step(s)

Spec == Init /\ [][Next]_vars

-----------------------------------------------------------------------------
Nonces == [id : Ids, pk : AllKeypairs]

Sessions == [made : {TRUE}, finNonce : SUBSET Points, finNonceParity : BOOLEAN,
             noncecoef : Scalars, challenge : Scalars, sPart : Scalars, msg : Messages,
             of : Caches, nonces : [DOMAIN KeyList -> Nonces], degenerate : BOOLEAN]

Partials == [nonce : Nonces, pk : AllKeypairs,
             session : Sessions, cache : Caches, s : Scalars]

TypeOK == /\ cache \in [Signers -> Caches]
          /\ tweaks \in 0 .. MaxTweaks
          /\ \A s \in Signers : /\ unused[s] \subseteq Secrands[s]
                                /\ secnonces[s] \cup exported[s] \subseteq pubnonces
                                /\ session[s] \in Sessions \cup {NoSession}
          /\ pubnonces \subseteq Nonces
          /\ partials \subseteq Partials

(* However tweaks of both kinds, failed ones among them, were interleaved, *)
(* the sign and the tweak that a cache accumulates account for its key,    *)
(* and the copy of the key that Rust keeps is that of the C structure.     *)
KeyAccounted == \A s \in Signers : CacheSound(cache[s])

(* A partial signature passes partial_verify with the cache that its       *)
(* signer used, whatever the tweaks, the parities of the aggregate key and *)
(* nonce, and the repeated keys in the list.                               *)
HonestPartialsVerify ==
    \A p \in partials : PartialVerify(p.session, p.cache, p.s, p.nonce, p.pk)

(* The partial signatures that the owner of session[s] can put together,   *)
(* one for each key, from all those ever sent: those of other sessions,    *)
(* and of signers who signed with another cache, are among them.           *)
Collections == [DOMAIN KeyList -> {p.s : p \in partials}]

Rejected(sess, sigs) ==
    {i \in DOMAIN KeyList :
        ~ PartialVerify(sess, sess.of, sigs[i], sess.nonces[i], KeyList[i])}

Accepted(sess, sigs) == Verify(PartialSigAgg(sess, sigs), AggPk(sess.of), sess.msg)

(* If all pass partial_verify, the aggregate is a signature for agg_pk.    *)
AggregateVerifies ==
    \A s \in Signers : session[s].made /\ ~ session[s].degenerate =>
        \A sigs \in Collections :
            Rejected(session[s], sigs) = {} => Accepted(session[s], sigs)

(* "if any partial signatures does not verify, the full signature will     *)
(* also not verify, so the problem will be caught" (musig.rs:1195).        *)
AnyBadPartialIsCaught ==
    \A s \in Signers : session[s].made /\ ~ session[s].degenerate =>
        \A sigs \in Collections :
            Rejected(session[s], sigs) # {} => ~ Accepted(session[s], sigs)

(* It holds of one bad signature among good ones; two may make up for one  *)
(* another.                                                                *)
OneBadPartialIsCaught ==
    \A s \in Signers : session[s].made /\ ~ session[s].degenerate =>
        \A sigs \in Collections :
            (\E i \in DOMAIN KeyList : Rejected(session[s], sigs) = {i}) =>
                ~ Accepted(session[s], sigs)

(* A nonce signs once, and for the key it was made for, whatever happens   *)
(* to the session and to the signer; unless its bytes were exported.       *)
NonceSignsOnce ==
    \A p \in partials :
        /\ p.nonce.pk = p.pk
        /\ \A q \in partials : p.nonce = q.nonce /\ p # q =>
              \E s \in Signers : p.nonce \in exported[s]
=============================================================================
