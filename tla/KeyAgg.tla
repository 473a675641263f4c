------------------------------- MODULE KeyAgg -------------------------------
(***************************************************************************)
(* musig::KeyAggCache (src/musig.rs, keyagg_impl.h): a list of public keys *)
(* is aggregated once, and the aggregate may then be tweaked any number of *)
(* times, in the plain way (BIP32) or as an x-only key (taproot).  The     *)
(* cache carries what the signers need to answer for the tweaks later: the *)
(* sum of the tweaks, and whether the untweaked keys now count negated.    *)
(*                                                                         *)
(* The Rust structure holds, beside the opaque cache of the C library      *)
(* (data), its own copy of the aggregate x-only key.                       *)
(***************************************************************************)
EXTENDS Curve

CONSTANTS KeyLists,            \* the lists of keys that are aggregated
          Tweaks,
          KeyAggHash(_, _)     \* tagged_hash(pks_hash, pk)

ASSUME KeyListsAssumption ==
    KeyLists \subseteq {pks \in Seq(Points) : Len(pks) > 0}

ASSUME TweaksAssumption == Tweaks \subseteq Scalars

ASSUME KeyAggHashAssumption ==
    \A pks \in KeyLists, p \in Scalars : KeyAggHash(pks, p) \in Scalars

NoSecondKey == Infinity

(* The first key that differs from pks[1].                                 *)
SecondKey(pks) ==
    LET others == {i \in DOMAIN pks : pks[i] # pks[1]}
    IN  IF others = {} THEN NoSecondKey
        ELSE pks[CHOOSE i \in others : \A j \in others : i <= j]

(* Its coefficient is 1; the others are hashed.                            *)
Coefficient(pks, second, p) ==
    IF second # NoSecondKey /\ p = second THEN One ELSE KeyAggHash(pks, p)

(* musig_pubkey_agg.  Infinity has a negligible probability, and is not    *)
(* handled: see Init in Musig.                                             *)
PubkeyAgg(pks) ==
    Total([i \in DOMAIN pks |-> Mul(Coefficient(pks, SecondKey(pks), pks[i]), pks[i])])

(* Mutant: the second key of the list, though it may equal the first.      *)
NewCacheSecond(pks) == [pks |-> pks,
                        second |-> IF Len(pks) > 1 THEN pks[2] ELSE NoSecondKey,
                        pk |-> PubkeyAgg(pks),
                        tweak |-> Zero,
                        parityAcc |-> FALSE,
                        aggPk |-> XOnly(PubkeyAgg(pks))]

(* pks stands for pks_hash.                                                *)
NewCache(pks) == [pks |-> pks,
                  second |-> SecondKey(pks),
                  pk |-> PubkeyAgg(pks),
                  tweak |-> Zero,
                  parityAcc |-> FALSE,
                  aggPk |-> XOnly(PubkeyAgg(pks))]

AggPk(c) == c.aggPk
AggPkFull(c) == c.pk

(* Mutant: an x-only tweak leaves the tweaks before it as they are.        *)
TweakKeepsSum(c, t, xonly) ==
    LET flip == xonly /\ Odd(c.pk)
        pk == Add(NegIf(flip, c.pk), t)
    IN  [c EXCEPT !.parityAcc = (@ # flip), !.tweak = Add(@, t), !.pk = pk, !.aggPk = XOnly(pk)]

(* musig_pubkey_tweak_add_internal, and the Rust copy after it.            *)
Tweaked(c, t, xonly) ==
    LET flip == xonly /\ Odd(c.pk)
        pk == Add(NegIf(flip, c.pk), t)
    IN  [c EXCEPT !.parityAcc = (@ # flip),
                  !.tweak = Add(NegIf(flip, @), t),
                  !.pk = pk,
                  !.aggPk = XOnly(pk)]

(* Mutant: the cache is saved before the tweaked key turns out infinite.   *)
PubkeyTweakAddSavesFirst(c, t, xonly) ==
    LET new == Tweaked(c, t, xonly)
    IN  IF new.pk = Infinity THEN [c EXCEPT !.parityAcc = new.parityAcc, !.tweak = new.tweak] ELSE new

(* pubkey_ec_tweak_add and pubkey_xonly_tweak_add.  If the tweaked key is  *)
(* infinity they return InvalidTweakErr, and neither copy is changed.      *)
PubkeyTweakAdd(c, t, xonly) ==
    IF Tweaked(c, t, xonly).pk = Infinity THEN c ELSE Tweaked(c, t, xonly)

-----------------------------------------------------------------------------
Caches == [pks : KeyLists, second : Scalars, pk : Points, tweak : Scalars,
           parityAcc : BOOLEAN, aggPk : SUBSET Scalars]

(* What a signer relies on when it signs for a tweaked key: the aggregate  *)
(* is the untweaked sum of the keys, with the accumulated sign, plus the   *)
(* accumulated tweak -- however plain and x-only tweaks were interleaved,  *)
(* and whichever of them failed.                                           *)
KeyIsAccounted(c) == c.pk = Add(NegIf(c.parityAcc, PubkeyAgg(c.pks)), c.tweak)

(* The copy of the key that agg_pk returns is that of the C cache, which   *)
(* agg_pk_full returns and the signatures are made for.                    *)
CopiesAgree(c) == AggPk(c) = XOnly(AggPkFull(c))

CacheSound(c) == KeyIsAccounted(c) /\ CopiesAgree(c)
=============================================================================
