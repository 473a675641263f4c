------------------------------- MODULE Ecdsa -------------------------------
(***************************************************************************)
(* ECDSA signatures and public key recovery (src/ecdsa, secp256k1.c,       *)
(* ecdsa_impl.h, modules/recovery).                                        *)
(*                                                                         *)
(* One signing call at a time, one action per iteration of its loops: the  *)
(* loop of ecdsa_sign_inner, over nonces, and around it that of            *)
(* sign_grind_with_check, over the extra entropy.  The signature that a    *)
(* call returns is then handed on: serialized with the other s by somebody *)
(* who wants to, given a recovery id, stripped of it, normalized.          *)
(*                                                                         *)
(* A secret key is a scalar, a public key a point (Curve).  The order of   *)
(* the group is smaller than that of the field, so that an x coordinate    *)
(* may exceed it: XCoord(p) is the x coordinate of p reduced, and whether  *)
(* that changed it.  The two bits of a recovery id are written out.        *)
(***************************************************************************)
EXTENDS Curve

CONSTANTS SecretKeys,
          Messages,          \* the 32 bytes that are signed
          NonceData,         \* the noncedata of callers; NoData is none
          BytesToGrind,      \* the arguments of sign_grind_r
          MaxCounter,        \* bound: the counter of sign_grind_with_check
          MaxCount,          \* bound: the counter of ecdsa_sign_inner
          Inv(_),
          IsHigh(_),
          XCoord(_),         \* of a point: [r : Scalars, over : BOOLEAN]
          MsgScalar(_),      \* a message modulo the order
          NonceBytes(_, _, _, _),  \* rfc6979, reduced if valid, else Invalid
          Invalid,
          LowR(_),           \* the encoding of r begins with a zero bit
          DerLength(_, _)    \* of r and s

NoData == 0

ASSUME SecretKeysAssumption == SecretKeys \subseteq Points

ASSUME InverseAssumption ==
    \A a \in Points : Inv(a) \in Points /\ Mul(a, Inv(a)) = One

ASSUME HighAssumption ==
    /\ ~ IsHigh(Zero)
    /\ \A s \in Points : IsHigh(s) \in BOOLEAN /\ IsHigh(Neg(s)) = ~ IsHigh(s)

ASSUME XCoordAssumption ==
    /\ \A p \in Points : /\ XCoord(p) \in [r : Scalars, over : BOOLEAN]
                         /\ XCoord(Neg(p)) = XCoord(p)
    /\ \A p, q \in Points : XCoord(p) = XCoord(q) => q \in XOnly(p)

ASSUME MessagesAssumption == \A m \in Messages : MsgScalar(m) \in Scalars

ASSUME BoundsAssumption ==
    MaxCounter \in Nat /\ MaxCount \in Nat /\ NonceData \subseteq Nat /\ BytesToGrind \subseteq Nat

ASSUME NonceAssumption ==
    \A sk \in SecretKeys, m \in Messages, count \in 0 .. MaxCount,
       data \in NonceData \cup 0 .. MaxCounter :
        NonceBytes(sk, MsgScalar(m), data, count) \in Points \cup {Invalid}

VARIABLES call,   \* the signing call in progress, or NoCall
          sig     \* the signature at hand, or NoSig

vars == << call, sig >>

NoCall == [kind |-> "none"]
NoSig == [kind |-> "none"]

RecoveryIds == [over : BOOLEAN, odd : BOOLEAN]
NoId == [kind |-> "none"]

FlipId(id) == [id EXCEPT !.odd = ~ @]

(* Mutant: the recovery id is not adapted to the negation of s.            *)
SigSignKeepsId(sk, m, k) ==
    LET x == XCoord(Mul(k, G))
        s == Mul(Inv(k), Add(Mul(x.r, sk), m))
    IN  [r |-> x.r, s |-> NegIf(IsHigh(s), s), id |-> [over |-> x.over, odd |-> Odd(Mul(k, G))]]

(* Mutant: s may be high.                                                  *)
SigSignAnyS(sk, m, k) ==
    LET x == XCoord(Mul(k, G))
        s == Mul(Inv(k), Add(Mul(x.r, sk), m))
    IN  [r |-> x.r, s |-> s, id |-> [over |-> x.over, odd |-> Odd(Mul(k, G))]]

SigSign(sk, m, k) ==
    LET R == Mul(k, G)
        x == XCoord(R)
        s == Mul(Inv(k), Add(Mul(x.r, sk), m))
        id == [over |-> x.over, odd |-> Odd(R)]
    IN  [r |-> x.r,
         s |-> NegIf(IsHigh(s), s),
         id |-> IF IsHigh(s) THEN FlipId(id) ELSE id]

(* Mutant: the second of the two x coordinates is not tried.               *)
SigVerifyNoWrap(r, s, m, pk) ==
    LET R == Add(Mul(Mul(Inv(s), m), G), Mul(Mul(Inv(s), r), pk))
    IN  r # Zero /\ s # Zero /\ R # Infinity /\ XCoord(R) = [r |-> r, over |-> FALSE]

SigVerify(r, s, m, pk) ==
    LET R == Add(Mul(Mul(Inv(s), m), G), Mul(Mul(Inv(s), r), pk))
    IN  r # Zero /\ s # Zero /\ R # Infinity /\ XCoord(R).r = r

Verify(r, s, msg, pk) == ~ IsHigh(s) /\ SigVerify(r, s, MsgScalar(msg), pk)

(* The point with this x coordinate and parity, if there is one.           *)
RecoveredNonces(r, id) ==
    {p \in Points : XCoord(p) = [r |-> r, over |-> id.over] /\ Odd(p) = id.odd}

(* Infinity stands for the failure of recover.                             *)
Recover(r, s, id, msg) ==
    IF r = Zero \/ s = Zero \/ RecoveredNonces(r, id) = {} THEN Infinity
    ELSE LET R == CHOOSE p \in RecoveredNonces(r, id) : TRUE
         IN  Add(Mul(Mul(Inv(r), s), R), Neg(Mul(Inv(r), MsgScalar(msg))))

----------------------------------------------------------------------------
Init == call = NoCall /\ sig = NoSig

Begin(kind, sk, msg, data, grind) ==
    /\ call = NoCall
    /\ call' = [kind |-> kind, sk |-> sk, msg |-> msg, data |-> data, count |-> 0,
                grind |-> grind]
    /\ sig' = NoSig

Sign(sk, msg) == Begin("plain", sk, msg, NoData, 0)
SignWithNoncedata(sk, msg, data) == Begin("plain", sk, msg, data, 0)
SignRecoverable(sk, msg, data) == Begin("recoverable", sk, msg, data, 0)

(* Mutant: the first attempt has extra entropy.                            *)
SignLowRWithEntropy(sk, msg) == Begin("lowR", sk, msg, 1, 0)

SignLowR(sk, msg) == Begin("lowR", sk, msg, NoData, 0)
SignGrindR(sk, msg, n) == Begin("grindR", sk, msg, NoData, n)

(* The signature that this iteration of ecdsa_sign_inner makes.            *)
Nonce == NonceBytes(call.sk, MsgScalar(call.msg), call.data, call.count)
Attempt == SigSign(call.sk, MsgScalar(call.msg), Nonce)

AttemptSucceeds == Nonce # Invalid /\ Attempt.r # Zero /\ Attempt.s # Zero

Accepts(c, r, s) ==
    /\ c.kind = "lowR" => LowR(r)
    /\ c.kind = "grindR" => DerLength(r, s) <= 71 - c.grind

(* Mutant: another nonce is asked for with the same counter.               *)
RetryNonceAgain ==
    /\ call # NoCall
    /\ ~ AttemptSucceeds
    /\ UNCHANGED vars

RetryNonce ==
    /\ call # NoCall
    /\ ~ AttemptSucceeds
    /\ call.count < MaxCount
    /\ call' = [call EXCEPT !.count = @ + 1]
    /\ UNCHANGED sig

Grind ==
    /\ call # NoCall
    /\ AttemptSucceeds
    /\ ~ Accepts(call, Attempt.r, Attempt.s)
    /\ call.data < MaxCounter
    /\ call' = [call EXCEPT !.data = @ + 1, !.count = 0]
    /\ UNCHANGED sig

(* made, by and data are history: what was returned, and how it was made.  *)
Return ==
    /\ call # NoCall
    /\ AttemptSucceeds
    /\ Accepts(call, Attempt.r, Attempt.s)
    /\ call' = NoCall
    /\ sig' = [kind |-> call.kind, r |-> Attempt.r, s |-> Attempt.s,
               id |-> IF call.kind = "recoverable" THEN Attempt.id ELSE NoId,
               made |-> Attempt, by |-> call]

----------------------------------------------------------------------------
(* Signature::from_compact or from_der of the signature with -s.           *)
ParseOtherS ==
    /\ sig # NoSig
    /\ sig' = [sig EXCEPT !.s = Neg(@), !.id = NoId]
    /\ UNCHANGED call

(* RecoverableSignature::from_compact, with any id.                        *)
FromCompact(id) ==
    /\ sig # NoSig
    /\ sig' = [sig EXCEPT !.id = id]
    /\ UNCHANGED call

ToStandard ==
    /\ sig # NoSig
    /\ sig.id # NoId
    /\ sig' = [sig EXCEPT !.id = NoId]
    /\ UNCHANGED call

NormalizeS ==
    /\ sig # NoSig
    /\ sig.id = NoId
    /\ sig' = [sig EXCEPT !.s = NegIf(IsHigh(@), @)]
    /\ UNCHANGED call

Start ==
    \E sk \in SecretKeys, msg \in Messages :
        \/ Sign(sk, msg)
        \/ SignLowR(sk, msg)
        \/ \E data \in NonceData : SignWithNoncedata(sk, msg, data)
        \/ \E data \in NonceData \cup {NoData} : SignRecoverable(sk, msg, data)
        \/ \E n \in BytesToGrind : SignGrindR(sk, msg, n)

Iterate == RetryNonce \/ Grind \/ Return

Next ==
    \/ Start
    \/ Iterate
    \/ ParseOtherS
    \/ \E id \in RecoveryIds : FromCompact(id)
    \/ ToStandard
    \/ NormalizeS

Spec == Init /\ [][Next]_vars

(* A call that has been made runs on.                                      *)
LiveSpec == Spec /\ WF_vars(Iterate)

----------------------------------------------------------------------------
TypeOK ==
    /\ call \in {NoCall} \cup
           [kind : {"plain", "recoverable", "lowR", "grindR"}, sk : SecretKeys,
            msg : Messages, data : NonceData \cup 0 .. MaxCounter,
            count : 0 .. MaxCount, grind : BytesToGrind \cup {0}]
    /\ sig # NoSig => /\ call = NoCall
                      /\ sig.r \in Points /\ sig.s \in Points
                      /\ sig.id \in RecoveryIds \cup {NoId}

SignerKey == Mul(sig.by.sk, G)

(* The signature that was made, and no other that is derived from it,      *)
(* verifies for the key of the signer and any message of the same scalar:  *)
(* "libsecp256k1 considers signatures for which s is in the upper half of  *)
(* the field range invalid", which signing never returns.                  *)
OnlyTheMadeVerifies ==
    sig # NoSig =>
        \A msg \in Messages : MsgScalar(msg) = MsgScalar(sig.by.msg) =>
            (Verify(sig.r, sig.s, msg, SignerKey) <=> sig.s = sig.made.s)

(* Of the four recovery ids one gives the key of the signer: the one that  *)
(* sign_recoverable returned, or if s has been negated since, the one with *)
(* the other parity.                                                       *)
OneIdRecovers ==
    sig # NoSig =>
        \A id \in RecoveryIds :
            Recover(sig.r, sig.s, id, sig.by.msg) = SignerKey
                <=> id = IF sig.s = sig.made.s THEN sig.made.id ELSE FlipId(sig.made.id)

(* Whatever key is recovered, from any id and for any message, the         *)
(* signature is valid for it if its s is low.                              *)
RecoveredVerifies ==
    sig # NoSig /\ ~ IsHigh(sig.s) =>
        \A id \in RecoveryIds, msg \in Messages :
            LET pk == Recover(sig.r, sig.s, id, msg)
            IN  pk # Infinity => Verify(sig.r, sig.s, msg, pk)

(* The signature that RFC 6979 gives with this noncedata.                  *)
SignedWith(sk, msg, data) ==
    LET m == MsgScalar(msg)
        Made(count) == SigSign(sk, m, NonceBytes(sk, m, data, count))
        Succeeds(count) == /\ NonceBytes(sk, m, data, count) # Invalid
                           /\ Made(count).r # Zero /\ Made(count).s # Zero
    IN  Made(CHOOSE count \in 0 .. MaxCount :
                 Succeeds(count) /\ \A c \in 0 .. count - 1 : ~ Succeeds(c))

(* Grinding returns the first of the signatures without noncedata, with    *)
(* counter 1, 2, ... that passes the check: that of sign if it passes, as  *)
(* the tests require and Bitcoin Core does.                                *)
GrindIsFirst ==
    sig # NoSig /\ sig.kind \in {"lowR", "grindR"} =>
        LET Passes(data) == LET t == SignedWith(sig.by.sk, sig.by.msg, data)
                            IN  Accepts(sig.by, t.r, t.s)
            first == CHOOSE data \in 0 .. MaxCounter :
                         Passes(data) /\ \A d \in 0 .. data - 1 : ~ Passes(d)
        IN  sig.made = SignedWith(sig.by.sk, sig.by.msg, first)

(* Every call returns.                                                     *)
CallsReturn == call # NoCall ~> call = NoCall
=============================================================================
