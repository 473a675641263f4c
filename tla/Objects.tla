------------------------------ MODULE Objects -------------------------------
(***************************************************************************)
(* The objects that the library hands out, and their serializations: keys  *)
(* (eckey_impl.h, secp256k1.c, extrakeys/main_impl.h, key/mod.rs),         *)
(* recoverable signatures (recovery/main_impl.h) and what signers of MuSig *)
(* keep or exchange (musig/session_impl.h, musig/keyagg_impl.h, musig.rs). *)
(*                                                                         *)
(* A cell stands for 32 bytes, or for a byte or four that tell something   *)
(* by themselves.  An object is a sequence of cells, of zeros if it was    *)
(* cleared; a string to be parsed is another one.  What a function gives   *)
(* is a sequence of one element, and is empty if it fails.                 *)
(***************************************************************************)
EXTENDS Group, SequencesExt

CONSTANTS N, GX, GY,
          Xs, Ys, Tags,            \* cells of the strings that are parsed
          SecretKeys, Nonces,      \* secret keys and scalars of sessions
          MaxConversions

VARIABLES object,      \* its kind and its data
          holds,       \* (history) the numbers it stands for, or Nothing
          conversions
objectVars == <<object, holds, conversions>>

Nothing == << >>
Given(ok, x) == IF ok THEN << x >> ELSE Nothing
Zeros(n) == [i \in 1 .. n |-> 0]

FeOf(cell) == Fe(cell, 1, TRUE)
FeCell(a) == IF a.n /\ a.m <= MaxMagnitude THEN a.v ELSE a.v + P
ScalarOf(cell) == cell % N

GeToBytes(a) == << FeCell(FeNormalize(a.x)), FeCell(FeNormalize(a.y)) >>
GeFromBytes(cells) == Ge(FeOf(cells[1]), FeOf(cells[2]))

(* Mutant: infinity is not told apart.                                     *)
GeFromBytesPlain(cells) == GeFromBytes(cells)

GeToBytesExt(a) == IF a.inf THEN Zeros(2) ELSE GeToBytes(a)
GeFromBytesExt(cells) == IF cells = Zeros(2) THEN GeInfinity ELSE GeFromBytes(cells)

----------------------------------------------------------------------------
(* Public keys, also in the hybrid format.                                 *)
EckeyParse(pub) ==
    IF Len(pub) = 2 /\ pub[1] \in {2, 3}
    THEN LET q == SetXo(FeOf(pub[2]), pub[1] = 3) IN Given(pub[2] < P /\ q.ok, q.ge)
    ELSE IF Len(pub) = 3 /\ pub[1] \in {4, 6, 7}
    THEN LET q == GeFromBytes(SubSeq(pub, 2, 3))
         IN  Given(/\ pub[2] < P /\ pub[3] < P
                   /\ pub[1] # 4 => FeIsOdd(q.y) = (pub[1] = 7)
                   /\ GeIsValidVar(q), q)
    ELSE Nothing

EckeySerialize(q, compressed) ==
    LET y == FeNormalize(q.y)
        x == FeCell(FeNormalize(q.x))
    IN  IF q.inf THEN Nothing
        ELSE IF compressed THEN << IF FeIsOdd(y) THEN 3 ELSE 2, x >> ELSE << 4, x, FeCell(y) >>

PubkeyLoad(obj) == LET q == GeFromBytes(obj) IN Given(~ FeIsZero(q.x), q)
PubkeySave(q) == GeToBytes(q)
PubkeyParse(in) == LET q == EckeyParse(in) IN IF q = Nothing THEN Zeros(2) ELSE PubkeySave(q[1])
PubkeySerialize(obj, compressed) ==
    LET q == PubkeyLoad(obj) IN IF q = Nothing THEN Nothing ELSE EckeySerialize(q[1], compressed)

(* memcmp_var: the difference of the first cells that differ.  In Rust an  *)
(* ordering is its sign.                                                   *)
Memcmp(a, b) == LET differ == { i \in DOMAIN a : a[i] # b[i] }
                    first == CHOOSE i \in differ : \A j \in differ : i <= j
                IN  IF differ = {} THEN 0 ELSE a[first] - b[first]
Cmp(ret) == IF ret < 0 THEN -1 ELSE IF ret = 0 THEN 0 ELSE 1

(* Keys that are not valid come before all others.                         *)
PubkeyCmp(obj0, obj1) ==
    LET out(obj) == LET s == PubkeySerialize(obj, TRUE) IN IF s = Nothing THEN Zeros(2) ELSE s
    IN  Memcmp(out(obj0), out(obj1))
PublicKeyCmp(key, other) == Cmp(PubkeyCmp(key, other))
PublicKeySerialize(key) == PubkeySerialize(key, TRUE)
PublicKeyHash(key) == PublicKeySerialize(key)

PubkeyNegate(obj) == LET q == PubkeyLoad(obj) IN IF q = Nothing THEN Zeros(2) ELSE PubkeySave(GeNeg(q[1]))

(* With the number of the y coordinate that was odd or not.                *)
GeEvenY(q) == IF FeIsOdd(q.y) THEN [ge |-> [q EXCEPT !.y = FeNegate(@, 1)], odd |-> 1]
              ELSE [ge |-> q, odd |-> 0]

XOnlyParse(in) == LET q == SetXo(FeOf(in[1]), FALSE)
                  IN  IF in[1] < P /\ q.ok THEN PubkeySave(q.ge) ELSE Zeros(2)
XOnlySerialize(obj) == LET q == PubkeyLoad(obj) IN IF q = Nothing THEN Nothing ELSE << FeCell(q[1].x) >>
XOnlyCmp(obj0, obj1) ==
    LET out(obj) == LET s == XOnlySerialize(obj) IN IF s = Nothing THEN Zeros(1) ELSE s
    IN  Memcmp(out(obj0), out(obj1))
XOnlyPublicKeyCmp(key, other) == Cmp(XOnlyCmp(key, other))
XOnlyPublicKeySerialize(key) == XOnlySerialize(key)
XOnlyHash(key) == XOnlyPublicKeySerialize(key)
XOnlyFromPubkey(obj) == PubkeySave(GeEvenY(PubkeyLoad(obj)[1]).ge)

(* PublicKey::x_only_public_key: with its parity.                          *)
XOnlyPublicKey(obj) == [xonly |-> XOnlyFromPubkey(obj), parity |-> GeEvenY(PubkeyLoad(obj)[1]).odd]

FromXOnlyPublicKey(obj, odd) == PubkeyParse(<< 2 + odd >> \o XOnlySerialize(obj))

(* The generator, multiplied.                                              *)
MultipleOfG(k) ==
    LET mul[i \in 0 .. k] ==
            LET twice == GejDoubleVar(mul[i \div 2]).r
            IN  IF i = 0 THEN GejInfinity
                ELSE IF i % 2 = 0 THEN twice ELSE GejAddGeVar(twice, Ge(FeOf(GX), FeOf(GY))).r
    IN  GeSetGejVar(mul[k])

(* A key that is not valid is replaced by one, then everything by zeros.   *)
KeypairSave(sk, q) == << sk >> \o PubkeySave(q)
KeypairCreate(seckey) ==
    LET ret == seckey \in 1 .. N - 1
        sk == IF ret THEN seckey ELSE 1
    IN  IF ret THEN KeypairSave(sk, MultipleOfG(sk)) ELSE Zeros(3)
KeypairLoad(obj) ==
    LET q == PubkeyLoad(Tail(obj))
    IN  Given(q # Nothing /\ obj[1] \in 1 .. N - 1, [sk |-> obj[1], pk |-> q[1]])
KeypairSec(obj) == << obj[1] >>
KeypairPub(obj) == Tail(obj)
KeypairXOnlyPub(obj) == LET q == PubkeyLoad(Tail(obj)) IN PubkeySave(GeEvenY(q[1]).ge)
KeypairCmp(obj0, obj1) == PublicKeyCmp(KeypairPub(obj0), KeypairPub(obj1))
KeypairHash(obj) == PublicKeyHash(KeypairPub(obj))

(* An erased key pair is a valid one, of a fixed secret key; here of one.  *)
DummyKeypair == << 1, GX, GY >>

----------------------------------------------------------------------------
(* Signatures with the number of their point.                              *)
RecoverableParse(in, recid) ==
    IF in[1] < N /\ in[2] < N THEN in \o << recid >> ELSE Zeros(3)
RecoverableSerialize(obj) == obj
RecoverableCmp(obj0, obj1) == Cmp(Memcmp(RecoverableSerialize(obj0), RecoverableSerialize(obj1)))
RecoverableHash(obj) == RecoverableSerialize(obj)
RecoverableConvert(obj) == SubSeq(obj, 1, 2)
SignatureSerialize(obj) == obj
SignatureCmp(obj0, obj1) == Cmp(Memcmp(SignatureSerialize(obj0), SignatureSerialize(obj1)))
SignatureHash(obj) == SignatureSerialize(obj)

----------------------------------------------------------------------------
(* MuSig.  Every object starts with a magic number of its kind.            *)
SecnonceMagic == 2001
PubnonceMagic == 2002
AggnonceMagic == 2003
SessionMagic == 2004
PartialSigMagic == 2005
CacheMagic == 2006

Body(obj, magic) == IF obj[1] = magic THEN Tail(obj) ELSE Nothing

MusigSerializeExt(q) == IF q.inf THEN Zeros(2) ELSE EckeySerialize(q, TRUE)
MusigParseExt(in) == IF in = Zeros(2) THEN << GeInfinity >> ELSE EckeyParse(in)

SecnonceSave(k1, k2, q) == << SecnonceMagic, k1, k2 >> \o GeToBytes(q)
SecnonceLoad(obj) ==
    LET body == Body(obj, SecnonceMagic)
    IN  Given(body # Nothing /\ SubSeq(body, 1, 2) # Zeros(2),
              [k1 |-> ScalarOf(body[1]), k2 |-> ScalarOf(body[2]), pk |-> GeFromBytes(SubSeq(body, 3, 4))])
SecnonceInvalidate(obj, flag) == IF flag THEN Zeros(Len(obj)) ELSE obj

PubnonceSave(q1, q2) == << PubnonceMagic >> \o GeToBytes(q1) \o GeToBytes(q2)
PubnonceLoad(obj) ==
    LET body == Body(obj, PubnonceMagic)
    IN  Given(body # Nothing, << GeFromBytes(SubSeq(body, 1, 2)), GeFromBytes(SubSeq(body, 3, 4)) >>)

(* A string that is refused leaves the object as it was.                   *)
PubnonceParse(old, in) ==
    LET q1 == EckeyParse(SubSeq(in, 1, 2))
        q2 == EckeyParse(SubSeq(in, 3, 4))
    IN  IF q1 = Nothing \/ q2 = Nothing THEN old ELSE PubnonceSave(q1[1], q2[1])
PubnonceSerialize(obj) ==
    LET qs == PubnonceLoad(obj)
    IN  IF qs = Nothing THEN Nothing ELSE EckeySerialize(qs[1][1], TRUE) \o EckeySerialize(qs[1][2], TRUE)

AggnonceSave(q1, q2) == << AggnonceMagic >> \o GeToBytesExt(q1) \o GeToBytesExt(q2)
AggnonceLoad(obj) ==
    LET body == Body(obj, AggnonceMagic)
    IN  Given(body # Nothing, << GeFromBytesExt(SubSeq(body, 1, 2)), GeFromBytesExt(SubSeq(body, 3, 4)) >>)
AggnonceParse(old, in) ==
    LET q1 == MusigParseExt(SubSeq(in, 1, 2))
        q2 == MusigParseExt(SubSeq(in, 3, 4))
    IN  IF q1 = Nothing \/ q2 = Nothing THEN old ELSE AggnonceSave(q1[1], q2[1])
AggnonceSerialize(obj) ==
    LET qs == AggnonceLoad(obj)
    IN  IF qs = Nothing THEN Nothing ELSE MusigSerializeExt(qs[1][1]) \o MusigSerializeExt(qs[1][2])

SessionSave(session) == << SessionMagic, session.parity, session.nonce,
                           session.coef, session.challenge, session.part >>
SessionLoad(obj) ==
    LET b == Body(obj, SessionMagic)
    IN  Given(b # Nothing, [parity |-> b[1], nonce |-> b[2], coef |-> ScalarOf(b[3]),
                            challenge |-> ScalarOf(b[4]), part |-> ScalarOf(b[5])])

PartialSigSave(s) == << PartialSigMagic, s >>
PartialSigLoad(obj) == LET b == Body(obj, PartialSigMagic) IN Given(b # Nothing, ScalarOf(b[1]))
PartialSigParse(in) == IF in[1] < N THEN PartialSigSave(in[1]) ELSE Zeros(2)
PartialSigSerialize(obj) == Body(obj, PartialSigMagic)

(* In Rust a serialization that fails would be a panic.                    *)
Panicked == << -1 >>
Written(string) == IF string = Nothing THEN Panicked ELSE string
PublicNonceSerialize(nonce) == Written(PubnonceSerialize(nonce))
AggregatedNonceSerialize(nonce) == Written(AggnonceSerialize(nonce))
PartialSignatureSerialize(sig) == Written(PartialSigSerialize(sig))

CacheSave(cache) == << CacheMagic >> \o GeToBytes(cache.pk) \o GeToBytesExt(cache.second)
                    \o << cache.hash, cache.parity, cache.tweak >>
CacheLoad(obj) ==
    LET b == Body(obj, CacheMagic)
    IN  Given(b # Nothing, [pk |-> GeFromBytes(SubSeq(b, 1, 2)), second |-> GeFromBytesExt(SubSeq(b, 3, 4)),
                            hash |-> b[5], parity |-> b[6] % 2, tweak |-> ScalarOf(b[7])])

----------------------------------------------------------------------------
(* The numbers that strings stand for, from the standards.                 *)
OnCurve(x, y) == x < P /\ y < P /\ (y * y) % P = (x * x * x + B) % P
YOf(x, odd) == { y \in 0 .. P - 1 : y % 2 = odd /\ OnCurve(x, y) }
The(set) == IF set = {} THEN Nothing ELSE CHOOSE x \in set : TRUE
PointOf(pub) ==
    IF Len(pub) = 2 THEN IF pub[1] \in {2, 3} THEN The({ << pub[2], y >> : y \in YOf(pub[2], pub[1] - 2) }) ELSE Nothing
    ELSE IF pub[1] \in {4, 6 + (pub[3] % 2)} /\ OnCurve(pub[2], pub[3]) THEN SubSeq(pub, 2, 3) ELSE Nothing
InfinityOr(pub) == IF pub = Zeros(2) THEN Zeros(2) ELSE PointOf(pub)
Both(a, b) == IF a = Nothing \/ b = Nothing THEN Nothing ELSE a \o b
Negated(point) == << point[1], P - point[2] >>
EvenPoint(point) == IF point[2] % 2 = 0 THEN point ELSE Negated(point)
ShortOf(point) == IF point = Zeros(2) THEN point ELSE << 2 + (point[2] % 2), point[1] >>

----------------------------------------------------------------------------
IsObject(kind) == object.kind = kind
Becomes(kind, data, numbers) == /\ object' = [kind |-> kind, data |-> data]
                                /\ holds' = numbers

NoObject == object = [kind |-> "absent"] /\ holds = Nothing /\ conversions = MaxConversions
ObjectInit == object = [kind |-> "none"] /\ holds = Nothing /\ conversions = 0

Compressed == { << tag, x >> : tag \in Tags, x \in Xs }
Uncompressed == { << tag, x, y >> : tag \in Tags, x \in Xs, y \in Ys }
NonceHalves == { << 2, 2 >>, << 3, 1 >>, << 2, 0 >>, << 0, 0 >>, << 2, P + 1 >>, << 0, 2 >> }
Points == { << 2, 2 >>, << 3, 1 >>, << 2, 65 >> }

ReadPubkey == \E in \in Compressed \cup Uncompressed : Becomes("pubkey", PubkeyParse(in), PointOf(in))
ReadXOnly == \E x \in Xs :
    Becomes("xonly", XOnlyParse(<< x >>), The({ << x, y >> : y \in YOf(x, 0) }))
ReadKeypair == \E sk \in SecretKeys :
    Becomes("keypair", KeypairCreate(sk), IF sk \in 1 .. N - 1 THEN << sk >> ELSE Nothing)
ReadPartialSig == \E s \in SecretKeys :
    Becomes("partial", PartialSigParse(<< s >>), IF s < N THEN << s >> ELSE Nothing)

(* One that is refused becomes the signature of zeros, which no key made.  *)
ReadRecoverable == \E r, s \in SecretKeys, recid \in 0 .. 3 :
    Becomes("recoverable", RecoverableParse(<< r, s >>, recid),
            IF r < N /\ s < N THEN << r, s, recid >> ELSE Zeros(3))

(* Into an object that is empty, or over the nonce that was in it.         *)
Over(kind, parse(_, _), in, numbers) ==
    Becomes(kind, parse(IF IsObject(kind) THEN object.data ELSE Zeros(5), in),
            IF numbers # Nothing THEN numbers ELSE IF IsObject(kind) THEN holds ELSE Nothing)
ReadPubnonce == \E a, b \in NonceHalves :
    Over("pubnonce", PubnonceParse, a \o b, Both(PointOf(a), PointOf(b)))
ReadAggnonce == \E a, b \in NonceHalves :
    Over("aggnonce", AggnonceParse, a \o b, Both(InfinityOr(a), InfinityOr(b)))

MakeSecnonce == \E pub \in Points, k1, k2 \in Nonces \ {0} :
    Becomes("secnonce", SecnonceSave(k1, k2, EckeyParse(pub)[1]), << k1, k2 >> \o PointOf(pub))
MakeSession == \E r \in Xs, odd \in {0, 1}, b, e, s \in Nonces :
    Becomes("session", SessionSave([parity |-> odd, nonce |-> r, coef |-> b, challenge |-> e, part |-> s]),
            << odd, r, b, e, s >>)

(* Without a second key if all keys are the same.                          *)
MakeCache == \E pub, other \in Points, odd \in {0, 1}, tweak \in Nonces :
    Becomes("cache",
            CacheSave([pk |-> EckeyParse(pub)[1], hash |-> 77, parity |-> odd, tweak |-> tweak,
                       second |-> IF pub = other THEN GeInfinity ELSE EckeyParse(other)[1]]),
            PointOf(pub) \o (IF pub = other THEN Zeros(2) ELSE PointOf(other)) \o << 77, odd, tweak >>)

Create == /\ object.kind \in {"none", "pubnonce", "aggnonce"}
          /\ \/ ReadPubkey \/ ReadXOnly \/ ReadKeypair \/ ReadPartialSig \/ ReadRecoverable
             \/ ReadPubnonce \/ ReadAggnonce \/ MakeSecnonce \/ MakeSession \/ MakeCache
          /\ UNCHANGED conversions

(* Of an object that is valid, since the type of Rust says so.             *)
Negate == IsObject("pubkey") /\ Becomes("pubkey", PubkeyNegate(object.data), Negated(holds))
ToXOnly == IsObject("pubkey") /\ Becomes("xonly", XOnlyFromPubkey(object.data), EvenPoint(holds))
FromXOnly == /\ IsObject("xonly")
             /\ \E odd \in {0, 1} : Becomes("pubkey", FromXOnlyPublicKey(object.data, odd),
                                            IF odd = 1 THEN Negated(holds) ELSE holds)
PublicOf(sk) == GeToBytes(MultipleOfG(sk))
ToPublicKey == IsObject("keypair") /\ Becomes("pubkey", KeypairPub(object.data), PublicOf(holds[1]))
ToXOnlyPublicKey ==
    IsObject("keypair") /\ Becomes("xonly", KeypairXOnlyPub(object.data), EvenPoint(PublicOf(holds[1])))
Erase == IsObject("keypair") /\ Becomes("keypair", DummyKeypair, << 1 >>)
ToStandard ==
    IsObject("recoverable") /\ Becomes("signature", RecoverableConvert(object.data), SubSeq(holds, 1, 2))
Invalidate == /\ IsObject("secnonce")
              /\ \E flag \in BOOLEAN :
                    Becomes("secnonce", SecnonceInvalidate(object.data, flag), IF flag THEN Nothing ELSE holds)

Convert == /\ holds # Nothing /\ conversions < MaxConversions /\ conversions' = conversions + 1
           /\ \/ Negate \/ ToXOnly \/ FromXOnly \/ ToPublicKey \/ ToXOnlyPublicKey
              \/ Erase \/ ToStandard \/ Invalidate

ObjectNext == Create \/ Convert
ObjectSpec == ObjectInit /\ [][ObjectNext]_objectVars

----------------------------------------------------------------------------
(* The numbers of a point; more than P if the limbs are not canonical.     *)
Coordinates(q) == IF q.inf THEN Zeros(2) ELSE << FeCell(q.x), FeCell(q.y) >>

(* What the object gives when it is loaded.                                *)
Loaded ==
    LET data == object.data
        one(loaded, numbers(_)) == IF loaded = Nothing THEN Nothing ELSE numbers(loaded[1])
    IN  CASE object.kind \in {"pubkey", "xonly"} -> one(PubkeyLoad(data), Coordinates)
          [] IsObject("keypair") -> one(KeypairLoad(data), LAMBDA kp : IF Coordinates(kp.pk) = GeToBytes(MultipleOfG(kp.sk)) THEN << kp.sk >> ELSE << 0 >>)
          [] IsObject("secnonce") -> one(SecnonceLoad(data), LAMBDA n : << n.k1, n.k2 >> \o Coordinates(n.pk))
          [] IsObject("pubnonce") -> one(PubnonceLoad(data), LAMBDA qs : Coordinates(qs[1]) \o Coordinates(qs[2]))
          [] IsObject("aggnonce") -> one(AggnonceLoad(data), LAMBDA qs : Coordinates(qs[1]) \o Coordinates(qs[2]))
          [] IsObject("session") -> one(SessionLoad(data), LAMBDA s : << s.parity, s.nonce, s.coef, s.challenge, s.part >>)
          [] IsObject("cache") -> one(CacheLoad(data), LAMBDA c : Coordinates(c.pk) \o Coordinates(c.second) \o << c.hash, c.parity, c.tweak >>)
          [] IsObject("partial") -> one(PartialSigLoad(data), LAMBDA s : << s >>)
          [] object.kind \in {"recoverable", "signature"} -> RecoverableSerialize(data)
          [] OTHER -> Nothing

(* Its serializations, those the standards give to its numbers, and what   *)
(* reading them gives.                                                     *)
Serialized ==
    LET data == object.data
        written(out, expected, read) == [out |-> out, expected |-> expected, read |-> read]
    IN  CASE IsObject("pubkey") -> { written(PubkeySerialize(data, TRUE), ShortOf(holds), PubkeyParse(ShortOf(holds))),
                                     written(PubkeySerialize(data, FALSE), << 4 >> \o holds, PubkeyParse(<< 4 >> \o holds)) }
          [] IsObject("xonly") -> { written(XOnlySerialize(data), << holds[1] >>, XOnlyParse(<< holds[1] >>)) }
          [] IsObject("keypair") -> { written(KeypairSec(data), holds, KeypairCreate(holds[1])) }
          [] IsObject("partial") -> { written(PartialSignatureSerialize(data), holds, PartialSigParse(holds)) }
          [] IsObject("pubnonce") -> LET s == ShortOf(SubSeq(holds, 1, 2)) \o ShortOf(SubSeq(holds, 3, 4))
                                     IN  { written(PublicNonceSerialize(data), s, PubnonceParse(Zeros(5), s)) }
          [] IsObject("aggnonce") -> LET s == ShortOf(SubSeq(holds, 1, 2)) \o ShortOf(SubSeq(holds, 3, 4))
                                     IN  { written(AggregatedNonceSerialize(data), s, AggnonceParse(Zeros(5), s)) }
          [] OTHER -> {}

(* Objects are in the order of the strings that are hashed for them, those *)
(* cleared first.                                                          *)
Ordered(others, cmp(_, _), string(_)) ==
    \A other \in others \cup { Zeros(Len(object.data)) } :
        LET this == object.data
            that == string(other)
            mine == string(this)
        IN  /\ cmp(this, other) = - cmp(other, this)
            /\ cmp(this, other) = Cmp(Memcmp(IF mine = Nothing THEN Zeros(Len(that)) ELSE mine,
                                             IF that = Nothing THEN Zeros(Len(mine)) ELSE that))
            /\ cmp(this, other) = 0 => this = other

(* A key is the one made of its x coordinate and of the parity it gave.    *)
PartsAgree(key) == LET parts == XOnlyPublicKey(key) IN FromXOnlyPublicKey(parts.xonly, parts.parity) = key

(* An object gives back the numbers of the string, or of the object, it    *)
(* came from; one that failed to parse, or was invalidated, is refused;    *)
(* its serialization is the one of the standards, and is read to the same  *)
(* object; two of them compare the same way from both sides, and are equal *)
(* only if they are the same one and hash the same; the parts of a key     *)
(* make it again (secp256k1.c:194, extrakeys/main_impl.h:14,    *)
(* musig/session_impl.h:22, musig/keyagg_impl.h:20,                        *)
(* recovery/main_impl.h:14).                                               *)
ObjectsHold ==
    /\ Loaded = holds
    /\ holds # Nothing => \A s \in Serialized : s.out = s.expected /\ s.read = object.data
    /\ IsObject("pubkey") => Ordered({ PubkeyParse(pub) : pub \in Points \cup { << 3, 2 >> } },
                                       PublicKeyCmp, PublicKeyHash)
    /\ IsObject("pubkey") /\ holds # Nothing => PartsAgree(object.data)
    /\ IsObject("keypair") /\ holds # Nothing => PartsAgree(KeypairPub(object.data))
    /\ IsObject("xonly") => Ordered({ XOnlyParse(<< pub[2] >>) : pub \in Points },
                                      XOnlyPublicKeyCmp, XOnlyHash)
    /\ IsObject("keypair") => Ordered({ KeypairCreate(sk) : sk \in SecretKeys }, KeypairCmp, KeypairHash)
    /\ IsObject("recoverable") => Ordered({ << 600, s, 3 >> : s \in {2, 600} }, RecoverableCmp, RecoverableHash)
    /\ IsObject("signature") => Ordered({ << 600, s >> : s \in {2, 600} }, SignatureCmp, SignatureHash)
=============================================================================
