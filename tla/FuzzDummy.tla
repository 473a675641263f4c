----------------------------- MODULE FuzzDummy -----------------------------
(***************************************************************************)
(* The keys and signatures of the fuzzing build (mod fuzz_dummy of         *)
(* secp256k1-sys/src/lib.rs and src/recovery.rs): a public key is the      *)
(* secret key itself, with a parity that is its highest bit, and a         *)
(* signature is the message and the key.  Fuzzers run programs on it, so   *)
(* that it has to keep the promises of the library that it stands for.     *)
(*                                                                         *)
(* A string of 32 bytes is a number below Top, a byte has ByteBits bits.   *)
(* An assertion that fails is the result Panics.                           *)
(*                                                                         *)
(* The owner of a key pair changes it, and the others follow with the      *)
(* public functions, as in Keys.  All of that needs a context, so it       *)
(* comes after the flag of OnceFlag has opened.                            *)
(***************************************************************************)
EXTENDS OnceFlag, Integers, Sequences

CONSTANTS Order,      \* of the group
          ByteBits, NumBytes,
          FirstKey,
          MessageHashes, Tweaks,
          SchnorrMessages,   \* [len, first]: how long, and the NumBytes bytes at their address
          KeyLists,          \* secret keys whose public keys are added in one call
          Error, Panics,
          XorOf(_, _)   \* of the bits of two strings

VARIABLES keypair, view
dummyVars == << keypair, view >>

Bits == ByteBits * NumBytes
Weight[i \in 0 .. Bits] == IF i = 0 THEN 1 ELSE 2 * Weight[i - 1]
Top == Weight[Bits]
Strings == 0 .. Top - 1
High(k) == 2 * k >= Top

ASSUME BitsAssumption == ByteBits \in Nat \ {0} /\ NumBytes \in Nat \ {0}

(* The order is a prime, not far below 2^256.                              *)
ASSUME OrderAssumption == /\ Order \in 2 .. Top - 1 /\ High(Order - 1)
                          /\ \A a, b \in 1 .. Order - 1 : (a * b) % Order # 0

ASSUME DummyAssumption ==
    /\ FirstKey \in 1 .. Order - 1
    /\ MessageHashes \cup Tweaks \subseteq Strings
    /\ SchnorrMessages \subseteq [len : Nat, first : Strings]
    /\ KeyLists \subseteq Seq(1 .. Order - 1)
    /\ Error # Panics /\ TRUE \notin {Error, Panics}
    /\ LET keys == [k : Strings, odd : BOOLEAN]
       IN  {Error, Panics} \cap (Strings \cup keys \cup [sk : Strings, pk : keys]) = {}

ASSUME XorAssumption ==
    /\ \A i \in 0 .. Bits : \A a, b \in 0 .. Weight[i] - 1 : XorOf(a, b) \in 0 .. Weight[i] - 1
    /\ \A i \in 0 .. Bits - 1 : \A a \in 0 .. Weight[i] - 1 : XorOf(a, Weight[i]) = a + Weight[i]
    /\ \A a, b, c \in Strings : XorOf(XorOf(a, b), c) = XorOf(a, XorOf(b, c))
    /\ \A a, b \in Strings : XorOf(a, b) = XorOf(b, a)
    /\ \A a \in Strings : XorOf(a, a) = 0 /\ XorOf(a, 0) = a

(* The functions of the C library on secret keys, which are not replaced.  *)
SeckeyVerify(k) == k \in 1 .. Order - 1
SeckeyNegate(k) == Order - k
SeckeyTweakAdd(k, t) ==
    IF ~ SeckeyVerify(k) \/ t >= Order \/ (k + t) % Order = 0 THEN Error ELSE (k + t) % Order
SeckeyTweakMul(k, t) == IF ~ SeckeyVerify(k) \/ t >= Order \/ t = 0 THEN Error ELSE (k * t) % Order

(* The other half of a key repeats the first, but for the byte that is odd. *)
CleanupPk(k) == [k |-> k, odd |-> High(k)]
PkValidate(pk) == SeckeyVerify(pk.k)
Cleaned(k) == IF k = Error THEN Error ELSE CleanupPk(k)

EcPubkeyParse(size, tag, k) ==
    LET pk == IF size = 33 THEN [k |-> k, odd |-> tag = 3] ELSE CleanupPk(k)
    IN  IF /\ tag \in (CASE size = 33 -> {2, 3} [] size = 65 -> {4, 6, 7} [] OTHER -> {})
           /\ PkValidate(pk)
        THEN pk ELSE Error
EcPubkeySerialize(pk, compressed) ==
    IF compressed THEN << 33, IF pk.odd THEN 3 ELSE 2, pk.k >> ELSE << 65, 4, pk.k >>

EcPubkeyCreate(sk) == IF SeckeyVerify(sk) THEN CleanupPk(sk) ELSE Error
EcPubkeyNegate(pk) == CleanupPk(SeckeyNegate(pk.k))

(* Mutant: the byte of the parity is that of the key before.               *)
EcPubkeyTweakAddUncleaned(pk, t) ==
    LET k == SeckeyTweakAdd(pk.k, t) IN IF k = Error THEN Error ELSE [pk EXCEPT !.k = k]

EcPubkeyTweakAdd(pk, t) == Cleaned(SeckeyTweakAdd(pk.k, t))
EcPubkeyTweakMul(pk, t) == Cleaned(SeckeyTweakMul(pk.k, t))

(* One key is added after the other, and a sum that is zero fails even     *)
(* when more keys follow.  The first key is not validated before.          *)
RunningSums(k, keys) ==
    LET sums[i \in 0 .. Len(keys)] ==
            IF i = 0 THEN k ELSE IF sums[i - 1] = Error THEN Error ELSE SeckeyTweakAdd(sums[i - 1], keys[i])
    IN  sums
EcPubkeyCombine(pks) ==
    LET others == [i \in 1 .. Len(pks) - 1 |-> pks[i + 1].k]
        sums == RunningSums(pks[1].k, others)
        out == Cleaned(sums[Len(others)])
    IN  IF \E i \in DOMAIN others : sums[i - 1] # Error /\ ~ PkValidate(pks[i + 1]) THEN Panics
        ELSE IF out # Error /\ ~ PkValidate(out) THEN Panics
        ELSE out

(* Each byte is 1 where both keys are the same.                            *)
Ones == LET upto[i \in 0 .. NumBytes] == IF i = 0 THEN 0 ELSE upto[i - 1] + Weight[ByteBits * (i - 1)]
        IN  upto[NumBytes]
Ecdh(point, sk) == IF SeckeyVerify(sk) THEN XorOf(XorOf(sk, point.k), Ones) ELSE Error

EcdsaSign(m, sk) == << m, EcPubkeyCreate(sk).k >>
EcdsaVerify(sig, m, pk) == sig = << m, pk.k >>

KeypairCreate(sk) == IF SeckeyVerify(sk) THEN [sk |-> sk, pk |-> EcPubkeyCreate(sk)] ELSE Error

XonlyPubkeyParse(k) == IF PkValidate(CleanupPk(k)) THEN CleanupPk(k) ELSE Error
XonlyPubkeySerialize(x) == x.k
XonlyPubkeyFromPubkey(pk) == [key |-> pk, parity |-> ~ pk.odd]
KeypairXonlyPub(kp) == [key |-> kp.pk, parity |-> ~ kp.pk.odd]
XonlyPubkeyTweakAdd(x, t) == EcPubkeyTweakAdd(x, t)
KeypairXonlyTweakAdd(kp, t) ==
    LET pk == EcPubkeyTweakAdd(kp.pk, t)
        sk == SeckeyTweakAdd(kp.sk, t)
    IN  IF pk = Error \/ sk = Error THEN Panics ELSE [sk |-> sk, pk |-> pk]
XonlyPubkeyTweakAddCheck(k, parity, x, t) ==
    LET pk == XonlyPubkeyTweakAdd(x, t)
    IN  IF pk = Error THEN Panics ELSE pk.k = k /\ parity = ~ pk.odd

(* NumBytes bytes are read from the address of a message of any length:    *)
(* beyond the end of a shorter one, where anything may be found.  The      *)
(* address of an empty one is null.                                        *)
Reads(m) == IF m.len >= NumBytes THEN {m.first} ELSE Strings

(* The key pair is created again, and has to be the same.  The length is   *)
(* not used when read is signed, but it is when the message is compared    *)
(* with what was signed.                                                   *)
SchnorrsigSign(m, kp, read) ==
    IF m.len = 0 \/ KeypairCreate(kp.sk) # kp THEN Panics ELSE << read, kp.pk.k >>
SchnorrsigVerify(sig, m, x) ==
    IF m.len = 0 \/ ~ PkValidate(x) THEN Panics
    ELSE m.len = NumBytes /\ sig = << m.first, x.k >>

(* The parity is where a recoverable signature has its id.                 *)
EcdsaSignRecoverable(m, sk) ==
    LET ser == EcPubkeySerialize(EcPubkeyCreate(sk), TRUE)
    IN  [m |-> m, k |-> ser[3], id |-> ser[2] - 2]

(* The key for another message is another one: bit after bit is flipped    *)
(* until it is a key, from the first byte on.                              *)
BitOf(idx) == Weight[ByteBits * (NumBytes - 1 - (idx \div ByteBits)) + (idx % ByteBits)]
Flips(k) == LET at[i \in 0 .. Bits] == IF i = 0 THEN k ELSE XorOf(at[i - 1], BitOf(i - 1)) IN at
FlipUntilKey(tag, k) ==
    LET valid == {i \in 0 .. Bits : EcPubkeyParse(33, tag, Flips(k)[i]) # Error}
    IN  IF valid = {} THEN Panics
        ELSE EcPubkeyParse(33, tag, Flips(k)[CHOOSE i \in valid : \A j \in valid : i <= j])
EcdsaRecover(sig, m) ==
    IF sig.id >= 4 \/ EcPubkeyParse(33, sig.id + 2, sig.k) = Error THEN Error
    ELSE FlipUntilKey(sig.id + 2, XorOf(sig.k, XorOf(sig.m, m)))

----------------------------------------------------------------------------
DummyInit == /\ keypair = KeypairCreate(FirstKey)
             /\ view = EcPubkeyCreate(FirstKey)

(* The functions do not touch the flag or the static.                      *)
ContextsMade == static = "valid" /\ \A p \in Procs : pc[p] = "out"

(* The functions of Rust work on copies, and drop them on an error.        *)
OrKept(new, old) == IF new \in {Error, Panics} THEN old ELSE new
Both(kp, pk) == /\ ContextsMade
                /\ keypair' = OrKept(kp, keypair)
                /\ view' = OrKept(pk, view)
                /\ UNCHANGED vars
FromSecret(sk) == IF sk = Error THEN Error ELSE KeypairCreate(sk)

AddTweak == \E t \in Tweaks : Both(FromSecret(SeckeyTweakAdd(keypair.sk, t)), EcPubkeyTweakAdd(view, t))
MulTweak == \E t \in Tweaks : Both(FromSecret(SeckeyTweakMul(keypair.sk, t)), EcPubkeyTweakMul(view, t))
Negate == Both(KeypairCreate(SeckeyNegate(keypair.sk)), EcPubkeyNegate(view))
(* The owner adds the secret keys one at a time, and keeps none of it on   *)
(* an error; the others combine all the public keys.                       *)
Combined(keys) == EcPubkeyCombine(<< view >> \o [i \in 1 .. Len(keys) |-> EcPubkeyCreate(keys[i])])
AddKey == \E keys \in KeyLists :
    Both(FromSecret(RunningSums(keypair.sk, keys)[Len(keys)]), Combined(keys))
AddXonlyTweak == \E t \in Tweaks :
    Both(KeypairXonlyTweakAdd(keypair, t), XonlyPubkeyTweakAdd(XonlyPubkeyFromPubkey(view).key, t))
Resend == \E compressed \in BOOLEAN :
    LET ser == EcPubkeySerialize(view, compressed)
    IN  Both(keypair, EcPubkeyParse(ser[1], ser[2], ser[3]))

FuzzInit == Init /\ DummyInit
FuzzNext == \/ \E p \in Procs : (Load(p) \/ Creating(p)) /\ UNCHANGED dummyVars
            \/ AddTweak \/ MulTweak \/ Negate \/ AddKey \/ AddXonlyTweak \/ Resend
FuzzSpec == /\ FuzzInit
            /\ [][FuzzNext]_<< vars, dummyVars >>
            /\ \A p \in Procs : WF_vars(Creating(p) /\ UNCHANGED dummyVars)

----------------------------------------------------------------------------
(* The sums that the library comes by, which only looks at the last one.   *)
Totals(k, keys) ==
    LET sums[i \in 0 .. Len(keys)] == IF i = 0 THEN k ELSE (sums[i - 1] + keys[i]) % Order
    IN  sums

(* Whatever has been done to the key pair and to its public half, the two  *)
(* fit, and so do signing and verification, of the message that was signed *)
(* only, recovery, both sides of ECDH, the x-only tweak and its check,     *)
(* which accepts no other tweak, and the sum of keys                       *)
(* (secp256k1-sys/src/lib.rs, mod fuzz_dummy; recovery.rs).  There are two *)
(* exceptions, where programs can tell the dummies from the library.  A    *)
(* Schnorr signature of a message that is not NumBytes bytes long does not *)
(* verify; that of a longer one is a signature of its first bytes.  And    *)
(* keys with a partial sum of zero have no sum, even when the whole is not *)
(* zero.                                                                   *)
DummiesKeepPromises ==
    ContextsMade =>
    /\ keypair = KeypairCreate(keypair.sk) /\ view = keypair.pk
    /\ \A m, m2 \in MessageHashes :
          LET recoverable == EcdsaSignRecoverable(m, keypair.sk)
          IN  /\ EcdsaVerify(EcdsaSign(m, keypair.sk), m2, view) <=> m = m2
              /\ EcdsaRecover(recoverable, m2) \notin {Error, Panics}
              /\ EcdsaRecover(recoverable, m) = view
    /\ \A m, m2 \in SchnorrMessages : \A read \in Reads(m) :
          LET sig == SchnorrsigSign(m, keypair, read)
              Verified(n) == SchnorrsigVerify(sig, n, XonlyPubkeyFromPubkey(view).key) = TRUE
          IN  IF m.len = NumBytes THEN Verified(m2) <=> m2 = m ELSE ~ Verified(m)
    /\ \A keys \in KeyLists :
          LET totals == Totals(keypair.sk, keys)
          IN  Combined(keys) = IF \E i \in 1 .. Len(keys) : totals[i] = 0 THEN Error
                               ELSE EcPubkeyCreate(totals[Len(keys)])
    /\ \A sk \in 1 .. Order - 1 : Ecdh(view, sk) = Ecdh(EcPubkeyCreate(sk), keypair.sk)
    /\ XonlyPubkeyParse(XonlyPubkeySerialize(XonlyPubkeyFromPubkey(view).key)) = KeypairXonlyPub(keypair).key
    /\ \A t \in Tweaks :
          LET x == XonlyPubkeyFromPubkey(view).key
              tweaked == XonlyPubkeyTweakAdd(x, t)
              after == XonlyPubkeyFromPubkey(tweaked)
          IN  tweaked # Error =>
                 /\ after = KeypairXonlyPub(KeypairXonlyTweakAdd(keypair, t))
                 /\ \A t2 \in Tweaks : XonlyPubkeyTweakAdd(x, t2) # Error =>
                       XonlyPubkeyTweakAddCheck(after.key.k, after.parity, x, t2)
                           <=> t2 % Order = t % Order
=============================================================================
