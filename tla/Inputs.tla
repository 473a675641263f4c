------------------------------- MODULE Inputs -------------------------------
(***************************************************************************)
(* What the functions hash that hash their arguments: the nonce functions  *)
(* (secp256k1.c, schnorrsig/main_impl.h, musig/session_impl.h), challenges,*)
(* the hashes of MuSig (musig/keyagg_impl.h, musig/session_impl.h), of     *)
(* ECDH and of ElligatorSwift (ellswift/main_impl.h), and the blinding of  *)
(* a context (ecmult_gen_impl.h).  Left out are tagged_sha256, the tag of  *)
(* which is the caller's, and the functions that callers pass.             *)
(*                                                                         *)
(* The string that is hashed stands for the hash.  It starts with a symbol *)
(* for the tag, if there is one; another symbol is a byte that matters or  *)
(* half of 32 bytes.  An absent argument is empty.                         *)
(***************************************************************************)
EXTENDS Integers, Sequences, SequencesExt

CONSTANTS Radix,                       \* of the symbols of arguments
          ScalarOrder,
          Strings32, Strings33, Strings64,
          MessageHashes, Messages, Algos,
          MaxPublicKeys, Counts

VARIABLE call      \* the string and the arguments that it should depend on

Zeros(n) == [i \in 1 .. n |-> 0]
Symbols == 0 .. Radix - 1
Words(n) == [1 .. n -> Symbols]

ASSUME InputsAssumption ==
    /\ Radix \in Nat \ {0} /\ ScalarOrder \in Nat \ {0} /\ MaxPublicKeys \in Nat /\ Counts \subseteq Nat
    /\ Zeros(2) \in Strings32 /\ Strings32 \subseteq Words(2) /\ MessageHashes \subseteq Words(2)
    /\ Strings33 \subseteq Words(3) /\ Strings64 \subseteq Words(4)
    /\ Messages \subseteq Seq(Symbols) /\ Algos \subseteq Words(1)

----------------------------------------------------------------------------
(* A hash that masks a key is of one symbol, so that masks do not cancel.  *)
Tagged(tag, string) == << - tag >> \o string
Masked(key, aux) == << Radix * (1 + aux[1]) + key[1], Radix * (1 + aux[2]) + key[2] >>

(* The message counts modulo the order.                                    *)
Reduced(msg) == LET m == Radix * msg[1] + msg[2]
                IN  IF m >= ScalarOrder THEN << (m - ScalarOrder) \div Radix, (m - ScalarOrder) % Radix >> ELSE msg
KeyData(key, msg, data, algo) == key \o Reduced(msg) \o data \o algo
BlindData(offset, seed) == offset \o seed

AuxOf(data) == IF data = << >> THEN Zeros(2) ELSE data
Bip340Nonce(key, pk, msg, algo, data) == Tagged(algo, Masked(key, AuxOf(data)) \o pk \o msg)
Challenge(r, pk, msg) == Tagged(3, r \o pk \o msg)

(* Mutant: without the length.                                             *)
HelperBare(prefix, data) == data

(* An optional input, after its length in prefix bytes.                    *)
Helper(prefix, data) == Zeros(prefix - 1) \o << Len(data) >> \o data
MessagePart(msg) == IF msg = << >> THEN << 0 >> ELSE << 1 >> \o Helper(8, msg)
MusigNonce(secrand, seckey, pk, aggpk, msg, extra, i) ==
    Tagged(5, (IF seckey = << >> THEN secrand ELSE Masked(seckey, secrand))
              \o Helper(1, pk) \o Helper(1, aggpk) \o MessagePart(msg) \o Helper(4, extra) \o << i >>)
NonceHash(aggnonce, aggpk, msg) == Tagged(6, aggnonce[1] \o aggnonce[2] \o aggpk \o msg)
PksHash(pks) == Tagged(7, FlattenSeq(pks))
KeyAggCoef(pksHash, pk) == Tagged(8, pksHash \o pk)

EcdhHash(x, odd) == << 2 + odd >> \o x
XdhPrefix(x, ellA, ellB, data) == data \o ellA \o ellB \o x
XdhBip324(x, ellA, ellB) == Tagged(11, ellA \o ellB \o x)
EncodeHash(pk, rnd, cnt) == Tagged(9, pk \o Zeros(1) \o rnd \o << cnt >>)
CreateHash(seckey, aux, cnt) == Tagged(10, seckey \o Zeros(2) \o aux \o << cnt >>)

----------------------------------------------------------------------------
Of(hashed, view) == [hashed |-> hashed, view |-> view]
Optional(strings) == {<< >>} \cup strings

KeyDataCalls == { Of(KeyData(a[1], a[2], a[3], a[4]), << << 1 >>, a[1], Reduced(a[2]), a[3], a[4] >>) :
    a \in Strings32 \X MessageHashes \X Optional(Strings32) \X Optional(Algos) }
BlindCalls == { Of(BlindData(a[1], a[2]), << << 14 >>, a[1], a[2] >>) :
    a \in { Reduced(s) : s \in Strings32 } \X Strings32 }
Bip340Calls == { Of(Bip340Nonce(a[1], a[2], a[3], a[4], a[5]), << << 2, a[4] >>, a[1], a[2], a[3], AuxOf(a[5]) >>) :
    a \in Strings32 \X Strings32 \X Messages \X {1, 12} \X Optional(Strings32) }
ChallengeCalls == { Of(Challenge(a[1], a[2], a[3]), << << 3 >>, a[1], a[2], a[3] >>) :
    a \in Strings32 \X Strings32 \X Messages }
MusigNonceCalls == { Of(MusigNonce(a[1], a[2], a[3], a[4], a[5], a[6], a[7]),
                        << << 5, a[7] >>, a[1], a[2], a[3], a[4], a[5], a[6] >>) :
    a \in Strings32 \X Optional(Strings32) \X Strings33 \X Optional(Strings32)
          \X Optional(Strings32) \X Optional(Strings32) \X {0, 1} }
NonceHashCalls == { Of(NonceHash(<< a[1], a[2] >>, a[3], a[4]), << << 6 >>, a[1], a[2], a[3], a[4] >>) :
    a \in (Strings33 \cup {Zeros(3)}) \X (Strings33 \cup {Zeros(3)}) \X Strings32 \X Strings32 }
PksHashCalls == { Of(PksHash(pks), << << 7 >>, pks >>) : pks \in SeqOf(Strings33, MaxPublicKeys) }
KeyAggCoefCalls == { Of(KeyAggCoef(a[1], a[2]), << << 8 >>, a[1], a[2] >>) : a \in Strings32 \X Strings33 }
EncodeCalls == { Of(EncodeHash(a[1], a[2], a[3]), << << 9, a[3] >>, a[1], a[2] >>) :
    a \in Strings33 \X Strings32 \X Counts }
CreateCalls == { Of(CreateHash(a[1], a[2], a[3]), << << 10, a[3] >>, a[1], a[2] >>) :
    a \in Strings32 \X Optional(Strings32) \X Counts }
Bip324Calls == { Of(XdhBip324(a[1], a[2], a[3]), << << 11 >>, a[1], a[2], a[3] >>) :
    a \in Strings32 \X Strings64 \X Strings64 }
EcdhCalls == { Of(EcdhHash(a[1], a[2]), << << 12, a[2] >>, a[1] >>) : a \in Strings32 \X {0, 1} }
PrefixCalls == { Of(XdhPrefix(a[1], a[2], a[3], a[4]), << << 13 >>, a[1], a[2], a[3], a[4] >>) :
    a \in Strings32 \X Strings64 \X Strings64 \X Strings64 }

Calls == KeyDataCalls \cup Bip340Calls \cup ChallengeCalls \cup MusigNonceCalls \cup NonceHashCalls
         \cup PksHashCalls \cup KeyAggCoefCalls \cup EncodeCalls \cup CreateCalls \cup Bip324Calls
         \cup EcdhCalls \cup PrefixCalls \cup BlindCalls

----------------------------------------------------------------------------
NoCall == call = Of(<< >>, << >>)
CallInit == call \in Calls

(* The second nonce of MuSig, and the next hash of a search for encodings. *)
NextCount == /\ call.view # << >> /\ call.view[1][1] \in {5, 9, 10}
             /\ call' \in Calls
             /\ call'.view = << << call.view[1][1], call.view[1][2] + 1 >> >> \o Tail(call.view)
CallSpec == CallInit /\ [][NextCount]_call

(* Blinding hashes, without a tag, what the nonce function for ECDSA       *)
(* hashes when the offset is the key, the seed the message modulo the      *)
(* order, and there is neither data nor an algorithm.                      *)
Emulates(blinding, other) ==
    /\ blinding.view[1] = << 14 >>
    /\ other.view = << << 1 >>, blinding.view[2], blinding.view[3], << >>, << >> >>

(* "it is not possible for different argument mixtures to emulate each     *)
(* other" (secp256k1.c:436), of the functions above: two calls hash the    *)
(* same string exactly if they are of one function and its arguments are   *)
(* the same, where a message counts modulo the order and an absent         *)
(* auxiliary number of BIP-340 as zero, or if one is a blinding that       *)
(* emulates a nonce (ecmult_gen_impl.h:305).                               *)
InputsSeparate == call \in Calls =>
    \A other \in Calls :
        other.hashed = call.hashed <=> \/ other.view = call.view
                                      \/ Emulates(call, other) \/ Emulates(other, call)
=============================================================================
