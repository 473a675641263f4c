-------------------------------- MODULE Hash --------------------------------
(***************************************************************************)
(* Hashes of streams, HMAC and the generator of RFC 6979 (hash_impl.h), on *)
(* any function that compresses blocks.  A hash object keeps a state, the  *)
(* bytes that do not fill a block yet and the number of bytes so far.  A   *)
(* stream or a MAC takes its bytes in chunks, a generator gives as many    *)
(* bytes a call as it is asked for.                                        *)
(***************************************************************************)
EXTENDS Integers, Sequences

CONSTANTS Compress(_, _),    \* the state after a block
          StartState,
          Digest(_),         \* the bytes of a state
          XorByte(_, _),
          BlockSize, DigestSize,
          SizeBytes          \* the bytes that hold the length, in bits

(* The bytes that callers pass: keys, tags and seeds, parts of texts; and  *)
(* the numbers of bytes they ask a generator for.                          *)
CONSTANTS HashKeys, Chunks, OutLengths, MaxText, MaxHashSteps

Streams == Seq(0 .. 255)

(* The digest of a key fits a block, and so does the length of a text with *)
(* a byte; the second mask takes the place of the first.                   *)
ASSUME HashSizesAssumption ==
    /\ BlockSize \in Nat \ {0} /\ DigestSize \in Nat \ {0} /\ SizeBytes \in Nat
    /\ DigestSize <= BlockSize /\ SizeBytes < BlockSize
ASSUME MasksAssumption ==
    \A b \in 0 .. 255 : /\ XorByte(b, 92) \in 0 .. 255 /\ XorByte(b, 54) \in 0 .. 255
                        /\ XorByte(XorByte(b, 92), XorByte(92, 54)) = XorByte(b, 54)
ASSUME BytesAssumption == HashKeys \subseteq Streams /\ Chunks \subseteq Streams /\ OutLengths \subseteq Nat

VARIABLES hashing, hashSteps
hashVars == <<hashing, hashSteps>>

Repeated(byte, n) == [i \in 1 .. n |-> byte]
XoredWith(key, byte) == [i \in DOMAIN key |-> XorByte(key[i], byte)]

Initialize == [s |-> StartState, buf |-> << >>, bytes |-> 0]

(* The state after the first blocks of a stream, one after the other.      *)
After(s, stream, blocks) ==
    LET after[i \in 0 .. blocks] ==
            IF i = 0 THEN s
            ELSE Compress(after[i - 1], SubSeq(stream, (i - 1) * BlockSize + 1, i * BlockSize))
    IN  after[blocks]

(* Fills the buffer and processes it, as often as it can.                  *)
Process(hash, stream, blocks) ==
    [hash EXCEPT !.s = After(@, stream, blocks),
                 !.buf = SubSeq(stream, blocks * BlockSize + 1, Len(stream))]
Write(hash, data) == [Process(hash, hash.buf \o data, (Len(hash.buf) + Len(data)) \div BlockSize)
                         EXCEPT !.bytes = @ + Len(data)]

(* The number of bits, the high byte first.                                *)
SizeDesc(bytes) == LET rest[i \in 0 .. SizeBytes] == IF i = 0 THEN 8 * bytes ELSE rest[i - 1] \div 256
                   IN  [i \in 1 .. SizeBytes |-> rest[SizeBytes - i] % 256]
(* Mutant: a byte too many.                                                *)
PadLengthLate(bytes) == 1 + ((2 * BlockSize - SizeBytes - (bytes % BlockSize)) % BlockSize)
PadLength(bytes) == 1 + ((2 * BlockSize - SizeBytes - 1 - (bytes % BlockSize)) % BlockSize)
Finalize(hash) ==
    Digest(Write(Write(hash, << 128 >> \o Repeated(0, PadLength(hash.bytes) - 1)), SizeDesc(hash.bytes)).s)

HashOf(data) == Finalize(Write(Initialize, data))
WrittenTwice(buf) == Write(Write(Initialize, buf), buf)
InitializeTagged(tag) == WrittenTwice(HashOf(tag))

----------------------------------------------------------------------------
(* The inner key is the outer one with the difference of the two masks.    *)
HmacPads(rkey) == [outer |-> Write(Initialize, XoredWith(rkey, 92)),
                   inner |-> Write(Initialize, XoredWith(XoredWith(rkey, 92), XorByte(92, 54)))]
Filled(short) == short \o Repeated(0, BlockSize - Len(short))
HmacInitialize(key) == HmacPads(Filled(IF Len(key) <= BlockSize THEN key ELSE HashOf(key)))
HmacWrite(hmac, data) == [hmac EXCEPT !.inner = Write(@, data)]
HmacFinalize(hmac) == Finalize(Write(hmac.outer, Finalize(hmac.inner)))

Hmac(key, data) == HmacFinalize(HmacWrite(HmacInitialize(key), data))

(* The steps d. and f. of RFC 6979, and the one after a candidate failed.  *)
Revalued(rng) == [rng EXCEPT !.v = Hmac(rng.k, rng.v)]
Rekey(rng, data) == Revalued([rng EXCEPT !.k = Hmac(rng.k, rng.v \o data)])

RngInitialize(key) ==
    LET start == [v |-> Repeated(1, DigestSize), k |-> Repeated(0, DigestSize), retry |-> FALSE, out |-> << >>]
    IN  Rekey(Rekey(start, << 0 >> \o key), << 1 >> \o key)

(* The generator with the outlen bytes that it gave last.                  *)
Output(rng) == [rng EXCEPT !.out = @ \o rng.v]
Generated(rng, rounds) ==
    LET after[i \in 0 .. rounds] == IF i = 0 THEN [rng EXCEPT !.out = << >>] ELSE Output(Revalued(after[i - 1]))
    IN  after[rounds]
RngGenerate(rng, outlen) ==
    [Generated(IF rng.retry THEN Rekey(rng, << 0 >>) ELSE rng, (outlen + DigestSize - 1) \div DigestSize)
        EXCEPT !.retry = TRUE, !.out = SubSeq(@, 1, outlen)]

----------------------------------------------------------------------------
(* The hash of a whole text: a one bit, zeros and the length, in blocks.   *)
Weight(j) == LET weight[i \in 0 .. j] == IF i = 0 THEN 1 ELSE 256 * weight[i - 1] IN weight[j]
BigEndian(n) == [i \in 1 .. SizeBytes |-> (n \div Weight(SizeBytes - i)) % 256]
PaddedText(text) ==
    LET zeros == CHOOSE k \in 0 .. BlockSize - 1 : (Len(text) + 1 + k + SizeBytes) % BlockSize = 0
    IN  ((text \o << 128 >>) \o Repeated(0, zeros)) \o BigEndian(8 * Len(text))
BlocksHash(text) == Digest(After(StartState, text, Len(text) \div BlockSize))
WholeHash(text) == BlocksHash(PaddedText(text))

(* HMAC and the outputs of a generator, from the standards.                *)
KeyWith(k, byte) == [i \in 1 .. BlockSize |-> XorByte(IF i <= Len(k) THEN k[i] ELSE 0, byte)]
HmacOf(k, text) == WholeHash(KeyWith(k, 92) \o WholeHash(KeyWith(k, 54) \o text))
ShortKey(key) == IF Len(key) > BlockSize THEN WholeHash(key) ELSE key
WholeHmac(key, text) == HmacOf(ShortKey(key), text)

(* K and V after an update, and after a call that gives n bytes, and these *)
(* bytes.                                                                  *)
WithValue(kv) == << kv[1], WholeHmac(kv[1], kv[2]) >>
Updated(kv, data) == WithValue(<< WholeHmac(kv[1], kv[2] \o data), kv[2] >>)
Value(kv, j) == LET value[i \in 0 .. j] == IF i = 0 THEN kv[2] ELSE WholeHmac(kv[1], value[i - 1])
                IN  value[j]
Rounds(n) == (n + DigestSize - 1) \div DigestSize
Called(kv, n) ==
    << << kv[1], Value(kv, Rounds(n)) >>,
       [i \in 1 .. n |-> Value(kv, ((i - 1) \div DigestSize) + 1)[((i - 1) % DigestSize) + 1]] >>
FirstKv(seed) == Updated(Updated(<< Repeated(0, DigestSize), Repeated(1, DigestSize) >>,
                                << 0 >> \o seed), << 1 >> \o seed)
NextCalled(i, kv, n) == Called(IF i = 1 THEN kv ELSE Updated(kv, << 0 >>), n)
AfterCalls(seed, calls) ==
    LET after[i \in 0 .. Len(calls)] ==
            IF i = 0 THEN << FirstKv(seed), << >> >>
            ELSE NextCalled(i, after[i - 1][1], calls[i])
    IN  after[Len(calls)]

----------------------------------------------------------------------------
NoHash == hashing = [none |-> TRUE] /\ hashSteps = MaxHashSteps
HashInit ==
    /\ hashSteps = 0
    /\ \/ hashing = [sha |-> Initialize, prefix |-> << >>, written |-> << >>]
       \/ \E tag \in HashKeys :
             hashing = [sha |-> InitializeTagged(tag), prefix |-> WholeHash(tag) \o WholeHash(tag), written |-> << >>]
       \/ \E key \in HashKeys : hashing = [hmac |-> HmacInitialize(key), key |-> key, written |-> << >>]
       \/ \E seed \in HashKeys : hashing = [rng |-> RngInitialize(seed), seed |-> seed, calls |-> << >>]

Hashes(kind) == kind \in DOMAIN hashing
HashStep == hashSteps < MaxHashSteps /\ hashSteps' = hashSteps + 1
Comes(data) == HashStep /\ Len(hashing.written) + Len(data) <= MaxText
WriteSha == /\ Hashes("sha")
            /\ \E data \in Chunks :
                  Comes(data) /\ hashing' = [hashing EXCEPT !.sha = Write(@, data), !.written = @ \o data]
WriteHmac == /\ Hashes("hmac")
             /\ \E data \in Chunks :
                   Comes(data) /\ hashing' = [hashing EXCEPT !.hmac = HmacWrite(@, data), !.written = @ \o data]
HashGenerate == /\ Hashes("rng") /\ HashStep
                /\ \E n \in OutLengths :
                      hashing' = [hashing EXCEPT !.rng = RngGenerate(@, n), !.calls = Append(@, n)]
HashNext == WriteSha \/ WriteHmac \/ HashGenerate
HashSpec == HashInit /\ [][HashNext]_hashVars

(* In whatever chunks it comes, a text has the hash and the MAC of the     *)
(* whole, after the two hashes of a tag if it has one; and a generator     *)
(* gives the numbers of RFC 6979 call after call (hash_impl.h).            *)
HashesAgree ==
    /\ Hashes("sha") => Finalize(hashing.sha) = WholeHash(hashing.prefix \o hashing.written)
    /\ Hashes("hmac") => HmacFinalize(hashing.hmac) = WholeHmac(hashing.key, hashing.written)
    /\ Hashes("rng") => hashing.rng.out = AfterCalls(hashing.seed, hashing.calls)[2]
=============================================================================
