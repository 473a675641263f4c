----------------------------- MODULE Encodings ------------------------------
(***************************************************************************)
(* Signatures in DER, read strictly (ecdsa_impl.h) and laxly               *)
(* (lax_der_parsing.c), and compact ones; hexadecimal strings (lib.rs);    *)
(* the iterator over a serialized signature (serialized_signature.rs); and *)
(* the heap sort of public keys (hsort_impl.h).  Bytes are below Base, the *)
(* bytes of a scalar are Width, and every input starts as an encoding and  *)
(* is edited.                                                              *)
(***************************************************************************)
EXTENDS Integers, Sequences, FiniteSets

CONSTANTS Base, Order, Width, SeqTag, IntTag,
          SizeOfSize,              \* sizeof(size_t)
          MaxLen,                  \* of a serialized signature
          EditBytes, DerSeeds, MaxEdits, HexChars, MaxHex,
          MaxIter, MaxSkip,        \* of a serialized signature that is iterated, and of a step
          MaxSorted, MaxKey

VARIABLES coding, codingSteps
codingVars == <<coding, codingSteps>>

Bytes == 0 .. Base - 1
Top == Base \div 2
Beyond(k) == LET beyond[i \in 0 .. k] == IF i = 0 THEN 1 ELSE beyond[i - 1] * Base IN beyond[k]

(* A scalar fits its bytes; the length of a signature whose numbers are    *)
(* scalars fits a byte and the buffer; and that of an input, whatever the  *)
(* edits, fits a byte too.                                                 *)
ASSUME SizesAssumption ==
    /\ Base \in 5 .. 256 /\ Base % 2 = 0 /\ {SeqTag, IntTag} \cup EditBytes \subseteq Bytes
    /\ Width \in Nat \ {0} /\ 2 * Width + 6 < Top /\ Order \in 1 .. Beyond(Width)
    /\ MaxLen \in Nat /\ 2 * Width + 8 <= MaxLen /\ SizeOfSize \in Nat /\ SizeOfSize > 1
ASSUME SeedsAssumption ==
    /\ MaxEdits \in Nat /\ \A seed \in DerSeeds : seed \in Seq(Bytes) /\ Len(seed) + MaxEdits + 1 < Base
    /\ HexChars \subseteq Nat

(* The high byte first.                                                    *)
ValueOf(bytes) == LET value[k \in 0 .. Len(bytes)] == IF k = 0 THEN 0 ELSE value[k - 1] * Base + bytes[k]
                  IN  value[Len(bytes)]
ScalarBytes(v) == LET rest[i \in 0 .. Width] == IF i = 0 THEN v ELSE rest[i - 1] \div Base
                  IN  [i \in 1 .. Width |-> rest[Width - i] % Base]

----------------------------------------------------------------------------
(* A parser gives the next position and a value, or fails.                 *)
Fail == [ok |-> FALSE, pos |-> 0, value |-> 0]
Done(pos, value) == [ok |-> TRUE, pos |-> pos, value |-> value]
Then(parsed, next(_)) == IF parsed.ok THEN next(parsed) ELSE Fail
Tag(in, p, tag) == IF p <= Len(in) /\ in[p] = tag THEN Done(p + 1, tag) ELSE Fail

(* Mutant: a long form also for a length that has a short one.             *)
ReadLenAnyForm(in, p) ==
    IF p > Len(in) \/ in[p] = Base - 1 \/ in[p] = Top THEN Fail
    ELSE IF in[p] < Top THEN Done(p + 1, in[p])
    ELSE LET left == in[p] - Top
             value == ValueOf(SubSeq(in, p + 1, p + left))
         IN  IF left > Len(in) - p \/ in[p + 1] = 0 \/ left > SizeOfSize \/ value > Len(in) - p - left
             THEN Fail ELSE Done(p + 1 + left, value)

ReadLen(in, p) ==
    IF p > Len(in) \/ in[p] = Base - 1 \/ in[p] = Top THEN Fail
    ELSE IF in[p] < Top THEN Done(p + 1, in[p])
    ELSE LET left == in[p] - Top
             value == ValueOf(SubSeq(in, p + 1, p + left))
         IN  IF \/ left > Len(in) - p \/ in[p + 1] = 0 \/ left > SizeOfSize
                \/ value > Len(in) - p - left \/ value < Top
             THEN Fail ELSE Done(p + 1 + left, value)

(* An integer that is negative or too large counts as zero.                *)
IntegerOf(content) ==
    LET digits == IF content[1] = 0 THEN Tail(content) ELSE content
        overflow == content[1] >= Top \/ Len(digits) > Width \/ ValueOf(digits) >= Order
    IN  IF overflow THEN 0 ELSE ValueOf(digits)
Padded(content) == /\ Len(content) > 1
                   /\ \/ content[1] = 0 /\ content[2] < Top
                      \/ content[1] = Base - 1 /\ content[2] >= Top
ParseContent(in, p, len) ==
    IF len = 0 \/ len > Len(in) - p + 1 \/ Padded(SubSeq(in, p, p + len - 1)) THEN Fail
    ELSE Done(p + len, IntegerOf(SubSeq(in, p, p + len - 1)))
ParseInteger(in, p) ==
    Then(Tag(in, p, IntTag), LAMBDA t :
    Then(ReadLen(in, t.pos), LAMBDA l : ParseContent(in, l.pos, l.value)))

ParsePair(in, p, integer(_, _)) ==
    Then(integer(in, p), LAMBDA r :
    Then(integer(in, r.pos), LAMBDA s : Done(s.pos, << r.value, s.value >>)))

ParseDer(in) ==
    Then(Tag(in, 1, SeqTag), LAMBDA t :
    Then(ReadLen(in, t.pos), LAMBDA l :
    IF l.value # Len(in) - l.pos + 1 THEN Fail
    ELSE Then(ParsePair(in, l.pos, ParseInteger), LAMBDA sig :
         IF sig.pos = Len(in) + 1 THEN sig ELSE Fail)))

Digits(v) ==
    LET full == << 0 >> \o ScalarBytes(v)
        excess(j) == j < Len(full) /\ full[j] = 0 /\ full[j + 1] < Top
        first == CHOOSE i \in 1 .. Len(full) : ~ excess(i) /\ \A j \in 1 .. i - 1 : excess(j)
    IN  SubSeq(full, first, Len(full))
SerializeDer(sig) ==
    LET integer(v) == << IntTag, Len(Digits(v)) >> \o Digits(v)
        body == integer(sig[1]) \o integer(sig[2])
    IN  << SeqTag, Len(body) >> \o body

ParseCompact(in) == LET v(i) == ValueOf(SubSeq(in, i, i + Width - 1))
                    IN  IF Len(in) = 2 * Width /\ v(1) < Order /\ v(1 + Width) < Order
                        THEN Done(1 + 2 * Width, << v(1), v(1 + Width) >>) ELSE Fail
SerializeCompact(sig) == ScalarBytes(sig[1]) \o ScalarBytes(sig[2])

(* Without leading zeros.                                                  *)
Trimmed(bytes) ==
    LET zero(j) == j <= Len(bytes) /\ bytes[j] = 0
        first == CHOOSE i \in 1 .. Len(bytes) + 1 : ~ zero(i) /\ \A j \in 1 .. i - 1 : zero(j)
    IN  SubSeq(bytes, first, Len(bytes))

LaxLen(in, p) ==
    IF p > Len(in) THEN Fail
    ELSE IF in[p] < Top THEN Done(p + 1, in[p])
    ELSE LET left == in[p] - Top
             bytes == Trimmed(SubSeq(in, p + 1, p + left))
         IN  IF left > Len(in) - p \/ Len(bytes) >= SizeOfSize THEN Fail
             ELSE Done(p + 1 + left, ValueOf(bytes))

(* The bytes of an integer, as value.                                      *)
LaxInteger(in, p) ==
    Then(Tag(in, p, IntTag), LAMBDA t :
    Then(LaxLen(in, t.pos), LAMBDA l :
    IF l.value > Len(in) - l.pos + 1 THEN Fail
    ELSE Done(l.pos + l.value, Trimmed(SubSeq(in, l.pos, l.pos + l.value - 1)))))

(* Too long a number makes the signature zero.                             *)
LaxSig(r, s) ==
    LET filled(bytes) == [i \in 1 .. Width - Len(bytes) |-> 0] \o bytes
        compact == ParseCompact(filled(r) \o filled(s))
    IN  IF Len(r) <= Width /\ Len(s) <= Width /\ compact.ok THEN compact.value ELSE << 0, 0 >>
LaxStart(in, p) == IF p > Len(in) THEN Fail
                   ELSE IF in[p] < Top THEN Done(p + 1, 0)
                   ELSE IF in[p] - Top > Len(in) - p THEN Fail ELSE Done(p + 1 + in[p] - Top, 0)
ParseDerLax(in) ==
    Then(Tag(in, 1, SeqTag), LAMBDA t :
    Then(LaxStart(in, t.pos), LAMBDA start :
    Then(ParsePair(in, start.pos, LaxInteger), LAMBDA pair :
    Done(pair.pos, LaxSig(pair.value[1], pair.value[2])))))

----------------------------------------------------------------------------
(* Characters are their codes: 48 to 57, 65 to 70 and 97 to 102 are digits.*)
Nibble(c) == IF c \in 65 .. 70 THEN c - 55 ELSE IF c \in 97 .. 102 THEN c - 87 ELSE IF c \in 48 .. 57 THEN c - 48 ELSE -1

HexStart(target) == [ok |-> TRUE, b |-> 0, idx |-> 0, out |-> [i \in 1 .. target |-> 0]]
HexStep(st, c) ==
    LET b == (16 * st.b + Nibble(c)) % 256
    IN  IF ~ st.ok \/ Nibble(c) = -1 THEN [st EXCEPT !.ok = FALSE]
        ELSE IF st.idx % 2 = 1 THEN [st EXCEPT !.out[(st.idx \div 2) + 1] = b, !.b = 0, !.idx = @ + 1]
        ELSE [st EXCEPT !.b = b, !.idx = @ + 1]

(* The bytes, or -1.  A place outside the target would be an error of TLC. *)
FromHex(hex, target) ==
    LET after[k \in 0 .. Len(hex)] == IF k = 0 THEN HexStart(target) ELSE HexStep(after[k - 1], hex[k])
        last == after[Len(hex)]
    IN  IF Len(hex) % 2 = 1 \/ Len(hex) > 2 * target THEN << -1 >>
        ELSE IF last.ok THEN SubSeq(last.out, 1, last.idx \div 2) ELSE << -1 >>

HexDigit(n) == IF n < 10 THEN 48 + n ELSE 87 + n
ToHex(src) == [k \in 1 .. 2 * Len(src) |->
                  LET byte == src[(k + 1) \div 2] IN HexDigit(IF k % 2 = 1 THEN byte \div 16 ELSE byte % 16)]

(* Strings of keys, of one of the sizes.                                   *)
FromStr(hex, sizes, target) ==
    LET bytes == FromHex(hex, target) IN IF bytes # << -1 >> /\ Len(bytes) \in sizes THEN bytes ELSE << -1 >>
KeyFromStr(hex) == FromStr(hex, {1}, 1)
PublicKeyFromStr(hex) == FromStr(hex, {1, 2}, 2)
PublicNonceFromStr(hex) == FromStr(hex, {2}, 2)

----------------------------------------------------------------------------
(* A signature is the pair of its numbers.  In C one that is refused is    *)
(* zero, besides the result of the function; in Rust it is an error.       *)
NoSignature == << >>
SignatureParseDer(data) == IF ParseDer(data).ok THEN ParseDer(data) ELSE [Fail EXCEPT !.value = << 0, 0 >>]
Signature(data, parsed) == IF data = << >> \/ ~ parsed.ok THEN NoSignature ELSE parsed.value
FromDer(data) == Signature(data, SignatureParseDer(data))
FromDerLax(data) == Signature(data, ParseDerLax(data))
FromCompact(data) == Signature(data, ParseCompact(data))

(* In a buffer that is longer than some; a longer one would be a panic.    *)
FromRawParts(data, len) == [data |-> data, len |-> len, panicked |-> len > MaxLen]
Deref(ser) == SubSeq(ser.data, 1, ser.len)
SerializedOf(sig) == LET der == SerializeDer(sig)
                     IN  FromRawParts(der \o [i \in 1 .. MaxLen - Len(der) |-> 0], Len(der))
ToSignature(ser) == FromDer(Deref(ser))

Display(sig) == ToHex(Deref(SerializedOf(sig)))
SignatureFromStr(hex) == LET res == FromHex(hex, MaxLen) IN IF res = << -1 >> THEN NoSignature ELSE FromDer(res)

IsHigh(v) == v > Order \div 2
Normalize(sig) == << sig[1], IF IsHigh(sig[2]) THEN Order - sig[2] ELSE sig[2] >>

----------------------------------------------------------------------------
(* The iterator: a position in a signature that may lose its last byte.    *)
IterNew(data) == [data |-> data, len |-> Len(data), pos |-> 0]
IterNext(it) == IF it.pos >= it.len THEN [it |-> it, item |-> << >>]
                ELSE [it |-> [it EXCEPT !.pos = @ + 1], item |-> << it.data[it.pos + 1] >>]
IterNth(it, n) == IF n >= it.len - it.pos THEN [it |-> [it EXCEPT !.pos = it.len], item |-> << >>]
                  ELSE IterNext([it EXCEPT !.pos = @ + n])
IterNextBack(it) == IF it.pos = it.len THEN [it |-> it, item |-> << >>]
                    ELSE [it |-> [it EXCEPT !.len = @ - 1], item |-> << it.data[it.len] >>]
AsSlice(it) == SubSeq(it.data, it.pos + 1, it.len)

----------------------------------------------------------------------------
(* Heap sort, one comparison of a parent with its children at a step: from *)
(* at, the element goes down in a heap of size elements; next is the i of  *)
(* the loop that comes after it.  The array is counted from zero.          *)
Child1(i) == 2 * i + 1
Child2(i) == Child1(i) + 1
Swap(arr, i, j) == [arr EXCEPT ![i] = arr[j], ![j] = arr[i]]

HsortStart(arr, count) == [arr |-> arr, was |-> arr, count |-> count, building |-> TRUE,
                           i |-> count \div 2, at |-> count, size |-> count]
HsortDown(h) ==
    LET c1 == Child1(h.at)
        c2 == Child2(h.at)
        second == c2 < h.size /\ h.arr[c2] >= h.arr[c1]
        c == IF second THEN c2 ELSE c1
    IN  IF h.arr[c] > h.arr[h.at] THEN [h EXCEPT !.arr = Swap(h.arr, h.at, c), !.at = c]
        ELSE [h EXCEPT !.at = h.count]
HsortNext(h) ==
    IF h.building
    THEN IF h.i > 0 THEN [h EXCEPT !.i = @ - 1, !.at = h.i - 1]
         ELSE [h EXCEPT !.building = FALSE, !.i = h.count]
    ELSE [h EXCEPT !.arr = Swap(h.arr, 0, h.i - 1), !.i = @ - 1, !.at = 0, !.size = h.i - 1]

----------------------------------------------------------------------------
NoCoding == coding = [none |-> TRUE] /\ codingSteps = MaxEdits
CodingInit ==
    /\ codingSteps = 0
    /\ \/ \E seed \in DerSeeds : coding = [der |-> seed]
       \/ \E n \in 0 .. 2 : coding = [hex |-> << >>, target |-> n]
       \/ \E n \in 0 .. MaxIter : LET data == [i \in 1 .. n |-> 10 * i] IN coding = [iter |-> IterNew(data), rest |-> data]
       \/ \E n \in 0 .. MaxSorted : \E arr \in [0 .. n - 1 -> 1 .. MaxKey] : coding = [sort |-> HsortStart(arr, n)]

Kind(k) == k \in DOMAIN coding

(* An edit puts a byte for another, in between, or takes one out.          *)
Edit == /\ Kind("der") /\ codingSteps' = codingSteps + 1
        /\ codingSteps < IF Len(coding.der) <= MaxLen + 1 THEN MaxEdits ELSE 1
        /\ \E i \in 1 .. Len(coding.der) + 1 : \E b \in EditBytes, take \in {0, 1}, put \in {0, 1} :
              /\ i + take <= Len(coding.der) + 1
              /\ coding' = [der |-> SubSeq(coding.der, 1, i - 1) \o [j \in 1 .. put |-> b]
                                    \o SubSeq(coding.der, i + take, Len(coding.der))]
TypeHex == /\ Kind("hex") /\ Len(coding.hex) < MaxHex
           /\ \E c \in HexChars : coding' = [coding EXCEPT !.hex = Append(@, c)]
           /\ UNCHANGED codingSteps

(* What a step of the iterator takes from the rest.                        *)
Took(step, rest) == coding' = [iter |-> step.it, rest |-> rest]
Iterate == /\ Kind("iter") /\ UNCHANGED codingSteps
           /\ \/ Took(IterNext(coding.iter), SubSeq(coding.rest, 2, Len(coding.rest)))
              \/ \E n \in 0 .. MaxSkip : Took(IterNth(coding.iter, n), SubSeq(coding.rest, n + 2, Len(coding.rest)))
              \/ Took(IterNextBack(coding.iter), SubSeq(coding.rest, 1, Len(coding.rest) - 1))
SortStep == /\ Kind("sort") /\ UNCHANGED codingSteps
            /\ LET h == coding.sort IN
                  \/ h.at < h.size \div 2 /\ coding' = [sort |-> HsortDown(h)]
                  \/ /\ h.at >= h.size \div 2 /\ (h.building \/ h.i > 1)
                     /\ coding' = [sort |-> HsortNext(h)]
CodingNext == Edit \/ TypeHex \/ Iterate \/ SortStep
CodingSpec == CodingInit /\ [][CodingNext]_codingVars

----------------------------------------------------------------------------
(* X.690: the one encoding of a pair of integers.                          *)
LenOf(n) == IF n < Top THEN << n >> ELSE << Top + 1, n >>
Minimal(c) == Len(c) > 0 /\ (Len(c) > 1 => ~ (c[1] = 0 /\ c[2] < Top) /\ ~ (c[1] = Base - 1 /\ c[2] >= Top))
Der(c) == << IntTag >> \o (LenOf(Len(c)) \o c)
DerOfPair(cs) == LET body == Der(cs[1]) \o Der(cs[2]) IN << SeqTag >> \o (LenOf(Len(body)) \o body)
Parts(in) == { << SubSeq(in, i, j), SubSeq(in, j + gap, Len(in)) >> : i \in 5 .. 7, j \in 1 .. Len(in), gap \in {3, 4} }
DerPairs(in) == { cs \in Parts(in) : Minimal(cs[1]) /\ Minimal(cs[2]) /\ in = DerOfPair(cs) }
InRange(c) == c[1] < Top /\ Len(Trimmed(c)) <= Width /\ ValueOf(Trimmed(c)) < Order
Number(c) == IF InRange(c) THEN ValueOf(Trimmed(c)) ELSE 0

(* The strict parser accepts exactly the encodings of pairs of integers,   *)
(* and reads their values, or zero for one out of range; the signatures in *)
(* range it gives back byte by byte; the lax parser reads at least these,  *)
(* and no signature is longer than its buffer (ecdsa_impl.h:90,            *)
(* lax_der_parsing.c:13, serialized_signature.rs:19).  Whatever the source *)
(* of a signature, its serializations are read to the same one, also as    *)
(* text, and normalized it has the same r and the s that is low, whichever *)
(* of the two it had (ecdsa/mod.rs:36, secp256k1.c:386).                   *)
SignatureHolds(sig) ==
    /\ ~ SerializedOf(sig).panicked
    /\ ToSignature(SerializedOf(sig)) = sig
    /\ FromCompact(SerializeCompact(sig)) = sig
    /\ SignatureFromStr(Display(sig)) = sig
    /\ ~ IsHigh(Normalize(sig)[2])
    /\ sig[2] > 0 => Normalize(<< sig[1], Order - sig[2] >>) = Normalize(sig)
DerHolds(in, pairs, strict, lax) ==
    /\ strict.ok = (pairs # {})
    /\ \A cs \in pairs :
          /\ strict.value = << Number(cs[1]), Number(cs[2]) >>
          /\ lax.ok
          /\ InRange(cs[1]) /\ InRange(cs[2]) => /\ lax = strict
                                                 /\ SerializeDer(strict.value) = in
                                                 /\ Len(in) <= MaxLen
    /\ lax.ok => (\A i \in 1 .. 2 : lax.value[i] < Order) /\ SignatureHolds(lax.value)

(* A string that is too long for the buffer is no signature as text, even  *)
(* if its bytes are one: a number that counts as zero may be of any length.*)
TextHolds(in) == SignatureFromStr(ToHex(in)) = IF Len(in) <= MaxLen THEN FromDer(in) ELSE NoSignature
DerAgrees == Kind("der") => /\ DerHolds(coding.der, DerPairs(coding.der), ParseDer(coding.der), ParseDerLax(coding.der))
                            /\ FromDerLax(coding.der) # NoSignature => TextHolds(coding.der)

(* A string is read exactly if it is of pairs of digits that fit, and      *)
(* written again it is the same in lower case (lib.rs:454, 482); keys are  *)
(* also of an exact size.                                                  *)
HexAgrees == Kind("hex") =>
    LET bytes == FromHex(coding.hex, coding.target)
        lower == << >> \o [i \in DOMAIN coding.hex |-> IF coding.hex[i] \in 65 .. 70 THEN coding.hex[i] + 32 ELSE coding.hex[i]]
    IN  IF /\ Len(coding.hex) % 2 = 0 /\ Len(coding.hex) <= 2 * coding.target
           /\ \A i \in DOMAIN coding.hex : Nibble(coding.hex[i]) >= 0
        THEN /\ ToHex(bytes) = lower
             /\ KeyFromStr(coding.hex) = IF Len(coding.hex) = 2 THEN bytes ELSE << -1 >>
             /\ PublicNonceFromStr(coding.hex) = IF Len(coding.hex) = 4 THEN bytes ELSE << -1 >>
             /\ PublicKeyFromStr(coding.hex) = IF Len(coding.hex) \in {2, 4} THEN bytes ELSE << -1 >>
        ELSE bytes = << -1 >>

(* From both ends, the iterator has what a slice would have left.          *)
IteratorAgrees == Kind("iter") => AsSlice(coding.iter) = coding.rest /\ coding.iter.pos <= coding.iter.len

(* Above the place that the sort repairs the array is a heap, behind the   *)
(* heap it is sorted, and at the end it is the array that was, sorted.     *)
SortAgrees == Kind("sort") =>
    LET h == coding.sort
        n == h.count
        under(j, k) == k \in {Child1(j), Child2(j)}
    IN  /\ \A v \in 1 .. MaxKey : Cardinality({j \in 0 .. n - 1 : h.arr[j] = v}) = Cardinality({j \in 0 .. n - 1 : h.was[j] = v})
        /\ \A j, k \in 0 .. h.size - 1 :
              under(j, k) /\ j # h.at /\ (h.building => j >= h.i) => h.arr[j] >= h.arr[k]
        /\ \A j \in h.size .. n - 1, k \in 0 .. n - 1 : k <= j => h.arr[k] <= h.arr[j]
        /\ ~ h.building /\ h.i <= 1 /\ h.at >= h.size \div 2 => \A j, k \in 0 .. n - 1 : j <= k => h.arr[j] <= h.arr[k]

CodingsAgree == DerAgrees /\ HexAgrees /\ IteratorAgrees /\ SortAgrees
=============================================================================
