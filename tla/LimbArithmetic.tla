--------------------------- MODULE LimbArithmetic ---------------------------
(***************************************************************************)
(* A field element and a scalar in limbs, that are put through the         *)
(* operations of the C library, one after another, and what they stand     *)
(* for.                                                                    *)
(*                                                                         *)
(* fe are the limbs of the element.  means is what it should be, as Field  *)
(* has it: a value, a magnitude, and whether it is normalized.  The value  *)
(* is given by its residues modulo the Factors of the modulus: here this   *)
(* is a product of small primes, and none of the operations depends on     *)
(* its being prime.  sc are the limbs of the scalar, num is the number.    *)
(***************************************************************************)
EXTENDS Integers, Sequences, FiniteSets, FiniteSetsExt

CONSTANTS Wide,          \* five limbs and four words, or ten and eight
          Strings,       \* bytes that an element is read from, the lowest first
          Ints,
          Numbers,       \* scalars, and what they are read from
          MaxLimbSteps

VARIABLES fe, means, sc, num, limbSteps
limbVars == <<fe, means, sc, num, limbSteps>>

(* The modulus is 2^48 - 5, or 2^67 - 277.                                 *)
Factors == IF Wide THEN <<199, 401, 449, 461, 17041>> ELSE <<13331, 42331, 75787, 3450593>>
LimbBits == IF Wide THEN 10 ELSE 7
FL == INSTANCE FieldLimbs WITH
        NumLimbs <- IF Wide THEN 5 ELSE 10, TopBits <- IF Wide THEN 8 ELSE 4,
        WordBits <- IF Wide THEN 15 ELSE 11, Short <- IF Wide THEN <<5, 0>> ELSE <<21, 2>>,
        StorageWords <- IF Wide THEN 4 ELSE 8,
        S <- 11, Limbs <- IF Wide THEN 5 ELSE 7, Spare <- IF Wide THEN 3 ELSE 0,
        Rounds <- IF Wide THEN 14 ELSE 15, VarRounds <- IF Wide THEN 13 ELSE 18,
        JacobiRounds <- IF Wide THEN 8 ELSE 12, TableBits <- IF Wide THEN 0 ELSE 3
WordMagnitude == IF Wide THEN 8 ELSE 6    \* what a word holds; 32 in the code
MulMagnitude == 2                         \* of factors; 8 in the code

(* The order, of three bits a word: 2^12 - 93, or 2^24 - 6573.             *)
Words == IF Wide THEN 4 ELSE 8
GroupOrder == IF Wide THEN 4003 ELSE 16770643
SL == INSTANCE ScalarLimbs WITH
        Bits <- 3,
        Order <- IF Wide THEN <<3, 4, 6, 7>> ELSE <<3, 2, 1, 3, 6, 7, 7, 7>>,
        Half <- IF Wide THEN <<1, 2, 7, 3>> ELSE <<1, 5, 4, 1, 7, 7, 7, 3>>,
        Complement <- IF Wide THEN <<5, 3, 1>> ELSE <<5, 5, 6, 4, 1>>,
        S <- 6, Limbs <- IF Wide THEN 3 ELSE 5, Spare <- IF Wide THEN 3 ELSE 0,
        Rounds <- IF Wide THEN 12 ELSE 10, VarRounds <- IF Wide THEN 9 ELSE 13,
        JacobiRounds <- 0, TableBits <- IF Wide THEN 0 ELSE 3

----------------------------------------------------------------------------
(* Values.                                                                 *)
Residue(t, bits, p) ==
    LET from[i \in 1 .. Len(t) + 1] ==
            IF i > Len(t) THEN 0 ELSE (((from[i + 1] * 2 ^ bits) % p) + t[i]) % p
    IN  from[1]
ValueOf(t) == << >> \o [i \in 1 .. Len(Factors) |-> Residue(t, LimbBits, Factors[i])]

(* A product that may be too long for an integer is formed in pieces.      *)
TimesMod(x, y, p) ==
    LET next(r, i) == ((r * 64) + (x * ((y \div 64 ^ i) % 64))) % p
    IN  IF p < 46341 THEN (x * y) % p ELSE next(next(next(next(0, 3), 2), 1), 0)
ModPower(v, e, p) ==
    LET pow[i \in 0 .. e] ==
            LET half == pow[i \div 2]
                square == TimesMod(half, half, p)
            IN  IF i = 0 THEN 1 ELSE IF half = 0 THEN 0
                ELSE IF i % 2 = 1 THEN TimesMod(square, v, p) ELSE square
    IN  pow[e]
Each(op(_, _, _), v, w) == << >> \o [i \in 1 .. Len(v) |-> op(v[i], w[i], Factors[i]) % Factors[i]]

Nought(v) == \A i \in 1 .. Len(v) : v[i] = 0
Unit(v) == \A i \in 1 .. Len(v) : v[i] # 0
Symbol(v) == LET nonresidues == {i \in 1 .. Len(v) : ModPower(v[i], (Factors[i] - 1) \div 2, Factors[i]) # 1}
             IN  IF Cardinality(nonresidues) % 2 = 0 THEN 1 ELSE -1

(* The operands: elements as they are read, and the largest of a magnitude. *)
Element(t, m, n) == [limbs |-> t, v |-> ValueOf(t), m |-> m, n |-> n]
Read(bytes) == Element(FL!FeImplSetB32Mod(bytes), 1, FL!FeImplSetB32Limit(bytes))
Largest(m) == Element(FL!FeImplGetBounds(m), m, FALSE)
Operands == {Read(b) : b \in Strings} \cup {Largest(m) : m \in (1 .. MulMagnitude) \cup {WordMagnitude}}

(* A scalar's number in limbs, and back.                                   *)
Digits(k) == << >> \o [i \in 1 .. Words |-> (k \div 8 ^ (i - 1)) % 8]
Number(a) == MapThenSumSet(LAMBDA i : a[i] * 8 ^ (i - 1), 1 .. Words)
Bits == 3 * Words

(* x y / 2^shift, rounded: the lower half of the bits cannot matter.       *)
Part == 2 ^ (Bits \div 2)
Shifted(x, y, shift) ==
    LET cross == (x \div Part) * (y % Part) + (x % Part) * (y \div Part) + (((x % Part) * (y % Part)) \div Part)
        high == (x \div Part) * (y \div Part) + (cross \div Part)
    IN  (high + 2 ^ (shift - 1 - Bits)) \div 2 ^ (shift - Bits)

----------------------------------------------------------------------------
Nothing == << >>
NoLimbs == /\ fe = Nothing /\ means = Nothing /\ sc = Nothing /\ num = 0
           /\ limbSteps = 0
LimbInit == \/ /\ \E o \in Operands : fe = o.limbs /\ means = [v |-> o.v, m |-> o.m, n |-> o.n]
               /\ sc = Nothing /\ num = 0
               /\ limbSteps = 0
            \/ /\ fe = Nothing /\ means = Nothing
               /\ sc = Digits(0) /\ num = 0
               /\ limbSteps = 0

BecomesFe(t, v, m, n) == /\ fe' = t
                         /\ means' = [v |-> v, m |-> m, n |-> n]
                         /\ limbSteps' = limbSteps + 1
                         /\ UNCHANGED <<sc, num>>

NormalizeFe == \/ BecomesFe(FL!FeImplNormalizeWeak(fe), means.v, 1, means.n)
               \/ BecomesFe(FL!FeImplNormalize(fe), means.v, 1, TRUE)
               \/ BecomesFe(FL!FeImplNormalizeVar(fe), means.v, 1, TRUE)
NegateFe == \E m \in means.m .. WordMagnitude - 1 :
    BecomesFe(FL!FeImplNegateUnchecked(fe, m), Each(LAMBDA x, y, p : p - x, means.v, means.v), m + 1, FALSE)
MulIntFe == \E k \in Ints :
    /\ k * means.m <= WordMagnitude
    /\ BecomesFe(FL!FeImplMulIntUnchecked(fe, k), Each(LAMBDA x, y, p : k * x, means.v, means.v),
                 k * means.m, FALSE)
AddIntFe == \E k \in Ints :
    /\ means.m < WordMagnitude
    /\ BecomesFe(FL!FeImplAddInt(fe, k), Each(LAMBDA x, y, p : x + k, means.v, means.v),
                 means.m + 1, FALSE)
AddFe == \E o \in Operands :
    /\ means.m + o.m <= WordMagnitude
    /\ BecomesFe(FL!FeImplAdd(fe, o.limbs), Each(LAMBDA x, y, p : x + y, means.v, o.v),
                 means.m + o.m, FALSE)
MulFe == \E o \in Operands :
    /\ means.m <= MulMagnitude /\ o.m <= MulMagnitude
    /\ BecomesFe(FL!FeMulInner(fe, o.limbs), Each(TimesMod, means.v, o.v), 1, FALSE)
SqrFe == /\ means.m <= MulMagnitude
         /\ BecomesFe(FL!FeSqrInner(fe), Each(TimesMod, means.v, means.v), 1, FALSE)
HalfFe == /\ means.m < WordMagnitude
          /\ BecomesFe(FL!FeImplHalf(fe), Each(LAMBDA x, y, p : TimesMod(x, (p + 1) \div 2, p), means.v, means.v),
                       (means.m \div 2) + 1, FALSE)
CmovFe == \E o \in Operands, flag \in BOOLEAN :
    BecomesFe(FL!FeImplCmov(fe, o.limbs, flag), IF flag THEN o.v ELSE means.v,
              IF o.m > means.m THEN o.m ELSE means.m, means.n /\ o.n)
SetIntFe == \E k \in Ints :
    BecomesFe(FL!FeImplSetInt(k), ValueOf(<<k>>), IF k = 0 THEN 0 ELSE 1, TRUE)
StoreFe == /\ means.n
           /\ \/ BecomesFe(FL!FeImplSetB32Mod(FL!FeImplGetB32(fe)), means.v, 1, TRUE)
              \/ BecomesFe(FL!FeImplFromStorage(FL!FeImplToStorage(fe)), means.v, 1, TRUE)
InvFe == /\ Nought(means.v) \/ Unit(means.v)
         /\ \E t \in {FL!FeImplInv(fe), FL!FeImplInvVar(fe)} :
               BecomesFe(t, Each(LAMBDA x, y, p : ModPower(x, p - 2, p), means.v, means.v),
                         IF means.m > 0 THEN 1 ELSE 0, TRUE)

----------------------------------------------------------------------------
BecomesSc(a, k) == /\ sc' = a
                   /\ num' = k % GroupOrder
                   /\ limbSteps' = limbSteps + 1
                   /\ UNCHANGED <<fe, means>>

SetB32Sc == \E k \in Numbers : BecomesSc(SL!ScalarSetB32(Digits(k)).r, k)
AddSc == \E k \in Numbers : k < GroupOrder /\ BecomesSc(SL!ScalarAdd(sc, Digits(k)).r, num + k)
CaddBitSc == \E bit \in {0, 2, 5, Bits - 1}, flag \in BOOLEAN :
    LET k == num + (IF flag THEN 2 ^ bit ELSE 0)
    IN  k < GroupOrder /\ BecomesSc(SL!ScalarCaddBit(sc, bit, flag), k)
NegateSc == \/ BecomesSc(SL!ScalarNegate(sc), GroupOrder - num)
            \/ \E flag \in BOOLEAN :
                  BecomesSc(SL!ScalarCondNegate(sc, flag), IF flag THEN GroupOrder - num ELSE num)
HalfSc == BecomesSc(SL!ScalarHalf(sc), TimesMod(num, (GroupOrder + 1) \div 2, GroupOrder))
MulSc == \E k \in Numbers :
    /\ k < GroupOrder
    /\ \/ BecomesSc(SL!ScalarMul(sc, Digits(k)), TimesMod(num, k, GroupOrder))
       \/ Wide /\ BecomesSc(SL!ScalarMulAsm(sc, Digits(k)), TimesMod(num, k, GroupOrder))
MulShiftSc == \E k \in Numbers, shift \in {Bits + 1, Bits + 6, 2 * Bits} :
    k < GroupOrder /\ BecomesSc(SL!ScalarMulShiftVar(sc, Digits(k), shift), Shifted(num, k, shift))
SplitSc == \E i \in {1, 2} :
    BecomesSc(SL!ScalarSplit128(sc)[i], IF i = 1 THEN num % Part ELSE num \div Part)
CmovSc == \E k \in Numbers, flag \in BOOLEAN :
    k < GroupOrder /\ BecomesSc(SL!ScalarCmov(sc, Digits(k), flag), IF flag THEN k ELSE num)
InverseSc == \E a \in {SL!ScalarInverse(sc), SL!ScalarInverseVar(sc)} :
    BecomesSc(a, ModPower(num, GroupOrder - 2, GroupOrder))

FieldNext == NormalizeFe \/ NegateFe \/ MulIntFe \/ AddIntFe \/ AddFe \/ MulFe \/ SqrFe
             \/ HalfFe \/ CmovFe \/ SetIntFe \/ StoreFe \/ InvFe
ScalarNext == SetB32Sc \/ AddSc \/ CaddBitSc \/ NegateSc \/ HalfSc \/ MulSc \/ MulShiftSc
              \/ SplitSc \/ CmovSc \/ InverseSc
LimbNext == /\ limbSteps < MaxLimbSteps
            /\ \/ fe # Nothing /\ FieldNext
               \/ sc # Nothing /\ ScalarNext

----------------------------------------------------------------------------
(* Properties.                                                             *)

(* With whatever carries the limbs hold after a chain of operations, they  *)
(* have the value that Field says, and stay within the bounds of the       *)
(* magnitude, for which the words and accumulators suffice; normalized     *)
(* limbs are the canonical ones; and the questions that are answered from  *)
(* limbs as they are get the right answer (field_5x52_impl.h,              *)
(* field_5x52_int128_impl.h, modinv64_impl.h, field.h).                    *)
LimbsImplementField == fe # Nothing =>
    /\ ValueOf(fe) = means.v
    /\ FL!FeImplVerify(fe, means.m, means.n)
    /\ FL!FeImplNormalizesToZero(fe) = Nought(means.v)
    /\ FL!FeImplNormalizesToZeroVar(fe) = Nought(means.v)
    /\ Unit(means.v) => FL!FeImplIsSquareVar(fe, Symbol(means.v) = 1) = (Symbol(means.v) = 1)
    /\ means.n => /\ FL!FeImplIsZero(fe) = Nought(means.v)
                  /\ \A o \in Operands : o.n =>
                        /\ (FL!FeImplCmpVar(fe, o.limbs) = 0) = (means.v = o.v)
                        /\ FL!FeImplCmpVar(fe, o.limbs) = - FL!FeImplCmpVar(o.limbs, fe)

(* The limbs of the scalar are those of the number, reduced; overflow is   *)
(* reported when there is some, and the comparison with half the order,    *)
(* which leaves some limbs out, and the extraction of bits are right       *)
(* (scalar_4x64_impl.h).                                                   *)
LimbsImplementScalars == sc # Nothing =>
    /\ Number(sc) = num
    /\ SL!ScalarIsHigh(sc) = (num > GroupOrder \div 2)
    /\ \A k \in Numbers : /\ SL!ScalarSetB32(Digits(k)).overflow = (IF k >= GroupOrder THEN 1 ELSE 0)
                          /\ SL!ScalarSetB32Seckey(Digits(k)) = (k \in 1 .. GroupOrder - 1)
                          /\ k < GroupOrder => SL!ScalarAdd(sc, Digits(k)).overflow = (IF num + k >= GroupOrder THEN 1 ELSE 0)
    /\ \A i \in 0 .. Bits - 1 : \A n \in 1 .. 3 : i + n <= Bits =>
           SL!ScalarGetBitsVar(sc, i, n) = (num \div 2 ^ i) % 2 ^ n
=============================================================================
