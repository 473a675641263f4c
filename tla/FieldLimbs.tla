----------------------------- MODULE FieldLimbs -----------------------------
(***************************************************************************)
(* Field elements in limbs: field_5x52_impl.h, field_5x52_int128_impl.h,   *)
(* and field_10x26_impl.h for machines without products of 128 bits.       *)
(*                                                                         *)
(* An element is a sequence of NumLimbs limbs of LimbBits bits, the        *)
(* lowest first, the last of TopBits bits; carries that have not been done *)
(* are in the rest of the word.  In the code there are five limbs of 52,   *)
(* the last of 48, in words of 64 bits, or ten of 26 and 22 in words of    *)
(* 32, and the prime is 2^256 - 0x1000003D1.                               *)
(***************************************************************************)
EXTENDS Modinv

CONSTANTS NumLimbs, LimbBits, TopBits, WordBits,
          Short,         \* the two lowest limbs of what the prime falls short of 2^256
          StorageWords

Indices == 1 .. NumLimbs
Mask == 2 ^ LimbBits - 1
Top == 2 ^ TopBits - 1
Full(i) == IF i = NumLimbs THEN Top ELSE Mask
Prime == << >> \o [i \in Indices |-> IF i = 1 THEN Mask + 1 - Short[1]
                                     ELSE IF i = 2 THEN Mask - Short[2] ELSE Full(i)]

Fits(x) == x % 2 ^ WordBits
Acc(x) == x % 2 ^ (2 * WordBits)
Low(x) == x % 2 ^ LimbBits
Over(x) == x \div 2 ^ LimbBits
Excess(t) == t[NumLimbs] \div 2 ^ TopBits
Masked(t) == [t EXCEPT ![NumLimbs] = @ % 2 ^ TopBits]

FeImplGetBounds(m) == << >> \o [i \in Indices |-> Full(i) * 2 * m]

(* Given full limbs from the third on, whether the number is the prime or  *)
(* larger: whether what the prime lacks makes the others overflow.         *)
AtLeastPrime(t) == /\ \A i \in 3 .. NumLimbs : t[i] = Full(i)
                   /\ t[2] + Short[2] + Over(t[1] + Short[1]) > Mask

(* What magnitude m and being normalized mean for the limbs.               *)
FeImplVerify(t, m, normalized) ==
    /\ \A i \in Indices : t[i] <= FeImplGetBounds(m)[i]
    /\ normalized => (\A i \in Indices : t[i] <= Full(i)) /\ ~ AtLeastPrime(t)

----------------------------------------------------------------------------
(* x times 2^256 is added, as x times Short; then the carries.             *)
CarriedOn(t, x) ==
    LET sum[i \in Indices] ==
            Fits(t[i] + (IF i <= 2 THEN x * Short[i] ELSE 0) + (IF i = 1 THEN 0 ELSE Over(sum[i - 1])))
    IN  << >> \o [i \in Indices |-> IF i = NumLimbs THEN sum[i] ELSE Low(sum[i])]

FeImplNormalizeWeak(t) == CarriedOn(Masked(t), Excess(t))

RemainingExcess(t) == Excess(t)
Remaining(t) == IF AtLeastPrime(t) THEN 1 ELSE Excess(t)
Final(t) == Masked(CarriedOn(t, Remaining(t)))
FeImplNormalize(t) == Final(FeImplNormalizeWeak(t))

FinalVar(t) == IF Remaining(t) # 0 THEN Masked(CarriedOn(t, 1)) ELSE t
FeImplNormalizeVar(t) == FinalVar(FeImplNormalizeWeak(t))

FeImplIsZero(t) == \A i \in Indices : t[i] = 0
FeImplIsOdd(t) == t[1] % 2 = 1
RawZero(t) == FeImplIsZero(t) \/ t = Prime
FeImplNormalizesToZero(t) == RawZero(FeImplNormalizeWeak(t))
FeImplNormalizesToZeroVar(t) ==
    /\ Low(Fits(t[1] + Excess(t) * Short[1])) \in {0, Prime[1]}
    /\ RawZero(FeImplNormalizeWeak(t))

FeImplCmpVar(a, b) ==
    LET differ == {i \in Indices : a[i] # b[i]}
        i == CHOOSE j \in differ : \A k \in differ : k <= j
    IN  IF differ = {} THEN 0 ELSE IF a[i] > b[i] THEN 1 ELSE -1

FeImplSetInt(k) == << >> \o [i \in Indices |-> IF i = 1 THEN k ELSE 0]
FeImplAddInt(t, k) == [t EXCEPT ![1] = Fits(@ + k)]
FeImplAdd(a, b) == << >> \o [i \in Indices |-> Fits(a[i] + b[i])]
FeImplMulIntUnchecked(t, k) == << >> \o [i \in Indices |-> Fits(t[i] * k)]
FeImplNegateUnchecked(t, m) == << >> \o [i \in Indices |-> Fits(Prime[i] * 2 * (m + 1) - t[i])]
FeImplCmov(r, a, flag) == IF flag THEN a ELSE r

ShiftedRight(t) == << >> \o [i \in Indices |-> (t[i] \div 2) + (IF i = NumLimbs THEN 0
                                                          ELSE (t[i + 1] % 2) * 2 ^ (LimbBits - 1))]
FeImplHalf(t) == ShiftedRight(IF FeImplIsOdd(t) THEN FeImplAdd(t, Prime) ELSE t)

----------------------------------------------------------------------------
(* Products, in columns.                                                   *)
Columns == 1 .. 2 * NumLimbs - 1
Factors(k) == {i \in Indices : k + 1 - i \in Indices}
Product(a, b) == << >> \o [k \in Columns |-> MapThenSumSet(LAMBDA i : a[i] * b[k + 1 - i], Factors(k))]
Square(a) == << >> \o [k \in Columns |->
    MapThenSumSet(LAMBDA i : IF 2 * i = k + 1 THEN a[i] * a[i] ELSE Fits(2 * a[i]) * a[k + 1 - i],
                  {i \in Factors(k) : 2 * i <= k + 1})]

R(i) == Short[i] * 2 ^ (LimbBits - TopBits)
RHigh == R(1) * 2 ^ (WordBits - LimbBits)
High(x) == x \div 2 ^ WordBits

(* Five limbs: d takes columns 3 to 7, after column 8 has been folded into *)
(* the first two of these, and c takes columns 0 to 2 and the limb below d *)
(* with what is folded back from it.                                       *)
Upper5(p) ==
    LET folded == << R(1) * Fits(p[9]), RHigh * Fits(High(p[9])), 0, 0, 0 >>
        d[i \in 1 .. 5] == Acc((IF i = 1 THEN 0 ELSE Over(d[i - 1])) + p[i + 3] + folded[i])
    IN  << >> \o [i \in 1 .. 5 |-> d[i]]
Lower5(p, d) ==
    LET u0 == Low(d[3]) * 2 ^ (LimbBits - TopBits) + (Low(d[2]) \div 2 ^ TopBits)
        folded == << u0 * Short[1], Low(d[4]) * R(1), R(1) * Fits(d[5]), RHigh * Fits(High(d[5])) >>
        column == << p[1], p[2], p[3], Low(d[1]) >>
        c[i \in 1 .. 4] == Acc((IF i = 1 THEN 0 ELSE Over(c[i - 1])) + column[i] + folded[i])
    IN  << >> \o [i \in 1 .. 5 |-> IF i = 5 THEN Fits(Fits(Over(c[4])) + (d[2] % 2 ^ TopBits)) ELSE Low(c[i])]
Reduced5(p) == Lower5(p, Upper5(p))

(* Ten limbs: d takes columns 9 to 18; from the limbs of all but the first *)
(* of these follows what is added to columns 0 to 8 in c.  What is left of *)
(* both goes to the last limb, and what this cannot hold to the first.     *)
Upper10(p) ==
    LET d[i \in 0 .. 9] == Acc((IF i = 0 THEN 0 ELSE Over(d[i - 1])) + p[i + 10])
    IN  << >> \o [i \in 1 .. 11 |-> IF i = 11 THEN Over(d[9]) ELSE Low(d[i - 1])]
Lower10(p, d) ==
    LET c[i \in 1 .. 9] == Acc((IF i = 1 THEN 0 ELSE Over(c[i - 1]) + d[i] * R(2)) + p[i] + d[i + 1] * R(1))
    IN  << >> \o [i \in 1 .. 10 |->
            IF i = 10 THEN Acc(Over(c[9]) + d[10] * R(2) + d[11] * R(1) + d[1]) ELSE Low(c[i])]
Wrapped10(t, rest) ==
    LET c == Acc((t[10] \div 2 ^ TopBits) + rest * R(2) * 2 ^ (LimbBits - TopBits))
        d[i \in 1 .. 3] == IF i = 3 THEN Fits(Over(d[2]) + t[3])
                           ELSE Acc((IF i = 1 THEN 0 ELSE Over(d[1])) + c * Short[i] + t[i])
    IN  << >> \o [i \in 1 .. 10 |-> IF i = 10 THEN t[10] % 2 ^ TopBits
                                    ELSE IF i = 3 THEN d[3] ELSE IF i < 3 THEN Low(d[i]) ELSE t[i]]
Rewrapped10(p, d) == Wrapped10(Lower10(p, d), d[11])
Reduced10(p) == Rewrapped10(p, Upper10(p))

Reduced(p) == IF NumLimbs = 5 THEN Reduced5(p) ELSE Reduced10(p)
FeMulInner(a, b) == Reduced(Product(a, b))
FeSqrInner(a) == Reduced(Square(a))

----------------------------------------------------------------------------
(* Other representations: bytes, words, and the digits of the inversion.   *)
FeBits == LimbBits * (NumLimbs - 1) + TopBits
Parts(n) == (FeBits + n - 1) \div n
FeImplSetB32Mod(bytes) == Repack(bytes, 8, LimbBits, NumLimbs)
FeImplSetB32Limit(bytes) == ~ AtLeastPrime(FeImplSetB32Mod(bytes))
FeImplGetB32(t) == Repack(t, LimbBits, 8, Parts(8))

FeImplToStorage(t) == Repack(t, LimbBits, Parts(StorageWords), StorageWords)
FeImplFromStorage(words) == Repack(words, Parts(StorageWords), LimbBits, NumLimbs)

FeToSigned62(t) == Repack(t, LimbBits, S, Limbs)
FeFromSigned62(x) == Repack(x, S, LimbBits, NumLimbs)

ConstModinfoFe ==
    LET short == Short[1] + Short[2] * 2 ^ LimbBits
    IN  [modulus |-> << - (short % 2 ^ S), - (short \div 2 ^ S) >>
                     \o [i \in 1 .. Limbs - 2 |-> IF i = Limbs - 2 THEN 2 ^ (FeBits - S * (Limbs - 1)) ELSE 0],
         inverse |-> CHOOSE k \in 0 .. 2 ^ S - 1 : (-short * k) % 2 ^ S = 1]

FeImplInv(t) == FeFromSigned62(Modinv64(FeToSigned62(FeImplNormalize(t)), ConstModinfoFe))
FeImplInvVar(t) == FeFromSigned62(Modinv64Var(FeToSigned62(FeImplNormalizeVar(t)), ConstModinfoFe))

(* rooted: what the computation of a square root finds, if the symbol is   *)
(* not found in the rounds that there are.                                 *)
SquareBySymbol(jac, rooted) == IF jac = 0 THEN rooted ELSE jac >= 0
FeImplIsSquareVar(t, rooted) ==
    \/ FeImplIsZero(FeImplNormalizeVar(t))
    \/ SquareBySymbol(Jacobi64MaybeVar(FeToSigned62(FeImplNormalizeVar(t)), ConstModinfoFe), rooted)
=============================================================================
