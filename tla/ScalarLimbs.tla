----------------------------- MODULE ScalarLimbs -----------------------------
(***************************************************************************)
(* Scalars in limbs: scalar_4x64_impl.h, four of 64 bits, and              *)
(* scalar_8x32_impl.h, eight of 32.  Here there are Words limbs of Bits    *)
(* bits, the lowest first.  Order is the order of the group, Half is       *)
(* Order / 2, and Complement is 2^256 less the order: half as many limbs,  *)
(* and one more that is 1.                                                 *)
(***************************************************************************)
EXTENDS Modinv

CONSTANTS Words, Bits, Order, Half, Complement

Limb(x) == x % 2 ^ Bits
Carry(x) == x \div 2 ^ Bits
At(x, i) == IF i \in 1 .. Len(x) THEN x[i] ELSE 0

(* Columns are added up in an accumulator of two words, and limbs are      *)
(* extracted in turn; what remains at the end is the last element.         *)
Extracted(columns) ==
    LET n == Len(columns)
        acc[i \in 1 .. n] == (columns[i] + (IF i = 1 THEN 0 ELSE Carry(acc[i - 1]))) % 2 ^ (2 * Bits)
    IN  << >> \o [i \in 1 .. n + 1 |-> IF i > n THEN Carry(acc[n]) ELSE Limb(acc[i])]
Lower(x) == SubSeq(x, 1, Words)
Added(a, b) == Extracted([i \in 1 .. Words |-> a[i] + At(b, i)])
Times(k, a) == [i \in 1 .. Len(a) |-> k * a[i]]
Zero == [i \in 1 .. Words |-> 0]

----------------------------------------------------------------------------
(* The comparisons go down from the last limb without branches: a smaller  *)
(* limb sets no, after which a greater one cannot set yes.                 *)
Greater(a, b) == \E i \in 1 .. Words : a[i] > b[i] /\ \A j \in i + 1 .. Words : a[j] >= b[j]
ScalarCheckOverflow(a) == IF Greater(Lower(a), Order) \/ Lower(a) = Order THEN 1 ELSE 0
ScalarIsHigh(a) == Greater(a, Half)

ScalarReduce(a, overflow) == Lower(Added(a, Times(overflow, Complement)))
ScalarSetB32(a) == [r |-> ScalarReduce(a, ScalarCheckOverflow(a)), overflow |-> ScalarCheckOverflow(a)]
ScalarSetB32Seckey(a) == ScalarSetB32(a).overflow = 0 /\ ScalarSetB32(a).r # Zero

Overflowed(sum) == [r |-> ScalarReduce(Lower(sum), Last(sum) + ScalarCheckOverflow(sum)),
                    overflow |-> Last(sum) + ScalarCheckOverflow(sum)]
ScalarAdd(a, b) == Overflowed(Added(a, b))

(* A bit position past the last makes it do nothing.                       *)
ScalarCaddBit(a, bit, flag) ==
    LET b == bit + (IF flag THEN 0 ELSE Words * Bits)
    IN  Lower(Added(a, [i \in 1 .. Words |-> IF b \div Bits = i - 1 THEN 2 ^ (b % Bits) ELSE 0]))

Inverted(a) == [i \in 1 .. Words |-> 2 ^ Bits - 1 - a[i]]
ScalarNegate(a) ==
    IF a = Zero THEN Zero ELSE Lower(Added(Inverted(a), [Order EXCEPT ![1] = @ + 1]))
ScalarCondNegate(a, flag) == IF flag THEN ScalarNegate(a) ELSE a

ScalarHalf(a) ==
    LET half == [i \in 1 .. Words |-> (a[i] \div 2) + (At(a, i + 1) % 2) * 2 ^ (Bits - 1)]
    IN  Lower(Added(half, Times(a[1] % 2, [Half EXCEPT ![1] = @ + 1])))

ScalarCmov(r, a, flag) == IF flag THEN a ELSE r
ScalarSplit128(a) ==
    LET part(from) == [i \in 1 .. Words |-> IF i > Words \div 2 THEN 0 ELSE a[from + i]]
    IN  << part(0), part(Words \div 2) >>

(* Bits that lie in one limb, or in two.                                   *)
ScalarGetBitsLimb32(a, offset, count) ==
    (a[(offset \div Bits) + 1] \div 2 ^ (offset % Bits)) % 2 ^ count
Straddling(x, offset) ==
    (At(x, (offset \div Bits) + 1) \div 2 ^ (offset % Bits))
        + Limb(At(x, (offset \div Bits) + 2) * 2 ^ (Bits - (offset % Bits)))
ScalarGetBitsVar(a, offset, count) ==
    IF (offset + count - 1) \div Bits = offset \div Bits THEN ScalarGetBitsLimb32(a, offset, count)
    ELSE Straddling(a, offset) % 2 ^ count

----------------------------------------------------------------------------
(* The words c0, c1, c2 that products and sums are added to, as the macros *)
(* have it: a word that came out less than what was added to it has a      *)
(* carry.  The fast forms leave the last word alone.                       *)
MulAdd(c, term, fast) ==
    LET carry(sum, word) == IF sum < word THEN 1 ELSE 0
        low == Limb(term[1] * term[2])
        c0 == Limb(c[1] + low)
        high == Limb(Carry(term[1] * term[2]) + carry(c0, low))
        c1 == Limb(c[2] + high)
    IN  <<c0, c1, IF fast THEN c[3] ELSE Limb(c[3] + carry(c1, high))>>

(* Three registers, with additions that take the carry of the one before.  *)
MulAddAsm(c, term, pair) ==
    LET r0 == c[1] + Limb(term[1] * term[2])
        r1 == c[2] + Carry(term[1] * term[2]) + Carry(r0)
    IN  <<Limb(r0), Limb(r1), IF pair THEN c[3] ELSE Limb(c[3] + Carry(r1))>>

(* Columns of terms are added up in order, and from each a limb is taken.  *)
Column(c, terms, fast, asm) ==
    LET sum[j \in 0 .. Len(terms)] == IF j = 0 THEN c
                                     ELSE IF asm THEN MulAddAsm(sum[j - 1], terms[j], fast)
                                     ELSE MulAdd(sum[j - 1], terms[j], fast)
    IN  sum[Len(terms)]
Summed(columns, fast, asm) ==
    LET shifted(c) == <<c[2], c[3], 0>>
        after[i \in 0 .. Len(columns)] ==
            IF i = 0 THEN <<0, 0, 0>>
            ELSE Column(shifted(after[i - 1]), columns[i], i \in fast, asm)
    IN  << >> \o [i \in 1 .. Len(columns) + 1 |->
                     IF i > Len(columns) THEN after[i - 1][2] ELSE after[i][1]]

Products(a, b) ==
    LET first(k) == IF k > Words THEN k - Words ELSE 0
    IN  << >> \o [k \in 1 .. 2 * Words - 1 |->
             << >> \o [j \in 1 .. Smaller(k, 2 * Words - k) |->
                         <<a[first(k) + j], b[k + 1 - first(k) - j]>>]]
ScalarMul512(a, b) == Summed(Products(a, b), {1, 2 * Words - 1}, FALSE)
ScalarMul512Asm(a, b) == Summed(Products(a, b), {1, 2 * Words - 1}, TRUE)

(* lo + hi * Complement, a column for each limb of the result but the last *)
(* one.                                                                    *)
Folds(lo, hi, n) ==
    LET terms(k) == [j \in 1 .. Len(hi) |-> <<hi[Len(hi) + 1 - j], At(Complement, k - Len(hi) + j)>>]
    IN  << >> \o [k \in 1 .. n |-> << <<At(lo, k), 1>> >> \o SelectSeq(terms(k), LAMBDA t : t[2] # 0)]
Upper(x, n) == SubSeq(x, Words + 1, n)
Folded(p, top) == [p EXCEPT ![Words + 1] = Limb(@ + top)]
Folds385(l) == Folds(Lower(l), Upper(l, 2 * Words), (3 * Words) \div 2)
Folds258(m) == Folds(Lower(m), Upper(m, Len(m)), Words)

Fold385(l) == Summed(Folds385(l), {1, (3 * Words) \div 2}, FALSE)
Fold258(m) == Folded(Summed(Folds258(m), {1, Words}, FALSE), Last(m))
Fold256(p) == Extracted([k \in 1 .. Words |-> p[k] + At(Complement, k) * Last(p)])

Fold385Asm(l) == Summed(Folds385(l), {1, (3 * Words) \div 2}, TRUE)
Fold258Asm(m) == Folded(Summed(Folds258(m), {1, Words}, TRUE), Last(m))
Fold256Asm(p) ==
    Summed([k \in 1 .. Words |-> << <<p[k], 1>>, <<At(Complement, k), Last(p)>> >>], 1 .. Words, TRUE)

ScalarReduce512(l) == Overflowed(Fold256(Fold258(Fold385(l)))).r
ScalarReduce512Asm(l) == Overflowed(Fold256Asm(Fold258Asm(Fold385Asm(l)))).r
ScalarMul(a, b) == ScalarReduce512(ScalarMul512(a, b))
ScalarMulAsm(a, b) == ScalarReduce512Asm(ScalarMul512Asm(a, b))

(* The product shifted right by at least Words limbs, and rounded.         *)
Rounded(l, shift) ==
    ScalarCaddBit([i \in 1 .. Words |-> Straddling(l, shift + (i - 1) * Bits)], 0,
                  (l[((shift - 1) \div Bits) + 1] \div 2 ^ ((shift - 1) % Bits)) % 2 = 1)
ScalarMulShiftVar(a, b, shift) == Rounded(ScalarMul512(a, b), shift)

----------------------------------------------------------------------------
ScalarToSigned62(a) == Repack(a, Bits, S, Limbs)
ScalarFromSigned62(x) == Repack(x, S, Bits, Words)
ConstModinfoScalar ==
    LET digits == Repack(Order, Bits, S, Limbs)
        last == ((Words \div 2) * Bits + S) \div S       \* digit of Complement
    IN  [modulus |-> << >> \o [i \in 1 .. Limbs |->
                         IF i < last THEN digits[i] ELSE IF i = last THEN digits[i] - 2 ^ S
                         ELSE IF i = Limbs THEN 2 ^ (Words * Bits - S * (Limbs - 1)) ELSE 0],
         inverse |-> CHOOSE k \in 0 .. 2 ^ S - 1 : (digits[1] * k) % 2 ^ S = 1]
ScalarInverse(a) == ScalarFromSigned62(Modinv64(ScalarToSigned62(a), ConstModinfoScalar))
ScalarInverseVar(a) == ScalarFromSigned62(Modinv64Var(ScalarToSigned62(a), ConstModinfoScalar))
=============================================================================
