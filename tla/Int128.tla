------------------------------- MODULE Int128 -------------------------------
(***************************************************************************)
(* Integers of two words, for compilers that have none (MSVC):             *)
(* int128_struct_impl.h.  An accumulator is a pair of unsigned words, also *)
(* where it stands for a signed number; here a word has two halves of Half *)
(* bits each.  exact is the number that it should be.                      *)
(***************************************************************************)
EXTENDS Integers

CONSTANTS HalfBits,
          AccWords,      \* the operands, as unsigned words
          MaxAccSteps

VARIABLES acc, exact, signed, accSteps
accVars == << acc, exact, signed, accSteps >>

WordBits == 2 * HalfBits
U(x) == x % 2 ^ WordBits                   \* conversion to uint64_t
I(x) == LET u == U(x) IN IF 2 * u >= 2 ^ WordBits THEN u - 2 ^ WordBits ELSE u   \* to int64_t
SignedWords == {I(a) : a \in AccWords}
Bool(b) == IF b THEN 1 ELSE 0
Negative(hi) == 2 * hi >= 2 ^ WordBits

(* The products of the halves of words: the high half of a signed word is  *)
(* signed, and \div rounds down as the arithmetic shift does.              *)
LowHalf(x) == x % 2 ^ HalfBits
HighHalf(x) == x \div 2 ^ HalfBits
Mul128(a, b) ==
    LET ll == LowHalf(a) * LowHalf(b)
        lh == LowHalf(a) * HighHalf(b)
        hl == HighHalf(a) * LowHalf(b)
        hh == HighHalf(a) * HighHalf(b)
        mid34 == HighHalf(ll) + LowHalf(lh) + LowHalf(hl)
    IN  [hi |-> hh + HighHalf(lh) + HighHalf(hl) + HighHalf(mid34),
         lo |-> U(mid34 * 2 ^ HalfBits) + LowHalf(ll)]

Load(hi, lo) == [hi |-> U(hi), lo |-> U(lo)]
FromI64(a) == Load(IF a < 0 THEN -1 ELSE 0, a)
Product(a, b) == LET p == Mul128(a, b) IN Load(p.hi, p.lo)

Accum(r, p) == LET lo == U(r.lo + p.lo) IN [hi |-> U(r.hi + p.hi + Bool(lo < p.lo)), lo |-> lo]
Dissip(r, p) == [hi |-> U(r.hi - (p.hi + Bool(r.lo < p.lo))), lo |-> U(r.lo - p.lo)]
Det(a, b, c, d) == Dissip(Product(a, d), Mul128(b, c))

(* What is verified of a signed sum and difference.                        *)
AccumChecked(r, p) ==
    LET hi == U(p.hi + Bool(U(r.lo + p.lo) < p.lo))
    IN  Negative(r.hi) = Negative(hi) => Negative(U(r.hi + hi)) = Negative(r.hi)
DissipChecked(r, p) ==
    LET hi == U(p.hi + Bool(r.lo < p.lo))
    IN  Negative(r.hi) # Negative(hi) => Negative(U(r.hi - hi)) = Negative(r.hi)

(* top is hi, as an unsigned or a signed word.                             *)
RShift(r, n, top) ==
    IF n >= WordBits THEN Load(IF top < 0 THEN -1 ELSE 0, top \div 2 ^ (n - WordBits))
    ELSE IF n > 0 THEN [hi |-> U(top \div 2 ^ n), lo |-> U(r.hi * 2 ^ (WordBits - n)) + (r.lo \div 2 ^ n)]
    ELSE r

CheckBits(r, n) == IF n >= WordBits THEN r.hi \div 2 ^ (n - WordBits) = 0
                   ELSE r.hi = 0 /\ r.lo \div 2 ^ n = 0
CheckPow2(r, n, sign) ==
    IF n >= WordBits THEN r = Load(sign * 2 ^ (n - WordBits), 0)
    ELSE r = Load(sign \div 2, sign * 2 ^ n)
ToI64Checked(r) == r.hi = U(- (r.lo \div 2 ^ (WordBits - 1)))

----------------------------------------------------------------------------
NoAcc == acc = Load(0, 0) /\ exact = 0 /\ signed = FALSE /\ accSteps = MaxAccSteps
AccInit == acc = Load(0, 0) /\ exact = 0 /\ signed \in BOOLEAN /\ accSteps = 0

(* Unsigned numbers wrap; signed ones must not overflow, and the checks    *)
(* say so.                                                                 *)
Fits(x) == x \in - 2 ^ (2 * WordBits - 1) .. 2 ^ (2 * WordBits - 1) - 1
Becomes(r, x) == /\ accSteps < MaxAccSteps
                 /\ acc' = r
                 /\ exact' = IF signed THEN x ELSE x % 2 ^ (2 * WordBits)
                 /\ accSteps' = accSteps + 1
                 /\ UNCHANGED signed
Operands == IF signed THEN SignedWords ELSE AccWords
Top == IF signed THEN I(acc.hi) ELSE acc.hi

AccFrom == \E a \in Operands : Becomes(IF signed THEN FromI64(a) ELSE Load(0, a), a)
AccLoad == \E hi \in Operands, lo \in AccWords : Becomes(Load(hi, lo), hi * 2 ^ WordBits + lo)
AccMul == \E a, b \in Operands : Becomes(Product(a, b), a * b)
AccAccum == \E a, b \in Operands : /\ signed => Fits(exact + a * b)
                                   /\ Becomes(Accum(acc, Mul128(a, b)), exact + a * b)
AccAccumWord == ~ signed /\ \E a \in AccWords : Becomes(Accum(acc, Load(0, a)), exact + a)
AccDissip == signed /\ \E a, b \in SignedWords : /\ Fits(exact - a * b)
                                                 /\ Becomes(Dissip(acc, Mul128(a, b)), exact - a * b)
AccDet == signed /\ accSteps = 0 /\ \E a, b, c, d \in SignedWords :
              /\ Fits(a * d - b * c)
              /\ Becomes(Det(a, b, c, d), a * d - b * c)
AccShift == \E n \in 0 .. 2 * WordBits - 1 : Becomes(RShift(acc, n, Top), exact \div 2 ^ n)

AccNext == \/ AccFrom \/ AccLoad \/ AccMul \/ AccAccum \/ AccAccumWord
           \/ AccDissip \/ AccDet \/ AccShift
AccSpec == AccInit /\ [][AccNext]_accVars

----------------------------------------------------------------------------
(* Whatever is multiplied, added, subtracted and shifted, an accumulator   *)
(* of two words is the number that a type of twice the length would be,    *)
(* the tests for its length and for powers of two decide, and the checks   *)
(* for overflow fail exactly if the number does not fit                    *)
(* (int128_struct_impl.h).                                                 *)
AccumulatorsAgree ==
    /\ Top * 2 ^ WordBits + acc.lo = exact
    /\ ~ signed => \A n \in 0 .. 2 * WordBits - 1 : CheckBits(acc, n) = (exact < 2 ^ n)
    /\ signed =>
          /\ \A n \in 0 .. 2 * WordBits - 2, sign \in {1, -1} : CheckPow2(acc, n, sign) = (exact = sign * 2 ^ n)
          /\ ToI64Checked(acc) = (I(exact) = exact)
          /\ \A a, b \in SignedWords : /\ AccumChecked(acc, Mul128(a, b)) = Fits(exact + a * b)
                                       /\ DissipChecked(acc, Mul128(a, b)) = Fits(exact - a * b)
=============================================================================
