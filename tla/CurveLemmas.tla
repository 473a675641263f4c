---------------------------- MODULE CurveLemmas ----------------------------
(* Lemmas about Curve: consequences of the ring laws, and sums of          *)
(* sequences.                                                              *)
EXTENDS Curve, WellFoundedInduction, TLAPS

(* A scalar whose sum with a is zero is the negation of a.                 *)
LEMMA NegUnique == \A a, b \in Scalars : Add(a, b) = Zero => b = Neg(a)
<1> TAKE a, b \in Scalars
<1> HAVE Add(a, b) = Zero
<1> Neg(a) \in Scalars /\ Zero \in Scalars BY ClosureAssumption
<1>1. Add(Neg(a), Add(a, b)) = Neg(a)
    BY GroupAssumption
<1>2. Add(Add(Neg(a), a), b) = Add(Neg(a), Add(a, b))
    BY GroupAssumption
<1>3. Add(Neg(a), a) = Zero
    BY GroupAssumption
<1>4. Add(Zero, b) = b
    BY GroupAssumption
<1> QED BY <1>1, <1>2, <1>3, <1>4

LEMMA NegNeg == \A a \in Scalars : Neg(Neg(a)) = a
<1> TAKE a \in Scalars
<1> Neg(a) \in Scalars BY ClosureAssumption
<1>1. Add(Neg(a), a) = Zero
    BY GroupAssumption
<1> QED BY <1>1, NegUnique

LEMMA NegZero == Neg(Zero) = Zero
<1>1. Zero \in Scalars /\ Add(Zero, Zero) = Zero
    BY ClosureAssumption, GroupAssumption
<1> QED BY <1>1, NegUnique

(* Four terms can be added crosswise.                                      *)
LEMMA AddCross ==
    \A a, b, c, d \in Scalars : Add(Add(a, b), Add(c, d)) = Add(Add(a, c), Add(b, d))
<1> TAKE a, b, c, d \in Scalars
<1> \A x, y \in Scalars : Add(x, y) \in Scalars BY ClosureAssumption
<1>1. Add(Add(a, b), Add(c, d)) = Add(a, Add(b, Add(c, d)))
    BY GroupAssumption
<1>2. Add(b, Add(c, d)) = Add(Add(c, b), d)
    BY GroupAssumption
<1>3. Add(Add(c, b), d) = Add(c, Add(b, d))
    BY GroupAssumption
<1>4. Add(a, Add(c, Add(b, d))) = Add(Add(a, c), Add(b, d))
    BY GroupAssumption
<1> QED BY <1>1, <1>2, <1>3, <1>4

LEMMA NegAdd == \A a, b \in Scalars : Neg(Add(a, b)) = Add(Neg(a), Neg(b))
<1> TAKE a, b \in Scalars
<1> /\ Neg(a) \in Scalars /\ Neg(b) \in Scalars /\ Zero \in Scalars
    /\ Add(a, b) \in Scalars /\ Add(Neg(a), Neg(b)) \in Scalars
    BY ClosureAssumption
<1>1. Add(Add(a, b), Add(Neg(a), Neg(b))) = Add(Add(a, Neg(a)), Add(b, Neg(b)))
    BY AddCross
<1>2. Add(a, Neg(a)) = Zero /\ Add(b, Neg(b)) = Zero /\ Add(Zero, Zero) = Zero
    BY GroupAssumption
<1> QED BY <1>1, <1>2, NegUnique

LEMMA MulZero == \A a \in Scalars : Mul(a, Zero) = Zero
<1> TAKE a \in Scalars
<1> DEFINE m == Mul(a, Zero)
<1> Zero \in Scalars /\ m \in Scalars /\ Neg(m) \in Scalars BY ClosureAssumption
<1>1. m = Add(m, m)
    BY RingAssumption, GroupAssumption
<1> HIDE DEF m
<1>2. Add(Add(m, m), Neg(m)) = Add(m, Add(m, Neg(m)))
    BY GroupAssumption
<1>3. Add(m, Neg(m)) = Zero /\ Add(m, Zero) = m
    BY GroupAssumption
<1>4. m = Zero
    BY <1>1, <1>2, <1>3
<1> QED BY <1>4 DEF m

LEMMA MulNeg == \A a, b \in Scalars : Mul(a, Neg(b)) = Neg(Mul(a, b))
<1> TAKE a, b \in Scalars
<1> /\ Neg(b) \in Scalars /\ Mul(a, b) \in Scalars /\ Mul(a, Neg(b)) \in Scalars
    BY ClosureAssumption
<1>1. Add(Mul(a, b), Mul(a, Neg(b))) = Mul(a, Add(b, Neg(b)))
    BY RingAssumption
<1>2. Mul(a, Add(b, Neg(b))) = Zero
    BY GroupAssumption, MulZero
<1> QED BY <1>1, <1>2, NegUnique

(* Nothing but zero leaves a sum as it is; and cancellation.               *)
LEMMA AddSame == \A a, b \in Scalars : b = Add(a, b) => a = Zero
<1> TAKE a, b \in Scalars
<1> HAVE b = Add(a, b)
<1> Neg(b) \in Scalars BY ClosureAssumption
<1>1. Add(Add(a, b), Neg(b)) = Add(a, Add(b, Neg(b)))
    BY GroupAssumption
<1>2. Add(b, Neg(b)) = Zero /\ Add(a, Zero) = a
    BY GroupAssumption
<1> QED BY <1>1, <1>2

LEMMA AddCancel == \A a, b, c \in Scalars : Add(a, b) = Add(a, c) => b = c
<1> TAKE a, b, c \in Scalars
<1> HAVE Add(a, b) = Add(a, c)
<1> Neg(a) \in Scalars BY ClosureAssumption
<1>1. \A x \in Scalars : x = Add(Neg(a), Add(a, x))
  <2> TAKE x \in Scalars
  <2>1. Add(Neg(a), Add(a, x)) = Add(Add(Neg(a), a), x)
      BY GroupAssumption
  <2>2. Add(Neg(a), a) = Zero /\ Add(Zero, x) = x
      BY GroupAssumption, ClosureAssumption
  <2> QED BY <2>1, <2>2
<1> QED BY <1>1

(* Conditional negation.                                                   *)
LEMMA NegIfClosed == \A b \in BOOLEAN, a \in Scalars : NegIf(b, a) \in Scalars
BY ClosureAssumption DEF NegIf

LEMMA NegIfAdd ==
    \A b \in BOOLEAN, x, y \in Scalars : NegIf(b, Add(x, y)) = Add(NegIf(b, x), NegIf(b, y))
BY NegAdd DEF NegIf

LEMMA NegIfMul ==
    \A b \in BOOLEAN, x, y \in Scalars : Mul(x, NegIf(b, y)) = NegIf(b, Mul(x, y))
BY MulNeg DEF NegIf

LEMMA NegIfNegIf ==
    \A b, c \in BOOLEAN, x \in Scalars : NegIf(b, NegIf(c, x)) = NegIf(b # c, x)
BY NegNeg DEF NegIf

(* The point of a scalar is written as that scalar.                        *)
LEMMA MulG == \A x \in Scalars : Mul(x, G) = x
BY RingAssumption, ClosureAssumption DEF G

LEMMA NegPoint == \A p \in Points : /\ Neg(p) \in Points /\ Neg(Neg(p)) = p /\ Neg(p) # p
                                    /\ Odd(Neg(p)) = ~ Odd(p) /\ Odd(p) \in BOOLEAN
<1> TAKE p \in Points
<1>1. p \in Scalars /\ p # Zero /\ Neg(p) \in Scalars
    BY ClosureAssumption DEF Points, Infinity
<1>2. Neg(Neg(p)) = p /\ Neg(p) # Zero
    BY <1>1, NegNeg, NegZero
<1>3. Odd(Neg(p)) = ~ Odd(p) /\ Odd(p) \in BOOLEAN
    BY <1>1, ParityAssumption
<1> QED BY <1>1, <1>2, <1>3 DEF Points, Infinity

(* The two points of an x-only key, and the even one.                      *)
LEMMA EvenYFacts ==
    ASSUME NEW p \in Points
    PROVE  /\ EvenY(p) \in Points /\ ~ Odd(EvenY(p))
           /\ XOnly(EvenY(p)) = XOnly(p)
           /\ \A q \in XOnly(p) : ~ Odd(q) => q = EvenY(p)
<1> USE DEF Points, Infinity
<1> p \in Scalars /\ p # Zero /\ Neg(p) \in Scalars
    BY ClosureAssumption
<1>1. Neg(Neg(p)) = p /\ Neg(p) # Zero
    BY NegNeg, NegZero
<1>2. Odd(p) \in BOOLEAN /\ Odd(Neg(p)) = ~ Odd(p)
    BY ParityAssumption
<1> QED BY <1>1, <1>2 DEF EvenY, NegIf, XOnly

-----------------------------------------------------------------------------
LEMMA LeastElement ==
    ASSUME NEW T \in SUBSET Nat, T # {}
    PROVE  \E x \in T : \A y \in T : x <= y
<1> DEFINE Less == {p \in Nat \X Nat : p[1] < p[2]}
<1>1. IsWellFoundedOn(Less, Nat)
    BY NatLessThanWellFounded DEF OpToRel
<1>2. \A x, y \in T : y < x => << y, x >> \in Less
    OBVIOUS
<1> HIDE DEF Less
<1>3. PICK x \in T : \A y \in T : ~ (<< y, x >> \in Less)
    BY <1>1, WFMin
<1>4. \A y \in T : ~ (y < x)
    BY <1>2, <1>3
<1> QED BY <1>4

-----------------------------------------------------------------------------
(* Sums of sequences.  The function that Sums defines by recursion exists: *)
(* else there were a least length without one.                             *)
IsSums(g, f, n) == g = [i \in 0 .. n |-> IF i = 0 THEN Zero ELSE Add(g[i-1], f[i])]

LEMMA SumsExist ==
    ASSUME NEW n \in Nat, NEW f \in [1 .. n -> Scalars]
    PROVE  \E g : IsSums(g, f, n)
<1> SUFFICES ASSUME ~ \E g : IsSums(g, f, n) PROVE FALSE
    OBVIOUS
<1> DEFINE Bad == {m \in 0 .. n : ~ \E g : IsSums(g, f, m)}
<1>1. n \in Bad /\ Bad \in SUBSET Nat
    OBVIOUS
<1>2. PICK m \in Bad : \A k \in Bad : m <= k
    BY <1>1, LeastElement
<1>3. CASE m = 0
  <2> DEFINE g == [i \in 0 .. 0 |-> Zero]
  <2>1. IsSums(g, f, 0)
      BY DEF IsSums
  <2> QED BY <1>2, <1>3, <2>1
<1>4. CASE m # 0
  <2>1. m \in Nat /\ m - 1 \in 0 .. n /\ m - 1 \notin Bad
      BY <1>2, <1>4
  <2>2. PICK g : IsSums(g, f, m - 1)
      BY <2>1
  <2> DEFINE h == [i \in 0 .. m |-> IF i = m THEN Add(g[m-1], f[m]) ELSE g[i]]
  <2>3. \A i \in 0 .. m : h[i] = IF i = 0 THEN Zero ELSE Add(h[i-1], f[i])
    <3> TAKE i \in 0 .. m
    <3>1. CASE i = m
        BY <3>1, <2>1, <1>4
    <3>2. CASE i # m
        BY <3>2, <2>1, <2>2 DEF IsSums
    <3> QED BY <3>1, <3>2
  <2>4. IsSums(h, f, m)
      BY <2>3 DEF IsSums
  <2> HIDE DEF h
  <2> QED BY <1>2, <2>4
<1> QED BY <1>3, <1>4

LEMMA SumsUnfold ==
    ASSUME NEW n \in Nat, NEW f \in [1 .. n -> Scalars]
    PROVE  /\ Total(f) = Sums(f)[n]
           /\ Sums(f)[0] = Zero
           /\ \A i \in 1 .. n : Sums(f)[i] = Add(Sums(f)[i-1], f[i])
<1>1. Len(f) = n
    OBVIOUS
<1>2. Sums(f) = CHOOSE g : IsSums(g, f, n)
    BY <1>1 DEF Sums, IsSums
<1>3. IsSums(Sums(f), f, n)
    BY <1>2, SumsExist
<1> QED BY <1>1, <1>3 DEF IsSums, Total

(* Two sequences related so that every term keeps a relation keep it in    *)
(* the sum.  First, sums of scalars are scalars.                           *)
LEMMA SumsClosed ==
    ASSUME NEW n \in Nat, NEW f \in [1 .. n -> Scalars]
    PROVE  \A i \in 0 .. n : Sums(f)[i] \in Scalars
<1> DEFINE Bad == {i \in 0 .. n : Sums(f)[i] \notin Scalars}
<1> SUFFICES ASSUME Bad # {} PROVE FALSE
    OBVIOUS
<1>0. Bad \in SUBSET Nat
    OBVIOUS
<1>1. PICK m \in Bad : \A k \in Bad : m <= k
    BY <1>0, LeastElement
<1>2. m # 0
    BY <1>1, SumsUnfold, ClosureAssumption
<1>3. m \in 1 .. n /\ m - 1 \in 0 .. n /\ m - 1 \notin Bad
    BY <1>1, <1>2
<1>4. Sums(f)[m-1] \in Scalars /\ f[m] \in Scalars
    BY <1>3
<1>5. Sums(f)[m] = Add(Sums(f)[m-1], f[m])
    BY <1>3, SumsUnfold
<1> QED BY <1>1, <1>4, <1>5, ClosureAssumption

LEMMA TotalClosed ==
    ASSUME NEW n \in Nat, NEW f \in [1 .. n -> Scalars]
    PROVE  Total(f) \in Scalars
BY SumsUnfold, SumsClosed

(* The sum of two.                                                         *)
LEMMA TotalTwo == \A a, b \in Scalars : Total(<< a, b >>) = Add(a, b)
<1> TAKE a, b \in Scalars
<1> DEFINE f == << a, b >>
<1>1. f \in [1 .. 2 -> Scalars] /\ f[1] = a /\ f[2] = b
    OBVIOUS
<1> HIDE DEF f
<1>2. /\ Total(f) = Sums(f)[2] /\ Sums(f)[0] = Zero
      /\ \A i \in 1 .. 2 : Sums(f)[i] = Add(Sums(f)[i-1], f[i])
    BY <1>1, SumsUnfold
<1>3. Add(Zero, a) = a
    BY GroupAssumption, ClosureAssumption
<1>4. Total(f) = Add(a, b)
    BY <1>1, <1>2, <1>3
<1> QED BY <1>4 DEF f

(* The sum of sums.                                                        *)
LEMMA TotalAdd ==
    ASSUME NEW n \in Nat,
           NEW f \in [1 .. n -> Scalars], NEW g \in [1 .. n -> Scalars],
           NEW h \in [1 .. n -> Scalars],
           \A i \in 1 .. n : h[i] = Add(f[i], g[i])
    PROVE  Total(h) = Add(Total(f), Total(g))
<1> DEFINE Bad == {i \in 0 .. n : Sums(h)[i] # Add(Sums(f)[i], Sums(g)[i])}
<1> /\ Total(h) = Sums(h)[n] /\ Total(f) = Sums(f)[n] /\ Total(g) = Sums(g)[n]
    BY SumsUnfold
<1> SUFFICES ASSUME Bad # {} PROVE FALSE
    OBVIOUS
<1>0. Bad \in SUBSET Nat
    OBVIOUS
<1>1. PICK m \in Bad : \A k \in Bad : m <= k
    BY <1>0, LeastElement
<1>2. m # 0
  <2>1. Sums(h)[0] = Zero /\ Sums(f)[0] = Zero /\ Sums(g)[0] = Zero
      BY SumsUnfold
  <2>2. Add(Zero, Zero) = Zero
      BY ClosureAssumption, GroupAssumption
  <2> QED BY <1>1, <2>1, <2>2
<1>3. m \in 1 .. n /\ m - 1 \in 0 .. n /\ m - 1 \notin Bad
    BY <1>1, <1>2
<1>4. Sums(h)[m-1] = Add(Sums(f)[m-1], Sums(g)[m-1])
    BY <1>3
<1>5. /\ Sums(h)[m] = Add(Sums(h)[m-1], h[m])
      /\ Sums(f)[m] = Add(Sums(f)[m-1], f[m])
      /\ Sums(g)[m] = Add(Sums(g)[m-1], g[m])
    BY <1>3, SumsUnfold
<1>6. /\ Sums(f)[m-1] \in Scalars /\ Sums(g)[m-1] \in Scalars
      /\ f[m] \in Scalars /\ g[m] \in Scalars
    BY <1>3, SumsClosed
<1>7. Sums(h)[m] = Add(Sums(f)[m], Sums(g)[m])
    BY <1>3, <1>4, <1>5, <1>6, AddCross
<1> QED BY <1>1, <1>7

(* A factor, or a sign, common to all the terms can be taken out.          *)
LEMMA TotalMul ==
    ASSUME NEW n \in Nat, NEW a \in Scalars,
           NEW f \in [1 .. n -> Scalars], NEW h \in [1 .. n -> Scalars],
           \A i \in 1 .. n : h[i] = Mul(a, f[i])
    PROVE  Total(h) = Mul(a, Total(f))
<1> DEFINE Bad == {i \in 0 .. n : Sums(h)[i] # Mul(a, Sums(f)[i])}
<1> SUFFICES ASSUME Bad # {} PROVE FALSE
    BY SumsUnfold
<1>0. Bad \in SUBSET Nat
    OBVIOUS
<1>1. PICK m \in Bad : \A k \in Bad : m <= k
    BY <1>0, LeastElement
<1>2. m # 0
  <2>1. Sums(h)[0] = Zero /\ Sums(f)[0] = Zero
      BY SumsUnfold
  <2> QED BY <1>1, <2>1, MulZero
<1>3. m \in 1 .. n /\ m - 1 \in 0 .. n /\ m - 1 \notin Bad
    BY <1>1, <1>2
<1>4. Sums(h)[m-1] = Mul(a, Sums(f)[m-1])
    BY <1>3
<1>5. /\ Sums(h)[m] = Add(Sums(h)[m-1], h[m])
      /\ Sums(f)[m] = Add(Sums(f)[m-1], f[m])
    BY <1>3, SumsUnfold
<1>6. Sums(f)[m-1] \in Scalars /\ f[m] \in Scalars
    BY <1>3, SumsClosed
<1>7. Sums(h)[m] = Mul(a, Sums(f)[m])
    BY <1>3, <1>4, <1>5, <1>6, RingAssumption
<1> QED BY <1>1, <1>7

LEMMA TotalNegIf ==
    ASSUME NEW n \in Nat, NEW b \in BOOLEAN,
           NEW f \in [1 .. n -> Scalars], NEW h \in [1 .. n -> Scalars],
           \A i \in 1 .. n : h[i] = NegIf(b, f[i])
    PROVE  Total(h) = NegIf(b, Total(f))
<1> DEFINE a == NegIf(b, One)
<1>1. a \in Scalars
    BY NegIfClosed, ClosureAssumption
<1>2. \A x \in Scalars : Mul(a, x) = NegIf(b, x)
  <2> TAKE x \in Scalars
  <2>1. Mul(a, x) = Mul(x, a)
      BY <1>1, RingAssumption
  <2>2. Mul(x, a) = NegIf(b, Mul(x, One))
      BY NegIfMul, ClosureAssumption
  <2>3. Mul(x, One) = x
      BY RingAssumption, ClosureAssumption
  <2> QED BY <2>1, <2>2, <2>3
<1> HIDE DEF a
<1>3. \A i \in 1 .. n : h[i] = Mul(a, f[i])
    BY <1>2
<1>4. Total(h) = Mul(a, Total(f))
    BY <1>1, <1>3, TotalMul
<1> QED BY <1>2, <1>4, TotalClosed

(* The sum of a sequence with one term that is not zero.                   *)
LEMMA TotalOne ==
    ASSUME NEW n \in Nat, NEW k \in 1 .. n, NEW f \in [1 .. n -> Scalars],
           \A i \in 1 .. n : i # k => f[i] = Zero
    PROVE  Total(f) = f[k]
<1> DEFINE Bad == {i \in 0 .. n : Sums(f)[i] # IF i < k THEN Zero ELSE f[k]}
<1> Total(f) = Sums(f)[n]
    BY SumsUnfold
<1> SUFFICES ASSUME Bad # {} PROVE FALSE
    OBVIOUS
<1>0. Bad \in SUBSET Nat
    OBVIOUS
<1>1. PICK m \in Bad : \A j \in Bad : m <= j
    BY <1>0, LeastElement
<1>2. m # 0
    BY <1>1, SumsUnfold
<1>3. m \in 1 .. n /\ m - 1 \in 0 .. n /\ m - 1 \notin Bad
    BY <1>1, <1>2
<1>4. Sums(f)[m-1] = IF m - 1 < k THEN Zero ELSE f[k]
    BY <1>3
<1>5. Sums(f)[m] = Add(Sums(f)[m-1], f[m])
    BY <1>3, SumsUnfold
<1>6. f[m] \in Scalars /\ f[k] \in Scalars /\ Zero \in Scalars
    BY <1>3, ClosureAssumption
<1>7. CASE m < k
    BY <1>1, <1>3, <1>4, <1>5, <1>6, <1>7, GroupAssumption
<1>8. CASE m = k
    BY <1>1, <1>4, <1>5, <1>6, <1>8, GroupAssumption
<1>9. CASE m > k
    BY <1>1, <1>3, <1>4, <1>5, <1>6, <1>9, GroupAssumption
<1> QED BY <1>3, <1>7, <1>8, <1>9

(* Equal sums of sequences that differ in at most one place: they do not.  *)
LEMMA TotalsDiffer ==
    ASSUME NEW n \in Nat, NEW k \in 1 .. n,
           NEW f \in [1 .. n -> Scalars], NEW g \in [1 .. n -> Scalars],
           \A i \in 1 .. n : i # k => f[i] = g[i],
           Total(f) = Total(g)
    PROVE  f[k] = g[k]
<1> DEFINE d == [i \in 1 .. n |-> Add(f[i], Neg(g[i]))]
<1>1. d \in [1 .. n -> Scalars]
    BY ClosureAssumption
<1>2. \A i \in 1 .. n : f[i] = Add(d[i], g[i])
  <2> TAKE i \in 1 .. n
  <2>1. f[i] \in Scalars /\ g[i] \in Scalars /\ Neg(g[i]) \in Scalars
      BY ClosureAssumption
  <2>2. Add(Add(f[i], Neg(g[i])), g[i]) = Add(f[i], Add(g[i], Neg(g[i])))
      BY <2>1, GroupAssumption
  <2> QED BY <2>1, <2>2, GroupAssumption
<1>3. \A i \in 1 .. n : i # k => d[i] = Zero
    BY GroupAssumption
<1> HIDE DEF d
<1>4. Total(f) = Add(Total(d), Total(g)) /\ Total(d) = d[k]
    BY <1>1, <1>2, <1>3, TotalAdd, TotalOne
<1>5. Total(g) \in Scalars /\ d[k] \in Scalars /\ g[k] \in Scalars
    BY <1>1, TotalClosed
<1>6. d[k] = Zero
    BY <1>4, <1>5, AddSame
<1> QED BY <1>2, <1>5, <1>6, GroupAssumption
=============================================================================
