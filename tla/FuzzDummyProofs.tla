-------------------------- MODULE FuzzDummyProofs ---------------------------
(* Theorems about OnceFlag, for every set of processes, and about the      *)
(* dummies of FuzzDummy, for strings of any length.                        *)
EXTENDS FuzzDummy, WellFoundedInduction, TLAPS

(* The process that builds is the first to swap. *)
Builds(p) == pc[p] \in {"build", "building", "built"}

(* The flag was NONE until the first swap and DONE has been stored only    *)
(* after the build; in between one process builds.  A process that puts    *)
(* WORKING back over DONE does so when the static is valid and ordered     *)
(* before it.                                                              *)
IInv == /\ TypeOK
        /\ AssertionsHold
        /\ \A p, q \in Procs : Builds(p) /\ Builds(q) => p = q
        /\ flag = "none" => past = {"none"} /\ static = "zero" /\ \A p \in Procs : ~ Builds(p)
        /\ past = {"none"} => flag = "none"
        /\ \A p \in Procs : /\ pc[p] = "build" => static = "zero"
                            /\ pc[p] = "building" => static = "torn"
                            /\ pc[p] = "built" => static = "valid" /\ p \in ordered
                            /\ pc[p] \in {"fastcopy", "copy"} => "done" \in past
                            /\ pc[p] \in {"restore", "copy"} => p \in ordered
                            /\ pc[p] = "restore" => "done" \in past
        /\ \A p \in Procs : Builds(p) => flag = "working" /\ "done" \notin past /\ have[p] = "none"
        /\ "done" \in past => static = "valid" /\ carries = TRUE
        /\ flag \in past /\ "none" \in past

LEMMA InitInv == Init => IInv
  BY DEF Init, IInv, TypeOK, Flags, Labels, AssertionsHold, Builds

(* One step per action of a process. *)
LEMMA StepInv == IInv /\ [Next]_vars => IInv'
<1> SUFFICES ASSUME IInv, [Next]_vars PROVE IInv'
  OBVIOUS
<1> USE DEF IInv, TypeOK, Flags, Labels, AssertionsHold, Builds, Goto, Read, Write, AcquireFlag
<1>1. ASSUME NEW p \in Procs, Load(p) PROVE IInv'
  BY <1>1 DEF Load
<1>2. ASSUME NEW p \in Procs, Swap(p) PROVE IInv'
  <2>1. ordered' \in SUBSET Procs /\ carries' \in BOOLEAN /\ met' \in SUBSET Procs
    BY <1>2 DEF Swap, SwapTo
  <2>2. AfterSwap \in Labels
    BY DEF AfterSwap
  <2>3. pc' \in [Procs -> Labels]
    BY <1>2, <2>2 DEF Swap, SwapTo
  <2>4. have' \in [Procs -> Flags]
    BY <1>2 DEF Swap, SwapTo
  <2>5. TypeOK'
    <3>1. past' \in SUBSET Flags /\ flag' \in Flags /\ static' \in {"zero", "torn", "valid"}
      BY <1>2 DEF Swap, SwapTo
    <3>2. QED
      BY ONLY <2>1, <2>3, <2>4, <3>1 DEF TypeOK
  <2>6. CASE flag = "none"
    BY <1>2, <2>5, <2>6 DEF Swap, SwapTo, AfterSwap
  <2>7. CASE flag = "working"
    BY <1>2, <2>5, <2>7 DEF Swap, SwapTo, AfterSwap
  <2>8. CASE flag = "done"
    <3>1. "done" \in past /\ p \in ordered' /\ carries' = TRUE
      BY <1>2, <2>8 DEF Swap, SwapTo
    <3>2. QED
      BY <1>2, <2>5, <2>8, <3>1 DEF Swap, SwapTo, AfterSwap
  <2>9. QED
    BY <2>6, <2>7, <2>8
<1>3. ASSUME NEW p \in Procs, Build(p) PROVE IInv'
  BY <1>3 DEF Build
<1>4. ASSUME NEW p \in Procs, Built(p) PROVE IInv'
  BY <1>4 DEF Built
<1>5. ASSUME NEW p \in Procs, Finish(p) PROVE IInv'
  <2>1. flag = "working" /\ p \in ordered /\ static = "valid"
    BY <1>5 DEF Finish
  <2>2. ordered' \in SUBSET Procs /\ p \in ordered'
    BY <1>5, <2>1 DEF Finish
  <2>3. carries' = TRUE
    BY <1>5, <2>2 DEF Finish
  <2>4. QED
    BY <1>5, <2>1, <2>2, <2>3 DEF Finish
<1>6. ASSUME NEW p \in Procs, Restore(p) PROVE IInv'
  BY <1>6 DEF Restore
<1>7. ASSUME NEW p \in Procs, Wait(p) PROVE IInv'
  BY <1>7 DEF Wait
<1>8. ASSUME NEW p \in Procs, Copy(p) PROVE IInv'
  BY <1>8 DEF Copy
<1>9. CASE UNCHANGED vars
  BY <1>9 DEF vars
<1>10. QED
  BY <1>1, <1>2, <1>3, <1>4, <1>5, <1>6, <1>7, <1>8, <1>9 DEF Next, Creating

(* Every reachable state satisfies the inductive invariant. *)
THEOREM Invariant == Spec => []IInv
  BY InitInv, StepInv, PTL DEF Spec

(* One process builds the static, once (secp256k1-sys lib.rs:1536-1558). *)
THEOREM BuildsOnce == Spec => []SingleBuilder
<1>1. IInv => SingleBuilder
  BY DEF IInv, SingleBuilder, Builds
<1>2. QED
  BY <1>1, Invariant, PTL

(* The assertions of the loop hold (secp256k1-sys lib.rs:1555, 1565). *)
THEOREM NoAssertionFails == Spec => []AssertionsHold
<1>1. IInv => AssertionsHold
  BY DEF IInv
<1>2. QED
  BY <1>1, Invariant, PTL

(* Only a built static is copied, and a process that waited for it or put  *)
(* DONE back is ordered after the build (secp256k1-sys lib.rs:1536-1571).  *)
THEOREM CopiesWhatIsBuilt == Spec => []CopiesBuilt
<1>1. IInv => CopiesBuilt
  BY DEF IInv, CopiesBuilt
<1>2. QED
  BY <1>1, Invariant, PTL

----------------------------------------------------------------------------
(* Induction from 0 to n, and what functions that are defined by it are.   *)
LEMMA UpTo ==
    ASSUME NEW n \in Nat, NEW T, 0 \in T, \A i \in 1 .. n : i - 1 \in T => i \in T
    PROVE  \A i \in 0 .. n : i \in T
<1> DEFINE Bad == {i \in 0 .. n : i \notin T}
           Less == {p \in Nat \X Nat : p[1] < p[2]}
<1> SUFFICES ASSUME Bad # {} PROVE FALSE
    OBVIOUS
<1>1. IsWellFoundedOn(Less, Nat)
    BY NatLessThanWellFounded DEF OpToRel
<1>2. \A x, y \in Bad : y < x => << y, x >> \in Less
    OBVIOUS
<1>3. Bad \in SUBSET Nat
    OBVIOUS
<1> HIDE DEF Less, Bad
<1>4. PICK x \in Bad : \A y \in Bad : ~ (<< y, x >> \in Less)
    BY <1>1, <1>3, WFMin
<1> USE DEF Bad
<1>5. x \in 1 .. n /\ x - 1 \notin T
    BY <1>4
<1>6. x - 1 \in Bad /\ x - 1 < x
    BY <1>5
<1> HIDE DEF Bad
<1> QED BY <1>2, <1>4, <1>6

LEMMA Least == \A n \in Nat : \A T \in SUBSET (0 .. n) : T # {} => \E i \in T : \A j \in T : i <= j
<1> SUFFICES ASSUME NEW n \in Nat, NEW T \in SUBSET (0 .. n), T # {},
                    ~ \E i \in T : \A j \in T : i <= j
             PROVE  FALSE
    OBVIOUS
<1> DEFINE None == {m \in 0 .. n : \A i \in 0 .. m : i \notin T}
<1>1. 0 \in None
    OBVIOUS
<1>2. ASSUME NEW m \in 1 .. n, m - 1 \in None PROVE m \in None
  <2>1. m \in T => \A j \in T : m <= j
      BY <1>2
  <2> QED BY <1>2, <2>1
<1> HIDE DEF None
<1>3. \A m \in 0 .. n : m \in None
    BY <1>1, <1>2, UpTo
<1>4. n \in None
    BY <1>3
<1> QED BY <1>4 DEF None

Steps(F, n, S) == \A i \in 1 .. n : \A x \in S : F[i][x] \in S
Path(g, first, F, n, S) == /\ \A i \in 0 .. n : g[i] \in S
                           /\ g = [i \in 0 .. n |-> IF i = 0 THEN first ELSE F[i][g[i - 1]]]

LEMMA Recursion ==
    ASSUME NEW n \in Nat, NEW S, NEW first \in S, NEW F, Steps(F, n, S)
    PROVE  \E g : Path(g, first, F, n, S)
<1> USE DEF Steps, Path
<1> DEFINE Is(g, m) == /\ \A i \in 0 .. m : g[i] \in S
                       /\ g = [i \in 0 .. m |-> IF i = 0 THEN first ELSE F[i][g[i - 1]]]
           T == {m \in 0 .. n : \E g : Is(g, m)}
<1>1. 0 \in T
  <2>1. Is([i \in 0 .. 0 |-> first], 0)
      OBVIOUS
  <2> HIDE DEF Is
  <2> QED BY <2>1
<1>2. ASSUME NEW m \in 1 .. n, m - 1 \in T PROVE m \in T
  <2>1. PICK g : Is(g, m - 1)
    <3> HIDE DEF Is
    <3> QED BY <1>2
  <2> DEFINE h == [i \in 0 .. m |-> IF i = m THEN F[m][g[m - 1]] ELSE g[i]]
  <2>2. \A i \in 0 .. m : h[i] \in S
      BY <2>1
  <2>3. \A i \in 0 .. m : h[i] = IF i = 0 THEN first ELSE F[i][h[i - 1]]
    <3> TAKE i \in 0 .. m
    <3>1. CASE i = m
        BY <3>1
    <3>2. CASE i # m /\ i # 0
      <4>1. i \in 1 .. m - 1 /\ i - 1 \in 0 .. m - 1 /\ i - 1 # m
          BY <3>2
      <4>2. g[i] = F[i][g[i - 1]]
          BY <4>1, <2>1
      <4> QED BY <4>1, <4>2, <3>2
    <3>3. CASE i = 0
        BY <3>3, <2>1
    <3> QED BY <3>1, <3>2, <3>3
  <2>4. h = [i \in 0 .. m |-> h[i]]
      OBVIOUS
  <2> HIDE DEF h
  <2>5. h = [i \in 0 .. m |-> IF i = 0 THEN first ELSE F[i][h[i - 1]]]
      BY <2>3, <2>4
  <2>6. Is(h, m)
      BY <2>2, <2>5
  <2> HIDE DEF Is
  <2> QED BY <2>6
<1> HIDE DEF T
<1>3. \A i \in 0 .. n : i \in T
    BY <1>1, <1>2, UpTo
<1>4. n \in T
    BY <1>3
<1> QED BY <1>4 DEF T

(* The weights of bits: powers of two.                                     *)
LEMMA WeightFacts ==
    /\ Bits \in Nat \ {0} /\ Weight[0] = 1
    /\ \A i \in 1 .. Bits : Weight[i] = 2 * Weight[i - 1]
    /\ \A i \in 0 .. Bits : Weight[i] \in Nat \ {0}
<1>1. Bits \in Nat \ {0}
    BY BitsAssumption DEF Bits
<1> DEFINE Is(g) == g = [i \in 0 .. Bits |-> IF i = 0 THEN 1 ELSE 2 * g[i - 1]]
           Numbers == Nat
           twice == [i \in 1 .. Bits |-> [x \in Numbers |-> 2 * x]]
<1>2. \E g : Is(g)
  <2>1. \A i \in 1 .. Bits : \A x \in Numbers : twice[i][x] = 2 * x /\ twice[i][x] \in Numbers
      OBVIOUS
  <2>2. Bits \in Nat /\ 1 \in Numbers
      BY <1>1
  <2> HIDE DEF twice, Numbers
  <2>3. PICK g : Path(g, 1, twice, Bits, Numbers)
    <3>1. Steps(twice, Bits, Numbers)
        BY <2>1 DEF Steps
    <3> QED BY <3>1, <2>2, Recursion
  <2>4. \A i \in 1 .. Bits : g[i - 1] \in Numbers
      BY <2>2, <2>3 DEF Path
  <2>5. \A i \in 1 .. Bits : twice[i][g[i - 1]] = 2 * g[i - 1]
      BY <2>1, <2>4
  <2>6. \A i \in 0 .. Bits : g[i] = IF i = 0 THEN 1 ELSE 2 * g[i - 1]
      BY <2>2, <2>3, <2>5 DEF Path
  <2>7. Is(g)
      BY <2>3, <2>6 DEF Path
  <2> QED BY <2>7
<1>3. Weight = CHOOSE g : Is(g)
    BY DEF Weight
<1> HIDE DEF Is
<1>4. Is(Weight)
    BY <1>2, <1>3
<1> USE DEF Is
<1>5. /\ Weight[0] = 1
      /\ \A i \in 1 .. Bits : Weight[i] = 2 * Weight[i - 1]
    BY <1>1, <1>4
<1> DEFINE T == {i \in 0 .. Bits : Weight[i] \in Nat \ {0}}
<1>6. 0 \in T /\ \A i \in 1 .. Bits : i - 1 \in T => i \in T
    BY <1>1, <1>5
<1>7. \A i \in 0 .. Bits : i \in T
  <2> HIDE DEF T
  <2> QED BY <1>1, <1>6, UpTo
<1> QED BY <1>1, <1>5, <1>7

LEMMA WeightsRise == \A j \in 0 .. Bits : \A i \in 0 .. j : /\ Weight[i] <= Weight[j]
                                                            /\ i < j => Weight[i] < Weight[j]
<1> DEFINE T == {j \in 0 .. Bits : \A i \in 0 .. j : /\ Weight[i] <= Weight[j]
                                                     /\ i < j => Weight[i] < Weight[j]}
<1>1. 0 \in T
    BY WeightFacts
<1>2. ASSUME NEW j \in 1 .. Bits, j - 1 \in T PROVE j \in T
  <2>1. Weight[j] = 2 * Weight[j - 1] /\ Weight[j - 1] \in Nat \ {0}
      BY WeightFacts
  <2>2. \A i \in 0 .. j : i # j => Weight[i] <= Weight[j - 1] /\ Weight[i] \in Nat
      BY <1>2, WeightFacts
  <2>3. \A i \in 0 .. j : i # j => Weight[i] < Weight[j]
      BY <2>1, <2>2
  <2>4. \A i \in 0 .. j : Weight[i] \in Nat /\ Weight[j] \in Nat
      BY WeightFacts
  <2>5. \A i \in 0 .. j : Weight[i] <= Weight[j] /\ (i < j => Weight[i] < Weight[j])
      BY <2>3, <2>4
  <2> QED BY <2>5
<1>3. \A j \in 0 .. Bits : j \in T
  <2> HIDE DEF T
  <2> QED BY <1>1, <1>2, WeightFacts, UpTo
<1> QED BY <1>3

(* The highest bit.                                                        *)
Highest == Weight[Bits - 1]

LEMMA HighestFacts == /\ Top = 2 * Highest /\ Highest \in Nat \ {0} /\ Top \in Nat
                      /\ Bits - 1 \in 0 .. Bits - 1
                      /\ Order \in Nat /\ Highest < Order /\ Order < Top
<1>1. Top = 2 * Highest /\ Highest \in Nat \ {0} /\ Top \in Nat /\ Bits - 1 \in 0 .. Bits - 1
    BY WeightFacts DEF Top, Highest
<1> QED BY <1>1, OrderAssumption DEF High

----------------------------------------------------------------------------
(* Flipping a lower bit leaves the highest one set, and flipping that one  *)
(* clears it.                                                              *)
LEMMA FlipLower ==
    ASSUME NEW k \in Highest .. Top - 1, NEW i \in 0 .. Bits - 2
    PROVE  XorOf(k, Weight[i]) \in Highest .. Top - 1
<1> DEFINE low == k - Highest
           w == Weight[i]
<1>1. low \in 0 .. Highest - 1 /\ w \in 0 .. Highest - 1 /\ Highest \in Strings
      /\ low \in Strings /\ w \in Strings
    BY HighestFacts, WeightFacts, WeightsRise DEF Highest, Strings
<1>2. XorOf(low, Highest) = k /\ XorOf(low, w) \in 0 .. Highest - 1
    BY <1>1, HighestFacts, WeightFacts, XorAssumption DEF Highest
<1>3. XorOf(XorOf(low, w), Highest) = XorOf(low, w) + Highest
    BY <1>2, HighestFacts, XorAssumption DEF Highest
<1> HIDE DEF low, w
<1>4. XorOf(k, w) = XorOf(XorOf(low, w), Highest)
    BY <1>1, <1>2, XorAssumption
<1>5. XorOf(k, w) \in Highest .. Top - 1
    BY <1>2, <1>3, <1>4, HighestFacts
<1> QED BY <1>5 DEF w

LEMMA FlipHighest ==
    ASSUME NEW k \in Highest .. Top - 1
    PROVE  XorOf(k, Highest) = k - Highest
<1> DEFINE low == k - Highest
<1>1. low \in 0 .. Highest - 1 /\ Highest \in Strings /\ low \in Strings
    BY HighestFacts DEF Strings
<1>2. XorOf(low, Highest) = k
    BY <1>1, HighestFacts, XorAssumption DEF Highest
<1> HIDE DEF low
<1>3. XorOf(XorOf(low, Highest), Highest) = low
    BY <1>1, XorAssumption
<1> QED BY <1>2, <1>3 DEF low

LEMMA XorStrings == \A a, b \in Strings : XorOf(a, b) \in Strings
BY XorAssumption, WeightFacts DEF Strings, Top

(* The bits that are flipped, and those of the first byte.                 *)
LEMMA BitFacts ==
    /\ \A idx \in 0 .. Bits - 1 : BitOf(idx) \in Strings
    /\ \A idx \in 0 .. ByteBits - 1 : BitOf(idx) = Weight[Bits - ByteBits + idx]
    /\ ByteBits \in 1 .. Bits
<1>1. ByteBits \in Nat \ {0} /\ NumBytes \in Nat \ {0} /\ Bits = ByteBits * NumBytes
    BY BitsAssumption DEF Bits
<1>2. ByteBits \in 1 .. Bits /\ Bits \in Nat
    BY <1>1
<1>3. ASSUME NEW idx \in 0 .. Bits - 1 PROVE BitOf(idx) \in Strings
  <2> DEFINE q == idx \div ByteBits
             r == idx % ByteBits
  <2>1. q \in Nat /\ r \in 0 .. ByteBits - 1 /\ idx = ByteBits * q + r
      BY <1>1, <1>2
  <2> HIDE DEF q, r
  <2>2. q <= NumBytes - 1
    <3> SUFFICES ASSUME q >= NumBytes PROVE FALSE
        BY <1>1, <2>1
    <3>1. ByteBits * q >= ByteBits * NumBytes
        BY <1>1, <2>1
    <3> QED BY <1>1, <1>2, <2>1, <3>1
  <2>3. ByteBits * (NumBytes - 1 - q) \in Nat
      BY <1>1, <2>1, <2>2
  <2>4. ByteBits * (NumBytes - 1 - q) = Bits - ByteBits - ByteBits * q
      BY <1>1, <2>1
  <2>5. ByteBits * q \in Nat
      BY <1>1, <2>1
  <2>6. ByteBits * (NumBytes - 1 - q) + r \in 0 .. Bits - 1
      BY <1>1, <1>2, <2>1, <2>3, <2>4, <2>5
  <2>7. Weight[ByteBits * (NumBytes - 1 - q) + r] \in Strings
      BY <2>6, <1>2, WeightFacts, WeightsRise DEF Strings, Top
  <2> QED BY <2>7 DEF BitOf, q, r
<1>4. ASSUME NEW idx \in 0 .. ByteBits - 1 PROVE BitOf(idx) = Weight[Bits - ByteBits + idx]
  <2>1. idx \div ByteBits = 0 /\ idx % ByteBits = idx
      BY <1>1
  <2>2. ByteBits * (NumBytes - 1 - 0) = Bits - ByteBits
      BY <1>1
  <2> QED BY <2>1, <2>2 DEF BitOf
<1> QED BY <1>2, <1>3, <1>4

LEMMA FlipsFacts ==
    ASSUME NEW k \in Strings
    PROVE  /\ Flips(k)[0] = k
           /\ \A i \in 1 .. Bits : Flips(k)[i] = XorOf(Flips(k)[i - 1], BitOf(i - 1))
           /\ \A i \in 0 .. Bits : Flips(k)[i] \in Strings
<1> DEFINE Is(g) == g = [i \in 0 .. Bits |-> IF i = 0 THEN k ELSE XorOf(g[i - 1], BitOf(i - 1))]
           flip == [i \in 1 .. Bits |-> [x \in Strings |-> XorOf(x, BitOf(i - 1))]]
<1>0. Bits \in Nat /\ \A i \in 1 .. Bits : i - 1 \in 0 .. Bits - 1
    BY WeightFacts
<1>1. \A i \in 1 .. Bits : \A x \in Strings :
          flip[i][x] = XorOf(x, BitOf(i - 1)) /\ flip[i][x] \in Strings
  <2>1. \A i \in 1 .. Bits : \A x \in Strings : XorOf(x, BitOf(i - 1)) \in Strings
      BY <1>0, BitFacts, XorStrings
  <2>2. \A i \in 1 .. Bits : \A x \in Strings : flip[i][x] = XorOf(x, BitOf(i - 1))
      OBVIOUS
  <2> HIDE DEF flip
  <2> QED BY <2>1, <2>2
<1> HIDE DEF flip
<1>2. \E g : Is(g)
  <2>1. PICK g : Path(g, k, flip, Bits, Strings)
    <3>1. Steps(flip, Bits, Strings)
        BY <1>1 DEF Steps
    <3> QED BY <3>1, <1>0, Recursion
  <2>2. \A i \in 1 .. Bits : i - 1 \in 0 .. Bits
      BY <1>0
  <2>3. \A i \in 1 .. Bits : flip[i][g[i - 1]] = XorOf(g[i - 1], BitOf(i - 1))
      BY <1>1, <2>1, <2>2 DEF Path
  <2>4. \A i \in 0 .. Bits : g[i] = IF i = 0 THEN k ELSE XorOf(g[i - 1], BitOf(i - 1))
      BY <1>0, <2>1, <2>3 DEF Path
  <2>5. Is(g)
      BY <2>1, <2>4 DEF Path
  <2> QED BY <2>5
<1>3. Flips(k) = CHOOSE g : Is(g)
    BY DEF Flips
<1> HIDE DEF Is
<1>4. Is(Flips(k))
    BY <1>2, <1>3
<1> USE DEF Is
<1>5. /\ Flips(k)[0] = k
      /\ \A i \in 1 .. Bits : Flips(k)[i] = XorOf(Flips(k)[i - 1], BitOf(i - 1))
    BY <1>0, <1>4
<1> DEFINE T == {i \in 0 .. Bits : Flips(k)[i] \in Strings}
<1>6. 0 \in T
    BY <1>0, <1>5
<1>7. ASSUME NEW i \in 1 .. Bits, i - 1 \in T PROVE i \in T
  <2>1. Flips(k)[i - 1] \in Strings /\ BitOf(i - 1) \in Strings
      BY <1>0, <1>7, BitFacts
  <2> QED BY <1>5, <2>1, XorStrings
<1>8. \A i \in 0 .. Bits : i \in T
  <2> HIDE DEF T
  <2> QED BY <1>0, <1>6, <1>7, UpTo
<1> QED BY <1>5, <1>8

(* From any string, one is reached that is a key.  Zero becomes one by the *)
(* first flip.  A string beyond the order keeps its highest bit until the  *)
(* end of the first byte; then it loses it, and is below the order.  It is *)
(* zero then only if it was a key before.                                  *)
LEMMA FlipsReachKey ==
    ASSUME NEW k \in Strings
    PROVE  \E i \in 0 .. Bits : Flips(k)[i] \in 1 .. Order - 1
<1> DEFINE at == Flips(k)
<1>0. /\ at[0] = k
      /\ \A i \in 1 .. Bits : at[i] = XorOf(at[i - 1], BitOf(i - 1))
      /\ \A i \in 0 .. Bits : at[i] \in Strings
    BY FlipsFacts
<1> HIDE DEF at
<1>1. Bits \in Nat \ {0} /\ ByteBits \in 1 .. Bits
    BY WeightFacts, BitFacts
<1>2. CASE k \in 1 .. Order - 1
    BY <1>0, <1>1, <1>2 DEF at
<1>3. CASE k = 0
  <2>1. at[1] = XorOf(0, Weight[Bits - ByteBits])
      BY <1>0, <1>1, <1>3, BitFacts
  <2>2. Weight[Bits - ByteBits] \in Nat \ {0} /\ Weight[Bits - ByteBits] <= Highest
    <3>1. Bits - ByteBits \in 0 .. Bits - 1 /\ Bits - 1 \in 0 .. Bits
        BY <1>1
    <3> QED BY <1>1, <3>1, WeightFacts, WeightsRise DEF Highest
  <2>3. Weight[Bits - ByteBits] \in Strings /\ 0 \in Strings
      BY <2>2, HighestFacts DEF Strings
  <2>4. XorOf(0, Weight[Bits - ByteBits]) = Weight[Bits - ByteBits]
      BY <2>3, XorAssumption
  <2>5. at[1] \in 1 .. Order - 1
      BY <2>1, <2>2, <2>4, HighestFacts
  <2> QED BY <1>1, <2>5 DEF at
<1>4. CASE k \in Order .. Top - 1
  <2> DEFINE T == {i \in 0 .. ByteBits - 1 : at[i] \in Highest .. Top - 1}
  <2>1. 0 \in T
      BY <1>0, <1>1, <1>4, HighestFacts
  <2>2. ASSUME NEW i \in 1 .. ByteBits - 1, i - 1 \in T PROVE i \in T
    <3>1. at[i] = XorOf(at[i - 1], Weight[Bits - ByteBits + (i - 1)])
        BY <1>0, <1>1, BitFacts
    <3>2. at[i - 1] \in Highest .. Top - 1 /\ Bits - ByteBits + (i - 1) \in 0 .. Bits - 2
        BY <1>1, <2>2
    <3>3. at[i] \in Highest .. Top - 1
        BY <3>1, <3>2, FlipLower
    <3> QED BY <3>3
  <2>3. \A i \in 0 .. ByteBits - 1 : i \in T
    <3> HIDE DEF T
    <3>1. ByteBits - 1 \in Nat
        BY <1>1
    <3> QED BY <2>1, <2>2, <3>1, UpTo
  <2>4. at[ByteBits - 1] \in Highest .. Top - 1
      BY <1>1, <2>3
  <2>5. at[ByteBits] = XorOf(at[ByteBits - 1], Highest)
    <3>1. BitOf(ByteBits - 1) = Weight[Bits - ByteBits + (ByteBits - 1)]
        BY <1>1, BitFacts
    <3>2. Bits - ByteBits + (ByteBits - 1) = Bits - 1
        BY <1>1
    <3> QED BY <1>0, <1>1, <3>1, <3>2 DEF Highest
  <2>6. at[ByteBits] = at[ByteBits - 1] - Highest
      BY <2>4, <2>5, FlipHighest
  <2>7. CASE at[ByteBits - 1] = Highest
      BY <1>1, <2>7, HighestFacts DEF at
  <2>8. CASE at[ByteBits - 1] # Highest
    <3>1. at[ByteBits] \in 1 .. Order - 1
        BY <2>4, <2>6, <2>8, HighestFacts
    <3> QED BY <1>1, <3>1 DEF at
  <2> QED BY <2>7, <2>8
<1>5. k = 0 \/ k \in 1 .. Order - 1 \/ k \in Order .. Top - 1
    BY HighestFacts DEF Strings
<1> QED BY <1>2, <1>3, <1>4, <1>5

----------------------------------------------------------------------------
(* Keys of the dummies: scalars but zero, as secret keys and, with their   *)
(* highest bit, as public ones.                                            *)
Scalars == 1 .. Order - 1
Pks == [k : Strings, odd : BOOLEAN]

LEMMA KeyFacts == /\ Scalars \subseteq Strings /\ FirstKey \in Scalars
                  /\ \A k \in Strings : CleanupPk(k) \in Pks /\ CleanupPk(k).k = k
BY HighestFacts, DummyAssumption DEF Scalars, Strings, CleanupPk, High, Pks

LEMMA NoFailure ==
    /\ \A k \in Strings : k # Error /\ k # Panics
    /\ \A pk \in Pks : pk # Error /\ pk # Panics
    /\ \A kp \in [sk : Strings, pk : Pks] : kp # Error /\ kp # Panics
BY DummyAssumption DEF Pks

(* The functions on secret keys give keys, or fail.                        *)
LEMMA Reduced == \A k, t \in 0 .. Order - 1 :
                     (k + t) % Order = IF k + t < Order THEN k + t ELSE k + t - Order
BY HighestFacts

LEMMA SeckeyFacts ==
    ASSUME NEW k \in Scalars, NEW t \in Strings
    PROVE  /\ SeckeyVerify(k) /\ SeckeyNegate(k) \in Scalars
           /\ SeckeyTweakAdd(k, t) \in Scalars \cup {Error}
           /\ SeckeyTweakAdd(k, t) # Error =>
                 t < Order /\ SeckeyTweakAdd(k, t) = IF k + t < Order THEN k + t ELSE k + t - Order
           /\ SeckeyTweakMul(k, t) \in Scalars \cup {Error}
<1>1. k \in 0 .. Order - 1 /\ Order \in Nat /\ t \in Nat
    BY HighestFacts DEF Scalars, Strings
<1>2. SeckeyVerify(k) /\ SeckeyNegate(k) \in Scalars
    BY <1>1 DEF SeckeyVerify, SeckeyNegate, Scalars
<1>3. CASE t < Order
  <2>1. (k + t) % Order = IF k + t < Order THEN k + t ELSE k + t - Order
      BY <1>1, <1>3, Reduced
  <2>2. (k + t) % Order = 0 \/ (k + t) % Order \in Scalars
      BY <1>1, <1>3, <2>1 DEF Scalars
  <2>3. t # 0 => (k * t) % Order \in Scalars
    <3> HAVE t # 0
    <3>1. (k * t) % Order # 0
        BY <1>1, <1>3, OrderAssumption DEF Scalars
    <3>2. k * t \in Nat
        BY <1>1
    <3>3. (k * t) % Order \in 0 .. Order - 1
        BY <1>1, <3>2, HighestFacts
    <3> QED BY <3>1, <3>3 DEF Scalars
  <2> QED BY <1>2, <1>3, <2>1, <2>2, <2>3 DEF SeckeyTweakAdd, SeckeyTweakMul
<1>4. CASE t >= Order
    BY <1>1, <1>2, <1>4 DEF SeckeyTweakAdd, SeckeyTweakMul
<1> QED BY <1>1, <1>3, <1>4

(* What the public functions make of the key of a secret key is the key of *)
(* what the secret ones make of it.                                        *)
LEMMA DummiesFollow ==
    ASSUME NEW k \in Scalars, NEW t \in Strings
    PROVE  LET sum == SeckeyTweakAdd(k, t)
               product == SeckeyTweakMul(k, t)
           IN  /\ EcPubkeyCreate(k) = CleanupPk(k)
               /\ KeypairCreate(k) = [sk |-> k, pk |-> CleanupPk(k)]
               /\ EcPubkeyNegate(CleanupPk(k)) = CleanupPk(SeckeyNegate(k))
               /\ EcPubkeyTweakAdd(CleanupPk(k), t) = Cleaned(sum)
               /\ EcPubkeyTweakMul(CleanupPk(k), t) = Cleaned(product)
BY SeckeyFacts, KeyFacts DEF EcPubkeyCreate, KeypairCreate, EcPubkeyNegate, EcPubkeyTweakAdd,
   EcPubkeyTweakMul

LEMMA MadeOf ==
    \A k \in Scalars : /\ CleanupPk(k) \in Pks /\ [sk |-> k, pk |-> CleanupPk(k)] \in [sk : Strings, pk : Pks]
                       /\ CleanupPk(k) # Error /\ CleanupPk(k) # Panics
                       /\ [sk |-> k, pk |-> CleanupPk(k)] # Error
                       /\ [sk |-> k, pk |-> CleanupPk(k)] # Panics
BY KeyFacts, NoFailure

----------------------------------------------------------------------------
(* The sums of secret keys, one after the other, as the dummies come by    *)
(* them and as the library does.                                           *)
LEMMA RunningSumsFacts ==
    ASSUME NEW k \in Scalars, NEW keys \in Seq(Scalars)
    PROVE  LET sums == RunningSums(k, keys)
           IN  /\ sums[0] = k
               /\ \A i \in 1 .. Len(keys) :
                     sums[i] = IF sums[i - 1] = Error THEN Error ELSE SeckeyTweakAdd(sums[i - 1], keys[i])
               /\ \A i \in 0 .. Len(keys) : sums[i] \in Scalars \cup {Error}
<1> DEFINE n == Len(keys)
           S == Scalars \cup {Error}
           Is(g) == g = [i \in 0 .. n |-> IF i = 0 THEN k
                             ELSE IF g[i - 1] = Error THEN Error ELSE SeckeyTweakAdd(g[i - 1], keys[i])]
           add == [i \in 1 .. n |-> [x \in S |-> IF x = Error THEN Error ELSE SeckeyTweakAdd(x, keys[i])]]
<1>1. n \in Nat /\ k \in S /\ \A i \in 1 .. n : keys[i] \in Scalars /\ i - 1 \in 0 .. n
    OBVIOUS
<1>2. \A i \in 1 .. n : \A x \in S :
          /\ add[i][x] = IF x = Error THEN Error ELSE SeckeyTweakAdd(x, keys[i])
          /\ add[i][x] \in S
  <2>1. \A i \in 1 .. n : \A x \in Scalars : SeckeyTweakAdd(x, keys[i]) \in S
      BY <1>1, KeyFacts, SeckeyFacts
  <2>2. \A i \in 1 .. n : \A x \in S :
            add[i][x] = IF x = Error THEN Error ELSE SeckeyTweakAdd(x, keys[i])
      OBVIOUS
  <2> HIDE DEF add
  <2> QED BY <2>1, <2>2
<1> HIDE DEF add, S
<1>3. PICK g : Path(g, k, add, n, S)
  <2>1. Steps(add, n, S)
      BY <1>2 DEF Steps
  <2> QED BY <2>1, <1>1, Recursion
<1>4. \A i \in 1 .. n : g[i - 1] \in S
    BY <1>1, <1>3 DEF Path
<1>5. \A i \in 1 .. n :
          add[i][g[i - 1]] = IF g[i - 1] = Error THEN Error ELSE SeckeyTweakAdd(g[i - 1], keys[i])
    BY <1>2, <1>4
<1>6. \A i \in 0 .. n : g[i] = IF i = 0 THEN k
          ELSE IF g[i - 1] = Error THEN Error ELSE SeckeyTweakAdd(g[i - 1], keys[i])
    BY <1>1, <1>3, <1>5 DEF Path
<1>7. g = [i \in 0 .. n |-> g[i]]
    BY <1>3 DEF Path
<1>8. Is(g)
    BY <1>6, <1>7
<1>9. RunningSums(k, keys) = CHOOSE h : Is(h)
    BY DEF RunningSums
<1> DEFINE sums == RunningSums(k, keys)
<1>10. Is(sums)
  <2> HIDE DEF Is
  <2> QED BY <1>8, <1>9
<1> HIDE DEF sums
<1>11. /\ sums[0] = k
       /\ \A i \in 1 .. n :
             sums[i] = IF sums[i - 1] = Error THEN Error ELSE SeckeyTweakAdd(sums[i - 1], keys[i])
    BY <1>1, <1>10
<1> HIDE DEF Is
<1> DEFINE T == {i \in 0 .. n : sums[i] \in S}
<1>12. 0 \in T
    BY <1>1, <1>11
<1>13. ASSUME NEW i \in 1 .. n, i - 1 \in T PROVE i \in T
  <2>1. sums[i - 1] \in S /\ i \in 0 .. n
      BY <1>13
  <2>2. sums[i] = add[i][sums[i - 1]]
      BY <1>2, <1>11, <2>1
  <2> QED BY <1>2, <2>1, <2>2
<1>14. \A i \in 0 .. n : i \in T
  <2> HIDE DEF T
  <2> QED BY <1>1, <1>12, <1>13, UpTo
<1> QED BY <1>11, <1>14 DEF sums, S

LEMMA TotalsFacts ==
    ASSUME NEW k \in Scalars, NEW keys \in Seq(Scalars)
    PROVE  LET sums == Totals(k, keys)
           IN  /\ sums[0] = k
               /\ \A i \in 1 .. Len(keys) : sums[i] = (sums[i - 1] + keys[i]) % Order
               /\ \A i \in 0 .. Len(keys) : sums[i] \in 0 .. Order - 1
<1> DEFINE n == Len(keys)
           S == 0 .. Order - 1
           Is(g) == g = [i \in 0 .. n |-> IF i = 0 THEN k ELSE (g[i - 1] + keys[i]) % Order]
           add == [i \in 1 .. n |-> [x \in S |-> (x + keys[i]) % Order]]
<1>1. n \in Nat /\ k \in S /\ \A i \in 1 .. n : keys[i] \in Scalars /\ i - 1 \in 0 .. n
    BY HighestFacts DEF Scalars
<1>2. \A i \in 1 .. n : \A x \in S : add[i][x] = (x + keys[i]) % Order /\ add[i][x] \in S
  <2>1. \A i \in 1 .. n : \A x \in S : (x + keys[i]) % Order \in S
      BY <1>1, HighestFacts DEF Scalars
  <2>2. \A i \in 1 .. n : \A x \in S : add[i][x] = (x + keys[i]) % Order
      OBVIOUS
  <2> HIDE DEF add
  <2> QED BY <2>1, <2>2
<1> HIDE DEF add, S
<1>3. PICK g : Path(g, k, add, n, S)
  <2>1. Steps(add, n, S)
      BY <1>2 DEF Steps
  <2> QED BY <2>1, <1>1, Recursion
<1>4. \A i \in 1 .. n : add[i][g[i - 1]] = (g[i - 1] + keys[i]) % Order
    BY <1>1, <1>2, <1>3 DEF Path
<1>5. \A i \in 0 .. n : g[i] = IF i = 0 THEN k ELSE (g[i - 1] + keys[i]) % Order
  <2>1. \A i \in 0 .. n : g[i] = IF i = 0 THEN k ELSE add[i][g[i - 1]]
      BY <1>3 DEF Path
  <2> TAKE i \in 0 .. n
  <2>2. CASE i = 0
      BY <2>1, <2>2
  <2>3. CASE i # 0
    <3>1. i \in 1 .. n
        BY <1>1, <2>3
    <3>2. g[i] = add[i][g[i - 1]]
        BY <2>1, <2>3
    <3> QED BY <1>4, <2>3, <3>1, <3>2
  <2> QED BY <2>2, <2>3
<1>6. g = [i \in 0 .. n |-> g[i]]
    BY <1>3 DEF Path
<1>7. Is(g)
    BY <1>5, <1>6
<1>8. Totals(k, keys) = CHOOSE h : Is(h)
    BY DEF Totals
<1> DEFINE sums == Totals(k, keys)
<1>9. Is(sums)
  <2> HIDE DEF Is
  <2> QED BY <1>7, <1>8
<1> HIDE DEF sums
<1>10. sums[0] = k /\ \A i \in 1 .. n : sums[i] = (sums[i - 1] + keys[i]) % Order
    BY <1>1, <1>9
<1> HIDE DEF Is
<1> DEFINE T == {i \in 0 .. n : sums[i] \in S}
<1>11. 0 \in T
    BY <1>1, <1>10
<1>12. ASSUME NEW i \in 1 .. n, i - 1 \in T PROVE i \in T
  <2>1. sums[i - 1] \in S /\ i \in 0 .. n
      BY <1>12
  <2>2. sums[i] = add[i][sums[i - 1]]
      BY <1>2, <1>10, <2>1
  <2> QED BY <1>2, <2>1, <2>2
<1>13. \A i \in 0 .. n : i \in T
  <2> HIDE DEF T
  <2> QED BY <1>1, <1>11, <1>12, UpTo
<1> QED BY <1>10, <1>13 DEF sums, S

(* The dummies fail from the first sum that is zero on.                    *)
LEMMA SumsAgree ==
    ASSUME NEW k \in Scalars, NEW keys \in Seq(Scalars)
    PROVE  \A i \in 0 .. Len(keys) :
               RunningSums(k, keys)[i] = IF \E j \in 1 .. i : Totals(k, keys)[j] = 0 THEN Error
                                         ELSE Totals(k, keys)[i]
<1> DEFINE n == Len(keys)
           sums == RunningSums(k, keys)
           totals == Totals(k, keys)
           Zero(i) == \E j \in 1 .. i : totals[j] = 0
           T == {i \in 0 .. n : sums[i] = IF Zero(i) THEN Error ELSE totals[i]}
<1>1. /\ n \in Nat /\ \A i \in 1 .. n : keys[i] \in Scalars
      /\ sums[0] = k
      /\ \A i \in 1 .. n : sums[i] = IF sums[i - 1] = Error THEN Error ELSE SeckeyTweakAdd(sums[i - 1], keys[i])
      /\ \A i \in 0 .. n : sums[i] \in Scalars \cup {Error}
    BY RunningSumsFacts
<1>2. /\ totals[0] = k
      /\ \A i \in 1 .. n : totals[i] = (totals[i - 1] + keys[i]) % Order
      /\ \A i \in 0 .. n : totals[i] \in 0 .. Order - 1
    BY TotalsFacts
<1> HIDE DEF n, sums, totals
<1>3. 0 \in T
    BY <1>1, <1>2
<1>4. ASSUME NEW i \in 1 .. n, i - 1 \in T PROVE i \in T
  <2>1. i - 1 \in 0 .. n /\ i \in 0 .. n
      BY <1>1
  <2>2. Zero(i) <=> Zero(i - 1) \/ totals[i] = 0
    <3>1. 1 .. i = (1 .. i - 1) \cup {i}
        BY <1>1
    <3> QED BY <3>1
  <2>3. sums[i - 1] = IF Zero(i - 1) THEN Error ELSE totals[i - 1]
      BY <1>4
  <2> HIDE DEF Zero
  <2>4. CASE Zero(i - 1)
      BY <1>1, <2>1, <2>2, <2>3, <2>4
  <2>5. CASE ~ Zero(i - 1)
    <3>1. sums[i - 1] = totals[i - 1] /\ totals[i - 1] # Error
      <4>1. 0 .. Order - 1 \subseteq Strings
          BY HighestFacts DEF Strings
      <4> QED BY <4>1, <1>2, <2>1, <2>3, <2>5, NoFailure
    <3>2. sums[i - 1] \in Scalars /\ keys[i] \in Scalars /\ keys[i] < Order /\ keys[i] \in Nat /\ Order \in Nat
        BY <1>1, <2>1, <3>1, HighestFacts DEF Scalars
    <3>3. sums[i] = SeckeyTweakAdd(totals[i - 1], keys[i]) /\ SeckeyVerify(totals[i - 1])
        BY <1>1, <3>1, <3>2 DEF SeckeyVerify, Scalars
    <3>4. sums[i] = IF totals[i] = 0 THEN Error ELSE totals[i]
        BY <1>2, <3>2, <3>3 DEF SeckeyTweakAdd
    <3> QED BY <2>1, <2>2, <2>5, <3>4
  <2> QED BY <2>4, <2>5
<1>5. \A i \in 0 .. n : i \in T
  <2> HIDE DEF T
  <2> QED BY <1>1, <1>3, <1>4, UpTo
<1> QED BY <1>5 DEF n, sums, totals

(* Combining public keys gives the key of the last sum, or fails with it.  *)
LEMMA CombineFollows ==
    ASSUME NEW k \in Scalars, NEW keys \in Seq(Scalars)
    PROVE  EcPubkeyCombine(<< CleanupPk(k) >> \o [i \in 1 .. Len(keys) |-> EcPubkeyCreate(keys[i])])
               = Cleaned(RunningSums(k, keys)[Len(keys)])
<1> DEFINE n == Len(keys)
           created == [i \in 1 .. n |-> EcPubkeyCreate(keys[i])]
           pks == << CleanupPk(k) >> \o created
           others == [i \in 1 .. Len(pks) - 1 |-> pks[i + 1].k]
           last == RunningSums(k, keys)[n]
<1>1. /\ n \in Nat /\ keys \in [1 .. n -> Scalars] /\ keys = [i \in 1 .. n |-> keys[i]]
      /\ \A i \in 1 .. n : keys[i] \in Scalars
    OBVIOUS
<1>2. \A i \in 1 .. n : created[i] = CleanupPk(keys[i]) /\ CleanupPk(keys[i]).k = keys[i]
  <2> TAKE i \in 1 .. n
  <2>1. keys[i] \in Scalars /\ keys[i] \in Strings
      BY <1>1, KeyFacts
  <2> QED BY <2>1, DummiesFollow, KeyFacts
<1>3. CleanupPk(k) \in Pks /\ CleanupPk(k).k = k /\ \A i \in 1 .. n : CleanupPk(keys[i]) \in Pks
    BY <1>1, KeyFacts
<1>4. created \in Seq(Pks) /\ Len(created) = n
  <2>1. created \in [1 .. n -> Pks]
      BY <1>2, <1>3
  <2> HIDE DEF created
  <2> QED BY <1>1, <2>1
<1> HIDE DEF created
<1>5. Len(pks) = n + 1 /\ pks[1] = CleanupPk(k) /\ \A i \in 1 .. n : pks[i + 1] = created[i]
    BY <1>1, <1>3, <1>4
<1> HIDE DEF n, pks
<1>6. others = keys
  <2>1. Len(pks) - 1 = n
      BY <1>1, <1>5
  <2>2. others = [i \in 1 .. n |-> keys[i]]
      BY <1>2, <1>5, <2>1
  <2> QED BY <1>1, <2>2
<1>7. \A i \in 1 .. n : PkValidate(pks[i + 1])
  <2> TAKE i \in 1 .. n
  <2>1. pks[i + 1].k = keys[i] /\ keys[i] \in Scalars
      BY <1>1, <1>2, <1>5
  <2> QED BY <2>1 DEF PkValidate, SeckeyVerify, Scalars
<1>8. last \in Scalars \cup {Error} /\ DOMAIN keys = 1 .. n /\ Len(keys) = n
    BY <1>1, RunningSumsFacts DEF n
<1>9. Cleaned(last) # Error => PkValidate(Cleaned(last))
    BY <1>8 DEF Cleaned, CleanupPk, PkValidate, SeckeyVerify, Scalars
<1>10. EcPubkeyCombine(pks) = Cleaned(last)
    BY <1>3, <1>5, <1>6, <1>7, <1>8, <1>9 DEF EcPubkeyCombine
<1> QED BY <1>10 DEF n, pks, created

(* The key pair is that of a scalar, and the others have its public key.   *)
DummyInv == \E k \in Scalars : /\ keypair = [sk |-> k, pk |-> CleanupPk(k)]
                               /\ view = CleanupPk(k)

(* A step that gives both sides what belongs to one scalar, or makes both  *)
(* fail, keeps them together.                                              *)
LEMMA BothFollow ==
    ASSUME DummyInv, NEW result, result \in Scalars \cup {Error},
           NEW kp, NEW pk, Both(kp, pk), pk = Cleaned(result),
           kp = FromSecret(result) \/ (result = Error /\ kp = Panics)
    PROVE  DummyInv'
<1>1. PICK k \in Scalars : keypair = [sk |-> k, pk |-> CleanupPk(k)] /\ view = CleanupPk(k)
    BY DEF DummyInv
<1>2. CASE result = Error
  <2>1. keypair' = keypair /\ view' = view
      BY <1>2 DEF Both, OrKept, Cleaned, FromSecret
  <2> QED BY <1>1, <2>1 DEF DummyInv
<1>3. CASE result \in Scalars /\ result # Error
  <2>1. kp = [sk |-> result, pk |-> CleanupPk(result)] /\ pk = CleanupPk(result)
      BY <1>3, DummiesFollow, KeyFacts DEF Cleaned, FromSecret
  <2>2. keypair' = kp /\ view' = pk
      BY <1>3, <2>1, MadeOf DEF Both, OrKept
  <2> QED BY <1>3, <2>1, <2>2 DEF DummyInv
<1> QED BY <1>2, <1>3

(* A key that is written and read again is the same.                       *)
LEMMA ParseBack ==
    ASSUME NEW k \in Scalars
    PROVE  /\ EcPubkeyParse(33, IF CleanupPk(k).odd THEN 3 ELSE 2, k) = CleanupPk(k)
           /\ EcPubkeyParse(65, 4, k) = CleanupPk(k)
<1>1. SeckeyVerify(k) /\ PkValidate(CleanupPk(k))
    BY DEF PkValidate, SeckeyVerify, Scalars, CleanupPk
<1>2. EcPubkeyParse(65, 4, k) = CleanupPk(k)
    BY <1>1 DEF EcPubkeyParse
<1>3. CASE High(k) = TRUE
  <2>1. CleanupPk(k) = [k |-> k, odd |-> TRUE] /\ CleanupPk(k).odd = TRUE
      BY <1>3 DEF CleanupPk
  <2>2. EcPubkeyParse(33, 3, k) = [k |-> k, odd |-> 3 = 3]
      BY <1>1 DEF EcPubkeyParse, PkValidate
  <2>3. [k |-> k, odd |-> 3 = 3] = [k |-> k, odd |-> TRUE]
      BY Zenon
  <2> QED BY <1>2, <2>1, <2>2, <2>3
<1>4. CASE High(k) = FALSE
  <2>1. CleanupPk(k) = [k |-> k, odd |-> FALSE] /\ CleanupPk(k).odd = FALSE
      BY <1>4 DEF CleanupPk
  <2>2. EcPubkeyParse(33, 2, k) = [k |-> k, odd |-> 2 = 3]
      BY <1>1 DEF EcPubkeyParse, PkValidate
  <2>3. [k |-> k, odd |-> 2 = 3] = [k |-> k, odd |-> FALSE]
    <3>1. (2 = 3) = FALSE
        OBVIOUS
    <3> QED BY <3>1, Zenon
  <2> QED BY <1>2, <2>1, <2>2, <2>3
<1>5. High(k) \in BOOLEAN
    BY DEF High
<1> QED BY <1>2, <1>3, <1>4, <1>5

LEMMA DummyStep == DummyInv /\ [FuzzNext]_<< vars, dummyVars >> => DummyInv'
<1> SUFFICES ASSUME DummyInv, [FuzzNext]_<< vars, dummyVars >> PROVE DummyInv'
    OBVIOUS
<1>0. PICK k \in Scalars : keypair = [sk |-> k, pk |-> CleanupPk(k)] /\ view = CleanupPk(k)
    BY DEF DummyInv
<1>1. CASE UNCHANGED dummyVars
    BY <1>1 DEF DummyInv, dummyVars
<1>2. CASE AddTweak
  <2>1. PICK t \in Tweaks : Both(FromSecret(SeckeyTweakAdd(keypair.sk, t)), EcPubkeyTweakAdd(view, t))
      BY <1>2 DEF AddTweak
  <2>2. t \in Strings
      BY DummyAssumption
  <2> QED BY <1>0, <2>1, <2>2, SeckeyFacts, DummiesFollow, BothFollow
<1>3. CASE MulTweak
  <2>1. PICK t \in Tweaks : Both(FromSecret(SeckeyTweakMul(keypair.sk, t)), EcPubkeyTweakMul(view, t))
      BY <1>3 DEF MulTweak
  <2>2. t \in Strings
      BY DummyAssumption
  <2> QED BY <1>0, <2>1, <2>2, SeckeyFacts, DummiesFollow, BothFollow
<1>4. CASE Negate
  <2>1. 0 \in Strings
      BY HighestFacts DEF Strings
  <2>2. SeckeyNegate(k) \in Scalars /\ SeckeyNegate(k) # Error
      BY <2>1, SeckeyFacts, KeyFacts, NoFailure
  <2>3. Both(FromSecret(SeckeyNegate(k)), Cleaned(SeckeyNegate(k)))
      BY <1>0, <1>4, <2>1, <2>2, DummiesFollow DEF Negate, FromSecret, Cleaned
  <2> QED BY <2>2, <2>3, BothFollow
<1>5. CASE AddKey
  <2>1. PICK keys \in KeyLists :
            Both(FromSecret(RunningSums(keypair.sk, keys)[Len(keys)]), Combined(keys))
      BY <1>5 DEF AddKey
  <2>2. keys \in Seq(Scalars)
      BY DummyAssumption DEF Scalars
  <2> DEFINE last == RunningSums(k, keys)[Len(keys)]
  <2>3. last \in Scalars \cup {Error}
      BY <2>2, RunningSumsFacts
  <2>4. Combined(keys) = Cleaned(last)
      BY <1>0, <2>2, CombineFollows DEF Combined
  <2> HIDE DEF last
  <2>5. Both(FromSecret(last), Combined(keys))
      BY <1>0, <2>1 DEF last
  <2> QED BY <2>3, <2>4, <2>5, BothFollow
<1>6. CASE AddXonlyTweak
  <2>1. PICK t \in Tweaks : Both(KeypairXonlyTweakAdd(keypair, t),
                                 XonlyPubkeyTweakAdd(XonlyPubkeyFromPubkey(view).key, t))
      BY <1>6 DEF AddXonlyTweak
  <2>2. t \in Strings
      BY DummyAssumption
  <2> DEFINE sum == SeckeyTweakAdd(k, t)
  <2>3. sum \in Scalars \cup {Error} /\ EcPubkeyTweakAdd(CleanupPk(k), t) = Cleaned(sum)
      BY <2>2, SeckeyFacts, DummiesFollow
  <2>4. XonlyPubkeyTweakAdd(XonlyPubkeyFromPubkey(view).key, t) = Cleaned(sum)
      BY <1>0, <2>3 DEF XonlyPubkeyTweakAdd, XonlyPubkeyFromPubkey
  <2>5. KeypairXonlyTweakAdd(keypair, t) = IF sum = Error THEN Panics ELSE FromSecret(sum)
    <3> HIDE DEF sum
    <3>1. keypair.pk = CleanupPk(k) /\ keypair.sk = k
        BY <1>0
    <3>2. CASE sum = Error
        BY <2>3, <3>1, <3>2 DEF KeypairXonlyTweakAdd, Cleaned, sum
    <3>3. CASE sum \in Scalars /\ sum # Error
      <4>1. Cleaned(sum) = CleanupPk(sum) /\ Cleaned(sum) # Error
          BY <3>3, MadeOf DEF Cleaned
      <4>2. FromSecret(sum) = [sk |-> sum, pk |-> CleanupPk(sum)]
          BY <3>3, <2>2, DummiesFollow DEF FromSecret
      <4> QED BY <2>3, <3>1, <3>3, <4>1, <4>2 DEF KeypairXonlyTweakAdd, sum
    <3> QED BY <2>3, <3>2, <3>3
  <2> HIDE DEF sum
  <2>6. KeypairXonlyTweakAdd(keypair, t) = FromSecret(sum)
        \/ (sum = Error /\ KeypairXonlyTweakAdd(keypair, t) = Panics)
      BY <2>5
  <2> QED BY <2>1, <2>3, <2>4, <2>6, BothFollow
<1>7. CASE Resend
  <2>1. PICK compressed \in BOOLEAN :
            LET ser == EcPubkeySerialize(view, compressed)
            IN  Both(keypair, EcPubkeyParse(ser[1], ser[2], ser[3]))
      BY <1>7 DEF Resend
  <2>2. view.k = k
      BY <1>0 DEF CleanupPk
  <2>3. Both(keypair, view)
    <3>1. CASE compressed = TRUE
        BY <1>0, <2>1, <2>2, <3>1, ParseBack DEF EcPubkeySerialize
    <3>2. CASE compressed = FALSE
        BY <1>0, <2>1, <2>2, <3>2, ParseBack DEF EcPubkeySerialize
    <3> QED BY <3>1, <3>2
  <2>4. keypair' = keypair /\ view' = view
      BY <1>0, <2>3 DEF Both, OrKept
  <2> QED BY <1>0, <2>4 DEF DummyInv
<1> QED BY <1>1, <1>2, <1>3, <1>4, <1>5, <1>6, <1>7 DEF FuzzNext, dummyVars

LEMMA DummyStarts == FuzzInit => DummyInv
<1> HAVE FuzzInit
<1>1. 0 \in Strings /\ FirstKey \in Scalars
    BY HighestFacts, KeyFacts DEF Strings
<1> QED BY <1>1, DummiesFollow DEF FuzzInit, DummyInit, DummyInv

(* The functions on keys leave the flag alone.                             *)
LEMMA FuzzKeepsFlag == FuzzNext => [Next]_vars
BY DEF FuzzNext, Next, AddTweak, MulTweak, Negate, AddKey, AddXonlyTweak, Resend, Both

LEMMA FuzzInvariant == FuzzSpec => [](IInv /\ DummyInv)
<1>1. FuzzInit => IInv /\ DummyInv
    BY InitInv, DummyStarts DEF FuzzInit
<1>2. IInv /\ DummyInv /\ [FuzzNext]_<< vars, dummyVars >> => IInv' /\ DummyInv'
  <2>1. [FuzzNext]_<< vars, dummyVars >> => [Next]_vars
      BY FuzzKeepsFlag
  <2> QED BY <2>1, StepInv, DummyStep
<1> QED BY <1>1, <1>2, PTL DEF FuzzSpec

----------------------------------------------------------------------------
(* What is signed for a message is recovered for every message, and gives  *)
(* the signer's key for that one.                                          *)
LEMMA Recovers ==
    ASSUME NEW k \in Scalars, NEW m \in Strings, NEW m2 \in Strings
    PROVE  LET sig == EcdsaSignRecoverable(m, k)
           IN  /\ EcdsaRecover(sig, m2) # Error /\ EcdsaRecover(sig, m2) # Panics
               /\ EcdsaRecover(sig, m) = CleanupPk(k)
<1> DEFINE tag == IF CleanupPk(k).odd THEN 3 ELSE 2
           parsed(x) == EcPubkeyParse(33, tag, x)
<1>1. EcdsaSignRecoverable(m, k) = [m |-> m, k |-> k, id |-> tag - 2]
  <2>1. EcPubkeyCreate(k) = CleanupPk(k) /\ CleanupPk(k).k = k
      BY DummiesFollow, KeyFacts
  <2> QED BY <2>1 DEF EcdsaSignRecoverable, EcPubkeySerialize
<1>2. tag \in {2, 3} /\ tag - 2 < 4 /\ tag - 2 + 2 = tag
    OBVIOUS
<1>3. \A x \in Strings : /\ parsed(x) # Error <=> x \in Scalars
                         /\ parsed(x) # Panics \/ parsed(x) = Error
                         /\ parsed(x) # Error => parsed(x) \in Pks
  <2> TAKE x \in Strings
  <2> DEFINE pk == [k |-> x, odd |-> tag = 3]
  <2>1. pk \in Pks /\ (PkValidate(pk) <=> x \in Scalars)
      BY DEF Pks, PkValidate, SeckeyVerify, Scalars
  <2>2. parsed(x) = IF PkValidate(pk) THEN pk ELSE Error
      BY <1>2 DEF EcPubkeyParse
  <2> HIDE DEF pk
  <2> QED BY <2>1, <2>2, NoFailure
<1>4. parsed(k) = CleanupPk(k)
    BY ParseBack
<1> HIDE DEF tag
<1> DEFINE Recovered(x) == FlipUntilKey(tag, x)
<1>5. ASSUME NEW x \in Strings
      PROVE  /\ Recovered(x) # Error /\ Recovered(x) # Panics
             /\ x \in Scalars => Recovered(x) = parsed(x)
  <2> DEFINE valid == {i \in 0 .. Bits : parsed(Flips(x)[i]) # Error}
             least == CHOOSE i \in valid : \A j \in valid : i <= j
  <2>1. /\ Bits \in Nat /\ Flips(x)[0] = x
        /\ \A i \in 0 .. Bits : Flips(x)[i] \in Strings
      BY WeightFacts, FlipsFacts
  <2>2. valid # {}
      BY <1>3, <2>1, FlipsReachKey DEF Scalars
  <2>3. Recovered(x) = parsed(Flips(x)[least])
      BY <2>2 DEF FlipUntilKey
  <2>4. least \in valid /\ \A j \in valid : least <= j
    <3>1. \E i \in valid : \A j \in valid : i <= j
        BY <2>1, <2>2, Least
    <3> QED BY <3>1
  <2>5. x \in Scalars => least = 0
    <3> HAVE x \in Scalars
    <3>1. 0 \in valid
        BY <1>3, <2>1
    <3> QED BY <2>1, <2>4, <3>1
  <2>6. parsed(Flips(x)[least]) # Error /\ Flips(x)[least] \in Strings
      BY <2>1, <2>4
  <2> QED BY <1>3, <2>1, <2>3, <2>5, <2>6
<1>6. k \in Strings /\ XorOf(m, m) = 0 /\ XorOf(k, 0) = k /\ XorOf(k, XorOf(m, m2)) \in Strings
    BY KeyFacts, XorStrings, XorAssumption
<1>7. ASSUME NEW n \in Strings
      PROVE  EcdsaRecover([m |-> m, k |-> k, id |-> tag - 2], n) = Recovered(XorOf(k, XorOf(m, n)))
    BY <1>2, <1>3, <1>6 DEF EcdsaRecover
<1> HIDE DEF Recovered
<1> QED BY <1>1, <1>4, <1>5, <1>6, <1>7

(* Different tweaks of the same key give different keys.                   *)
LEMMA TweaksDiffer ==
    ASSUME NEW k \in Scalars, NEW t \in Strings, NEW t2 \in Strings,
           SeckeyTweakAdd(k, t) # Error, SeckeyTweakAdd(k, t2) # Error
    PROVE  /\ SeckeyTweakAdd(k, t2) = SeckeyTweakAdd(k, t) <=> t2 = t
           /\ t % Order = t /\ t2 % Order = t2
<1>1. /\ t < Order /\ SeckeyTweakAdd(k, t) = IF k + t < Order THEN k + t ELSE k + t - Order
      /\ t2 < Order /\ SeckeyTweakAdd(k, t2) = IF k + t2 < Order THEN k + t2 ELSE k + t2 - Order
    BY SeckeyFacts
<1>2. k \in 1 .. Order - 1 /\ t \in 0 .. Order - 1 /\ t2 \in 0 .. Order - 1 /\ Order \in Nat
    BY <1>1, HighestFacts DEF Scalars, Strings
<1>3. t % Order = t /\ t2 % Order = t2
    BY <1>2
<1> QED BY <1>1, <1>2, <1>3

(* What the invariant is worth: the dummies keep their promises.           *)
LEMMA DummyInvKeeps == DummyInv => DummiesKeepPromises
<1> SUFFICES ASSUME NEW k \in Scalars, keypair = [sk |-> k, pk |-> CleanupPk(k)],
                    view = CleanupPk(k)
             PROVE  DummiesKeepPromises
    BY DEF DummyInv
<1> DEFINE x == XonlyPubkeyFromPubkey(view).key
<1>1. /\ k \in Strings /\ 0 \in Strings /\ CleanupPk(k) \in Pks /\ CleanupPk(k).k = k
      /\ EcPubkeyCreate(k) = CleanupPk(k) /\ KeypairCreate(k) = keypair /\ SeckeyVerify(k)
  <2>1. 0 \in Strings
      BY HighestFacts DEF Strings
  <2> QED BY <2>1, KeyFacts, DummiesFollow, SeckeyFacts
<1>2. keypair.sk = k /\ keypair.pk = view /\ view.k = k /\ x = view
    BY <1>1 DEF XonlyPubkeyFromPubkey
<1>3. ASSUME NEW m \in MessageHashes, NEW m2 \in MessageHashes
      PROVE  LET recoverable == EcdsaSignRecoverable(m, keypair.sk)
             IN  /\ EcdsaVerify(EcdsaSign(m, keypair.sk), m2, view) <=> m = m2
                 /\ EcdsaRecover(recoverable, m2) \notin {Error, Panics}
                 /\ EcdsaRecover(recoverable, m) = view
  <2>1. m \in Strings /\ m2 \in Strings
      BY DummyAssumption
  <2>2. EcdsaVerify(EcdsaSign(m, keypair.sk), m2, view) <=> m = m2
      BY <1>1, <1>2 DEF EcdsaVerify, EcdsaSign
  <2> QED BY <1>2, <2>1, <2>2, Recovers
<1>4. \A sk \in 1 .. Order - 1 : Ecdh(view, sk) = Ecdh(EcPubkeyCreate(sk), keypair.sk)
  <2> TAKE sk \in 1 .. Order - 1
  <2>1. sk \in Strings /\ SeckeyVerify(sk) /\ EcPubkeyCreate(sk).k = sk
      BY KeyFacts, DummiesFollow, SeckeyFacts, <1>1 DEF Scalars
  <2>2. XorOf(sk, k) = XorOf(k, sk)
      BY <1>1, <2>1, XorAssumption
  <2> QED BY <1>1, <1>2, <2>1, <2>2 DEF Ecdh
<1>5. XonlyPubkeyParse(XonlyPubkeySerialize(x)) = KeypairXonlyPub(keypair).key
  <2>1. PkValidate(CleanupPk(k))
      BY <1>1 DEF PkValidate
  <2> QED BY <1>2, <2>1 DEF XonlyPubkeyParse, XonlyPubkeySerialize, KeypairXonlyPub
<1> HIDE DEF x
<1>6. ASSUME NEW t \in Tweaks, XonlyPubkeyTweakAdd(x, t) # Error
      PROVE  LET after == XonlyPubkeyFromPubkey(XonlyPubkeyTweakAdd(x, t))
             IN  /\ after = KeypairXonlyPub(KeypairXonlyTweakAdd(keypair, t))
                 /\ \A t2 \in Tweaks : XonlyPubkeyTweakAdd(x, t2) # Error =>
                       XonlyPubkeyTweakAddCheck(after.key.k, after.parity, x, t2)
                           <=> t2 % Order = t % Order
  <2>1. \A u \in Tweaks : u \in Strings /\ XonlyPubkeyTweakAdd(x, u) = Cleaned(SeckeyTweakAdd(k, u))
                                        /\ EcPubkeyTweakAdd(keypair.pk, u) = Cleaned(SeckeyTweakAdd(k, u))
    <3> TAKE u \in Tweaks
    <3>1. u \in Strings
        BY DummyAssumption
    <3> QED BY <1>2, <3>1, DummiesFollow DEF XonlyPubkeyTweakAdd
  <2>2. \A u \in Tweaks : XonlyPubkeyTweakAdd(x, u) # Error =>
            /\ SeckeyTweakAdd(k, u) \in Scalars /\ SeckeyTweakAdd(k, u) # Error
            /\ XonlyPubkeyTweakAdd(x, u) = CleanupPk(SeckeyTweakAdd(k, u))
      BY <2>1, SeckeyFacts DEF Cleaned
  <2> DEFINE sum == SeckeyTweakAdd(k, t)
             after == XonlyPubkeyFromPubkey(CleanupPk(sum))
  <2>3. XonlyPubkeyTweakAdd(x, t) = CleanupPk(sum) /\ sum \in Scalars /\ sum # Error
      BY <1>6, <2>2
  <2>4. KeypairXonlyTweakAdd(keypair, t) = [sk |-> sum, pk |-> CleanupPk(sum)]
      BY <1>2, <2>1, <2>3, MadeOf DEF KeypairXonlyTweakAdd
  <2>5. after = KeypairXonlyPub(KeypairXonlyTweakAdd(keypair, t))
      BY <2>4 DEF KeypairXonlyPub, XonlyPubkeyFromPubkey
  <2>6. ASSUME NEW t2 \in Tweaks, XonlyPubkeyTweakAdd(x, t2) # Error
        PROVE  XonlyPubkeyTweakAddCheck(after.key.k, after.parity, x, t2)
                   <=> t2 % Order = t % Order
    <3> DEFINE sum2 == SeckeyTweakAdd(k, t2)
    <3>1. XonlyPubkeyTweakAdd(x, t2) = CleanupPk(sum2) /\ sum2 \in Scalars /\ sum2 # Error
        BY <2>2, <2>6
    <3>2. t \in Strings /\ t2 \in Strings
        BY <2>1
    <3>3. (sum2 = sum <=> t2 = t) /\ t % Order = t /\ t2 % Order = t2
        BY <2>3, <3>1, <3>2, TweaksDiffer
    <3> HIDE DEF sum, sum2
    <3>4. after.key.k = sum /\ after.parity = ~ CleanupPk(sum).odd /\ CleanupPk(sum2).k = sum2
        BY DEF XonlyPubkeyFromPubkey, CleanupPk
    <3>5. CleanupPk(sum2) # Error
        BY <3>1, MadeOf
    <3>6. XonlyPubkeyTweakAddCheck(after.key.k, after.parity, x, t2)
              <=> sum2 = sum /\ (~ CleanupPk(sum).odd) = (~ CleanupPk(sum2).odd)
        BY <3>1, <3>4, <3>5 DEF XonlyPubkeyTweakAddCheck
    <3> QED BY <3>3, <3>6
  <2> QED BY <2>3, <2>5, <2>6
<1>7. ASSUME NEW m \in SchnorrMessages, NEW m2 \in SchnorrMessages, NEW read \in Reads(m)
      PROVE  LET sig == SchnorrsigSign(m, keypair, read)
                 Verified(n) == SchnorrsigVerify(sig, n, x) = TRUE
             IN  IF m.len = NumBytes THEN Verified(m2) <=> m2 = m ELSE ~ Verified(m)
  <2> DEFINE sig == SchnorrsigSign(m, keypair, read)
             Verified(n) == SchnorrsigVerify(sig, n, x) = TRUE
  <2>1. /\ \A n \in {m, m2} : n = [len |-> n.len, first |-> n.first] /\ n.len \in Nat
        /\ NumBytes \in Nat \ {0} /\ Panics # TRUE
    <3>1. NumBytes \in Nat \ {0} /\ SchnorrMessages \subseteq [len : Nat, first : Strings]
        BY BitsAssumption, DummyAssumption
    <3>2. Panics # TRUE
      <4>1. TRUE \notin {Error, Panics}
          BY DummyAssumption
      <4> QED BY <4>1, Zenon
    <3> QED BY <3>1, <3>2
  <2>2. PkValidate(x) /\ x.k = k
      BY <1>1, <1>2 DEF x, PkValidate
  <2>3. ASSUME NEW n \in {m, m2}
        PROVE  Verified(n) <=> n.len # 0 /\ n.len = NumBytes /\ sig = << n.first, k >>
    <3>1. CASE n.len = 0
        BY <2>1, <3>1, Zenon DEF SchnorrsigVerify
    <3>2. CASE n.len # 0
      <4>1. SchnorrsigVerify(sig, n, x) = (n.len = NumBytes /\ sig = << n.first, x.k >>)
          BY <2>2, <3>2 DEF SchnorrsigVerify
      <4> HIDE DEF sig
      <4> QED BY <2>2, <3>2, <4>1, Zenon
    <3> QED BY <3>1, <3>2
  <2>4. CASE m.len = NumBytes
    <3>1. read = m.first
        BY <2>1, <2>4 DEF Reads
    <3>2. sig = << m.first, k >>
        BY <1>1, <1>2, <2>1, <2>4, <3>1 DEF SchnorrsigSign
    <3> HIDE DEF sig, Verified
    <3>3. Verified(m2) <=> m2.len = NumBytes /\ m2.first = m.first
        BY <2>1, <2>3, <3>2
    <3>4. m2 = m <=> m2.len = m.len /\ m2.first = m.first
        BY <2>1
    <3>5. Verified(m2) <=> m2 = m
        BY <2>4, <3>3, <3>4
    <3> QED BY <2>4, <3>5 DEF sig, Verified
  <2>5. CASE m.len # NumBytes
    <3>1. ~ Verified(m)
      <4> HIDE DEF sig, Verified
      <4> QED BY <2>3, <2>5
    <3> QED BY <2>5, <3>1
  <2> QED BY <2>4, <2>5
<1>8. ASSUME NEW keys \in KeyLists
      PROVE  LET totals == Totals(keypair.sk, keys)
             IN  Combined(keys) = IF \E i \in 1 .. Len(keys) : totals[i] = 0 THEN Error
                                  ELSE EcPubkeyCreate(totals[Len(keys)])
  <2> DEFINE n == Len(keys)
             totals == Totals(k, keys)
             last == RunningSums(k, keys)[n]
  <2>1. keys \in Seq(Scalars) /\ n \in Nat /\ n \in 0 .. n
      BY DummyAssumption DEF Scalars
  <2>2. Combined(keys) = Cleaned(last) /\ last \in Scalars \cup {Error}
      BY <1>2, <2>1, CombineFollows, RunningSumsFacts DEF Combined
  <2>3. last = IF \E i \in 1 .. n : totals[i] = 0 THEN Error ELSE totals[n]
      BY <2>1, SumsAgree
  <2> HIDE DEF n, totals, last
  <2>4. Combined(keys) = IF \E i \in 1 .. n : totals[i] = 0 THEN Error ELSE EcPubkeyCreate(totals[n])
    <3>1. CASE \E i \in 1 .. n : totals[i] = 0
        BY <2>2, <2>3, <3>1 DEF Cleaned
    <3>2. CASE ~ \E i \in 1 .. n : totals[i] = 0
      <4>1. last = totals[n] /\ totals[n] \in 0 .. Order - 1
        <5>1. totals[n] \in 0 .. Order - 1
            BY <2>1, TotalsFacts DEF n, totals
        <5> QED BY <2>3, <3>2, <5>1
      <4>2. last # Error /\ last \in Scalars /\ last \in Strings
        <5>1. 0 .. Order - 1 \subseteq Strings
            BY HighestFacts DEF Strings
        <5> QED BY <2>2, <4>1, <5>1, NoFailure
      <4>3. EcPubkeyCreate(last) = CleanupPk(last)
          BY <4>2, DummiesFollow
      <4> QED BY <2>2, <3>2, <4>1, <4>2, <4>3 DEF Cleaned
    <3> QED BY <3>1, <3>2
  <2> QED BY <1>2, <2>4 DEF n, totals
<1> QED BY <1>1, <1>2, <1>3, <1>4, <1>5, <1>6, <1>7, <1>8 DEF DummiesKeepPromises, x

(* Programs that only use what the library promises cannot tell the        *)
(* dummies from it, whatever they have done to their keys                  *)
(* (secp256k1-sys lib.rs, mod fuzz_dummy; recovery.rs:155-237).            *)
THEOREM DummiesBehave == FuzzSpec => []DummiesKeepPromises
BY FuzzInvariant, DummyInvKeeps, PTL

(* The functions on keys do not disturb the flag.                          *)
THEOREM FlagStaysSafe == FuzzSpec => [](SingleBuilder /\ AssertionsHold /\ CopiesBuilt)
<1>1. IInv => SingleBuilder /\ AssertionsHold /\ CopiesBuilt
    BY DEF IInv, SingleBuilder, Builds, CopiesBuilt
<1> QED BY <1>1, FuzzInvariant, PTL
=============================================================================
