------------------------------- MODULE Ecmult -------------------------------
(***************************************************************************)
(* Multiplication of points by scalars in variable time: ecmult_impl.h,    *)
(* with the endomorphism and the splitting of scalars of scalar_impl.h.    *)
(* A scalar is a number below N.  Where the code has 256 bits of a scalar  *)
(* and 128 of its halves, there are 2 * Half and Half.  An absent factor   *)
(* of the generator (NULL) is zero.                                        *)
(***************************************************************************)
EXTENDS Group

CONSTANTS N,                          \* the order of the group
          GX, GY,                     \* the generator
          Half,
          Lambda, G1, G2, MinusB1, MinusB2, Shift, K1Bound, K2Bound,
          WindowA, WindowG, PippengerThreshold

ASSUME OrderAssumption == N \in Nat /\ N % 2 = 1 /\ N < 2 ^ (2 * Half) /\ 2 ^ Half < N

G == Ge(FeSetInt(GX), FeSetInt(GY))

GetBits(k, i, count) == (k \div 2 ^ i) % 2 ^ count
ScalarNegate(k) == (N - k) % N
ScalarHalf(k) == (IF k % 2 = 0 THEN k ELSE k + N) \div 2
ScalarIsHigh(k) == k > (N - 1) \div 2

(* k as r1 + r2 * Lambda, with both of them or their negations small.      *)
MulShift(k, g) == (k * g + 2 ^ (Shift - 1)) \div 2 ^ Shift
SplitLambda(k) ==
    LET r2 == (MulShift(k, G1) * MinusB1 + MulShift(k, G2) * MinusB2) % N
    IN  [r1 |-> (ScalarNegate((r2 * Lambda) % N) + k) % N, r2 |-> r2]

(* What a test build verifies of the halves, from the bounds of a proof.   *)
SplitLambdaVerify(k, r1, r2) ==
    LET within(r, bound) == r < bound \/ ScalarNegate(r) < bound
    IN  (Lambda * r2 + r1) % N = k /\ within(r1, K1Bound) /\ within(r2, K2Bound)

----------------------------------------------------------------------------
(* Signed digits.                                                          *)

(* The digits of a in windows of w bits, of which the nonzero ones are odd *)
(* and at least w apart.                                                   *)
Wnaf(a, len, w) ==
    LET negated == GetBits(a, 2 * Half - 1, 1) = 1
        s == IF negated THEN ScalarNegate(a) ELSE a
        now(i) == IF w > len - i THEN len - i ELSE w
        nonzero[i \in 0 .. len, carry \in 0 .. 1] ==
            LET word == GetBits(s, i, now(i)) + carry
                next == GetBits(word, w - 1, 1)
                digit == word - next * 2 ^ w
            IN  IF i = len THEN {}
                ELSE IF GetBits(s, i, 1) = carry THEN nonzero[i + 1, carry]
                ELSE {<<i, IF negated THEN -digit ELSE digit>>} \cup nonzero[i + now(i), next]
        digits == nonzero[0, 0]
    IN  [i \in 0 .. len - 1 |-> IF \E d \in digits : d[1] = i
                                THEN (CHOOSE d \in digits : d[1] = i)[2] ELSE 0]

CeilDiv(a, b) == (a + b - 1) \div b
WnafSize(w) == CeilDiv(Half, w)

(* The digits of s, a scalar of Half bits, one to each window; they stand  *)
(* for s + skew.                                                           *)
WnafFixed(s, w) ==
    LET size == WnafSize(w)
        lastW == Half - (size - 1) * w
        val(pos) == GetBits(s, pos * w, IF pos = size - 1 THEN lastW ELSE w)
        skew == IF s # 0 /\ s % 2 = 0 THEN 1 ELSE 0
        used == {p \in 1 .. size - 1 : val(p) # 0}
        maxPos == IF used = {} THEN 0 ELSE CHOOSE p \in used : \A q \in used : q <= p
        odd(d, pos) == IF val(pos) % 2 = 0
                       THEN [d EXCEPT ![pos - 1] = @ - 2 ^ w, ![pos] = val(pos) + 1]
                       ELSE [d EXCEPT ![pos] = val(pos)]
        clean(d, pos) ==
            IF pos >= 2 /\ d[pos - 1] = 1 /\ d[pos - 2] < 0
            THEN [d EXCEPT ![pos - 2] = @ + 2 ^ w, ![pos - 1] = 0]
            ELSE IF pos >= 2 /\ d[pos - 1] = -1 /\ d[pos - 2] > 0
            THEN [d EXCEPT ![pos - 2] = @ - 2 ^ w, ![pos - 1] = 0]
            ELSE d
        upTo[pos \in 0 .. size - 1] ==
            IF pos = 0 THEN [p \in 0 .. size - 1 |-> IF p = 0 /\ s # 0 THEN val(0) + skew ELSE 0]
            ELSE clean(odd(upTo[pos - 1], pos), pos)
    IN  [wnaf |-> upTo[maxPos], skew |-> skew]

----------------------------------------------------------------------------
(* Tables of odd multiples.                                                *)
TableSize(w) == 2 ^ (w - 2)

(* 1*a, 3*a, ..., (2n-1)*a without their z coordinates: z is the last one, *)
(* zr[i] the ratio of that of i to that of i-1, and zr[1] that of the      *)
(* first to the z coordinate of a.                                         *)
OddMultiplesTable(n, a) ==
    LET sums(d) ==
            LET upTo[i \in 1 .. n] ==
                    IF i = 1 THEN << WithRatio([SetGe(SetZinv(a, d.z)) EXCEPT !.z = a.z], d.z) >>
                    ELSE LET s == upTo[i - 1] IN Append(s, GejAddGeVar(s[i - 1].r, Ge(d.x, d.y)))
            IN  upTo[n]
        table(all, dz) == [pre |-> [i \in 1 .. n |-> Ge(all[i].r.x, all[i].r.y)],
                           zr  |-> [i \in 1 .. n |-> all[i].rzr],
                           z   |-> FeMul(all[n].r.z, dz)]
        d == GejDoubleVar(a).r
    IN  table(sums(d), d.z)

AbsInt(n) == IF n < 0 THEN -n ELSE n
TableGetGe(pre, n) ==
    LET p == pre[(AbsInt(n) - 1) \div 2 + 1]
    IN  IF n > 0 THEN p ELSE [p EXCEPT !.y = FeNegate(@, 1)]

(* The tables of the generator and of 2^Half times it.                     *)
Normal(a) == [a EXCEPT !.x = FeNormalize(@), !.y = FeNormalize(@)]
Doubled(a, n) == LET d[i \in 0 .. n] == IF i = 0 THEN a ELSE GejDoubleVar(d[i - 1]).r IN d[n]
ComputeTable(w, gj) ==
    LET dgen == GeSetGejVar(GejDoubleVar(gj).r)
        upTo[j \in 1 .. TableSize(w)] ==
            IF j = 1 THEN << Normal(GeSetGejVar(gj)) >>
            ELSE LET t == upTo[j - 1]
                 IN  Append(t, Normal(GeSetGejVar(GejAddGeVar(SetGe(t[j - 1]), dgen).r)))
    IN  upTo[TableSize(w)]
PreG == ComputeTable(WindowG, SetGe(G))
PreG128 == ComputeTable(WindowG, Doubled(SetGe(G), Half))

----------------------------------------------------------------------------
(* Strauss' algorithm: the sum of na[i] * a[i] and ng * G.  The tables of  *)
(* all points are brought to one z coordinate, which is left out until the *)
(* end; the generator's are added with its inverse.                        *)
StraussTables(a) ==
    LET size == TableSize(WindowA)
        joined(t, p, odd, first) ==
            [pre |-> t.pre \o odd.pre,
             zr  |-> t.zr \o (IF first THEN odd.zr ELSE [odd.zr EXCEPT ![1] = FeMul(@, p.z)]),
             z   |-> odd.z]
        tables[k \in 0 .. Len(a)] ==
            IF k = 0 THEN [pre |-> << >>, zr |-> << >>, z |-> FeOne]
            ELSE LET t == tables[k - 1]
                 IN  joined(t, a[k], OddMultiplesTable(size, IF k = 1 THEN a[k] ELSE GejRescale(a[k], t.z)), k = 1)
        global(t) == [pre |-> IF a = << >> THEN << >> ELSE << >> \o TableSetGlobalZ(t.pre, t.zr), z |-> t.z]
    IN  global(tables[Len(a)])

StraussSum(t, na1, naLam, preG, ng1, preG128, ng128) ==
    LET size == TableSize(WindowA)
        of(k) == SubSeq(t.pre, (k - 1) * size + 1, k * size)
        lam(k) == [i \in 1 .. size |-> GeMulLambda(of(k)[i])]
        add(r, tab, n) == IF n = 0 THEN r ELSE GejAddGeVar(r, TableGetGe(tab, n)).r
        addG(r, tab, n) == IF n = 0 THEN r ELSE GejAddZinvVar(r, TableGetGe(tab, n), t.z)
        points(r, i) == LET p[k \in 0 .. Len(na1)] ==
                                IF k = 0 THEN r
                                ELSE add(add(p[k - 1], of(k), na1[k][i]), lam(k), naLam[k][i])
                        IN  p[Len(na1)]
        from[i \in 0 .. Half + 1] ==
            IF i = Half + 1 THEN GejInfinity
            ELSE addG(addG(points(GejDoubleVar(from[i + 1]).r, i), preG, ng1[i]), preG128, ng128[i])
        finished(r) == IF r.inf THEN r ELSE [r EXCEPT !.z = FeMul(@, t.z)]
    IN  finished(from[0])

StraussWnaf(a, na, ng) ==
    LET used == SelectSeq([i \in 1 .. Len(a) |-> i], LAMBDA i : na[i] # 0 /\ ~ a[i].inf)
        split(k) == SplitLambda(na[used[k]])
    IN  StraussSum(StraussTables([k \in 1 .. Len(used) |-> a[used[k]]]),
                   << >> \o [k \in 1 .. Len(used) |-> Wnaf(split(k).r1, Half + 1, WindowA)],
                   << >> \o [k \in 1 .. Len(used) |-> Wnaf(split(k).r2, Half + 1, WindowA)],
                   PreG, Wnaf(GetBits(ng, 0, Half), Half + 1, WindowG),
                   PreG128, Wnaf(GetBits(ng, Half, Half), Half + 1, WindowG))

EcmultVar(a, na, ng) == StraussWnaf(<<a>>, <<na>>, ng)

----------------------------------------------------------------------------
(* Pippenger's algorithm: in every window, each point goes into the bucket *)
(* of its digit, and the buckets are added up, bucket j with the weight    *)
(* 2j+1: the running sums are added up and doubled.                        *)
IntoBucket(b, n, p) ==
    IF n = 0 THEN b
    ELSE [b EXCEPT ![(AbsInt(n) - 1) \div 2] = GejAddGeVar(@, IF n > 0 THEN p ELSE GeNeg(p)).r]

BucketSum(r, b, nBuckets) ==
    LET s[j \in 1 .. nBuckets] ==
            IF j = nBuckets THEN [run |-> GejInfinity, r |-> r]
            ELSE LET run == GejAddVar(s[j + 1].run, b[j]).r
                 IN  [run |-> run, r |-> GejAddVar(s[j + 1].r, run).r]
    IN  GejAddVar(GejDoubleVar(s[1].r).r, GejAddVar(s[1].run, b[0]).r).r

PippengerSum(window, fixed, pt) ==
    LET nBuckets == TableSize(window + 2)
        buckets(i) ==
            LET b[k \in 0 .. Len(pt)] ==
                    IF k = 0 THEN [j \in 0 .. nBuckets - 1 |-> GejInfinity]
                    ELSE IntoBucket(IntoBucket(b[k - 1], IF i = 0 THEN -fixed[k].skew ELSE 0, pt[k]),
                                    fixed[k].wnaf[i], pt[k])
            IN  b[Len(pt)]
        from[i \in 0 .. WnafSize(window + 1)] ==
            IF i = WnafSize(window + 1) THEN GejInfinity
            ELSE BucketSum(Doubled(from[i + 1], window), buckets(i), nBuckets)
    IN  from[0]

EcmultPippengerWnaf(window, sc, pt) ==
    LET used == SelectSeq([i \in 1 .. Len(sc) |-> i], LAMBDA i : sc[i] # 0 /\ ~ pt[i].inf)
    IN  IF used = << >> THEN GejInfinity
        ELSE PippengerSum(window, << >> \o [k \in 1 .. Len(used) |-> WnafFixed(sc[used[k]], window + 1)],
                          << >> \o [k \in 1 .. Len(used) |-> pt[used[k]]])

(* A product as two of scalars of half the length.                         *)
EcmultEndoSplit(s, p) ==
    LET split == SplitLambda(s)
        half(k, q) == IF ScalarIsHigh(k) THEN [s |-> ScalarNegate(k), p |-> GeNeg(q)]
                      ELSE [s |-> k, p |-> q]
    IN  << half(split.r1, p), half(split.r2, GeMulLambda(p)) >>

PippengerBucketWindow(n) == IF n <= 1 THEN 1 ELSE IF n <= 4 THEN 2 ELSE 3     \* up to 20 points

EcmultPippengerBatch(a, na, ng) ==
    LET split == [i \in 0 .. Len(a) |-> IF i = 0 THEN EcmultEndoSplit(ng, G)
                                        ELSE EcmultEndoSplit(na[i], a[i])]
        half(j) == split[(j - 1) \div 2][1 + ((j - 1) % 2)]
        n == 2 * (Len(a) + 1)
    IN  EcmultPippengerWnaf(PippengerBucketWindow(Len(a)), << >> \o [j \in 1 .. n |-> half(j).s],
                            << >> \o [j \in 1 .. n |-> half(j).p])

EcmultStraussBatch(a, na, ng) == StraussWnaf([i \in 1 .. Len(a) |-> SetGe(a[i])], na, ng)

SumUp(r) == LET sum[i \in 0 .. Len(r)] ==
                    IF i = 0 THEN GejInfinity ELSE GejAddVar(sum[i - 1], r[i]).r
            IN  sum[Len(r)]

EcmultMultiSimpleVar(a, na, ng) ==
    SumUp([i \in 1 .. Len(a) + 1 |->
              EcmultVar(SetGe((<< GeInfinity >> \o a)[i]), (<< 0 >> \o na)[i], IF i = 1 THEN ng ELSE 0)])

(* The sum in batches of as many points as the scratch space holds for     *)
(* Pippenger's algorithm, or if these are few, for Strauss'; without any   *)
(* scratch space, one by one.                                              *)
EcmultBatch(pippenger, a, na, ng) ==
    IF pippenger THEN EcmultPippengerBatch(a, na, ng) ELSE EcmultStraussBatch(a, na, ng)
BatchSize(n, maxPoints) == CeilDiv(n, CeilDiv(n, maxPoints))
EcmultMultiVar(pippengerMax, straussMax, a, na, ng) ==
    LET n     == Len(a)
        pippenger == BatchSize(n, pippengerMax) >= PippengerThreshold
        size  == BatchSize(n, IF pippenger THEN pippengerMax ELSE straussMax)
        part(s, i) == SubSeq(s, (i - 1) * size + 1, IF i * size > n THEN n ELSE i * size)
    IN  IF n = 0 \/ pippengerMax = 0 \/ (~ pippenger /\ straussMax = 0)
        THEN EcmultMultiSimpleVar(a, na, ng)
        ELSE SumUp([i \in 1 .. CeilDiv(n, size) |->
                       EcmultBatch(pippenger, part(a, i), part(na, i), IF i = 1 THEN ng ELSE 0)])
=============================================================================
