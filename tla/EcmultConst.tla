---------------------------- MODULE EcmultConst ----------------------------
(***************************************************************************)
(* Multiplication whose time does not depend on the scalar:                *)
(* ecmult_const_impl.h, for any point, and ecmult_gen_impl.h, for the      *)
(* generator.  Both read the bits of a scalar as signs.  What is done in   *)
(* place of branches and of indexes that depend on secrets is left out.    *)
(***************************************************************************)
EXTENDS Ecmult

CONSTANTS GroupSize,
          CombBlocks, CombTeeth, CombSpacing

ConstGroups == CeilDiv(Half + 1, GroupSize)
ConstBits == ConstGroups * GroupSize
ConstTableSize == 2 ^ (GroupSize - 1)

(* The multiple that the bits of n, taken for signs, stand for.            *)
ConstTableGetGe(pre, n) ==
    LET negative == n < ConstTableSize
        p == pre[1 + (IF negative THEN ConstTableSize - 1 - n ELSE n - ConstTableSize)]
    IN  [p EXCEPT !.y = FeCmov(@, FeNegate(@, 1), negative)]

K == ((2 ^ ConstBits - 2 ^ (Half + 1) - 1 + N) * (1 + Lambda)) % N

EcmultConstMul(a, q) ==
    LET split == SplitLambda(ScalarHalf((q + K) % N))
        v1    == (split.r1 + 2 ^ Half) % N
        v2    == (split.r2 + 2 ^ Half) % N
        bits(v, i) == GetBits(v, i * GroupSize, GroupSize)
        doubles(r) == LET d[j \in 0 .. GroupSize] == IF j = 0 THEN r ELSE GejDouble(d[j - 1])
                      IN  d[GroupSize]
        lam(pre) == << >> \o [i \in 1 .. ConstTableSize |-> GeMulLambda(pre[i])]
        sum(pre, preLam) ==
            LET from[i \in 0 .. ConstGroups - 1] ==
                    LET t == ConstTableGetGe(pre, bits(v1, i))
                    IN  GejAddGe(IF i = ConstGroups - 1 THEN SetGe(t) ELSE GejAddGe(doubles(from[i + 1]), t),
                                 ConstTableGetGe(preLam, bits(v2, i)))
            IN  from[0]
        result(odd) ==
            LET pre == << >> \o TableSetGlobalZ(odd.pre, odd.zr)
            IN  [sum(pre, lam(pre)) EXCEPT !.z = FeMul(@, odd.z)]
    IN  IF a.inf THEN GejInfinity ELSE result(OddMultiplesTable(ConstTableSize, SetGe(a)))

(* The x coordinate of q times the point with x coordinate n/d, computed   *)
(* on an isomorphic curve so that no square root is needed.                *)
EcmultConstXOnly(n, d, q) ==
    LET g  == FeAdd(FeMul(FeSqr(n), n), FeMul(FeMulInt(FeSqr(d), B), d))
        x(rj) == FeMul(rj.x, FeInv(FeMul(FeMul(FeSqr(rj.z), g), d)))
    IN  x(EcmultConstMul(Ge(FeMul(g, n), FeSqr(g)), q))

----------------------------------------------------------------------------
(* The generator: a comb of CombBlocks * CombTeeth * CombSpacing bits.     *)
CombBits == CombBlocks * CombTeeth * CombSpacing
CombPoints == 2 ^ (CombTeeth - 1)

HalfG ==
    LET plusBit(r, i) == IF GetBits(ScalarHalf(1), i, 1) = 1 THEN GejAddGeVar(r, G).r ELSE r
        from[i \in 0 .. 2 * Half] ==
            IF i = 2 * Half THEN GejInfinity ELSE plusBit(GejDoubleVar(from[i + 1]).r, i)
    IN  from[0]

(* The sums of the points u with all signs, that of the last negative.     *)
CombBlock(u) ==
    LET sum[t \in 0 .. CombTeeth] ==
            IF t = 0 THEN GejInfinity ELSE GejAddVar(sum[t - 1], u[t]).r
        top(i) == CHOOSE t \in 0 .. CombTeeth : 2 ^ t <= i /\ i < 2 ^ (t + 1)
        v[i \in 0 .. CombPoints - 1] ==
            IF i = 0 THEN GejNeg(sum[CombTeeth])
            ELSE GejAddVar(v[i - 2 ^ top(i)], GejDoubleVar(u[top(i) + 1]).r).r
        affine(vs) == << >> \o [i \in 1 .. CombPoints |-> Normal(SetAllGejVar(vs)[i])]
    IN  affine(<< >> \o [i \in 1 .. CombPoints |-> v[i - 1]])

(* Block b is that of 2^((b*CombTeeth + t)*CombSpacing) halves of G.       *)
GenComputeTable ==
    LET u(b) == << >> \o [t \in 1 .. CombTeeth |->
                            Doubled(HalfG, (b * CombTeeth + t - 1) * CombSpacing)]
    IN  << >> \o [b \in 1 .. CombBlocks |-> CombBlock(u(b - 1))]

(* The table is compiled in.                                               *)
GenPrecTable == GenComputeTable

ScalarDiff == (2 ^ (CombBits - 1) + ScalarNegate(ScalarHalf(1))) % N

(* The bits of d that select the entry of a block, with off shifted out;   *)
(* the entry, negated if the highest of them is set; and the entries of    *)
(* all blocks added to r, of which the very first is only rescaled.        *)
CombBitsOf(d, block, off) ==
    LET tooth(t) == GetBits(d, (block * CombTeeth + t) * CombSpacing + off, 1)
        s[t \in 0 .. CombTeeth] == IF t = 0 THEN 0 ELSE s[t - 1] + tooth(t - 1) * 2 ^ (t - 1)
    IN  s[CombTeeth]
CombEntry(entries, bits) ==
    LET sign == bits >= CombPoints
        abs == IF sign THEN 2 * CombPoints - 1 - bits ELSE bits
    IN  [entries[1 + abs] EXCEPT !.y = FeCmov(@, FeNegate(@, 1), sign)]
CombLine(table, ctx, d, off, r) ==
    LET add(block) == CombEntry(table[block], CombBitsOf(d, block - 1, off))
        s[block \in 0 .. CombBlocks] ==
            IF block = 0 THEN r
            ELSE IF block = 1 /\ off = CombSpacing - 1 THEN GejRescale(SetGe(add(1)), ctx.proj_blind)
            ELSE GejAddGe(s[block - 1], add(block))
    IN  s[CombBlocks]
CombSum(table, ctx, d) ==
    LET from[off \in 0 .. CombSpacing - 1] ==
            CombLine(table, ctx, d, off, IF off = CombSpacing - 1 THEN GejInfinity ELSE GejDouble(from[off + 1]))
    IN  GejAddGe(from[0], ctx.ge_offset)
EcmultGen(ctx, gn) == CombSum(GenPrecTable, ctx, (ctx.scalar_offset + gn) % N)

(* The blinding: b is subtracted from the scalar and b*G added at the end. *)
(* Without a seed, b is -1; f and b are what the hash of the seed and the  *)
(* previous offset gives.                                                  *)
GenContext(offset, ge, f) ==
    [built |-> TRUE, scalar_offset |-> offset, ge_offset |-> ge, proj_blind |-> f]
StaticGen == [built |-> FALSE]
GenBlindReset == GenContext((1 + ScalarDiff) % N, GeNeg(G), FeOne)
GenBlind(ctx, f, b) ==
    LET f1 == IF f = 0 THEN FeOne ELSE FeSetInt(f)
        b1 == IF b = 0 THEN 1 ELSE b
    IN  GenContext((ScalarNegate(b1) + ScalarDiff) % N, GeSetGej(EcmultGen([ctx EXCEPT !.proj_blind = f1], b1)), f1)
=============================================================================
