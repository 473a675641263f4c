------------------------------- MODULE Modinv -------------------------------
(***************************************************************************)
(* Inverses and Jacobi symbols by division steps: modinv64_impl.h and      *)
(* modinv32_impl.h, which differ in their sizes and in how a multiple of f *)
(* is found.                                                               *)
(*                                                                         *)
(* A number is a sequence of Limbs digits of S bits, the lowest first, of  *)
(* which the last carries the sign; the code has five of 62 bits or nine   *)
(* of 30.  Words have two bits more, accumulators twice as many.  A        *)
(* modulus comes with its inverse modulo 2^S.                              *)
(***************************************************************************)
EXTENDS Integers, Sequences, FiniteSetsExt, TLC

CONSTANTS S, Limbs,
          Spare,         \* S less the steps of a batch in constant time
          Rounds,        \* batches of the inversion in constant time
          VarRounds,     \* a bound on those of the other, which has none
          JacobiRounds,
          TableBits      \* what the table of modinv32 is good for; 0 without

Word(x) == x % 2 ^ (S + 2)
SignedAt(bits, x) == ((x + 2 ^ (bits - 1)) % 2 ^ bits) - 2 ^ (bits - 1)
Signed(x) == SignedAt(S + 2, x)
Accumulated(x) == SignedAt(2 * S + 4, x)

(* The same number, in digits of another size.                             *)
Repack(x, from, to, n) ==
    LET bit(k) == IF k \div from < Len(x) THEN (x[(k \div from) + 1] \div 2 ^ (k % from)) % 2 ELSE 0
        digit(i) == MapThenSumSet(LAMBDA b : bit((i - 1) * to + b) * 2 ^ b, 0 .. to - 1)
    IN  << >> \o [i \in 1 .. n |-> digit(i)]

Num(k) == [i \in 1 .. Limbs |-> IF i = 1 THEN k ELSE 0]
Last(x) == x[Len(x)]
Smaller(i, j) == IF i < j THEN i ELSE j

(* The transitions made so far: f and g, and how they follow from the      *)
(* numbers that the batch began with.                                      *)
Batch(delta, f, g, one) ==
    [delta |-> delta, f |-> Word(f), g |-> Word(g), u |-> one, v |-> 0, q |-> 0, r |-> one]
Matrix(s) == [u |-> Signed(s.u), v |-> Signed(s.v), q |-> Signed(s.q), r |-> Signed(s.r)]

----------------------------------------------------------------------------
(* One division step; delta is the zeta of the code.                       *)
Divstep(s) ==
    LET odd == s.g % 2 = 1
        swap == s.delta < 0 /\ odd
        sum(x, y) == IF ~ odd THEN x ELSE IF s.delta < 0 THEN Word(x - y) ELSE Word(x + y)
        then(x, y) == IF swap THEN Word(x + y) ELSE x
    IN  [delta |-> IF swap THEN -s.delta - 2 ELSE s.delta - 1,
         f |-> then(s.f, sum(s.g, s.f)),
         g |-> sum(s.g, s.f) \div 2,
         u |-> Word(2 * then(s.u, sum(s.q, s.u))),
         v |-> Word(2 * then(s.v, sum(s.r, s.v))),
         q |-> sum(s.q, s.u),
         r |-> sum(s.r, s.v)]

Divsteps59(zeta, f0, g0) ==
    LET after[i \in Spare .. S] ==
            IF i = Spare THEN Batch(zeta, f0, g0, 2 ^ Spare) ELSE Divstep(after[i - 1])
    IN  after[S]

(* Several steps at once: all that halve g, an exchange, and the multiple  *)
(* of f that makes g divisible by a power of two.  The sign is -1 if the   *)
(* exchange negates, else the Jacobi symbol is followed.                   *)
Zeros(s) == CHOOSE z \in 0 .. s.left : /\ s.g % 2 ^ z = 0
                                       /\ z = s.left \/ (s.g \div 2 ^ z) % 2 = 1
Halved(s, z) == [s EXCEPT !.g = @ \div 2 ^ z, !.u = Word(@ * 2 ^ z), !.v = Word(@ * 2 ^ z),
                          !.delta = @ - z, !.left = @ - z,
                          !.jac = IF z % 2 = 1 /\ s.f % 8 \in {3, 5} THEN 1 - @ ELSE @]
Exchanged(s, sign) == [s EXCEPT !.f = s.g, !.g = Word(sign * s.f), !.u = s.q, !.q = Word(sign * s.u),
                                !.v = s.r, !.r = Word(sign * s.v), !.delta = - @,
                                !.jac = IF s.f % 4 = 3 /\ s.g % 4 = 3 THEN 1 - @ ELSE @]
Cancelled(s, w) == [s EXCEPT !.g = Word(@ + s.f * w), !.q = Word(@ + s.u * w), !.r = Word(@ + s.v * w)]
Limit(s, most) == 2 ^ Smaller(Smaller(s.delta + 1, s.left), most)
Sixfold(s) == Cancelled(s, (((s.f * s.g) % Limit(s, 6)) * ((s.f * s.f - 2) % Limit(s, 6))) % Limit(s, 6))
Fourfold(s) == Cancelled(s, (- (s.f + (((s.f + 1) \div 4) % 2) * 8) * s.g) % Limit(s, 4))
Inv256 == [f \in {k \in 0 .. 2 ^ TableBits - 1 : k % 2 = 1} |->
               CHOOSE k \in 0 .. 2 ^ TableBits - 1 : (f * k + 1) % 2 ^ TableBits = 0]
Tabled(s) == Cancelled(s, (s.g * Inv256[s.f % 2 ^ TableBits]) % Limit(s, TableBits))
Steps(s, sign) ==
    IF s.left = 0 THEN s
    ELSE IF TableBits > 0 THEN Tabled(IF s.delta < 0 THEN Exchanged(s, sign) ELSE s)
    ELSE IF s.delta < 0 THEN Sixfold(Exchanged(s, sign)) ELSE Fourfold(s)
Onward(s, sign) == IF s.left = 0 THEN s ELSE Steps(Halved(s, Zeros(s)), sign)
Divsteps(s, sign) ==
    LET after[i \in 0 .. S + 1] == IF i = 0 THEN s ELSE Onward(after[i - 1], sign)
    IN  after[S + 1]

Variable(eta, f, g, jac) ==
    [delta |-> eta, f |-> Word(f), g |-> Word(g), u |-> 1, v |-> 0, q |-> 0, r |-> 1,
     left |-> S, jac |-> jac]
Divsteps62Var(eta, f0, g0) == Divsteps(Variable(eta, f0, g0, 0), -1)
Posdivsteps62Var(eta, f0, g0, jac) == Divsteps(Variable(eta, f0, g0, jac), 1)

----------------------------------------------------------------------------
(* The matrix is applied to the whole numbers.                             *)

(* a x + b y + k m, of which the lowest digit, which is zero, is dropped.  *)
Row(a, x, b, y, k, m) ==
    LET n == Len(x)
        acc[i \in 1 .. n] == Accumulated((IF i = 1 THEN 0 ELSE acc[i - 1] \div 2 ^ S)
                                         + a * x[i] + b * y[i] + k * m[i])
    IN  << >> \o [i \in 1 .. n |-> IF i = n THEN Signed(acc[n] \div 2 ^ S) ELSE acc[i + 1] % 2 ^ S]

UpdateFg(f, g, t) == [f |-> Row(t.u, f, t.v, g, 0, f), g |-> Row(t.q, f, t.r, g, 0, f)]

(* What makes the lowest digit zero modulo the modulus.                    *)
Correction(a, x, b, y, info) ==
    LET k == (IF Last(x) < 0 THEN a ELSE 0) + (IF Last(y) < 0 THEN b ELSE 0)
    IN  k - ((info.inverse * ((a * x[1] + b * y[1]) % 2 ^ S) + k) % 2 ^ S)
UpdateDe(d, e, t, info) ==
    [d |-> Row(t.u, d, t.v, e, Correction(t.u, d, t.v, e, info), info.modulus),
     e |-> Row(t.q, d, t.r, e, Correction(t.q, d, t.r, e, info), info.modulus)]

(* From (-2 modulus, modulus), negated if asked, to [0, modulus).          *)
Raised(x, modulus) ==
    IF Last(x) < 0 THEN << >> \o [i \in 1 .. Limbs |-> Signed(x[i] + modulus[i])] ELSE x
Carried(x) ==
    LET sum[i \in 1 .. Limbs] == Signed(x[i] + (IF i = 1 THEN 0 ELSE sum[i - 1] \div 2 ^ S))
    IN  << >> \o [i \in 1 .. Limbs |-> IF i = Limbs THEN sum[i] ELSE sum[i] % 2 ^ S]
NegatedIf(flag, x) == IF flag THEN << >> \o [i \in 1 .. Limbs |-> - x[i]] ELSE x
Normalize62(x, negative, modulus) ==
    Carried(Raised(Carried(NegatedIf(negative, Raised(x, modulus))), modulus))

----------------------------------------------------------------------------
Start(x, delta, info) ==
    [d |-> Num(0), e |-> Num(1), f |-> info.modulus, g |-> x, delta |-> delta, jac |-> 0]
Applied(s, after, info) ==
    UpdateDe(s.d, s.e, Matrix(after), info) @@ UpdateFg(s.f, s.g, Matrix(after))
        @@ [delta |-> after.delta]
IsNum(x, k) == x[1] = k /\ \A i \in 2 .. Len(x) : x[i] = 0

Round(s, info) == Applied(s, Divsteps59(s.delta, s.f[1], s.g[1]), info)
Modinv64(x, info) ==
    LET after[i \in 0 .. Rounds] ==
            IF i = 0 THEN Start(x, -1, info) ELSE Round(after[i - 1], info)
        result(s) == Normalize62(s.d, Last(s.f) < 0, info.modulus)
    IN  result(after[Rounds])

(* The numbers get shorter: a last digit that is only a sign moves into    *)
(* the one before.                                                         *)
Cut(x) == [i \in 1 .. Len(x) - 1 |-> IF i = Len(x) - 1 THEN x[i] + x[i + 1] * 2 ^ S ELSE x[i]]
Shortened(s, signs) ==
    IF Len(s.f) > 1 /\ Last(s.f) \in signs /\ Last(s.g) \in signs
    THEN [s EXCEPT !.f = << >> \o Cut(@), !.g = << >> \o Cut(@)] ELSE s

VarRound(s, first, info) ==
    IF ~ first /\ IsNum(s.g, 0) THEN s
    ELSE Shortened(Applied(s, Divsteps62Var(s.delta, s.f[1], s.g[1]), info), {0, -1})
Modinv64Var(x, info) ==
    LET after[i \in 0 .. VarRounds] ==
            IF i = 0 THEN Start(x, -1, info) ELSE VarRound(after[i - 1], i = 1, info)
        result(s) == Normalize62(s.d, Last(s.f) < 0, info.modulus)
    IN  result(after[VarRounds])

(* The Jacobi symbol of x, or 0 if the batches do not suffice.             *)
Bottom(x) == x[1] + (IF Len(x) > 1 THEN x[2] * 2 ^ S ELSE 0)
JacobiRound(s, info) ==
    IF IsNum(s.f, 1) THEN s
    ELSE LET after == Posdivsteps62Var(s.delta, Bottom(s.f), Bottom(s.g), s.jac)
         IN  Shortened(UpdateFg(s.f, s.g, Matrix(after))
                           @@ [delta |-> after.delta, jac |-> after.jac], {0})
Jacobi64MaybeVar(x, info) ==
    LET after[i \in 0 .. JacobiRounds] ==
            IF i = 0 THEN Start(x, -1, info) ELSE JacobiRound(after[i - 1], info)
        result(s) == IF IsNum(s.f, 1) THEN 1 - 2 * s.jac ELSE 0
    IN  result(after[JacobiRounds])
=============================================================================
