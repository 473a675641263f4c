------------------------------- MODULE Sha256 -------------------------------
(***************************************************************************)
(* The compression function of SHA-256 (hash_impl.h), on words of 32 bits  *)
(* in two halves.                                                          *)
(***************************************************************************)
EXTENDS Integers, Sequences, SequencesExt, Bitwise

(* The halves of constants of 32 bits, pair by pair.                       *)
WordsOf(halves) == << >> \o [i \in 1 .. Len(halves) \div 2 |-> << halves[2 * i - 1], halves[2 * i] >>]

Sum(x, y) == LET lo == x[2] + y[2]
             IN  << (x[1] + y[1] + (lo \div 2 ^ 16)) % 2 ^ 16, lo % 2 ^ 16 >>
Xored(x, y) == << x[1] ^^ y[1], x[2] ^^ y[2] >>
Anded(x, y) == << x[1] & y[1], x[2] & y[2] >>
Ored(x, y) == << x[1] | y[1], x[2] | y[2] >>

(* A shift by less than 16, with zeros or with the bits that fall out.     *)
ShiftRight(x, n, top) == << (x[1] \div 2 ^ n) + (top % 2 ^ n) * 2 ^ (16 - n),
                            (x[2] \div 2 ^ n) + (x[1] % 2 ^ n) * 2 ^ (16 - n) >>
Rotate(x, n) == IF n < 16 THEN ShiftRight(x, n, x[2]) ELSE ShiftRight(<< x[2], x[1] >>, n - 16, x[1])

Ch(x, y, z) == Xored(z, Anded(x, Xored(y, z)))
Maj(x, y, z) == Ored(Anded(x, y), Anded(z, Ored(x, y)))
Xored3(x, y, z) == Xored(x, Xored(y, z))
Sigma0(x) == Xored3(Rotate(x, 2), Rotate(x, 13), Rotate(x, 22))
Sigma1(x) == Xored3(Rotate(x, 6), Rotate(x, 11), Rotate(x, 25))
LowSigma0(x) == Xored3(Rotate(x, 7), Rotate(x, 18), ShiftRight(x, 3, 0))
LowSigma1(x) == Xored3(Rotate(x, 17), Rotate(x, 19), ShiftRight(x, 10, 0))

InitialState == WordsOf(<<
      \h6a09, \he667, \hbb67, \hae85, \h3c6e, \hf372, \ha54f, \hf53a,
      \h510e, \h527f, \h9b05, \h688c, \h1f83, \hd9ab, \h5be0, \hcd19 >>)

RoundConstants == WordsOf(<<
      \h428a, \h2f98, \h7137, \h4491, \hb5c0, \hfbcf, \he9b5, \hdba5,
      \h3956, \hc25b, \h59f1, \h11f1, \h923f, \h82a4, \hab1c, \h5ed5,
      \hd807, \haa98, \h1283, \h5b01, \h2431, \h85be, \h550c, \h7dc3,
      \h72be, \h5d74, \h80de, \hb1fe, \h9bdc, \h06a7, \hc19b, \hf174,
      \he49b, \h69c1, \hefbe, \h4786, \h0fc1, \h9dc6, \h240c, \ha1cc,
      \h2de9, \h2c6f, \h4a74, \h84aa, \h5cb0, \ha9dc, \h76f9, \h88da,
      \h983e, \h5152, \ha831, \hc66d, \hb003, \h27c8, \hbf59, \h7fc7,
      \hc6e0, \h0bf3, \hd5a7, \h9147, \h06ca, \h6351, \h1429, \h2967,
      \h27b7, \h0a85, \h2e1b, \h2138, \h4d2c, \h6dfc, \h5338, \h0d13,
      \h650a, \h7354, \h766a, \h0abb, \h81c2, \hc92e, \h9272, \h2c85,
      \ha2bf, \he8a1, \ha81a, \h664b, \hc24b, \h8b70, \hc76c, \h51a3,
      \hd192, \he819, \hd699, \h0624, \hf40e, \h3585, \h106a, \ha070,
      \h19a4, \hc116, \h1e37, \h6c08, \h2748, \h774c, \h34b0, \hbcb5,
      \h391c, \h0cb3, \h4ed8, \haa4a, \h5b9c, \hca4f, \h682e, \h6ff3,
      \h748f, \h82ee, \h78a5, \h636f, \h84c8, \h7814, \h8cc7, \h0208,
      \h90be, \hfffa, \ha450, \h6ceb, \hbef9, \ha3f7, \hc671, \h78f2 >>)

(* v are the eight working variables, the letters of the code in turn; w   *)
(* are the sixteen words of the message that are next.                     *)
Round(st, k) ==
    LET v == st.v
        w == st.w
        t1 == Sum(Sum(Sum(v[8], Sigma1(v[5])), Ch(v[5], v[6], v[7])), Sum(k, w[1]))
        t2 == Sum(Sigma0(v[1]), Maj(v[1], v[2], v[3]))
        word == Sum(Sum(w[1], LowSigma1(w[15])), Sum(w[10], LowSigma0(w[2])))
    IN  [v |-> << Sum(t1, t2), v[1], v[2], v[3], Sum(v[4], t1), v[5], v[6], v[7] >>,
         w |-> Append(Tail(w), word)]

ReadBe32(buf) == WordsOf([i \in 1 .. Len(buf) \div 2 |-> 256 * buf[2 * i - 1] + buf[2 * i]])
WriteBe32(s) == << >> \o [i \in 1 .. 4 * Len(s) |->
    LET half == s[((i + 3) \div 4)][(((i - 1) % 4) \div 2) + 1]
    IN  IF i % 2 = 1 THEN half \div 256 ELSE half % 256]

(* The set of one element makes TLC evaluate the rounds in their order.    *)
Transform(s, buf) ==
    LET after[i \in 0 .. 64] ==
            IF i = 0 THEN [v |-> s, w |-> ReadBe32(buf)]
            ELSE CHOOSE st \in {Round(before, RoundConstants[i]) : before \in {after[i - 1]}} : TRUE
        last == after[64]
    IN  << >> \o [i \in 1 .. 8 |-> Sum(s[i], last.v[i])]
=============================================================================
