---------------------------- MODULE MCLibrary ----------------------------
(* A curve of 907 points with the equation of secp256k1; limbs of 10 and 7 *)
(* bits for the field, of 3 for the scalars; a hash of blocks of 8 bytes.  *)
EXTENDS Library, Bitwise

MCLogs == {0, 1, 600}
MCZs == {1, 555}
MCScalars == {0, 1, 35, 454, 906, 777}
MCSeeds == { <<0, 0>>, <<17, 700>>, <<966, 906>> }
MCUs == {1, 2, 480}

(* Zero, one, the largest element, the modulus, all bits, and another.     *)
MCWideStrings == { <<0, 0, 0, 0, 0, 0>>, <<1, 0, 0, 0, 0, 0>>,
                   <<250, 255, 255, 255, 255, 255>>, <<251, 255, 255, 255, 255, 255>>,
                   <<255, 255, 255, 255, 255, 255>>, <<17, 34, 200, 3, 77, 129>> }
MCNarrowStrings == { <<0, 0, 0, 0, 0, 0, 0, 0, 0>>, <<1, 0, 0, 0, 0, 0, 0, 0, 0>>,
                     <<234, 254, 255, 255, 255, 255, 255, 255, 7>>,
                     <<235, 254, 255, 255, 255, 255, 255, 255, 7>>,
                     <<255, 255, 255, 255, 255, 255, 255, 255, 7>>,
                     <<17, 34, 200, 3, 77, 129, 21, 5, 2>> }
MCInts == {0, 1, 2, 3, 7}

(* Around zero, half the order, the order and all bits, and two others.    *)
MCWideNumbers == {0, 1, 2, 2001, 2002, 4002, 4003, 4095, 777, 3584}
MCNarrowNumbers == {0, 1, 2, 8385321, 8385322, 16770642, 16770643, 16777215, 1234567, 14680064}

(* A small function that compresses blocks.                                *)
MCCompress(s, block) ==
    FoldLeft(LAMBDA st, b : << st[2], st[3], st[4], (5 * st[1] + 3 * st[2] + st[4] + b + 1) % 256 >>, s, block)
MCStartState == << 106, 187, 60, 165 >>
MCDigest(s) == s
MCXorByte(a, b) == a ^^ b

(* The bytes of keys, tags and seeds and of chunks of texts.               *)
MCBytes(n) == [i \in 1 .. n |-> (37 * i + 11 * n) % 256]
MCHashKeys == {MCBytes(n) : n \in {0, 3, 8, 9, 20}}
MCChunks == {MCBytes(n) : n \in {0, 1, 5, 7, 8, 9, 17}}

(* Symbols of base four, an order of six; equal and different arguments.   *)
MCStrings32 == { <<0, 0>>, <<2, 2>> }
MCStrings33 == { <<2, 0, 0>>, <<2, 2, 2>>, <<3, 2, 2>> }
MCStrings64 == { <<0, 2, 2, 0>>, <<2, 2, 2, 2>> }
MCMessageHashes == { << i, j >> : i, j \in {0, 1, 2} }
MCMessages == { << >>, <<0>>, <<0, 2>>, <<2, 2, 2>> }
MCAlgos == { <<1>>, <<2>> }

(* Two short integers; one of two bytes, the high one with a zero before;  *)
(* the order and the number below; and lengths of two bytes.               *)
MCDerSeeds == { << 12, 6, 2, 1, 1, 2, 1, 15 >>,
                << 12, 8, 2, 2, 0, 16, 2, 2, 17, 3 >>,
                << 12, 10, 2, 3, 0, 28, 10, 2, 3, 0, 28, 11 >>,
                << 12, 17, 17, 2, 12, 1, 1, 1, 1, 1, 1, 1, 1, 1, 1, 1, 1, 2, 1, 1 >>,
                << 12, 17, 22, 2, 17, 16, 1, 1, 1, 1, 1, 1, 1, 1, 1, 1, 1, 1, 1, 1, 1, 1, 2, 1, 1 >> }

(* Characters at the ends of the digits, and next to them.                 *)
MCHexChars == {47, 57, 58, 64, 65, 70, 96, 102, 103}

(* Around zero and the modulus; with 1, 2, 3 and 65 there are points, of   *)
(* which the coordinates are also given with the modulus added.            *)
MCXs == {0, 1, 2, 3, 5, 65, 966, 967, 968, 969, 1023}
MCYs == {0, 2, 54, 88, 879, 913, 965, 967, 969, 1021}
=============================================================================
