------------------------------ MODULE Hashing -------------------------------
(***************************************************************************)
(* Hash with SHA-256 itself, for the midstates: the states after the two   *)
(* hashes of a tag that the code holds as literals.                        *)
(***************************************************************************)
EXTENDS Sha256

VARIABLES hashing, hashSteps

Sha == INSTANCE Hash WITH Compress <- Transform, StartState <- InitialState,
           Digest <- WriteBe32, XorByte <- ^^, BlockSize <- 64, DigestSize <- 32, SizeBytes <- 8,
           HashKeys <- {}, Chunks <- {}, OutLengths <- {}, MaxText <- 0, MaxHashSteps <- 0

----------------------------------------------------------------------------
(* The midstates of the functions with a tag.  The last two but one have   *)
(* the tags of the library before its symbols were renamed.                *)
Letters == "/0123456789:;<=>?@ABCDEFGHIJKLMNOPQRSTUVWXYZ...._.abcdefghijklmnopqrstuvwxyz"
Byte(c) == IF c = " " THEN 32 ELSE 46 + CHOOSE k \in 1 .. Len(Letters) : SubSeq(Letters, k, k) = c
BytesOf(str) == << >> \o [i \in 1 .. Len(str) |-> Byte(SubSeq(str, i, i))]

Bip340NonceMid == [tag |-> "BIP0340/nonce", s |-> WordsOf(<<
      \h4661, \h5b35, \hf4bf, \hbff7, \h9f8d, \hc671, \h8362, \h7ab3,
      \h6021, \h7180, \h5735, \h8661, \h21a2, \h9e54, \h68b0, \h7b4c >>)]
Bip340AuxMid == [tag |-> "BIP0340/aux", s |-> WordsOf(<<
      \h24dd, \h3219, \h4eba, \h7e70, \hca0f, \habb9, \h0fa3, \h166d,
      \h3afb, \he4b1, \h4c44, \hdf97, \h4aac, \h2739, \h249e, \h850a >>)]
ChallengeMid == [tag |-> "BIP0340/challenge", s |-> WordsOf(<<
      \h9cec, \hba11, \h2392, \h5381, \h1167, \h9112, \hd162, \h7e0f,
      \h97c8, \h7550, \h003c, \hc765, \h90f6, \h1164, \h33e9, \hb66a >>)]
MusigAuxMid == [tag |-> "MuSig/aux", s |-> WordsOf(<<
      \ha19e, \h884b, \hf463, \hfe7e, \h2f18, \hf9a2, \hbeb0, \hf9ff,
      \h0f37, \he8b0, \h06eb, \hd26f, \he3b2, \h43d2, \h522f, \hb150 >>)]
MusigNonceMid == [tag |-> "MuSig/nonce", s |-> WordsOf(<<
      \h0710, \h1b64, \h1800, \h3414, \h0391, \hbc43, \h0e62, \h58ee,
      \h29d2, \h6b72, \h8343, \h937e, \hb7a0, \ha4fb, \hff56, \h8a30 >>)]
NonceCoefMid == [tag |-> "MuSig/noncecoef", s |-> WordsOf(<<
      \h2c7d, \h5a45, \h06bf, \h7e53, \h89be, \h68a6, \h9712, \h54c0,
      \h60ac, \h12d2, \h7284, \h6dcd, \h6c81, \h212f, \hde7a, \h2500 >>)]
KeyAggListMid == [tag |-> "KeyAgg list", s |-> WordsOf(<<
      \hb399, \hd5e0, \hc8ff, \hf302, \h6bad, \hac71, \h07c5, \hb7f1,
      \h9701, \he2ef, \h2a72, \hecf8, \h201a, \h4c7b, \hab14, \h8a38 >>)]
KeyAggCoefMid == [tag |-> "KeyAgg coefficient", s |-> WordsOf(<<
      \h6ef0, \h2c5a, \h06a4, \h80de, \h1f29, \h8665, \h1d11, \h34f2,
      \h56a0, \hb063, \h52da, \h4147, \hf280, \hd9d4, \h4484, \hbe15 >>)]
EncodeMid == [tag |-> "secp256k1_ellswift_encode", s |-> WordsOf(<<
      \hd1a6, \h524b, \h0285, \h94b3, \h96e4, \h2f4e, \h1037, \ha177,
      \h1b8f, \hcb8b, \h5602, \h3885, \h2560, \hede1, \hd626, \hb715 >>)]
CreateMid == [tag |-> "secp256k1_ellswift_create", s |-> WordsOf(<<
      \hd29e, \h1bf5, \hf702, \h5f42, \h9b02, \h4773, \h094c, \hb7d5,
      \he59e, \hd789, \h03bc, \h9786, \h6833, \h5b35, \h4e36, \h3b53 >>)]
Bip324Mid == [tag |-> "bip324_ellswift_xonly_ecdh", s |-> WordsOf(<<
      \h8c12, \hd730, \h827b, \hd392, \h9e4f, \hb2ee, \h207b, \h373e,
      \h2292, \hbd7a, \haa54, \h41bc, \h15c3, \h779f, \hcfb5, \h2549 >>)]

Mids == { Bip340NonceMid, Bip340AuxMid, ChallengeMid, MusigAuxMid, MusigNonceMid, NonceCoefMid,
          KeyAggListMid, KeyAggCoefMid, EncodeMid, CreateMid, Bip324Mid }

(* The hash of 32 zero bytes with the tag BIP0340/aux.                     *)
ZeroMask == << 84, 241, 105, 207, 201, 226, 229, 114, 116, 128, 68, 31, 144, 186, 37, 196,
               136, 244, 97, 199, 11, 94, 165, 220, 170, 247, 175, 105, 39, 10, 165, 20 >>

----------------------------------------------------------------------------
(* A midstate takes no steps.                                              *)
MidInit == \E m \in Mids : hashing = [mid |-> m] /\ hashSteps = 0

(* The midstates and the mask that the modules hold as literals are those  *)
(* of their tags (schnorrsig/main_impl.h, musig/keyagg_impl.h,             *)
(* musig/session_impl.h, ellswift/main_impl.h).                            *)
MidsAgree ==
    Sha!Hashes("mid") =>
       /\ Sha!InitializeTagged(BytesOf(hashing.mid.tag)) = [s |-> hashing.mid.s, buf |-> << >>, bytes |-> 64]
       /\ hashing.mid = Bip340AuxMid =>
             Sha!Finalize(Sha!Write([Sha!Initialize EXCEPT !.s = Bip340AuxMid.s, !.bytes = 64],
                                    Sha!Repeated(0, 32))) = ZeroMask
=============================================================================
