------------------------------ MODULE Library -------------------------------
(***************************************************************************)
(* The C library in its layers: the point of CurveArithmetic, whose        *)
(* coordinates are plain numbers with a magnitude; or else the limbs of    *)
(* one element or scalar, in the representation for machines with products *)
(* of 128 bits or in the other; an accumulator of such products; a hash;   *)
(* the call of a function that hashes its arguments; an encoding of a      *)
(* signature or of bytes; or an object handed out.                         *)
(***************************************************************************)
EXTENDS CurveArithmetic, Inputs, Hash, Encodings

CONSTANTS WideStrings, NarrowStrings, WideNumbers, NarrowNumbers, Ints, HalfBits, AccWords, MaxLimbSteps
CONSTANTS Xs, Ys, Tags, SecretKeys, Nonces, MaxConversions

VARIABLES wide, fe, means, sc, num, limbSteps
limbVars == <<wide, fe, means, sc, num, limbSteps>>
VARIABLES acc, exact, signed, accSteps
accVars == <<acc, exact, signed, accSteps>>
VARIABLES object, holds, conversions
objectVars == <<object, holds, conversions>>

WideBuild == INSTANCE LimbArithmetic WITH Wide <- TRUE, Strings <- WideStrings, Numbers <- WideNumbers
NarrowBuild == INSTANCE LimbArithmetic WITH Wide <- FALSE, Strings <- NarrowStrings, Numbers <- NarrowNumbers
Accumulator == INSTANCE Int128 WITH MaxAccSteps <- MaxLimbSteps
Hashings == INSTANCE Hashing
Objects == INSTANCE Objects

NoPoint == /\ point = GejInfinity /\ log = 0
           /\ gen = GenBlindReset /\ enc = NoEncoding
           /\ steps = MaxSteps
NoLimbs == WideBuild!NoLimbs /\ wide = TRUE

(* One layer at a time has a state.                                        *)
NoneBut(layers) == /\ "points" \notin layers => NoPoint
                   /\ "limbs" \notin layers => NoLimbs
                   /\ "products" \notin layers => Accumulator!NoAcc
                   /\ "hashes" \notin layers => NoHash
                   /\ "calls" \notin layers => NoCall
                   /\ "codings" \notin layers => NoCoding
                   /\ "objects" \notin layers => Objects!NoObject

LibraryInit == \/ Init /\ NoneBut({"points"})
               \/ WideBuild!LimbInit /\ wide = TRUE /\ NoneBut({"limbs"})
               \/ NarrowBuild!LimbInit /\ wide = FALSE /\ NoneBut({"limbs"})
               \/ Accumulator!AccInit /\ NoneBut({"products"})
               \/ (HashInit \/ Hashings!MidInit) /\ NoneBut({"hashes"})
               \/ CallInit /\ NoneBut({"calls"})
               \/ CodingInit /\ NoneBut({"codings"})
               \/ Objects!ObjectInit /\ NoneBut({"objects"})
LibraryNext ==
    \/ Next /\ UNCHANGED <<limbVars, accVars, hashVars, call, codingVars, objectVars>>
    \/ wide /\ WideBuild!LimbNext /\ UNCHANGED <<vars, wide, accVars, hashVars, call, codingVars, objectVars>>
    \/ ~ wide /\ NarrowBuild!LimbNext /\ UNCHANGED <<vars, wide, accVars, hashVars, call, codingVars, objectVars>>
    \/ Accumulator!AccNext /\ UNCHANGED <<vars, limbVars, hashVars, call, codingVars, objectVars>>
    \/ HashNext /\ UNCHANGED <<vars, limbVars, accVars, call, codingVars, objectVars>>
    \/ NextCount /\ UNCHANGED <<vars, limbVars, accVars, hashVars, codingVars, objectVars>>
    \/ CodingNext /\ UNCHANGED <<vars, limbVars, accVars, hashVars, call, objectVars>>
    \/ Objects!ObjectNext /\ UNCHANGED <<vars, limbVars, accVars, hashVars, call, codingVars>>
LibrarySpec == LibraryInit
               /\ [][LibraryNext]_<<vars, limbVars, accVars, hashVars, call, codingVars, objectVars>>

(* LimbsImplementField and LimbsImplementScalars of LimbArithmetic, for    *)
(* both representations (field_5x52_impl.h, field_10x26_impl.h,            *)
(* scalar_4x64_impl.h, scalar_8x32_impl.h, modinv64_impl.h,                *)
(* modinv32_impl.h).                                                       *)
FieldLimbsAgree == IF wide THEN WideBuild!LimbsImplementField ELSE NarrowBuild!LimbsImplementField
ScalarLimbsAgree == IF wide THEN WideBuild!LimbsImplementScalars ELSE NarrowBuild!LimbsImplementScalars

(* The limbs of elements and scalars, and AccumulatorsAgree of Int128      *)
(* (int128_struct_impl.h).                                                 *)
LimbsAgree == FieldLimbsAgree /\ ScalarLimbsAgree /\ Accumulator!AccumulatorsAgree

(* ObjectsHold of Objects: what is parsed, saved and loaded (secp256k1.c,  *)
(* extrakeys/main_impl.h, musig/session_impl.h); and MidsAgree of Hashing: *)
(* hash objects that the code loads from literals (musig/keyagg_impl.h and *)
(* others).                                                                *)
ObjectsHold == Objects!ObjectsHold /\ Hashings!MidsAgree
=============================================================================
