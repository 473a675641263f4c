# TLA+ models of rust-secp256k1

This directory holds TLA+ modules that model rust-secp256k1 and the C library it
vendors, the TLC configurations that check them on small instances, and proofs,
checked by TLAPS, that the properties hold for every value of the parameters.
`PROJECT.json` lists the runs, the mutants of each property, the source lines
behind each definition, the findings, the hazards and the theorems.

To check a run: `tlc -config MCMusig.cfg MCMusig.tla`; to check the proofs of a
module: `tlapm MusigProofs.tla`.

## 1. Inventory

rust-secp256k1 is a Rust API (`src/src`) over a vendored copy of libsecp256k1
(`src/secp256k1-sys/depend`), bound by the crate secp256k1-sys. The parts that
keep state, or are a protocol, come first; those below the line compute values
from values, in ways that are hard to test since the values that matter are rare.

| Part | State | Operations | Interacts with | Hard behaviour | Modelled |
|---|---|---|---|---|---|
| Global context, no_std (`context/internal_nostd.rs`, `context/spinlock.rs`) | one static: flag and context; a context on the stack of each call | `try_lock`, guard drop, `with_raw_global_context`, `rerandomize_global_context` | every signing function goes through it; its C functions clone, create and randomize | threads and interrupt handlers that preempt each other inside the critical section; a lock that gives up; memory ordering; unwinding | `SpinLock`, `GlobalContext`, `ContextCell` |
| Global context, std (`context/internal_std.rs`) | a thread-local `RefCell` | the same two functions | the same callers | calls nested in the callback; panics, caught or not; destroyed thread-locals | `GlobalContextStd` |
| Fuzzing build (`secp256k1-sys/src/lib.rs` and `recovery.rs`, `fuzz_dummy`) | an atomic flag and a static buffer; keys that are their own public keys | `secp256k1_context_preallocated_create`, and a dummy for each function on keys and signatures | everything that creates a context; programs under a fuzzer | a hand-written once flag that late threads overwrite; memory ordering; dummies that must agree with one another as the library does | `OnceFlag`, `FuzzDummy` |
| Context life cycle (`context/mod.rs`, `lib.rs`, `secp256k1-sys/src/lib.rs`) | blocks of the heap, buffers of the user, what they hold | `gen_new`, `Clone`, `preallocated_gen_new`, `from_raw_*`, `Drop`, `context_create`, `context_destroy` | the allocator; the C context functions | ownership that differs by the type parameter; sizes computed twice | `ContextLifecycle` |
| MuSig2 (`musig.rs`, `keyagg_impl.h`, `session_impl.h`) | `KeyAggCache`: the C cache and a Rust copy of the key; secret nonces, a `Session`; what has been sent | key aggregation and tweaks, nonce generation and aggregation, `Session::new`, `partial_sign`, `partial_verify`, `partial_sig_agg`, `AggregatedSignature::verify`, nonce bytes out and in | several signers; Schnorr verification | signs that accumulate over tweaks; repeated keys; messages lost, repeated, out of order; crashes; stale caches; nonce reuse | `Curve`, `KeyAgg`, `Musig` |
| Keys, x-only keys, tweaks, ECDH, Schnorr signatures (`key/`, `scalar.rs`, `ecdh.rs`, `schnorr.rs`) | `SecretKey`, `Keypair`; public keys that others hold | negate, add and multiply tweaks, x-only tweaks, `combine`, `tweak_add_check`, shared secrets, signing and verification | the owner of a key and those that derive the same from its public half | parities that get lost, zero and infinity on one side only, half of a key pair updated | `Keys` |
| ECDSA and recovery (`ecdsa/`, `ecdsa_impl.h`, `modules/recovery`) | the counters of a signing call; a signature and what is done to it | `sign_ecdsa*`, grinding, `verify`, `normalize_s`, `sign_ecdsa_recoverable`, `recover`, conversions | global context | two nested loops that restart each other, low S, ids that follow a negated s, x coordinates beyond the order | `Ecdsa` |
| Field elements and scalars (`field_*`, `scalar_*`, `modinv*`, `int128_struct_impl.h`) | limbs | normalization, sums, products, halves, comparisons, inverses, Jacobi symbols | group formulas, keys | carries that are zero for nearly every input; two representations and an assembly version; magnitudes that nothing checks in a release build | `Field`, `FieldLimbs`, `ScalarLimbs`, `Modinv`, `Int128`, `LimbArithmetic` |
| Group and multiplication (`group_impl.h`, `ecmult*_impl.h`) | points; the blinding of the generator's context | doubling, additions in mixed coordinates, comparisons; products by three methods, multi-products, tables | fields below, keys above | exceptional cases of the formulas, digits and carries of the recodings, splitting by the endomorphism, blinding that follows itself | `Group`, `Ecmult`, `EcmultConst`, `CurveArithmetic` |
| ElligatorSwift (`ellswift.rs`, `modules/ellswift`) | none | encoding, decoding, exchange of keys | multiplication by x coordinates only | eight branches of the inverse, exceptional pairs, which party is which | `EllSwift`, `CurveArithmetic` |
| Hashing (`hash_impl.h` and the functions that hash) | a hash object: state, buffer, count; a generator | write in chunks, finalize, HMAC, RFC 6979, tags | nonces, challenges, key aggregation | padding at the ends of blocks, midstates as literals, inputs that could be confused | `Sha256`, `Hash`, `Hashing`, `Inputs` |
| Encodings (`ecdsa_impl.h`, `lax_der_parsing.c`, `serialized_signature.rs`, `lib.rs`, `hsort_impl.h`) | an array and its length; an iterator | DER, lax DER, compact, hexadecimal; a sort in place | FFI objects | lengths at the ends of buffers, zeros before integers, odd lengths | `Encodings` |
| Objects of the API (`secp256k1.c`, `extrakeys`, `musig`, `recovery`, their Rust types) | opaque bytes | parse, serialize, load, save, convert, compare, hash, erase | everything above | objects that failed to parse, magic bytes, parities on the way, infinity as zeros | `Objects` |
| serde, display of secrets, macros, FFI declarations | none | | | | no: formatting and declarations |

Correctness of each modelled part, in one sentence:

- *no_std global context*: whoever interrupts whom and wherever, the static is
  accessed by one process at a time and without a data race, nobody ever copies
  or uses a context that is not complete, every call returns, and the whole
  behaves as an atomic cell.
- *std global context*: the borrows of the RefCell are exactly the callbacks in
  progress, and the context does not change while one runs.
- *fuzzing build*: one thread builds, the assertions hold, all return, what is
  copied has been built; and programs cannot tell dummy keys from real ones by
  what must agree, but for the exceptions named in section 3.
- *context life cycle*: no destroyed context is used, every block is freed once
  and with its layout, and every context fits its memory.
- *MuSig2*: the accumulated sign and tweak account for the key; honest partial
  signatures verify, verified ones aggregate to a valid signature, a bad one
  spoils it, and no nonce signs twice.
- *keys*: whatever the owner does to its key pair, failed steps included, the
  same steps on the public key give the same key; the check of a tweak accepts
  that tweak only; the pair works for all that followed.
- *ECDSA*: of the signatures with a given r and s up to sign exactly the one
  that was made verifies and exactly one recovery id gives the signer's key;
  grinding returns the first signature that passes, and every call returns.
- *limbs*: whatever came before, the limbs stand for the number that the
  operation promises, and the conditions for the next operation are met.
- *group, multiplication, ElligatorSwift*: in whatever coordinates, a point is
  the multiple of the generator that it should be; no field element ever breaks
  a contract on magnitudes; comparisons decide; both parties get one secret.
- *hashing*: chunks do not matter, and different calls hash different strings,
  but for the blinding of a context, which hashes what a nonce may.
- *encodings, objects*: what is written is read to the same value, exactly the
  encodings of the standards are read, and what failed is refused.

## 2. Modules and plan

Written, in this order; each extends or instantiates those before it:

1. `SpinLock`, `GlobalContext` (extends it), `ContextCell` (what the latter
   promises; `GlobalContext` refines it), `GlobalContextProofs`.
2. `OnceFlag`; its theorems are in `FuzzDummyProofs` (10).
3. `GlobalContextStd`; its theorems are in `GlobalContextProofs` too.
4. `Curve` (the group by logarithms), `KeyAgg` (the operators on a cache),
   `CurveLemmas`, `Musig` (several caches, sessions, a network), `MusigProofs`.
5. `ContextLifecycle`, `ContextLifecycleProofs`.
6. `Keys` (over `Curve`), `KeysProofs`. `Ecdsa` (over `Curve`), `EcdsaProofs`.
7. `Field`, `Group`, `Ecmult`, `EcmultConst`, `EllSwift`: operators, one module
   per file of the library, each extending the one before. `CurveArithmetic`
   is the state machine over them.
8. `Modinv`; `FieldLimbs` and `ScalarLimbs` extend it; `LimbArithmetic`
   instantiates both for one of the two builds and has the state machine.
   `Int128` is one of its own.
9. `Sha256` (operators), `Hash` (state machine), `Hashing` (an instance of it);
   `Inputs`; `Encodings`; `Objects` (over `Group`).
10. `Library` composes 7 to 9; `LibraryProofs` proves about `CurveArithmetic`,
   `Hash`, `Inputs` and `Encodings`. `FuzzDummy` extends `OnceFlag`; `FuzzDummyProofs`.

Left, in this order:

11. That the formulas of `Group` compute sums of points (polynomial identities,
    which the installed provers do not reach but for single steps).
12. Conversions between `Scalar` and `SecretKey`, serde.

## 3. How the modules correspond to the code

### SpinLock and GlobalContext

`SpinLock` has one action per atomic operation. `flag` is the AtomicBool and
`guard` the set of processes that own a `SpinLockGuard`; `tries` counts the
attempts that `try_lock` has left. Data races are made visible by two further
variables: `seen` is the set of processes that are ordered after every access
made so far, `flagSeen` tells whether the value in the flag was written, with
release ordering, by one of them. An access empties `seen` but for its maker, an
acquire of a flag that carries the order adds a process. A race is then an
owner of the guard who is not in `seen`. The flag itself is sequentially
consistent in the model: `compare_exchange` reads the last value in any memory
model, and all other accesses are stores.

`GlobalContext` has one action per step of `with_raw_global_context`; the
creation and the copies of a context take two steps each, between which the
target is `torn`, so that an interrupt can come in the middle. A context is the
pointer (`ptr`, the Option), the state of its bytes, and the seeds mixed into
it. `over[h]` is the process that handler h has preempted; only a process that
nobody preempts takes steps. A callback that calls the function again is a
handler raised at `pc = "f"`. A callback that unwinds leaves the function
without the randomization (`FLeaves`).

The context that f gets is created anew on the stack even if the copy
succeeded, since `clone_into` does not set the pointer; this is in `RawCtx` and
is the finding of run `global_context_entropy`.

`ContextCell` is the abstract specification: a cell, snapshots of it, and
replacements in one step. `ImplementsCell` maps the moment a snapshot is taken
to the return of `raw_ctx`, and a replacement to the beginning of the copy back.
It allows snapshots of the cell and new contexts; the code only ever takes the
second.

### GlobalContextStd

Thread-locals share nothing, so the model is one thread: `frames` is the stack
of calls, `readers` and `writer` the borrow flag of the RefCell. Inside f there
may be further calls (`MaxDepth` bounds them), f may panic, and a panic may be
caught inside an outer f or outside of all calls. `cell` becomes `destroyed`
when the thread runs its destructors; a later access panics. A call goes from
`Borrow` over f (`FEnds`, or `FUnwinds` after a panic) to `BorrowMut` and
`MixSeed`. Names that `GlobalContext` has too carry the prefix `Std`, so that one
module can extend both.

### OnceFlag

The flag, the value each thread has in `have_ctx`, and the static buffer. A
relaxed load may return any value the flag has had (`past`), except `NONE` after
the thread has seen another one, which coherence rules out; the acquiring loads
and swaps return the current value. `carries` and `ordered` play the parts of
`flagSeen` and `seen`.

### ContextLifecycle

`heap[b]` is the size a block was allocated with, `content[m]` whether the
context at m is built. An object is of kind `heap`, `preallocated` or `view`
according to what its `deallocate` and its wrapper do; sign, verify and all
have the same size and are not told apart. `faults` collects the calls that the C
library answers with its illegal-argument callback, and deallocations that are
undefined. Callers obey the borrow checker and the safety sections: a buffer is
lent to one object, a raw context is not destroyed while views of it are in
scope. Allocation failure does not return and is not a step.

### Curve, KeyAgg and Musig

A point is written by its discrete logarithm, so that the group is the additive
group of the scalars. The ring is a parameter with the assumptions of
`Curve.tla` (a commutative ring with 1 # 0, and a parity that a negation flips):
the theorems hold of the field of secp256k1, and TLC computes modulo a small
prime. An x-only key is the set of the two points with its x coordinate. Hash
functions are parameters, of which nothing is assumed but their range.

`KeyAgg.Tweaked` follows `pubkey_tweak_add_internal`, sign flip included, and
the Rust code that stores the returned x-only key; an infinite result leaves
both copies unchanged. The aggregate at infinity, which the code excludes as
negligible, is excluded in `Init`.

In `Musig` each signer has its own cache, nonces and session, and may use any
nonces and partial signatures ever sent: `pubnonces` and `partials` only grow,
so that loss, delay, duplication and reordering need no action of their own. A
signer may tweak its cache after its session was made, start another session
with the same nonce, move nonces out as bytes and restore them as often as it
likes, and crash, which loses what is in memory and keeps exported bytes and
the drawn randomness. A refused `partial_sign` (the key pair of another key)
consumes the nonce and panics. `partials` records, as history, the session and
the cache a signature was made with. Final nonces at infinity are replaced by
the generator as in the code; the correctness properties are about the other
sessions (`degenerate`), since after the replacement the nonces no longer add
up, which a signer can only bring about by choosing its nonce after the others'.
That the generator is what replaces them is in the model, but no property depends
on it, as `partial_verify` does not.

### Keys

Every party has a key pair and derives from it; the others hold its public key
(`view`) and the list of what was done (`steps`), and repeat it with the public
functions, at any distance behind. A secret key or scalar is a scalar, `Error` is
what a failing function gives: on both sides the old key is kept then, since the
functions of Rust work on a copy. The two halves of a `Keypair` are computed one
by one as in `keypair_xonly_tweak_add`. An x-only key is its point of even y,
which is what `xonly_pubkey_load` makes of it; a parity travels beside it.
`AddBase` uses a secret key as tweak (`Scalar::from`), whose public counterpart
is `combine`. `add_exp_tweak` and `mul_tweak` of public keys are `AddExpTweak`
and `MulTweakPublic`. What ECDH hashes is the point's x coordinate and the parity of
y; `SharedSecretPoint` is the function with a callback. `SchnorrSign` follows
`secp256k1_schnorrsig_sign_internal`, with auxiliary random data, as drawn by
`sign_schnorr`, or without, and gives `Panicked` where the assertion of
`sign_helper` would fail. The assumption added to those of `Curve` is that products
of scalars other than zero are not zero.

### Ecdsa

One signing call runs at a time, and one action is one iteration of its two
loops: `RetryNonce` that of `ecdsa_sign_inner`, after a nonce that is no scalar
or gives r or s zero; `Grind` that of `sign_grind_with_check`, which writes its
counter in the place of the noncedata and starts the inner loop anew. The
signature returned is then passed around: written out with the other s and
parsed (`ParseOtherS`), given any recovery id (`FromCompact`), stripped of it
(`ToStandard`) and normalized (`NormalizeS`). The x coordinate of a point is
modulo the order, and whether it was reduced is the upper bit of the recovery
id. The inverse, the x coordinates, the nonce function and the lengths of the
encoding are parameters with assumptions. `sig` carries as history the
signature as it was made and the call that made it.

Not part of the model: `71 - bytes_to_grind` of `sign_grind_r` wraps for
arguments above 71 in release builds, and grinding for more than a few bytes
takes longer than anybody waits; the model's arguments are those for which the
call can end. (Its documentation says "less than", `der_length_check` accepts
equal.) The header of the recovery module says that a successful recovery
guarantees a correct signature, which holds of a low s only (`ecdsa/recovery.rs:211`
does not normalize); `RecoveredVerifies` is stated with that condition.

### FuzzDummy

In the fuzzing build a public key is the secret key with a parity that is its
highest bit, and a signature is the message and the key. A
string of 32 bytes is a number, in the run one of two bytes of two bits each;
`XorOf` is a parameter, which TLC takes from `Bitwise`. The model has the
dummy of every function that `fuzz_dummy` replaces, the secret-key functions of
the C library that it uses, an owner who changes its key pair and others who
follow on the public half, and the contexts of `OnceFlag` that all of this
needs. A Schnorr message is its length and the bytes at its address: signing
reads 32 of them (`Reads`), whatever the length. `EcPubkeyCombine` is the loop over
any number of keys (`RunningSums`).

Two things that the dummies do not keep are exceptions in `DummiesKeepPromises`,
which says what happens instead. A signature of a message that is not 32 bytes long
does not verify, since verification compares all bytes of the message with those
signed; for a longer message it is a signature of its first 32 bytes, for a shorter
one of whatever comes after it, and for an empty one there is a null pointer, on
which a debug build panics. And `ec_pubkey_combine` fails on a partial sum of
zero, where the library looks at the whole (`Totals`). Some more it does not ask
for: the parity of an x-only key is inverted, so that
`from_x_only_public_key` with it does not give the key back;
`keypair_xonly_tweak_add` and `xonly_pubkey_tweak_add_check` panic where the
library returns an error; a key parsed from its long form loses a parity that is
not its own.

### Field, Group, Ecmult, EcmultConst, EllSwift and CurveArithmetic

A field element is its value, its magnitude and whether its limbs are the
canonical ones, as `field_impl.h` keeps track of it in builds with `VERIFY`. An
operation that gets more than its contract admits gives a magnitude (`Broken`)
that no contract admits, so that a breach anywhere shows in what comes out.
Points are affine (`Ge`) or jacobian (`Gej`), and each operator follows the
formula of its function, exceptional cases and the magnitudes that a formula
relies on included. `Ecmult` has the recoding in windows (`Wnaf`), the tables
of odd multiples with their common z, the split by the endomorphism, Strauss's
and Pippenger's methods and the choice between them; `EcmultConst` the products
in constant time, for any point, for x coordinates only, and for the generator,
with its comb tables and blinding; `EllSwift` the map of two field elements to an
x coordinate and its inverse.

The curve is one of prime order over a small field, y^2 = x^3 + 7 as in the code,
with an endomorphism, so that the exceptional cases happen: a point is equal or
opposite to the other one, or to its image under the endomorphism, in a good part
of all additions. `CurveArithmetic` puts a point through operations, one after the
other; `log` is what it should be the multiple of. The reference (`Multiples`)
is computed by the chord and tangent rules on plain numbers. Points come with
the largest magnitudes that a function may leave (`Loose`), `gen` is the blinded
context of the generator, `enc` an ElligatorSwift encoding on its way. Where the
code branches on a hash (u and the branch of the inverse) the model takes any of
them.

### Modinv, FieldLimbs, ScalarLimbs, LimbArithmetic, Int128

A number is a sequence of limbs. The representations of the two builds (five
limbs of 52 bits and four words of 64, or ten of 26 and eight of 32) differ in
the number of limbs, in the bits of the last one and in how a product is folded,
all of them parameters; the limbs have few bits here, and the modulus has the
shape of the prime, 2^n less a number that fits a limb or two. The scaled modulus
is a product of small primes, of which the reference value of a number is kept as
its residues (`Factors`): no operation but the inverse and the Jacobi symbol
depends on its being prime, and these are tried on units. What a comparison, a
carry or a conditional subtraction in the code looks at is a limb, so that a
carry that has probability 2^-64 there is one of a few values here: `Strings` and
`Numbers` are those next to the modulus and to powers of two.

`ScalarLimbs` has the accumulator macros of C (`MulAdd`) and the three registers
of the x86_64 assembly (`MulAddAsm`). `Modinv` has the division steps in
constant and in variable time, the updates of d, e, f and g that take several
steps at once, and the Jacobi symbol. `Int128` is the arithmetic of two words for
compilers that have no such integer.

### Sha256, Hash, Hashing and Inputs

`Hash` follows the streams, HMAC and the generator of RFC 6979 over any function
that compresses a block: the sizes of blocks, digests and of the length at the end
are parameters, and so is exclusive or. Its state is one hash object, one MAC or one
generator, together with what was written to it or asked of it; the steps are
`secp256k1_sha256_write`, `secp256k1_hmac_sha256_write` and
`secp256k1_rfc6979_hmac_sha256_generate`. Beside the operators of the code there are
those of the standards (`WholeHash`, `WholeHmac`, `AfterCalls`), which get the whole
text, or all the calls, at once; `HashesAgree` compares the two. The run
has a small function on blocks of 8 bytes, of which the end of a block and the ends of
the padding are near for every length. `Hashing` instantiates `Hash` with SHA-256
itself (`Sha256`), for the midstates and the mask that the modules hold as literals
(`MidsAgree`, a part of `ObjectsHold`).

In `Inputs` a call of one of the thirteen functions of the library that hash their
arguments (not `tagged_sha256`, whose tag is the caller's, nor functions that callers
pass) is
the string that it hashes: two calls are to hash the same string exactly if they
have the same function and arguments (`view`). The string is of symbols, of which
32 bytes are two, and starts with a symbol below zero for the tag if the function
has one. The hash of the auxiliary number that masks a key is the number itself,
put above the key where the code has exclusive or: distinct hashes are taken not to
cancel. One coincidence is named in the property: `secp256k1_ecmult_gen_blind`
hashes its offset and the caller's seed in the same way as the default nonce
function hashes a key and a message, if that has neither data nor algorithm
(`Emulates`). Its generator is for two numbers that blind, and does not leave the
context.

### Encodings

Strings are sequences over a base of 256 at most, and a scalar has `Width` digits,
two in the run. Every
signature starts as an encoding, good or bad, and bytes of it are replaced,
inserted and deleted; hexadecimal strings are typed character by character into
targets of different lengths; an iterator is taken from in both directions; an
array is sorted step by step. References are the rules of X.690 and
the multiset of what is sorted: `DerPairs` has the two integers of which a string is
the encoding (`DerOfPair`), if it is one. `SizesAssumption` is what the sizes of the
code satisfy: bytes have a sign bit, a signature whose numbers are scalars fits the
buffer of 72 bytes and its length a short form, and the order fits the bytes of a
scalar. Inputs are of fewer bytes than the base (`SeedsAssumption`): a length takes
one byte or two, and longer forms, which the parsers read, come about in edits only.

### Objects

An opaque object is a sequence of cells, each a number that the code writes as
bytes or words; cells are as large as the strings that a caller may send, numbers
beyond the order or the prime included. An object that fails to parse is cleared
as in the code, or, for aggregated and public nonces, left as it was, and `holds`
is, as history, the numbers that it stands for. Conversions follow: negation,
x-only keys and parities out and in, erasure, invalidation of a secret nonce by
a flag.

### Library

`Library` composes the state machines of these layers: in each behaviour one
layer is at work (`NoneBut`), from any of its initial states, and the others
rest. It extends those it has theorems of (`CurveArithmetic`, `Inputs`, `Hash`,
`Encodings`) and instantiates the others. Nothing is shared between them but the constants of the curve.

## 4. Runs

| Run | Question | Bounds |
|---|---|---|
| `global_context` | safety of the no_std global context, its refinement of `ContextCell`, and that every call returns | two threads, a handler that may preempt either at any step, two seeds, two attempts of the lock |
| `global_context_entropy` | violation: are earlier seeds kept? | one thread, two seeds, one attempt |
| `global_context_std` | borrows, and the stability of a context that is in use | nesting of three, two seeds |
| `fuzz_dummy` | the once flag, and that all return; then, whether the dummies agree with one another | three threads; keys of four bits, an order of 13, five tweaks, three messages, eight Schnorr messages of zero to three bytes where a full one has two, four lists of one to three further keys |
| `once_flag_order` | violation: is every copy ordered after the build? | three threads |
| `context_lifecycle` | memory of contexts | three objects, three blocks, a buffer that fits exactly and one a word short |
| `context_lifecycle_clone` | violation: is what deallocate leaves alone the user's? | the same |
| `musig` | signing with tweaked and stale caches, with a key listed twice and the negated key pair of its owner; whether the caches account for their keys; nonces sign once | two signers, a group of 13, one nonce each, exported bytes for one, two tweaks of each cache, one message |
| `musig_any_bad` | violation: do two bad partial signatures always spoil the signature? | one nonce each |
| `keys` | owners and followers of keys agree, and the keys work in ECDH and in Schnorr signatures | two parties, a group of 11, two derivations each, three tweaks |
| `ecdsa` | signing loops, verification, recovery, and that every call returns | a group of 23, four keys, five messages, grinding for up to two bytes, 30 rounds of it |
| `library` | the layers of the C library and the conversions around it, each against its reference | a curve of 907 points over the field of 967 elements; two operations on a point; two on limbs, in both builds, of 10 and 7 bits with the moduli 2^48 - 5 and 2^67 - 277; three chunks of a hash of at most 26 bytes; two edits of a DER signature of at most 12 bytes, of bytes below 32; four characters; arrays of six; two conversions |

Why the bounds are enough. Two attempts are the smallest number for which
spinning and giving up differ. Two threads and a handler give all the roles:
the holder, the process preempted inside the critical section, and a contender
that is not preempted. Three threads are a builder, one that overwrites the
flag and one that waits. Three blocks and objects are an original, its clone
and a reuse of freed memory. In the group of 13 elements both parities of the
aggregate key and nonce and final nonces at infinity occur; two tweaks are the
smallest number after which a sign has to be carried on. The repeated key has a
coefficient other than zero, and after a plain tweak of its aggregate the same
tweak leads to infinity and fails, while the x-only one does not. Of the lists of
keys in `fuzz_dummy` some have partial sums of zero, of its Schnorr messages some
are the beginnings of others. In `keys` two
derivations are an update and another one on its result, of either parity;
addition and multiplication both fail for one of the tweaks. In `ecdsa` the
x coordinates, of which some exceed the order, and the nonce function are
chosen such that r is zero for some nonces, s for others, some nonces are no
scalars, and each kind of call has to go through its loops; the bounds on the
two counters are beyond what these calls need, so that they cut nothing off.
In `library` the points start from the magnitudes that any function may leave and
in three kinds of coordinates, so that the second operation sees all that the
first can lead to; the seeds of the blinding include the scalar and the field
element that the code replaces. Limbs start from the values next to the modulus,
with and without their room in use, and both operands of the second operation may
be such. The blocks of the small hash have 8 bytes with a length of two, so that
26 bytes have every position of the padding three times; keys are empty, shorter than
a block, as long, and longer. Two edits make of an
encoding whatever is one byte away in its tag, length or padding, and one away
from that. What remains a matter of size in the protocols is covered by the
theorems, which have no bounds; in the library it is a matter of trust that
limbs of few bits behave as those of many.

`keys` and `library` are run without the deadlock check: their steps are bounded,
and they end when these are used up. In all other runs there is always a step.

Every property of a passing run has a mutant, a change to one definition that a
plausible bug would make, defined next to it and marked `Mutant:`.

Liveness. `CallReturns` assumes strong fairness of the steps of t1 and of the
handler, and nothing of t2, which may stop inside its critical section: a
processor that is interrupted again and again still executes an instruction of
the interrupted code now and then, and it is strong since the step is disabled
while a handler runs. `CallersReturn` assumes weak fairness of each thread, as
the operating system's scheduler gives to threads that yield in their loop.
A thread that is not scheduled while it holds `WORKING` does block the others,
in the code as in the model. `CallsReturn` of `Ecdsa` assumes only that a call
that has begun runs on (weak fairness of `Iterate`). That the nonce function
and the encoding's length let both loops end is a fact about the instance, as
it is about SHA-256 in the code; what the run shows is that no loop repeats
itself: the counters that make the next round different do change.

## 5. Findings

With a run:

1. `global_context_entropy`: the no_std build never uses the copy of the global
   context, and loses the entropy of earlier calls
   (`context/internal_nostd.rs:123`).
2. `once_flag_order`: the relaxed first load does not order the copy after the
   build (`secp256k1-sys/src/lib.rs:1533`; fuzzing build only).
3. `context_lifecycle_clone`: clones of preallocated contexts leak
   (`context/mod.rs:267`).
4. `musig_any_bad`: the documentation of `partial_verify` says that a full
   signature with an invalid part does not verify; two invalid parts can cancel,
   for instance when exchanged (`musig.rs:1195`). With one bad part it is true
   (`OneBadPartialIsCaught`, proved).

Without one, since they are settled by reading:

- `ElligatorSwift::new` (`ellswift.rs:83-96`) passes `context_no_precomp`, whose
  generator is not built; the argument check of `ellswift_create` fails and the
  illegal callback ends the program. No test calls it. In the model no encoding
  comes out of `New`.
- The comments at `ellswift/main_impl.h:384`, `414`, `435` and `472` name tags
  with the prefix `rustsecp256k1_v0_12_`, but the midstates below them are those
  of the tags without it, which `MidsAgree` compares.
- `Signature::from_str` refuses a text of more than 72 bytes that `from_der`
  would read: numbers that count as zero may have any length (`TextHolds`).
- `sign_grind_r` promises "less than" `71 - bytes_to_grind` bytes, and
  `der_length_check` accepts as many; the subtraction wraps beyond 71.
- `secp256k1_ellswift_xdh` forgets that a key exceeded the order
  (`ellswift/main_impl.h`), so that one is reduced rather than refused; no
  `SecretKey` is such.

## 6. Theorems

All theorems hold for every value of the constants that satisfies the
assumptions, and are checked by TLAPS.

- `GlobalContextProofs`, the lock: the invariant `LockInv` says that the flag is
  set iff somebody has the guard, that at most one has it, that the holder is ordered
  after the earlier accesses and that the flag carries this order when nobody
  holds the guard. `UniqueGuard` and `NoDataRace` are not inductive without the
  first and the last part.
- `GlobalContextProofs`, the context: the invariant adds to that of the lock which
  labels hold the guard, and what is known of the local context at each label. The
  properties of the contexts (`ContextsIntact`: none is passed to a callback by
  the holder of the guard, what is stored is whole, what is used is valid) and the
  refinement of `ContextCell` follow, one step per action.
- `GlobalContextProofs`, the std build: `BorrowsAreFrames` counts frames at any
  place of the stack, so it does not follow from itself over the steps that pop
  one. The invariant `StdInv` says where they are: the calls inside f are the outer
  ones, all or all but the innermost (`Nested`), all while a panic unwinds; and a
  writer is alone, in a stack of one call with no reader (`WriterAlone`). The
  counting, the stability of the context under f and the mixing of seeds follow,
  for calls nested to any depth.
- `FuzzDummyProofs`, the flag: the invariant says that the flag is `NONE` only until the
  first swap, that the process of that swap is the only builder, and that once
  `DONE` has been stored the static is valid and every later value of the flag
  carries the order, so that who swaps `WORKING` over `DONE` and restores it is
  itself ordered after the build. `FlagStaysSafe` carries this over to
  `FuzzSpec`, whose other steps leave the flag alone.
- `FuzzDummyProofs`, the dummies: the invariant `DummyInv` says that the key pair and
  the view are those of one scalar; each step applies to both sides functions
  that agree (`DummiesFollow`). The promises follow for strings of any length,
  any prime order in the upper half of them, messages of any length and any lists of
  keys: the running sums are the totals up to the first that is zero (`SumsAgree`),
  and combining public keys gives what is left of them (`CombineFollows`). Exclusive or is only known by its
  laws (`XorAssumption`). What takes an argument is recovery: `FlipUntilKey`
  panics unless a flipped string is a key. `FlipsReachKey` shows that one is:
  zero becomes a key by the first flip; a string not below the order keeps its
  highest bit until the last bit of the first byte, which is that one, is
  flipped, and is below the order then; and if it is zero then, it was a key just
  before. `Recursion` and `UpTo` stand in for the library's theorems on
  recursive functions and induction, as in `CurveLemmas`.
- `ContextLifecycleProofs`: each live object holds memory of one of four sorts,
  different objects hold different memory but for views, raw blocks and stray
  blocks are allocated with their size. One lemma per action. `Fit` needs that
  rounding up to words suffices.
- `CurveLemmas`: the ring (negations and signs) and finite sums. The sum of a
  sequence is a recursive function; that it exists and unfolds (`SumsExist`,
  `SumsUnfold`) is proved by a least counterexample (`LeastElement`), since the
  library's induction theorems take an operator as parameter.
- `MusigProofs`, caches: new caches are sound and tweaks keep them sound; the
  accumulated sign and tweak account for the key, and the Rust copy is that of
  the C cache (`CachesAccountForKeys`).
- `MusigProofs`, sessions: a partial signature is the signer's share e*a*x + k with its
  signs, and `partial_verify` accepts exactly the share (`VerifiesIffShare`);
  the shares add up to the signature (`AcceptedIff`). That gives both directions
  at once: all accepted shares aggregate, and one wrong summand changes the sum.
  The state invariant says that sessions and partial signatures were produced by
  the functions of the module, and which nonces are still unused; from it
  follows that a nonce is consumed by signing.
- `KeysProofs`: `ViewsFollow` compares a follower with one of the keys that the
  owner had, and says nothing of how the next one came about. The invariant
  `StepsPublic` does: each step that was told is the public function applied to
  the key before it, or leaves that key where the function fails, and the last
  gave the present key (`Current`). That a step of the owner preserves it is that
  the secret functions agree with the public ones and fail for the same keys
  (`TweaksAgree`, `XOnlyTweaksAgree`, `DeriveStep`), for which every scalar times
  the generator must be that scalar (`MulG`); the follower then stays on the path of
  the owner at any distance, although it may be told several steps before it takes
  one. `ChecksBind` holds since a point is determined by its x-only key and parity
  and adding is injective; `KeypairsWork` since a Schnorr signature verifies with one
  s only. `ErrorAssumption` keeps failures apart from the values that may be
  returned in their place.
- `EcdsaProofs`: a pair r, s fits a point R for a key and a message if s*R is
  r*sk*G + m*G and r is R's x coordinate. Signing makes a pair that fits the
  nonce point or its negation (`SigSignFits`), a pair that fits verifies
  (`FitsVerifies`), negating s negates R (`FitsNegated`), and the key of a pair
  that fits R is recovered from the id of R and from no other (`FitsRecovers`).
  The state invariant carries this from the attempt that made a signature
  through everything that is done to it. For grinding it says that all earlier
  values of both counters have been tried and did not do (`InOrder`).
- `LibraryProofs`, magnitudes: on every curve over every field, no operation of `group_impl.h`
  without a loop, and neither the decoding of ElligatorSwift, breaks a contract on
  magnitudes, whatever points within the bounds of `group.h` it gets
  (`GroupMagnitudes`). The property itself only bounds
  magnitudes from above; that they are natural numbers, of which sums and the
  halving in `FeHalf` are bounded, is the strengthening (`IInv`). One lemma per operation on elements says what
  magnitude it leaves; one per operation on points adds them up. The theorem is
  about `GroupSpec`, the steps named in `GroupNext`; loops (multiplications,
  batches, the search of an encoding's u) are recursive functions over data, and
  their magnitudes are model-checked.
- `LibraryProofs`, inputs of hashes: `InputsNeverMix` is a fact about the strings
  alone, for any sets of arguments with the lengths of the code
  (`InputsAssumption`). The tag tells the function; of the four functions without
  one, two hash strings of a length of their own, which no input of the third, the
  default nonce function, has (`KindOf`). The fourth, the blinding of a context, hashes
  strings that are a nonce's with neither data nor algorithm and no other call's
  (`BlindFacts`, `NothingAfter`). One lemma per function
  tells its arguments apart: parts of a fixed length are cancelled from the left
  (`Cancel`), an optional part is known from the length of the whole, or, in the
  nonce function of MuSig, which has three optional inputs and a message, from its
  own length in front (`HelperCancel`, `MessageCancel`); that a nonce without a key is
  not confused with one that is masked rests on the mask (`RandomCancel`). The
  list of keys is a recursive function; the strings of its first keys are three
  times as long as there are keys, and the last key is cancelled first
  (`FlattenCancel`).
- `LibraryProofs`, sort and iterator: two of the four parts of `CodingsAgree`. `SortAlwaysAgrees` holds of arrays of any length and any number of
  keys in any order, at every comparison of the heap sort, while the heap is built
  and while it is taken apart. What `SortAgrees` says is not inductive: when an
  element goes down, the larger of its children comes under its own parent, so the
  invariant adds that the parent of the place being repaired is not below the
  children of that place (`Bridged`). That a swap keeps the keys is a bijection
  between places (`SwapPermutes`); that the root is the largest, which the second
  phase rests on, is an induction up the heap with `UpTo` (`RootIsLargest`).
  `IteratorAlwaysAgrees` is that the rest is the part of the string between the two
  positions, whatever moves them (`NthMoves`, `BackMoves`).
- `LibraryProofs`, signatures and hexadecimal strings: the other two parts, and with
  them `CodingsAlwaysAgree`, for every even base up to 256, order, size of scalars
  and buffer with `SizesAssumption`, which has those of the code as an instance. The
  invariant is only that inputs are strings of bytes, shorter than the base
  (`DerCodings`), or of characters (`HexCodings`); the rest is said of every such
  string. Numbers come first: a value is that of its digits and has no others of this
  number (`ScalarBytesValue`, `ValueScalarBytes`), zeros in front do not
  change it (`ZerosBefore`), and `Digits`, which leaves out zeros as long as the
  number stays positive, gives the one minimal integer with the value
  (`DigitsFacts`, `DigitsOf`). Then the parsers, from the inside out and each in two
  directions: where an encoding is, it is read, to its value and its end (`LenReads`,
  `ContentReads`, `IntegerReads`, `PairReads`, `DerReads`), and what is read is an
  encoding (`LenRead`, `ContentRead`, `IntegerRead`, `PairRead`, `DerRead`). The
  lax parser is followed beside the strict one in the first direction; of all
  else that it accepts, only that it leaves a signature of two scalars matters
  (`LaxRead`, `LaxSigFacts`). What is read from its own serializations follows
  (`SignatureHeld`). The loop of `from_hex` has bytes and half a byte after each
  character (`HexAfter`), and reads pairs of digits and nothing else (`FromHexExact`,
  `FromHexNot`).
- `LibraryProofs`, streams: `HashesAlwaysAgree` is `HashesAgree` for every function
  that compresses blocks, any sizes of blocks, digests and lengths, keys, tags and
  seeds of any length, texts in any chunks and calls for any numbers of bytes. The
  assumptions are that the digest fits a block, that the length of a text leaves room
  in a block for a byte, and that the inner mask takes the place of the outer one; TLC
  evaluates them for the run, and SHA-256 has them. The hypothesis of the theorem is
  `Compresses`: a block takes a state to a state, and the digest of a state has its
  length. For SHA-256 the states are eight words and 32 bytes their digest; for the run
  they are four bytes. The property is about results only, and is
  not inductive; the invariant is about the objects. A hash object
  has taken a stream t (`Takes`): its state is the initial one after the whole blocks
  of t, its buffer the rest and its count the length. Writing appends to t
  (`WriteTakes`), since blocks of what is in the buffer together with the new bytes are
  the blocks of the stream that follow (`AfterGoesOn`, `DividedTwice`). That
  the zeros and the length that finalizing writes fill a block, by the only number of
  zeros that does, is `PadFills`. A MAC holds two such streams (`MacTakes`), and the
  outputs of a generator are values of V one after the other, cut at the end
  (`OutputIs`, `CallIs`). The loops are recursive functions: `IteratesExist` and
  `SameSteps` say that the results of steps exist and are no other.

Model-checked only: liveness (`CallReturns`, `CallersReturn`, `CallsReturn`),
which is outside the prover's reach; in the library the values of points
(`PointIsMultiple`, `TestsDecide`, `EncodingsWork`), which are identities of
polynomials, limbs (`LimbsAgree`), which are facts about a given number of bits,
and the objects with the midstates (`ObjectsHold`), which depend on operators
(`Bitwise`) the prover has no theory of; and of course the violations.

## 7. What is not modelled

- serde, formatting, the display of secrets, macros, tests and build scripts.
- The ARM assembly of the field; the scalars of the exhaustive tests; the values
  of the compiled-in tables (the tables are computed as
  `precompute_ecmult.c` and `ecmult_compute_table_impl.h` do).
- That limbs of 52 and 64 bits behave as those of the model; TLC's numbers have
  32 bits.
- Adaptor signatures of MuSig2, which the Rust crate does not offer.
- Adversarial choice of keys and nonces in MuSig2: the models are about the
  correctness of the code, not the security of the scheme.
- Constant time, and the erasure of secrets from memory but where a function
  tests what was erased.
- Conversions between `Scalar` and `SecretKey`, and the generation of random
  keys; the global context behind `std::sync::Once` (`context/mod.rs:52`), whose
  safety is that of the standard library.
- `71 - bytes_to_grind` beyond 71.
- Weak memory beyond the happens-before order of the flags.
