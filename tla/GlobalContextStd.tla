-------------------------- MODULE GlobalContextStd --------------------------
(***************************************************************************)
(* The global context of the std build (context/internal_std.rs): a        *)
(* thread-local RefCell<Secp256k1<All>>.  with_raw_global_context borrows  *)
(* it for f, releases it, and then calls rerandomize_global_context, which *)
(* borrows it mutably.                                                     *)
(*                                                                         *)
(* Nothing is shared between threads, so this is one thread.  What it can  *)
(* do in any order is nest: f may call either function again, and may      *)
(* panic, or catch the panic of a call it made.  A seed is Some(s) = {s}   *)
(* or None = {}; `entropy` is the set of the seeds mixed into the context. *)
(***************************************************************************)
EXTENDS Naturals, Sequences, FiniteSets

CONSTANTS StdSeeds,
          MaxDepth   \* bound: calls nested in one another

ASSUME DepthAssumption == MaxDepth \in Nat

VARIABLES cell,       \* the thread-local: "lazy", "alive" or "destroyed"
          readers,    \* shared borrows of the RefCell
          writer,     \* whether it is borrowed mutably
          entropy,
          frames,     \* the calls in progress, the innermost last
          panicking   \* a panic is unwinding the innermost call

stdVars == << cell, readers, writer, entropy, frames, panicking >>

SeedOptions == {{}} \cup {{s} : s \in StdSeeds}

Inner == frames[Len(frames)]
Caller == SubSeq(frames, 1, Len(frames) - 1)
At(label) == frames # << >> /\ Inner.pc = label /\ ~ panicking
InnerGoto(label) == frames' = [frames EXCEPT ![Len(frames)].pc = label]

StdInit == /\ cell = "lazy"
           /\ readers = 0
           /\ writer = FALSE
           /\ entropy = {}
           /\ frames = << >>
           /\ panicking = FALSE

(* A call of one of the two functions, from outside or from inside f. *)
MayCall == /\ ~ panicking
           /\ frames # << >> => Inner.pc = "f"
           /\ Len(frames) < MaxDepth

With(seed) == /\ MayCall
              /\ frames' = Append(frames, [pc |-> "borrow", seed |-> seed])
              /\ UNCHANGED << cell, readers, writer, entropy, panicking >>

Rerandomize(s) == /\ MayCall
                  /\ frames' = Append(frames, [pc |-> "borrow_mut", seed |-> {s}])
                  /\ UNCHANGED << cell, readers, writer, entropy, panicking >>

(* SECP256K1.with: the context is created the first time, and gone once    *)
(* the thread has run its destructors, when the access panics.             *)
Access == cell' = IF cell = "lazy" THEN "alive" ELSE cell

Panic == /\ panicking' = TRUE
         /\ frames' = Caller
         /\ UNCHANGED << readers, writer, entropy >>

AccessPanics == /\ At("borrow") \/ At("borrow_mut")
                /\ cell = "destroyed"
                /\ Panic
                /\ UNCHANGED cell

(* secp.borrow(), and f starts. *)
Borrow == /\ At("borrow")
          /\ cell # "destroyed"
          /\ ~ writer
          /\ Access
          /\ readers' = readers + 1
          /\ InnerGoto("f")
          /\ UNCHANGED << writer, entropy, panicking >>

(* f returns and drop(borrow): the call ends, or is now the rerandomizing  *)
(* one, whose result it returns.                                           *)
FEnds == /\ At("f")
         /\ readers' = readers - 1
         /\ IF Inner.seed = {} THEN frames' = Caller ELSE InnerGoto("borrow_mut")
         /\ UNCHANGED << cell, writer, entropy, panicking >>

(* Mutant: an UnsafeCell in place of the RefCell. *)
BorrowMutUnchecked == /\ At("borrow_mut")
                      /\ cell # "destroyed"
                      /\ Access
                      /\ writer' = TRUE
                      /\ InnerGoto("mix")
                      /\ UNCHANGED << readers, entropy, panicking >>

(* secp.borrow_mut() succeeds ... *)
BorrowMut == /\ At("borrow_mut")
             /\ cell # "destroyed"
             /\ readers = 0 /\ ~ writer
             /\ Access
             /\ writer' = TRUE
             /\ InnerGoto("mix")
             /\ UNCHANGED << readers, entropy, panicking >>

(* Mutant: try_borrow_mut, and no randomization if it fails. *)
BorrowMutSkips == /\ At("borrow_mut")
                  /\ cell # "destroyed"
                  /\ readers > 0 \/ writer
                  /\ frames' = Caller
                  /\ UNCHANGED << cell, readers, writer, entropy, panicking >>

(* ... or panics, when a call further out is inside its f. *)
BorrowMutPanics == /\ At("borrow_mut")
                   /\ cell # "destroyed"
                   /\ readers > 0 \/ writer
                   /\ Panic
                   /\ UNCHANGED cell

(* seeded_randomize chains the seed onto the present state; the borrow is  *)
(* released and the call ends.                                             *)
MixSeed == /\ At("mix")
           /\ entropy' = entropy \cup Inner.seed
           /\ writer' = FALSE
           /\ frames' = Caller
           /\ UNCHANGED << cell, readers, panicking >>

(* Mutant: unwinding does not release the borrow. *)
FUnwindsLeaks == /\ frames # << >>
                 /\ Inner.pc = "f"
                 /\ panicking' = TRUE
                 /\ frames' = Caller
                 /\ UNCHANGED << cell, readers, writer, entropy >>

(* f panics, by itself or because a call that it made did: its frame and   *)
(* its borrow are unwound.                                                 *)
FUnwinds == /\ frames # << >>
            /\ Inner.pc = "f"
            /\ panicking' = TRUE
            /\ readers' = readers - 1
            /\ frames' = Caller
            /\ UNCHANGED << cell, writer, entropy >>

(* catch_unwind, in f or outside of every call. *)
Catch == /\ panicking
         /\ panicking' = FALSE
         /\ UNCHANGED << cell, readers, writer, entropy, frames >>

(* The thread destroys its thread-locals; destructors of others that run   *)
(* later may still call.                                                   *)
Exit == /\ frames = << >>
        /\ cell' = "destroyed"
        /\ entropy' = {}
        /\ UNCHANGED << readers, writer, frames, panicking >>

StdNext == \/ \E seed \in SeedOptions : With(seed)
           \/ \E s \in StdSeeds : Rerandomize(s)
           \/ AccessPanics \/ Borrow \/ FEnds \/ BorrowMut \/ BorrowMutPanics \/ MixSeed
           \/ FUnwinds \/ Catch \/ Exit

StdSpec == StdInit /\ [][StdNext]_stdVars

-----------------------------------------------------------------------------
(* The RefCell counts the calls that are inside f, whatever was nested,    *)
(* panicked and caught: no borrow leaks, which would make every later      *)
(* rerandomization panic, and none is released twice.                      *)
BorrowsAreFrames ==
    /\ readers = Cardinality({i \in DOMAIN frames : frames[i].pc = "f"})
    /\ writer <=> \E i \in DOMAIN frames : frames[i].pc = "mix"

(* f holds the raw pointer of the context: it is never rerandomized, and   *)
(* never destroyed, while some f is running.                               *)
ContextStableUnderF ==
    [][entropy' # entropy \/ (cell' = "destroyed" /\ cell # "destroyed") =>
         \A i \in DOMAIN frames : frames[i].pc # "f"]_stdVars

(* "mixed with the entropy from previous calls" (internal_std.rs:65): a    *)
(* call that returns has its seed in the context, and no call loses those  *)
(* of earlier ones.                                                        *)
MixesSeeds ==
    [][cell' # "destroyed" =>
         /\ entropy \subseteq entropy'
         /\ (frames # << >> /\ frames' = Caller /\ ~ panicking') =>
               Inner.seed \subseteq entropy']_stdVars
=============================================================================
