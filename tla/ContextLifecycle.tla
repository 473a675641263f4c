-------------------------- MODULE ContextLifecycle --------------------------
(***************************************************************************)
(* The memory of contexts: Secp256k1<C> objects that own a block of the    *)
(* heap (gen_new, Clone), that lie in a buffer of the user                 *)
(* (preallocated_gen_new), or that are views of a raw context (from_raw_*, *)
(* inside a ManuallyDrop), and context_create and context_destroy of       *)
(* secp256k1-sys.  The kind of an object is what C::deallocate does.       *)
(*                                                                         *)
(* Callers keep to the rules of safe Rust and to the safety sections of    *)
(* the unsafe functions: a buffer is lent to one object, a raw context is  *)
(* not destroyed under its views.  The capabilities (sign, verify, all) do *)
(* not change any size.  handle_alloc_error does not return: when no block *)
(* is left nothing is allocated.                                           *)
(***************************************************************************)
EXTENDS Naturals

CONSTANTS Objs,        \* the variables of callers that may hold a context
          Blocks,      \* what the allocator may return
          Buffers,     \* the buffers of callers,
          BufLen,      \* BufLen[m]: of so many words each
          ContextSize, \* size_of the context structure of the C library
          WordSize     \* size_of::<AlignedType>(), which is also ALIGN_TO

ASSUME MemoryAssumption == Blocks \cap Buffers = {}

ASSUME SizeAssumption == /\ BufLen \in [Buffers -> Nat]
                         /\ ContextSize \in Nat \ {0}
                         /\ WordSize \in Nat \ {0}

VARIABLES heap,      \* heap[b]: the size block b was allocated with, 0 if free
          content,   \* content[m]: "none", "built" or "cleared"
          obj,       \* obj[o]: the context in o, or Nothing
          raws,      \* the blocks that context_create made
          strays,    \* history: the clones of preallocated contexts
          faults     \* what the C library or the allocator was misused for

vars == << heap, content, obj, raws, strays, faults >>

Memory == Blocks \cup Buffers
Kinds == {"heap", "preallocated", "view"}
Contexts == [kind : Kinds, mem : Memory]
Nothing == [kind |-> "nothing"]

Live(o) == obj[o] # Nothing
Lent(m) == \E o \in Objs : Live(o) /\ obj[o].mem = m

(* secp256k1_context_preallocated_size and _clone_size.                    *)
PreallocatedSize == ContextSize

(* Mutant: the size in words is rounded down.                              *)
PreallocateSizeFloor == PreallocatedSize \div WordSize

(* preallocate_size_gen, in words.                                         *)
PreallocateSizeGen == (PreallocatedSize + WordSize - 1) \div WordSize

Init == /\ heap = [b \in Blocks |-> 0]
        /\ content = [m \in Memory |-> "none"]
        /\ obj = [o \in Objs |-> Nothing]
        /\ raws = {}
        /\ strays = {}
        /\ faults = {}

(* alloc, then secp256k1_context_preallocated_create or _clone in it.      *)
Allocate(b, size) == /\ heap[b] = 0
                     /\ heap' = [heap EXCEPT ![b] = size]
                     /\ content' = [content EXCEPT ![b] = "built"]

(* The C library checks that the context it is called with is built.       *)
Illegal(state) == IF state = "built" THEN {} ELSE {"illegal argument"}

(* alloc::dealloc is undefined unless the layout is that of the block.     *)
BadLayout(m, size) == IF m \in Blocks /\ heap[m] = size THEN {} ELSE {"layout"}

GenNew(o, b) == /\ ~ Live(o)
                /\ Allocate(b, PreallocatedSize)
                /\ obj' = [obj EXCEPT ![o] = [kind |-> "heap", mem |-> b]]
                /\ UNCHANGED << raws, strays, faults >>

(* Clone for Secp256k1<C>: a block of the heap for every C.                *)
Clone(o, p, b) ==
    LET kind == IF obj[p].kind = "heap" THEN "heap" ELSE "preallocated"
    IN  /\ ~ Live(o) /\ Live(p)
        /\ Allocate(b, PreallocatedSize)
        /\ obj' = [obj EXCEPT ![o] = [kind |-> kind, mem |-> b]]
        /\ strays' = IF kind = "heap" THEN strays ELSE strays \cup {b}
        /\ faults' = faults \cup Illegal(content[obj[p].mem])
        /\ UNCHANGED raws

(* A shorter buffer is refused: NotEnoughMemory.                           *)
PreallocatedGenNew(o, m) ==
    /\ ~ Live(o) /\ ~ Lent(m)
    /\ BufLen[m] >= PreallocateSizeGen
    /\ content' = [content EXCEPT ![m] = "built"]
    /\ obj' = [obj EXCEPT ![o] = [kind |-> "preallocated", mem |-> m]]
    /\ UNCHANGED << heap, raws, strays, faults >>

(* randomize, and every operation that takes the context to sign.          *)
Use(o) == /\ Live(o)
          /\ faults' = faults \cup Illegal(content[obj[o].mem])
          /\ UNCHANGED << heap, content, obj, raws, strays >>

(* Mutant: the context is destroyed before its size is read.               *)
DropDestroysFirst(o) ==
    LET m == obj[o].mem
    IN  /\ Live(o) /\ obj[o].kind # "view"
        /\ content' = [content EXCEPT ![m] = "cleared"]
        /\ heap' = IF obj[o].kind = "heap" THEN [heap EXCEPT ![m] = 0] ELSE heap
        /\ obj' = [obj EXCEPT ![o] = Nothing]
        /\ faults' = faults \cup Illegal("cleared")
        /\ UNCHANGED << raws, strays >>

(* Mutant: deallocate is the empty one of the preallocated contexts.       *)
DropKeeps(o) ==
    LET m == obj[o].mem
    IN  /\ Live(o) /\ obj[o].kind # "view"
        /\ content' = [content EXCEPT ![m] = "cleared"]
        /\ obj' = [obj EXCEPT ![o] = Nothing]
        /\ faults' = faults \cup Illegal(content[m])
        /\ UNCHANGED << heap, raws, strays >>

(* Drop for Secp256k1<C>: the size, destroy, C::deallocate.  It does not   *)
(* run for a view.                                                         *)
Drop(o) ==
    LET m == obj[o].mem
    IN  /\ Live(o) /\ obj[o].kind # "view"
        /\ content' = [content EXCEPT ![m] = "cleared"]
        /\ obj' = [obj EXCEPT ![o] = Nothing]
        /\ IF obj[o].kind = "heap"
           THEN /\ faults' = faults \cup Illegal(content[m]) \cup BadLayout(m, PreallocatedSize)
                /\ heap' = [heap EXCEPT ![m] = 0]
           ELSE /\ faults' = faults \cup Illegal(content[m])
                /\ heap' = heap
        /\ UNCHANGED << raws, strays >>

(* context_create: one word more, that holds the size of the block.        *)
RawCreate(b) == /\ Allocate(b, PreallocatedSize + WordSize)
                /\ raws' = raws \cup {b}
                /\ UNCHANGED << obj, strays, faults >>

(* from_raw_all, from_raw_signing_only, from_raw_verification_only.        *)
FromRaw(o, b) == /\ ~ Live(o)
                 /\ b \in raws
                 /\ obj' = [obj EXCEPT ![o] = [kind |-> "view", mem |-> b]]
                 /\ UNCHANGED << heap, content, raws, strays, faults >>

(* A ManuallyDrop goes out of scope.                                       *)
Leave(o) == /\ Live(o) /\ obj[o].kind = "view"
            /\ obj' = [obj EXCEPT ![o] = Nothing]
            /\ UNCHANGED << heap, content, raws, strays, faults >>

(* context_destroy, with the size that context_create stored in the block. *)
RawDestroy(b) == /\ b \in raws /\ ~ Lent(b)
                 /\ content' = [content EXCEPT ![b] = "cleared"]
                 /\ heap' = [heap EXCEPT ![b] = 0]
                 /\ raws' = raws \ {b}
                 /\ faults' = faults \cup Illegal(content[b])
                                     \cup BadLayout(b, PreallocatedSize + WordSize)
                 /\ UNCHANGED << obj, strays >>

Step(o) == \/ \E b \in Blocks : GenNew(o, b) \/ FromRaw(o, b)
           \/ \E p \in Objs, b \in Blocks : Clone(o, p, b)
           \/ \E m \in Buffers : PreallocatedGenNew(o, m)
           \/ Use(o) \/ Drop(o) \/ Leave(o)

Next == \/ \E o \in Objs : Step(o)
        \/ \E b \in Blocks : RawCreate(b) \/ RawDestroy(b)

Spec == Init /\ [][Next]_vars

-----------------------------------------------------------------------------
TypeOK == /\ heap \in [Blocks -> {0, PreallocatedSize, PreallocatedSize + WordSize}]
          /\ content \in [Memory -> {"none", "built", "cleared"}]
          /\ obj \in [Objs -> Contexts \cup {Nothing}]
          /\ raws \in SUBSET Blocks
          /\ strays \in SUBSET Blocks
          /\ faults \in SUBSET {"illegal argument", "layout"}

(* No call, the ones inside drop and clone included, is ever made on a     *)
(* context that is destroyed or was never built: the illegal-argument      *)
(* callback would panic, in a destructor.  And every block is freed once   *)
(* and with the layout it was allocated with, which drop computes anew and *)
(* context_destroy reads from the block.                                   *)
NoFaults == faults = {}

(* A context never extends beyond the memory it was put in.                *)
Capacity(m) == IF m \in Buffers THEN BufLen[m] * WordSize ELSE heap[m]
ContextsFit == \A o \in Objs : Live(o) => ContextSize <= Capacity(obj[o].mem)

(* What is on the heap will be freed by an object that owns it or by       *)
(* context_destroy, with the exception of clones of preallocated contexts. *)
OnlyClonesLeak ==
    \A b \in Blocks : heap[b] # 0 =>
        \/ \E o \in Objs : Live(o) /\ obj[o].kind = "heap" /\ obj[o].mem = b
        \/ b \in raws \cup strays

(* "Allocated by the user" (context/mod.rs:310): of the memory that        *)
(* deallocate leaves alone none is on the heap.                            *)
AllocatedByTheUser ==
    \A o \in Objs : Live(o) /\ obj[o].kind = "preallocated" => obj[o].mem \in Buffers
=============================================================================
