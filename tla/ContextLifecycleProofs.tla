----------------------- MODULE ContextLifecycleProofs -----------------------
(***************************************************************************)
(* For any objects, blocks, buffers and sizes, contexts are only used when *)
(* they are built, fit their memory, are freed once with their layout, and *)
(* none but the clones of preallocated contexts leak.                      *)
(***************************************************************************)
EXTENDS ContextLifecycle, TLAPS

(* What an object holds: a block of its own, a buffer that is long enough, *)
(* a stray block, or a raw context.                                        *)
Holds(o) ==
    LET m == obj[o].mem
    IN  \/ /\ obj[o].kind = "heap"
           /\ m \in Blocks \ (raws \cup strays)
           /\ heap[m] = PreallocatedSize
        \/ /\ obj[o].kind = "preallocated"
           /\ m \in Buffers /\ BufLen[m] >= PreallocateSizeGen
        \/ /\ obj[o].kind = "preallocated"
           /\ m \in strays
        \/ /\ obj[o].kind = "view"
           /\ m \in raws

Holding == \A o \in Objs : Live(o) => Holds(o) /\ content[obj[o].mem] = "built"

(* Two objects that both run a destructor have different memory.           *)
Disjoint == \A o, p \in Objs : Live(o) /\ Live(p) /\ o # p =>
                \/ obj[o].mem # obj[p].mem
                \/ obj[o].kind = "view" /\ obj[p].kind = "view"

RawsAllocated == \A b \in raws : /\ heap[b] = PreallocatedSize + WordSize
                                 /\ content[b] = "built"

StraysAllocated == \A b \in strays : heap[b] = PreallocatedSize

IInv == /\ TypeOK
        /\ faults = {}
        /\ raws \cap strays = {}
        /\ Holding
        /\ Disjoint
        /\ RawsAllocated
        /\ StraysAllocated
        /\ OnlyClonesLeak

(* A buffer of preallocate_size_gen words has room for a context.          *)
LEMMA WordsSuffice == PreallocateSizeGen \in Nat /\ ContextSize <= PreallocateSizeGen * WordSize
  BY SizeAssumption, SMTT(30) DEF PreallocateSizeGen, PreallocatedSize

(* More words have room too.                                               *)
LEMMA MoreWords == ASSUME NEW n \in Nat, n >= PreallocateSizeGen
                   PROVE  ContextSize <= n * WordSize
  <1>1. n * WordSize >= PreallocateSizeGen * WordSize
    BY WordsSuffice, SizeAssumption, SMTT(30)
  <1> QED BY <1>1, WordsSuffice, SizeAssumption

(* The memory of a live object is in use, so the allocator does not return *)
(* it and it is not lent again.                                            *)
LEMMA InUse == ASSUME IInv, NEW o \in Objs, Live(o)
               PROVE  /\ obj[o].mem \in Memory
                      /\ obj[o].kind \in Kinds
                      /\ obj[o].mem \in Blocks => heap[obj[o].mem] # 0
                      /\ content[obj[o].mem] = "built"
  <1>1. obj[o] \in Contexts
    BY DEF IInv, TypeOK, Live
  <1>2. Holds(o) /\ content[obj[o].mem] = "built"
    BY DEF IInv, Holding
  <1>3. \A b \in Buffers : b \notin Blocks
    BY MemoryAssumption
  <1> QED BY <1>1, <1>2, <1>3, SizeAssumption
          DEF IInv, Contexts, Holds, RawsAllocated, StraysAllocated, PreallocatedSize, TypeOK

THEOREM Initially == Init => IInv
  BY DEF Init, IInv, TypeOK, Holding, Disjoint, RawsAllocated, StraysAllocated,
         OnlyClonesLeak, Live, PreallocatedSize

(* gen_new: the new block belonged to nobody.                              *)
LEMMA GenNewStep == ASSUME IInv, NEW o \in Objs, NEW b \in Blocks, GenNew(o, b)
                    PROVE  IInv'
  <1> USE DEF GenNew, Allocate
  <1>0. heap[b] = 0 /\ ~ Live(o) /\ b \in Memory /\ b \notin Buffers
    BY MemoryAssumption DEF Memory
  <1>1. b \notin raws /\ b \notin strays
    BY <1>0, SizeAssumption DEF IInv, RawsAllocated, StraysAllocated, PreallocatedSize
  <1>2. \A p \in Objs : Live(p) => obj[p].mem # b
    BY <1>0, InUse
  <1>3. TypeOK'
    BY <1>0 DEF IInv, TypeOK, Contexts, Kinds
  <1>4. /\ Live(o)' /\ obj'[o] = [kind |-> "heap", mem |-> b]
        /\ \A p \in Objs \ {o} : obj'[p] = obj[p] /\ Live(p)' = Live(p)
        /\ heap'[b] = PreallocatedSize
        /\ \A c \in Blocks \ {b} : heap'[c] = heap[c]
        /\ \A c \in Memory \ {b} : content'[c] = content[c]
        /\ content'[b] = "built"
    BY <1>0 DEF IInv, TypeOK, Live, Nothing
  <1>5. Holding'
    <2> SUFFICES ASSUME NEW p \in Objs, Live(p)' PROVE Holds(p)' /\ content'[obj'[p].mem] = "built"
      BY DEF Holding
    <2>1. CASE p = o
      BY <2>1, <1>1, <1>4 DEF Holds
    <2>2. CASE p # o
      <3>1. Live(p) /\ obj'[p] = obj[p] /\ obj[p].mem # b
        BY <2>2, <1>2, <1>4
      <3>2. Holds(p) /\ content[obj[p].mem] = "built" /\ obj[p].mem \in Memory
        BY <3>1, InUse DEF IInv, Holding
      <3> QED BY <3>1, <3>2, <1>4 DEF Holds
    <2> QED BY <2>1, <2>2
  <1>6. Disjoint'
    BY <1>2, <1>4 DEF IInv, Disjoint
  <1>7. RawsAllocated' /\ StraysAllocated'
    BY <1>1, <1>4 DEF IInv, TypeOK, RawsAllocated, StraysAllocated, Memory
  <1>8. OnlyClonesLeak'
    BY <1>0, <1>4 DEF IInv, OnlyClonesLeak
  <1> QED BY <1>3, <1>5, <1>6, <1>7, <1>8 DEF IInv

(* Clone: likewise, and the block is a stray one unless the clone is freed.*)
LEMMA CloneStep == ASSUME IInv, NEW o \in Objs, NEW p \in Objs, NEW b \in Blocks, Clone(o, p, b)
                   PROVE  IInv'
  <1> DEFINE kind == IF obj[p].kind = "heap" THEN "heap" ELSE "preallocated"
  <1>0. /\ heap[b] = 0 /\ ~ Live(o) /\ Live(p) /\ b \in Memory /\ b \notin Buffers
        /\ heap' = [heap EXCEPT ![b] = PreallocatedSize]
        /\ content' = [content EXCEPT ![b] = "built"]
        /\ obj' = [obj EXCEPT ![o] = [kind |-> kind, mem |-> b]]
        /\ strays' = IF kind = "heap" THEN strays ELSE strays \cup {b}
        /\ faults' = faults \cup Illegal(content[obj[p].mem])
        /\ raws' = raws
    BY MemoryAssumption DEF Memory, Clone, Allocate
  <1>1. b \notin raws /\ b \notin strays
    BY <1>0, SizeAssumption DEF IInv, RawsAllocated, StraysAllocated, PreallocatedSize
  <1>2. \A q \in Objs : Live(q) => obj[q].mem # b
    BY <1>0, InUse
  <1>k. kind = "heap" \/ kind = "preallocated"
    OBVIOUS
  <1> HIDE DEF kind
  <1>f. faults' = {}
    BY <1>0, InUse DEF IInv, Illegal
  <1>3. TypeOK'
    BY <1>0, <1>k, <1>f DEF IInv, TypeOK, Contexts, Kinds
  <1>4. /\ Live(o)' /\ obj'[o] = [kind |-> kind, mem |-> b]
        /\ \A q \in Objs \ {o} : obj'[q] = obj[q] /\ Live(q)' = Live(q)
        /\ heap'[b] = PreallocatedSize
        /\ \A c \in Blocks \ {b} : heap'[c] = heap[c]
        /\ \A c \in Memory \ {b} : content'[c] = content[c]
        /\ content'[b] = "built"
    BY <1>0, <1>k DEF IInv, TypeOK, Live, Nothing
  <1>5. Holding'
    <2> SUFFICES ASSUME NEW q \in Objs, Live(q)' PROVE Holds(q)' /\ content'[obj'[q].mem] = "built"
      BY DEF Holding
    <2>1. CASE q = o
      BY <2>1, <1>0, <1>1, <1>4, <1>k DEF Holds
    <2>2. CASE q # o
      <3>1. Live(q) /\ obj'[q] = obj[q] /\ obj[q].mem # b
        BY <2>2, <1>2, <1>4
      <3>2. Holds(q) /\ content[obj[q].mem] = "built" /\ obj[q].mem \in Memory
        BY <3>1, InUse DEF IInv, Holding
      <3> QED BY <3>1, <3>2, <1>0, <1>4 DEF Holds
    <2> QED BY <2>1, <2>2
  <1>6. Disjoint'
    BY <1>2, <1>4 DEF IInv, Disjoint
  <1>7. RawsAllocated' /\ StraysAllocated'
    BY <1>0, <1>1, <1>4 DEF IInv, TypeOK, RawsAllocated, StraysAllocated, Memory
  <1>8. OnlyClonesLeak'
    BY <1>0, <1>4 DEF IInv, OnlyClonesLeak
  <1>9. (raws \cap strays = {})'
    BY <1>0, <1>1 DEF IInv
  <1> QED BY <1>3, <1>5, <1>6, <1>7, <1>8, <1>9, <1>f DEF IInv

(* preallocated_gen_new: the buffer was lent to nobody.                    *)
LEMMA PreallocatedStep ==
    ASSUME IInv, NEW o \in Objs, NEW m \in Buffers, PreallocatedGenNew(o, m)
    PROVE  IInv'
  <1> USE DEF PreallocatedGenNew
  <1>0. ~ Live(o) /\ ~ Lent(m) /\ m \in Memory /\ m \notin Blocks
    BY MemoryAssumption DEF Memory
  <1>1. TypeOK'
    BY <1>0 DEF IInv, TypeOK, Contexts, Kinds
  <1>2. /\ Live(o)' /\ obj'[o] = [kind |-> "preallocated", mem |-> m]
        /\ \A p \in Objs \ {o} : obj'[p] = obj[p] /\ Live(p)' = Live(p)
        /\ \A c \in Memory \ {m} : content'[c] = content[c]
        /\ content'[m] = "built"
    BY <1>0 DEF IInv, TypeOK, Live, Nothing
  <1>3. Holding'
    BY <1>0, <1>2, InUse DEF IInv, Holding, Holds, Lent
  <1>4. Disjoint'
    BY <1>0, <1>2 DEF IInv, Disjoint, Lent
  <1>5. RawsAllocated' /\ StraysAllocated'
    BY <1>0, <1>2 DEF IInv, TypeOK, RawsAllocated, StraysAllocated, Memory
  <1>6. OnlyClonesLeak'
    BY <1>0, <1>2 DEF IInv, OnlyClonesLeak
  <1> QED BY <1>1, <1>3, <1>4, <1>5, <1>6 DEF IInv

(* A use of a live object finds its context built.                         *)
LEMMA UseStep == ASSUME IInv, NEW o \in Objs, Use(o)
                 PROVE  IInv'
  <1>1. faults' = {} /\ UNCHANGED << heap, content, obj, raws, strays >>
    BY InUse DEF Use, IInv, Illegal
  <1> QED BY <1>1 DEF IInv, TypeOK, Holding, Holds, Live, Disjoint, RawsAllocated,
                      StraysAllocated, OnlyClonesLeak

(* Drop: the memory was the object's alone, and was allocated with the     *)
(* size that drop computes.                                                *)
LEMMA DropStep == ASSUME IInv, NEW o \in Objs, Drop(o)
                  PROVE  IInv'
  <1> DEFINE m == obj[o].mem
  <1>0. /\ Live(o) /\ obj[o].kind # "view"
        /\ content' = [content EXCEPT ![m] = "cleared"]
        /\ obj' = [obj EXCEPT ![o] = Nothing]
        /\ raws' = raws /\ strays' = strays
    BY DEF Drop
  <1>1. m \in Memory /\ content[m] = "built" /\ Holds(o)
    BY <1>0, InUse DEF IInv, Holding
  <1>2. obj[o].kind = "heap" =>
            /\ m \in Blocks /\ m \notin raws \cup strays
            /\ heap[m] = PreallocatedSize
            /\ heap' = [heap EXCEPT ![m] = 0]
    BY <1>1 DEF Holds, Drop
  <1>3. obj[o].kind # "heap" => heap' = heap
    BY DEF Drop
  <1>f. faults' = {}
    <2>1. CASE obj[o].kind = "heap"
      BY <2>1, <1>1, <1>2 DEF Drop, IInv, Illegal, BadLayout
    <2>2. CASE obj[o].kind # "heap"
      BY <2>2, <1>1 DEF Drop, IInv, Illegal
    <2> QED BY <2>1, <2>2
  <1>n. m \notin raws
    BY <1>0, <1>1, MemoryAssumption DEF Holds, IInv, TypeOK
  <1> HIDE DEF m
  <1>4. /\ ~ Live(o)' /\ obj'[o] = Nothing
        /\ \A p \in Objs \ {o} : obj'[p] = obj[p] /\ Live(p)' = Live(p)
        /\ \A c \in Memory \ {m} : content'[c] = content[c]
        /\ \A c \in Blocks \ {m} : heap'[c] = heap[c]
        /\ \A c \in strays : heap'[c] = heap[c]
    BY <1>0, <1>2, <1>3 DEF IInv, TypeOK, Live
  <1>5. \A p \in Objs \ {o} : Live(p) => obj[p].mem # m
    BY <1>0 DEF m, IInv, Disjoint
  <1>6. TypeOK'
    <2>1. heap' \in [Blocks -> {0, PreallocatedSize, PreallocatedSize + WordSize}]
      BY <1>2, <1>3 DEF IInv, TypeOK
    <2> QED BY <2>1, <1>0, <1>f DEF IInv, TypeOK
  <1>7. Holding'
    <2> SUFFICES ASSUME NEW p \in Objs, Live(p)' PROVE Holds(p)' /\ content'[obj'[p].mem] = "built"
      BY DEF Holding
    <2>1. p # o /\ Live(p) /\ obj'[p] = obj[p] /\ obj[p].mem # m
      BY <1>4, <1>5
    <2>2. Holds(p) /\ content[obj[p].mem] = "built" /\ obj[p].mem \in Memory
      BY <2>1, InUse DEF IInv, Holding
    <2> QED BY <2>1, <2>2, <1>0, <1>4 DEF Holds
  <1>8. Disjoint'
    BY <1>4 DEF IInv, Disjoint
  <1>9. RawsAllocated' /\ StraysAllocated'
    BY <1>0, <1>n, <1>4 DEF IInv, TypeOK, RawsAllocated, StraysAllocated, Memory
  <1>10. OnlyClonesLeak'
    <2> SUFFICES ASSUME NEW b \in Blocks, heap'[b] # 0, b \notin raws \cup strays
                 PROVE  \E p \in Objs : Live(p)' /\ obj'[p].kind = "heap" /\ obj'[p].mem = b
      BY <1>0 DEF OnlyClonesLeak
    <2>1. heap[b] # 0
      BY <1>2, <1>3, <1>4, SizeAssumption DEF PreallocatedSize, IInv, TypeOK
    <2>2. PICK p \in Objs : Live(p) /\ obj[p].kind = "heap" /\ obj[p].mem = b
      BY <2>1 DEF IInv, OnlyClonesLeak
    <2>3. p # o
      BY <2>2, <1>2 DEF m, IInv, TypeOK
    <2> QED BY <2>2, <2>3, <1>4
  <1> QED BY <1>0, <1>f, <1>6, <1>7, <1>8, <1>9, <1>10 DEF IInv

(* context_create: the new block belonged to nobody.                       *)
LEMMA RawCreateStep == ASSUME IInv, NEW b \in Blocks, RawCreate(b)
                       PROVE  IInv'
  <1> USE DEF RawCreate, Allocate
  <1>0. heap[b] = 0 /\ b \in Memory /\ b \notin Buffers
    BY MemoryAssumption DEF Memory
  <1>1. b \notin raws /\ b \notin strays
    BY <1>0, SizeAssumption DEF IInv, RawsAllocated, StraysAllocated, PreallocatedSize
  <1>2. \A p \in Objs : Live(p) => obj[p].mem # b
    BY <1>0, InUse
  <1>3. TypeOK'
    BY <1>0 DEF IInv, TypeOK
  <1>4. /\ \A p \in Objs : Live(p)' = Live(p)
        /\ heap'[b] = PreallocatedSize + WordSize
        /\ \A c \in Blocks \ {b} : heap'[c] = heap[c]
        /\ \A c \in Memory \ {b} : content'[c] = content[c]
        /\ content'[b] = "built"
    BY <1>0 DEF IInv, TypeOK, Live
  <1>5. Holding'
    <2> SUFFICES ASSUME NEW p \in Objs, Live(p) PROVE Holds(p)' /\ content'[obj[p].mem] = "built"
      BY <1>4 DEF Holding
    <2>1. Holds(p) /\ content[obj[p].mem] = "built" /\ obj[p].mem \in Memory /\ obj[p].mem # b
      BY <1>2, InUse DEF IInv, Holding
    <2> QED BY <2>1, <1>4 DEF Holds
  <1>6. Disjoint'
    BY <1>4 DEF IInv, Disjoint
  <1>7. RawsAllocated' /\ StraysAllocated'
    BY <1>1, <1>4 DEF IInv, TypeOK, RawsAllocated, StraysAllocated, Memory
  <1>8. OnlyClonesLeak' /\ (raws \cap strays = {})'
    BY <1>1, <1>4 DEF IInv, OnlyClonesLeak
  <1> QED BY <1>3, <1>5, <1>6, <1>7, <1>8 DEF IInv

(* context_destroy: no view holds the block.                               *)
LEMMA RawDestroyStep == ASSUME IInv, NEW b \in Blocks, RawDestroy(b)
                        PROVE  IInv'
  <1> USE DEF RawDestroy
  <1>0. /\ b \in raws /\ b \notin strays /\ b \in Memory
        /\ heap[b] = PreallocatedSize + WordSize
        /\ content[b] = "built"
    BY DEF IInv, RawsAllocated, Memory
  <1>f. faults' = {}
    BY <1>0 DEF IInv, Illegal, BadLayout
  <1>2. \A p \in Objs : Live(p) => obj[p].mem # b
    BY DEF Lent
  <1>3. TypeOK'
    BY <1>0, <1>f DEF IInv, TypeOK
  <1>4. /\ \A p \in Objs : Live(p)' = Live(p)
        /\ heap'[b] = 0
        /\ \A c \in Blocks \ {b} : heap'[c] = heap[c]
        /\ \A c \in Memory \ {b} : content'[c] = content[c]
    BY <1>0 DEF IInv, TypeOK, Live
  <1>5. Holding'
    <2> SUFFICES ASSUME NEW p \in Objs, Live(p) PROVE Holds(p)' /\ content'[obj[p].mem] = "built"
      BY <1>4 DEF Holding
    <2>1. Holds(p) /\ content[obj[p].mem] = "built" /\ obj[p].mem \in Memory /\ obj[p].mem # b
      BY <1>2, InUse DEF IInv, Holding
    <2> QED BY <2>1, <1>4 DEF Holds
  <1>6. Disjoint'
    BY <1>4 DEF IInv, Disjoint
  <1>7. RawsAllocated' /\ StraysAllocated'
    BY <1>0, <1>4 DEF IInv, TypeOK, RawsAllocated, StraysAllocated, Memory
  <1>8. OnlyClonesLeak' /\ (raws \cap strays = {})'
    BY <1>4 DEF IInv, OnlyClonesLeak
  <1> QED BY <1>f, <1>3, <1>5, <1>6, <1>7, <1>8 DEF IInv

(* from_raw_*: another view of a raw context, which only views have.       *)
LEMMA FromRawStep == ASSUME IInv, NEW o \in Objs, NEW b \in Blocks, FromRaw(o, b)
                     PROVE  IInv'
  <1> USE DEF FromRaw
  <1>1. TypeOK'
    BY DEF IInv, TypeOK, Contexts, Kinds, Memory
  <1>2. /\ Live(o)' /\ obj'[o] = [kind |-> "view", mem |-> b] /\ ~ Live(o)
        /\ \A p \in Objs \ {o} : obj'[p] = obj[p] /\ Live(p)' = Live(p)
    BY DEF IInv, TypeOK, Live, Nothing
  <1>3. Holding'
    BY <1>2 DEF IInv, Holding, Holds, RawsAllocated
  <1>4. \A p \in Objs : Live(p) /\ obj[p].mem = b => obj[p].kind = "view"
    <2> SUFFICES ASSUME NEW p \in Objs, Live(p), obj[p].mem = b PROVE obj[p].kind = "view"
      OBVIOUS
    <2>1. Holds(p) /\ b \notin strays /\ b \notin Buffers
      BY MemoryAssumption DEF IInv, Holding
    <2> QED BY <2>1 DEF Holds
  <1>5. Disjoint'
    BY <1>2, <1>4 DEF IInv, Disjoint
  <1>6. OnlyClonesLeak'
    BY <1>2 DEF IInv, OnlyClonesLeak
  <1> QED BY <1>1, <1>3, <1>5, <1>6 DEF IInv, RawsAllocated, StraysAllocated

(* The end of a view: it owned nothing.                                    *)
LEMMA LeaveStep == ASSUME IInv, NEW o \in Objs, Leave(o)
                   PROVE  IInv'
  <1> USE DEF Leave
  <1>1. TypeOK'
    BY DEF IInv, TypeOK
  <1>2. /\ ~ Live(o)' /\ obj[o].kind = "view"
        /\ \A p \in Objs \ {o} : obj'[p] = obj[p] /\ Live(p)' = Live(p)
    BY DEF IInv, TypeOK, Live
  <1>3. Holding' /\ Disjoint'
    BY <1>2 DEF IInv, Holding, Holds, Disjoint
  <1>4. OnlyClonesLeak'
    BY <1>2 DEF IInv, OnlyClonesLeak
  <1> QED BY <1>1, <1>3, <1>4 DEF IInv, RawsAllocated, StraysAllocated

(* Every reachable state satisfies the invariant.                          *)
THEOREM Invariant == Spec => []IInv
  <1>1. IInv /\ [Next]_vars => IInv'
    <2> SUFFICES ASSUME IInv, [Next]_vars PROVE IInv'
      OBVIOUS
    <2>1. CASE UNCHANGED vars
      BY <2>1 DEF vars, IInv, TypeOK, Holding, Holds, Live, Disjoint, RawsAllocated,
                  StraysAllocated, OnlyClonesLeak
    <2>2. CASE Next
      BY <2>2, GenNewStep, CloneStep, PreallocatedStep, UseStep, DropStep, RawCreateStep,
         RawDestroyStep, FromRawStep, LeaveStep DEF Next, Step
    <2> QED BY <2>1, <2>2
  <1> QED BY Initially, <1>1, PTL DEF Spec

(* Neither the C library nor the allocator is ever misused: gen_new,       *)
(* Clone, Drop and their raw counterparts only use contexts that are built *)
(* and free each block once, with its layout.                              *)
THEOREM NoMisuse == Spec => [](TypeOK /\ NoFaults)
  <1>1. IInv => TypeOK /\ NoFaults
    BY DEF IInv, NoFaults
  <1> QED BY Invariant, <1>1, PTL

(* Contexts fit where they are put, whatever the sizes of the structure,   *)
(* of a word and of the buffers: preallocate_size_gen rounds up.           *)
THEOREM Fit == Spec => []ContextsFit
  <1>1. IInv => ContextsFit
    <2> SUFFICES ASSUME IInv, NEW o \in Objs, Live(o) PROVE ContextSize <= Capacity(obj[o].mem)
      BY DEF ContextsFit
    <2>1. Holds(o) /\ obj[o].mem \in Memory
      BY InUse DEF IInv, Holding
    <2>2. CASE obj[o].mem \in Buffers
      <3>1. obj[o].mem \notin Blocks
        BY <2>2, MemoryAssumption
      <3>2. BufLen[obj[o].mem] >= PreallocateSizeGen
        BY <2>1, <3>1 DEF Holds, IInv, TypeOK
      <3>3. BufLen[obj[o].mem] \in Nat
        BY <2>2, SizeAssumption
      <3> QED BY <2>2, <3>2, <3>3, MoreWords DEF Capacity
    <2>3. CASE obj[o].mem \notin Buffers
      <3>1. heap[obj[o].mem] \in {PreallocatedSize, PreallocatedSize + WordSize}
        BY <2>1, <2>3 DEF Holds, IInv, RawsAllocated, StraysAllocated
      <3> QED BY <2>3, <3>1, SizeAssumption DEF Capacity, PreallocatedSize
    <2> QED BY <2>2, <2>3
  <1> QED BY Invariant, <1>1, PTL

(* What is not freed is a clone of a preallocated context.                 *)
THEOREM Leaks == Spec => []OnlyClonesLeak
  <1>1. IInv => OnlyClonesLeak
    BY DEF IInv
  <1> QED BY Invariant, <1>1, PTL
=============================================================================
