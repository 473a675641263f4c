---------------------------- MODULE GlobalContext ----------------------------
(***************************************************************************)
(* The global context of the no_std build (context/internal_nostd.rs): a   *)
(* static SpinLock<SelfContainedContext>, copied to a context on the       *)
(* caller's stack for each call of with_raw_global_context, and replaced   *)
(* by the rerandomized copy when the call ends.                            *)
(*                                                                         *)
(* Callers are threads and interrupt handlers.  A handler preempts a       *)
(* running process at any point, the one inside the critical section of    *)
(* the lock included, and makes one call; the preempted process does not   *)
(* run until that call has returned.  A call that f itself makes is the    *)
(* same thing, raised at pc = "f".                                         *)
(*                                                                         *)
(* A context is its Option<NonNull<..>> (ptr), the state of the bytes of   *)
(* its buffer (uninitialized, partly written, valid) and, for the blinding *)
(* of the generator multiplication, the set of the seeds mixed into it:    *)
(* randomizing chains a seed onto the present state                        *)
(* (ecmult_gen_blind), creating a context starts from no seed.             *)
(***************************************************************************)
EXTENDS SpinLock

CONSTANTS Threads, Handlers,
          Seeds     \* the values of the seeds callers provide

ASSUME ProcsAssumption == /\ Procs = Threads \cup Handlers
                          /\ Threads \cap Handlers = {}

VARIABLES pc,      \* where each process is in with_raw_global_context
          seed,    \* its rerandomize_seed: None is {}, Some(s) is {s}
          have,    \* have_global_ctx
          ctx,     \* the SelfContainedContext on its stack
          glob,    \* the SelfContainedContext inside SECP256K1
          over     \* the process each handler preempts; itself when not raised

callVars == << pc, seed, have, ctx, over >>
vars == << flag, guard, tries, seen, flagSeen, pc, seed, have, ctx, glob, over >>

Contexts == [ptr : BOOLEAN, st : {"uninit", "torn", "valid"}, seeds : SUBSET Seeds]

Options == {{}} \cup {{s} : s \in Seeds}

(* SelfContainedContext::new_uninitialized *)
NewUninitialized == [ptr |-> FALSE, st |-> "uninit", seeds |-> {}]

(* The result of raw_ctx on a context without a pointer: the preallocated *)
(* context is created in its buffer, over whatever the buffer held.       *)
RawCtx(c) == IF c.ptr THEN c ELSE [ptr |-> TRUE, st |-> "valid", seeds |-> {}]

(* secp256k1_context_preallocated_clone: the bytes of c, but not its ptr. *)
CloneBytes(c, dst) == [dst EXCEPT !.st = c.st, !.seeds = c.seeds]

(* A write to the buffer that is not finished. *)
Torn(c) == [c EXCEPT !.st = "torn"]

Active(p) == p \in Handlers => over[p] # p
Running(p) == Active(p) /\ \A h \in Handlers \ {p} : over[h] # p

Goto(p, there) == pc' = [pc EXCEPT ![p] = there]

(* The call of p returns and its locals go; if p is a handler, so does the *)
(* interrupt.                                                              *)
Return(p) == /\ Goto(p, "idle")
             /\ seed' = [seed EXCEPT ![p] = {}]
             /\ have' = [have EXCEPT ![p] = FALSE]
             /\ ctx' = [ctx EXCEPT ![p] = NewUninitialized]
             /\ over' = [h \in Handlers |-> IF h = p THEN h ELSE over[h]]

-----------------------------------------------------------------------------
Init == /\ LockInit
        /\ pc = [p \in Procs |-> "idle"]
        /\ seed = [p \in Procs |-> {}]
        /\ have = [p \in Procs |-> FALSE]
        /\ ctx = [p \in Procs |-> NewUninitialized]
        /\ glob = NewUninitialized
        /\ over = [h \in Handlers |-> h]

(* The start of with_raw_global_context: a local context, then try_lock. *)
Start(p) == /\ pc[p] = "idle"
            /\ \E s \in Options : seed' = [seed EXCEPT ![p] = s]
            /\ Goto(p, "lock1")
            /\ TryLock(p)
            /\ UNCHANGED << have, ctx, glob >>

Call(t) == /\ Running(t)
           /\ Start(t)
           /\ UNCHANGED over

Raise(h, p) == /\ ~ Active(h)
               /\ Running(p)
               /\ over' = [over EXCEPT ![h] = p]
               /\ Start(h)

(* try_lock, the first time. *)
Acquire1(p) == /\ pc[p] = "lock1"
               /\ Acquire(p)
               /\ Goto(p, "rawGlobal")
               /\ UNCHANGED << seed, have, ctx, glob, over >>

SpinOn(p) == /\ Spin(p)
             /\ UNCHANGED << callVars, glob >>

GiveUp1(p) == /\ pc[p] = "lock1"
              /\ GiveUp(p)
              /\ Goto(p, "rawLocal")
              /\ UNCHANGED << seed, have, ctx, glob, over >>

(* ctx.clone_into(global_ctx): global_ctx.raw_ctx() creates the context of *)
(* the static the first time ...                                           *)
CreateGlobal(p) == /\ pc[p] = "rawGlobal"
                   /\ ~ glob.ptr
                   /\ Deref(p)
                   /\ glob' = Torn(glob)
                   /\ Goto(p, "creating")
                   /\ UNCHANGED << seed, have, ctx, over >>

GlobalCreated(p) == /\ pc[p] = "creating"
                    /\ Deref(p)
                    /\ glob' = RawCtx(glob)
                    /\ Goto(p, "rawGlobal")
                    /\ UNCHANGED << seed, have, ctx, over >>

(* Mutant: the buffer of the static is copied without a call of raw_ctx. *)
CloneInUnchecked(p) == /\ pc[p] = "rawGlobal"
                       /\ Deref(p)
                       /\ ctx' = [ctx EXCEPT ![p] = Torn(@)]
                       /\ Goto(p, "cloningIn")
                       /\ UNCHANGED << seed, have, glob, over >>

(* ... and its bytes are copied to the local buffer.  The copy does not   *)
(* set the local pointer.                                                 *)
CloneIn(p) == /\ pc[p] = "rawGlobal"
              /\ glob.ptr
              /\ Deref(p)
              /\ ctx' = [ctx EXCEPT ![p] = Torn(@)]
              /\ Goto(p, "cloningIn")
              /\ UNCHANGED << seed, have, glob, over >>

ClonedIn(p) == /\ pc[p] = "cloningIn"
               /\ Deref(p)
               /\ ctx' = [ctx EXCEPT ![p] = CloneBytes(glob, @)]
               /\ have' = [have EXCEPT ![p] = TRUE]
               /\ Goto(p, "unlock1")
               /\ UNCHANGED << seed, glob, over >>

Unlock1(p) == /\ pc[p] = "unlock1"
              /\ Unlock(p)
              /\ Goto(p, "rawLocal")
              /\ UNCHANGED << seed, have, ctx, glob, over >>

(* let ctx_ptr = ctx.raw_ctx() *)
RawLocal(p) == /\ pc[p] = "rawLocal"
               /\ ctx' = [ctx EXCEPT ![p] = RawCtx(@)]
               /\ Goto(p, "f")
               /\ UNCHANGED << lockVars, seed, have, glob, over >>

(* Mutant: without the test of have_global_ctx. *)
FReturnsAlways(p) == /\ pc[p] = "f"
                     /\ seed[p] # {}
                     /\ Goto(p, "randomize")
                     /\ UNCHANGED << lockVars, seed, have, ctx, glob, over >>

(* f returns to a caller that rerandomizes ... *)
FReturns(p) == /\ pc[p] = "f"
               /\ have[p] /\ seed[p] # {}
               /\ Goto(p, "randomize")
               /\ UNCHANGED << lockVars, seed, have, ctx, glob, over >>

(* ... or not; or it unwinds through with_raw_global_context. *)
FLeaves(p) == /\ pc[p] = "f"
              /\ Return(p)
              /\ UNCHANGED << lockVars, glob >>

(* secp256k1_context_randomize of the local context, then try_lock. *)
Randomize(p) == /\ pc[p] = "randomize"
                /\ ctx' = [ctx EXCEPT ![p].seeds = @ \cup seed[p]]
                /\ TryLock(p)
                /\ Goto(p, "lock2")
                /\ UNCHANGED << seed, have, glob, over >>

Acquire2(p) == /\ pc[p] = "lock2"
               /\ Acquire(p)
               /\ Goto(p, "cloneOut")
               /\ UNCHANGED << seed, have, ctx, glob, over >>

GiveUp2(p) == /\ pc[p] = "lock2"
              /\ GiveUp(p)
              /\ Return(p)
              /\ UNCHANGED glob

(* guard.clone_into(&mut ctx) *)
CloneOut(p) == /\ pc[p] = "cloneOut"
               /\ Deref(p)
               /\ glob' = Torn(glob)
               /\ Goto(p, "cloningOut")
               /\ UNCHANGED << seed, have, ctx, over >>

(* Mutant: source and destination swapped. *)
ClonedOutSwapped(p) == /\ pc[p] = "cloningOut"
                       /\ Deref(p)
                       /\ glob' = [glob EXCEPT !.st = "valid"]
                       /\ ctx' = [ctx EXCEPT ![p].seeds = glob.seeds]
                       /\ Goto(p, "unlock2")
                       /\ UNCHANGED << seed, have, over >>

ClonedOut(p) == /\ pc[p] = "cloningOut"
                /\ Deref(p)
                /\ glob' = CloneBytes(ctx[p], glob)
                /\ Goto(p, "unlock2")
                /\ UNCHANGED << seed, have, ctx, over >>

Unlock2(p) == /\ pc[p] = "unlock2"
              /\ Unlock(p)
              /\ Return(p)
              /\ UNCHANGED glob

CallStep(p) == \/ Acquire1(p) \/ SpinOn(p) \/ GiveUp1(p)
               \/ CreateGlobal(p) \/ GlobalCreated(p)
               \/ CloneIn(p) \/ ClonedIn(p) \/ Unlock1(p) \/ RawLocal(p)
               \/ FReturns(p) \/ FLeaves(p)
               \/ Randomize(p) \/ Acquire2(p) \/ GiveUp2(p)
               \/ CloneOut(p) \/ ClonedOut(p) \/ Unlock2(p)

Step(p) == Running(p) /\ CallStep(p)

Next == \/ \E t \in Threads : Call(t)
        \/ \E h \in Handlers, p \in Procs : Raise(h, p)
        \/ \E p \in Procs : Step(p)

Spec == Init /\ [][Next]_vars

(* A processor that keeps being interrupted still executes an instruction  *)
(* of the interrupted process now and then: strong fairness, since Step(p) *)
(* is disabled while a handler runs over p.                                *)
FairFor(S) == \A p \in S : SF_vars(Step(p))

-----------------------------------------------------------------------------
Labels == {"idle", "lock1", "rawGlobal", "creating", "cloningIn", "unlock1",
           "rawLocal", "f", "randomize", "lock2", "cloneOut", "cloningOut",
           "unlock2"}

TypeOK == /\ LockTypeOK
          /\ pc \in [Procs -> Labels]
          /\ seed \in [Procs -> Options]
          /\ have \in [Procs -> BOOLEAN]
          /\ ctx \in [Procs -> Contexts]
          /\ glob \in Contexts
          /\ over \in [Handlers -> Procs]

InCritical(p) == pc[p] \in {"rawGlobal", "creating", "cloningIn", "unlock1",
                            "cloneOut", "cloningOut", "unlock2"}

(* The invariant in the comment of SpinLock::data (spinlock.rs:28): when   *)
(* the pointer of the static is Some its store is a valid context.  Its    *)
(* bytes are incomplete only while one process is writing them, under the  *)
(* lock, so whoever acquires the lock finds a whole context or none.       *)
StoreValid == \/ glob.ptr /\ glob.st = "valid"
              \/ ~ glob.ptr /\ glob.st = "uninit"
              \/ \E p \in guard : pc[p] \in {"creating", "cloningOut"}

(* No context that is not created, or half written, is ever copied by      *)
(* clone_into, although the source may be preempted or contended at any    *)
(* point, nor given to f or context_randomize, with or without the lock,   *)
(* whatever happened to the copy under it.                                 *)
UsedContextsIntact == /\ \A p \in Procs : pc[p] = "cloningIn" =>
                                glob.ptr /\ glob.st = "valid"
                      /\ \A p \in Procs :
                            pc[p] \in {"f", "randomize", "cloneOut", "cloningOut"} =>
                                ctx[p].ptr /\ ctx[p].st = "valid"

(* "Then we can release it, allowing other callers to use it               *)
(* simultaneously" (internal_nostd.rs:110): the lock is held only inside   *)
(* the two critical sections, never across f, never by a process that is   *)
(* spinning for it, and never by one whose call has ended.                 *)
NoGuardAcrossF == guard = {p \in Procs : InCritical(p)}

(* All three: the lock is held exactly in the two critical sections, a     *)
(* context that is not whole is left only to the process that writes it    *)
(* there, and no other is ever used (internal_nostd.rs:39-50, 114-153).    *)
ContextsIntact == NoGuardAcrossF /\ StoreValid /\ UsedContextsIntact

(* "if we got the lock above, we may fail to get it now; in that case we   *)
(* [..] leave the context in the state that we found it in"                *)
(* (internal_nostd.rs:127): a created global context is replaced only by a *)
(* call that copied it before and was given a seed, and when the write     *)
(* ends it is the randomized local context.                                *)
OnlySeededCallsReplace ==
    [][glob.ptr /\ glob' # glob =>
         \E p \in guard : /\ have[p] /\ seed[p] # {}
                          /\ glob'.ptr
                          /\ glob'.st = "valid" => /\ glob'.seeds = ctx[p].seeds
                                                   /\ seed[p] \subseteq glob'.seeds]_vars

(* Every call of the processes in S returns. *)
Returns(S) == \A p \in S : pc[p] # "idle" ~> pc[p] = "idle"

(* "mixed with the entropy from previous calls" (internal_nostd.rs:157):   *)
(* a replacement of the global context keeps the seeds that it had.        *)
MixesPreviousEntropy ==
    [][glob.ptr /\ glob'.st = "valid" => glob.seeds \subseteq glob'.seeds]_vars
-----------------------------------------------------------------------------
(* The refinement of ContextCell.  A call has its context when raw_ctx     *)
(* returns it, and replaces the cell when it starts to copy its own over   *)
(* the global one: nobody sees the global one before the copy ends.        *)
cellNow == IF \E p \in Procs : pc[p] = "cloningOut"
           THEN ctx[CHOOSE p \in Procs : pc[p] = "cloningOut"].seeds
           ELSE glob.seeds

phaseNow == [p \in Procs |-> CASE pc[p] \in {"f", "randomize"} -> "using"
                               [] pc[p] \in {"lock2", "cloneOut"} -> "mixed"
                               [] OTHER -> "out"]

mineNow == [p \in Procs |-> IF phaseNow[p] = "out" THEN {} ELSE ctx[p].seeds]

Cell == INSTANCE ContextCell WITH made <- glob.ptr, cell <- cellNow,
                                  phase <- phaseNow, mine <- mineNow

(* The lock, the two copies and their failures together behave as an       *)
(* atomic cell: no call uses or publishes a mixture of two contexts, and   *)
(* the cell changes only at the end of a call that had it                  *)
(* (internal_nostd.rs:109-141).                                            *)
ImplementsCell == Cell!CellSpec
=============================================================================
