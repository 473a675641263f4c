------------------------------ MODULE OnceFlag ------------------------------
(***************************************************************************)
(* The static context of the fuzzing build (mod fuzz_dummy of              *)
(* secp256k1-sys/src/lib.rs): secp256k1_context_preallocated_create builds *)
(* one context in PREALLOCATED_CONTEXT, behind a flag made of one atomic,  *)
(* and copies it into the buffer of every caller.                          *)
(*                                                                         *)
(* The flag goes NONE -> WORKING -> DONE, but a process that loaded NONE   *)
(* and swaps too late puts WORKING back for a moment; the builder itself   *)
(* always does so, for its have_ctx is still NONE when it loops.           *)
(*                                                                         *)
(* Read-modify-writes and the loads of the waiting loop get the present    *)
(* value of the flag.  The first load is Relaxed: it may return any value  *)
(* the flag has had, except NONE once the process has read another, and it *)
(* orders nothing.  `ordered` is the set of the processes that the build   *)
(* happens-before, `carries` says whether an Acquire of the flag's present *)
(* value would put a process there.                                        *)
(***************************************************************************)
CONSTANT Procs

VARIABLES flag,     \* HAVE_PREALLOCATED_CONTEXT
          past,     \* the values it has had
          carries,
          static,   \* PREALLOCATED_CONTEXT: "zero", "torn" or "valid"
          pc,
          have,     \* have_ctx of each process
          met,      \* the processes that have read a value other than NONE
          ordered

vars == << flag, past, carries, static, pc, have, met, ordered >>

Flags == {"none", "working", "done"}

Init == /\ flag = "none"
        /\ past = {"none"}
        /\ carries = FALSE
        /\ static = "zero"
        /\ pc = [p \in Procs |-> "out"]
        /\ have = [p \in Procs |-> "none"]
        /\ met = {}
        /\ ordered = {}

Goto(p, there) == pc' = [pc EXCEPT ![p] = there]

Write(v) == /\ flag' = v
            /\ past' = past \cup {v}

(* have_ctx := v, a value read from the flag. *)
Read(p, v) == /\ have' = [have EXCEPT ![p] = v]
              /\ met' = IF v = "none" THEN met ELSE met \cup {p}

AcquireFlag(p) == ordered' = IF carries THEN ordered \cup {p} ELSE ordered

(* The first load, Relaxed.  "copy" is the end of the loop. *)
Load(p) == /\ pc[p] = "out"
           /\ \E v \in past :
                /\ v = "none" => p \notin met
                /\ Read(p, v)
                /\ Goto(p, IF v = "done" THEN "fastcopy" ELSE "loop")
           /\ UNCHANGED << flag, past, carries, static, ordered >>

(* have_ctx is NONE: it becomes the value that a swap to v returns, and    *)
(* the process goes on at there.                                           *)
SwapTo(p, v, there) == /\ pc[p] = "loop"
                       /\ have[p] = "none"
                       /\ have' = [have EXCEPT ![p] = flag]
                       /\ met' = met \cup {p}
                       /\ Write(v)
                       /\ AcquireFlag(p)
                       /\ carries' = (p \in ordered')
                       /\ Goto(p, there)
                       /\ UNCHANGED static

(* Where a process goes after swap(WORKING). *)
AfterSwap == IF flag = "none" THEN "build"
             ELSE IF flag = "done" THEN "restore" ELSE "loop"

(* Mutant: the value of the first load decides who builds. *)
SwapStale(p) == SwapTo(p, "working", "build")

(* Mutant: whoever is not the builder takes the builder to be done. *)
SwapElse(p) == SwapTo(p, "working", IF flag = "none" THEN "build" ELSE "restore")

(* Mutant: DONE is not put back. *)
SwapForgets(p) == SwapTo(p, "working", IF flag = "done" THEN "copy" ELSE AfterSwap)

Swap(p) == SwapTo(p, "working", AfterSwap)

Build(p) == /\ pc[p] = "build"
            /\ static' = "torn"
            /\ Goto(p, "building")
            /\ UNCHANGED << flag, past, carries, have, met, ordered >>

Built(p) == /\ pc[p] = "building"
            /\ static' = "valid"
            /\ ordered' = {p}
            /\ Goto(p, "built")
            /\ UNCHANGED << flag, past, carries, have, met >>

(* swap(DONE, AcqRel); have_ctx keeps its value, NONE. *)
Finish(p) == /\ pc[p] = "built"
             /\ Write("done")
             /\ AcquireFlag(p)
             /\ carries' = (p \in ordered')
             /\ Goto(p, "loop")
             /\ UNCHANGED << static, have, met >>

(* Mutant: store(DONE, Relaxed). *)
RestoreRelaxed(p) == /\ pc[p] = "restore"
                     /\ Write("done")
                     /\ carries' = FALSE
                     /\ Goto(p, "copy")
                     /\ UNCHANGED << static, have, met, ordered >>

(* "Another thread finished while we were swapping": store(DONE, Release). *)
Restore(p) == /\ pc[p] = "restore"
              /\ Write("done")
              /\ carries' = (p \in ordered)
              /\ Goto(p, "copy")
              /\ UNCHANGED << static, have, met, ordered >>

(* "Another thread is building, just busy-loop": load(Acquire). *)
Wait(p) == /\ pc[p] = "loop"
           /\ have[p] = "working"
           /\ Read(p, flag)
           /\ AcquireFlag(p)
           /\ Goto(p, IF flag = "done" THEN "copy" ELSE "loop")
           /\ UNCHANGED << flag, past, carries, static >>

(* The copy of the static into the caller's buffer. *)
Copy(p) == /\ pc[p] \in {"copy", "fastcopy"}
           /\ Goto(p, "out")
           /\ UNCHANGED << flag, past, carries, static, have, met, ordered >>

Creating(p) == \/ Swap(p) \/ Build(p) \/ Built(p) \/ Finish(p)
               \/ Restore(p) \/ Wait(p) \/ Copy(p)

Next == \E p \in Procs : Load(p) \/ Creating(p)

Spec == Init /\ [][Next]_vars

(* The scheduler runs every process (yield_now in the loop). *)
FairSpec == Spec /\ \A p \in Procs : WF_vars(Creating(p))

-----------------------------------------------------------------------------
Labels == {"out", "loop", "build", "building", "built", "restore", "copy", "fastcopy"}

TypeOK == /\ flag \in Flags
          /\ past \in SUBSET Flags
          /\ carries \in BOOLEAN
          /\ static \in {"zero", "torn", "valid"}
          /\ pc \in [Procs -> Labels]
          /\ have \in [Procs -> Flags]
          /\ met \in SUBSET Procs
          /\ ordered \in SUBSET Procs

(* One process builds, once: nobody is about to write the static while     *)
(* another one writes it, or after it is valid.                            *)
SingleBuilder ==
    \A p, q \in Procs : pc[p] \in {"build", "building"} =>
        /\ static # "valid"
        /\ pc[q] \in {"build", "building"} => p = q

(* "assert_eq!(swap(DONE), WORKING)" (lib.rs:1555 of secp256k1-sys) and    *)
(* the assertion of the waiting loop never fail, though a late process     *)
(* puts WORKING back over DONE.                                            *)
AssertionsHold == \A p \in Procs : /\ pc[p] = "built" => flag = "working"
                                   /\ pc[p] = "loop" => have[p] # "done"

(* The static is never copied before it is built, and a copy that did not  *)
(* rest on the first load is ordered after the build.                      *)
CopiesBuilt == \A p \in Procs : /\ pc[p] \in {"copy", "fastcopy"} => static = "valid"
                                /\ pc[p] = "copy" => p \in ordered

(* Nobody waits for ever: not on a builder that is done, nor on a process  *)
(* that put WORKING back.                                                  *)
CallersReturn == \A p \in Procs : pc[p] # "out" ~> pc[p] = "out"

(* "a simple hand-written OnceFlag built out of an atomic to gate the      *)
(* global static" (lib.rs:1531 of secp256k1-sys): every copy of the static *)
(* is ordered after the build.                                             *)
CopiesOrdered == \A p \in Procs : pc[p] \in {"copy", "fastcopy"} => p \in ordered
=============================================================================
