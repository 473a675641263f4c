------------------------------ MODULE SpinLock ------------------------------
(***************************************************************************)
(* The best-effort spinlock of the no_std build (context/spinlock.rs):     *)
(* `try_lock` spins MAX_SPINLOCK_ATTEMPTS times on a compare-and-swap and  *)
(* then gives up; the guard it returns is the only way to the data, and    *)
(* dropping the guard unlocks.                                             *)
(*                                                                         *)
(* `flag` is an atomic, so its own value is sequentially consistent here.  *)
(* The data it protects is not atomic: an access is ordered after another  *)
(* process's access only through a Release store read by an Acquire        *)
(* operation.  `seen` and `flagSeen` keep that ordering: p \in seen says   *)
(* that every access to the data so far happens-before what p does next,   *)
(* and flagSeen says so of whoever acquires the flag's present value.      *)
(***************************************************************************)
EXTENDS Naturals

CONSTANTS Procs,                 \* threads and interrupt handlers
          MAX_SPINLOCK_ATTEMPTS  \* 128 in the code

ASSUME AttemptsAssumption == MAX_SPINLOCK_ATTEMPTS \in Nat \ {0}

VARIABLES flag,      \* SpinLock::flag
          guard,     \* the processes that own a live SpinLockGuard
          tries,     \* attempts left to each process inside try_lock, 0 outside
          seen,      \* processes ordered after every access to the data
          flagSeen   \* the same for the next process that acquires the flag

lockVars == << flag, guard, tries, seen, flagSeen >>

(* SpinLock::new: the value of a static, ordered before everything. *)
LockInit == /\ flag = FALSE
            /\ guard = {}
            /\ tries = [p \in Procs |-> 0]
            /\ seen = Procs
            /\ flagSeen = TRUE

(* Mutant: one attempt too many. *)
TryLockOffByOne(p) == /\ tries[p] = 0
                      /\ tries' = [tries EXCEPT ![p] = MAX_SPINLOCK_ATTEMPTS + 1]
                      /\ UNCHANGED << flag, guard, seen, flagSeen >>

(* Entering try_lock.  A process that owns a guard may do so too (the test *)
(* contention_single_thread): it will be refused.                          *)
TryLock(p) == /\ tries[p] = 0
              /\ tries' = [tries EXCEPT ![p] = MAX_SPINLOCK_ATTEMPTS]
              /\ UNCHANGED << flag, guard, seen, flagSeen >>

(* Mutant: a load and a store in place of the compare-and-swap, with the  *)
(* load long before.                                                      *)
AcquireUnchecked(p) == /\ tries[p] > 0
                       /\ flag' = TRUE
                       /\ guard' = guard \cup {p}
                       /\ tries' = [tries EXCEPT ![p] = 0]
                       /\ seen' = IF flagSeen THEN seen \cup {p} ELSE seen
                       /\ UNCHANGED flagSeen

(* compare_exchange(false, true, Acquire, _) succeeds: a guard is returned. *)
Acquire(p) == /\ tries[p] > 0
              /\ flag = FALSE
              /\ flag' = TRUE
              /\ guard' = guard \cup {p}
              /\ tries' = [tries EXCEPT ![p] = 0]
              /\ seen' = IF flagSeen THEN seen \cup {p} ELSE seen
              /\ UNCHANGED flagSeen

(* Mutant: the "true" spinlock that the header comment warns of. *)
SpinForever(p) == /\ tries[p] > 0
                  /\ flag = TRUE
                  /\ UNCHANGED lockVars

(* It fails, and this was not the last attempt. *)
Spin(p) == /\ tries[p] > 1
           /\ flag = TRUE
           /\ tries' = [tries EXCEPT ![p] = @ - 1]
           /\ UNCHANGED << flag, guard, seen, flagSeen >>

(* The last attempt fails: try_lock returns None. *)
GiveUp(p) == /\ tries[p] = 1
             /\ flag = TRUE
             /\ tries' = [tries EXCEPT ![p] = 0]
             /\ UNCHANGED << flag, guard, seen, flagSeen >>

(* Deref and DerefMut: an access to the data by the owner of a guard.  It  *)
(* is conflicting in general (DerefMut), so it is ordered before nothing   *)
(* another process does until it is released.                              *)
Deref(p) == /\ p \in guard
            /\ seen' = {p}
            /\ flagSeen' = FALSE
            /\ UNCHANGED << flag, guard, tries >>

(* Mutant: store(false, Relaxed). *)
UnlockRelaxed(p) == /\ p \in guard
                    /\ guard' = guard \ {p}
                    /\ flag' = FALSE
                    /\ UNCHANGED << tries, seen, flagSeen >>

(* Drop of the guard: store(false, Release). *)
Unlock(p) == /\ p \in guard
             /\ guard' = guard \ {p}
             /\ flag' = FALSE
             /\ flagSeen' = (p \in seen)
             /\ UNCHANGED << tries, seen >>

LockStep(p) == \/ TryLock(p) \/ Acquire(p) \/ Spin(p) \/ GiveUp(p)
               \/ Deref(p) \/ Unlock(p)

LockNext == \E p \in Procs : LockStep(p)

LockSpec == LockInit /\ [][LockNext]_lockVars

(* A process inside try_lock keeps executing; nothing is assumed of one    *)
(* that holds the lock, which may never run again.                         *)
Spinning(p) == Acquire(p) \/ Spin(p) \/ GiveUp(p)
LockFairness == \A p \in Procs : WF_lockVars(Spinning(p))

LiveLockSpec == LockSpec /\ LockFairness

-----------------------------------------------------------------------------
LockTypeOK == /\ flag \in BOOLEAN
              /\ guard \in SUBSET Procs
              /\ tries \in [Procs -> 0 .. MAX_SPINLOCK_ATTEMPTS]
              /\ seen \in SUBSET Procs
              /\ flagSeen \in BOOLEAN

(* "mutable access is unique while the guard lives" (spinlock.rs:100):     *)
(* there are never two guards, so never two references to the data.        *)
UniqueGuard == \A p, q \in guard : p = q

(* "data is accessed only while the flag is held" (spinlock.rs:34): a      *)
(* process that can reach the data is ordered after every earlier access   *)
(* to it, whoever made it, so no two accesses race.                        *)
NoDataRace == guard \subseteq seen

(* The code's reason for bounding the loop (spinlock.rs:14-20): whoever    *)
(* calls try_lock gets an answer, even if the holder of the lock never     *)
(* runs again (it was preempted by the caller itself).                     *)
TryLockAnswers == \A p \in Procs : tries[p] > 0 ~> tries[p] = 0
=============================================================================
