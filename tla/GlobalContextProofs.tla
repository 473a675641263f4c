------------------------ MODULE GlobalContextProofs ------------------------
(* Theorems about SpinLock and GlobalContext, for every set of threads,    *)
(* handlers and seeds, however deep the interrupts nest, and every bound   *)
(* on the attempts of try_lock; and about GlobalContextStd, however deep   *)
(* the calls nest.                                                         *)
EXTENDS GlobalContext, GlobalContextStd, SequenceTheorems, FiniteSetTheorems, TLAPS

(* The flag is set exactly while a guard lives; there is one guard; and    *)
(* whoever may touch the data, now or after the next Acquire, is ordered   *)
(* after every earlier access.  UniqueGuard and NoDataRace are not         *)
(* inductive without the first and the last part.                          *)
LockInv == /\ LockTypeOK
           /\ flag = TRUE <=> guard # {}
           /\ UniqueGuard
           /\ NoDataRace
           /\ guard = {} => flagSeen = TRUE

(* The initial states satisfy the invariant. *)
LEMMA LockInitInv == LockInit => LockInv
<1> SUFFICES ASSUME LockInit PROVE LockInv
  OBVIOUS
<1>1. tries \in [Procs -> 0 .. MAX_SPINLOCK_ATTEMPTS]
  BY AttemptsAssumption DEF LockInit
<1>2. LockTypeOK
  BY <1>1 DEF LockInit, LockTypeOK
<1>3. QED
  BY <1>2 DEF LockInit, LockInv, UniqueGuard, NoDataRace

(* Each operation of the lock preserves the invariant ...  Stated for one  *)
(* process, so that modules that build on the lock can use it for their    *)
(* own steps.                                                              *)
LEMMA LockStepInv ==
  ASSUME LockInv, NEW p \in Procs, LockStep(p)
  PROVE  LockInv'
<1> USE AttemptsAssumption DEF LockInv, LockTypeOK, UniqueGuard, NoDataRace
<1>1. CASE TryLock(p)
  BY <1>1 DEF TryLock
<1>2. CASE Acquire(p)
  BY <1>2 DEF Acquire
<1>3. CASE Spin(p)
  BY <1>3 DEF Spin
<1>4. CASE GiveUp(p)
  BY <1>4 DEF GiveUp
<1>5. CASE Deref(p)
  BY <1>5 DEF Deref
<1>6. CASE Unlock(p)
  BY <1>6 DEF Unlock
<1>7. QED
  BY <1>1, <1>2, <1>3, <1>4, <1>5, <1>6 DEF LockStep

(* ... and so does a step that leaves the lock alone. *)
LEMMA LockStutterInv == LockInv /\ UNCHANGED lockVars => LockInv'
  BY DEF LockInv, LockTypeOK, UniqueGuard, NoDataRace, lockVars

(* Every reachable state of the lock satisfies the invariant. *)
THEOREM LockInvariant == LockSpec => []LockInv
<1>1. LockInit => LockInv
  BY LockInitInv
<1>2. LockInv /\ [LockNext]_lockVars => LockInv'
  BY LockStepInv, LockStutterInv DEF LockNext
<1>3. QED
  BY <1>1, <1>2, PTL DEF LockSpec

(* There are never two guards, so never two references to the data:        *)
(* spinlock.rs:100.                                                        *)
THEOREM LockMutualExclusion == LockSpec => []UniqueGuard
<1>1. LockInv => UniqueGuard
  BY DEF LockInv
<1>2. QED
  BY <1>1, LockInvariant, PTL

(* No two accesses to the data race: spinlock.rs:34. *)
THEOREM LockNoDataRace == LockSpec => []NoDataRace
<1>1. LockInv => NoDataRace
  BY DEF LockInv
<1>2. QED
  BY <1>1, LockInvariant, PTL

----------------------------------------------------------------------------
(* What a process has established by the time it is at a label: the part   *)
(* of the invariant that says why each step finds what it needs.           *)
Established(p) ==
  /\ pc[p] = "creating" => ~ glob.ptr
  /\ pc[p] \in {"cloningIn", "unlock1"} => glob.ptr /\ glob.st = "valid"
  /\ pc[p] \in {"randomize", "lock2", "cloneOut", "cloningOut", "unlock2"} => have[p]
  /\ have[p] => glob.ptr
  /\ pc[p] \in {"f", "randomize", "lock2", "cloneOut", "cloningOut", "unlock2"} =>
       ctx[p].ptr /\ ctx[p].st = "valid"
  /\ pc[p] \in {"idle", "lock1", "rawGlobal", "creating", "cloningIn"} => ~ have[p]
  /\ pc[p] \in {"idle", "lock1", "rawGlobal", "creating", "cloningIn", "unlock1",
                 "rawLocal"} => ~ ctx[p].ptr
  /\ pc[p] \in {"lock2", "cloneOut", "cloningOut", "unlock2"} =>
       seed[p] # {} /\ seed[p] \subseteq ctx[p].seeds
  /\ pc[p] = "randomize" => seed[p] # {}
  /\ pc[p] = "unlock2" => glob.seeds = ctx[p].seeds

(* No seed is mixed into a global context that does not exist. *)
NothingMixed == ~ glob.ptr => glob.seeds = {}

IInv == /\ TypeOK
        /\ LockInv
        /\ NoGuardAcrossF
        /\ StoreValid
        /\ NothingMixed
        /\ \A p \in Procs : Established(p)

(* Every step of a call leaves the lock alone or is one operation of it,   *)
(* so the invariant of the lock carries over.                              *)
LEMMA StepLock == ASSUME LockInv, [Next]_vars
                  PROVE  LockInv'
<1>1. ASSUME NEW p \in Procs, Start(p)
      PROVE  LockInv'
  BY <1>1, LockStepInv DEF Start, LockStep
<1>2. ASSUME NEW p \in Procs, CallStep(p)
      PROVE  LockStep(p) \/ UNCHANGED lockVars
  BY <1>2 DEF CallStep, LockStep, Acquire1, SpinOn, GiveUp1, CreateGlobal, GlobalCreated, CloneIn, ClonedIn, Unlock1, RawLocal, FReturns, FLeaves, Randomize, Acquire2, GiveUp2, CloneOut, ClonedOut, Unlock2
<1>3. UNCHANGED vars => UNCHANGED lockVars
  BY DEF vars, lockVars
<1>4. QED
  BY <1>1, <1>2, <1>3, LockStepInv, LockStutterInv, ProcsAssumption
     DEF Next, Call, Raise, Step

(* Type correctness is preserved by every step. *)
LEMMA StepType == ASSUME TypeOK, LockInv', [Next]_vars
                  PROVE  TypeOK'
<1> USE DEF TypeOK, Labels, Contexts, Options, Goto
<1>0. LockTypeOK'
  BY DEF LockInv
<1>1. ASSUME NEW p \in Procs, Start(p), UNCHANGED over \/ over' \in [Handlers -> Procs]
      PROVE  TypeOK'
  <2>1. PICK s \in Options : seed' = [seed EXCEPT ![p] = s]
    BY <1>1 DEF Start
  <2>2. seed' \in [Procs -> Options]
    BY <2>1 DEF TypeOK
  <2>3. pc' \in [Procs -> Labels]
    BY <1>1 DEF Start
  <2>4. over' \in [Handlers -> Procs]
    BY <1>1
  <2>5. QED
    BY <1>0, <1>1, <2>2, <2>3, <2>4 DEF Start
<1>2. ASSUME NEW p \in Procs, CallStep(p)
      PROVE  TypeOK'
  <2>1. CASE Acquire1(p)
    BY <1>0, <2>1 DEF Acquire1
  <2>2. CASE SpinOn(p)
    BY <1>0, <2>2 DEF SpinOn, callVars
  <2>3. CASE GiveUp1(p)
    BY <1>0, <2>3 DEF GiveUp1
  <2>4. CASE CreateGlobal(p)
    BY <1>0, <2>4 DEF CreateGlobal, Torn
  <2>5. CASE GlobalCreated(p)
    BY <1>0, <2>5 DEF GlobalCreated, RawCtx
  <2>6. CASE CloneIn(p)
    BY <1>0, <2>6 DEF CloneIn, Torn
  <2>7. CASE ClonedIn(p)
    BY <1>0, <2>7 DEF ClonedIn, CloneBytes
  <2>8. CASE Unlock1(p)
    BY <1>0, <2>8 DEF Unlock1
  <2>9. CASE RawLocal(p)
    BY <1>0, <2>9 DEF RawLocal, RawCtx
  <2>10. CASE FReturns(p)
    BY <1>0, <2>10, ProcsAssumption DEF FReturns
  <2>11. CASE FLeaves(p)
    BY <1>0, <2>11, ProcsAssumption DEF FLeaves, Return, NewUninitialized
  <2>12. CASE Randomize(p)
    <3>1. ctx[p] \in Contexts /\ seed[p] \in SUBSET Seeds
      OBVIOUS
    <3>2. [ctx[p] EXCEPT !.seeds = ctx[p].seeds \cup seed[p]] \in Contexts
      BY ONLY <3>1 DEF Contexts
    <3>3. ctx' \in [Procs -> Contexts]
      BY ONLY <2>12, <3>2, TypeOK DEF Randomize, TypeOK
    <3>4. QED
      BY <1>0, <2>12, <3>3 DEF Randomize
  <2>13. CASE Acquire2(p)
    BY <1>0, <2>13 DEF Acquire2
  <2>14. CASE GiveUp2(p)
    <3>1. Return(p) /\ glob' = glob
      BY <2>14 DEF GiveUp2
    <3>2. pc' \in [Procs -> Labels] /\ seed' \in [Procs -> Options] /\ have' \in [Procs -> BOOLEAN]
      BY <3>1 DEF Return
    <3>3. ctx' \in [Procs -> Contexts]
      BY <3>1 DEF Return, NewUninitialized
    <3>4. over' \in [Handlers -> Procs]
      BY <3>1, ProcsAssumption DEF Return
    <3>5. QED
      BY <1>0, <3>1, <3>2, <3>3, <3>4
  <2>15. CASE CloneOut(p)
    BY <1>0, <2>15 DEF CloneOut, Torn
  <2>16. CASE ClonedOut(p)
    BY <1>0, <2>16 DEF ClonedOut, CloneBytes
  <2>17. CASE Unlock2(p)
    BY <1>0, <2>17, ProcsAssumption DEF Unlock2, Return, NewUninitialized
  <2>18. QED
    BY <1>2, <2>1, <2>2, <2>3, <2>4, <2>5, <2>6, <2>7, <2>8, <2>9, <2>10, <2>11, <2>12, <2>13, <2>14, <2>15, <2>16, <2>17 DEF CallStep
<1>3. CASE UNCHANGED vars
  BY <1>0, <1>3 DEF vars
<1>4. ASSUME NEW h \in Handlers, NEW p \in Procs, Raise(h, p)
      PROVE  over' \in [Handlers -> Procs]
  BY <1>4 DEF Raise
<1>5. QED
  BY <1>1, <1>2, <1>3, <1>4, ProcsAssumption DEF Next, Call, Raise, Step

(* The labels of the two critical sections and the guard move together,    *)
(* and what a step of p changes is established for p, and unchanged or     *)
(* impossible for every other process.                                     *)
LEMMA StepCall ==
  ASSUME IInv, NEW p \in Procs, CallStep(p)
  PROVE  NoGuardAcrossF' /\ StoreValid' /\ NothingMixed' /\ (\A q \in Procs : Established(q)')
<1> USE DEF IInv, TypeOK, Labels, Contexts, LockInv, UniqueGuard,
            NoGuardAcrossF, InCritical, StoreValid, NothingMixed, Established
<1>1. CASE Acquire1(p)
  BY <1>1 DEF Acquire1, Goto, Acquire
<1>2. CASE SpinOn(p)
  BY <1>2 DEF SpinOn, Goto, Spin, callVars
<1>3. CASE GiveUp1(p)
  BY <1>3 DEF GiveUp1, Goto, GiveUp
<1>4. CASE CreateGlobal(p)
  BY <1>4 DEF CreateGlobal, Goto, Deref, Torn
<1>5. CASE GlobalCreated(p)
  BY <1>5 DEF GlobalCreated, Goto, Deref, RawCtx
<1>6. CASE CloneIn(p)
  BY <1>6 DEF CloneIn, Goto, Deref, Torn
<1>7. CASE ClonedIn(p)
  BY <1>7 DEF ClonedIn, Goto, Deref, CloneBytes
<1>8. CASE Unlock1(p)
  BY <1>8 DEF Unlock1, Goto, Unlock
<1>9. CASE RawLocal(p)
  BY <1>9 DEF RawLocal, Goto, lockVars, RawCtx
<1>10. CASE FReturns(p)
  BY <1>10 DEF FReturns, Goto, lockVars
<1>11. CASE FLeaves(p)
  BY <1>11 DEF FLeaves, Goto, lockVars, Return, NewUninitialized
<1>12. CASE Randomize(p)
  BY <1>12 DEF Randomize, Goto, TryLock
<1>13. CASE Acquire2(p)
  BY <1>13 DEF Acquire2, Goto, Acquire
<1>14. CASE GiveUp2(p)
  BY <1>14 DEF GiveUp2, Goto, GiveUp, Return, NewUninitialized
<1>15. CASE CloneOut(p)
  BY <1>15 DEF CloneOut, Goto, Deref, Torn
<1>16. CASE ClonedOut(p)
  BY <1>16 DEF ClonedOut, Goto, Deref, CloneBytes
<1>17. CASE Unlock2(p)
  BY <1>17 DEF Unlock2, Goto, Unlock, Return, NewUninitialized
<1>18. QED
  BY <1>1, <1>2, <1>3, <1>4, <1>5, <1>6, <1>7, <1>8, <1>9, <1>10, <1>11, <1>12, <1>13, <1>14, <1>15, <1>16, <1>17 DEF CallStep

(* The start of a call, of a thread or of a handler that is raised. *)
LEMMA StartCall ==
  ASSUME IInv, NEW p \in Procs, Start(p)
  PROVE  NoGuardAcrossF' /\ StoreValid' /\ NothingMixed' /\ (\A q \in Procs : Established(q)')
BY DEF IInv, TypeOK, Labels, Contexts, LockInv, NoGuardAcrossF, InCritical,
       StoreValid, NothingMixed, Established, Start, Goto, TryLock

LEMMA InitInv == Init => IInv
<1> SUFFICES ASSUME Init PROVE IInv
  OBVIOUS
<1>1. LockInv
  BY LockInitInv DEF Init
<1>2. TypeOK
  BY <1>1, ProcsAssumption DEF Init, LockInv, TypeOK, Labels, Contexts, Options,
     NewUninitialized
<1>3. NoGuardAcrossF /\ StoreValid /\ NothingMixed /\ \A p \in Procs : Established(p)
  BY DEF Init, LockInit, NoGuardAcrossF, InCritical, StoreValid, NothingMixed,
     Established, NewUninitialized
<1>4. QED
  BY <1>1, <1>2, <1>3 DEF IInv

LEMMA StepInv == IInv /\ [Next]_vars => IInv'
<1> SUFFICES ASSUME IInv, [Next]_vars PROVE IInv'
  OBVIOUS
<1>1. LockInv' /\ TypeOK'
  BY StepLock, StepType DEF IInv
<1>2. CASE \E p \in Procs : Start(p)
  BY <1>1, <1>2, StartCall DEF IInv
<1>3. CASE \E p \in Procs : CallStep(p)
  BY <1>1, <1>3, StepCall DEF IInv
<1>4. CASE UNCHANGED vars
  BY <1>1, <1>4 DEF IInv, vars, NoGuardAcrossF, InCritical, StoreValid, NothingMixed,
     Established
<1>5. QED
  BY <1>2, <1>3, <1>4, ProcsAssumption DEF Next, Call, Raise, Step

(* Every reachable state satisfies the inductive invariant. *)
THEOREM Invariant == Spec => []IInv
  BY InitInv, StepInv, PTL DEF Spec

(* The variables of the model have the values they are declared to have. *)
THEOREM TypeCorrect == Spec => []TypeOK
<1>1. IInv => TypeOK
  BY DEF IInv
<1>2. QED
  BY <1>1, Invariant, PTL

(* Two callers never have a reference to the global context at once, and   *)
(* their accesses to it never race (spinlock.rs:34, 100).                  *)
THEOREM ExclusiveAccess == Spec => [](UniqueGuard /\ NoDataRace)
<1>1. IInv => UniqueGuard /\ NoDataRace
  BY DEF IInv, LockInv
<1>2. QED
  BY <1>1, Invariant, PTL

(* A context in the static is whole whenever nobody is writing it, every   *)
(* clone copies a whole one, and f and the randomization get a created one *)
(* (spinlock.rs:28, internal_nostd.rs:39-68).                              *)
THEOREM ContextsAreValid == Spec => []ContextsIntact
<1>1. IInv => ContextsIntact
  BY DEF IInv, Established, UsedContextsIntact, ContextsIntact
<1>2. QED
  BY <1>1, Invariant, PTL

(* The lock is held exactly in the two critical sections, never while f    *)
(* runs (internal_nostd.rs:110).                                           *)
THEOREM LockReleased == Spec => []NoGuardAcrossF
<1>1. IInv => NoGuardAcrossF
  BY DEF IInv
<1>2. QED
  BY <1>1, Invariant, PTL

(* A created global context changes only by the call of a process that     *)
(* copied it and has a seed, and becomes the context of that call          *)
(* (internal_nostd.rs:127, 141-149).                                       *)
THEOREM Replacements == Spec => OnlySeededCallsReplace
<1> DEFINE Change == glob.ptr /\ glob' # glob =>
              \E p \in guard : /\ have[p] /\ seed[p] # {}
                               /\ glob'.ptr
                               /\ glob'.st = "valid" => /\ glob'.seeds = ctx[p].seeds
                                                        /\ seed[p] \subseteq glob'.seeds
<1>1. ASSUME IInv, NEW p \in Procs, CallStep(p), glob.ptr, glob' # glob
      PROVE  CloneOut(p) \/ ClonedOut(p)
  BY <1>1 DEF IInv, Established, CallStep, Acquire1, SpinOn, GiveUp1, CreateGlobal,
     GlobalCreated, CloneIn, ClonedIn, Unlock1, RawLocal, FReturns, FLeaves,
     Randomize, Acquire2, GiveUp2, Unlock2
<1>2. ASSUME IInv, NEW p \in Procs, CloneOut(p) \/ ClonedOut(p)
      PROVE  Change
  BY <1>2 DEF IInv, TypeOK, Contexts, Established, CloneOut, ClonedOut, Deref, Torn,
     CloneBytes
<1>3. IInv /\ [Next]_vars => Change
  BY <1>1, <1>2, ProcsAssumption DEF Next, Call, Raise, Start, Step, vars
<1>4. QED
  BY <1>3, Invariant, PTL DEF Spec, OnlySeededCallsReplace

-----------------------------------------------------------------------------
(* The refinement.  What the cell holds in each state. *)
LEMMA CellDuringCopy ==
  ASSUME IInv, NEW p \in Procs, pc[p] = "cloningOut"
  PROVE  cellNow = ctx[p].seeds
<1>1. \A q \in Procs : pc[q] = "cloningOut" => q = p
  BY DEF IInv, LockInv, UniqueGuard, NoGuardAcrossF, InCritical
<1>2. (CHOOSE q \in Procs : pc[q] = "cloningOut") = p
  BY <1>1
<1>3. QED
  BY <1>2 DEF cellNow

LEMMA CellOtherwise ==
  ASSUME \A p \in Procs : pc[p] # "cloningOut"
  PROVE  cellNow = glob.seeds
BY DEF cellNow

(* While a process other than the one that copies takes a step, and no     *)
(* copy starts or ends, the cell keeps what it holds.                      *)
LEMMA CellKept ==
  ASSUME IInv, IInv', NEW p \in Procs, pc[p] # "cloningOut", pc'[p] # "cloningOut",
         \A q \in Procs \ {p} : pc'[q] = pc[q] /\ ctx'[q] = ctx[q],
         glob'.seeds = glob.seeds
  PROVE  cellNow' = cellNow
<1>1. CASE \E q \in Procs : pc[q] = "cloningOut"
  <2>1. PICK q \in Procs : pc[q] = "cloningOut"
    BY <1>1
  <2>2. pc'[q] = "cloningOut" /\ ctx'[q] = ctx[q]
    BY <2>1
  <2>3. cellNow = ctx[q].seeds
    BY <2>1, CellDuringCopy
  <2>4. (\E r \in Procs : pc'[r] = "cloningOut") /\ (\A r \in Procs : pc'[r] = "cloningOut" => r = q)
    BY <2>2 DEF IInv, LockInv, UniqueGuard, NoGuardAcrossF, InCritical
  <2>5. (CHOOSE r \in Procs : pc'[r] = "cloningOut") = q
    BY <2>4
  <2>6. cellNow' = ctx'[q].seeds
    BY <2>4, <2>5 DEF cellNow
  <2>7. QED
    BY <2>2, <2>3, <2>6
<1>2. CASE \A q \in Procs : pc[q] # "cloningOut"
  <2>1. \A q \in Procs : pc'[q] # "cloningOut"
    BY <1>2
  <2>2. QED
    BY <1>2, <2>1 DEF cellNow
<1>3. QED
  BY <1>1, <1>2

(* A step of p that keeps the cell keeps the rest of the abstract state of *)
(* the other processes, which depends on their own variables only.         *)
LEMMA OthersKept ==
  ASSUME IInv, IInv', NEW p \in Procs,
         \A q \in Procs \ {p} : pc'[q] = pc[q] /\ ctx'[q] = ctx[q]
  PROVE  /\ phaseNow' = [phaseNow EXCEPT ![p] = phaseNow'[p]]
         /\ mineNow' = [mineNow EXCEPT ![p] = mineNow'[p]]
BY DEF phaseNow, mineNow

(* The steps that the abstract cell does not see: those of the lock, the   *)
(* copy into the local context, and f that returns.                        *)
LEMMA InvisibleSteps ==
  ASSUME IInv, IInv', NEW p \in Procs,
         \/ Acquire1(p) \/ GiveUp1(p) \/ CreateGlobal(p) \/ CloneIn(p) \/ ClonedIn(p)
         \/ Unlock1(p) \/ FReturns(p) \/ Acquire2(p) \/ Unlock2(p) \/ Start(p)
  PROVE  UNCHANGED << glob.ptr, cellNow, phaseNow, mineNow >>
<1> USE DEF IInv, TypeOK, Goto, Return, Start, Acquire1, GiveUp1, CreateGlobal, CloneIn, ClonedIn, Unlock1, FReturns, Acquire2, Unlock2
<1>1. pc[p] # "cloningOut" /\ pc'[p] # "cloningOut"
  OBVIOUS
<1>2. \A q \in Procs \ {p} : pc'[q] = pc[q] /\ ctx'[q] = ctx[q]
  OBVIOUS
<1>3. glob'.seeds = glob.seeds /\ glob'.ptr = glob.ptr
  BY DEF Torn, Contexts
<1>4. cellNow' = cellNow
  BY ONLY <1>1, <1>2, <1>3, CellKept, IInv, IInv', p \in Procs
<1>5. phaseNow'[p] = phaseNow[p]
  BY DEF phaseNow
<1>6. mineNow'[p] = mineNow[p]
  BY <1>5 DEF mineNow, phaseNow
<1>7. phaseNow' = phaseNow /\ mineNow' = mineNow
  <2>1. /\ phaseNow' = [phaseNow EXCEPT ![p] = phaseNow'[p]]
        /\ mineNow' = [mineNow EXCEPT ![p] = mineNow'[p]]
    BY ONLY <1>2, OthersKept, IInv, IInv', p \in Procs
  <2>2. /\ phaseNow = [phaseNow EXCEPT ![p] = phaseNow[p]]
        /\ mineNow = [mineNow EXCEPT ![p] = mineNow[p]]
    BY ONLY p \in Procs DEF phaseNow, mineNow
  <2>3. QED
    BY ONLY <1>5, <1>6, <2>1, <2>2
<1>8. QED
  BY <1>3, <1>4, <1>7

(* Creating the global context is Create. *)
LEMMA CreatedStep ==
  ASSUME IInv, IInv', NEW p \in Procs, GlobalCreated(p)
  PROVE  Cell!Create
<1> USE DEF IInv, TypeOK, Goto, GlobalCreated
<1>1. pc[p] # "cloningOut" /\ pc'[p] # "cloningOut"
  OBVIOUS
<1>2. \A q \in Procs \ {p} : pc'[q] = pc[q] /\ ctx'[q] = ctx[q]
  OBVIOUS
<1>3. ~ glob.ptr /\ glob'.ptr /\ glob'.seeds = glob.seeds
  BY DEF RawCtx, Contexts, Established, NothingMixed
<1>4. cellNow' = cellNow
  BY ONLY <1>1, <1>2, <1>3, CellKept, IInv, IInv', p \in Procs
<1>5. phaseNow' = phaseNow
  BY DEF phaseNow
<1>6. mineNow' = mineNow
  BY <1>5 DEF mineNow
<1>7. glob'.ptr = TRUE
  BY <1>3 DEF Contexts
<1>8. QED
  BY ONLY <1>3, <1>4, <1>5, <1>6, <1>7 DEF Cell!Create

(* Creating the local context is Use, with a new context: what was copied  *)
(* is not used.                                                            *)
LEMMA UseStep ==
  ASSUME IInv, IInv', NEW p \in Procs, RawLocal(p)
  PROVE  Cell!Use(p)
<1> USE DEF IInv, TypeOK, Goto, RawLocal
<1>1. pc[p] # "cloningOut" /\ pc'[p] # "cloningOut"
  OBVIOUS
<1>2. \A q \in Procs \ {p} : pc'[q] = pc[q] /\ ctx'[q] = ctx[q]
  OBVIOUS
<1>3. glob' = glob
  OBVIOUS
<1>4. cellNow' = cellNow
  BY ONLY <1>1, <1>2, <1>3, CellKept, IInv, IInv', p \in Procs
<1>5. phaseNow[p] = "out" /\ phaseNow'[p] = "using"
  BY DEF phaseNow
<1>6. mineNow'[p] = {}
  BY <1>5 DEF mineNow, RawCtx, Established
<1>7. /\ phaseNow' = [phaseNow EXCEPT ![p] = phaseNow'[p]]
      /\ mineNow' = [mineNow EXCEPT ![p] = mineNow'[p]]
  BY ONLY <1>2, OthersKept, IInv, IInv', p \in Procs
<1>8. QED
  BY ONLY <1>3, <1>4, <1>5, <1>6, <1>7 DEF Cell!Use

(* A call that ends without the lock, or without wanting it, is Leave. *)
LEMMA LeaveStep ==
  ASSUME IInv, IInv', NEW p \in Procs, FLeaves(p) \/ GiveUp2(p)
  PROVE  Cell!Leave(p)
<1> USE DEF IInv, TypeOK, Goto, FLeaves, GiveUp2, Return
<1>1. pc[p] # "cloningOut" /\ pc'[p] # "cloningOut"
  OBVIOUS
<1>2. \A q \in Procs \ {p} : pc'[q] = pc[q] /\ ctx'[q] = ctx[q]
  OBVIOUS
<1>3. glob' = glob
  OBVIOUS
<1>4. cellNow' = cellNow
  BY ONLY <1>1, <1>2, <1>3, CellKept, IInv, IInv', p \in Procs
<1>5. phaseNow[p] # "out" /\ phaseNow'[p] = "out"
  BY DEF phaseNow
<1>6. mineNow'[p] = {}
  BY <1>5 DEF mineNow
<1>7. /\ phaseNow' = [phaseNow EXCEPT ![p] = phaseNow'[p]]
      /\ mineNow' = [mineNow EXCEPT ![p] = mineNow'[p]]
  BY ONLY <1>2, OthersKept, IInv, IInv', p \in Procs
<1>8. QED
  BY ONLY <1>3, <1>4, <1>5, <1>6, <1>7 DEF Cell!Leave

(* Randomizing the local context is Mix, of the seed of the call. *)
LEMMA MixStep ==
  ASSUME IInv, IInv', NEW p \in Procs, Randomize(p)
  PROVE  \E s \in Seeds : Cell!Mix(p, s)
<1> USE DEF IInv, TypeOK, Goto, Randomize
<1>1. pc[p] # "cloningOut" /\ pc'[p] # "cloningOut"
  OBVIOUS
<1>2. \A q \in Procs \ {p} : pc'[q] = pc[q] /\ ctx'[q] = ctx[q]
  OBVIOUS
<1>3. glob' = glob
  OBVIOUS
<1>4. cellNow' = cellNow
  BY ONLY <1>1, <1>2, <1>3, CellKept, IInv, IInv', p \in Procs
<1>5. phaseNow[p] = "using" /\ phaseNow'[p] = "mixed"
  BY DEF phaseNow
<1>6. PICK s \in Seeds : seed[p] = {s}
  BY DEF Options, Established
<1>7. mineNow'[p] = mineNow[p] \cup {s}
  BY <1>5, <1>6 DEF mineNow, Contexts
<1>8. /\ phaseNow' = [phaseNow EXCEPT ![p] = phaseNow'[p]]
      /\ mineNow' = [mineNow EXCEPT ![p] = mineNow'[p]]
  BY ONLY <1>2, OthersKept, IInv, IInv', p \in Procs
<1>9. glob.ptr
  BY DEF Established
<1>10. QED
  BY ONLY <1>3, <1>4, <1>5, <1>7, <1>8, <1>9 DEF Cell!Mix

(* The start of the copy over the global context is Publish ... *)
LEMMA PublishStep ==
  ASSUME IInv, IInv', NEW p \in Procs, CloneOut(p)
  PROVE  Cell!Publish(p)
<1> USE DEF IInv, TypeOK, Goto, CloneOut
<1>1. pc'[p] = "cloningOut"
  OBVIOUS
<1>2. \A q \in Procs \ {p} : pc'[q] = pc[q] /\ ctx'[q] = ctx[q]
  OBVIOUS
<1>3. glob'.ptr = glob.ptr
  BY DEF Torn, Contexts
<1>4. phaseNow[p] = "mixed" /\ phaseNow'[p] = "out"
  BY DEF phaseNow
<1>5. cellNow' = ctx'[p].seeds
  <2>1. \A q \in Procs : pc'[q] = "cloningOut" => q = p
    BY DEF LockInv, UniqueGuard, NoGuardAcrossF, InCritical
  <2>2. (CHOOSE q \in Procs : pc'[q] = "cloningOut") = p
    BY ONLY <1>1, <2>1, p \in Procs
  <2>3. QED
    BY ONLY <1>1, <2>2, p \in Procs DEF cellNow
<1>6. cellNow' = mineNow[p]
  BY <1>4, <1>5 DEF mineNow
<1>7. mineNow'[p] = {}
  BY <1>4 DEF mineNow
<1>8. /\ phaseNow' = [phaseNow EXCEPT ![p] = phaseNow'[p]]
      /\ mineNow' = [mineNow EXCEPT ![p] = mineNow'[p]]
  BY ONLY <1>2, OthersKept, IInv, IInv', p \in Procs
<1>9. QED
  BY ONLY <1>3, <1>4, <1>6, <1>7, <1>8 DEF Cell!Publish

(* ... and its end changes nothing that the cell shows. *)
LEMMA CopyEndStep ==
  ASSUME IInv, IInv', NEW p \in Procs, ClonedOut(p)
  PROVE  UNCHANGED << glob.ptr, cellNow, phaseNow, mineNow >>
<1> USE DEF IInv, TypeOK, Goto, ClonedOut
<1>1. cellNow = ctx[p].seeds
  BY CellDuringCopy
<1>2. \A q \in Procs : pc'[q] # "cloningOut"
  BY DEF LockInv, UniqueGuard, NoGuardAcrossF, InCritical
<1>3. cellNow' = glob'.seeds
  BY ONLY <1>2 DEF cellNow
<1>4. glob'.ptr = glob.ptr /\ glob'.seeds = ctx[p].seeds
  BY DEF CloneBytes, Contexts
<1>5. phaseNow' = phaseNow
  BY DEF phaseNow
<1>6. mineNow' = mineNow
  BY <1>5 DEF mineNow
<1>7. QED
  BY ONLY <1>1, <1>3, <1>4, <1>5, <1>6

(* Every step of the code is a step of the atomic cell or none, so the     *)
(* code implements it: internal_nostd.rs:105-153.                          *)
THEOREM Refinement == Spec => ImplementsCell
<1>1. Init => Cell!CellInit
  BY DEF Init, LockInit, NewUninitialized, Cell!CellInit, cellNow, phaseNow, mineNow
<1>2. ASSUME IInv, IInv', NEW p \in Procs, CallStep(p) \/ Start(p)
      PROVE  [Cell!CellNext]_(Cell!cellVars)
  <2>1. CASE SpinOn(p)
    BY <2>1 DEF SpinOn, callVars, Cell!cellVars, cellNow, phaseNow, mineNow
  <2>2. CASE CallStep(p) /\ ~ SpinOn(p)
    BY <1>2, <2>2, InvisibleSteps, CreatedStep, UseStep, LeaveStep, MixStep, PublishStep,
       CopyEndStep DEF CallStep, Cell!CellNext, Cell!cellVars
  <2>3. CASE Start(p)
    BY <1>2, <2>3, InvisibleSteps DEF Cell!cellVars
  <2>4. QED
    BY <1>2, <2>1, <2>2, <2>3
<1>3. IInv /\ IInv' /\ [Next]_vars => [Cell!CellNext]_(Cell!cellVars)
  <2>1. CASE UNCHANGED vars
    BY <2>1 DEF vars, Cell!cellVars, cellNow, phaseNow, mineNow
  <2>2. CASE Next
    BY <1>2, <2>2, ProcsAssumption DEF Next, Call, Raise, Step
  <2>3. QED
    BY <2>1, <2>2
<1>4. QED
  BY <1>1, <1>3, Invariant, PTL DEF Spec, ImplementsCell, Cell!CellSpec

-----------------------------------------------------------------------------
(***************************************************************************)
(* The context of the std build (context/internal_std.rs).                 *)
(*                                                                         *)
(* All calls in progress but the innermost are inside their f, and the     *)
(* borrow of the innermost is shared until f returns and exclusive while   *)
(* the seed is mixed in, when no other call is in progress.                *)
(***************************************************************************)
StdFrame == [pc : {"borrow", "f", "borrow_mut", "mix"}, seed : SeedOptions]

StdTypeOK == /\ cell \in {"lazy", "alive", "destroyed"}
             /\ readers \in Nat /\ writer \in BOOLEAN /\ panicking \in BOOLEAN
             /\ entropy \in SUBSET StdSeeds
             /\ frames \in Seq(StdFrame)

(* The calls inside f are the outer ones, as many as there are readers.    *)
Nested == /\ readers = Len(frames) \/ readers = Len(frames) - 1
          /\ \A i \in 1 .. Len(frames) : frames[i].pc = "f" <=> i <= readers
          /\ panicking = TRUE => readers = Len(frames)

(* Only the innermost call, and only the outermost, may hold the writer.   *)
WriterAlone == /\ writer = TRUE <=> \E i \in 1 .. Len(frames) : frames[i].pc = "mix"
               /\ writer = TRUE => readers = 0

StdInv == StdTypeOK /\ Nested /\ WriterAlone

LEMMA StdCallerFacts ==
    ASSUME StdTypeOK, frames # << >>
    PROVE  /\ Len(frames) \in Nat \ {0} /\ Inner \in StdFrame
           /\ Caller \in Seq(StdFrame) /\ Len(Caller) = Len(frames) - 1
           /\ \A i \in 1 .. Len(frames) - 1 : Caller[i] = frames[i]
<1> DEFINE n == Len(frames) - 1
<1>1. frames \in Seq(StdFrame)
    BY DEF StdTypeOK
<1> HIDE DEF StdFrame
<1>2. Len(frames) \in Nat \ {0} /\ \A i \in 1 .. Len(frames) : frames[i] \in StdFrame
    BY <1>1
<1>3. n \in Int /\ \A i \in 1 .. n : frames[i] \in StdFrame
    BY <1>2
<1> HIDE DEF n
<1>4. /\ SubSeq(frames, 1, n) \in Seq(StdFrame)
      /\ Len(SubSeq(frames, 1, n)) = IF 1 <= n THEN n - 1 + 1 ELSE 0
      /\ \A i \in 1 .. n - 1 + 1 : SubSeq(frames, 1, n)[i] = frames[1 + i - 1]
    BY <1>3, SubSeqProperties
<1>5. n \in Nat /\ n - 1 + 1 = n
    BY <1>2 DEF n
<1>6. Caller = SubSeq(frames, 1, n)
    BY DEF Caller, n
<1>7. Len(Caller) = n
    BY <1>4, <1>5, <1>6
<1>8. \A i \in 1 .. n : Caller[i] = frames[i]
    BY <1>4, <1>5, <1>6
<1> QED BY <1>2, <1>4, <1>6, <1>7, <1>8 DEF n, Inner

(* The innermost call goes on at label.                                    *)
LEMMA StdGotoFacts ==
    ASSUME StdTypeOK, frames # << >>, NEW label \in {"borrow", "f", "borrow_mut", "mix"},
           InnerGoto(label)
    PROVE  /\ frames' \in Seq(StdFrame) /\ Len(frames') = Len(frames)
           /\ \A i \in 1 .. Len(frames) : i # Len(frames) => frames'[i] = frames[i]
           /\ frames'[Len(frames)].pc = label
<1>1. Len(frames) \in Nat \ {0} /\ frames \in Seq(StdFrame) /\ frames[Len(frames)] \in StdFrame
    BY StdCallerFacts DEF StdTypeOK, Inner
<1>2. frames' = [frames EXCEPT ![Len(frames)] = [@ EXCEPT !.pc = label]]
    BY DEF InnerGoto
<1>3. [frames[Len(frames)] EXCEPT !.pc = label] \in StdFrame
      /\ [frames[Len(frames)] EXCEPT !.pc = label].pc = label
    BY <1>1 DEF StdFrame
<1> HIDE DEF StdFrame
<1> QED BY <1>1, <1>2, <1>3

LEMMA StdInitInv == StdInit => StdInv
<1> HAVE StdInit
<1>1. /\ cell = "lazy" /\ readers = 0 /\ writer = FALSE /\ entropy = {}
      /\ frames = << >> /\ panicking = FALSE
    BY DEF StdInit
<1>2. Len(frames) = 0 /\ frames \in Seq(StdFrame)
    BY <1>1
<1>3. StdTypeOK
    BY <1>1, <1>2 DEF StdTypeOK
<1> QED BY <1>1, <1>2, <1>3 DEF StdInv, Nested, WriterAlone

(* The innermost call.                                                     *)
LEMMA StdInnerFacts ==
    ASSUME StdInv, frames # << >>
    PROVE  /\ Len(frames) \in Nat \ {0} /\ Inner \in StdFrame
           /\ readers = Len(frames) \/ readers = Len(frames) - 1
           /\ Inner.pc = "f" <=> readers = Len(frames)
           /\ Inner.pc # "mix" => writer = FALSE
           /\ Inner.pc = "mix" => writer = TRUE /\ readers = 0 /\ Len(frames) = 1
           /\ \A i \in 1 .. Len(frames) - 1 : frames[i].pc = "f"
<1>1. Len(frames) \in Nat \ {0} /\ Inner \in StdFrame
    BY StdCallerFacts DEF StdInv
<1>2. /\ readers = Len(frames) \/ readers = Len(frames) - 1
      /\ readers \in Nat
      /\ \A i \in 1 .. Len(frames) : frames[i].pc = "f" <=> i <= readers
    BY DEF StdInv, Nested, StdTypeOK
<1>3. Inner.pc = "f" <=> readers = Len(frames)
    BY <1>1, <1>2 DEF Inner
<1>4. \A i \in 1 .. Len(frames) - 1 : frames[i].pc = "f"
    BY <1>1, <1>2
<1>5. \A i \in 1 .. Len(frames) : frames[i].pc = "mix" => i = Len(frames)
    BY <1>1, <1>4
<1>6. writer = TRUE <=> Inner.pc = "mix"
    BY <1>1, <1>5 DEF StdInv, WriterAlone, StdTypeOK, Inner
<1>7. writer = TRUE => readers = 0
    BY DEF StdInv, WriterAlone
<1>8. writer \in BOOLEAN
    BY DEF StdInv, StdTypeOK
<1>9. Inner.pc # "mix" => writer = FALSE
    BY <1>6, <1>8
<1>10. Inner.pc = "mix" => writer = TRUE /\ readers = 0 /\ Len(frames) = 1
  <2> SUFFICES ASSUME Inner.pc = "mix" PROVE writer = TRUE /\ readers = 0 /\ Len(frames) = 1
      OBVIOUS
  <2>1. writer = TRUE /\ readers = 0 /\ readers # Len(frames)
      BY <1>3, <1>6, <1>7
  <2> QED BY <2>1, <1>1, <1>2
<1> QED BY <1>1, <1>2, <1>3, <1>4, <1>9, <1>10

LEMMA StdCalled ==
    ASSUME StdInv, MayCall, NEW label \in {"borrow", "borrow_mut"}, NEW s \in SeedOptions,
           frames' = Append(frames, [pc |-> label, seed |-> s]),
           UNCHANGED << cell, readers, writer, entropy, panicking >>
    PROVE  StdInv'
<1> DEFINE new == [pc |-> label, seed |-> s]
<1>1. frames \in Seq(StdFrame) /\ Len(frames) \in Nat /\ new \in StdFrame /\ new.pc = label
    BY DEF StdInv, StdTypeOK, StdFrame
<1> HIDE DEF new
<1>2. /\ frames' \in Seq(StdFrame) /\ Len(frames') = Len(frames) + 1
      /\ frames'[Len(frames) + 1] = new
      /\ \A i \in 1 .. Len(frames) : frames'[i] = frames[i]
    <2>1. frames' = Append(frames, new)
        BY DEF new
    <2> HIDE DEF StdFrame
    <2> QED BY <1>1, <2>1
<1>3. readers = Len(frames) /\ writer = FALSE /\ panicking = FALSE
      /\ \A i \in 1 .. Len(frames) : frames[i].pc = "f"
  <2>1. CASE frames = << >>
      BY <1>1, <2>1 DEF StdInv, StdTypeOK, Nested, WriterAlone, MayCall
  <2>2. CASE frames # << >>
    <3>1. Inner.pc = "f" /\ panicking = FALSE
        BY <2>2 DEF MayCall, StdInv, StdTypeOK
    <3>2. Len(frames) \in Nat \ {0} /\ readers = Len(frames) /\ writer = FALSE
        BY <2>2, <3>1, StdInnerFacts
    <3>3. \A i \in 1 .. Len(frames) - 1 : frames[i].pc = "f"
        BY <2>2, StdInnerFacts
    <3> QED BY <3>1, <3>2, <3>3 DEF Inner
  <2> QED BY <2>1, <2>2
<1>4. StdTypeOK'
    BY <1>2 DEF StdInv, StdTypeOK
<1>5. \A i \in 1 .. Len(frames) + 1 :
          frames'[i].pc = IF i = Len(frames) + 1 THEN label ELSE "f"
    BY <1>1, <1>2, <1>3
<1>6. Nested'
    BY <1>1, <1>2, <1>3, <1>5 DEF Nested
<1>7. WriterAlone'
    BY <1>1, <1>2, <1>3, <1>5 DEF WriterAlone
<1> QED BY <1>4, <1>6, <1>7 DEF StdInv

LEMMA StdEnded ==
    ASSUME StdInv, frames # << >>, frames' = Caller, readers' = Len(frames) - 1, writer' = FALSE,
           cell' \in {"lazy", "alive", "destroyed"}, entropy' \in SUBSET StdSeeds, panicking' \in BOOLEAN
    PROVE  StdInv'
<1>1. /\ Len(frames) \in Nat \ {0} /\ frames' \in Seq(StdFrame)
      /\ Len(frames') = Len(frames) - 1
      /\ \A i \in 1 .. Len(frames) - 1 : frames'[i] = frames[i]
    BY StdCallerFacts DEF StdInv
<1>2. \A i \in 1 .. Len(frames) - 1 : frames'[i].pc = "f"
    BY <1>1, StdInnerFacts
<1>0. Len(frames) - 1 \in Nat
    BY <1>1
<1>3. StdTypeOK'
    BY <1>0, <1>1 DEF StdTypeOK
<1>4. Nested'
    BY <1>1, <1>2 DEF Nested
<1>5. WriterAlone'
    BY <1>1, <1>2 DEF WriterAlone
<1> QED BY <1>3, <1>4, <1>5 DEF StdInv

LEMMA StdGoesOn ==
    ASSUME StdInv, frames # << >>, panicking = FALSE,
           NEW label \in {"f", "borrow_mut", "mix"}, InnerGoto(label),
           readers' = IF label = "f" THEN Len(frames) ELSE Len(frames) - 1,
           writer' \in BOOLEAN, writer' = TRUE <=> label = "mix",
           label = "mix" => Len(frames) = 1,
           cell' \in {"lazy", "alive", "destroyed"}, UNCHANGED << entropy, panicking >>
    PROVE  StdInv'
<1>1. /\ Len(frames) \in Nat \ {0} /\ frames' \in Seq(StdFrame) /\ Len(frames') = Len(frames)
      /\ \A i \in 1 .. Len(frames) : i # Len(frames) => frames'[i] = frames[i]
      /\ frames'[Len(frames)].pc = label
    BY StdGotoFacts, StdCallerFacts DEF StdInv
<1>2. \A i \in 1 .. Len(frames) : frames'[i].pc = IF i = Len(frames) THEN label ELSE "f"
    BY <1>1, StdInnerFacts
<1>3. readers' \in Nat /\ writer' \in BOOLEAN
    BY <1>1
<1>7. writer' = TRUE <=> label = "mix"
    OBVIOUS
<1>4. StdTypeOK'
    BY <1>1, <1>3 DEF StdInv, StdTypeOK
<1>5. Nested'
    BY <1>1, <1>2 DEF Nested
<1>6. WriterAlone'
  <2>1. label = "mix" => Len(frames) = 1 /\ readers' = 0
      BY <1>1
  <2>2. (\E i \in 1 .. Len(frames) : frames'[i].pc = "mix") <=> label = "mix"
      BY <1>1, <1>2
  <2> QED BY <1>1, <1>7, <2>1, <2>2 DEF WriterAlone
<1> QED BY <1>4, <1>5, <1>6 DEF StdInv

LEMMA StdStepInv == StdInv /\ [StdNext]_stdVars => StdInv'
<1> SUFFICES ASSUME StdInv, [StdNext]_stdVars PROVE StdInv'
    OBVIOUS
<1>0. /\ cell \in {"lazy", "alive", "destroyed"} /\ readers \in Nat /\ writer \in BOOLEAN
      /\ panicking \in BOOLEAN /\ entropy \in SUBSET StdSeeds
    BY DEF StdInv, StdTypeOK
<1>1. ASSUME NEW s \in SeedOptions, With(s) PROVE StdInv'
    BY <1>1, StdCalled DEF With
<1>2. ASSUME NEW s \in StdSeeds, Rerandomize(s) PROVE StdInv'
  <2>1. {s} \in SeedOptions
      BY DEF SeedOptions
  <2> QED BY <1>2, <2>1, StdCalled DEF Rerandomize
<1>3. CASE AccessPanics
    BY <1>0, <1>3, StdInnerFacts, StdEnded DEF AccessPanics, At, Panic
<1>4. CASE Borrow
  <2>1. /\ frames # << >> /\ Inner.pc = "borrow" /\ panicking = FALSE
        /\ readers' = readers + 1 /\ writer = FALSE /\ writer' = FALSE /\ InnerGoto("f")
        /\ cell' \in {"lazy", "alive", "destroyed"} /\ UNCHANGED << entropy, panicking >>
      BY <1>0, <1>4 DEF Borrow, At, Access
  <2>2. readers' = Len(frames)
      BY <2>1, StdInnerFacts
  <2> QED BY <2>1, <2>2, StdGoesOn
<1>5. CASE FEnds
  <2>1. frames # << >> /\ Inner.pc = "f" /\ panicking = FALSE /\ readers' = readers - 1
        /\ UNCHANGED << cell, writer, entropy, panicking >>
      BY <1>0, <1>5 DEF FEnds, At
  <2>2. readers' = Len(frames) - 1 /\ writer' = FALSE
      BY <2>1, StdInnerFacts
  <2>3. CASE Inner.seed = {}
      BY <1>0, <1>5, <2>1, <2>2, <2>3, StdEnded DEF FEnds
  <2>4. CASE Inner.seed # {}
      BY <1>0, <1>5, <2>1, <2>2, <2>4, StdGoesOn DEF FEnds
  <2> QED BY <2>3, <2>4
<1>6. CASE BorrowMut
  <2>1. /\ frames # << >> /\ Inner.pc = "borrow_mut" /\ panicking = FALSE
        /\ readers = 0 /\ readers' = 0 /\ writer' = TRUE /\ InnerGoto("mix")
        /\ cell' \in {"lazy", "alive", "destroyed"} /\ UNCHANGED << entropy, panicking >>
      BY <1>0, <1>6 DEF BorrowMut, At, Access
  <2>2. Len(frames) = 1 /\ readers' = Len(frames) - 1
      BY <2>1, StdInnerFacts
  <2>3. writer' \in BOOLEAN /\ (writer' = TRUE <=> "mix" = "mix") /\ "mix" \in {"f", "borrow_mut", "mix"}
      BY <2>1
  <2>4. readers' = IF "mix" = "f" THEN Len(frames) ELSE Len(frames) - 1
      BY <2>2
  <2>5. cell' \in {"lazy", "alive", "destroyed"} /\ frames # << >> /\ panicking = FALSE
        /\ InnerGoto("mix") /\ UNCHANGED << entropy, panicking >> /\ ("mix" = "mix" => Len(frames) = 1)
      BY <2>1, <2>2
  <2> QED BY <2>3, <2>4, <2>5, StdGoesOn
<1>7. CASE BorrowMutPanics
    BY <1>0, <1>7, StdInnerFacts, StdEnded DEF BorrowMutPanics, At, Panic
<1>8. CASE MixSeed
  <2>1. /\ frames # << >> /\ Inner.pc = "mix" /\ frames' = Caller /\ writer' = FALSE
        /\ entropy' = entropy \cup Inner.seed /\ UNCHANGED << cell, readers, panicking >>
      BY <1>8 DEF MixSeed, At
  <2>2. Inner.seed \in SUBSET StdSeeds /\ readers' = Len(frames) - 1
      BY <2>1, StdInnerFacts DEF StdFrame, SeedOptions
  <2> QED BY <1>0, <2>1, <2>2, StdEnded
<1>9. CASE FUnwinds
    BY <1>0, <1>9, StdInnerFacts, StdEnded DEF FUnwinds
<1>10. CASE Catch
    BY <1>10 DEF Catch, StdInv, StdTypeOK, Nested, WriterAlone
<1>11. CASE Exit
    BY <1>11 DEF Exit, StdInv, StdTypeOK, Nested, WriterAlone
<1>12. CASE UNCHANGED stdVars
    BY <1>12 DEF stdVars, StdInv, StdTypeOK, Nested, WriterAlone
<1> QED BY <1>1, <1>2, <1>3, <1>4, <1>5, <1>6, <1>7, <1>8, <1>9, <1>10, <1>11, <1>12 DEF StdNext

LEMMA StdInvariant == StdSpec => []StdInv
BY StdInitInv, StdStepInv, PTL DEF StdSpec

(* Borrows of the RefCell are counted right whatever is nested, panics and *)
(* is caught: none leaks and none is released twice                        *)
(* (internal_std.rs:42-75).                                                *)
THEOREM BorrowsCounted == StdSpec => []BorrowsAreFrames
<1>1. StdInv => BorrowsAreFrames
  <2> HAVE StdInv
  <2>1. frames \in Seq(StdFrame) /\ readers \in Nat /\ writer \in BOOLEAN
      BY DEF StdInv, StdTypeOK
  <2>2. Len(frames) \in Nat /\ DOMAIN frames = 1 .. Len(frames)
    <3> HIDE DEF StdFrame
    <3> QED BY <2>1
  <2>3. {i \in DOMAIN frames : frames[i].pc = "f"} = 1 .. readers
    <3>1. \A i \in 1 .. Len(frames) : frames[i].pc = "f" <=> i <= readers
        BY DEF StdInv, Nested
    <3>2. (readers = Len(frames) \/ readers = Len(frames) - 1) /\ readers \in Nat
        BY <2>1 DEF StdInv, Nested
    <3>3. readers <= Len(frames)
      <4>1. \A r, n \in Nat : r = n \/ r = n - 1 => r <= n
          OBVIOUS
      <4> QED BY <2>2, <3>2, <4>1, Zenon
    <3> QED BY <2>1, <2>2, <3>1, <3>3
  <2>4. Cardinality(1 .. readers) = readers
      BY <2>1, FS_Interval
  <2>5. writer = TRUE <=> \E i \in DOMAIN frames : frames[i].pc = "mix"
      BY <2>2 DEF StdInv, WriterAlone
  <2>6. writer <=> \E i \in DOMAIN frames : frames[i].pc = "mix"
      BY <2>1, <2>5
  <2>7. readers = Cardinality({i \in DOMAIN frames : frames[i].pc = "f"})
      BY <2>3, <2>4
  <2> HIDE DEF StdFrame
  <2> QED BY <2>6, <2>7, Zenon DEF BorrowsAreFrames
<1> QED BY <1>1, StdInvariant, PTL

(* The context that f holds a raw pointer to is neither rerandomized nor   *)
(* destroyed before f returns (internal_std.rs:42-58).                     *)
THEOREM StableUnderF == StdSpec => ContextStableUnderF
<1>1. StdInv /\ [StdNext]_stdVars =>
          [entropy' # entropy \/ (cell' = "destroyed" /\ cell # "destroyed") =>
               \A i \in DOMAIN frames : frames[i].pc # "f"]_stdVars
  <2> SUFFICES ASSUME StdInv, StdNext,
                      entropy' # entropy \/ (cell' = "destroyed" /\ cell # "destroyed")
               PROVE  \A i \in DOMAIN frames : frames[i].pc # "f"
      BY DEF stdVars
  <2>1. MixSeed \/ Exit
      BY DEF StdNext, With, Rerandomize, AccessPanics, Panic, Borrow,
             Access, FEnds, BorrowMut, BorrowMutPanics, FUnwinds, Catch
  <2>2. CASE MixSeed
    <3>1. frames # << >> /\ Inner.pc = "mix"
        BY <2>2 DEF MixSeed, At
    <3>2. Len(frames) = 1 /\ frames \in Seq(StdFrame)
        BY <3>1, StdInnerFacts DEF StdInv, StdTypeOK
    <3>3. DOMAIN frames = {1}
      <4> HIDE DEF StdFrame
      <4> QED BY <3>2
    <3> QED BY <3>1, <3>2, <3>3 DEF Inner
  <2>3. CASE Exit
      BY <2>3 DEF Exit
  <2> QED BY <2>1, <2>2, <2>3
<1> QED BY <1>1, StdInvariant, PTL DEF StdSpec, ContextStableUnderF

(* The seed of a call that returns is in the context, and so are those of  *)
(* all calls before it (internal_std.rs:60-75).                            *)
THEOREM SeedsMixed == StdSpec => MixesSeeds
<1> DEFINE A == cell' # "destroyed" =>
                   /\ entropy \subseteq entropy'
                   /\ (frames # << >> /\ frames' = Caller /\ ~ panicking')
                         => Inner.seed \subseteq entropy'
<1>1. StdInv /\ [StdNext]_stdVars => [A]_stdVars
  <2> SUFFICES ASSUME StdInv, StdNext, cell' # "destroyed"
               PROVE  /\ entropy \subseteq entropy'
                      /\ (frames # << >> /\ frames' = Caller /\ ~ panicking')
                            => Inner.seed \subseteq entropy'
      BY DEF stdVars
  <2>1. CASE MixSeed
      BY <2>1 DEF MixSeed
  <2>2. CASE ~ MixSeed
    <3>1. entropy' = entropy
        BY <2>2 DEF StdNext, With, Rerandomize, AccessPanics, Panic, Borrow,
             FEnds, BorrowMut, BorrowMutPanics, FUnwinds, Catch, Exit
    <3>2. ASSUME frames # << >>, frames' = Caller, ~ panicking'
          PROVE  Inner.seed \subseteq entropy'
      <4>1. /\ Len(frames) \in Nat \ {0} /\ Len(frames') = Len(frames) - 1
            /\ frames \in Seq(StdFrame)
          BY <3>2, StdCallerFacts DEF StdInv, StdTypeOK
      <4>2. ~ \E s \in SeedOptions : With(s)
        <5> SUFFICES ASSUME NEW s \in SeedOptions, With(s) PROVE FALSE
            OBVIOUS
        <5>1. Len(frames') = Len(frames) + 1
            BY <4>1 DEF With
        <5> QED BY <4>1, <5>1
      <4>3. ~ \E s \in StdSeeds : Rerandomize(s)
        <5> SUFFICES ASSUME NEW s \in StdSeeds, Rerandomize(s) PROVE FALSE
            OBVIOUS
        <5>1. Len(frames') = Len(frames) + 1
            BY <4>1 DEF Rerandomize
        <5> QED BY <4>1, <5>1
      <4>4. \A label \in {"f", "borrow_mut", "mix"} : ~ InnerGoto(label)
          BY <3>2, <4>1, StdGotoFacts DEF StdInv
      <4>5. ~ Borrow /\ ~ BorrowMut
          BY <4>4 DEF Borrow, BorrowMut
      <4>6. ~ AccessPanics /\ ~ BorrowMutPanics /\ ~ FUnwinds
          BY <3>2 DEF AccessPanics, BorrowMutPanics, FUnwinds, Panic
      <4>7. ~ Catch
          BY <4>1 DEF Catch
      <4>8. ~ Exit
          BY <3>2 DEF Exit
      <4>9. FEnds
          BY <2>2, <4>2, <4>3, <4>5, <4>6, <4>7, <4>8 DEF StdNext
      <4> QED BY <4>4, <4>9 DEF FEnds
    <3> QED BY <3>1, <3>2
  <2> QED BY <2>1, <2>2
<1>2. StdSpec => [][A]_stdVars
    BY <1>1, StdInvariant, PTL DEF StdSpec
<1> QED BY <1>2 DEF MixesSeeds
=============================================================================
