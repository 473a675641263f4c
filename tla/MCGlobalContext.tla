--------------------------- MODULE MCGlobalContext ---------------------------
(* Two threads and one interrupt handler, and a lock that gives up after   *)
(* two attempts.                                                           *)
EXTENDS GlobalContext

CONSTANTS t1, t2, h1, s1, s2

MCThreads == {t1, t2}
MCHandlers == {h1}
MCProcs == MCThreads \cup MCHandlers
(* Only t1 and the handler keep running; t2 may stop for good anywhere, in *)
(* its critical sections too.                                              *)
MCFair == {t1} \cup MCHandlers
MCLiveSpec == Spec /\ FairFor(MCFair)

(* "if we are pre-empted by an interrupt handler while the lock is held,   *)
(* and that interrupt handler attempts to take the lock, then we deadlock" *)
(* (spinlock.rs:17) is what the bounded spin is there to avoid: a call     *)
(* returns by the steps of its own process alone, when the holder of the   *)
(* lock is the process it interrupted or one that never runs again.        *)
CallReturns == Returns(MCFair)

=============================================================================
