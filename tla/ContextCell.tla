----------------------------- MODULE ContextCell -----------------------------
(***************************************************************************)
(* What the global context of the no_std build promises its callers, with  *)
(* neither lock nor copying: one cell, created by the first call that gets *)
(* to it.  A call uses a whole context of its own, with the state of the   *)
(* cell at some instant or, since the lock is best effort, a new one; it   *)
(* may end by replacing the cell, in one step, with its own context after  *)
(* mixing in a seed.                                                       *)
(***************************************************************************)
CONSTANTS Procs, Seeds

VARIABLES made,   \* whether the cell holds a context
          cell,   \* the seeds mixed into it
          phase,  \* of each process: "out", "using" or "mixed"
          mine    \* the seeds mixed into the context of its call

cellVars == << made, cell, phase, mine >>

CellInit == /\ made = FALSE
            /\ cell = {}
            /\ phase = [p \in Procs |-> "out"]
            /\ mine = [p \in Procs |-> {}]

Create == /\ ~ made
          /\ made' = TRUE
          /\ UNCHANGED << cell, phase, mine >>

(* A call gets its context: a snapshot of the cell, or a new one. *)
Use(p) == /\ phase[p] = "out"
          /\ phase' = [phase EXCEPT ![p] = "using"]
          /\ \E snapshot \in {cell, {}} : mine' = [mine EXCEPT ![p] = snapshot]
          /\ UNCHANGED << made, cell >>

Mix(p, s) == /\ phase[p] = "using"
             /\ made
             /\ phase' = [phase EXCEPT ![p] = "mixed"]
             /\ mine' = [mine EXCEPT ![p] = @ \cup {s}]
             /\ UNCHANGED << made, cell >>

Leave(p) == /\ phase[p] # "out"
            /\ phase' = [phase EXCEPT ![p] = "out"]
            /\ mine' = [mine EXCEPT ![p] = {}]
            /\ UNCHANGED << made, cell >>

Publish(p) == /\ phase[p] = "mixed"
              /\ phase' = [phase EXCEPT ![p] = "out"]
              /\ mine' = [mine EXCEPT ![p] = {}]
              /\ cell' = mine[p]
              /\ UNCHANGED made

CellNext == \/ Create
            \/ \E p \in Procs : \/ Use(p) \/ Leave(p) \/ Publish(p)
                                \/ \E s \in Seeds : Mix(p, s)

CellSpec == CellInit /\ [][CellNext]_cellVars
=============================================================================
