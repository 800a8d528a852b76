----------------------------- MODULE Propagation -----------------------------
(***************************************************************************)
(* What one invocation of a network promises, whatever the order in which  *)
(* its propagators fire.  Propagators wait in a set: a step takes any of   *)
(* them, computes its output from the input cells, merges it into the      *)
(* output cell and, if that cell learned something, makes every propagator *)
(* that reads the cell wait again.  The two runners of the engine          *)
(* implement this specification (module Runners).                          *)
(*                                                                         *)
(* The structures the cells hold and what the propagators compute are      *)
(* parameters; module Networks gives the engine's.                         *)
(***************************************************************************)
CONSTANTS
  Cell,
  Prop,
  Kind,             \* "function", "switch" or "recursive", per propagator
  To,               \* the output cell of a propagator
  Structures,       \* what the cells can hold, all together
  Contradiction,    \* the structure that ends a run
  Merge(_, _),
  _ \preceq _,
  Compute(_, _),    \* what a propagator offers its output cell, given the cells
  Neighbors(_),     \* the propagators that read a cell
  Ready(_, _),      \* whether a recursive call has its arguments
  Restarted(_, _),  \* the cells it starts from
  Invocations       \* the cells an invocation may start from

VARIABLES
  cells,     \* what every cell holds
  seed,      \* what they held when the current pass began
  pending,   \* the propagators waiting to fire
  status     \* "running", "done" or "exit"

vars == <<cells, seed, pending, status>>

TypeOK ==
  /\ cells \in Structures
  /\ seed \in Structures
  /\ pending \subseteq Prop
  /\ status \in {"running", "done", "exit"}

Init ==
  /\ cells \in Invocations
  /\ seed = cells
  /\ pending = Prop
  /\ status = "running"

(* The fired propagator may wait a second time, as it does when it was     *)
(* scheduled twice.                                                        *)
Rest(p) == {pending \ {p}, pending}

(* Mutant: the output cell is set instead of merged into. *)
ActivateOverwriting(p) ==
  LET after == Compute(p, cells)
  IN  /\ status = "running" /\ p \in pending /\ Kind[p] # "recursive"
      /\ cells' = [cells EXCEPT ![To[p]] = after]
      /\ status' = IF after = Contradiction THEN "exit" ELSE status
      /\ pending' = (pending \ {p}) \cup
                    (IF after = cells[To[p]] THEN {} ELSE Neighbors(To[p]))
      /\ UNCHANGED seed

Activate(p) ==
  LET out   == To[p]
      after == Merge(cells[out], Compute(p, cells))
  IN  /\ status = "running" /\ p \in pending /\ Kind[p] # "recursive"
      /\ cells' = [cells EXCEPT ![out] = after]
      /\ UNCHANGED seed
      /\ \/ /\ after = Contradiction
            /\ status' = "exit"
            /\ pending' \in Rest(p)
         \/ /\ after # Contradiction /\ after = cells[out]
            /\ pending' \in Rest(p)
            /\ UNCHANGED status
         \/ /\ after # Contradiction /\ after # cells[out]
            /\ pending' \in {rest \cup Neighbors(out) : rest \in Rest(p)}
            /\ UNCHANGED status

(* Mutants: the restarted cells keep what they held; the propagators are   *)
(* not all scheduled again.                                                *)
RecurseMerging(p) ==
  /\ status = "running" /\ p \in pending /\ Kind[p] = "recursive"
  /\ Ready(p, cells)
  /\ seed' = Restarted(p, cells)
  /\ cells' = [c \in Cell |-> Merge(seed'[c], cells[c])]
  /\ pending' = Prop
  /\ UNCHANGED status

RecurseResuming(p) ==
  /\ status = "running" /\ p \in pending /\ Kind[p] = "recursive"
  /\ Ready(p, cells)
  /\ cells' = Restarted(p, cells)
  /\ seed' = cells'
  /\ pending' = pending \ {p}
  /\ UNCHANGED status

Recurse(p) ==
  /\ status = "running" /\ p \in pending /\ Kind[p] = "recursive"
  /\ Ready(p, cells)
  /\ cells' = Restarted(p, cells)
  /\ seed' = cells'
  /\ pending' = Prop
  /\ UNCHANGED status

Wait(p) ==
  /\ status = "running" /\ p \in pending /\ Kind[p] = "recursive"
  /\ ~ Ready(p, cells)
  /\ pending' \in Rest(p)
  /\ UNCHANGED <<cells, seed, status>>

(* Mutant: a run ends when only recursive calls wait. *)
FinishEarly ==
  /\ status = "running" /\ \A p \in pending : Kind[p] = "recursive"
  /\ status' = "done"
  /\ UNCHANGED <<cells, seed, pending>>

Finish ==
  /\ status = "running" /\ pending = {}
  /\ status' = "done"
  /\ UNCHANGED <<cells, seed, pending>>

Next ==
  \/ \E p \in Prop : Activate(p)
  \/ \E p \in Prop : Recurse(p)
  \/ \E p \in Prop : Wait(p)
  \/ Finish

Spec == Init /\ [][Next]_vars

-----------------------------------------------------------------------------
(* A propagator is settled when firing it now would change nothing: its    *)
(* output cell already says what it computes, consistently.  A recursive   *)
(* call is settled while some input of it is not known.                    *)
Settled(p) ==
  IF Kind[p] = "recursive"
  THEN ~ Ready(p, cells)
  ELSE /\ Merge(cells[To[p]], Compute(p, cells)) = cells[To[p]]
       /\ cells[To[p]] # Contradiction

(* No wake-up is lost: a propagator that could still contribute is         *)
(* waiting.  In the code a propagator is scheduled only by the message of  *)
(* the call that changed one of its inputs, or by a restart.               *)
NoLostWakeup == status # "exit" => \A p \in Prop : p \in pending \/ Settled(p)

(* A run that ends normally has reached a fixpoint of all its propagators, *)
(* with no contradiction written and no recursive call left to make.       *)
DoneIsFixpoint == status = "done" => \A p \in Prop : Settled(p)

(* Within a pass no cell ever loses information; only a recursive call     *)
(* forgets, and then it forgets everything and starts all propagators.     *)
ForgetsOnlyByRestart ==
  [][\/ \A c \in Cell : cells[c] \preceq cells'[c]
     \/ cells' = seed' /\ pending' = Prop]_vars
=============================================================================
