------------------------- MODULE MonotonePropagation -------------------------
(***************************************************************************)
(* Networks whose propagators are monotone: told more about its inputs, a  *)
(* propagator says more about its output.  Functions over plain values,    *)
(* switches included, are monotone; a function that reads a record before  *)
(* all of its fields are known, or several set-valued cells, need not be.  *)
(* For these networks the result of a run does not depend on the order in  *)
(* which the propagators fire, hence neither on the ranking nor on which   *)
(* runner is used.                                                         *)
(***************************************************************************)
EXTENDS NetworkPropagation

CONSTANT Domain    \* the structures the cells of the network range over

Arguments(p) == [1 .. Arity(p) -> Domain]

(* Compute, of the structures of the input cells instead of all cells. *)
Output(p, s) ==
  Coerce(As[p], NaryUnpack([t \in [1 .. Arity(p) -> Raw] |-> Apply(p, t)], s))

(* What is assumed of a network of monotone propagators: its cells range   *)
(* over structures of Domain, closed under Merge, and what a propagator    *)
(* says grows with what it is told.                                        *)
DomainAssumption ==
  /\ Domain \subseteq Info
  /\ \A c \in Cell : Initial[c] \in Domain
  /\ \A in \in Inputs : \A c \in DOMAIN in : in[c] \in Domain
  /\ \A a, b \in Domain : Merge(a, b) \in Domain

MonotoneAssumption ==
  \A p \in Prop : Kind[p] # "recursive" =>
    \A s \in Arguments(p) :
      /\ Output(p, s) \in Domain
      /\ \A t \in Arguments(p) :
           (\A i \in 1 .. Arity(p) : s[i] \preceq t[i]) => Output(p, s) \preceq Output(p, t)

-----------------------------------------------------------------------------
(* The states of the cells, above the seed, that no propagator can change. *)
Fixpoint(sol) ==
  /\ \A c \in Cell : seed[c] \preceq sol[c]
  /\ \A p \in Prop : Kind[p] # "recursive" => Compute(p, sol) \preceq sol[To[p]]

Below(sol) == \A c \in Cell : cells[c] \preceq sol[c]

(* Nothing is ever concluded that some consistent reading of the network   *)
(* does not force: what the cells hold is below every fixpoint.            *)
BelowEveryFixpoint == \A sol \in [Cell -> Domain] : Fixpoint(sol) => Below(sol)

(* The result of a run that ends normally is THE least fixpoint above the  *)
(* inputs, so two runs of the network on the same inputs that both end     *)
(* give the same cells, however their propagators were ordered.            *)
ResultIsLeastFixpoint ==
  status = "done" => Fixpoint(cells) /\ BelowEveryFixpoint

(* A run exits only when it had to: every fixpoint above the inputs holds  *)
(* a contradiction somewhere, so no other order would have found a result. *)
ExitIsUnavoidable ==
  status = "exit" =>
    \A sol \in [Cell -> Domain] :
      Fixpoint(sol) => \E c \in Cell : sol[c] = Contradiction
=============================================================================
