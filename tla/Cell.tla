-------------------------------- MODULE Cell --------------------------------
(***************************************************************************)
(* One cell of a network: the structure it holds and the three operations  *)
(* that change it.  Two history variables record what the cell was last    *)
(* set to and the set of contents merged into it since.                    *)
(***************************************************************************)
EXTENDS InfoStructures

CONSTANTS
  Default,    \* the structure forget() goes back to
  Contents,   \* the structures offered to the cell
  Bounds      \* the structures the cell is compared with

ASSUME CellAssumption ==
  Default \in Info /\ Contents \subseteq Info /\ Bounds \subseteq Info

VARIABLES
  info,   \* the private field of the cell
  base,   \* what the cell was last set to
  told    \* the contents merged into it since

vars == <<info, base, told>>

TypeOK == info \in Info /\ base \in Info /\ told \subseteq Contents

Init == info = Default /\ base = Default /\ told = {}

mergeContent(c) ==
  /\ info' = Merge(info, c)
  /\ told' = told \cup {c}
  /\ UNCHANGED base

setContent(c) ==
  /\ info' = c
  /\ base' = c
  /\ told' = {}

forget ==
  /\ info' = Default
  /\ base' = Default
  /\ told' = {}

Next ==
  \/ \E c \in Contents : mergeContent(c)
  \/ \E c \in Contents : setContent(c)
  \/ forget

Spec == Init /\ [][Next]_vars

-----------------------------------------------------------------------------
(* What a cell holds is the least structure that says everything it was    *)
(* told: no contribution is lost, nothing is invented, and neither the     *)
(* order of the contributions, nor their grouping, nor telling one of them *)
(* twice matters.  This is what the README claims of merge (idempotent,    *)
(* commutative, associative), stated of Cell.mergeContent.                 *)
Covers(u) == base \preceq u /\ \A c \in told : c \preceq u

HoldsTheJoin ==
  /\ Covers(info)
  /\ \A u \in Bounds : Covers(u) => info \preceq u
=============================================================================
