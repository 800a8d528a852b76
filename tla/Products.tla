------------------------------ MODULE Products ------------------------------
(***************************************************************************)
(* A propagator of two set-valued cells that keeps some of the pairs of    *)
(* their elements, as a constraint does: it returns the left element of a  *)
(* pair it keeps and null for the others.  Other propagators narrow the    *)
(* two cells meanwhile.                                                    *)
(***************************************************************************)
EXTENDS InfoStructures

VARIABLES
  left, right,   \* the two input cells
  keep           \* the pairs the propagator keeps

vars == <<left, right, keep>>

Domains == {MergeSet(S) : S \in (SUBSET Value) \ {{}}}

Init ==
  /\ left = MergeSet(Value) /\ right = MergeSet(Value)
  /\ keep \in SUBSET (Value \X Value)

Narrow ==
  \E d \in Domains :
    /\ \/ left' = MergeSetMerge(left, d) /\ UNCHANGED right
       \/ right' = MergeSetMerge(right, d) /\ UNCHANGED left
    /\ Contradiction \notin {left', right'}
    /\ UNCHANGED keep

Spec == Init /\ [][Narrow]_vars

-----------------------------------------------------------------------------
Answer ==
  NaryUnpack([t \in [1 .. 2 -> Raw] |-> IF t \in keep THEN t[1] ELSE Null],
             <<left, right>>)

(* "An n-ary propagator over several MergeSets produces the Cartesian      *)
(* product of their elements", Nothing branches dropped, and an empty      *)
(* branch "simply contributes nothing, like Nothing": the answer holds     *)
(* every left element that some right element goes with, and contradicts   *)
(* only when there is none.                                                *)
KeepsEverySurvivor ==
  LET survivors == {p[1] : p \in keep \cap (left.elements \X right.elements)}
  IN  Answer = IF survivors = {} THEN Contradiction ELSE MergeSet(survivors)
=============================================================================
