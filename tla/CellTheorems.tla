---------------------------- MODULE CellTheorems ----------------------------
(***************************************************************************)
(* For any default and any contents, a cell holds the join of what it was  *)
(* told since it was last set.  The invariant is inductive as it stands,   *)
(* given that the cell holds a structure at all.                           *)
(***************************************************************************)
EXTENDS Cell, InfoStructureTheorems

(* A cell always holds one of the five classes of structure. *)
THEOREM CellTypeCorrect == Spec => []TypeOK
<1>1. Init => TypeOK
  BY CellAssumption DEF Init, TypeOK
<1>2. TypeOK /\ [Next]_vars => TypeOK'
  <2> SUFFICES ASSUME TypeOK, [Next]_vars PROVE TypeOK'
    OBVIOUS
  <2>1. ASSUME NEW c \in Contents, mergeContent(c) PROVE TypeOK'
    BY <2>1, CellAssumption, MergeType DEF mergeContent, TypeOK
  <2>2. ASSUME NEW c \in Contents, setContent(c) PROVE TypeOK'
    BY <2>2, CellAssumption DEF setContent, TypeOK
  <2>3. CASE forget
    BY <2>3, CellAssumption DEF forget, TypeOK
  <2>4. CASE UNCHANGED vars
    BY <2>4 DEF vars, TypeOK
  <2> QED BY <2>1, <2>2, <2>3, <2>4 DEF Next
<1> QED BY <1>1, <1>2, PTL DEF Spec

LEMMA MergeKeepsJoin ==
  ASSUME TypeOK, HoldsTheJoin, NEW c \in Contents, mergeContent(c)
  PROVE  HoldsTheJoin'
<1>1. /\ info \in Info /\ base \in Info /\ c \in Info
      /\ \A d \in told : d \in Info
      /\ \A u \in Bounds : u \in Info
  BY CellAssumption DEF TypeOK
<1>2. info' = Merge(info, c) /\ base' = base /\ told' = told \cup {c}
  BY DEF mergeContent
<1>3. info \preceq info' /\ c \preceq info' /\ info' \in Info
  BY <1>1, <1>2, PrecMerge, MergeType
<1>4. base \preceq info' /\ \A d \in told : d \preceq info'
  BY <1>1, <1>3, PrecTransitive DEF HoldsTheJoin, Covers
<1>5. base' \preceq info' /\ \A d \in told' : d \preceq info'
  BY <1>2, <1>3, <1>4
<1>6. ASSUME NEW u \in Bounds, base \preceq u, \A d \in told \cup {c} : d \preceq u
      PROVE  info' \preceq u
  <2>1. info \preceq u
    BY <1>6 DEF HoldsTheJoin, Covers
  <2>2. c \preceq u
    BY <1>6
  <2> QED BY <1>1, <1>2, <2>1, <2>2, MergeLeast
<1> QED BY <1>2, <1>5, <1>6 DEF HoldsTheJoin, Covers

LEMMA SetKeepsJoin ==
  ASSUME NEW c \in Info, info' = c, base' = c, told' = {}
  PROVE  HoldsTheJoin'
BY PrecExtremes DEF HoldsTheJoin, Covers

(* The cell holds the least structure above everything it was told. *)
THEOREM CellHoldsTheJoin == Spec => []HoldsTheJoin
<1>1. Init => HoldsTheJoin
  BY CellAssumption, PrecExtremes DEF Init, HoldsTheJoin, Covers
<1>2. TypeOK /\ HoldsTheJoin /\ [Next]_vars => HoldsTheJoin'
  <2> SUFFICES ASSUME TypeOK, HoldsTheJoin, [Next]_vars PROVE HoldsTheJoin'
    OBVIOUS
  <2>1. ASSUME NEW c \in Contents, mergeContent(c) PROVE HoldsTheJoin'
    BY <2>1, MergeKeepsJoin
  <2>2. ASSUME NEW c \in Contents, setContent(c) PROVE HoldsTheJoin'
    BY <2>2, CellAssumption, SetKeepsJoin DEF setContent
  <2>3. CASE forget
    BY <2>3, CellAssumption, SetKeepsJoin DEF forget
  <2>4. CASE UNCHANGED vars
    BY <2>4 DEF vars, HoldsTheJoin, Covers
  <2> QED BY <2>1, <2>2, <2>3, <2>4 DEF Next
<1> QED BY <1>1, <1>2, CellTypeCorrect, PTL DEF Spec
=============================================================================
