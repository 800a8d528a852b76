--------------------------- MODULE InfoStructures ---------------------------
(***************************************************************************)
(* The information structures a cell of a propagation network can hold,    *)
(* and the operations the engine performs on them: lifting a plain value   *)
(* (I), combining two structures (Merge) and applying a plain function     *)
(* under the structures (NaryUnpack).  This is the synchronous part of the *)
(* algebra; pending promises (APromise) are not part of it.                *)
(*                                                                         *)
(* A plain content is an element of Value (a number, a string, ...), a     *)
(* record with scalar fields, or an array.  Only two things are ever done  *)
(* with an array here, lifting it to a MergeSet and comparing it, so an    *)
(* array is represented by the set of its elements.                        *)
(***************************************************************************)
EXTENDS Naturals, Sequences

CONSTANTS
  Value,    \* scalar contents; pairwise different under valueEquals
  Field     \* names of the fields of the records

-----------------------------------------------------------------------------
(* Plain contents. *)

Null  == [plain |-> "null"]      \* null and undefined
Error == [plain |-> "error"]     \* an Error object returned by a function

Partial(S) == UNION {[D -> S] : D \in SUBSET Field}

Record == [rec : Partial(Value \cup {Null})]
Array  == [arr : SUBSET Value]
Raw    == Value \cup Record \cup Array

-----------------------------------------------------------------------------
(* The structures.  Every Contradiction equals every other one, so there   *)
(* is a single element for all of them.                                    *)

Nothing       == [tag |-> "nothing"]
Contradiction == [tag |-> "contradiction"]
Something(v)   == [tag |-> "something", value |-> v]
MergeSet(S)    == [tag |-> "set", elements |-> S]
MergeObject(f) == [tag |-> "object", fields |-> f]

FieldInfo == {Nothing} \cup [tag : {"something"}, value : Value]

Somethings   == [tag : {"something"}, value : Raw]
MergeSets    == [tag : {"set"}, elements : (SUBSET Raw) \ {{}}]
MergeObjects == [tag : {"object"}, fields : Partial(FieldInfo)]

Info == {Nothing, Contradiction} \cup Somethings \cup MergeSets \cup MergeObjects

(* What a function registered in the network may return. *)
Result == Raw \cup {Null, Error} \cup Info

I(v) ==
  IF v = Null THEN Nothing
  ELSE IF v = Error THEN Contradiction
  ELSE IF v \in Info THEN v
  ELSE Something(v)

-----------------------------------------------------------------------------
(* Merge, one operator per class that implements it.                       *)

(* Mutant: the empty intersection stays a set. *)
MergeSetMergeKeepsEmpty(s, other) ==
  IF other = Nothing THEN s
  ELSE IF other.tag = "set" THEN MergeSet(s.elements \cap other.elements)
  ELSE Contradiction

MergeSetMerge(s, other) ==
  IF other = Nothing THEN s
  ELSE IF other.tag = "set"
    THEN LET common == s.elements \cap other.elements
         IN  IF common = {} THEN Contradiction ELSE MergeSet(common)
  ELSE Contradiction

(* Mutant: the first value of a field wins. *)
FieldMergeKeepsFirst(x, y) == IF x = Nothing THEN y ELSE x

FieldMerge(x, y) ==
  IF x = Nothing THEN y
  ELSE IF y = Nothing \/ x = y THEN x
  ELSE Contradiction

FieldOf(o, k) == IF k \in DOMAIN o.fields THEN o.fields[k] ELSE Nothing

MergeFields(o, other) ==
  [k \in DOMAIN o.fields \cup DOMAIN other.fields
     |-> FieldMerge(FieldOf(o, k), FieldOf(other, k))]

MergeObjectMerge(o, other) ==
  IF other = Nothing THEN o
  ELSE IF other.tag = "object"
    THEN LET merged == MergeFields(o, other)
         IN  IF \E k \in DOMAIN merged : merged[k] = Contradiction
             THEN Contradiction
             ELSE MergeObject(merged)
  ELSE IF other.tag = "set" THEN MergeSetMerge(other, o)
  ELSE Contradiction

SomethingMerge(s, other) ==
  IF other = Nothing \/ other = s THEN s
  ELSE IF other.tag = "set" THEN MergeSetMerge(other, s)
  ELSE IF other.tag = "object" THEN MergeObjectMerge(other, s)
  ELSE Contradiction

Merge(a, b) ==
  CASE a.tag = "nothing"   -> b
    [] a.tag = "something" -> SomethingMerge(a, b)
    [] a.tag = "set"       -> MergeSetMerge(a, b)
    [] a.tag = "object"    -> MergeObjectMerge(a, b)
    [] OTHER               -> a

(* b says everything a says, and perhaps more. *)
a \preceq b == Merge(a, b) = b

-----------------------------------------------------------------------------
(* Applying functions under the structures.  A continuation is a function  *)
(* from plain contents to structures, as the closures passed to bind are.  *)

Content(o) ==
  [rec |-> [k \in DOMAIN o.fields |->
              IF o.fields[k] = Nothing THEN Null ELSE o.fields[k].value]]

(* The contents one branch contributes to the flattened set. *)
Branch(i) ==
  CASE i.tag = "something" -> {i.value}
    [] i.tag = "object"    -> {Content(i)}
    [] i.tag = "set"       -> i.elements
    [] OTHER               -> {}

MergeSetFlatten(branches) ==
  LET out == UNION {Branch(i) : i \in branches}
  IN  IF Contradiction \in branches \/ out = {}
      THEN Contradiction
      ELSE MergeSet(out)

Bind(s, k) ==
  CASE s.tag = "something" -> k[s.value]
    [] s.tag = "object"    -> k[Content(s)]
    [] s.tag = "set"       -> MergeSetFlatten({k[e] : e \in s.elements})
    [] OTHER               -> s

MaxArity == 5

(* f maps a tuple of plain contents to a Result. *)
NaryUnpack(f, s) ==
  CASE Len(s) = 1 ->
         Bind(s[1], [a \in Raw |-> I(f[<<a>>])])
    [] Len(s) = 2 ->
         Bind(s[1], [a \in Raw |-> Bind(s[2], [b \in Raw |-> I(f[<<a, b>>])])])
    [] Len(s) = 3 ->
         Bind(s[1], [a \in Raw |-> Bind(s[2], [b \in Raw |->
           Bind(s[3], [c \in Raw |-> I(f[<<a, b, c>>])])])])
    [] Len(s) = 4 ->
         Bind(s[1], [a \in Raw |-> Bind(s[2], [b \in Raw |->
           Bind(s[3], [c \in Raw |->
             Bind(s[4], [d \in Raw |-> I(f[<<a, b, c, d>>])])])])])
    [] Len(s) = 5 ->
         Bind(s[1], [a \in Raw |-> Bind(s[2], [b \in Raw |->
           Bind(s[3], [c \in Raw |->
             Bind(s[4], [d \in Raw |->
               Bind(s[5], [e \in Raw |-> I(f[<<a, b, c, d, e>>])])])])])])

-----------------------------------------------------------------------------
(* The coercions of a propagator declared "as MergeObject" and             *)
(* "as MergeSet": they post-process a successful result.                   *)

Lift(r) ==
  MergeObject([k \in DOMAIN r.rec |->
                 IF r.rec[k] = Null THEN Nothing ELSE Something(r.rec[k])])

CoerceToMergeObject(i) ==
  IF i.tag # "something" THEN i
  ELSE IF i.value \in Record THEN Lift(i.value)
  ELSE Contradiction

CoerceToMergeSet(i) ==
  IF i.tag # "something" THEN i
  ELSE IF i.value \in Array /\ i.value.arr # {} THEN MergeSet(i.value.arr)
  ELSE Contradiction

Coercion == {"none", "MergeObject", "MergeSet"}

Coerce(as, i) ==
  CASE as = "MergeObject" -> CoerceToMergeObject(i)
    [] as = "MergeSet"    -> CoerceToMergeSet(i)
    [] OTHER              -> i
=============================================================================
