------------------------------- MODULE MCCell -------------------------------
(***************************************************************************)
(* A cell offered structures of every class: two values, two sets that     *)
(* overlap, a singleton set, and records that agree, complete each other   *)
(* or disagree on a field.                                                 *)
(***************************************************************************)
EXTENDS Cell

CONSTANTS x, y, f, g

MCValue == {x, y}
MCField == {f, g}

Fields(S, v) == MergeObject([k \in S |-> Something(v)])

MCDefault == Nothing

MCContents ==
  { Nothing, Something(x), Something(y),
    MergeSet({x, y}), MergeSet({x}), MergeSet({y}),
    MergeObject([k \in {f} |-> Nothing]), Fields({f}, x), Fields({g}, y),
    Fields({f, g}, x), Contradiction }

(* Every structure over these values and fields that the cell could hold. *)
MCBounds ==
  {Nothing, Contradiction}
  \cup {Something(v) : v \in MCValue}
  \cup {MergeSet(S) : S \in (SUBSET MCValue) \ {{}}}
  \cup {MergeObject(h) : h \in Partial(FieldInfo)}
=============================================================================
