------------------------------ MODULE MCRunners ------------------------------
(***************************************************************************)
(* A network with every kind of structure, run by both runners in every    *)
(* order its propagators could be ranked.  Two propagators each give one   *)
(* field of the record rec; while they differ the network calls itself     *)
(* with a smaller hi.  domain holds the numbers up to high as a set, which *)
(* members narrows to those not below lo: it reads the cell it writes.     *)
(***************************************************************************)
EXTENDS Runners, SequencesExt

CONSTANT Top    \* the largest number of the instance

Num(i) == [num |-> i]

MCValue == {Num(i) : i \in 0 .. Top}
MCField == {"low", "high"}
MCCell  == {"lo", "hi", "rec", "next", "domain", "out"}
MCProp  == {"low", "high", "lower", "within", "members", "again"}

MCKind ==
  [p \in MCProp |-> IF p = "again" THEN "recursive" ELSE "function"]

MCFrom ==
  [p \in MCProp |-> CASE p = "low"     -> <<"lo">>
                      [] p = "high"    -> <<"hi">>
                      [] p = "lower"   -> <<"rec">>
                      [] p = "within"  -> <<"rec">>
                      [] p = "members" -> <<"domain", "lo">>
                      [] p = "again"   -> <<"lo", "next">>]

MCTo ==
  [p \in MCProp |-> CASE p = "low"    -> "rec"
                      [] p = "high"   -> "rec"
                      [] p = "lower"  -> "next"
                      [] p \in {"within", "members"} -> "domain"
                      [] OTHER        -> "out"]

MCAs ==
  [p \in MCProp |-> CASE p = "low"    -> "MergeObject"
                      [] p = "high"   -> "MergeObject"
                      [] p = "within" -> "MergeSet"
                      [] OTHER        -> "none"]

Both(r) == r.rec["low"] # Null /\ r.rec["high"] # Null

(* The fields of a record that is still partial read as null; the          *)
(* functions of the network then answer null themselves.                   *)
Known(r) == r \in Record /\ DOMAIN r.rec = MCField /\ Both(r)

MCFn(p, t) ==
  CASE p \in {"low", "high"} ->
         IF t[1] \in MCValue THEN [rec |-> [k \in {p} |-> t[1]]] ELSE Null
    [] p = "lower" ->
         IF ~ Known(t[1]) THEN Null
         ELSE LET l == t[1].rec["low"].num
                  h == t[1].rec["high"].num
              IN  IF h < l THEN Error ELSE IF h = l THEN Null ELSE Num(h - 1)
    [] p = "within" ->
         IF ~ Known(t[1]) THEN Null
         ELSE [arr |-> {Num(i) : i \in 0 .. t[1].rec["high"].num}]
    [] p = "members" ->
         IF t[1] \in MCValue /\ t[2] \in MCValue /\ t[1].num < t[2].num THEN Null ELSE t[1]
    [] OTHER -> Null

MCTruthy    == MCValue \ {Num(0)}
MCSignature == <<"lo", "hi">>
MCInitial   == [c \in MCCell |-> Nothing]

(* lo may be missing; lo above hi makes the network contradict itself. *)
MCInputs ==
  {[c \in {"lo", "hi"} |-> Something(Num(IF c = "lo" THEN i ELSE j))] :
     i, j \in 0 .. Top}
  \cup {[c \in {"hi"} |-> Something(Num(Top))]}

MCReaders ==
  [c \in MCCell |->
     SetToSeq({p \in MCProp : \E i \in 1 .. Len(MCFrom[p]) : MCFrom[p][i] = c})]

MCRankings == SetToSeqs(MCProp)
=============================================================================
