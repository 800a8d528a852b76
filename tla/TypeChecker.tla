----------------------------- MODULE TypeChecker -----------------------------
(***************************************************************************)
(* The static checks of a program: the types of the cells of a network, in *)
(* two passes, and the rules for fields, templates and prompts             *)
(* (data-network/type-checker.ts, language/reserved-words.ts).  A network  *)
(* is its inputs (from), its output (to) and its terms; a term is the      *)
(* function fn over the cells from into the cell to, possibly coerced (as),*)
(* or a switch over a condition and a value.                               *)
(***************************************************************************)
EXTENDS Programs

Boolean == Scalar(<<"Boolean", "?">>)

\* Functions, LLM functions and signed grammars, a later one over an earlier.
buildFnMap(nodes) ==
  LET signed == SelectSeq(OfKind(nodes, "grammar"), LAMBDA g : g.signature # <<>>)
      typed(n) == [params  |-> [i \in DOMAIN n.params |-> Scalar(n.params[i].pred)],
                   returns |-> IF n.kind = "grammar" THEN n.signature[1] ELSE n.returns]
  IN FoldLeft(LAMBDA map, n : (registryKey(n) :> typed(n)) @@ map, <<>>,
              OfKind(nodes, "fn") \o OfKind(nodes, "llmfn") \o signed)

buildKnownPredicates(nodes) ==
  Primitive \cup {Pred(n.name) : n \in {m \in Range(nodes) : m.kind \in {"record", "enum"}}}
            \cup {n.name : n \in {m \in Range(OfKind(nodes, "fn")) : m.isPredicate}}

isKnownType(nodes, t) == t.depth <= 1 /\ t.of \in buildKnownPredicates(nodes)

\* Networks and bare recognizers: only their number of arguments is known.
ArityOnly(nodes) ==
  FoldLeft(LAMBDA map, n : IF n.kind = "network" THEN (<<"network", "/">> \o n.name :> Len(n.from)) @@ map
                           ELSE IF n.kind = "grammar" /\ n.signature = <<>>
                           THEN (registryKey(n) :> 1) @@ map ELSE map, <<>>, nodes)

(* The types of a propagator as its cells see them: mapping and filtering  *)
(* distribute the function over a vector.                                  *)
Distributes(term) == term.as \in {"mapping", "filtering"}
paramTypes(sig, term) ==
  IF Distributes(term) THEN [i \in DOMAIN sig.params |-> Vector(sig.params[i])] ELSE sig.params
returnType(sig, term) ==
  CASE term.as = "mapping"   -> Vector(sig.returns)
    [] term.as = "filtering" -> Vector(IF sig.params # <<>> THEN sig.params[1] ELSE sig.returns)
    [] OTHER                 -> sig.returns

-----------------------------------------------------------------------------
Cells(net) == (UNION {Range(t.from) \cup {t.to} : t \in Range(net.terms)})
              \cup Range(net.from) \cup {net.to}
Typed(net, fns) ==
  Kept(net.terms, {t \in Range(net.terms) : t.kind = "propagate" /\ t.fn \in DOMAIN fns})
Switches(net) == Kept(net.terms, {t \in Range(net.terms) : t.kind = "switch"})

\* Inputs of a typed term beyond the parameters have no type.
Reads(fns, t) ==
  {<<t.from[i], paramTypes(fns[t.fn], t)[i]>> : i \in DOMAIN t.from \cap DOMAIN fns[t.fn].params}

\* Pass 1: what the functions write and read.
PropagateTerms(net, fns) ==
  LET typed == Range(Typed(net, fns)) IN
  [writtenBy |-> [c \in Cells(net) |-> {returnType(fns[t.fn], t) : t \in {u \in typed : u.to = c}}],
   readBy    |-> [c \in Cells(net) |-> {r[2] : r \in {s \in UNION {Reads(fns, t) : t \in typed} : s[1] = c}}]]

Inferred(cells, c) ==
  IF Cardinality(cells.writtenBy[c]) = 1 THEN cells.writtenBy[c]
  ELSE IF Cardinality(cells.readBy[c]) = 1 THEN cells.readBy[c] ELSE {}

(* Mutant: what a switch lets through has no type. *)
SwitchTermUntyped(cells, t) == [cells EXCEPT !.readBy[t.from[1]] = @ \cup {Boolean}]

\* Pass 2, in the order of the terms: a condition is boolean, and the output
\* has the type its value has so far.
SwitchTerm(cells, t) ==
  LET read == [cells EXCEPT !.readBy[t.from[1]] = @ \cup {Boolean}] IN
  [read EXCEPT !.writtenBy[t.to] =
     @ \cup IF Len(t.from) >= 2 THEN Inferred(read, t.from[2]) ELSE {Boolean}]

CellErrors(cells) ==
  {c \in DOMAIN cells.writtenBy :
     \/ Cardinality(cells.writtenBy[c]) > 1 \/ Cardinality(cells.readBy[c]) > 1
     \/ Cardinality(cells.writtenBy[c]) = 1 /\ cells.readBy[c] \ cells.writtenBy[c] # {}}

TermErrors(cells, net, fns, nodes) ==
  {t \in Range(net.terms) : t.kind = "propagate" /\
     \/ /\ t.fn \in DOMAIN fns
        /\ \/ Len(t.from) # Len(fns[t.fn].params)
           \/ ~isKnownType(nodes, returnType(fns[t.fn], t))
           \/ \E r \in Reads(fns, t) : ~isKnownType(nodes, r[2])
           \/ \E r \in Reads(fns, t) : Inferred(cells, r[1]) \notin {{}, {r[2]}}
     \/ /\ t.fn \notin DOMAIN fns /\ t.fn \in DOMAIN ArityOnly(nodes)
        /\ Len(t.from) # ArityOnly(nodes)[t.fn]}

\* An input that is written, an output that is read: legal, a warning.
TopologyWarnings(net) ==
  {c \in Range(net.from) : \E t \in Range(net.terms) : t.to = c}
  \cup {c \in {net.to} : \E t \in Range(net.terms) : c \in Range(t.from)}

typeCheck(net, nodes) ==
  LET fns   == buildFnMap(nodes)
      cells == FoldLeft(SwitchTerm, PropagateTerms(net, fns), Switches(net))
  IN [errors   |-> [cells |-> CellErrors(cells), terms |-> TermErrors(cells, net, fns, nodes)],
      warnings |-> TopologyWarnings(net)]

Clean(checked) == checked.errors.cells = {} /\ checked.errors.terms = {}

-----------------------------------------------------------------------------
\* Every {{path}} of a template begins at a parameter and goes through records.
FieldsNamed(nodes, record, name) ==
  LET fields == Latest(nodes, "record", record).fields IN
  SelectSeq(fields, LAMBDA f : f.name = name)

Descend(nodes, at, segment) ==
  IF at = <<>> \/ at[1].depth > 0 \/ ~Declares(nodes, "record", stripPred(at[1].of)) THEN <<>>
  ELSE LET fields == FieldsNamed(nodes, stripPred(at[1].of), segment)
       IN IF fields = <<>> THEN <<>> ELSE <<fields[1].type>>

PathResolves(nodes, f, path) ==
  LET roots == SelectSeq(f.params, LAMBDA p : p.name = path[1]) IN
  roots # <<>> /\ FoldLeft(LAMBDA at, s : Descend(nodes, at, s), <<Scalar(Last(roots).pred)>>, Tail(path)) # <<>>

validateInterpolate(nodes) ==
  {f.name : f \in {g \in Range(OfKind(nodes, "fn")) :
                     \E i \in DOMAIN g.paths : ~PathResolves(nodes, g, g.paths[i])}}

\* A system prompt has no placeholder, a user prompt is required.
validateLLMFn(nodes) ==
  {f.name : f \in {g \in Range(OfKind(nodes, "llmfn")) : "{{}}" \in Range(g.system) \/ g.user = <<>>}}

reservedFieldErrors(nodes) ==
  {r.name : r \in {s \in Range(OfKind(nodes, "record")) :
                     \E i \in DOMAIN s.fields : s.fields[i].name \in ReservedWord}}

-----------------------------------------------------------------------------
(* What a cell can carry when the network runs: what the functions and     *)
(* switches that write it deliver and, in a cell nothing writes, what its  *)
(* readers were declared to take.                                          *)
Delivered(net, fns, carried, c) ==
  {returnType(fns[t.fn], t) : t \in {u \in Range(Typed(net, fns)) : u.to = c}}
  \cup UNION {IF Len(t.from) >= 2 THEN carried[t.from[2]] ELSE {Boolean}
              : t \in {u \in Range(Switches(net)) : u.to = c}}

Seeded(net, fns, c) ==
  IF \E t \in Range(net.terms) : t.to = c THEN {}
  ELSE {r[2] : r \in {s \in UNION {Reads(fns, t) : t \in Range(Typed(net, fns))} : s[1] = c}}
       \cup IF \E t \in Range(Switches(net)) : t.from[1] = c THEN {Boolean} ELSE {}

Carries(net, fns) ==
  FoldLeft(LAMBDA carried, t : [c \in Cells(net) |-> carried[c] \cup Delivered(net, fns, carried, c)],
           [c \in Cells(net) |-> Seeded(net, fns, c)], <<0>> \o net.terms)

\* Each switch comes after the switches that say what its value is.
SwitchesInDataOrder(net) ==
  LET s == Switches(net) IN
  \A i \in DOMAIN s, j \in DOMAIN s :
     j > i /\ Len(s[i].from) >= 2 => s[i].from[2] \notin {s[j].to, s[j].from[1]}

(* A network without errors never gives a function a value of a type other *)
(* than the one it declares, nor a switch a condition that is no boolean,  *)
(* also through switches, mappings and filters - as long as the switches   *)
(* are written in data order: the second pass goes over them once.         *)
(* (type-checker.ts:205-353)                                               *)
CleanIsSound(net, nodes) ==
  LET fns     == buildFnMap(nodes)
      carried == Carries(net, fns)
  IN Clean(typeCheck(net, nodes)) /\ SwitchesInDataOrder(net) =>
     /\ \A t \in Range(Typed(net, fns)) : \A r \in Reads(fns, t) : carried[r[1]] \subseteq {r[2]}
     /\ \A t \in Range(Switches(net)) : carried[t.from[1]] \subseteq {Boolean}
=============================================================================
