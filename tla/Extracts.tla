------------------------------- MODULE Extracts -------------------------------
(***************************************************************************)
(* Extracts: the statements of a root record and of its nested elements,   *)
(* each over its own region of the text (sandbox/extract-runtime.ts).      *)
(***************************************************************************)
EXTENDS Extraction

\* What a leaf gives for a region, and its span-aware scan: a table and a bare
\* recognizer have none.
callImpl(nodes, ref, region) ==
  IF IsTable(ref) THEN compileTTable(The(nodes, "ttable", Unprefixed(ref)), nodes, region)
  ELSE compileGrammar(The(nodes, "grammar", Unprefixed(ref)), nodes, region)

LeafOf(nodes, stmt) == The(nodes, "grammar", Unprefixed(stmt.leaf))
HasScan(nodes, ref) == ~IsTable(ref) /\ The(nodes, "grammar", Unprefixed(ref)).signature # <<>>

\* Without spans: the text of the element's field body, if there is one.
regionFallback(el) ==
  IF el.is = "record" /\ "body" \in DOMAIN el.fields /\ el.fields["body"].is = "text"
  THEN el.fields["body"].items ELSE <<>>

\* A row that is a contradiction, or the list of a root grammar that returns
\* one, becomes a plain object (of no type) when a field is set on it.
With(el, field, value) ==
  IF el.is = "record" THEN [el EXCEPT !.fields = (field :> value) @@ @]
  ELSE Rec(<<>>, field :> value)

(* Mutant: nested statements see the region of the enclosing record. *)
RegionOfParent(spans, target, i, el, region) == region

RegionOf(spans, target, i, el, region) ==
  IF target \notin DOMAIN spans THEN regionFallback(el)
  ELSE IF i \in DOMAIN spans[target] THEN spans[target][i] ELSE <<>>

\* The statements in order; spans are those of the last scan of each field by
\* a grammar.
RECURSIVE processBody(_, _, _, _)
processBody(nodes, record, body, region) ==
  LET Step(s, stmt) ==
        CASE stmt.kind = "within" ->
               LET elems == s.rec.fields[stmt.target].values IN
               IF s.rec.is # "record" \/ stmt.target \notin DOMAIN s.rec.fields
                  \/ s.rec.fields[stmt.target].is # "list" THEN s
               ELSE [s EXCEPT !.rec = With(@, stmt.target,
                       List([i \in DOMAIN elems |->
                               processBody(nodes, elems[i], stmt.body,
                                           RegionOf(s.spans, stmt.target, i, elems[i], region))]))]
          [] stmt.kind = "scan" /\ HasScan(nodes, stmt.leaf) ->
               LET m == Scanned(LeafOf(nodes, stmt), nodes, region) IN
               [rec |-> With(s.rec, stmt.as, List(m.records)), spans |-> (stmt.as :> m.spans) @@ s.spans]
          [] OTHER -> [s EXCEPT !.rec = With(@, stmt.as, callImpl(nodes, stmt.leaf, region))]
  IN FoldLeft(Step, [rec |-> record, spans |-> <<>>], body).rec

compileExtract(e, nodes, items) ==
  LET root == callImpl(nodes, e.root.grammar, items) IN
  IF root.is \in {"record", "list"} THEN processBody(nodes, root, e.root.body, items) ELSE root

-----------------------------------------------------------------------------
(* The elements of a vector scanned by a grammar, and what is nested in    *)
(* them, come from the document in order, each from its own part of it:    *)
(* nothing is reported under another element, twice, or not at all - unless*)
(* the vector was scanned by a table after it, whose rows have no span.    *)
(* (extract-runtime.ts:108-165)                                            *)
Scans(body, field) == {i \in DOMAIN body : body[i].kind = "scan" /\ body[i].as = field}

\* The scans by a grammar alone in filling their field, before index w.
GrammarScans(body, w) ==
  {i \in DOMAIN body : /\ i < w /\ body[i].kind = "scan" /\ ~IsTable(body[i].leaf)
                       /\ Scans(body, body[i].as) = {i}}

ElementKeeps(nodes, nested, part, element) ==
  \A k \in GrammarScans(nested, Len(nested) + 1) :
     element.fields[nested[k].as] = List(Scanned(LeafOf(nodes, nested[k]), nodes, <<part>>).records)

VectorKeeps(nodes, nested, parts, values) ==
  /\ Len(values) = Len(parts)
  /\ \A i \in DOMAIN parts : ElementKeeps(nodes, nested, parts[i], values[i])

AllElementsKeep(body, nodes, items, r) ==
  r.is = "record" =>
    \A w \in DOMAIN body : body[w].kind = "within" =>
      \A i \in GrammarScans(body, w) : body[i].as = body[w].target =>
        VectorKeeps(nodes, body[w].body, Found(LeafOf(nodes, body[i]).tag, items), r.fields[body[w].target].values)

ElementsKeepTheirText(e, nodes, items) ==
  validateExtract(e, nodes) => AllElementsKeep(e.root.body, nodes, items, compileExtract(e, nodes, items))
=============================================================================
