------------------------------ MODULE Extraction ------------------------------
(***************************************************************************)
(* Records from text: grammars, text tables and the rules for the extracts *)
(* that wire them together (sandbox/grammar-runtime.ts, ttable-runtime.ts, *)
(* extract-runtime.ts).  A text is a sequence of items; an item is what    *)
(* some rule consumes, with the items inside it.  A grammar recognises the *)
(* items with its tag; a field of a record is the rule of that name.       *)
(***************************************************************************)
EXTENDS TypeChecker

Item(tag, inner) == [tag |-> tag, inner |-> inner]
Blank == Item("", <<>>)              \* the empty cell of a row

Text(items)          == [is |-> "text", items |-> items]
List(values)         == [is |-> "list", values |-> values]
Contradiction(type)  == [is |-> "contradiction", type |-> type]
Rec(type, fields)    == [is |-> "record", type |-> type, fields |-> fields]
Undefined            == [is |-> "undefined"]

\* The items inside of those without the tag come in their place.
Open(tag, items) == Flat(LAMBDA item : IF item.tag = tag THEN <<item>> ELSE item.inner, items)

\* The outermost items with the tag, from left to right: where the rule does
\* not match, one character is skipped and the rule tried again.
Opened(tag, items) == FoldLeft(LAMBDA opened, i : Open(tag, opened), items, Depths)
Found(tag, items)  == LET all == Opened(tag, items) IN Kept(all, {item \in Range(all) : item.tag = tag})

\* The items of a text and those inside of them, which are all there are.
Parts(items) == FoldLeft(LAMBDA parts, i : parts \cup UNION {Range(item.inner) : item \in parts}, Range(items), Depths)
IsText(items) ==
  items \in Seq(Parts(items)) /\ \A item \in Parts(items) : item.inner \in Seq(Parts(items))

-----------------------------------------------------------------------------
(* What an item captures for each field: the texts of the items named like *)
(* it, in order; an item hides those of its name inside it.                *)
captures(fields, item) == [f \in fields |-> Each(LAMBDA found : <<found>>, Found(f, <<item>>))]

\* A vector takes all its captures, a scalar the first.
buildRecord(rec, item) ==
  LET caps == captures({f.name : f \in Range(rec.fields)}, item)
      value(f) == LET texts == caps[f.name] IN
                  IF f.type.depth > 0 THEN List([i \in DOMAIN texts |-> Text(texts[i])])
                  ELSE IF texts = <<>> THEN Undefined ELSE Text(texts[1])
  IN Rec(rec.name, [n \in {f.name : f \in Range(rec.fields)} |->
                      value(SelectSeq(rec.fields, LAMBDA f : f.name = n)[1])])

\* The scanner is an extension of the grammar by the rules Items and Item; a
\* grammar with rules of these names cannot be extended by them.
ScannerBuilds(g) == g.rules \cap {"Items", "Item"} = {}

Scanned(g, nodes, items) ==
  LET found == Found(g.tag, items) IN
  [records |-> [i \in DOMAIN found |-> buildRecord(The(nodes, "record", boundRecordName(g)), found[i])],
   spans   |-> [i \in DOMAIN found |-> <<found[i]>>]]

compileGrammar(g, nodes, items) ==
  LET whole == Len(items) = 1 /\ items[1].tag = g.tag IN
  IF g.signature # <<>> /\ g.signature[1].depth > 0 THEN List(Scanned(g, nodes, items).records)
  ELSE IF ~whole THEN Contradiction("grammar/parse-failed")
  ELSE IF g.signature = <<>> THEN Text(items)
  ELSE buildRecord(The(nodes, "record", boundRecordName(g)), items[1])

-----------------------------------------------------------------------------
(* A text table: the items "row" are the lines of a text, their inner items*)
(* the cells; a line with one cell has no delimiter.                       *)
splitRow(row) == IF row.inner # <<>> /\ Last(row.inner) = Blank THEN Front(row.inner) ELSE row.inner

Positional(t) == t.headers # <<>> /\ \A i \in DOMAIN t.headers : t.headers[i].text = <<>>

\* The columns of each field; none if a header with a text is not there.
ColumnOf(t, head, h) ==
  IF Positional(t) THEN {Max({i \in DOMAIN t.headers : t.headers[i].field = h.field})}
  ELSE {i \in DOMAIN head : <<head[i].tag>> = h.text /\ \A j \in 1..(i - 1) : head[j] # head[i]}

\* The lines with a delimiter: the header and the rows.
Delimited(items) == LET rows == Found("row", items) IN Kept(rows, {row \in Range(rows) : Len(row.inner) >= 2})

TableOf(t, nodes, lines) ==
  LET head    == splitRow(lines[1])
      width   == IF Positional(t) THEN Len(t.headers) ELSE Len(head)
      mapped  == {h.field : h \in Range(t.headers)}
      column  == [f \in mapped |->
                    LET h == t.headers[Max({i \in DOMAIN t.headers : t.headers[i].field = f})]
                    IN CHOOSE i \in ColumnOf(t, head, h) : TRUE]
      Row(line) ==
        LET cells == splitRow(line) IN
        IF Len(cells) # width THEN Contradiction("ttable/malformed-row")
        ELSE Rec(t.row, [f \in {g.name : g \in Range(The(nodes, "record", t.row).fields)} |->
                           Text(<<IF f \in mapped THEN cells[column[f]] ELSE Blank>>)])
  IN IF lines = <<>> THEN Contradiction("ttable/no-header")
     ELSE IF \E h \in Range(t.headers) : ColumnOf(t, head, h) = {}
     THEN Contradiction("ttable/header-mismatch")
     ELSE List([i \in 1..(Len(lines) - 1) |-> Row(lines[i + 1])])

compileTTable(t, nodes, items) == TableOf(t, nodes, Delimited(items))

\* Whether there is an error: the headers are the fields, once each, and
\* either all of them have a text or none.
validateTTable(t, nodes) ==
  LET withText == {i \in DOMAIN t.headers : t.headers[i].text # <<>>}
      headers  == [i \in DOMAIN t.headers |-> t.headers[i].field]
  IN /\ Declares(nodes, "record", t.row)
     /\ t.cell # ""
     /\ withText \in {{}, DOMAIN t.headers}
     /\ Range(headers) = {f.name : f \in Range(The(nodes, "record", t.row).fields)}
     /\ IsInjective(headers)

-----------------------------------------------------------------------------
(* The rules for extracts.  A leaf is named grammar/X or TTable/X.         *)
IsTable(ref)   == Len(ref) >= 2 /\ ref[1] = "TTable" /\ ref[2] = "/"
Unprefixed(ref) == IF Len(ref) >= 2 /\ ref[1] \in {"TTable", "grammar"} /\ ref[2] = "/"
                   THEN SubSeq(ref, 3, Len(ref)) ELSE ref

\* The records a leaf produces, if there is such a leaf.
grammarReturnRecord(nodes, ref) ==
  LET name == Unprefixed(ref) IN
  IF ~IsTable(ref) /\ Declares(nodes, "grammar", name) /\ The(nodes, "grammar", name).signature # <<>>
  THEN {boundRecordName(The(nodes, "grammar", name))} ELSE {}
LeafRecord(nodes, ref) ==
  LET name == Unprefixed(ref) IN
  IF IsTable(ref) /\ Declares(nodes, "ttable", name) THEN {The(nodes, "ttable", name).row}
  ELSE grammarReturnRecord(nodes, ref)

FieldOfStmt(nodes, record, stmt) == FieldsNamed(nodes, record, IF stmt.kind = "within" THEN stmt.target ELSE stmt.as)
ElemOfStmt(nodes, record, stmt)  == stripPred(FieldOfStmt(nodes, record, stmt)[1].type.of)

\* A scope is a body with the record whose fields it fills.
ScopeHolds(nodes, scope) ==
  Declares(nodes, "record", scope.record) /\ \A stmt \in Range(scope.body) :
    LET field == FieldOfStmt(nodes, scope.record, stmt)
        elem  == ElemOfStmt(nodes, scope.record, stmt)
    IN /\ field # <<>>
       /\ (stmt.kind \in {"scan", "within"}) = (field[1].type.depth > 0)
       /\ stmt.kind # "within" =>
          /\ IsTable(stmt.leaf) => stmt.kind = "scan"
          /\ elem = stmt.record
          /\ LeafRecord(nodes, stmt.leaf) = {stmt.record}

Nested(nodes, scope) ==
  {[body |-> stmt.body, record |-> ElemOfStmt(nodes, scope.record, stmt)] :
     stmt \in {s \in Range(scope.body) : s.kind = "within"}}

checkScope(nodes, body, record) ==
  LET Deeper(scopes, i) ==
        scopes \cup UNION {Nested(nodes, scope) : scope \in {s \in scopes : ScopeHolds(nodes, s)}}
  IN \A scope \in FoldLeft(Deeper, {[body |-> body, record |-> record]}, Depths) : ScopeHolds(nodes, scope)

validateExtract(e, nodes) ==
  /\ e.root.grammar # <<>> /\ grammarReturnRecord(nodes, e.root.grammar) = {e.root.target}
  /\ checkScope(nodes, e.root.body, e.root.target)

-----------------------------------------------------------------------------
(* Every well-formed row of a table has, under each field, the cell below  *)
(* the header of that field, and a row of another width is a contradiction *)
(* in its place: rows are not lost, moved or padded. (ttable-runtime.ts:50)*)
RowKeeps(t, head, line, row) ==
  LET width == IF Positional(t) THEN Len(t.headers) ELSE Len(splitRow(head)) IN
  /\ (row.is = "contradiction") = (Len(splitRow(line)) # width)
  /\ row.is = "record" => \A k \in DOMAIN t.headers : \E c \in 1..width :
       /\ row.fields[t.headers[k].field] = Text(<<line.inner[c]>>)
       /\ IF Positional(t) THEN c = k ELSE <<head.inner[c].tag>> = t.headers[k].text

AllRowsKeep(t, lines, r) ==
  r.is = "list" => /\ Len(r.values) = Len(lines) - 1
                   /\ \A i \in DOMAIN r.values : RowKeeps(t, lines[1], lines[i + 1], r.values[i])

RowsKeepTheirColumns(t, nodes, items) ==
  validateTTable(t, nodes) => AllRowsKeep(t, Delimited(items), compileTTable(t, nodes, items))
=============================================================================
