------------------------------ MODULE Constructs ------------------------------
(***************************************************************************)
(* The ten constructs of the language: the node a block denotes (parse) and*)
(* what the node contributes to the artifact (emit), the constants it binds*)
(* - before mangling - and the keys it registers (language/constructs).    *)
(* A name is the sequence of its words and marks, <<"Foo", "?">>; a type   *)
(* is a predicate under zero or more vectors.                              *)
(***************************************************************************)
EXTENDS Sources

CONSTANT MaxNesting    \* how deep expressions, items, and the statements of an extract, nest

ASSUME NestingAssumption == MaxNesting \in Nat

Depths == [i \in 1..MaxNesting |-> i]

Scalar(pred)    == [depth |-> 0, of |-> pred]
Vector(t)       == [t EXCEPT !.depth = @ + 1]
Pred(name)      == Append(name, "?")
stripPred(pred) == IF pred # <<>> /\ Last(pred) = "?" THEN Front(pred) ELSE pred

FieldDecl(name, type)        == [name |-> name, type |-> type]
TypedParam(pred, name)       == [pred |-> pred, name |-> name]
FnSignature(params, returns) == [params |-> params, returns |-> returns]
Emits(consts, keys)          == [consts |-> consts, keys |-> keys]

LastOf(clauses, of, default) ==
  LET found == SelectSeq(clauses, LAMBDA c : c.clause \in of)
  IN IF found = <<>> THEN default ELSE Last(found).value

-----------------------------------------------------------------------------
(* A record: a constructor, a predicate, and an accessor for every field.  *)
parseRecord(name, fields) == [kind |-> "record", name |-> name, fields |-> fields]

(* Mutant: an accessor is registered under the name of its field alone. *)
emitRecordUnqualified(n) ==
  Emits(<<n.name, Pred(n.name)>>,
        <<n.name, Pred(n.name)>> \o Each(LAMBDA f : <<f.name>>, n.fields))

emitRecord(n) ==
  Emits(<<n.name, Pred(n.name)>>,
        <<n.name, Pred(n.name)>> \o Each(LAMBDA f : n.name \o <<".", f.name>>, n.fields))

(* An enum: a predicate only, its values are strings.                      *)
parseEnum(name) == [kind |-> "enum", name |-> name]
emitEnum(n)     == Emits(<<Pred(n.name)>>, <<Pred(n.name)>>)

(* A function or predicate; paths are the placeholders of an interpolation.*)
parseFn(keyword, name, sig, body) ==
  [kind |-> "fn", name |-> name, params |-> sig.params, returns |-> sig.returns, body |-> body,
   isPredicate |-> keyword = "defpredicate",
   paths |-> IF body.kind = "interpolate" THEN body.paths ELSE <<>>]
emitFn(n) == Emits(<<n.name>>, <<n.name>>)

(* An LLM function: the last user or bare clause is its prompt, the last   *)
(* system clause its system prompt.  A text is the sequence of its pieces, *)
(* words and the placeholder "{{}}".                                       *)
parseLlmFn(name, sig, clauses) ==
  [kind |-> "llmfn", name |-> name, params |-> sig.params, returns |-> sig.returns,
   user |-> LastOf(clauses, {"user", "bare"}, <<>>), system |-> LastOf(clauses, {"system"}, <<>>)]
emitLlmFn(n) == Emits(<<n.name>>, <<n.name>>)

(* A network: its inputs (from), its output (to) and its terms.  A coercion*)
(* (as) may also be given in the with clause, which then wins.             *)
Propagate(fn, as, from, to, with) ==
  [kind |-> "propagate", fn |-> fn, from |-> from, to |-> to,
   as |-> IF with # "none" THEN with ELSE as]
Switch(from, to) == [kind |-> "switch", from |-> from, to |-> to]
parseNetwork(name, from, to, terms) ==
  [kind |-> "network", name |-> name, from |-> from, to |-> to, terms |-> terms]
\* It is bound under its bare name, but registered under another.
emitNetwork(n) == Emits(<<n.name>>, <<<<"network", "/">> \o n.name>>)

(* A grammar: the name of its Ohm grammar (<<>> if that does not parse), a *)
(* signature if it has one, and of its rules the first and their names.    *)
parseGrammar(name, sig, syntax) ==
  [kind |-> "grammar", name |-> name, ohm |-> syntax.name, tag |-> syntax.start, rules |-> syntax.rules,
   signature |-> [i \in DOMAIN sig |-> sig[i].returns],
   params |-> IF sig = <<>> THEN <<>> ELSE sig[1].params]
emitGrammar(n) == LET key == <<<<"grammar", "/">> \o n.name>> IN Emits(key, key)

(* A text table: the last row and cell clauses count, headers add up.      *)
Header(field, text) == [field |-> field, text |-> text]
parseTTable(name, clauses) ==
  LET IsHeader(c) == c.clause = "header"
      ValueOf(c)  == c.value
  IN
  [kind |-> "ttable", name |-> name, row |-> LastOf(clauses, {"row"}, <<>>),
   cell |-> LastOf(clauses, {"cell"}, ""),
   headers |-> Each(ValueOf, SelectSeq(clauses, IsHeader))]
emitTTable(n) == LET key == <<<<"TTable", "/">> \o n.name>> IN Emits(key, key)

(* An extract: the root within, which alone has a grammar, and the nested  *)
(* statements.                                                             *)
Stmt(kind, record, as, leaf) == [kind |-> kind, record |-> record, as |-> as, leaf |-> leaf]
Within(target, body)         == [kind |-> "within", target |-> target, body |-> body]
parseExtract(name, target, grammar, body) ==
  [kind |-> "extract", name |-> name, root |-> [target |-> target, grammar |-> grammar, body |-> body]]
emitExtract(n) == LET key == <<<<"extract", "/">> \o n.name>> IN Emits(key, key)

(* Declarations that leave a comment in the artifact and nothing else.     *)
parseDerive(sub, sup) == [kind |-> "derive", name |-> sub \o <<" <: ">> \o sup]
emitDerive(n)         == Emits(<<>>, <<>>)
parseParameter(name, pred, value) ==
  [kind |-> "parameter", name |-> name, type |-> Scalar(pred), value |-> value]
emitParameter(n)      == Emits(<<>>, <<>>)

-----------------------------------------------------------------------------
\* What a block may denote.  No name has a dot in it; only those of functions
\* and networks have slashes.
IsSequence(s) == s \in Seq(Range(s))
IsName(name)  == IsSequence(name) /\ "." \notin Range(name)
IsDeclaration(n) ==
  /\ n.kind \in {"record", "enum", "fn", "llmfn", "network", "grammar", "ttable", "extract", "derive", "parameter"}
  /\ IsName(n.name)
  /\ n.kind \in {"record", "enum"} => "/" \notin Range(n.name)
  /\ n.kind = "record" => IsSequence(n.fields)
  /\ n.kind = "ttable" => IsSequence(n.headers)
  /\ n.kind = "network" =>
       /\ IsSequence(n.terms)
       /\ \A t \in Range(n.terms) : IsSequence(t.from) /\ (t.kind = "switch" => t.from # <<>>)

\* MODULES: the construct of a node.
emit(n) ==
  CASE n.kind = "record"    -> emitRecord(n)
    [] n.kind = "enum"      -> emitEnum(n)
    [] n.kind = "fn"        -> emitFn(n)
    [] n.kind = "llmfn"     -> emitLlmFn(n)
    [] n.kind = "network"   -> emitNetwork(n)
    [] n.kind = "grammar"   -> emitGrammar(n)
    [] n.kind = "ttable"    -> emitTTable(n)
    [] n.kind = "extract"   -> emitExtract(n)
    [] n.kind = "derive"    -> emitDerive(n)
    [] n.kind = "parameter" -> emitParameter(n)
=============================================================================
