------------------------------ MODULE Programs ------------------------------
(***************************************************************************)
(* From declarations to a loaded artifact: merging under conflict = error, *)
(* emission with the prelude and the native functions, and loading         *)
(* (language/pipeline, language/runtime/load.ts).                          *)
(***************************************************************************)
EXTENDS Constructs

CONSTANTS Prelude,      \* the functions of the standard library, as nodes
          Builtin,      \* the names of the native functions
          ReservedWord  \* RESERVED_JS_WORDS

Primitive == {<<"String", "?">>, <<"Number", "?">>, <<"Boolean", "?">>}

OfKind(nodes, kind) == Kept(nodes, {n \in Range(nodes) : n.kind = kind})
Named(nodes, kind, name) == {i \in DOMAIN nodes : nodes[i].kind = kind /\ nodes[i].name = name}
Declares(nodes, kind, name) == Named(nodes, kind, name) # {}
\* Of two of one name, a search finds the first, a map has the latest.
The(nodes, kind, name)    == nodes[Min(Named(nodes, kind, name))]
Latest(nodes, kind, name) == nodes[Max(Named(nodes, kind, name))]

-----------------------------------------------------------------------------
\* A map that has a value under a key, whatever it had there.
Registering(registry, key, value) ==
  [k \in DOMAIN registry \cup {key} |-> IF k = key THEN value ELSE registry[k]]

registryKey(n) ==
  CASE n.kind = "grammar"   -> <<"grammar", "/">> \o n.name
    [] n.kind = "extract"   -> <<"extract", "/">> \o n.name
    [] n.kind = "ttable"    -> <<"TTable", "/">> \o n.name
    [] n.kind = "parameter" -> <<"parameter", "/">> \o n.name
    [] OTHER                -> n.name

Merge(r, n) ==
  LET key == registryKey(n) IN
  IF ~r.ok THEN r
  ELSE IF key \in DOMAIN r.nodes /\ r.nodes[key] # n THEN [r EXCEPT !.ok = FALSE]
  ELSE [r EXCEPT !.nodes = Registering(@, key, n)]

combine(nodes) == FoldLeft(Merge, [ok |-> TRUE, nodes |-> <<>>], nodes)

-----------------------------------------------------------------------------
(* The names JavaScript cannot have become names it can: not one to one.   *)
mangle(name) ==
  LET mapped == [i \in DOMAIN name |-> CASE name[i] \in {"?", "/", "-"} -> "$"
                                         [] name[i] = "!" -> "_"
                                         [] OTHER -> name[i]]
  IN IF Len(mapped) = 1 /\ mapped[1] \in ReservedWord THEN Append(mapped, "_") ELSE mapped

(* Mutant: the functions of the prelude are emitted whatever is declared. *)
withWholePrelude(nodes) == Prelude \o nodes

\* A declaration of any kind takes the name of a prelude function away.
withPrelude(nodes) ==
  LET taken == {nodes[i].name : i \in DOMAIN nodes}
  IN Kept(Prelude, {n \in Range(Prelude) : n.name \notin taken}) \o nodes

emitBuiltins(declared) ==
  LET mangled == Each(mangle, Builtin) IN Kept(mangled, Range(mangled) \ declared)

-----------------------------------------------------------------------------
(* The expressions a body is compiled from, with those inside of them: of  *)
(* an if the first three arguments, of a wildcard arm not the guard.       *)
Compiled(e) ==
  CASE e.kind = "binary" -> {e.left, e.right}
    [] e.kind = "unary"  -> {e.expr}
    [] e.kind = "field"  -> {e.object}
    [] e.kind = "call"   -> {e.args[i] : i \in {j \in DOMAIN e.args : e.fn = <<"if">> => j <= 3}}
    [] e.kind = "match"  -> {e.subject} \cup {a.body : a \in Range(e.arms)}
                            \cup UNION {Range(a.guard) : a \in {b \in Range(e.arms) : b.pattern # <<>>}}
    [] e.kind = "let"    -> {e.body} \cup {b.value : b \in Range(e.bindings)}
    [] OTHER             -> {}

Subexpressions(body) ==
  FoldLeft(LAMBDA found, i : found \cup UNION {Compiled(e) : e \in found}, {body}, Depths)

\* An if is compiled to a conditional of three expressions: one that has fewer
\* arguments makes the compiler throw.
Compiles(body) == \A e \in Subexpressions(body) : e.kind = "call" /\ e.fn = <<"if">> => Len(e.args) >= 3

\* The consts of an arm are in one block: none may be there twice.
DistinctBinders(e) ==
  \A a \in Range(e.arms) : \A p \in Range(a.pattern) : IsInjective(Each(LAMBDA b : mangle(b.as), p.bindings))

\* The part of a placeholder before the first dot is the key of an object; it
\* may be nothing, or begin with a digit, "0", and then has to be a number.
IsKey(root) == root # <<>> /\ (root[1] = "0" => Len(root) = 1)

\* Whether the arrow function of n can be parsed: an arrow function has no
\* parameter twice.
IsJavaScript(n) ==
  /\ IsInjective(Each(LAMBDA p : mangle(p.name), n.params))
  /\ \A e \in Subexpressions(n.body) : e.kind = "match" => DistinctBinders(e)
  /\ \A path \in Range(n.paths) : IsKey(path[1])

-----------------------------------------------------------------------------
Helper == <<<<"rt">>, <<"__reg">>, <<"__interp">>, <<"__manifest">>>>

\* The prelude is functions with plain names that can be emitted and parsed, and
\* what an artifact binds beside the declarations of a program it binds once.
IsPrelude(n) ==
  n.kind = "fn" /\ IsName(n.name) /\ "/" \notin Range(n.name) /\ Compiles(n.body) /\ IsJavaScript(n)
ASSUME PreludeAssumption ==
  /\ IsSequence(Prelude) /\ IsSequence(Builtin)
  /\ \A n \in Range(Prelude) : IsPrelude(n)
  /\ IsInjective(Helper \o Each(mangle, Builtin) \o Each(LAMBDA n : mangle(n.name), Prelude))

Marks == {"?", "!", "/", "-", ".", " <: "}
IsIdentifier(name) == Range(name) \cap Marks = {}

emitProgram(program) ==
  LET nodes    == withPrelude(program)
      declared == {mangle(nodes[i].name) : i \in DOMAIN nodes}
  IN [nodes    |-> nodes,
      consts   |-> Helper \o emitBuiltins(declared)
                   \o Flat(LAMBDA n : Each(mangle, emit(n).consts), nodes),
      networks |-> {n.name : n \in Range(OfKind(nodes, "network"))},
      values   |-> {n.name : n \in {m \in Range(nodes) : m.kind \in {"fn", "record"}
                                                         /\ IsIdentifier(m.name)}}]

emitJs(program) ==
  IF ~combine(program).ok THEN [ok |-> FALSE, why |-> "conflict"]
  ELSE IF \E n \in Range(withPrelude(program)) : n.kind = "fn" /\ ~Compiles(n.body)
  THEN [ok |-> FALSE, why |-> "compile error"]
  ELSE [ok |-> TRUE, code |-> emitProgram(program)]

-----------------------------------------------------------------------------
(* The schema of a type unfolds the records, and the parameters of the     *)
(* predicates, it is made of; one that is made of itself never ends.       *)
Unfolds(nodes, pred) ==
  LET base == stripPred(pred) IN
  IF pred \in Primitive THEN {}
  ELSE IF \E n \in Range(nodes) : n.kind = "fn" /\ n.isPredicate /\ n.name = pred /\ n.params # <<>>
  THEN {Latest(nodes, "fn", pred).params[1].pred}
  ELSE IF Declares(nodes, "enum", base) \/ ~Declares(nodes, "record", base) THEN {}
  ELSE {f.type.of : f \in Range(Latest(nodes, "record", base).fields)}

Reaches(nodes, preds) ==
  FoldLeft(LAMBDA seen, n : seen \cup UNION {Unfolds(nodes, p) : p \in seen}, preds, nodes)

SchemaEnds(nodes, pred) ==
  \A p \in Reaches(nodes, {pred}) : p \notin Reaches(nodes, Unfolds(nodes, p))

\* Whether the schema of a record, of every record, of an answer, is made.
deriveSchema(nodes, record) == \A f \in Range(record.fields) : SchemaEnds(nodes, f.type.of)
buildSchemas(nodes) == \A r \in Range(OfKind(nodes, "record")) : deriveSchema(nodes, r)
deriveProtocol(nodes, type) ==
  IF type.depth = 0 /\ Declares(nodes, "record", stripPred(type.of))
  THEN deriveSchema(nodes, Latest(nodes, "record", stripPred(type.of))) ELSE SchemaEnds(nodes, type.of)

\* The record a signed grammar, of one record or of many, binds.
boundRecordName(n) == stripPred(n.signature[1].of)

validateGrammarSyntax(n) == n.ohm # <<>> /\ n.ohm = n.name
validateGrammarSignature(n, nodes) ==
  n.signature = <<>> \/ Declares(nodes, "record", boundRecordName(n))

\* What may throw when the module is evaluated: the parser of JavaScript, which
\* reads the whole of it, and the compilers of the runtime.
Builds(nodes, n) ==
  CASE n.kind = "fn"      -> IsJavaScript(n)
    [] n.kind = "grammar" -> validateGrammarSyntax(n) /\ validateGrammarSignature(n, nodes)
    [] n.kind = "llmfn"   -> deriveProtocol(nodes, n.returns)
    [] OTHER              -> TRUE

(* Loading: the module is parsed, with no constant twice in it, then every *)
(* leaf is built and registered, the later over the earlier; "true?" is    *)
(* there from the start.                                                   *)
loadProgram(code) ==
  LET all == Flat(LAMBDA n : Each(LAMBDA key : <<key, n>>, emit(n).keys), code.nodes)
  IN IF ~IsInjective(code.consts) \/ \E n \in Range(code.nodes) : ~Builds(code.nodes, n)
     THEN [ok |-> FALSE]
     ELSE [ok |-> TRUE, networks |-> code.networks, values |-> code.values,
           leaves |-> FoldLeft(LAMBDA reg, e : Registering(reg, e[1], e[2]),
                               [key \in {<<"true", "?">>} |-> [kind |-> "native"]], all)]

-----------------------------------------------------------------------------
(* A program is an unordered bag: whether it merges and is emitted, and    *)
(* what the artifact has under each name, does not depend on the order -   *)
(* with one exception: a network is merged under its bare name but         *)
(* registered under network/X, so that a function of that very name is no  *)
(* conflict, and the later of the two is called.  (combine.ts:5-23,        *)
(* defnetwork/emit.ts:22-28)                                               *)
Hides(nodes) ==
  \E n \in Range(OfKind(nodes, "network")), m \in Range(nodes) : registryKey(m) = <<"network", "/">> \o n.name

\* Two neighbours change places; any order comes of such changes.
Rearranged(nodes) ==
  {[nodes EXCEPT ![i] = nodes[i + 1], ![i + 1] = nodes[i]] : i \in 1..(Len(nodes) - 1)}

SameArtifact(one, two, hides) == one.ok = two.ok /\ (one.ok /\ ~hides => one.leaves = two.leaves)

OrderIndependent(nodes) ==
  \A other \in Rearranged(nodes) :
    LET one == emitJs(nodes)
        two == emitJs(other)
    IN /\ combine(other).ok = combine(nodes).ok /\ two.ok = one.ok
       /\ one.ok => SameArtifact(loadProgram(one.code), loadProgram(two.code), Hides(nodes))

(* A program that merges is emitted, unless an if lacks an argument.  The  *)
(* artifact loads, unless one of its declarations cannot be built - a      *)
(* grammar, the schema of an answer, a function with two parameters, or an *)
(* arm with two bindings, that are one when mangled, a placeholder that is *)
(* no key - or JavaScript would have two constants of one name: a          *)
(* declaration that binds one is repeated (the "harmless idempotent        *)
(* merge"), a predicate Foo? stands beside a record or enum Foo, two names *)
(* are one when mangled, or one is a helper of the emitted module.  And    *)
(* then every prelude function can be called, unless a declaration has its *)
(* name. (combine.ts:7-9, emit.ts:42-49, prelude.ts:30-36, builtins.ts:    *)
(* 45-52, compile.ts:50-72, defn/emit.ts:16-21, load.ts:51)                *)
BoundNames(nodes) == Flat(LAMBDA n : Each(mangle, emit(n).consts), nodes)

\* What of the prelude and the native functions nothing takes the name of,
Free(nodes)   == {p \in Range(Prelude) : p.name \notin {n.name : n \in nodes}}
Spared(nodes) == {b \in Range(Builtin) : mangle(b) \notin {mangle(n.name) : n \in nodes}}
\* and so is bound in the artifact beside the declarations.
Beside(free, spared) ==
  Range(Helper) \cup {mangle(n.name) : n \in free} \cup {mangle(b) : b \in spared}

LoadsAsDeclared(r, nodes, free) ==
  /\ \A n \in free : r.leaves[n.name] = n
  /\ \A n \in Range(nodes) : n.kind \in {"fn", "record", "llmfn"} /\ ~Hides(nodes) => r.leaves[n.name] = n

LoadsWhenEmitted(nodes, r) ==
  /\ r.ok <=> /\ \A n \in Range(nodes) : Builds(withPrelude(nodes), n)
              /\ IsInjective(BoundNames(nodes))
              /\ Range(BoundNames(nodes)) \cap Beside(Free(Range(nodes)), Spared(Range(nodes))) = {}
  /\ r.ok => LoadsAsDeclared(r, nodes, Free(Range(nodes)))

LoadsWhenAccepted(nodes, made) ==
  /\ made.ok <=> combine(nodes).ok /\ \A n \in Range(OfKind(nodes, "fn")) : Compiles(n.body)
  /\ made.ok => LoadsWhenEmitted(nodes, loadProgram(made.code))
=============================================================================
