----------------------------- MODULE MCOperations -----------------------------
(***************************************************************************)
(* The clients of the operations: one writes lines of every kind, one      *)
(* declarations that meet under one name or cannot be emitted or parsed,   *)
(* one networks of three terms, one tables and extracts, one expressions;  *)
(* one compiles and runs, two call the operations that look at a source,   *)
(* one seeds cells from documents, and one converts documents.             *)
(***************************************************************************)
EXTENDS Language

W(x) == <<x>>
Number == Scalar(<<"Number", "?">>)
String == Scalar(<<"String", "?">>)

Fn(name, params, returns, body) == parseFn("defn", name, FnSignature(params, returns), body)
One(name)        == Fn(name, <<TypedParam(Number.of, W("n"))>>, Number, Lit([num |-> 1]))
Predicate(name)  == parseFn("defpredicate", name, FnSignature(<<TypedParam(Number.of, W("n"))>>, Boolean),
                            Lit([bool |-> TRUE]))
OhmOf(name, rules) == [name |-> name, start |-> name[1], rules |-> rules]
Grammar(name, returns, rules) ==
  parseGrammar(name, <<FnSignature(<<TypedParam(String.of, W("s"))>>, returns)>>, OhmOf(name, rules))
Of(name) == Scalar(Pred(name))
Line(n) == Decl("defn", n)

MCPrelude == <<One(W("max")), One(W("min"))>>
MCBuiltin == <<<<"math", "/", "max">>>>

Client(start, lines, size) ==
  [start |-> start, lines |-> lines, size |-> Len(start) + size, calls |-> {}, names |-> {}, cells |-> {},
   texts |-> {}]

-----------------------------------------------------------------------------
F == One(W("f"))
Reader ==
  Client(<<>>, {Line(F), Code(<<>>), Code(<<"word">>), Code(<<Blob>>), Code(<<"word", Blob, "word">>),
                Code(<<Quote>>), Code(<<Comment, Blob>>), Code(<<"word", Comment, "word">>),
                Code(<<"junk">>), [toks |-> <<"defn", Quote, "body", Quote, Comment, "defn">>, node |-> <<F>>]},
         4)

-----------------------------------------------------------------------------
Twice(name, one, two) == Fn(name, <<TypedParam(Number.of, one), TypedParam(Number.of, two)>>, Number, Lit([num |-> 1]))
If(args) == Fn(W("f"), <<>>, Number, Unary("-", Call(W("if"), args)))
Net  == parseNetwork(W("net"), <<"a">>, "b", <<Propagate(W("max"), "none", <<"a">>, "b", "none")>>)
Node == parseRecord(W("Node"), <<FieldDecl("next", Of(W("Node")))>>)
Foo  == parseRecord(W("Foo"), <<FieldDecl("x", Number)>>)
Clause(c, v) == [clause |-> c, value |-> v]
LlmFn(name, clauses) == parseLlmFn(name, FnSignature(<<>>, Of(W("Node"))), clauses)
Ask  == LlmFn(W("ask"), <<Clause("bare", <<"words">>)>>)
Bag ==
  {Foo, parseRecord(W("Foo"), <<FieldDecl("y", Number)>>),
   parseRecord(W("Bar"), <<FieldDecl("x", String)>>), Node, Ask, Net,
   parseEnum(W("Foo")), Predicate(<<"Foo", "?">>),
   One(W("max")), parseParameter(W("min"), Number.of, <<>>), One(<<"network", "/", "net">>),
   One(<<"a", "-", "b">>), One(<<"a", "/", "b">>), One(W("class")), One(W("rt")),
   Twice(<<"a", "-", "b">>, <<"x", "?">>, <<"x", "-">>), If(<<Lit([num |-> 1]), Lit([num |-> 2])>>),
   One(<<"math", "/", "max">>), Grammar(W("Foo"), Of(W("Foo")), {}), Grammar(W("Bar"), Of(W("Bar")), {})}
Collector == Client(<<>>, {Line(n) : n \in Bag}, 3)

-----------------------------------------------------------------------------
Types == <<Fn(W("half"), <<TypedParam(Number.of, W("n"))>>, Number, Lit([num |-> 1])),
           Fn(W("len"), <<TypedParam(String.of, W("s"))>>, Number, Lit([num |-> 1])),
           Fn(W("isBig"), <<TypedParam(Number.of, W("n"))>>, Boolean, Lit([bool |-> TRUE]))>>
P(f, x, y, as) == Propagate(W(f), as, <<x>>, y, "none")
S(x, y, z)     == Switch(<<x, y>>, z)
Terms ==
  {P(f, x, y, "none") : f \in {"half", "len", "isBig"}, x \in {"a", "b"}, y \in {"b", "c"}}
  \cup {P("isBig", "b", "c", "filtering"), P("isBig", "b", "c", "mapping")}
  \cup {S(x, y, z) : x \in {"a", "c"}, y \in {"a", "b", "c"}, z \in {"b", "c"}}
Typer ==
  Client(Each(Line, Types),
         {Line(parseNetwork(W("net"), <<"a">>, "c", terms)) : terms \in SeqOf(Terms, 3)}, 1)

-----------------------------------------------------------------------------
\* A document of orders, each with its lines; the tag Row is a record's, row
\* a line of a table.
Order == parseRecord(W("Order"), <<FieldDecl("lines", Vector(Of(W("Entry")))), FieldDecl("body", String)>>)
Entry == parseRecord(W("Entry"), <<FieldDecl("sku", String), FieldDecl("qty", String)>>)
Book  == parseRecord(W("Book"), <<FieldDecl("orders", Vector(Of(W("Order")))), FieldDecl("title", String)>>)
ScanAs(rec, as, leaf)  == Stmt("scan", rec, as, leaf)
Extract(grammar, body) == parseExtract(W("all"), W("Book"), grammar, body)
GOrder == <<"grammar", "/", "Order">>
GEntry == <<"grammar", "/", "Entry">>
Rows   == <<"TTable", "/", "Rows">>
ScanOrders == ScanAs(W("Order"), "orders", GOrder)
ScanLines  == ScanAs(W("Entry"), "lines", GEntry)
Table(headers) == parseTTable(W("Rows"), <<Clause("row", W("Entry")), Clause("cell", "|")>>
                                         \o [i \in DOMAIN headers |-> Clause("header", headers[i])])

Extractor ==
  [Client(Each(Line, <<Order, Entry, Book, Grammar(W("Order"), Of(W("Order")), {}),
                       Grammar(W("Entry"), Vector(Of(W("Entry"))), {}),
                       Grammar(W("Book"), Of(W("Book")), {})>>),
          {Line(n) : n \in
             {Extract(<<"grammar", "/", "Book">>, body) : body \in
                {<<ScanOrders, Within("orders", <<ScanLines>>)>>,
                 <<ScanOrders>>, <<Within("orders", <<ScanLines>>)>>,
                 <<ScanOrders, Within("orders", <<ScanAs(W("Entry"), "lines", Rows), Within("lines", <<>>)>>)>>,
                 <<ScanOrders, Within("orders", <<ScanLines>>), ScanAs(W("Order"), "orders", Rows)>>,
                 <<ScanAs(W("Entry"), "orders", GEntry)>>}}
             \cup {Extract(<<"grammar", "/", "Entry">>, <<ScanOrders>>)}
             \cup {Table(h) : h \in {<<Header("sku", <<>>), Header("qty", <<>>)>>,
                                     <<Header("qty", <<"q">>), Header("sku", <<"s">>)>>,
                                     <<Header("qty", <<"q">>), Header("sku", <<"q">>)>>,
                                     <<Header("qty", <<"q">>), Header("sku", <<>>)>>,
                                     <<Header("qty", <<"q">>)>>}}
             \cup {Grammar(W("Item"), Vector(Of(W("Entry"))), {"Item"})}}, 2)
   EXCEPT !.calls = {"typecheck", "run-grammar", "run-ttable"},
          !.names = {W("Rows"), W("Item"), W("Entry"), W("Order")},
          !.texts = LET c(x) == Item(x, <<>>)
                        e(x) == Item("Entry", <<Item("sku", <<c(x)>>), Item("qty", <<>>)>>)
                        r(cells) == Item("row", Each(c, cells))
                    IN {<<>>, <<e("u")>>,
                        <<Item("Book", <<Item("Order", <<e("u"), e("v")>>), c("x"), Item("Order", <<>>),
                                         Item("Order", <<Item("body", <<e("w")>>)>>)>>)>>,
                        <<r(<<"s", "q", "">>), r(<<"1", "2">>), r(<<"3", "">>), r(<<"no">>), r(<<"4", "5", "">>)>>,
                        <<r(<<"s", "t">>), r(<<"1", "2">>)>>}]

-----------------------------------------------------------------------------
\* x, y?, y- and a record r; the expressions of two operators and of the forms.
X == Var(W("x"))
Leaf  == {X, Var(<<"y", "?">>), Lit([num |-> 1])}
Small == Leaf \cup {Binary(op, l, r) : op \in {"+", "*", "==", "&&"}, l \in Leaf, r \in Leaf}
              \cup {Unary(op, l) : op \in {"!", "-"}, l \in Leaf} \cup {FieldOf(X, "f"), Call(W("g"), <<X, X>>)}
Large == Small \cup {Binary(op, l, r) : op \in {"-", "*", "||", "<"}, l \in Small, r \in Small}
               \cup {Unary("!", s) : s \in Small} \cup {FieldOf(s, "f") : s \in Small}
               \cup {Call(W("if"), <<l, s, X>>) : l \in Leaf, s \in Small}
               \cup {Call(W("x"), <<X>>), Call(W("if"), <<X, X, X, X>>)}
Bind(n, v) == [name |-> n, value |-> v]
Binder == {W("x"), W("z"), <<"y", "-">>, W("__v")}
Forms ==
  {LetIn(<<Bind(n, v), Bind(m, w)>>, b) : n \in Binder, m \in {W("z"), <<"y", "?">>}, v \in Leaf,
     w \in Leaf \cup {Var(W("z"))}, b \in {Var(W("z")), Binary("+", X, Var(<<"y", "?">>))}}
  \cup {MatchOn(s, <<Arm(<<[record |-> W("Foo"), bindings |-> bs]>>, guard, b), Arm(<<>>, other, X)>>) :
          s \in {X, MatchOn(X, <<Arm(<<>>, <<>>, Var(W("__v")))>>)},
          bs \in {<<>>} \cup {<<[field |-> "f", as |-> n]>> : n \in Binder}
                 \cup {<<[field |-> "f", as |-> n], [field |-> "g", as |-> W("z")]>> : n \in Binder},
          guard \in {<<>>, <<Binary("<", X, Var(W("z")))>>}, other \in {<<>>, <<X>>},
          b \in {Var(W("z")), Var(<<"y", "?">>), MatchOn(Var(W("z")), <<Arm(<<>>, <<>>, X)>>)}}
  \cup {Interpolate(<<<<W("x")>>, <<W("z"), "f">>>>)}
Writer ==
  Client(<<>>, {Line(Fn(W("f"), <<TypedParam(Number.of, W("x")), TypedParam(Number.of, <<"y", "?">>)>>, Number, b)) :
                  b \in Large \cup Forms}, 1)

-----------------------------------------------------------------------------
Doc == {<<"a", ".pdf">>, <<"a", ".PDF">>, <<"l", ".pdf">>}
MCFiles == [n \in Doc \cup {<<"l", ".txt">>} |->
              CASE n = <<"l", ".txt">> -> [is |-> "link"]
                [] n = <<"a", ".pdf">> -> [is |-> "pdf", of |-> n, version |-> 1, length |-> 2]
                [] OTHER -> [is |-> "pdf", of |-> n, version |-> 2, length |-> 1]]
Seeds == {<<>>, <<<<>>>>,
          <<<<[is |-> "file", name |-> <<"a", ".pdf">>], [is |-> "value", uses |-> {W("f")}]>>>>,
          <<<<[is |-> "value", uses |-> {W("max")}], [is |-> "file", name |-> <<"a", ".txt">>]>>>>}
\* Templates over a record, prompts, and a field no constant can be named by.
Template(path) == Fn(W("tell"), <<TypedParam(Pred(W("Foo")), W("foo")), TypedParam(Number.of, W("n"))>>, String,
                     Interpolate(<<path>>))
Prompts ==
  {Template(<<W("n")>>), Template(<<W("foo"), "x">>), Template(<<W("foo"), "y">>), Template(<<W("n"), "x">>),
   Template(<<W("m")>>), Template(<<<<"0", "m">>>>),
   LlmFn(W("ask"), <<Clause("system", <<"words", "{{}}">>), Clause("user", <<"{{}}">>)>>),
   LlmFn(W("ask"), <<Clause("bare", <<"words">>), Clause("user", <<>>)>>),
   parseRecord(W("Bar"), <<FieldDecl("if", Number)>>)}
Others == Bag \cup {F, parseDerive(W("Foo"), W("Num"))}
Runner ==
  [Client(<<Line(Net)>>, {Line(m) : m \in Others}, 1)
   EXCEPT !.calls = {"compile-js", "run", "run-compiled"}, !.names = {W("net"), W("f")},
          !.cells = Seeds \cup {<<<<[is |-> "value", uses |-> {W("f")}], [is |-> "file", name |-> <<"..">>]>>>>}]
Looker(n) ==
  [Client(<<Line(n)>>, {Line(m) : m \in Others \cup Prompts}, 1)
   EXCEPT !.calls = {"parse", "check", "typecheck", "compile-schemas", "compile-js", "diagram"},
          !.names = {W("net"), W("f")}]
Reading ==
  [Client(<<Line(Net), Line(F)>>, {}, 0)
   EXCEPT !.calls = {"run", "lint"}, !.names = Doc \cup {W("net")}, !.cells = Seeds]
Converter == [Client(<<>>, {}, 0) EXCEPT !.calls = {"pdf-to-text"}, !.names = Doc \cup {<<"..">>, <<"b", ".pdf">>}]

Builder == Looker(Foo)
Looper  == Looker(Node)
MCClients ==
  [reader |-> Reader, collector |-> Collector, typer |-> Typer, extractor |-> Extractor, writer |-> Writer,
   runner |-> Runner, builder |-> Builder, looper |-> Looper, reading |-> Reading, converter |-> Converter]
=============================================================================
