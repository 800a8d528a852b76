----------------------------- MODULE Expressions -----------------------------
(***************************************************************************)
(* The bodies of functions: from tokens to a tree (language/expr/parse.ts) *)
(* and from the tree to JavaScript (language/expr/compile.ts).  What the   *)
(* operators compute is left to JavaScript: an expression denotes the term *)
(* it computes over the arguments, and the question is whether the compiled*)
(* one denotes the same.                                                   *)
(***************************************************************************)
EXTENDS Programs

Lit(v)            == [kind |-> "literal", value |-> v]
Var(n)            == [kind |-> "var", name |-> n]
Binary(op, l, r)  == [kind |-> "binary", op |-> op, left |-> l, right |-> r]
Unary(op, e)      == [kind |-> "unary", op |-> op, expr |-> e]
FieldOf(e, f)     == [kind |-> "field", object |-> e, field |-> f]
Call(f, args)     == [kind |-> "call", fn |-> f, args |-> args]
MatchOn(e, arms)  == [kind |-> "match", subject |-> e, arms |-> arms]
Arm(pat, guard, body) == [pattern |-> pat, guard |-> guard, body |-> body]  \* the first two optional
Interpolate(paths) == [kind |-> "interpolate", paths |-> paths]        \* of a template
Roots(e)           == {path[1] : path \in Range(e.paths)}
LetIn(bindings, body) == [kind |-> "let", bindings |-> bindings, body |-> body]

-----------------------------------------------------------------------------
(* The grammar.  A token is an operator or keyword, a name, or a literal.  *)
T(s)       == [tok |-> s]
Name(n)    == [tok |-> "name", name |-> n]
Literal(v) == [tok |-> "literal", value |-> v]
At(ts, s)  == ts # <<>> /\ Head(ts).tok = s

Levels == <<{"||"}, {"&&"}, {"==", "!=", "<=", ">=", "<", ">"}, {"+", "-"}, {"*", "/"}>>
Prefix == {"!", "-"}

Fail         == [ok |-> FALSE]
Ok(node, ts) == [ok |-> TRUE, node |-> node, rest |-> ts]
\* The parse goes on behind r, which the given token has to follow.
Then(r, s, p(_, _)) == IF r.ok /\ At(r.rest, s) THEN p(r.node, Tail(r.rest)) ELSE Fail

foldBinary(op, left, right) == Binary(op, left, right)

RECURSIVE Exp(_, _), More(_, _, _), UnaryExp(_), Fields(_), Primary(_), ListOf(_, _), Arms(_, _),
          FieldBindings(_, _)
Exp(k, ts) ==
  LET first == Exp(k + 1, ts) IN
  IF k > Len(Levels) THEN UnaryExp(ts) ELSE IF first.ok THEN More(k, first.node, first.rest) ELSE Fail

More(k, left, ts) ==
  LET right == Exp(k + 1, Tail(ts)) IN
  IF ts # <<>> /\ Head(ts).tok \in Levels[k] /\ right.ok
  THEN More(k, foldBinary(Head(ts).tok, left, right.node), right.rest) ELSE Ok(left, ts)

UnaryExp(ts) ==
  LET r == UnaryExp(Tail(ts)) IN
  IF ts = <<>> \/ Head(ts).tok \notin Prefix THEN Fields(Primary(ts))
  ELSE IF r.ok THEN Ok(Unary(Head(ts).tok, r.node), r.rest) ELSE Fail

Fields(r) ==
  IF r.ok /\ At(r.rest, ".") /\ At(Tail(r.rest), "name")
  THEN Fields(Ok(FieldOf(r.node, r.rest[2].name), SubSeq(r.rest, 3, Len(r.rest)))) ELSE r

\* The rest of a list, up to and with its closing bracket.
ListOf(acc, ts) ==
  LET r    == Exp(1, ts)
      args == Append(acc, r.node)
  IN IF acc = <<>> /\ At(ts, ")") THEN Ok(<<>>, Tail(ts))
     ELSE IF ~r.ok THEN Fail
     ELSE IF At(r.rest, ",") THEN ListOf(args, Tail(r.rest))
     ELSE IF At(r.rest, ")") THEN Ok(args, Tail(r.rest)) ELSE Fail

FieldBindings(acc, ts) ==
  LET more == Append(acc, [field |-> ts[1].name, as |-> ts[3].name])
      rest == SubSeq(ts, 4, Len(ts))
  IN IF acc = <<>> /\ At(ts, "}") THEN Ok(<<>>, Tail(ts))
     ELSE IF Len(ts) < 4 \/ [i \in 1..3 |-> ts[i].tok] # <<"name", ":", "name">> THEN Fail
     ELSE IF At(rest, ",") THEN FieldBindings(more, Tail(rest))
     ELSE IF At(rest, "}") THEN Ok(more, Tail(rest)) ELSE Fail

Pattern(ts) ==
  LET r == FieldBindings(<<>>, SubSeq(ts, 3, Len(ts))) IN
  IF ~At(ts, "name") THEN Fail
  ELSE IF At(Tail(ts), "{") /\ r.ok THEN Ok(<<[record |-> ts[1].name, bindings |-> r.node]>>, r.rest)
  ELSE Ok(<<>>, Tail(ts))

Guard(ts) ==
  LET r == Exp(1, Tail(ts)) IN
  IF At(ts, "when") /\ r.ok THEN Ok(<<r.node>>, r.rest) ELSE Ok(<<>>, ts)

Arms(acc, ts) ==
  LET pat   == Pattern(Tail(ts))
      guard == Guard(pat.rest)
      body  == Exp(1, Tail(guard.rest))
  IN IF At(ts, "|") /\ pat.ok /\ guard.ok /\ At(guard.rest, "->") /\ body.ok
     THEN Arms(Append(acc, Arm(pat.node, guard.node, body.node)), body.rest)
     ELSE IF acc # <<>> /\ At(ts, "end") THEN Ok(acc, Tail(ts)) ELSE Fail

Primary(ts) ==
  LET call  == ListOf(<<>>, SubSeq(ts, 3, Len(ts)))
      of    == Exp(1, Tail(ts))
      arms  == Arms(<<>>, of.rest)
  IN CASE At(ts, "(")       -> Then(of, ")", Ok)
       [] At(ts, "match")   -> IF of.ok /\ arms.ok THEN Ok(MatchOn(of.node, arms.node), arms.rest) ELSE Fail
       [] At(ts, "literal") -> Ok(Lit(ts[1].value), Tail(ts))
       [] At(ts, "name")    -> IF At(Tail(ts), "(") /\ call.ok THEN Ok(Call(ts[1].name, call.node), call.rest)
                               ELSE Ok(Var(ts[1].name), Tail(ts))
       [] OTHER             -> Fail

RECURSIVE ExprBody(_, _)
ExprBody(bindings, ts) ==
  LET value == Exp(1, SubSeq(ts, 4, Len(ts)))
      body  == Exp(1, ts)
  IN IF At(ts, "let")
     THEN IF ~At(Tail(ts), "name") \/ ~At(Tail(Tail(ts)), "=") THEN Fail
          ELSE Then(value, ";", LAMBDA v, rest :
                 ExprBody(Append(bindings, [name |-> ts[2].name, value |-> v]), rest))
     ELSE Then(body, ";", LAMBDA e, rest :
            IF rest # <<>> THEN Fail ELSE Ok(IF bindings = <<>> THEN e ELSE LetIn(bindings, e), rest))

parseExpression(ts) == ExprBody(<<>>, ts)

-----------------------------------------------------------------------------
(* The compiler.  In JavaScript a let is a function that is called at once *)
(* with one const in it, and a match one with the const __v for its subject*)
(* and a block of consts for every arm.  The guard of a wildcard, and what *)
(* an if has behind its third argument, is left out.                       *)
Subject == <<"__v">>
Conditional(args) == [kind |-> "?:", args |-> args]
Block(name, value, body) == [kind |-> "block", name |-> name, value |-> value, body |-> body]

(* Mutant: the bindings of a let are nested in the reverse order. *)
compileLetReversed(bindings, body) ==
  FoldLeft(LAMBDA acc, b : Block(mangle(b.name), b.value, acc), body, bindings)

\* The first binding is the outermost.
compileLet(bindings, body) ==
  FoldRight(LAMBDA b, acc : Block(mangle(b.name), b.value, acc), bindings, body)

RECURSIVE compileExpr(_)
compileExpr(e) ==
  CASE e.kind = "var"    -> Var(mangle(e.name))
    [] e.kind = "binary" -> Binary(CASE e.op = "==" -> "===" [] e.op = "!=" -> "!==" [] OTHER -> e.op,
                                   compileExpr(e.left), compileExpr(e.right))
    [] e.kind = "unary"  -> Unary(e.op, compileExpr(e.expr))
    [] e.kind = "field"  -> FieldOf(compileExpr(e.object), e.field)
    [] e.kind = "call"   -> IF e.fn = <<"if">> THEN Conditional(Each(compileExpr, SubSeq(e.args, 1, 3)))
                            ELSE Call(mangle(e.fn), Each(compileExpr, e.args))
    [] e.kind = "match"  ->
         Block(Subject, compileExpr(e.subject),
               [kind |-> "arms", arms |-> Each(LAMBDA a :
                  [record |-> Each(LAMBDA p : p.record, a.pattern),
                   consts |-> IF a.pattern = <<>> THEN <<>>
                              ELSE Each(LAMBDA b : [name |-> mangle(b.as), field |-> b.field],
                                        a.pattern[1].bindings),
                   guard  |-> IF a.pattern = <<>> THEN <<>> ELSE Each(compileExpr, a.guard),
                   body   |-> compileExpr(a.body)], e.arms)])
    [] e.kind = "let"    -> compileLet(Each(LAMBDA b : [b EXCEPT !.value = compileExpr(@)], e.bindings),
                                       compileExpr(e.body))
    [] e.kind = "interpolate" -> [kind |-> "interp", args |-> [r \in Roots(e) |-> Var(mangle(r))]]
    [] OTHER             -> e

-----------------------------------------------------------------------------
(* The term a JavaScript expression denotes: an identifier is the innermost*)
(* const or parameter of its name, or else one of the module's; a const    *)
(* that is not initialised yet cannot be read.                             *)
Uninitialised == [kind |-> "ReferenceError"]
Module(n)     == [kind |-> "module", name |-> n]
Lookup(scope, n) == IF n \in DOMAIN scope THEN scope[n] ELSE Module(n)

RECURSIVE Run(_, _)
Run(j, scope) ==
  LET Consts(consts) ==
        FoldLeft(LAMBDA s, c : (c.name :> FieldOf(s[Subject], c.field)) @@ s,
                 [n \in {c.name : c \in Range(consts)} |-> Uninitialised] @@ scope, consts)
  IN CASE j.kind = "var"    -> Lookup(scope, j.name)
       [] j.kind = "binary" -> Binary(j.op, Run(j.left, scope), Run(j.right, scope))
       [] j.kind = "unary"  -> Unary(j.op, Run(j.expr, scope))
       [] j.kind = "field"  -> FieldOf(Run(j.object, scope), j.field)
       [] j.kind = "?:"     -> Conditional(Each(LAMBDA a : Run(a, scope), j.args))
       [] j.kind = "call"   -> Call(Lookup(scope, j.fn), Each(LAMBDA a : Run(a, scope), j.args))
       [] j.kind = "block"  -> Run(j.body, (j.name :> Run(j.value, (j.name :> Uninitialised) @@ scope)) @@ scope)
       [] j.kind = "arms"   -> [kind |-> "match", on |-> scope[Subject],
                                arms |-> Each(LAMBDA a : [record |-> a.record,
                                  guard |-> Each(LAMBDA g : Run(g, Consts(a.consts)), a.guard),
                                  body  |-> Run(a.body, Consts(a.consts))], j.arms)]
       [] j.kind = "interp" -> [j EXCEPT !.args = [r \in DOMAIN @ |-> Run(@[r], scope)]]
       [] OTHER             -> j

(* The term the source means: names are what they are, a function is always*)
(* one of the module, a let sees the names before it, and an arm the fields*)
(* it binds.                                                               *)
RECURSIVE Meaning(_, _)
Meaning(e, scope) ==
  LET Sees(a, on) == IF a.pattern = <<>> THEN scope
                     ELSE FoldLeft(LAMBDA s, b : (b.as :> FieldOf(on, b.field)) @@ s, scope,
                                   a.pattern[1].bindings)
  IN CASE e.kind = "var"    -> IF e.name \in DOMAIN scope THEN scope[e.name] ELSE Module(mangle(e.name))
       [] e.kind = "binary" -> Binary(CASE e.op = "==" -> "===" [] e.op = "!=" -> "!==" [] OTHER -> e.op,
                                      Meaning(e.left, scope), Meaning(e.right, scope))
       [] e.kind = "unary"  -> Unary(e.op, Meaning(e.expr, scope))
       [] e.kind = "field"  -> FieldOf(Meaning(e.object, scope), e.field)
       [] e.kind = "call"   ->
            LET args == Each(LAMBDA a : Meaning(a, scope), e.args) IN
            IF e.fn = <<"if">> THEN Conditional(SubSeq(args, 1, 3)) ELSE Call(Module(mangle(e.fn)), args)
       [] e.kind = "match"  ->
            LET on == Meaning(e.subject, scope) IN
            [kind |-> "match", on |-> on,
             arms |-> Each(LAMBDA a :
               [record |-> Each(LAMBDA p : p.record, a.pattern),
                guard  |-> Each(LAMBDA g : Meaning(g, Sees(a, on)), a.guard),
                body   |-> Meaning(a.body, Sees(a, on))], e.arms)]
       [] e.kind = "let"    ->
            Meaning(e.body, FoldLeft(LAMBDA s, b : (b.name :> Meaning(b.value, s)) @@ s, scope, e.bindings))
       [] e.kind = "interpolate" -> [kind |-> "interp", args |-> [r \in Roots(e) |-> Meaning(Var(r), scope)]]
       [] OTHER             -> e

-----------------------------------------------------------------------------
(* The tokens of a tree with no more parentheses than the precedence that  *)
(* parse.ts documents asks for.                                            *)
Binding(e) == CASE e.kind = "binary" -> CHOOSE k \in DOMAIN Levels : e.op \in Levels[k]
                [] e.kind = "unary" -> 6 [] OTHER -> 7

RECURSIVE Tokens(_, _)
Tokens(k, e) ==
  LET Comma(f(_), seq) == Flat(LAMBDA i : (IF i = 1 THEN <<>> ELSE <<T(",")>>) \o f(seq[i]), [i \in DOMAIN seq |-> i])
      Case(a) == <<T("|")>>
                 \o (IF a.pattern = <<>> THEN <<Name(<<"other">>)>>
                     ELSE <<Name(a.pattern[1].record), T("{")>>
                          \o Comma(LAMBDA b : <<Name(b.field), T(":"), Name(b.as)>>, a.pattern[1].bindings)
                          \o <<T("}")>>)
                 \o Flat(LAMBDA g : <<T("when")>> \o Tokens(1, g), a.guard)
                 \o <<T("->")>> \o Tokens(1, a.body)
  IN IF Binding(e) < k THEN <<T("(")>> \o Tokens(1, e) \o <<T(")")>> ELSE
     CASE e.kind = "literal" -> <<Literal(e.value)>>
       [] e.kind = "var"    -> <<Name(e.name)>>
       [] e.kind = "binary" -> Tokens(Binding(e), e.left) \o <<T(e.op)>> \o Tokens(Binding(e) + 1, e.right)
       [] e.kind = "unary"  -> <<T(e.op)>> \o Tokens(6, e.expr)
       [] e.kind = "field"  -> Tokens(7, e.object) \o <<T("."), Name(e.field)>>
       [] e.kind = "call"   -> <<Name(e.fn), T("(")>> \o Comma(LAMBDA a : Tokens(1, a), e.args) \o <<T(")")>>
       [] e.kind = "match"  -> <<T("match")>> \o Tokens(1, e.subject) \o Flat(Case, e.arms) \o <<T("end")>>
       [] e.kind = "let"    -> Flat(LAMBDA b : <<T("let"), Name(b.name), T("=")>> \o Tokens(1, b.value)
                                               \o <<T(";")>>, e.bindings) \o Tokens(1, e.body)

\* The names an expression binds, those it uses, and those it calls.
RECURSIVE Names(_)
Names(e) ==
  LET Union(fs) == [binds |-> UNION {f.binds : f \in fs}, uses |-> UNION {f.uses : f \in fs},
                    calls |-> UNION {f.calls : f \in fs},
                    self |-> \E f \in fs : f.self]     \* whether a const hides what it is made of
      Of(seq)   == {Names(x) : x \in Range(seq)}
      none      == [binds |-> {}, uses |-> {}, calls |-> {}, self |-> FALSE]
      CaseOf(a) == {[none EXCEPT !.binds = {b.as : b \in Range(p.bindings)},
                                 !.self = Cardinality({b.as : b \in Range(p.bindings)}) # Len(p.bindings)]
                    : p \in Range(a.pattern)}
                   \cup {[none EXCEPT !.self = a.pattern = <<>> /\ a.guard # <<>>]}
                   \cup Of(a.guard) \cup {Names(a.body)}
  IN CASE e.kind = "literal" -> none
       [] e.kind = "var"    -> [none EXCEPT !.uses = {e.name}]
       [] e.kind = "binary" -> Union({Names(e.left), Names(e.right)})
       [] e.kind = "unary"  -> Names(e.expr)
       [] e.kind = "field"  -> Names(e.object)
       [] e.kind = "call"   -> Union({[none EXCEPT !.calls = {e.fn}]} \cup Of(e.args))
       [] e.kind = "match"  -> Union({Names(e.subject)} \cup UNION {CaseOf(a) : a \in Range(e.arms)})
       [] e.kind = "interpolate" -> [none EXCEPT !.uses = Roots(e)]
       [] e.kind = "let"    ->
            Union({Names(e.body)} \cup {[none EXCEPT !.binds = {b.name}, !.self = b.name \in Names(b.value).uses]
                                        : b \in Range(e.bindings)}
                                 \cup {Names(b.value) : b \in Range(e.bindings)})

(* An expression is read with the precedence the parser documents, and its *)
(* JavaScript denotes the term it means - unless two of its names are one  *)
(* when mangled, one is __v, a local name is also called as a function, a  *)
(* let uses its own name, a pattern binds a name twice, a wildcard has a   *)
(* guard, which the compiler drops, or an if lacks an argument, so that    *)
(* nothing is compiled. (expr/parse.ts:6-8, compile.ts:11-102)             *)
MeansWhatItSays(f) ==
  LET names  == Names(f.body)
      params == {p.name : p \in Range(f.params)}
      all    == params \cup names.binds \cup names.uses \cup names.calls
      plain  == /\ \A n, m \in all : mangle(n) = mangle(m) => n = m
                /\ Subject \notin all /\ ~names.self
                /\ names.calls \cap (params \cup names.binds) = {} /\ Compiles(f.body)
      arg    == [n \in params |-> [kind |-> "argument", name |-> n]]
      passed == [m \in {mangle(n) : n \in params} |-> arg[CHOOSE n \in params : mangle(n) = m]]
  IN /\ f.body.kind # "interpolate" =>
          parseExpression(Append(Tokens(1, f.body), T(";"))) = Ok(f.body, <<>>)
     /\ plain => Run(compileExpr(f.body), passed) = Meaning(f.body, arg)
=============================================================================
