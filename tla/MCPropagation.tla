---------------------------- MODULE MCPropagation ----------------------------
(***************************************************************************)
(* A recursive countdown over 0 .. Top.  The equation n = m + one is wired *)
(* in all three directions, so it also completes or refutes what a caller  *)
(* says of m; when n is zero a switch lets one through to out; otherwise   *)
(* the network calls itself on m.                                          *)
(***************************************************************************)
EXTENDS MonotonePropagation

CONSTANT Top    \* the largest number of the instance

ASSUME DomainAssumption /\ MonotoneAssumption

Num(i) == [num |-> i]

MCValue  == {Num(i) : i \in 0 .. Top}
MCField  == {}
MCCell   == {"n", "m", "one", "out"}
MCProp   == {"subtract", "add", "difference", "atZero", "again"}

MCKind ==
  [p \in MCProp |-> CASE p = "atZero" -> "switch"
                      [] p = "again"  -> "recursive"
                      [] OTHER        -> "function"]

MCFrom ==
  [p \in MCProp |-> CASE p = "subtract"   -> <<"n", "one">>
                      [] p = "add"        -> <<"m", "one">>
                      [] p = "difference" -> <<"n", "m">>
                      [] p = "atZero"     -> <<"n", "one">>
                      [] p = "again"      -> <<"m">>]

MCTo ==
  [p \in MCProp |-> CASE p = "subtract"   -> "m"
                      [] p = "add"        -> "n"
                      [] p = "difference" -> "one"
                      [] OTHER            -> "out"]

MCAs == [p \in MCProp |-> "none"]

(* A number outside the instance is unknown; so is anything computed from  *)
(* something that is not a number.                                         *)
Number(i) == IF i \in 0 .. Top THEN Num(i) ELSE Null

MCFn(p, t) ==
  IF \E i \in DOMAIN t : t[i] \notin MCValue THEN Null
  ELSE CASE p = "add"    -> Number(t[1].num + t[2].num)
         [] p = "atZero" -> Num(IF t[1].num = 0 THEN 1 ELSE 0)
         [] OTHER        -> Number(t[1].num - t[2].num)

MCTruthy    == MCValue \ {Num(0)}
MCSignature == <<"n">>
MCInitial   == [c \in MCCell |-> IF c = "one" THEN Something(Num(1)) ELSE Nothing]

Given(D) == [D -> {Something(v) : v \in MCValue}]

(* A caller knows n, or m, or both; it may also override the constant, or  *)
(* pass null for it, and then it is computed from n and m.                 *)
MCInputs ==
  UNION {Given(D) : D \in {{"n"}, {"m"}, {"n", "m"}, {"n", "one"}}}
  \cup {[c \in {"n", "m", "one"} |-> IF c = "one" THEN Nothing ELSE g[c]] :
          g \in Given({"n", "m"})}

MCDomain == {Nothing, Contradiction} \cup {Something(v) : v \in MCValue}
=============================================================================
