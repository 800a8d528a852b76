---------------------------- MODULE MCAsyncRunner ----------------------------
(***************************************************************************)
(* The recursive search of the language guide, its improvement step an LLM *)
(* function, asked twice: draft and second propose a better number, which  *)
(* must agree with each other and with a table; polish looks at the agreed *)
(* one; the network then calls itself on the result, which it has to       *)
(* await.  Second disagrees on zero.                                       *)
(***************************************************************************)
EXTENDS DelayedNetworks, SequencesExt

CONSTANT Top    \* the number that is good enough

Num(i) == [num |-> i]
Yes    == [bool |-> TRUE]
No     == [bool |-> FALSE]

Numbers == {Num(i) : i \in 0 .. Top}
MCValue == Numbers \cup {Yes, No}
MCField == {}
MCCell  == {"input", "good", "bad", "todo", "better", "polished", "done"}
MCProp  == {"goodEnough", "not", "accept", "retry", "table", "draft", "second", "polish",
            "again"}
MCAsync == {"draft", "second", "polish"}

MCKind ==
  [p \in MCProp |-> CASE p \in {"accept", "retry"} -> "switch"
                      [] p = "again"               -> "recursive"
                      [] OTHER                     -> "function"]

MCFrom ==
  [p \in MCProp |-> CASE p = "goodEnough" -> <<"input">>
                      [] p = "not"        -> <<"good">>
                      [] p = "accept"     -> <<"good", "input">>
                      [] p = "retry"      -> <<"bad", "input">>
                      [] p \in {"table", "draft", "second"} -> <<"todo">>
                      [] p = "polish"     -> <<"better">>
                      [] p = "again"      -> <<"polished">>]

MCTo ==
  [p \in MCProp |-> CASE p = "goodEnough" -> "good"
                      [] p = "not"        -> "bad"
                      [] p = "retry"      -> "todo"
                      [] p \in {"table", "draft", "second"} -> "better"
                      [] p = "polish"     -> "polished"
                      [] OTHER            -> "done"]

MCAs == [p \in MCProp |-> "none"]

Next1(v) == Num(v.num + 1)

MCFn(p, t) ==
  LET v == t[1]
  IN  CASE p = "goodEnough" -> IF v = Num(Top) THEN Yes ELSE No
        [] p = "not"        -> IF v = Yes THEN No ELSE Yes
        [] p \in {"table", "draft"} /\ v \in Numbers \ {Num(Top)} -> Next1(v)
        [] p = "second" /\ v \in Numbers \ {Num(Top)} ->
             IF v = Num(0) THEN Num(Top) ELSE Next1(v)
        [] OTHER            -> v

MCTruthy    == MCValue \ {No, Num(0)}
MCSignature == <<"input">>
MCInitial   == [c \in MCCell |-> Nothing]
MCInputs    == {[c \in {"input"} |-> Something(v)] : v \in Numbers}

MCReaders ==
  [c \in MCCell |->
     SetToSeq({p \in MCProp : \E i \in 1 .. Len(MCFrom[p]) : MCFrom[p][i] = c})]

(* Producers first, the recursive call early or late, and one ranking that *)
(* puts consumers first.                                                   *)
MCRankings ==
  {<<"goodEnough", "not", "accept", "retry", "draft", "table", "second", "polish",
     "again">>,
   <<"again", "polish", "second", "table", "draft", "retry", "accept", "not", "goodEnough">>,
   <<"goodEnough", "not", "retry", "table", "draft", "again", "second", "polish", "accept">>}

(* Any of the calls made on the numbers below Top may fail. *)
MCFailures ==
  SUBSET {Call(p, <<v>>) : p \in {"draft", "second"}, v \in Numbers \ {Num(0), Num(Top)}}
  \cup {{Call("polish", <<v>>)} : v \in Numbers}

(* The network is of the class for which it is proved that delays do not   *)
(* matter: the answers reach better and polished only.                     *)
ASSUME PlainAssumption /\ DelayedAssumption({"better", "polished"})
=============================================================================
