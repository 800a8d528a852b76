---------------------------- MODULE MCInformation ----------------------------
(***************************************************************************)
(* The recursive search of the language guide with two LLM functions: one  *)
(* says whether the input is good enough, one improves it.  When it is     *)
(* good enough the second switch lets nothing through to be improved.      *)
(***************************************************************************)
EXTENDS AsyncRunner

CONSTANTS rough, fine, yes, no    \* inputs and verdicts, model values

MCValue == {rough, fine, yes, no}
MCField == {}
MCCell  == {"input", "good", "bad", "todo", "better", "done"}
MCProp  == {"goodEnough", "not", "accept", "retry", "improve", "again"}
MCAsync == {"goodEnough", "improve"}

MCKind ==
  [p \in MCProp |-> CASE p \in {"accept", "retry"} -> "switch"
                      [] p = "again"               -> "recursive"
                      [] OTHER                     -> "function"]

MCFrom ==
  [p \in MCProp |-> CASE p = "goodEnough" -> <<"input">>
                      [] p = "not"        -> <<"good">>
                      [] p = "accept"     -> <<"good", "input">>
                      [] p = "retry"      -> <<"bad", "input">>
                      [] p = "improve"    -> <<"todo">>
                      [] p = "again"      -> <<"better">>]

MCTo ==
  [p \in MCProp |-> CASE p = "goodEnough" -> "good"
                      [] p = "not"        -> "bad"
                      [] p = "retry"      -> "todo"
                      [] p = "improve"    -> "better"
                      [] OTHER            -> "done"]

MCAs == [p \in MCProp |-> "none"]

MCFn(p, t) ==
  CASE p = "goodEnough" -> IF t[1] = fine THEN yes ELSE no
    [] p = "not"        -> IF t[1] = yes THEN no ELSE yes
    [] p = "improve"    -> fine
    [] OTHER            -> t[1]

MCTruthy    == MCValue \ {no}
MCSignature == <<"input">>
MCInitial   == [c \in MCCell |-> Nothing]
MCInputs    == {[c \in {"input"} |-> Something(v)] : v \in {rough, fine}}
MCFailures  == {{}}
MCRankings  == {<<"goodEnough", "not", "accept", "retry", "improve", "again">>}

MCReaders ==
  [c \in MCCell |->
     CASE c = "input"  -> <<"goodEnough", "accept", "retry">>
       [] c = "good"   -> <<"not", "accept">>
       [] c = "bad"    -> <<"retry">>
       [] c = "todo"   -> <<"improve">>
       [] c = "better" -> <<"again">>
       [] c = "done"   -> <<>>]
=============================================================================
