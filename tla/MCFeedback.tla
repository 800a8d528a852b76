----------------------------- MODULE MCFeedback -----------------------------
(***************************************************************************)
(* Two texts, each the translation of the other; the translations are LLM  *)
(* functions, and exact inverses.  Wired with ordinary functions the       *)
(* network converges at once.                                              *)
(***************************************************************************)
EXTENDS AsyncRunner, SequencesExt

CONSTANTS hello, ciao    \* the two texts, model values

MCValue == {hello, ciao}
MCField == {}
MCCell  == {"english", "italian"}
MCProp  == {"toItalian", "toEnglish"}
MCKind  == [p \in MCProp |-> "function"]
MCFrom  == [p \in MCProp |-> IF p = "toItalian" THEN <<"english">> ELSE <<"italian">>]
MCTo    == [p \in MCProp |-> IF p = "toItalian" THEN "italian" ELSE "english"]
MCAs    == [p \in MCProp |-> "none"]

MCFn(p, t) == IF p = "toItalian" THEN ciao ELSE hello

MCTruthy    == MCValue
MCSignature == <<"english">>
MCInitial   == [c \in MCCell |-> Nothing]
MCInputs    == {[c \in {"english"} |-> Something(hello)]}
MCFailures  == {{}}
MCRankings  == {<<"toEnglish", "toItalian">>, <<"toItalian", "toEnglish">>}

MCReaders ==
  [c \in MCCell |-> IF c = "english" THEN <<"toItalian">> ELSE <<"toEnglish">>]
=============================================================================
