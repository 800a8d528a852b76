--------------------------- MODULE MCAlternatives ---------------------------
(***************************************************************************)
(* Two ways to fill one cell: a long text is abstracted by an LLM          *)
(* function, and keepShort passes a short text on and answers null for a   *)
(* long one.  Neither depends on the other, so they are ranked by name.    *)
(***************************************************************************)
EXTENDS AsyncRunner

CONSTANTS long, gist    \* a long text and its abstract, model values

MCValue == {long, gist}
MCField == {}
MCCell  == {"text", "brief"}
MCProp  == {"abstract", "keepShort"}
MCKind  == [p \in MCProp |-> "function"]
MCFrom  == [p \in MCProp |-> <<"text">>]
MCTo    == [p \in MCProp |-> "brief"]
MCAs    == [p \in MCProp |-> "none"]

MCFn(p, t) == IF p = "abstract" THEN gist ELSE Null

MCTruthy    == MCValue
MCSignature == <<"text">>
MCInitial   == [c \in MCCell |-> Nothing]
MCInputs    == {[c \in {"text"} |-> Something(long)]}
MCFailures  == {{}}
MCRankings  == {<<"abstract", "keepShort">>}
MCReaders   == [c \in MCCell |-> IF c = "text" THEN <<"abstract", "keepShort">> ELSE <<>>]
=============================================================================
