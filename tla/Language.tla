------------------------------ MODULE Language ------------------------------
(***************************************************************************)
(* The operations with what they compile: the expressions of functions and *)
(* the extracts, whose definitions are recursive on their trees.           *)
(***************************************************************************)
EXTENDS Operations, Expressions, Extracts

(* The expressions of every function. *)
CompiledAsWritten == \A n \in Range(OfKind(Nodes, "fn")) : MeansWhatItSays(n)

(* Tables and extracts, on every text. *)
RecordsKeepTheirPlace ==
  /\ TablesKeepTheirRows
  /\ \A text \in me.texts : \A e \in Range(OfKind(Nodes, "extract")) : ElementsKeepTheirText(e, Nodes, text)
=============================================================================
