----------------------------- MODULE MCExecutor -----------------------------
(***************************************************************************)
(* The executor under the calls of LLM functions: one without tools, one   *)
(* with a tool, one whose prompt is incomplete, one that names an unknown  *)
(* tool.  Leaf tasks only, as the executor's comment requires: no call     *)
(* waits for another.  Liveness is checked, so there is no symmetry set.   *)
(***************************************************************************)
EXTENDS LlmCalls

MCNeeds == [t \in Task |-> {}]
MCToolList == [k \in Key |-> CASE k = "plain"   -> <<>>
                               [] k = "tooled"  -> <<"run", "">>
                               [] k = "mute"    -> <<>>
                               [] k = "strange" -> <<"run", "typo">>]
=============================================================================
