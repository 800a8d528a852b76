-------------------------- MODULE MCNestedExecutor --------------------------
(***************************************************************************)
(* As many outer tasks as there are slots, each waiting for a task it      *)
(* submits to the same executor: an LLM propagator whose model calls the   *)
(* run tool on a program with an LLM propagator of its own.                *)
(***************************************************************************)
EXTENDS Executor

CONSTANTS outer1, outer2, inner1, inner2

MCTask  == {outer1, outer2, inner1, inner2}
MCNeeds ==
  [t \in MCTask |-> CASE t = outer1 -> {inner1}
                      [] t = outer2 -> {inner2}
                      [] OTHER      -> {}]
=============================================================================
