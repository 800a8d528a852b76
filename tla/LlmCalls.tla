------------------------------ MODULE LlmCalls ------------------------------
(***************************************************************************)
(* The calls of LLM functions: the memo of each function, the tools it is  *)
(* configured with, and the loop that talks to the model, run as tasks of  *)
(* the executor.  A key is a function with canonical arguments; the task   *)
(* of a call stands for its pending result, which every firing with the    *)
(* same key is given.  The model and the tools are external: they answer   *)
(* anything, and they may fail.                                            *)
(***************************************************************************)
EXTENDS Executor

CONSTANTS
  Key,              \* LLM functions with their canonical arguments
  ToolList,         \* per key, the tools its function names in its with clause
  KnownTool,        \* the registry of the injected resolver
  Incomplete,       \* the keys whose prompt references an undefined variable
  MAX_TOOL_ROUNDS

ASSUME LlmCallsAssumption ==
  /\ ToolList \in [Key -> Seq(STRING)] /\ Incomplete \subseteq Key
  /\ MAX_TOOL_ROUNDS \in Nat \ {0}

VARIABLES
  memo,     \* per key, the calls it was given: {} or the one task
  keyOf,    \* of every task that was submitted
  loop,     \* of every task: where callLLMFn stands
  result,   \* of every task: what its deferred was resolved with
  fired     \* the firings, key and task, and the keys that threw (history)

llmVars == <<memo, keyOf, loop, result, fired>>
allVars == <<vars, llmVars>>

Idle == [at |-> "idle", round |-> 0, calls |-> 0, open |-> {}, why |-> "none"]

LlmInit ==
  /\ Init
  /\ memo = [k \in Key |-> {}]
  /\ keyOf = [t \in Task |-> CHOOSE k \in Key : TRUE]
  /\ loop = [t \in Task |-> Idle]
  /\ result = [t \in Task |-> "pending"]
  /\ fired = {}

-----------------------------------------------------------------------------
(* parseToolList drops empty names; resolveTools throws on the             *)
(* first name the registry does not have, and no tool is given then.       *)
parseToolList(list) == SelectSeq(list, LAMBDA name : name # "")
Resolves(k) == Range(parseToolList(ToolList[k])) \subseteq KnownTool
Tools(k) == Range(parseToolList(ToolList[k]))

(* Mutant: only a call that has succeeded is remembered. *)
FireForgettingFailures(k) ==
  /\ ~ pumping
  /\ LET kept == {t \in memo[k] : result[t] # "contradiction"} IN
     IF kept # {}
     THEN fired' = fired \cup {<<k, kept>>} /\ UNCHANGED <<vars, memo, keyOf>>
     ELSE /\ Resolves(k)
          /\ \E t \in Task :
               /\ t = CHOOSE u \in Task : phase[u] = "new"
               /\ Submit(t)
               /\ memo' = [memo EXCEPT ![k] = {t}]
               /\ keyOf' = [keyOf EXCEPT ![t] = k]
               /\ fired' = fired \cup {<<k, {t}>>}
  /\ UNCHANGED <<loop, result>>

(* A firing of an LLM function.  A call for the same arguments, under way, *)
(* answered or failed, is shared.  An unknown tool throws before anything  *)
(* is remembered, each time.                                               *)
Fire(k) ==
  /\ ~ pumping
  /\ IF memo[k] # {}
     THEN fired' = fired \cup {<<k, memo[k]>>} /\ UNCHANGED <<vars, memo, keyOf>>
     ELSE IF ~ Resolves(k)
     THEN fired' = fired \cup {<<k, {}>>} /\ UNCHANGED <<vars, memo, keyOf>>
     ELSE \E t \in Task :
            /\ t = CHOOSE u \in Task : phase[u] = "new"
            /\ Submit(t)
            /\ memo' = [memo EXCEPT ![k] = {t}]
            /\ keyOf' = [keyOf EXCEPT ![t] = k]
            /\ fired' = fired \cup {<<k, {t}>>}
  /\ UNCHANGED <<loop, result>>

-----------------------------------------------------------------------------
(* callLLMFn.  Every call of the model adds one to calls; open is the tool *)
(* uses of the last assistant message that have no result yet.             *)
Asks(l, at)  == [l EXCEPT !.at = at, !.calls = @ + 1]
Fails(l, why) == [l EXCEPT !.at = "failed", !.why = why]
Done(l) == [l EXCEPT !.at = "done"]

(* Its synchronous part, called from pump: a prompt that cannot be         *)
(* rendered throws; without tools the answer is forced, else offered.      *)
callLLMFn(k) ==
  IF k \in Incomplete THEN Fails(Idle, "prompt")
  ELSE IF Tools(k) = {} THEN Asks(Idle, "forced")
  ELSE Asks(Idle, "asking")

StartCall ==
  /\ Start
  /\ loop' = [loop EXCEPT ![Head(queue)] = callLLMFn(keyOf[Head(queue)])]
  /\ UNCHANGED <<memo, keyOf, result, fired>>

InLoop(t, at) == ~ pumping /\ phase[t] = "working" /\ loop[t].at = at

LoopStep(t, l) ==
  /\ loop' = [loop EXCEPT ![t] = l]
  /\ UNCHANGED <<vars, memo, keyOf, result, fired>>

(* One round of the loop: the model responds, which ends it whatever else  *)
(* it asked for; ends with text, and the answer is forced; or uses tools,  *)
(* known or not.                                                           *)
Responds(t) == InLoop(t, "asking") /\ LoopStep(t, Done(loop[t]))
EndsWithText(t) == InLoop(t, "asking") /\ LoopStep(t, Asks(loop[t], "forced"))
UsesTools(t) ==
  /\ InLoop(t, "asking")
  /\ \E batch \in SUBSET (Tools(keyOf[t]) \cup {"unknown"}) :
       batch # {} /\ LoopStep(t, [loop[t] EXCEPT !.at = "tools", !.open = batch])

ApiFails(t) ==
  (InLoop(t, "asking") \/ InLoop(t, "forced")) /\ LoopStep(t, Fails(loop[t], "api"))

(* Mutant: one round more is asked for. *)
NextRoundLate(l) ==
  IF l.round + 1 > MAX_TOOL_ROUNDS THEN Fails(l, "rounds")
  ELSE [Asks(l, "asking") EXCEPT !.round = @ + 1]

(* The next round, or none is left: the loop is an error then, though the  *)
(* tools of the last round have run.                                       *)
NextRound(l) ==
  LET done == [l EXCEPT !.round = @ + 1] IN
  IF done.round = MAX_TOOL_ROUNDS THEN Fails(done, "rounds") ELSE Asks(done, "asking")

(* runToolBatch: the tools of a batch run at once and end in any order, a  *)
(* failure of one is a result like another; the next round waits for all.  *)
ToolAnswers(t) ==
  /\ InLoop(t, "tools")
  /\ \E use \in loop[t].open :
       LET rest == [loop[t] EXCEPT !.open = @ \ {use}] IN
       LoopStep(t, IF rest.open = {} THEN NextRound(rest) ELSE rest)

(* The forced call: a block with the answer, or none. *)
ForcedReply(t) ==
  /\ InLoop(t, "forced")
  /\ \/ LoopStep(t, Done(loop[t]))
     \/ LoopStep(t, Fails(loop[t], "no block"))

(* callLLMFn returns or throws, the task is answered, and the deferred is  *)
(* resolved with Something or with a Contradiction.                        *)
Settle(t) ==
  /\ loop[t].at \in {"done", "failed"}
  /\ Answer(t)
  /\ result' = [result EXCEPT ![t] = IF loop[t].at = "done" THEN "something"
                                                           ELSE "contradiction"]
  /\ UNCHANGED <<memo, keyOf, loop, fired>>

-----------------------------------------------------------------------------
LlmStep(t) == Responds(t) \/ EndsWithText(t) \/ UsesTools(t) \/ ToolAnswers(t)
              \/ ForcedReply(t) \/ ApiFails(t)

TaskStep(t) == LlmStep(t) \/ Settle(t) \/ (Release(t) /\ UNCHANGED llmVars)

LlmNext ==
  \/ \E k \in Key : Fire(k)
  \/ StartCall
  \/ Pumped /\ UNCHANGED llmVars
  \/ \E t \in Task : TaskStep(t)
  \/ \E c \in Caps : setCap(c) /\ UNCHANGED llmVars

LlmSpec == LlmInit /\ [][LlmNext]_allVars

(* The fairness of the executor, and an answer for every request: the SDK  *)
(* answers, fails or times out, and a tool ends.                           *)
LlmFairness ==
  /\ WF_allVars(StartCall) /\ WF_allVars(Pumped /\ UNCHANGED llmVars)
  /\ \A t \in Task : SF_allVars(TaskStep(t))

LlmFairSpec == LlmSpec /\ LlmFairness

-----------------------------------------------------------------------------
(* All firings of a function with the same arguments are given one pending *)
(* result, so that merging it again changes nothing: one call of the model *)
(* per arguments, also when the call fails, which later firings inherit,   *)
(* and none when a tool is unknown.  (runtime/index.ts:182, 205-224)       *)
OneCallPerArguments ==
  /\ \A f, g \in fired : f[1] = g[1] => f[2] = g[2]
  /\ \A f \in fired : f[2] = {} <=> ~ Resolves(f[1])
  /\ \A f, g \in fired : f[1] # g[1] => f[2] \cap g[2] = {}

(* A failure, and only a failure, becomes a contradiction, at the answer.  *)
(* The conversation the model sees is well formed: a call is made only     *)
(* when every tool use before it has its result; k rounds of tools cost    *)
(* k + 1 calls, or k + 2 when the answer had to be forced, and since the   *)
(* last round leaves no call for the answer, MAX_TOOL_ROUNDS rounds never  *)
(* succeed.  (llmfn-client.ts:94-147, 163-203, runtime/index.ts:219-223)   *)
CallsOfTheLoop ==
  \A t \in Task : LET l == loop[t] IN
    /\ l.at # "tools" => l.open = {}
    /\ l.at \in {"asking", "tools"} => l.calls = l.round + 1
    /\ l.at \in {"forced", "done"} =>
         l.calls \in {l.round + 1, l.round + 2} /\ l.round < MAX_TOOL_ROUNDS
    /\ phase[t] \in {"answered", "released"} =>
         result[t] = IF l.at = "done" THEN "something" ELSE "contradiction"
    /\ l.why = "rounds" <=> l.round = MAX_TOOL_ROUNDS

=============================================================================
