------------------------------ MODULE Executor ------------------------------
(***************************************************************************)
(* The bounded executor every model call of a run goes through: at most    *)
(* cap tasks at once, the others parked first in, first out.  A task may   *)
(* itself submit tasks and wait for their answers (Needs); the executor    *)
(* knows nothing of that.                                                  *)
(*                                                                         *)
(* pump is a loop that runs to its end before anything else happens; one   *)
(* turn of it is one step here, and pumping says that it is running.  The  *)
(* answer of a task reaches its caller before its slot is freed: the       *)
(* handle settles in one microtask and finally runs in a later one.        *)
(***************************************************************************)
EXTENDS Naturals, Sequences, FiniteSets, Functions

CONSTANTS
  Task,     \* the tasks that may be submitted, each once
  Needs,    \* per task, the tasks it submits and then waits for
  Caps      \* the values cap may be given

ASSUME ExecutorAssumption ==
  /\ Needs \in [Task -> SUBSET Task]
  /\ Caps \subseteq Nat \ {0}

VARIABLES
  cap,
  running,    \* _running
  peak,       \* _peak
  queue,
  pumping,
  phase,      \* of every task
  submitted,  \* the tasks in the order of their submission (history)
  highest     \* the largest cap so far (history)

vars == <<cap, running, peak, queue, pumping, phase, submitted, highest>>

Phase == {"new", "queued", "working", "answered", "released"}

TypeOK ==
  /\ cap \in Caps /\ highest \in Caps /\ cap <= highest
  /\ running \in Nat /\ peak \in Nat
  /\ queue \in Seq(Task) /\ submitted \in Seq(Task)
  /\ pumping \in BOOLEAN
  /\ phase \in [Task -> Phase]

Init ==
  /\ cap \in Caps
  /\ highest = cap
  /\ running = 0 /\ peak = 0
  /\ queue = <<>> /\ submitted = <<>>
  /\ pumping = FALSE
  /\ phase = [t \in Task |-> "new"]

Larger(m, n) == IF m < n THEN n ELSE m

Parents(t) == {p \in Task : t \in Needs[p]}

(* A task nobody waits for is submitted from outside, when no other code   *)
(* runs; the others by the task that waits for them, which may still be in *)
(* its synchronous part, called from pump.                                 *)
MayBeSubmitted(t) ==
  \/ Parents(t) = {} /\ ~ pumping
  \/ \E p \in Parents(t) : phase[p] = "working"

Submit(t) ==
  /\ phase[t] = "new" /\ MayBeSubmitted(t)
  /\ phase' = [phase EXCEPT ![t] = "queued"]
  /\ queue' = Append(queue, t)
  /\ submitted' = Append(submitted, t)
  /\ pumping' = TRUE
  /\ UNCHANGED <<cap, running, peak, highest>>

(* Mutants: a slot too many is given; the newest task is taken; the peak   *)
(* is taken before the task counts; a thunk that throws is forgotten.      *)
StartBeyondCap ==
  /\ pumping /\ running <= cap /\ queue # <<>>
  /\ queue' = Tail(queue)
  /\ running' = running + 1
  /\ peak' = Larger(peak, running + 1)
  /\ phase' = [phase EXCEPT ![Head(queue)] = "working"]
  /\ UNCHANGED <<cap, pumping, submitted, highest>>

StartNewest ==
  /\ pumping /\ running < cap /\ queue # <<>>
  /\ queue' = SubSeq(queue, 1, Len(queue) - 1)
  /\ running' = running + 1
  /\ peak' = Larger(peak, running + 1)
  /\ phase' = [phase EXCEPT ![queue[Len(queue)]] = "working"]
  /\ UNCHANGED <<cap, pumping, submitted, highest>>

StartBeforeCounting ==
  /\ pumping /\ running < cap /\ queue # <<>>
  /\ queue' = Tail(queue)
  /\ running' = running + 1
  /\ peak' = Larger(peak, running)
  /\ phase' = [phase EXCEPT ![Head(queue)] = "working"]
  /\ UNCHANGED <<cap, pumping, submitted, highest>>

StartForgetting ==
  /\ pumping /\ running < cap /\ queue # <<>>
  /\ queue' = Tail(queue)
  /\ running' = running + 1
  /\ peak' = Larger(peak, running + 1)
  /\ \/ phase' = [phase EXCEPT ![Head(queue)] = "working"]
     \/ UNCHANGED phase
  /\ UNCHANGED <<cap, pumping, submitted, highest>>

(* One turn of pump: a slot is free and a task waits for it. *)
Start ==
  /\ pumping /\ running < cap /\ queue # <<>>
  /\ queue' = Tail(queue)
  /\ running' = running + 1
  /\ peak' = Larger(peak, running + 1)
  /\ phase' = [phase EXCEPT ![Head(queue)] = "working"]
  /\ UNCHANGED <<cap, pumping, submitted, highest>>

Pumped ==
  /\ pumping /\ ~ (running < cap /\ queue # <<>>)
  /\ pumping' = FALSE
  /\ UNCHANGED <<cap, running, peak, queue, phase, submitted, highest>>

(* Mutant: the slot is freed with the answer, and again afterwards. *)
AnswerFreeing(t) ==
  /\ ~ pumping /\ phase[t] = "working"
  /\ \A n \in Needs[t] : phase[n] \in {"answered", "released"}
  /\ phase' = [phase EXCEPT ![t] = "answered"]
  /\ running' = running - 1
  /\ UNCHANGED <<cap, peak, queue, pumping, submitted, highest>>

(* The thunk's promise settles, either way, and with it the caller's. *)
Answer(t) ==
  /\ ~ pumping /\ phase[t] = "working"
  /\ \A n \in Needs[t] : phase[n] \in {"answered", "released"}
  /\ phase' = [phase EXCEPT ![t] = "answered"]
  /\ UNCHANGED <<cap, running, peak, queue, pumping, submitted, highest>>

(* Mutants: the slot leaks; the freed slot pulls no task. *)
ReleaseLeaking(t) ==
  /\ ~ pumping /\ phase[t] = "answered"
  /\ phase' = [phase EXCEPT ![t] = "released"]
  /\ pumping' = TRUE
  /\ UNCHANGED <<cap, running, peak, queue, submitted, highest>>

ReleaseWithoutPump(t) ==
  /\ ~ pumping /\ phase[t] = "answered"
  /\ phase' = [phase EXCEPT ![t] = "released"]
  /\ running' = running - 1
  /\ UNCHANGED <<cap, peak, queue, pumping, submitted, highest>>

(* finally: the slot is freed and the next task started. *)
Release(t) ==
  /\ ~ pumping /\ phase[t] = "answered"
  /\ phase' = [phase EXCEPT ![t] = "released"]
  /\ running' = running - 1
  /\ pumping' = TRUE
  /\ UNCHANGED <<cap, peak, queue, submitted, highest>>

setCap(c) ==
  /\ ~ pumping
  /\ cap' = c
  /\ highest' = Larger(highest, c)
  /\ pumping' = TRUE
  /\ UNCHANGED <<running, peak, queue, phase, submitted>>

Next ==
  \/ \E t \in Task : Submit(t)
  \/ Start
  \/ Pumped
  \/ \E t \in Task : Answer(t)
  \/ \E t \in Task : Release(t)
  \/ \E c \in Caps : setCap(c)

Spec == Init /\ [][Next]_vars

(* pump always runs to its end.  A callback that is due runs in its turn,  *)
(* however often other code, pump included, runs before it: hence strong   *)
(* fairness.  A task whose needs are met answers at last, being a request  *)
(* that succeeds, fails or times out, and a task submits what it needs.    *)
Fairness ==
  /\ WF_vars(Start) /\ WF_vars(Pumped)
  /\ \A t \in Task :
       /\ SF_vars(Answer(t)) /\ SF_vars(Release(t))
       /\ WF_vars(Parents(t) # {} /\ Submit(t))

FairSpec == Spec /\ Fairness

-----------------------------------------------------------------------------
InSlot   == {t \in Task : phase[t] \in {"working", "answered"}}
IsQueued == {t \in Task : phase[t] = "queued"}

(* The counters and the queue tell the truth about the tasks: no slot      *)
(* leaks, none is freed twice, no task is queued twice or dropped.         *)
CountsTheTasks ==
  /\ running = Cardinality(InSlot)
  /\ Range(queue) = IsQueued /\ IsInjective(queue)

(* No slot idles while a task waits, whatever the order of submissions,    *)
(* completions and changes of the cap.                                     *)
WorkConserving == ~ pumping /\ queue # <<>> => running >= cap

(* A task only ever starts into a free slot of the cap then in force; the  *)
(* tasks a lowered cap leaves over keep running but start nothing.  So a   *)
(* lowered cap holds back the tasks already parked, too: the code looks at *)
(* the cap whenever it starts one (executor.ts:61), while the comment of   *)
(* setCap has it concern only "tasks submitted from now on" (82-84).       *)
StartsWithinCap ==
  [][\A t \in Task : phase[t] # "working" /\ phase'[t] = "working"
                       => running' <= cap /\ cap' = cap]_vars

(* peakInFlight is what its comment says: a proof of the cap. *)
PeakProvesTheCap == running <= peak /\ peak <= highest

(* No task overtakes one submitted before it. *)
FirstInFirstOut ==
  \A i, j \in 1 .. Len(submitted) :
    i < j /\ phase[submitted[i]] = "queued" => phase[submitted[j]] = "queued"

(* "A running task never waits on a queued task, and the queue cannot      *)
(* deadlock": while tasks are parked, some slot is held by a task that     *)
(* needs none of them.                                                     *)
QueueCannotDeadlock ==
  ~ pumping /\ queue # <<>> =>
    \E t \in InSlot : \A n \in Needs[t] : phase[n] # "queued"

(* Every submitted task is answered, whatever else is submitted. *)
EveryTaskIsAnswered ==
  \A t \in Task : phase[t] = "queued" ~> phase[t] \in {"answered", "released"}
=============================================================================
