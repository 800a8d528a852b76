-------------------------- MODULE ExecutorTheorems --------------------------
(***************************************************************************)
(* For any tasks and caps: the counters are right, no slot idles while a   *)
(* task waits, no task overtakes another, none starts beyond the cap, and  *)
(* when only leaf tasks are submitted the queue cannot deadlock.  All this *)
(* holds of the calls of LLM functions, which are steps of the executor    *)
(* or leave it alone; for any keys, tools and answers they share one call  *)
(* per arguments and count their rounds.                                   *)
(*                                                                         *)
(* First in, first out is not inductive as it stands: the invariant is     *)
(* that the queue is the tail of the order of submission (QueueIsTail).    *)
(***************************************************************************)
EXTENDS LlmCalls, TLAPS, SequenceTheorems, FiniteSetTheorems

(* What taking the first element of a sequence and adding one at its end   *)
(* do to its elements; nothing depends on the structures of that module.   *)
Lemmas == INSTANCE InfoStructureTheorems WITH Value <- {}, Field <- {}

LEMMA RangeShift ==
  ASSUME NEW S, NEW s \in Seq(S), s # <<>>
  PROVE  /\ Head(s) \in S /\ Tail(s) \in Seq(S)
         /\ Range(s) = {Head(s)} \cup Range(Tail(s))
         /\ IsInjective(s) => IsInjective(Tail(s)) /\ Head(s) \notin Range(Tail(s))
BY Lemmas!RangeShift DEF Range, IsInjective, Lemmas!Range, Lemmas!IsInjective

LEMMA RangePush ==
  ASSUME NEW S, NEW s \in Seq(S), NEW e \in S
  PROVE  /\ Append(s, e) \in Seq(S)
         /\ Range(Append(s, e)) = Range(s) \cup {e}
         /\ IsInjective(s) /\ e \notin Range(s) => IsInjective(Append(s, e))
BY Lemmas!RangePush DEF Range, IsInjective, Lemmas!Range, Lemmas!IsInjective

LEMMA EmptyRange == Range(<<>>) = {} /\ IsInjective(<<>>)
BY EmptySeq DEF Range, IsInjective

(* How many of the submitted tasks have left the queue. *)
Left == Len(submitted) - Len(queue)

QueueIsTail ==
  /\ Left \in Nat
  /\ \A i \in 1 .. Len(queue) : queue[i] = submitted[Left + i]
  /\ \A i \in 1 .. Len(submitted) :
       phase[submitted[i]] # "new" /\ (i <= Left => phase[submitted[i]] # "queued")

Counted == CountsTheTasks /\ IsFiniteSet(InSlot)

(* The queue's head is a task, and the queue only holds tasks. *)
LEMMA HeadIsQueued ==
  ASSUME TypeOK, CountsTheTasks, queue # <<>>
  PROVE  /\ Head(queue) \in Task /\ phase[Head(queue)] = "queued"
         /\ Tail(queue) \in Seq(Task)
BY RangeShift DEF TypeOK, CountsTheTasks, IsQueued

LEMMA CountedInvariant == Spec => [](TypeOK /\ Counted)
<1>1. Init => TypeOK /\ Counted
  <2> SUFFICES ASSUME Init PROVE TypeOK /\ Counted
    OBVIOUS
  <2>1. TypeOK
    <3>1. cap \in Caps /\ highest \in Caps /\ cap <= highest
      BY ExecutorAssumption DEF Init
    <3>2. queue \in Seq(Task) /\ submitted \in Seq(Task)
      BY EmptySeq DEF Init
    <3>3. phase \in [Task -> Phase]
      BY DEF Init, Phase
    <3>4. running \in Nat /\ peak \in Nat /\ pumping \in BOOLEAN
      BY DEF Init
    <3> QED BY <3>1, <3>2, <3>3, <3>4 DEF TypeOK
  <2>2. InSlot = {} /\ IsQueued = {}
    BY DEF Init, InSlot, IsQueued
  <2> QED BY <2>1, <2>2, FS_EmptySet, EmptyRange DEF Init, Counted, CountsTheTasks
<1>2. TypeOK /\ Counted /\ [Next]_vars => TypeOK' /\ Counted'
  <2> SUFFICES ASSUME TypeOK, Counted, [Next]_vars PROVE TypeOK' /\ Counted'
    OBVIOUS
  <2>0. phase \in [Task -> Phase] /\ queue \in Seq(Task) /\ submitted \in Seq(Task)
    BY DEF TypeOK
  <2>1. ASSUME NEW t \in Task, Submit(t) PROVE TypeOK' /\ Counted'
    <3>1. phase' = [phase EXCEPT ![t] = "queued"] /\ phase[t] = "new"
          /\ queue' = Append(queue, t) /\ submitted' = Append(submitted, t) /\ running' = running
      BY <2>1 DEF Submit
    <3>2. TypeOK'
      BY <2>0, <2>1, <3>1, RangePush DEF Submit, TypeOK, Phase
    <3>3. InSlot' = InSlot /\ IsQueued' = IsQueued \cup {t} /\ t \notin IsQueued
      BY <2>0, <3>1 DEF InSlot, IsQueued
    <3>4. Range(queue) = IsQueued /\ IsInjective(queue)
      BY DEF Counted, CountsTheTasks
    <3>5. Range(queue') = IsQueued' /\ IsInjective(queue')
      BY <2>0, <3>1, <3>3, <3>4, RangePush
    <3>6. running' = Cardinality(InSlot') /\ IsFiniteSet(InSlot')
      BY <3>1, <3>3 DEF Counted, CountsTheTasks
    <3> QED BY <3>2, <3>5, <3>6 DEF Counted, CountsTheTasks
  <2>2. CASE Start
    <3> DEFINE h == Head(queue)
    <3>1. h \in Task /\ phase[h] = "queued" /\ Tail(queue) \in Seq(Task)
      BY <2>2, HeadIsQueued DEF Start, Counted
    <3>2. phase' = [phase EXCEPT ![h] = "working"] /\ queue' = Tail(queue)
          /\ running' = running + 1 /\ queue # <<>> /\ peak' = Larger(peak, running + 1)
      BY <2>2 DEF Start
    <3>3. Range(queue) = IsQueued /\ IsInjective(queue) /\ running = Cardinality(InSlot)
          /\ IsFiniteSet(InSlot)
      BY DEF Counted, CountsTheTasks
    <3>4. Range(queue) = {h} \cup Range(Tail(queue)) /\ IsInjective(Tail(queue))
          /\ h \notin Range(Tail(queue))
      BY <2>0, <3>2, <3>3, RangeShift
    <3>5. running \in Nat /\ peak \in Nat
      BY DEF TypeOK
    <3> HIDE DEF h
    <3>6. peak' \in Nat
      BY <3>2, <3>5 DEF Larger
    <3>7. TypeOK'
      BY <2>0, <2>2, <3>1, <3>2, <3>5, <3>6 DEF Start, TypeOK, Phase
    <3>8. InSlot' = InSlot \cup {h} /\ h \notin InSlot /\ IsQueued' = IsQueued \ {h}
      BY <2>0, <3>1, <3>2 DEF InSlot, IsQueued
    <3>9. Range(queue') = IsQueued' /\ IsInjective(queue')
      BY <3>2, <3>3, <3>4, <3>8
    <3>10. running' = Cardinality(InSlot') /\ IsFiniteSet(InSlot')
      BY <3>2, <3>3, <3>8, FS_AddElement
    <3> QED BY <3>7, <3>9, <3>10 DEF Counted, CountsTheTasks
  <2>3. CASE Pumped
    BY <2>3 DEF Pumped, TypeOK, Counted, CountsTheTasks, InSlot, IsQueued
  <2>4. ASSUME NEW t \in Task, Answer(t) PROVE TypeOK' /\ Counted'
    <3>1. phase' = [phase EXCEPT ![t] = "answered"] /\ phase[t] = "working"
      BY <2>4 DEF Answer
    <3>2. TypeOK'
      BY <2>0, <2>4, <3>1 DEF Answer, TypeOK, Phase
    <3>3. InSlot' = InSlot /\ IsQueued' = IsQueued
      BY <2>0, <3>1 DEF InSlot, IsQueued
    <3> QED BY <2>4, <3>2, <3>3 DEF Answer, Counted, CountsTheTasks
  <2>5. ASSUME NEW t \in Task, Release(t) PROVE TypeOK' /\ Counted'
    <3>1. phase' = [phase EXCEPT ![t] = "released"] /\ phase[t] = "answered"
          /\ running' = running - 1 /\ queue' = queue
      BY <2>5 DEF Release
    <3>2. InSlot' = InSlot \ {t} /\ t \in InSlot /\ IsQueued' = IsQueued
      BY <2>0, <3>1 DEF InSlot, IsQueued
    <3>3. running = Cardinality(InSlot) /\ IsFiniteSet(InSlot)
      BY DEF Counted, CountsTheTasks
    <3>4. Cardinality(InSlot') = running - 1 /\ IsFiniteSet(InSlot')
      BY <3>2, <3>3, FS_RemoveElement
    <3>5. running - 1 \in Nat
      BY <3>4, FS_CardinalityType
    <3>6. TypeOK'
      BY <2>0, <2>5, <3>1, <3>5 DEF Release, TypeOK, Phase
    <3> QED BY <3>1, <3>2, <3>4, <3>6 DEF Counted, CountsTheTasks
  <2>6. ASSUME NEW c \in Caps, setCap(c) PROVE TypeOK' /\ Counted'
    <3>1. cap' \in Caps /\ highest' \in Caps /\ cap' <= highest'
      BY <2>6, ExecutorAssumption DEF setCap, TypeOK, Larger
    <3>2. InSlot' = InSlot /\ IsQueued' = IsQueued
      BY <2>6 DEF setCap, InSlot, IsQueued
    <3> QED BY <2>6, <3>1, <3>2 DEF setCap, TypeOK, Counted, CountsTheTasks
  <2>7. CASE UNCHANGED vars
    BY <2>7 DEF vars, TypeOK, Counted, CountsTheTasks, InSlot, IsQueued
  <2> QED BY <2>1, <2>2, <2>3, <2>4, <2>5, <2>6, <2>7 DEF Next
<1> QED BY <1>1, <1>2, PTL DEF Spec

(* Every executor state is well formed. *)
THEOREM ExecutorTypeCorrect == Spec => []TypeOK
BY CountedInvariant, PTL

(* No slot leaks or is freed twice, no task is dropped or queued twice. *)
THEOREM CountersAreRight == Spec => []CountsTheTasks
<1>1. Counted => CountsTheTasks
  BY DEF Counted
<1> QED BY <1>1, CountedInvariant, PTL

(* Between two callbacks no slot is idle while a task waits. *)
THEOREM NoIdleSlot == Spec => []WorkConserving
<1>1. Init => WorkConserving
  BY DEF Init, WorkConserving
<1>2. TypeOK /\ WorkConserving /\ [Next]_vars => WorkConserving'
  <2> SUFFICES ASSUME TypeOK, WorkConserving, [Next]_vars PROVE WorkConserving'
    OBVIOUS
  <2>1. ASSUME NEW t \in Task, Submit(t) \/ Answer(t) \/ Release(t) PROVE WorkConserving'
    BY <2>1 DEF Submit, Answer, Release, WorkConserving
  <2>2. ASSUME Start \/ \E c \in Caps : setCap(c) PROVE WorkConserving'
    BY <2>2 DEF Start, setCap, WorkConserving
  <2>3. CASE Pumped
    BY <2>3, ExecutorAssumption DEF Pumped, WorkConserving, TypeOK
  <2>4. CASE UNCHANGED vars
    BY <2>4 DEF vars, WorkConserving
  <2> QED BY <2>1, <2>2, <2>3, <2>4 DEF Next
<1> QED BY <1>1, <1>2, ExecutorTypeCorrect, PTL DEF Spec

(* A task starts only into a free slot. *)
THEOREM NoStartBeyondCap == Spec => StartsWithinCap
<1>1. TypeOK /\ [Next]_vars =>
        [\A t \in Task : phase[t] # "working" /\ phase'[t] = "working"
                           => running' <= cap /\ cap' = cap]_vars
  <2> SUFFICES ASSUME TypeOK, Next, NEW t \in Task,
                      phase[t] # "working", phase'[t] = "working"
               PROVE  running' <= cap /\ cap' = cap
    BY DEF vars
  <2>1. CASE Start
    BY <2>1, ExecutorAssumption DEF Start, TypeOK
  <2>2. ASSUME NEW u \in Task, Submit(u) \/ Answer(u) \/ Release(u) PROVE FALSE
    BY <2>2 DEF Submit, Answer, Release, TypeOK
  <2>3. ASSUME Pumped \/ \E c \in Caps : setCap(c) PROVE FALSE
    BY <2>3 DEF Pumped, setCap
  <2> QED BY <2>1, <2>2, <2>3 DEF Next
<1> QED BY <1>1, ExecutorTypeCorrect, PTL DEF Spec, StartsWithinCap

(* The peak is between the tasks in flight and the largest cap ever set. *)
THEOREM PeakIsProof == Spec => []PeakProvesTheCap
<1>1. Init => PeakProvesTheCap
  BY ExecutorAssumption DEF Init, PeakProvesTheCap
<1>2. TypeOK /\ TypeOK' /\ PeakProvesTheCap /\ [Next]_vars => PeakProvesTheCap'
  <2> SUFFICES ASSUME TypeOK, TypeOK', PeakProvesTheCap, [Next]_vars PROVE PeakProvesTheCap'
    OBVIOUS
  <2>0. running \in Nat /\ peak \in Nat /\ cap \in Nat /\ highest \in Nat
        /\ cap <= highest /\ running' \in Nat
    BY ExecutorAssumption DEF TypeOK
  <2>1. ASSUME NEW t \in Task, Submit(t) \/ Answer(t) PROVE PeakProvesTheCap'
    BY <2>1 DEF Submit, Answer, PeakProvesTheCap
  <2>2. ASSUME NEW t \in Task, Release(t) PROVE PeakProvesTheCap'
    BY <2>0, <2>2 DEF Release, PeakProvesTheCap
  <2>3. CASE Start
    BY <2>0, <2>3 DEF Start, PeakProvesTheCap, Larger
  <2>4. ASSUME NEW c \in Caps, setCap(c) PROVE PeakProvesTheCap'
    BY <2>0, <2>4, ExecutorAssumption DEF setCap, PeakProvesTheCap, Larger
  <2>5. CASE Pumped \/ UNCHANGED vars
    BY <2>5 DEF Pumped, vars, PeakProvesTheCap
  <2> QED BY <2>1, <2>2, <2>3, <2>4, <2>5 DEF Next
<1> QED BY <1>1, <1>2, ExecutorTypeCorrect, PTL DEF Spec

LEMMA QueueIsTailInvariant == Spec => []QueueIsTail
<1>1. Init => QueueIsTail
  BY EmptySeq DEF Init, QueueIsTail, Left
<1>2. TypeOK /\ CountsTheTasks /\ QueueIsTail /\ [Next]_vars => QueueIsTail'
  <2> SUFFICES ASSUME TypeOK, CountsTheTasks, QueueIsTail, [Next]_vars PROVE QueueIsTail'
    OBVIOUS
  <2>0. /\ phase \in [Task -> Phase] /\ queue \in Seq(Task) /\ submitted \in Seq(Task)
        /\ Len(queue) \in Nat /\ Len(submitted) \in Nat /\ Left \in Nat
        /\ Left = Len(submitted) - Len(queue)
        /\ \A i \in 1 .. Len(submitted) : submitted[i] \in Task
        /\ \A i \in 1 .. Len(queue) : queue[i] = submitted[Left + i]
    BY LenProperties, ElementOfSeq DEF TypeOK, QueueIsTail, Left
  <2>1. ASSUME NEW t \in Task, Submit(t) PROVE QueueIsTail'
    <3>1. /\ phase' = [phase EXCEPT ![t] = "queued"] /\ phase[t] = "new"
          /\ queue' = Append(queue, t) /\ submitted' = Append(submitted, t)
      BY <2>1 DEF Submit
    <3>2. /\ Len(queue') = Len(queue) + 1 /\ Len(submitted') = Len(submitted) + 1
          /\ queue'[Len(queue) + 1] = t /\ submitted'[Len(submitted) + 1] = t
          /\ \A i \in 1 .. Len(queue) : queue'[i] = queue[i]
          /\ \A i \in 1 .. Len(submitted) : submitted'[i] = submitted[i]
      BY <2>0, <3>1, AppendProperties
    <3>3. Left' = Left
      BY <2>0, <3>2 DEF Left
    <3>4. ASSUME NEW i \in 1 .. Len(queue') PROVE queue'[i] = submitted'[Left' + i]
      <4>1. CASE i = Len(queue) + 1
        BY <2>0, <3>2, <3>3, <4>1
      <4>2. CASE i \in 1 .. Len(queue)
        <5>1. Left + i \in 1 .. Len(submitted)
          BY <2>0, <4>2
        <5> QED BY <2>0, <3>2, <3>3, <4>2, <5>1
      <4> QED BY <2>0, <3>2, <4>1, <4>2
    <3>5. ASSUME NEW i \in 1 .. Len(submitted')
          PROVE  phase'[submitted'[i]] # "new"
                 /\ (i <= Left' => phase'[submitted'[i]] # "queued")
      <4>1. CASE i = Len(submitted) + 1
        BY <2>0, <3>1, <3>2, <3>3, <4>1
      <4>2. CASE i \in 1 .. Len(submitted)
        <5>1. phase[submitted[i]] # "new" /\ submitted[i] \in Task
              /\ (i <= Left => phase[submitted[i]] # "queued")
          BY <2>0, <4>2 DEF QueueIsTail
        <5>2. submitted[i] # t
          BY <3>1, <5>1
        <5> QED BY <2>0, <3>1, <3>2, <3>3, <4>2, <5>1, <5>2
      <4> QED BY <2>0, <3>2, <4>1, <4>2
    <3> QED BY <2>0, <3>3, <3>4, <3>5 DEF QueueIsTail
  <2>2. CASE Start
    <3> DEFINE h == Head(queue)
    <3>1. /\ phase' = [phase EXCEPT ![h] = "working"]
          /\ queue' = Tail(queue) /\ submitted' = submitted /\ queue # <<>>
      BY <2>2 DEF Start
    <3>2. /\ Len(queue') = Len(queue) - 1 /\ Len(queue) >= 1
          /\ \A i \in 1 .. Len(queue) - 1 : queue'[i] = queue[i + 1]
          /\ h = queue[1] /\ h \in Task
      BY <2>0, <3>1, HeadTailProperties, EmptySeq
    <3> HIDE DEF h
    <3>3. Left' = Left + 1 /\ Left' \in Nat
      BY <2>0, <3>1, <3>2 DEF Left
    <3>4. ASSUME NEW i \in 1 .. Len(queue') PROVE queue'[i] = submitted'[Left' + i]
      <4>1. i + 1 \in 1 .. Len(queue) /\ i \in 1 .. Len(queue) - 1
        BY <2>0, <3>2
      <4>2. queue[i + 1] = submitted[Left + (i + 1)] /\ Left + (i + 1) = Left' + i
        BY <2>0, <3>3, <4>1
      <4> QED BY <3>1, <3>2, <4>1, <4>2
    <3>5. h = submitted[Left + 1]
      BY <2>0, <3>2
    <3>6. ASSUME NEW i \in 1 .. Len(submitted')
          PROVE  phase'[submitted'[i]] # "new"
                 /\ (i <= Left' => phase'[submitted'[i]] # "queued")
      <4>1. i \in 1 .. Len(submitted) /\ submitted'[i] = submitted[i] /\ submitted[i] \in Task
        BY <2>0, <3>1
      <4>2. phase[submitted[i]] # "new" /\ (i <= Left => phase[submitted[i]] # "queued")
        BY <4>1 DEF QueueIsTail
      <4>3. CASE submitted[i] = h
        BY <2>0, <3>1, <4>1, <4>3
      <4>4. CASE submitted[i] # h
        <5>1. i # Left + 1
          BY <3>5, <4>4
        <5>2. phase'[submitted[i]] = phase[submitted[i]]
          BY <2>0, <3>1, <4>1, <4>4
        <5>3. i \in Nat /\ Left \in Nat /\ Left' = Left + 1
          BY <2>0, <3>3, <4>1
        <5>4. i <= Left' => i <= Left
          BY <5>1, <5>3
        <5> QED BY <4>1, <4>2, <5>2, <5>4
      <4> QED BY <4>3, <4>4
    <3> QED BY <3>3, <3>4, <3>6 DEF QueueIsTail
  <2>3. ASSUME NEW t \in Task, Answer(t) \/ Release(t) PROVE QueueIsTail'
    <3>1. /\ queue' = queue /\ submitted' = submitted
          /\ \/ phase' = [phase EXCEPT ![t] = "answered"]
             \/ phase' = [phase EXCEPT ![t] = "released"]
      BY <2>3 DEF Answer, Release
    <3>2. \A u \in Task : phase'[u] = phase[u] \/ phase'[u] \in {"answered", "released"}
      BY <2>0, <3>1
    <3>3. \A u \in Task : (phase[u] # "new" => phase'[u] # "new")
                            /\ (phase[u] # "queued" => phase'[u] # "queued")
      BY <3>2
    <3> QED BY <2>0, <3>1, <3>3 DEF QueueIsTail, Left
  <2>4. CASE Pumped \/ (\E c \in Caps : setCap(c)) \/ UNCHANGED vars
    BY <2>4 DEF Pumped, setCap, vars, QueueIsTail, Left
  <2> QED BY <2>1, <2>2, <2>3, <2>4 DEF Next
<1> QED BY <1>1, <1>2, ExecutorTypeCorrect, CountersAreRight, PTL DEF Spec

(* Tasks start in the order of their submission. *)
THEOREM NoOvertaking == Spec => []FirstInFirstOut
<1>1. TypeOK /\ CountsTheTasks /\ QueueIsTail => FirstInFirstOut
  <2> SUFFICES ASSUME TypeOK, CountsTheTasks, QueueIsTail,
                      NEW i \in 1 .. Len(submitted), NEW j \in 1 .. Len(submitted),
                      i < j, phase[submitted[i]] = "queued"
               PROVE  phase[submitted[j]] = "queued"
    BY DEF FirstInFirstOut
  <2>1. Len(queue) \in Nat /\ Len(submitted) \in Nat /\ DOMAIN queue = 1 .. Len(queue)
    BY LenProperties DEF TypeOK
  <2>2. ~ (i <= Left) /\ Left \in Nat /\ Left = Len(submitted) - Len(queue)
    BY DEF QueueIsTail, Left
  <2>3. j - Left \in 1 .. Len(queue) /\ Left + (j - Left) = j
    BY <2>1, <2>2
  <2>4. queue[j - Left] = submitted[j]
    BY <2>3 DEF QueueIsTail
  <2>5. submitted[j] \in Range(queue)
    BY <2>1, <2>3, <2>4 DEF Range
  <2> QED BY <2>5 DEF CountsTheTasks, IsQueued
<1> QED BY <1>1, ExecutorTypeCorrect, CountersAreRight, QueueIsTailInvariant, PTL

(* When no task needs another one, as the comment demands of the callers,  *)
(* parked tasks always have a slot holder to wait for.                     *)
THEOREM LeavesCannotDeadlock ==
  ASSUME \A t \in Task : Needs[t] = {}
  PROVE  Spec => []QueueCannotDeadlock
<1>1. TypeOK /\ Counted /\ WorkConserving => QueueCannotDeadlock
  <2> SUFFICES ASSUME TypeOK, Counted, WorkConserving, ~ pumping, queue # <<>>
               PROVE  \E t \in InSlot : \A n \in Needs[t] : phase[n] # "queued"
    BY DEF QueueCannotDeadlock
  <2>1. running >= 1
    BY ExecutorAssumption DEF TypeOK, WorkConserving
  <2>2. InSlot # {}
    BY <2>1, FS_EmptySet DEF Counted, CountsTheTasks
  <2>3. PICK t : t \in InSlot
    BY <2>2
  <2>4. t \in Task
    BY <2>3 DEF InSlot
  <2> QED BY <2>3, <2>4
<1> QED BY <1>1, CountedInvariant, NoIdleSlot, PTL

-----------------------------------------------------------------------------
(* The calls of LLM functions use the executor as it is meant to be used:  *)
(* whatever the memo, the tool loop, the model and the tools do, what they *)
(* do to the executor is a behaviour of it, so that every theorem above    *)
(* holds of the calls too.  (runtime/index.ts:205-224)                     *)
THEOREM LlmCallsUseTheExecutor == LlmSpec => Spec
<1>1. LlmInit => Init
  BY DEF LlmInit
<1>2. [LlmNext]_allVars => [Next]_vars
  <2> SUFFICES ASSUME [LlmNext]_allVars PROVE [Next]_vars
    OBVIOUS
  <2>1. ASSUME NEW k \in Key, Fire(k) PROVE [Next]_vars
    <3>1. UNCHANGED vars \/ \E t \in Task : Submit(t)
      BY <2>1 DEF Fire
    <3> QED BY <3>1 DEF Next
  <2>2. StartCall => Next
    BY DEF StartCall, Next
  <2>3. Pumped => Next
    BY DEF Next
  <2>4. ASSUME NEW t \in Task, TaskStep(t) PROVE [Next]_vars
    <3>1. CASE LlmStep(t)
      <4>1. UNCHANGED vars
        BY <3>1 DEF LlmStep, Responds, EndsWithText, UsesTools, ToolAnswers,
                    ForcedReply, ApiFails, LoopStep
      <4> QED BY <4>1
    <3>2. CASE Settle(t)
      BY <3>2 DEF Settle, Next
    <3>3. CASE Release(t)
      BY <3>3 DEF Next
    <3> QED BY <2>4, <3>1, <3>2, <3>3 DEF TaskStep
  <2>5. ASSUME NEW c \in Caps, setCap(c) PROVE Next
    BY <2>5 DEF Next
  <2>6. UNCHANGED allVars => UNCHANGED vars
    BY DEF allVars
  <2> QED BY <2>1, <2>2, <2>3, <2>4, <2>5, <2>6 DEF LlmNext
<1> QED BY <1>1, <1>2, PTL DEF LlmSpec, Spec

(* What the calls keep right among them.  A firing is given what the memo  *)
(* holds of its key, now and for ever (Shares); the conversation of a      *)
(* task is counted and says how it ended (Counts), and its result tells.   *)
ToolUse == (UNION {Tools(k) : k \in Key}) \cup {"unknown"}

Conversation ==
  [at : {"idle", "asking", "tools", "forced", "done", "failed"}, round : Nat, calls : Nat,
   open : SUBSET ToolUse, why : {"none", "prompt", "api", "rounds", "no block"}]

CallTypes ==
  /\ memo \in [Key -> SUBSET Task]
  /\ keyOf \in [Task -> Key \cup {CHOOSE k \in Key : TRUE}]
  /\ \A t \in Task : phase[t] # "new" => keyOf[t] \in Key
  /\ loop \in [Task -> Conversation]
  /\ result \in [Task -> {"pending", "something", "contradiction"}]
  /\ fired \subseteq Key \X SUBSET Task

Shares ==
  /\ \A k \in Key : \A t \in memo[k] : phase[t] # "new" /\ keyOf[t] = k
  /\ \A k \in Key : memo[k] # {} => Resolves(k)
  /\ \A f \in fired : f[2] = memo[f[1]] /\ (f[2] = {} => ~ Resolves(f[1]))

CountsOf(l) ==
  /\ l.at # "tools" => l.open = {}
  /\ l.at \in {"asking", "tools"} => l.calls = l.round + 1
  /\ l.at \in {"forced", "done"} => l.calls \in {l.round + 1, l.round + 2}
  /\ l.at # "failed" => l.round < MAX_TOOL_ROUNDS /\ l.why = "none"
  /\ l.why = "rounds" <=> l.round = MAX_TOOL_ROUNDS

Counts ==
  \A t \in Task :
    /\ CountsOf(loop[t])
    /\ phase[t] \in {"answered", "released"} =>
         result[t] = IF loop[t].at = "done" THEN "something" ELSE "contradiction"

CallsInvariant == CallTypes /\ Shares /\ Counts

(* What the small steps of a conversation leave and change. *)
LEMMA AsksIs ==
  ASSUME NEW l \in Conversation, NEW at \in {"asking", "forced"}
  PROVE  /\ Asks(l, at) \in Conversation /\ Asks(l, at).at = at
         /\ Asks(l, at).round = l.round /\ Asks(l, at).calls = l.calls + 1
         /\ Asks(l, at).open = l.open /\ Asks(l, at).why = l.why
<1> DEFINE c == l.calls + 1
<1>1. l.calls \in Nat
  BY DEF Conversation
<1>2. c \in Nat
  BY <1>1
<1>3. Asks(l, at) = [[l EXCEPT !.at = at] EXCEPT !.calls = c]
  BY DEF Asks, Conversation
<1> HIDE DEF c
<1> DEFINE b == [l EXCEPT !.at = at]
<1>4. b \in Conversation /\ b.at = at /\ b.round = l.round /\ b.open = l.open /\ b.why = l.why
  BY DEF Conversation
<1> HIDE DEF b
<1>5. /\ [b EXCEPT !.calls = c] \in Conversation /\ [b EXCEPT !.calls = c].at = b.at
      /\ [b EXCEPT !.calls = c].round = b.round /\ [b EXCEPT !.calls = c].calls = c
      /\ [b EXCEPT !.calls = c].open = b.open /\ [b EXCEPT !.calls = c].why = b.why
  BY <1>2, <1>4 DEF Conversation
<1> QED BY <1>3, <1>4, <1>5 DEF b, c

LEMMA FailsIs ==
  ASSUME NEW l \in Conversation, NEW why \in {"prompt", "api", "rounds", "no block"}
  PROVE  /\ Fails(l, why) \in Conversation /\ Fails(l, why).at = "failed"
         /\ Fails(l, why).round = l.round
         /\ Fails(l, why).open = l.open /\ Fails(l, why).why = why
BY DEF Fails, Conversation

(* When a conversation that goes on, or one that failed, is well counted. *)
LEMMA AskingCounts ==
  ASSUME NEW l \in Conversation, l.open = {}, l.why = "none", l.round < MAX_TOOL_ROUNDS,
         NEW at \in {"asking", "forced"},
         l.calls = l.round \/ (at = "forced" /\ l.calls = l.round + 1)
  PROVE  Asks(l, at) \in Conversation /\ CountsOf(Asks(l, at))
<1> DEFINE m == Asks(l, at)
<1>1. /\ m \in Conversation /\ m.at = at /\ m.round = l.round /\ m.calls = l.calls + 1
      /\ m.open = {} /\ m.why = "none"
  BY AsksIs
<1>2. l.round \in Nat /\ l.calls \in Nat /\ MAX_TOOL_ROUNDS \in Nat
  BY LlmCallsAssumption DEF Conversation
<1> HIDE DEF m
<1>3. CountsOf(m)
  BY <1>1, <1>2 DEF CountsOf
<1> QED BY <1>1, <1>3 DEF m

LEMMA FailedCounts ==
  ASSUME NEW l \in Conversation, l.open = {},
         NEW why \in {"prompt", "api", "rounds", "no block"},
         why = "rounds" <=> l.round = MAX_TOOL_ROUNDS
  PROVE  Fails(l, why) \in Conversation /\ CountsOf(Fails(l, why))
<1> DEFINE m == Fails(l, why)
<1>1. /\ m \in Conversation /\ m.at = "failed" /\ m.round = l.round
      /\ m.open = {} /\ m.why = why
  BY FailsIs
<1> HIDE DEF m
<1>2. CountsOf(m)
  BY <1>1 DEF CountsOf
<1> QED BY <1>1, <1>2 DEF m

LEMMA NextRoundCounts ==
  ASSUME NEW l \in Conversation, CountsOf(l), l.at = "tools", l.open = {}
  PROVE  NextRound(l) \in Conversation /\ CountsOf(NextRound(l))
<1> DEFINE n == l.round + 1
           done == [l EXCEPT !.round = n]
<1>1. l.round \in Nat
  BY DEF Conversation
<1>2. n \in Nat
  BY <1>1
<1>3. NextRound(l) = IF done.round = MAX_TOOL_ROUNDS THEN Fails(done, "rounds")
                                                     ELSE Asks(done, "asking")
  BY DEF NextRound
<1> HIDE DEF n
<1>4. /\ done \in Conversation /\ done.round = n /\ done.calls = l.calls
      /\ done.open = {} /\ done.why = l.why
  BY <1>2 DEF Conversation
<1>5. l.calls = l.round + 1 /\ l.round < MAX_TOOL_ROUNDS /\ l.why = "none"
      /\ l.round \in Nat /\ l.calls \in Nat /\ MAX_TOOL_ROUNDS \in Nat
  BY LlmCallsAssumption DEF CountsOf, Conversation
<1> HIDE DEF done
<1>6. CASE done.round = MAX_TOOL_ROUNDS
  <2>1. Fails(done, "rounds") \in Conversation /\ CountsOf(Fails(done, "rounds"))
    BY <1>4, <1>6, FailedCounts
  <2> QED BY <1>3, <1>6, <2>1
<1>7. CASE done.round # MAX_TOOL_ROUNDS
  <2>1. done.calls = done.round /\ done.round < MAX_TOOL_ROUNDS
    BY <1>4, <1>5, <1>7 DEF n
  <2>2. Asks(done, "asking") \in Conversation /\ CountsOf(Asks(done, "asking"))
    BY <1>4, <1>5, <2>1, AskingCounts
  <2> QED BY <1>3, <1>7, <2>2
<1> QED BY <1>6, <1>7

LEMMA FirstCallCounts ==
  ASSUME NEW k
  PROVE  callLLMFn(k) \in Conversation /\ CountsOf(callLLMFn(k))
<1>1. /\ Idle \in Conversation /\ Idle.round = 0 /\ Idle.calls = 0
      /\ Idle.open = {} /\ Idle.why = "none"
  BY DEF Idle, Conversation
<1>2. 0 < MAX_TOOL_ROUNDS /\ 0 # MAX_TOOL_ROUNDS
  BY LlmCallsAssumption
<1>3. \A at \in {"asking", "forced"} :
        Asks(Idle, at) \in Conversation /\ CountsOf(Asks(Idle, at))
  BY <1>1, <1>2, AskingCounts
<1>4. Fails(Idle, "prompt") \in Conversation /\ CountsOf(Fails(Idle, "prompt"))
  BY <1>1, <1>2, FailedCounts
<1>5. \/ callLLMFn(k) = Fails(Idle, "prompt")
      \/ callLLMFn(k) = Asks(Idle, "forced") \/ callLLMFn(k) = Asks(Idle, "asking")
  BY DEF callLLMFn
<1> QED BY <1>3, <1>4, <1>5

(* A step of the loop of one task. *)
LEMMA LoopStepsCount ==
  ASSUME TypeOK, CallsInvariant, NEW t \in Task, phase[t] = "working",
         NEW l \in Conversation, CountsOf(l), LoopStep(t, l)
  PROVE  CallsInvariant'
<1>0. UNCHANGED <<phase, memo, keyOf, result, fired>>
  BY DEF LoopStep, vars
<1>1. loop' = [loop EXCEPT ![t] = l] /\ loop \in [Task -> Conversation]
  BY DEF LoopStep, CallsInvariant, CallTypes
<1>2. CallTypes'
  BY <1>0, <1>1 DEF CallsInvariant, CallTypes
<1>3. Shares'
  BY <1>0 DEF CallsInvariant, Shares
<1>4. Counts'
  BY <1>0, <1>1 DEF CallsInvariant, Counts, CountsOf
<1> QED BY <1>2, <1>3, <1>4 DEF CallsInvariant

LEMMA CallsStayRight == LlmSpec => []CallsInvariant
<1>1. LlmInit => CallsInvariant
  <2> SUFFICES ASSUME LlmInit PROVE CallsInvariant
    OBVIOUS
  <2>1. Idle \in Conversation /\ CountsOf(Idle)
    BY LlmCallsAssumption DEF Idle, Conversation, CountsOf
  <2>2. CallTypes
    BY <2>1 DEF LlmInit, Init, CallTypes
  <2>3. Shares
    BY DEF LlmInit, Shares
  <2>4. Counts
    BY <2>1 DEF LlmInit, Init, Counts
  <2> QED BY <2>2, <2>3, <2>4 DEF CallsInvariant
<1>2. TypeOK /\ CountsTheTasks /\ CallsInvariant /\ [LlmNext]_allVars => CallsInvariant'
  <2> SUFFICES ASSUME TypeOK, CountsTheTasks, CallsInvariant, [LlmNext]_allVars
               PROVE  CallsInvariant'
    OBVIOUS
  <2>0. phase \in [Task -> Phase] /\ memo \in [Key -> SUBSET Task]
        /\ loop \in [Task -> Conversation]
    BY DEF TypeOK, CallsInvariant, CallTypes
  <2>1. ASSUME NEW k \in Key, Fire(k) PROVE CallsInvariant'
    <3>0. loop' = loop /\ result' = result
      BY <2>1 DEF Fire
    <3>1. CASE memo[k] # {}
      <4>1. fired' = fired \cup {<<k, memo[k]>>} /\ UNCHANGED <<phase, memo, keyOf>>
        BY <2>1, <3>1 DEF Fire, vars
      <4> QED BY <2>0, <3>0, <3>1, <4>1 DEF CallsInvariant, CallTypes, Shares, Counts
    <3>2. CASE memo[k] = {} /\ ~ Resolves(k)
      <4>1. fired' = fired \cup {<<k, {}>>} /\ UNCHANGED <<phase, memo, keyOf>>
        BY <2>1, <3>2 DEF Fire, vars
      <4>2. CallTypes'
        BY <2>0, <3>0, <4>1 DEF CallsInvariant, CallTypes
      <4>3. Shares'
        <5>1. \A f \in fired : f[2] = memo[f[1]] /\ (f[2] = {} => ~ Resolves(f[1]))
          BY DEF CallsInvariant, Shares
        <5>2. \A f \in fired' : f \in fired \/ (f[1] = k /\ f[2] = {})
          BY <4>1
        <5> QED BY <3>2, <4>1, <5>1, <5>2 DEF CallsInvariant, Shares
      <4>4. Counts'
        BY <2>0, <3>0, <4>1 DEF CallsInvariant, Counts
      <4> QED BY <4>2, <4>3, <4>4 DEF CallsInvariant
    <3>3. CASE memo[k] = {} /\ Resolves(k)
      <4>1. PICK t \in Task :
              /\ Submit(t)
              /\ memo' = [memo EXCEPT ![k] = {t}] /\ keyOf' = [keyOf EXCEPT ![t] = k]
              /\ fired' = fired \cup {<<k, {t}>>}
        BY <2>1, <3>3 DEF Fire
      <4>2. phase[t] = "new" /\ phase' = [phase EXCEPT ![t] = "queued"]
        BY <4>1 DEF Submit
      <4>3. CallTypes'
        BY <2>0, <3>0, <4>1, <4>2 DEF CallsInvariant, CallTypes
      <4>4. \A f \in fired : f[1] # k
        BY <3>3 DEF CallsInvariant, Shares
      <4>5. Shares'
        <5>1. \A j \in Key : \A u \in memo'[j] : phase'[u] # "new" /\ keyOf'[u] = j
          BY <2>0, <4>1, <4>2 DEF CallsInvariant, CallTypes, Shares
        <5>2. \A j \in Key : memo'[j] # {} => Resolves(j)
          BY <2>0, <3>3, <4>1 DEF CallsInvariant, Shares
        <5>3. ASSUME NEW f \in fired' PROVE f[2] = memo'[f[1]] /\ (f[2] = {} => ~ Resolves(f[1]))
          <6>1. CASE f \in fired
            BY <2>0, <4>1, <4>4, <6>1 DEF CallsInvariant, CallTypes, Shares
          <6>2. CASE f = <<k, {t}>>
            BY <2>0, <4>1, <6>2
          <6> QED BY <4>1, <5>3, <6>1, <6>2
        <5> QED BY <5>1, <5>2, <5>3 DEF Shares
      <4>6. Counts'
        BY <2>0, <3>0, <4>2 DEF CallsInvariant, Counts
      <4> QED BY <4>3, <4>5, <4>6 DEF CallsInvariant
    <3> QED BY <3>1, <3>2, <3>3
  <2>2. CASE StartCall
    <3> DEFINE h == Head(queue)
               l == callLLMFn(keyOf[h])
    <3>1. loop' = [loop EXCEPT ![h] = l] /\ phase' = [phase EXCEPT ![h] = "working"]
          /\ UNCHANGED <<memo, keyOf, result, fired>> /\ queue # <<>>
      BY <2>2 DEF StartCall, Start
    <3>2. h \in Task
      BY <3>1 DEF TypeOK
    <3>3. l \in Conversation /\ CountsOf(l)
      BY FirstCallCounts
    <3>9. phase[h] = "queued"
      BY <3>1, HeadIsQueued
    <3> HIDE DEF h, l
    <3>4. CallTypes'
      BY <2>0, <3>1, <3>2, <3>3, <3>9 DEF CallsInvariant, CallTypes
    <3>5. Shares'
      BY <2>0, <3>1 DEF CallsInvariant, CallTypes, Shares
    <3>6. Counts'
      BY <2>0, <3>1, <3>2, <3>3 DEF CallsInvariant, Counts, CountsOf
    <3> QED BY <3>4, <3>5, <3>6 DEF CallsInvariant
  <2>3. CASE Pumped /\ UNCHANGED llmVars
    <3>1. UNCHANGED <<phase, memo, keyOf, loop, result, fired>>
      BY <2>3 DEF Pumped, llmVars
    <3> QED BY <3>1 DEF CallsInvariant, CallTypes, Shares, Counts, CountsOf
  <2>4. ASSUME NEW t \in Task, TaskStep(t) PROVE CallsInvariant'
    <3>0. /\ loop[t] \in Conversation /\ CountsOf(loop[t])
          /\ phase[t] # "new" => Tools(keyOf[t]) \subseteq ToolUse
      BY <2>0 DEF CallsInvariant, CallTypes, Counts, ToolUse
    <3>1. CASE Responds(t)
      <4>1. Done(loop[t]) \in Conversation /\ CountsOf(Done(loop[t]))
        BY <3>0, <3>1 DEF Responds, InLoop, Done, Conversation, CountsOf
      <4> QED BY <3>1, <4>1, LoopStepsCount DEF Responds, InLoop
    <3>2. CASE EndsWithText(t)
      <4>1. Asks(loop[t], "forced") \in Conversation /\ CountsOf(Asks(loop[t], "forced"))
        <5>1. loop[t].at = "asking" /\ loop[t].round \in Nat
          BY <3>0, <3>2 DEF EndsWithText, InLoop, Conversation
        <5> QED BY <3>0, <5>1, AsksIs DEF CountsOf
      <4> QED BY <3>2, <4>1, LoopStepsCount DEF EndsWithText, InLoop
    <3>3. CASE UsesTools(t)
      <4>1. PICK batch \in SUBSET (Tools(keyOf[t]) \cup {"unknown"}) :
              LoopStep(t, [loop[t] EXCEPT !.at = "tools", !.open = batch])
        BY <3>3 DEF UsesTools
      <4> DEFINE l == [loop[t] EXCEPT !.at = "tools", !.open = batch]
      <4>2. batch \subseteq ToolUse
        <5>1. Tools(keyOf[t]) \subseteq ToolUse
          BY <3>0, <3>3 DEF UsesTools, InLoop
        <5>2. "unknown" \in ToolUse
          BY DEF ToolUse
        <5> QED BY <4>1, <5>1, <5>2
      <4>3. l \in Conversation /\ CountsOf(l)
        BY <3>0, <3>3, <4>2 DEF UsesTools, InLoop, Conversation, CountsOf
      <4> QED BY <3>3, <4>1, <4>3, LoopStepsCount DEF UsesTools, InLoop
    <3>4. CASE ToolAnswers(t)
      <4>1. PICK use \in loop[t].open :
              LET rest == [loop[t] EXCEPT !.open = @ \ {use}] IN
              LoopStep(t, IF rest.open = {} THEN NextRound(rest) ELSE rest)
        BY <3>4 DEF ToolAnswers
      <4> DEFINE rest == [loop[t] EXCEPT !.open = @ \ {use}]
                 l == IF rest.open = {} THEN NextRound(rest) ELSE rest
      <4>2. rest \in Conversation /\ CountsOf(rest) /\ rest.at = "tools"
        BY <3>0, <3>4 DEF ToolAnswers, InLoop, Conversation, CountsOf
      <4> HIDE DEF rest
      <4>3. l \in Conversation /\ CountsOf(l)
        BY <4>2, NextRoundCounts
      <4>4. LoopStep(t, l)
        BY <4>1 DEF rest
      <4> QED BY <3>4, <4>3, <4>4, LoopStepsCount DEF ToolAnswers, InLoop
    <3>5. CASE ForcedReply(t)
      <4>1. Done(loop[t]) \in Conversation /\ CountsOf(Done(loop[t]))
        BY <3>0, <3>5 DEF ForcedReply, InLoop, Done, Conversation, CountsOf
      <4>2. Fails(loop[t], "no block") \in Conversation /\ CountsOf(Fails(loop[t], "no block"))
        BY <3>0, <3>5 DEF ForcedReply, InLoop, Fails, Conversation, CountsOf
      <4> QED BY <3>5, <4>1, <4>2, LoopStepsCount DEF ForcedReply, InLoop
    <3>6. CASE ApiFails(t)
      <4>1. Fails(loop[t], "api") \in Conversation /\ CountsOf(Fails(loop[t], "api"))
        BY <3>0, <3>6 DEF ApiFails, InLoop, Fails, Conversation, CountsOf
      <4> QED BY <3>6, <4>1, LoopStepsCount DEF ApiFails, InLoop
    <3>7. CASE Settle(t)
      <4>1. /\ phase' = [phase EXCEPT ![t] = "answered"]
            /\ result' = [result EXCEPT ![t] = IF loop[t].at = "done" THEN "something"
                                                                     ELSE "contradiction"]
            /\ UNCHANGED <<memo, keyOf, loop, fired>> /\ phase[t] = "working"
        BY <3>7 DEF Settle, Answer
      <4>2. CallTypes'
        BY <2>0, <4>1 DEF CallsInvariant, CallTypes
      <4>3. Shares'
        BY <2>0, <4>1 DEF CallsInvariant, CallTypes, Shares
      <4>4. Counts'
        BY <2>0, <4>1 DEF CallsInvariant, CallTypes, Counts
      <4> QED BY <4>2, <4>3, <4>4 DEF CallsInvariant
    <3>8. CASE Release(t) /\ UNCHANGED llmVars
      <4>1. /\ phase' = [phase EXCEPT ![t] = "released"] /\ phase[t] = "answered"
            /\ UNCHANGED <<memo, keyOf, loop, result, fired>>
        BY <3>8 DEF Release, llmVars
      <4>2. CallTypes'
        BY <2>0, <4>1 DEF CallsInvariant, CallTypes
      <4>3. Shares'
        BY <2>0, <4>1 DEF CallsInvariant, CallTypes, Shares
      <4>4. Counts'
        BY <2>0, <4>1 DEF CallsInvariant, Counts
      <4> QED BY <4>2, <4>3, <4>4 DEF CallsInvariant
    <3> QED BY <2>4, <3>1, <3>2, <3>3, <3>4, <3>5, <3>6, <3>7, <3>8 DEF TaskStep, LlmStep
  <2>5. ASSUME NEW c \in Caps, setCap(c) /\ UNCHANGED llmVars PROVE CallsInvariant'
    <3>1. UNCHANGED <<phase, memo, keyOf, loop, result, fired>>
      BY <2>5 DEF setCap, llmVars
    <3> QED BY <3>1 DEF CallsInvariant, CallTypes, Shares, Counts, CountsOf
  <2>6. CASE UNCHANGED allVars
    <3>1. UNCHANGED <<phase, memo, keyOf, loop, result, fired>>
      BY <2>6 DEF allVars, vars, llmVars
    <3> QED BY <3>1 DEF CallsInvariant, CallTypes, Shares, Counts, CountsOf
  <2> QED BY <2>1, <2>2, <2>3, <2>4, <2>5, <2>6 DEF LlmNext
<1> QED BY <1>1, <1>2, LlmCallsUseTheExecutor, ExecutorTypeCorrect,
            CountersAreRight, PTL DEF LlmSpec

(* One call of the model per arguments, whatever is fired, answered or     *)
(* failed in between.  (runtime/index.ts:182, 205-224)                     *)
THEOREM CallsAreShared == LlmSpec => []OneCallPerArguments
<1>1. CallsInvariant => OneCallPerArguments
  <2> SUFFICES ASSUME CallsInvariant PROVE OneCallPerArguments
    OBVIOUS
  <2>1. \A f \in fired : f[1] \in Key /\ f[2] = memo[f[1]]
    BY DEF CallsInvariant, CallTypes, Shares
  <2>2. \A f \in fired : f[2] = {} <=> ~ Resolves(f[1])
    BY <2>1 DEF CallsInvariant, Shares
  <2>3. \A j, k \in Key : j # k => memo[j] \cap memo[k] = {}
    BY DEF CallsInvariant, Shares
  <2> QED BY <2>1, <2>2, <2>3 DEF OneCallPerArguments
<1> QED BY <1>1, CallsStayRight, PTL

(* For any bound on the rounds and any answers of the model and the tools: *)
(* the calls made, the tool uses answered and the result of a failure.     *)
(* (llmfn-client.ts:94-147, 163-203, runtime/index.ts:219-223)             *)
THEOREM LoopsAreCounted == LlmSpec => []CallsOfTheLoop
<1>1. CallsInvariant => CallsOfTheLoop
  BY DEF CallsInvariant, Counts, CountsOf, CallsOfTheLoop
<1> QED BY <1>1, CallsStayRight, PTL
=============================================================================
