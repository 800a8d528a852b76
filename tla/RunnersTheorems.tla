--------------------------- MODULE RunnersTheorems ---------------------------
(***************************************************************************)
(* For every network, every ranking and both runners: the runner is one of *)
(* the firing orders of the abstract propagation, and the set that run     *)
(* keeps beside its queue mirrors it.                                      *)
(***************************************************************************)
EXTENDS Runners, InfoStructureTheorems

-----------------------------------------------------------------------------
(* The part of the type invariant the refinement needs. *)
QueueType ==
  /\ coalesce \in BOOLEAN /\ ranked \in Rankings
  /\ queue \in Seq(Prop) /\ notify \in Seq(Prop)
  /\ (~ coalesce => queued = {})

LEMMA RankedType ==
  ASSUME NEW r \in Rankings
  PROVE  r \in Seq(Prop) /\ Range(r) = Prop /\ IsInjective(r)
BY RankingsAssumption

LEMMA ReadersType ==
  ASSUME NEW c \in Cell
  PROVE  Readers[c] \in Seq(Prop) /\ Range(Readers[c]) = Neighbors(c)
BY ReadersAssumption

LEMMA QueueTypeInvariant == Spec => []QueueType
<1>1. Init => QueueType
  BY RankedType, EmptyRange DEF Init, QueueType, Names
<1>2. QueueType /\ [Next]_vars => QueueType'
  <2> SUFFICES ASSUME QueueType, [Next]_vars PROVE QueueType'
    OBVIOUS
  <2>1. ASSUME NEW p \in Prop, Activate(p) PROVE QueueType'
    <3>1. Tail(queue) \in Seq(Prop) /\ Readers[To[p]] \in Seq(Prop)
      BY <2>1, RangeShift, ReadersType, NetworkAssumption DEF Activate, Shift, QueueType
    <3> QED BY <2>1, <3>1 DEF Activate, Dropped, QueueType
  <2>2. ASSUME NEW p \in Prop, Recurse(p) PROVE QueueType'
    BY <2>2, RankedType DEF Recurse, QueueType, Names
  <2>3. ASSUME NEW p \in Prop, Wait(p) PROVE QueueType'
    BY <2>3, RangeShift DEF Wait, Shift, Dropped, QueueType
  <2>4. CASE Enqueue
    <3>1. Head(notify) \in Prop /\ Tail(notify) \in Seq(Prop)
          /\ Append(queue, Head(notify)) \in Seq(Prop)
      BY <2>4, RangeShift, RangePush DEF Enqueue, QueueType
    <3> QED BY <2>4, <3>1 DEF Enqueue, QueueType
  <2>5. CASE Finish
    BY <2>5 DEF Finish, QueueType
  <2>6. CASE UNCHANGED vars
    BY <2>6 DEF vars, QueueType
  <2> QED BY <2>1, <2>2, <2>3, <2>4, <2>5, <2>6 DEF Next
<1> QED BY <1>1, <1>2, PTL DEF Spec

-----------------------------------------------------------------------------
(* What the network computes is a structure, whatever its cells hold: the  *)
(* lemmas of PropagationTheorems, here for the cells of a runner.          *)

LEMMA ApplyType ==
  ASSUME NEW p \in Prop, Kind[p] # "recursive", NEW t \in [1 .. Arity(p) -> Raw]
  PROVE  Apply(p, t) \in Result
<1>1. Kind[p] = "function" \/ Kind[p] = "switch"
  BY NetworkAssumption
<1>2. CASE Kind[p] = "function"
  BY <1>2, FnAssumption DEF Apply
<1>3. CASE Kind[p] = "switch"
  <2>1. Arity(p) = 2
    BY <1>3, NetworkAssumption
  <2>2. t[2] \in Raw
    BY <2>1
  <2>3. Raw \subseteq Result /\ Null \in Result
    BY DEF Result
  <2> QED BY <1>3, <2>2, <2>3 DEF Apply
<1> QED BY <1>1, <1>2, <1>3

LEMMA FromType ==
  ASSUME NEW p \in Prop
  PROVE  /\ Arity(p) \in Nat
         /\ \A i \in 1 .. Arity(p) : From[p][i] \in Cell
         /\ To[p] \in Cell
         /\ Kind[p] # "recursive" => Arity(p) \in 1 .. MaxArity
<1>1. From[p] \in Seq(Cell) /\ To[p] \in Cell
  BY NetworkAssumption
<1>2. Arity(p) \in Nat /\ \A i \in 1 .. Arity(p) : From[p][i] \in Cell
  BY <1>1, ElementOfSeq, LenProperties DEF Arity
<1>3. Kind[p] # "recursive" => Arity(p) \in 1 .. MaxArity
  BY NetworkAssumption
<1> QED BY <1>1, <1>2, <1>3

LEMMA InputsType ==
  ASSUME NEW p \in Prop, NEW content \in Structures
  PROVE  /\ [i \in 1 .. Arity(p) |-> content[From[p][i]]] \in Seq(Info)
         /\ Len([i \in 1 .. Arity(p) |-> content[From[p][i]]]) = Arity(p)
<1>1. Arity(p) \in Nat /\ \A i \in 1 .. Arity(p) : content[From[p][i]] \in Info
  BY FromType DEF Structures, MaxArity
<1> DEFINE n == Arity(p)
           e(i) == content[From[p][i]]
<1>2. n \in Nat /\ \A i \in 1 .. n : e(i) \in Info
  BY <1>1
<1> HIDE DEF n, e
<1>3. [i \in 1 .. n |-> e(i)] \in Seq(Info) /\ Len([i \in 1 .. n |-> e(i)]) = n
  BY <1>2
<1> QED BY <1>3 DEF n, e

LEMMA ComputeType ==
  ASSUME NEW p \in Prop, Kind[p] # "recursive", NEW content \in Structures
  PROVE  Compute(p, content) \in Info
<1> DEFINE f == [t \in [1 .. Arity(p) -> Raw] |-> Apply(p, t)]
           s == [i \in 1 .. Arity(p) |-> content[From[p][i]]]
<1>1. s \in Seq(Info) /\ Len(s) = Arity(p)
  BY InputsType
<1>2. Len(s) \in 1 .. MaxArity
  BY <1>1, FromType
<1>3. \A t \in [1 .. Len(s) -> Raw] : f[t] \in Result
  BY <1>1, ApplyType
<1>4. NaryUnpack(f, s) \in Info
  <2> HIDE DEF f, s
  <2> QED BY <1>1, <1>2, <1>3, NaryUnpackType
<1>5. As[p] \in Coercion
  BY NetworkAssumption
<1> QED BY <1>4, <1>5, CoerceType DEF Compute

LEMMA SignatureType ==
  ASSUME NEW p \in Prop, Kind[p] = "recursive"
  PROVE  Len(Signature) \in Nat /\ Arity(p) \in Nat /\ Len(Signature) <= Arity(p)
<1>1. Len(Signature) \in Nat
  BY NetworkAssumption, LenProperties
<1>2. Arity(p) \in Nat
  BY FromType
<1>3. Len(Signature) <= Arity(p)
  BY NetworkAssumption
<1> QED BY <1>1, <1>2, <1>3

LEMMA RestartedType ==
  ASSUME NEW p \in Prop, Kind[p] = "recursive", NEW content \in Structures
  PROVE  Restarted(p, content) \in Structures
<1>1. ASSUME NEW c \in Cell, Mapped(c)
      PROVE  content[From[p][CHOOSE i \in 1 .. Len(Signature) : Signature[i] = c]] \in Info
  <2> DEFINE j == CHOOSE i \in 1 .. Len(Signature) : Signature[i] = c
  <2>1. j \in 1 .. Len(Signature)
    BY <1>1 DEF Mapped
  <2>2. j \in 1 .. Arity(p)
    BY <2>1, SignatureType
  <2> HIDE DEF j
  <2>3. content[From[p][j]] \in Info
    BY <2>2, FromType DEF Structures
  <2> QED BY <2>3 DEF j
<1>2. \A c \in Cell : Initial[c] \in Info
  BY NetworkAssumption
<1>3. ASSUME NEW c \in Cell
      PROVE  (IF Mapped(c)
              THEN content[From[p][CHOOSE i \in 1 .. Len(Signature) : Signature[i] = c]]
              ELSE Initial[c]) \in Info
  BY <1>1, <1>2, <1>3
<1> QED BY <1>3 DEF Restarted, Structures

LEMMA InvokedType ==
  ASSUME NEW in \in Inputs
  PROVE  Invoked(in) \in Structures
<1>1. \A c \in Cell : Initial[c] \in Info /\ (c \in DOMAIN in => in[c] \in Info)
  BY NetworkAssumption
<1> QED BY <1>1 DEF Invoked, Structures

(* The cells of both runners hold structures, their queues and messages    *)
(* propagators of the network.                                             *)
THEOREM RunnersTypeCorrect == Spec => []TypeOK
<1>1. Init => TypeOK
  <2> SUFFICES ASSUME Init PROVE TypeOK
    OBVIOUS
  <2>1. cells \in Structures
    BY InvokedType DEF Init
  <2>2. ranked \in Rankings /\ ranked \in Seq(Prop) /\ Range(ranked) = Prop
    BY RankedType DEF Init
  <2>3. queued \subseteq Prop
    BY <2>2 DEF Init, Names
  <2> QED BY <2>1, <2>2, <2>3 DEF Init, TypeOK
<1>2. QueueType /\ TypeOK /\ [Next]_vars => TypeOK'
  <2> SUFFICES ASSUME QueueType, TypeOK, [Next]_vars PROVE TypeOK'
    OBVIOUS
  <2>1. ASSUME NEW p \in Prop, Activate(p) PROVE TypeOK'
    <3>1. Compute(p, cells) \in Info /\ To[p] \in Cell /\ cells[To[p]] \in Info
      BY <2>1, ComputeType, FromType DEF TypeOK, Activate, Structures
    <3>2. Merge(cells[To[p]], Compute(p, cells)) \in Info
      BY <3>1, MergeType
    <3>3. cells' = [cells EXCEPT ![To[p]] = Merge(cells[To[p]], Compute(p, cells))]
      BY <2>1 DEF Activate
    <3>4. cells' \in Structures /\ seed' \in Structures
      BY <2>1, <3>2, <3>3 DEF Activate, TypeOK, Structures
    <3>5. Tail(queue) \in Seq(Prop) /\ Readers[To[p]] \in Seq(Prop)
      BY <2>1, <3>1, RangeShift, ReadersType DEF Activate, Shift, QueueType
    <3>6. /\ queue' \in Seq(Prop) /\ notify' \in Seq(Prop) /\ queued' \subseteq Prop
          /\ status' \in {"running", "done", "exit"}
      BY <2>1, <3>5 DEF Activate, Dropped, TypeOK
    <3> QED BY <2>1, <3>4, <3>6 DEF Activate, TypeOK
  <2>2. ASSUME NEW p \in Prop, Recurse(p) PROVE TypeOK'
    <3>1. ranked \in Seq(Prop) /\ Range(ranked) = Prop
      BY RankedType DEF TypeOK
    <3>2. cells' \in Structures /\ seed' \in Structures
      BY <2>2, RestartedType DEF Recurse, TypeOK
    <3> QED BY <2>2, <3>1, <3>2 DEF Recurse, Names, TypeOK
  <2>3. ASSUME NEW p \in Prop, Wait(p) PROVE TypeOK'
    <3>1. Tail(queue) \in Seq(Prop)
      BY <2>3, RangeShift DEF Wait, Shift, QueueType
    <3> QED BY <2>3, <3>1 DEF Wait, Dropped, TypeOK
  <2>4. CASE Enqueue
    <3>1. Head(notify) \in Prop /\ Tail(notify) \in Seq(Prop)
          /\ Append(queue, Head(notify)) \in Seq(Prop)
      BY <2>4, RangeShift, RangePush DEF Enqueue, QueueType
    <3> QED BY <2>4, <3>1 DEF Enqueue, TypeOK
  <2>5. CASE Finish
    BY <2>5 DEF Finish, TypeOK
  <2>6. CASE UNCHANGED vars
    BY <2>6 DEF vars, TypeOK
  <2> QED BY <2>1, <2>2, <2>3, <2>4, <2>5, <2>6 DEF Next
<1> QED BY <1>1, <1>2, QueueTypeInvariant, PTL DEF Spec

-----------------------------------------------------------------------------
(* The set kept beside the queue never goes stale, also across a restart. *)
THEOREM QueuedIsTheQueue == Spec => []QueuedMirrorsQueue
<1>1. Init => QueuedMirrorsQueue
  BY RankedType DEF Init, QueuedMirrorsQueue, Names
<1>2. QueueType /\ QueuedMirrorsQueue /\ [Next]_vars => QueuedMirrorsQueue'
  <2> SUFFICES ASSUME QueueType, QueuedMirrorsQueue, [Next]_vars, coalesce'
               PROVE  queued' = Range(queue') /\ IsInjective(queue')
    BY DEF QueuedMirrorsQueue
  <2>0. coalesce
    BY DEF Next, Activate, Recurse, Wait, Enqueue, Finish, vars
  <2>1. ASSUME NEW p \in Prop, Shift(p), Dropped(p)
        PROVE  queued' = Range(queue') /\ IsInjective(queue')
    <3>1. /\ Range(queue) = {p} \cup Range(Tail(queue))
          /\ IsInjective(Tail(queue)) /\ p \notin Range(Tail(queue))
      BY <2>0, <2>1, RangeShift DEF Shift, QueueType, QueuedMirrorsQueue
    <3>2. queue' = Tail(queue) /\ queued' = queued \ {p} /\ queued = Range(queue)
      BY <2>0, <2>1 DEF Dropped, QueuedMirrorsQueue
    <3>3. queued' = Range(Tail(queue))
      BY <3>1, <3>2
    <3> QED BY <3>1, <3>2, <3>3
  <2>2. ASSUME NEW p \in Prop, Activate(p)
        PROVE  queued' = Range(queue') /\ IsInjective(queue')
    BY <2>1, <2>2 DEF Activate
  <2>3. ASSUME NEW p \in Prop, Recurse(p)
        PROVE  queued' = Range(queue') /\ IsInjective(queue')
    BY <2>0, <2>3, RankedType DEF Recurse, QueueType, Names
  <2>4. ASSUME NEW p \in Prop, Wait(p)
        PROVE  queued' = Range(queue') /\ IsInjective(queue')
    BY <2>1, <2>4 DEF Wait
  <2>5. ASSUME Enqueue
        PROVE  queued' = Range(queue') /\ IsInjective(queue')
    <3> DEFINE h == Head(notify)
    <3>1. h \in Prop /\ queued = Range(queue) /\ IsInjective(queue) /\ queue \in Seq(Prop)
      BY <2>0, <2>5, RangeShift DEF Enqueue, QueueType, QueuedMirrorsQueue
    <3>2. CASE h \in queued
      BY <2>0, <2>5, <3>1, <3>2 DEF Enqueue
    <3>3. CASE h \notin queued
      <4>1. queue' = Append(queue, h) /\ queued' = queued \cup {h}
        BY <2>0, <2>5, <3>3 DEF Enqueue
      <4> HIDE DEF h
      <4>2. Range(Append(queue, h)) = Range(queue) \cup {h} /\ IsInjective(Append(queue, h))
        BY <3>1, <3>3, RangePush
      <4> QED BY <3>1, <4>1, <4>2
    <3> QED BY <3>2, <3>3
  <2>6. CASE Finish
    BY <2>0, <2>6 DEF Finish, QueuedMirrorsQueue
  <2>7. CASE UNCHANGED vars
    BY <2>0, <2>7 DEF vars, QueuedMirrorsQueue
  <2> QED BY <2>2, <2>3, <2>4, <2>5, <2>6, <2>7 DEF Next
<1> QED BY <1>1, <1>2, QueueTypeInvariant, PTL DEF Spec

-----------------------------------------------------------------------------
(* Refinement: the waiting propagators are those in the queue and those    *)
(* the last message still has to enqueue.                                  *)

LEMMA ShiftRest ==
  ASSUME QueueType, NEW p \in Prop, Shift(p), Dropped(p),
         NEW new \in SUBSET Prop, Range(notify') = new
  PROVE  /\ p \in Waiting
         /\ \E rest \in Abstract!Rest(p) : Waiting' = rest \cup new
<1>1. Range(queue) = {p} \cup Range(Tail(queue)) /\ Range(notify) = {}
  BY RangeShift, EmptyRange DEF Shift, QueueType
<1>2. Waiting = Range(queue) /\ Waiting' = Range(Tail(queue)) \cup new
  BY <1>1 DEF Waiting, Dropped
<1>3. Range(Tail(queue)) = Waiting \ {p} \/ Range(Tail(queue)) = Waiting
  BY <1>1, <1>2
<1> QED BY <1>1, <1>2, <1>3 DEF Abstract!Rest

LEMMA ActivateImplements ==
  ASSUME QueueType, NEW p \in Prop, Activate(p)
  PROVE  Abstract!Activate(p)
<1> DEFINE out == To[p]
           after == Merge(cells[out], Compute(p, cells))
<1>1. /\ Shift(p) /\ Dropped(p) /\ Kind[p] # "recursive" /\ status = "running"
      /\ cells' = [cells EXCEPT ![out] = after] /\ seed' = seed
  BY DEF Activate, Shift
<1>2. notify = <<>> /\ out \in Cell
  BY <1>1, NetworkAssumption DEF Shift
<1>3. CASE after = Contradiction \/ after = cells[out]
  <2>1. notify' = <<>>
    BY <1>2, <1>3 DEF Activate
  <2>2. p \in Waiting /\ \E rest \in Abstract!Rest(p) : Waiting' = rest \cup {}
    BY <1>1, <2>1, EmptyRange, ShiftRest
  <2>3. p \in Waiting /\ Waiting' \in Abstract!Rest(p)
    BY <2>2
  <2>4. (after = Contradiction /\ status' = "exit") \/ (after # Contradiction /\ status' = status)
    BY <1>3 DEF Activate
  <2> QED BY <1>1, <1>3, <2>3, <2>4 DEF Abstract!Activate
<1>4. CASE after # Contradiction /\ after # cells[out]
  <2>1. notify' = Readers[out] /\ status' = status
    BY <1>4 DEF Activate
  <2>2. Range(notify') = Neighbors(out) /\ Neighbors(out) \in SUBSET Prop
    BY <1>2, <2>1, ReadersType DEF Neighbors
  <2>3. p \in Waiting /\ \E rest \in Abstract!Rest(p) : Waiting' = rest \cup Neighbors(out)
    BY <1>1, <2>2, ShiftRest
  <2> QED BY <1>1, <1>4, <2>1, <2>3 DEF Abstract!Activate
<1> QED BY <1>3, <1>4

(* Every runner, on every network and ranking, implements the abstract     *)
(* propagation, so all that is proved of it holds of run and asyncRun.     *)
THEOREM RunnersImplementPropagation == Spec => ImplementsPropagation
<1>1. Init => Abstract!Init
  <2> SUFFICES ASSUME Init PROVE Abstract!Init
    OBVIOUS
  <2>1. Waiting = Prop
    BY RankedType, EmptyRange DEF Init, Waiting
  <2> QED BY <2>1 DEF Init, Abstract!Init, Invocations
<1>2. QueueType /\ QueuedMirrorsQueue /\ [Next]_vars => [Abstract!Next]_(Abstract!vars)
  <2> SUFFICES ASSUME QueueType, QueuedMirrorsQueue, [Next]_vars
               PROVE  [Abstract!Next]_(Abstract!vars)
    OBVIOUS
  <2>1. ASSUME NEW p \in Prop, Activate(p) PROVE Abstract!Next
    BY <2>1, ActivateImplements DEF Abstract!Next
  <2>2. ASSUME NEW p \in Prop, Recurse(p) PROVE Abstract!Next
    <3>1. p \in Waiting
      BY <2>2, RangeShift DEF Recurse, Shift, QueueType, Waiting
    <3>2. Waiting' = Prop
      BY <2>2, RankedType, EmptyRange DEF Recurse, Shift, QueueType, Waiting
    <3>3. Abstract!Recurse(p)
      BY <2>2, <3>1, <3>2 DEF Recurse, Shift, Abstract!Recurse
    <3> QED BY <3>3 DEF Abstract!Next
  <2>3. ASSUME NEW p \in Prop, Wait(p) PROVE Abstract!Next
    <3>1. Range(notify') = {}
      BY <2>3, EmptyRange DEF Wait, Shift
    <3>2. p \in Waiting /\ \E rest \in Abstract!Rest(p) : Waiting' = rest \cup {}
      BY <2>3, <3>1, ShiftRest DEF Wait
    <3>3. p \in Waiting /\ Waiting' \in Abstract!Rest(p)
      BY <3>2
    <3>4. Abstract!Wait(p)
      BY <2>3, <3>3 DEF Wait, Shift, Abstract!Wait
    <3> QED BY <3>4 DEF Abstract!Next
  <2>4. CASE Enqueue
    <3>1. Range(notify) = {Head(notify)} \cup Range(Tail(notify)) /\ Head(notify) \in Prop
      BY <2>4, RangeShift DEF Enqueue, QueueType
    <3>2. Range(Append(queue, Head(notify))) = Range(queue) \cup {Head(notify)}
      BY <3>1, RangePush DEF QueueType
    <3>3. CASE coalesce /\ Head(notify) \in queued
      <4>1. Head(notify) \in Range(queue)
        BY <3>3 DEF QueuedMirrorsQueue
      <4>2. queue' = queue /\ notify' = Tail(notify)
        BY <2>4, <3>3 DEF Enqueue
      <4>3. Waiting' = Waiting
        BY <3>1, <4>1, <4>2 DEF Waiting
      <4> QED BY <2>4, <4>3 DEF Enqueue, Abstract!vars
    <3>4. CASE ~ (coalesce /\ Head(notify) \in queued)
      <4>1. Waiting' = Waiting
        BY <2>4, <3>1, <3>2, <3>4 DEF Enqueue, Waiting
      <4> QED BY <2>4, <4>1 DEF Enqueue, Abstract!vars
    <3> QED BY <3>3, <3>4
  <2>5. CASE Finish
    <3>1. Waiting = {} /\ Waiting' = Waiting
      BY <2>5, EmptyRange DEF Finish, Waiting
    <3> QED BY <2>5, <3>1 DEF Finish, Abstract!Finish, Abstract!Next
  <2>6. CASE UNCHANGED vars
    BY <2>6 DEF vars, Abstract!vars, Waiting
  <2> QED BY <2>1, <2>2, <2>3, <2>4, <2>5, <2>6 DEF Next
<1> QED BY <1>1, <1>2, QueueTypeInvariant, QueuedIsTheQueue, PTL
        DEF Spec, ImplementsPropagation, Abstract!Spec
=============================================================================
