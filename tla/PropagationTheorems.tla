------------------------- MODULE PropagationTheorems -------------------------
(***************************************************************************)
(* For every network: the cells always hold structures, no wake-up is      *)
(* lost, a normal end is a fixpoint, and only a recursive call forgets.    *)
(* NoLostWakeup is inductive together with the type invariant; it rests on *)
(* Merge being associative, commutative and idempotent, and on a           *)
(* propagator's output depending on its input cells alone.                 *)
(*                                                                         *)
(* For every network of monotone propagators, moreover, the result of a    *)
(* run does not depend on the firing order.  The inductive invariant is    *)
(* that the cells are above the seed and below every fixpoint above it.    *)
(***************************************************************************)
EXTENDS MonotonePropagation, InfoStructureTheorems, SequenceTheorems, TLAPS

LEMMA ApplyType ==
  ASSUME NEW p \in Prop, Kind[p] # "recursive", NEW t \in [1 .. Arity(p) -> Raw]
  PROVE  Apply(p, t) \in Result
<1>1. Kind[p] = "function" \/ Kind[p] = "switch"
  BY NetworkAssumption
<1>2. CASE Kind[p] = "function"
  BY <1>2, FnAssumption DEF Apply
<1>3. CASE Kind[p] = "switch"
  <2>1. Arity(p) = 2
    BY <1>3, NetworkAssumption
  <2>2. t[2] \in Raw
    BY <2>1
  <2>3. Raw \subseteq Result /\ Null \in Result
    BY DEF Result
  <2> QED BY <1>3, <2>2, <2>3 DEF Apply
<1> QED BY <1>1, <1>2, <1>3

LEMMA FromType ==
  ASSUME NEW p \in Prop
  PROVE  /\ Arity(p) \in Nat
         /\ \A i \in 1 .. Arity(p) : From[p][i] \in Cell
         /\ To[p] \in Cell
         /\ Kind[p] # "recursive" => Arity(p) \in 1 .. MaxArity
<1>1. From[p] \in Seq(Cell) /\ To[p] \in Cell
  BY NetworkAssumption
<1>2. Arity(p) \in Nat /\ \A i \in 1 .. Arity(p) : From[p][i] \in Cell
  BY <1>1, ElementOfSeq, LenProperties DEF Arity
<1>3. Kind[p] # "recursive" => Arity(p) \in 1 .. MaxArity
  BY NetworkAssumption
<1> QED BY <1>1, <1>2, <1>3

LEMMA InputsType ==
  ASSUME NEW p \in Prop, NEW content \in Structures
  PROVE  /\ [i \in 1 .. Arity(p) |-> content[From[p][i]]] \in Seq(Info)
         /\ Len([i \in 1 .. Arity(p) |-> content[From[p][i]]]) = Arity(p)
<1>1. Arity(p) \in Nat /\ \A i \in 1 .. Arity(p) : content[From[p][i]] \in Info
  BY FromType DEF Structures, MaxArity
<1> DEFINE n == Arity(p)
           e(i) == content[From[p][i]]
<1>2. n \in Nat /\ \A i \in 1 .. n : e(i) \in Info
  BY <1>1
<1> HIDE DEF n, e
<1>3. [i \in 1 .. n |-> e(i)] \in Seq(Info) /\ Len([i \in 1 .. n |-> e(i)]) = n
  BY <1>2
<1> QED BY <1>3 DEF n, e

LEMMA ComputeType ==
  ASSUME NEW p \in Prop, Kind[p] # "recursive", NEW content \in Structures
  PROVE  Compute(p, content) \in Info
<1> DEFINE f == [t \in [1 .. Arity(p) -> Raw] |-> Apply(p, t)]
           s == [i \in 1 .. Arity(p) |-> content[From[p][i]]]
<1>1. s \in Seq(Info) /\ Len(s) = Arity(p)
  BY InputsType
<1>2. Len(s) \in 1 .. MaxArity
  BY <1>1, FromType
<1>3. \A t \in [1 .. Len(s) -> Raw] : f[t] \in Result
  BY <1>1, ApplyType
<1>4. NaryUnpack(f, s) \in Info
  <2> HIDE DEF f, s
  <2> QED BY <1>1, <1>2, <1>3, NaryUnpackType
<1>5. As[p] \in Coercion
  BY NetworkAssumption
<1> QED BY <1>4, <1>5, CoerceType DEF Compute

(* What a propagator computes depends on its input cells alone. *)
LEMMA ComputeLocal ==
  ASSUME NEW p \in Prop, NEW c1, NEW c2,
         \A i \in 1 .. Arity(p) : c1[From[p][i]] = c2[From[p][i]]
  PROVE  Compute(p, c1) = Compute(p, c2)
<1>1. [i \in 1 .. Arity(p) |-> c1[From[p][i]]] = [i \in 1 .. Arity(p) |-> c2[From[p][i]]]
  OBVIOUS
<1> QED BY <1>1, Zenon DEF Compute

LEMMA SignatureType ==
  ASSUME NEW p \in Prop, Kind[p] = "recursive"
  PROVE  Len(Signature) \in Nat /\ Arity(p) \in Nat /\ Len(Signature) <= Arity(p)
<1>1. Len(Signature) \in Nat
  BY NetworkAssumption, LenProperties
<1>2. Arity(p) \in Nat
  BY FromType
<1>3. Len(Signature) <= Arity(p)
  BY NetworkAssumption
<1> QED BY <1>1, <1>2, <1>3

LEMMA ReadyLocal ==
  ASSUME NEW p \in Prop, Kind[p] = "recursive", NEW c1, NEW c2,
         \A i \in 1 .. Arity(p) : c1[From[p][i]] = c2[From[p][i]]
  PROVE  Ready(p, c1) <=> Ready(p, c2)
<1>1. Len(Signature) \in Nat /\ Arity(p) \in Nat /\ Len(Signature) <= Arity(p)
  BY SignatureType
<1>2. \A i \in 1 .. Len(Signature) : c1[From[p][i]] = c2[From[p][i]]
  <2> TAKE i \in 1 .. Len(Signature)
  <2>1. i \in 1 .. Arity(p)
    BY <1>1
  <2> QED BY <2>1
<1> QED BY <1>2 DEF Ready

LEMMA RestartedType ==
  ASSUME NEW p \in Prop, Kind[p] = "recursive", NEW content \in Structures
  PROVE  Restarted(p, content) \in Structures
<1>1. ASSUME NEW c \in Cell, Mapped(c)
      PROVE  content[From[p][CHOOSE i \in 1 .. Len(Signature) : Signature[i] = c]] \in Info
  <2> DEFINE j == CHOOSE i \in 1 .. Len(Signature) : Signature[i] = c
  <2>1. j \in 1 .. Len(Signature)
    BY <1>1 DEF Mapped
  <2>2. j \in 1 .. Arity(p)
    BY <2>1, SignatureType
  <2> HIDE DEF j
  <2>3. content[From[p][j]] \in Info
    BY <2>2, FromType DEF Structures
  <2> QED BY <2>3 DEF j
<1>2. \A c \in Cell : Initial[c] \in Info
  BY NetworkAssumption
<1>3. ASSUME NEW c \in Cell
      PROVE  (IF Mapped(c)
              THEN content[From[p][CHOOSE i \in 1 .. Len(Signature) : Signature[i] = c]]
              ELSE Initial[c]) \in Info
  BY <1>1, <1>2, <1>3
<1> QED BY <1>3 DEF Restarted, Structures

LEMMA InvokedType ==
  ASSUME NEW in \in Inputs
  PROVE  Invoked(in) \in Structures
<1>1. \A c \in Cell : Initial[c] \in Info /\ (c \in DOMAIN in => in[c] \in Info)
  BY NetworkAssumption
<1> QED BY <1>1 DEF Invoked, Structures

-----------------------------------------------------------------------------
(* The cells hold structures and only propagators of the network wait. *)
THEOREM PropagationTypeCorrect == Spec => []TypeOK
<1>1. Init => TypeOK
  BY InvokedType DEF Init, TypeOK, Invocations
<1>2. TypeOK /\ [Next]_vars => TypeOK'
  <2> SUFFICES ASSUME TypeOK, [Next]_vars PROVE TypeOK'
    OBVIOUS
  <2>1. ASSUME NEW p \in Prop, Activate(p) PROVE TypeOK'
    <3>1. Compute(p, cells) \in Info /\ To[p] \in Cell /\ cells[To[p]] \in Info
      BY <2>1, ComputeType, FromType DEF TypeOK, Activate, Structures
    <3>2. Merge(cells[To[p]], Compute(p, cells)) \in Info
      BY <3>1, MergeType
    <3>3. cells' = [cells EXCEPT ![To[p]] = Merge(cells[To[p]], Compute(p, cells))]
      BY <2>1 DEF Activate
    <3>4. cells' \in Structures
      BY <3>2, <3>3 DEF TypeOK, Structures
    <3>5. pending' \subseteq Prop /\ status' \in {"running", "done", "exit"} /\ seed' = seed
      BY <2>1 DEF Activate, Rest, Neighbors, TypeOK
    <3> QED BY <3>4, <3>5 DEF TypeOK
  <2>2. ASSUME NEW p \in Prop, Recurse(p) PROVE TypeOK'
    BY <2>2, RestartedType DEF Recurse, TypeOK
  <2>3. ASSUME NEW p \in Prop, Wait(p) PROVE TypeOK'
    BY <2>3 DEF Wait, Rest, TypeOK
  <2>4. CASE Finish
    BY <2>4 DEF Finish, TypeOK
  <2>5. CASE UNCHANGED vars
    BY <2>5 DEF vars, TypeOK
  <2> QED BY <2>1, <2>2, <2>3, <2>4, <2>5 DEF Next
<1> QED BY <1>1, <1>2, PTL DEF Spec

-----------------------------------------------------------------------------
(* Settled propagators stay settled unless an input cell changes: the      *)
(* output cell only moves up.                                              *)
LEMMA SettledKept ==
  ASSUME TypeOK, TypeOK', NEW q \in Prop, NEW out \in Cell, NEW r \in Info,
         cells' = [cells EXCEPT ![out] = Merge(cells[out], r)],
         cells'[out] # Contradiction,
         \A i \in 1 .. Arity(q) : cells'[From[q][i]] = cells[From[q][i]],
         Settled(q)
  PROVE  Settled(q)'
<1>1. CASE Kind[q] = "recursive"
  BY <1>1, ReadyLocal DEF Settled
<1>2. CASE Kind[q] # "recursive"
  <2>1. Compute(q, cells') = Compute(q, cells)
    BY ComputeLocal
  <2>2. Compute(q, cells) \in Info
    BY <1>2, ComputeType DEF TypeOK
  <2>3. Merge(cells[To[q]], Compute(q, cells)) = cells[To[q]] /\ cells[To[q]] # Contradiction
    BY <1>2 DEF Settled
  <2>4. Merge(cells'[To[q]], Compute(q, cells)) = cells'[To[q]]
    <3>1. CASE To[q] # out
      BY <2>3, <3>1 DEF TypeOK, Structures
    <3>2. CASE To[q] = out
      <4> DEFINE b == cells[out]
                 k == Compute(q, cells)
      <4>1. b \in Info /\ k \in Info /\ Merge(b, k) = b
        BY <2>2, <2>3, <3>2 DEF TypeOK, Structures
      <4>2. cells'[To[q]] = Merge(b, r)
        BY <3>2 DEF TypeOK, Structures
      <4> HIDE DEF b, k
      <4>3. Merge(Merge(b, r), k) = Merge(b, Merge(r, k))
        BY <4>1, MergeAssociative
      <4>4. Merge(r, k) = Merge(k, r)
        BY <4>1, MergeCommutative
      <4>5. Merge(b, Merge(k, r)) = Merge(Merge(b, k), r)
        BY <4>1, MergeAssociative
      <4>6. Merge(Merge(b, r), k) = Merge(b, r)
        BY <4>1, <4>3, <4>4, <4>5
      <4> QED BY <4>2, <4>6 DEF k
    <3> QED BY <3>1, <3>2
  <2>5. cells'[To[q]] # Contradiction
    BY <2>3, FromType DEF TypeOK, Structures
  <2> QED BY <1>2, <2>1, <2>4, <2>5 DEF Settled
<1> QED BY <1>1, <1>2

(* The propagator that fired is settled unless it reads its own output. *)
LEMMA FiredSettled ==
  ASSUME TypeOK, NEW p \in Prop, Kind[p] # "recursive",
         cells' = [cells EXCEPT ![To[p]] = Merge(cells[To[p]], Compute(p, cells))],
         cells'[To[p]] # Contradiction,
         \A i \in 1 .. Arity(p) : cells'[From[p][i]] = cells[From[p][i]]
  PROVE  Settled(p)'
<1> DEFINE b == cells[To[p]]
           k == Compute(p, cells)
<1>1. b \in Info /\ k \in Info
  BY ComputeType, FromType DEF TypeOK, Structures
<1>2. cells'[To[p]] = Merge(b, k)
  BY FromType DEF TypeOK, Structures
<1>3. Compute(p, cells') = k
  BY ComputeLocal
<1> HIDE DEF b, k
<1>4. Merge(Merge(b, k), k) = Merge(b, k)
  BY <1>1, MergeAssociative, MergeIdempotent
<1> QED BY <1>2, <1>3, <1>4 DEF Settled

LEMMA NoLostWakeupStep ==
  ASSUME TypeOK, TypeOK', NoLostWakeup, [Next]_vars
  PROVE  NoLostWakeup'
<1>1. ASSUME NEW p \in Prop, Activate(p) PROVE NoLostWakeup'
  <2> DEFINE out == To[p]
             r == Compute(p, cells)
  <2>1. /\ status = "running" /\ p \in pending /\ Kind[p] # "recursive"
        /\ out \in Cell /\ r \in Info
        /\ cells' = [cells EXCEPT ![out] = Merge(cells[out], r)]
        /\ cells'[out] = Merge(cells[out], r)
    BY <1>1, ComputeType, FromType DEF Activate, TypeOK, Structures
  <2>2. \A q \in Prop : q \in pending \/ Settled(q)
    BY <2>1 DEF NoLostWakeup
  <2>3. CASE Merge(cells[out], r) = Contradiction
    BY <1>1, <2>3 DEF Activate, NoLostWakeup
  <2>4. CASE Merge(cells[out], r) # Contradiction
    <3> SUFFICES ASSUME NEW q \in Prop, q \notin pending' PROVE Settled(q)'
      BY DEF NoLostWakeup
    <3>1. \A i \in 1 .. Arity(q) : cells'[From[q][i]] = cells[From[q][i]]
      <4>1. CASE Merge(cells[out], r) = cells[out]
        BY <2>1, <4>1, FromType DEF TypeOK, Structures
      <4>2. CASE Merge(cells[out], r) # cells[out]
        <5>1. q \notin Neighbors(out)
          BY <1>1, <2>4, <4>2 DEF Activate
        <5>2. \A i \in 1 .. Arity(q) : From[q][i] # out
          BY <5>1 DEF Neighbors
        <5> QED BY <2>1, <5>2, FromType DEF TypeOK, Structures
      <4> QED BY <4>1, <4>2
    <3>2. CASE q = p
      BY <2>1, <2>4, <3>1, <3>2, FiredSettled
    <3>3. CASE q # p
      <4>1. q \notin pending
        BY <1>1, <2>4, <3>3 DEF Activate, Rest
      <4>2. Settled(q)
        BY <2>2, <4>1
      <4> HIDE DEF out, r
      <4> QED BY <2>1, <2>4, <3>1, <4>2, SettledKept
    <3> QED BY <3>2, <3>3
  <2> QED BY <2>3, <2>4
<1>2. ASSUME NEW p \in Prop, Recurse(p) PROVE NoLostWakeup'
  BY <1>2 DEF Recurse, NoLostWakeup
<1>3. ASSUME NEW p \in Prop, Wait(p) PROVE NoLostWakeup'
  BY <1>3 DEF Wait, Rest, NoLostWakeup, Settled
<1>4. CASE Finish
  BY <1>4 DEF Finish, NoLostWakeup, Settled
<1>5. CASE UNCHANGED vars
  BY <1>5 DEF vars, NoLostWakeup, Settled
<1> QED BY <1>1, <1>2, <1>3, <1>4, <1>5 DEF Next

(* No schedule is lost, in any network and whatever the firing order. *)
THEOREM NoWakeupIsLost == Spec => []NoLostWakeup
<1>1. Init => NoLostWakeup
  BY DEF Init, NoLostWakeup
<1>2. TypeOK /\ TypeOK' /\ NoLostWakeup /\ [Next]_vars => NoLostWakeup'
  BY NoLostWakeupStep
<1> QED BY <1>1, <1>2, PropagationTypeCorrect, PTL DEF Spec

DoneIsQuiet == status = "done" => pending = {}

(* A normal end is a fixpoint of all propagators, free of contradiction. *)
THEOREM DoneMeansFixpoint == Spec => []DoneIsFixpoint
<1>1. Init => DoneIsQuiet
  BY DEF Init, DoneIsQuiet
<1>2. DoneIsQuiet /\ [Next]_vars => DoneIsQuiet'
  BY DEF DoneIsQuiet, Next, Activate, Recurse, Wait, Finish, vars
<1>3. DoneIsQuiet /\ NoLostWakeup => DoneIsFixpoint
  BY DEF DoneIsQuiet, NoLostWakeup, DoneIsFixpoint
<1> QED BY <1>1, <1>2, <1>3, NoWakeupIsLost, PTL DEF Spec

(* Only a recursive call makes a cell forget. *)
THEOREM OnlyRestartForgets == Spec => ForgetsOnlyByRestart
<1>1. TypeOK /\ [Next]_vars =>
        [\/ \A c \in Cell : cells[c] \preceq cells'[c]
         \/ cells' = seed' /\ pending' = Prop]_vars
  <2> SUFFICES ASSUME TypeOK, [Next]_vars, vars' # vars
               PROVE  \/ \A c \in Cell : cells[c] \preceq cells'[c]
                      \/ cells' = seed' /\ pending' = Prop
    OBVIOUS
  <2>1. \A c \in Cell : cells[c] \in Info /\ cells[c] \preceq cells[c]
    BY MergeIdempotent DEF TypeOK, Structures, \preceq
  <2>2. ASSUME NEW p \in Prop, Activate(p)
        PROVE  \A c \in Cell : cells[c] \preceq cells'[c]
    <3>1. Compute(p, cells) \in Info /\ To[p] \in Cell
      BY <2>2, ComputeType, FromType DEF TypeOK, Activate
    <3>2. cells' = [cells EXCEPT ![To[p]] = Merge(cells[To[p]], Compute(p, cells))]
      BY <2>2 DEF Activate
    <3>3. cells[To[p]] \preceq Merge(cells[To[p]], Compute(p, cells))
      BY <2>1, <3>1, PrecMerge
    <3> QED BY <2>1, <3>2, <3>3 DEF TypeOK, Structures
  <2>3. ASSUME NEW p \in Prop, Recurse(p) PROVE cells' = seed' /\ pending' = Prop
    BY <2>3 DEF Recurse
  <2>4. ASSUME NEW p \in Prop, Wait(p) PROVE cells' = cells
    BY <2>4 DEF Wait
  <2>5. ASSUME Finish PROVE cells' = cells
    BY <2>5 DEF Finish
  <2> QED BY <2>1, <2>2, <2>3, <2>4, <2>5 DEF Next, vars
<1> QED BY <1>1, PropagationTypeCorrect, PTL DEF Spec, ForgetsOnlyByRestart

-----------------------------------------------------------------------------
Assigned == [Cell -> Domain]

Between ==
  /\ cells \in Assigned
  /\ seed \in Assigned
  /\ \A c \in Cell : seed[c] \preceq cells[c]
  /\ BelowEveryFixpoint
  /\ status = "exit" => \E c \in Cell : cells[c] = Contradiction

LEMMA AssignedType ==
  ASSUME DomainAssumption
  PROVE  Assigned \subseteq Structures /\ Domain \subseteq Info
BY DEF DomainAssumption, Assigned, Structures

LEMMA ComputeIsOutput ==
  ASSUME MonotoneAssumption, NEW p \in Prop, Kind[p] # "recursive", NEW c1 \in Assigned
  PROVE  /\ Compute(p, c1) = Output(p, [i \in 1 .. Arity(p) |-> c1[From[p][i]]])
         /\ [i \in 1 .. Arity(p) |-> c1[From[p][i]]] \in Arguments(p)
         /\ Compute(p, c1) \in Domain
<1>1. Compute(p, c1) = Output(p, [i \in 1 .. Arity(p) |-> c1[From[p][i]]])
  BY Zenon DEF Compute, Output
<1>2. [i \in 1 .. Arity(p) |-> c1[From[p][i]]] \in Arguments(p)
  BY FromType DEF Arguments, Assigned
<1> QED BY <1>1, <1>2 DEF MonotoneAssumption

LEMMA ComputeMonotone ==
  ASSUME MonotoneAssumption, NEW p \in Prop, Kind[p] # "recursive",
         NEW c1 \in Assigned, NEW c2 \in Assigned,
         \A c \in Cell : c1[c] \preceq c2[c]
  PROVE  Compute(p, c1) \preceq Compute(p, c2)
<1> DEFINE s == [i \in 1 .. Arity(p) |-> c1[From[p][i]]]
           t == [i \in 1 .. Arity(p) |-> c2[From[p][i]]]
<1>1. Compute(p, c1) = Output(p, s) /\ Compute(p, c2) = Output(p, t)
      /\ s \in Arguments(p) /\ t \in Arguments(p)
  BY ComputeIsOutput
<1>2. \A i \in 1 .. Arity(p) : s[i] \preceq t[i]
  BY FromType
<1> HIDE DEF s, t
<1>3. Output(p, s) \preceq Output(p, t)
  BY <1>1, <1>2 DEF MonotoneAssumption
<1> QED BY <1>1, <1>3

LEMMA RestartedAssigned ==
  ASSUME DomainAssumption, NEW p \in Prop, Kind[p] = "recursive", NEW c1 \in Assigned
  PROVE  Restarted(p, c1) \in Assigned
<1>1. ASSUME NEW c \in Cell, Mapped(c)
      PROVE  c1[From[p][CHOOSE i \in 1 .. Len(Signature) : Signature[i] = c]] \in Domain
  <2> DEFINE j == CHOOSE i \in 1 .. Len(Signature) : Signature[i] = c
  <2>1. j \in 1 .. Len(Signature)
    BY <1>1 DEF Mapped
  <2>2. j \in 1 .. Arity(p)
    BY <2>1, SignatureType
  <2> HIDE DEF j
  <2>3. c1[From[p][j]] \in Domain
    BY <2>2, FromType DEF Assigned
  <2> QED BY <2>3 DEF j
<1>2. \A c \in Cell : Initial[c] \in Domain
  BY DEF DomainAssumption
<1>3. ASSUME NEW c \in Cell
      PROVE  (IF Mapped(c)
              THEN c1[From[p][CHOOSE i \in 1 .. Len(Signature) : Signature[i] = c]]
              ELSE Initial[c]) \in Domain
  BY <1>1, <1>2, <1>3
<1> QED BY <1>3 DEF Restarted, Assigned

LEMMA SeededBelow ==
  ASSUME DomainAssumption, NEW c1 \in Assigned, cells' = c1, seed' = c1, status' # "exit"
  PROVE  Between'
<1>1. \A c \in Cell : c1[c] \preceq c1[c]
  BY AssignedType, PrecExtremes DEF Assigned
<1> QED BY <1>1 DEF Between, BelowEveryFixpoint, Fixpoint, Below

LEMMA InvokedAssigned ==
  ASSUME DomainAssumption, NEW in \in Inputs
  PROVE  Invoked(in) \in Assigned
<1>1. \A c \in Cell : Initial[c] \in Domain /\ (c \in DOMAIN in => in[c] \in Domain)
  BY DEF DomainAssumption
<1> QED BY <1>1 DEF Invoked, Assigned

LEMMA ActivateBetween ==
  ASSUME DomainAssumption, MonotoneAssumption, Between, NEW p \in Prop, Activate(p)
  PROVE  Between'
<1> DEFINE out == To[p]
           r == Compute(p, cells)
<1>1. /\ Kind[p] # "recursive" /\ out \in Cell
      /\ cells' = [cells EXCEPT ![out] = Merge(cells[out], r)]
      /\ seed' = seed
      /\ status # "exit"
      /\ status' = "exit" => Merge(cells[out], r) = Contradiction
  BY FromType DEF Activate
<1>2. cells \in Assigned /\ seed \in Assigned /\ r \in Domain
  BY <1>1, ComputeIsOutput DEF Between
<1>3. cells[out] \in Domain /\ Merge(cells[out], r) \in Domain
  BY <1>1, <1>2 DEF DomainAssumption, Assigned
<1>4. cells' \in Assigned /\ cells'[out] = Merge(cells[out], r)
      /\ \A c \in Cell : c # out => cells'[c] = cells[c]
  BY <1>1, <1>2, <1>3 DEF Assigned
<1>5. \A c \in Cell : seed[c] \preceq cells[c]
  BY DEF Between
<1>6. ASSUME NEW c \in Cell PROVE seed[c] \preceq cells'[c]
  <2>1. CASE c # out
    BY <1>4, <1>5, <2>1
  <2>2. CASE c = out
    <3>1. seed[out] \in Info /\ cells[out] \in Info /\ r \in Info
          /\ Merge(cells[out], r) \in Info
      BY <1>1, <1>2, <1>3, AssignedType DEF Assigned
    <3>2. cells[out] \preceq Merge(cells[out], r) /\ seed[out] \preceq cells[out]
      BY <1>1, <1>5, <3>1, PrecMerge
    <3> QED BY <1>4, <2>2, <3>1, <3>2, PrecTransitive
  <2> QED BY <2>1, <2>2
<1>7. ASSUME NEW sol \in [Cell -> Domain], Fixpoint(sol) PROVE Below(sol)'
  <2>1. \A c \in Cell : cells[c] \preceq sol[c]
    BY <1>7 DEF Between, BelowEveryFixpoint, Below
  <2>2. r \preceq Compute(p, sol)
    BY <1>1, <1>2, <2>1, ComputeMonotone DEF Assigned
  <2>3. Compute(p, sol) \preceq sol[out] /\ Compute(p, sol) \in Domain
    BY <1>1, <1>7, ComputeIsOutput DEF Fixpoint, Assigned
  <2>4. r \in Info /\ Compute(p, sol) \in Info /\ sol[out] \in Info /\ cells[out] \in Info
    BY <1>1, <1>2, <1>3, <2>3, AssignedType
  <2> HIDE DEF r
  <2>5. r \preceq sol[out]
    BY <2>2, <2>3, <2>4, PrecTransitive
  <2>6. Merge(cells[out], r) \preceq sol[out]
    BY <1>1, <2>1, <2>4, <2>5, MergeLeast
  <2> QED BY <1>4, <2>1, <2>6 DEF Below
<1>8. BelowEveryFixpoint'
  BY <1>1, <1>7 DEF BelowEveryFixpoint, Fixpoint
<1> QED BY <1>1, <1>2, <1>4, <1>6, <1>8 DEF Between

LEMMA BetweenInvariant ==
  ASSUME DomainAssumption, MonotoneAssumption
  PROVE  Spec => []Between
<1>1. Init => Between
  <2> SUFFICES ASSUME Init PROVE Between
    OBVIOUS
  <2>1. PICK in \in Inputs : cells = Invoked(in)
    BY DEF Init, Invocations
  <2>2. cells \in Assigned /\ seed = cells /\ status # "exit"
    BY <2>1, InvokedAssigned DEF Init
  <2>3. \A c \in Cell : cells[c] \preceq cells[c]
    BY <2>2, AssignedType, PrecExtremes DEF Assigned
  <2> QED BY <2>2, <2>3 DEF Between, BelowEveryFixpoint, Fixpoint, Below
<1>2. Between /\ [Next]_vars => Between'
  <2> SUFFICES ASSUME Between, [Next]_vars PROVE Between'
    OBVIOUS
  <2>1. ASSUME NEW p \in Prop, Activate(p) PROVE Between'
    BY <2>1, ActivateBetween
  <2>2. ASSUME NEW p \in Prop, Recurse(p) PROVE Between'
    <3>1. Restarted(p, cells) \in Assigned
      BY <2>2, RestartedAssigned DEF Recurse, Between
    <3> QED BY <2>2, <3>1, SeededBelow DEF Recurse
  <2>3. ASSUME NEW p \in Prop, Wait(p) PROVE Between'
    BY <2>3 DEF Wait, Between, BelowEveryFixpoint, Fixpoint, Below
  <2>4. CASE Finish
    BY <2>4 DEF Finish, Between, BelowEveryFixpoint, Fixpoint, Below
  <2>5. CASE UNCHANGED vars
    BY <2>5 DEF vars, Between, BelowEveryFixpoint, Fixpoint, Below
  <2> QED BY <2>1, <2>2, <2>3, <2>4, <2>5 DEF Next
<1> QED BY <1>1, <1>2, PTL DEF Spec

(* Whatever the firing order, a normal end gives the least fixpoint above  *)
(* the inputs: the result of a monotone network is determined by them.     *)
THEOREM ResultIsDetermined ==
  ASSUME DomainAssumption, MonotoneAssumption
  PROVE  Spec => []ResultIsLeastFixpoint
<1>1. TypeOK /\ Between /\ DoneIsFixpoint => ResultIsLeastFixpoint
  <2> SUFFICES ASSUME TypeOK, Between, DoneIsFixpoint, status = "done"
               PROVE  Fixpoint(cells) /\ BelowEveryFixpoint
    BY DEF ResultIsLeastFixpoint
  <2>1. ASSUME NEW p \in Prop, Kind[p] # "recursive"
        PROVE  Compute(p, cells) \preceq cells[To[p]]
    <3>1. Merge(cells[To[p]], Compute(p, cells)) = cells[To[p]]
      BY <2>1 DEF DoneIsFixpoint, Settled
    <3>2. Compute(p, cells) \in Info /\ cells[To[p]] \in Info
      BY <2>1, ComputeType, FromType DEF TypeOK, Structures
    <3> QED BY <3>1, <3>2, MergeCommutative DEF \preceq
  <2> QED BY <2>1 DEF Between, Fixpoint
<1> QED BY <1>1, BetweenInvariant, PropagationTypeCorrect, DoneMeansFixpoint, PTL

(* A run that exits with a contradiction exits in every firing order:      *)
(* nothing above the inputs is consistent.                                 *)
THEOREM ExitIsForced ==
  ASSUME DomainAssumption, MonotoneAssumption
  PROVE  Spec => []ExitIsUnavoidable
<1>1. Between => ExitIsUnavoidable
  <2> SUFFICES ASSUME Between, status = "exit", NEW sol \in [Cell -> Domain], Fixpoint(sol)
               PROVE  \E c \in Cell : sol[c] = Contradiction
    BY DEF ExitIsUnavoidable
  <2>1. PICK c \in Cell : cells[c] = Contradiction
    BY DEF Between
  <2>2. Contradiction \preceq sol[c]
    BY <2>1 DEF Between, BelowEveryFixpoint, Below
  <2> QED BY <2>2, MergeUnits DEF \preceq
<1> QED BY <1>1, BetweenInvariant, PTL
=============================================================================
