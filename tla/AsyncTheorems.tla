--------------------------- MODULE AsyncTheorems ---------------------------
(***************************************************************************)
(* For every network with LLM functions, every ranking and every order in  *)
(* which the answers arrive: the cells hold structures and well-formed     *)
(* promises, a promise waits only for calls that were made, and a failed   *)
(* call surfaces as a contradiction in all that depends on it.             *)
(*                                                                         *)
(* For every network of plain values, moreover, in which a promise is      *)
(* never merged with Nothing nor opened before an input that is unknown    *)
(* (module DelayedNetworks), it makes no difference that answers are late. *)
(***************************************************************************)
EXTENDS DelayedNetworks, InfoStructureTheorems

-----------------------------------------------------------------------------
(* Structures without sets. *)

LEMMA SetlessCases ==
  ASSUME NEW x \in Setless
  PROVE  /\ x \in Info
         /\ \/ x = Nothing /\ x.tag = "nothing"
            \/ x = Contradiction /\ x.tag = "contradiction"
            \/ x.tag = "something" /\ x = Something(x.value) /\ x.value \in Raw
            \/ x.tag = "object" /\ x = MergeObject(x.fields)
                 /\ x.fields \in Partial(FieldInfo)
BY Tags DEF Setless, Info, Somethings, MergeObjects, Something, MergeObject

LEMMA SetlessOfInfo ==
  ASSUME NEW x \in Info, x.tag # "set"
  PROVE  x \in Setless
BY InfoCases, Tags DEF Setless, Info, MergeSets

LEMMA MergeSetless ==
  ASSUME NEW x \in Setless, NEW y \in Setless
  PROVE  Merge(x, y) \in Setless
<1>1. x \in Info /\ y \in Info /\ Merge(x, y) \in Info
  BY SetlessCases, MergeType
<1>2. CASE x = Nothing \/ y = Nothing
  BY <1>1, <1>2, MergeUnits, MergeUnitsRight
<1>3. CASE x # Nothing /\ y # Nothing /\ x.tag # y.tag
  BY <1>1, <1>3, MergeMixed DEF Setless
<1>4. CASE x # Nothing /\ y # Nothing /\ x.tag = y.tag
  <2>1. Merge(x, y) = Contradiction \/ Merge(x, y).tag = x.tag
    BY <1>1, <1>4, MergeSameClass
  <2>2. x.tag # "set"
    BY SetlessCases
  <2> QED BY <1>1, <2>1, <2>2, SetlessOfInfo DEF Setless
<1> QED BY <1>2, <1>3, <1>4

LEMMA CoerceSetless ==
  ASSUME NEW as, as # "MergeSet", NEW i \in Setless
  PROVE  Coerce(as, i) \in Setless
<1>1. Coerce(as, i) = i \/ Coerce(as, i) = CoerceToMergeObject(i)
  BY DEF Coerce
<1>2. i \in Info /\ i.tag # "set" /\ Contradiction \in Setless
  BY SetlessCases DEF Setless
<1>3. CoerceToMergeObject(i) \in Info
  BY <1>2, CoerceType DEF Coerce
<1>4. CoerceToMergeObject(i).tag # "set"
  BY <1>2, Tags DEF CoerceToMergeObject, Lift
<1> QED BY <1>1, <1>2, <1>3, <1>4, SetlessOfInfo

-----------------------------------------------------------------------------
(* Promises that wait for calls of a set M. *)

PromisesOn(M) == [tag : {"promise"}, waits : SUBSET M, settles : Setless]
Holdable(M)   == Setless \cup PromisesOn(M)

(* A failed call in what i waits for shows in what it settles to. *)
Surfaces(i, failed) == Waits(i) \cap failed # {} => SettlesTo(i) = Contradiction

LEMMA PromiseParts ==
  ASSUME NEW W, NEW i
  PROVE  /\ IsPromise(Promise(W, i)) /\ Waits(Promise(W, i)) = W
         /\ SettlesTo(Promise(W, i)) = i
BY DEF IsPromise, Promise, Waits, SettlesTo

LEMMA SetlessParts ==
  ASSUME NEW x \in Setless
  PROVE  ~ IsPromise(x) /\ Waits(x) = {} /\ SettlesTo(x) = x
BY SetlessCases DEF IsPromise, Waits, SettlesTo

LEMMA HoldableParts ==
  ASSUME NEW M, NEW x \in Holdable(M)
  PROVE  /\ Waits(x) \in SUBSET M
         /\ SettlesTo(x) \in Setless
         /\ ~ IsPromise(x) => x \in Setless
         /\ IsPromise(x) => x.waits = Waits(x) /\ x.settles = SettlesTo(x)
<1>1. CASE x \in Setless
  BY <1>1, SetlessParts
<1>2. CASE x \in PromisesOn(M)
  BY <1>2 DEF PromisesOn, IsPromise, Waits, SettlesTo
<1> QED BY <1>1, <1>2 DEF Holdable

LEMMA PromiseType ==
  ASSUME NEW M, NEW W \in SUBSET M, NEW i \in Setless
  PROVE  Promise(W, i) \in Holdable(M)
BY DEF Promise, Holdable, PromisesOn

LEMMA HoldableGrows ==
  ASSUME NEW M, NEW N, M \subseteq N, NEW x \in Holdable(M)
  PROVE  x \in Holdable(N)
BY DEF Holdable, PromisesOn

(* A structure that is no promise surfaces whatever fails. *)
LEMMA SetlessSurfaces ==
  ASSUME NEW x \in Setless, NEW failed
  PROVE  Surfaces(x, failed)
BY SetlessParts DEF Surfaces

LEMMA MergedHolds ==
  ASSUME NEW M, NEW a \in Holdable(M), NEW b \in Holdable(M), NEW arrived,
         NEW after \in Merged(a, b, arrived)
  PROVE  after \in Holdable(M)
<1>1. Waits(a) \cup Waits(b) \in SUBSET M
  BY HoldableParts
<1>2. Merge(SettlesTo(a), SettlesTo(b)) \in Setless
      /\ Merge(SettlesTo(b), SettlesTo(a)) \in Setless
  BY HoldableParts, MergeSetless
<1>3. CASE IsPromise(a) /\ b = Nothing
  <2>1. after = Nothing \/ after = SettlesTo(a)
    BY <1>3, HoldableParts DEF Merged
  <2> QED BY <2>1, HoldableParts DEF Holdable, Setless
<1>4. CASE IsPromise(a) /\ b # Nothing
  <2>1. after = Promise(Waits(a) \cup Waits(b), Merge(SettlesTo(a), SettlesTo(b)))
    BY <1>4, HoldableParts DEF Merged
  <2> QED BY <2>1, <1>1, <1>2, PromiseType
<1>5. CASE ~ IsPromise(a) /\ IsPromise(b)
  <2>1. a = SettlesTo(a)
    BY <1>5, HoldableParts, SetlessParts
  <2>2. after \in {b, Contradiction, Promise(Waits(b), Merge(SettlesTo(b), SettlesTo(a)))}
    BY <1>5, <2>1, HoldableParts, SetlessCases DEF Merged
  <2>3. Contradiction \in Holdable(M)
    BY DEF Holdable, Setless
  <2> QED BY <2>2, <2>3, <1>2, PromiseType, HoldableParts
<1>6. CASE ~ IsPromise(a) /\ ~ IsPromise(b)
  <2>1. after = Merge(SettlesTo(a), SettlesTo(b))
    BY <1>6, HoldableParts, SetlessParts DEF Merged
  <2> QED BY <2>1, <1>2 DEF Holdable
<1> QED BY <1>3, <1>4, <1>5, <1>6

LEMMA MergedSurfaces ==
  ASSUME NEW M, NEW a \in Holdable(M), NEW b \in Holdable(M), NEW arrived,
         NEW after \in Merged(a, b, arrived), NEW failed,
         Surfaces(a, failed), Surfaces(b, failed)
  PROVE  Surfaces(after, failed)
<1>1. SettlesTo(a) \in Setless /\ SettlesTo(b) \in Setless
      /\ SettlesTo(a) \in Info /\ SettlesTo(b) \in Info
  BY HoldableParts, SetlessCases
<1>2. /\ SettlesTo(a) = Contradiction \/ SettlesTo(b) = Contradiction
           => /\ Merge(SettlesTo(a), SettlesTo(b)) = Contradiction
              /\ Merge(SettlesTo(b), SettlesTo(a)) = Contradiction
      /\ Merge(SettlesTo(a), SettlesTo(b)) \in Setless
  BY <1>1, MergeUnits, MergeUnitsRight, MergeSetless
<1>3. CASE IsPromise(a) /\ b = Nothing
  <2>1. after = Nothing \/ after = SettlesTo(a)
    BY <1>3, HoldableParts DEF Merged
  <2>2. after \in Setless
    BY <2>1, <1>1 DEF Setless
  <2> QED BY <2>2, SetlessSurfaces
<1>4. CASE IsPromise(a) /\ b # Nothing
  <2>1. after = Promise(Waits(a) \cup Waits(b), Merge(SettlesTo(a), SettlesTo(b)))
    BY <1>4, HoldableParts DEF Merged
  <2> QED BY <2>1, <1>2, PromiseParts DEF Surfaces
<1>5. CASE ~ IsPromise(a) /\ IsPromise(b)
  <2>1. a = SettlesTo(a)
    BY <1>5, HoldableParts, SetlessParts
  <2>2. after \in {b, Contradiction, Promise(Waits(b), Merge(SettlesTo(b), SettlesTo(a)))}
    BY <1>5, <2>1, HoldableParts, SetlessCases DEF Merged
  <2>3. Surfaces(Contradiction, failed)
    BY SetlessSurfaces DEF Setless
  <2> QED BY <2>2, <2>3, <1>2, PromiseParts DEF Surfaces
<1>6. CASE ~ IsPromise(a) /\ ~ IsPromise(b)
  <2>1. after = Merge(SettlesTo(a), SettlesTo(b))
    BY <1>6, HoldableParts, SetlessParts DEF Merged
  <2> QED BY <2>1, <1>2, SetlessSurfaces
<1> QED BY <1>3, <1>4, <1>5, <1>6

-----------------------------------------------------------------------------
(* What a propagator offers. *)

LEMMA FirstStop ==
  ASSUME NEW n \in 1 .. MaxArity, NEW T \in SUBSET (1 .. n), T # {}
  PROVE  \E k \in T : \A j \in 1 .. k - 1 : j \notin T
<1>1. T \subseteq {1, 2, 3, 4, 5}
  BY DEF MaxArity
<1>2. CASE 1 \in T
  BY <1>2
<1>3. CASE 1 \notin T /\ 2 \in T
  BY <1>3
<1>4. CASE 1 \notin T /\ 2 \notin T /\ 3 \in T
  BY <1>4
<1>5. CASE 1 \notin T /\ 2 \notin T /\ 3 \notin T /\ 4 \in T
  BY <1>5
<1>6. CASE 1 \notin T /\ 2 \notin T /\ 3 \notin T /\ 4 \notin T
  <2>1. 5 \in T
    BY <1>1, <1>6
  <2>2. \A j \in 1 .. 5 - 1 : j \notin T
    BY <1>6
  <2> QED BY <2>1, <2>2
<1> QED BY <1>2, <1>3, <1>4, <1>5, <1>6

(* The binds end at exactly one input that stops them, if any does. *)
LEMMA OneStop ==
  ASSUME NEW n \in 1 .. MaxArity, NEW s, DOMAIN s = 1 .. n, Stopped(s)
  PROVE  /\ \E k \in Looked(s) : Stops(s[k])
         /\ \A i, k \in Looked(s) : Stops(s[i]) /\ Stops(s[k]) => i = k
<1> DEFINE T == {i \in 1 .. n : Stops(s[i])}
<1>1. T # {} /\ T \in SUBSET (1 .. n)
  BY DEF Stopped
<1>2. PICK k \in T : \A j \in 1 .. k - 1 : j \notin T
  BY <1>1, FirstStop
<1>3. \A j \in 1 .. k - 1 : j \in 1 .. n
  BY <1>2, <1>1
<1>4. k \in Looked(s) /\ Stops(s[k])
  BY <1>2, <1>3 DEF Looked
<1>5. ASSUME NEW i \in Looked(s), NEW j \in Looked(s), Stops(s[i]), Stops(s[j])
      PROVE  i = j
  <2>1. i \in 1 .. n /\ j \in 1 .. n
    BY DEF Looked
  <2>2. ~ (i \in 1 .. j - 1) /\ ~ (j \in 1 .. i - 1)
    BY <1>5 DEF Looked
  <2> QED BY <2>1, <2>2
<1> QED BY <1>4, <1>5

LEMMA OpenedType ==
  ASSUME NEW M, NEW x \in Holdable(M), ~ Stops(x)
  PROVE  Opened(x) \in Openable
<1> DEFINE v == SettlesTo(x)
<1>1. v \in Setless /\ v # Contradiction
  BY HoldableParts DEF Stops
<1>2. CASE v.tag = "something"
  <2>1. Opened(x) = v.value
    BY <1>2 DEF Opened
  <2>2. v.value \in Raw
    BY <1>1, <1>2, SetlessCases
  <2> QED BY <2>1, <2>2 DEF Openable
<1>3. CASE v.tag = "object"
  <2>1. PICK f \in Partial(FieldInfo) : v = MergeObject(f)
    BY <1>1, <1>3, SetlessCases
  <2>2. Opened(x) = Content(v) \/ Opened(x) = v
    BY <1>3 DEF Opened
  <2>3. Content(v) \in Raw /\ v \in MergeObjects
    BY <2>1, ContentType DEF MergeObject, MergeObjects
  <2> QED BY <2>2, <2>3 DEF Openable
<1>4. CASE v = Nothing
  <2>1. Opened(x) = v
    BY <1>4, Tags DEF Opened
  <2> QED BY <2>1, <1>4 DEF Openable
<1> QED BY <1>1, <1>2, <1>3, <1>4, SetlessCases

LEMMA ISetless ==
  ASSUME NEW v \in Openable
  PROVE  I(v) \in Setless
<1>1. CASE v \in Info
  <2>1. v \notin MergeSets
    <3>1. CASE v \in Value
      BY <3>1, AsyncAssumption
    <3>2. CASE v \in Record \cup Array
      BY <3>2 DEF Record, Array, MergeSets
    <3>3. CASE v \in {Nothing} \cup MergeObjects
      BY <3>3, Tags DEF MergeObjects, MergeSets
    <3> QED BY <3>1, <3>2, <3>3 DEF Openable, Raw
  <2>2. v \in Setless
    BY <1>1, <2>1 DEF Info, Setless
  <2>3. I(v) \in {Nothing, Contradiction, v}
    BY <1>1 DEF I
  <2> QED BY <2>2, <2>3 DEF Setless
<1>2. CASE v \notin Info
  <2>1. v \in Raw
    BY <1>2, Constructors DEF Openable, Info
  <2>2. Something(v) \in Setless
    BY <2>1 DEF Something, Setless, Somethings
  <2>3. I(v) = Nothing \/ I(v) = Contradiction \/ I(v) = Something(v)
    BY <1>2 DEF I
  <2> QED BY <2>2, <2>3 DEF Setless
<1> QED BY <1>1, <1>2

LEMMA ApplySetless ==
  ASSUME NEW p \in Prop, Kind[p] # "recursive", NEW t \in [1 .. Arity(p) -> Openable]
  PROVE  I(Apply(p, t)) \in Setless
<1>1. CASE Kind[p] = "function"
  BY <1>1, AsyncFnAssumption DEF Apply
<1>2. CASE Kind[p] = "switch"
  <2>1. t[2] \in Openable
    BY <1>2, NetworkAssumption
  <2>2. I(Null) \in Setless
    BY DEF I, Setless
  <2> QED BY <1>2, <2>1, <2>2, ISetless DEF Apply
<1> QED BY <1>1, <1>2, NetworkAssumption

LEMMA AnsweredSetless ==
  ASSUME NEW p \in Async, NEW t \in [1 .. Arity(p) -> Openable], NEW failed
  PROVE  Answered(Call(p, t), failed) \in Setless
<1>1. p \in Prop /\ Kind[p] = "function"
  BY AsyncAssumption
<1>2. Call(p, t).prop = p /\ Call(p, t).args = t
  BY DEF Call
<1> QED BY <1>1, <1>2, AsyncFnAssumption DEF Answered, Setless

LEMMA FromType ==
  ASSUME NEW p \in Prop
  PROVE  /\ Arity(p) \in Nat
         /\ \A i \in 1 .. Arity(p) : From[p][i] \in Cell
         /\ To[p] \in Cell
         /\ Kind[p] # "recursive" => Arity(p) \in 1 .. MaxArity
         /\ As[p] # "MergeSet"
<1>1. From[p] \in Seq(Cell) /\ To[p] \in Cell
  BY NetworkAssumption
<1>2. Arity(p) \in Nat /\ \A i \in 1 .. Arity(p) : From[p][i] \in Cell
  BY <1>1, ElementOfSeq, LenProperties DEF Arity
<1>3. Kind[p] # "recursive" => Arity(p) \in 1 .. MaxArity
  BY NetworkAssumption
<1> QED BY <1>1, <1>2, <1>3, AsyncAssumption

LEMMA PendingType ==
  ASSUME NEW M, NEW n, NEW s \in [1 .. n -> Holdable(M)]
  PROVE  Pending(s) \in SUBSET M
<1>1. \A i \in Looked(s) : Waits(s[i]) \in SUBSET M
  <2>1. \A i \in Looked(s) : i \in 1 .. n
    BY DEF Looked
  <2>2. \A i \in 1 .. n : s[i] \in Holdable(M)
    OBVIOUS
  <2> QED BY <2>1, <2>2, HoldableParts
<1> QED BY <1>1 DEF Pending

LEMMA ArgumentsType ==
  ASSUME NEW M, NEW n, NEW s \in [1 .. n -> Holdable(M)], ~ Stopped(s)
  PROVE  Arguments(s) \in [1 .. n -> Openable]
<1>1. \A i \in 1 .. n : s[i] \in Holdable(M) /\ ~ Stops(s[i])
  BY DEF Stopped
<1>2. \A i \in 1 .. n : Opened(s[i]) \in Openable
  BY <1>1, OpenedType
<1> QED BY <1>2 DEF Arguments

(* The calls an application makes. *)
NewCalls(p, s) == {c.call : c \in Calls(p, s)}

LEMMA CallsParts ==
  ASSUME NEW p, NEW s
  PROVE  /\ p \in Async /\ ~ Stopped(s) =>
              /\ Calls(p, s) = {[call |-> Call(p, Arguments(s)), after |-> Pending(s)]}
              /\ NewCalls(p, s) = {Call(p, Arguments(s))}
         /\ ~ (p \in Async /\ ~ Stopped(s)) => Calls(p, s) = {} /\ NewCalls(p, s) = {}
<1> DEFINE rec == [call |-> Call(p, Arguments(s)), after |-> Pending(s)]
<1>1. CASE p \in Async /\ ~ Stopped(s)
  <2>1. Calls(p, s) = {rec}
    BY <1>1 DEF Calls
  <2>2. rec.call = Call(p, Arguments(s))
    OBVIOUS
  <2> HIDE DEF rec
  <2>3. NewCalls(p, s) = {rec.call}
    BY <2>1 DEF NewCalls
  <2> QED BY <1>1, <2>1, <2>2, <2>3 DEF rec
<1>2. CASE ~ (p \in Async /\ ~ Stopped(s))
  <2>1. Calls(p, s) = {}
    BY <1>2 DEF Calls
  <2> QED BY <1>2, <2>1 DEF NewCalls
<1> QED BY <1>1, <1>2

LEMMA InnermostType ==
  ASSUME NEW M, NEW p \in Prop, Kind[p] # "recursive", NEW failed,
         NEW s \in [1 .. Arity(p) -> Holdable(M)]
  PROVE  /\ Innermost(p, s, failed) \in Holdable(NewCalls(p, s))
         /\ Surfaces(Innermost(p, s, failed), failed)
<1>1. CASE Stopped(s)
  <2>1. DOMAIN s = 1 .. Arity(p) /\ Arity(p) \in 1 .. MaxArity
    BY FromType
  <2>2. \E k \in Looked(s) : Stops(s[k])
    BY <2>1, <1>1, OneStop
  <2> DEFINE k == CHOOSE i \in Looked(s) : Stops(s[i])
  <2>3. k \in Looked(s)
    BY <2>2
  <2>4. k \in 1 .. Arity(p)
    BY <2>3, <2>1 DEF Looked
  <2>5. Innermost(p, s, failed) = SettlesTo(s[k])
    BY <1>1 DEF Innermost
  <2> HIDE DEF k
  <2>6. SettlesTo(s[k]) \in Setless
    BY <2>4, HoldableParts
  <2> QED BY <2>5, <2>6, SetlessSurfaces DEF Holdable
<1>2. CASE ~ Stopped(s) /\ p \in Async
  <2> DEFINE call == Call(p, Arguments(s))
  <2>1. Innermost(p, s, failed) = Promise({call}, Answered(call, failed))
    BY <1>2 DEF Innermost
  <2>2. Answered(call, failed) \in Setless
    BY <1>2, ArgumentsType, AnsweredSetless
  <2>3. call \in failed => Answered(call, failed) = Contradiction
    BY DEF Answered
  <2>4. NewCalls(p, s) = {call}
    BY <1>2, CallsParts
  <2> HIDE DEF call
  <2>5. Promise({call}, Answered(call, failed)) \in Holdable(NewCalls(p, s))
    BY <2>2, <2>4, PromiseType
  <2>6. Surfaces(Promise({call}, Answered(call, failed)), failed)
    BY <2>3, PromiseParts DEF Surfaces
  <2> QED BY <2>1, <2>5, <2>6
<1>3. CASE ~ Stopped(s) /\ p \notin Async
  <2>1. Innermost(p, s, failed) = I(Apply(p, Arguments(s)))
    BY <1>3 DEF Innermost
  <2>2. I(Apply(p, Arguments(s))) \in Setless
    BY <1>3, ArgumentsType, ApplySetless
  <2> QED BY <2>1, <2>2, SetlessSurfaces DEF Holdable
<1> QED BY <1>1, <1>2, <1>3

LEMMA CoercePromise ==
  ASSUME NEW as, as # "MergeSet", NEW x, x.tag = "promise"
  PROVE  Coerce(as, x) = x
<1>1. CoerceToMergeObject(x) = x
  BY DEF CoerceToMergeObject
<1> QED BY <1>1 DEF Coerce

(* What a propagator offers waits only for calls made before and for its   *)
(* own, and shows their failures if its inputs do.                         *)
LEMMA OfferHolds ==
  ASSUME NEW M, NEW p \in Prop, Kind[p] # "recursive", NEW failed,
         NEW s \in [1 .. Arity(p) -> Holdable(M)]
  PROVE  Offer(p, s, failed) \in Holdable(M \cup NewCalls(p, s))
<1> DEFINE N     == M \cup NewCalls(p, s)
           inner == Innermost(p, s, failed)
           late  == \E i \in Looked(s) : IsPromise(s[i])
           x     == IF late THEN Promise(Pending(s) \cup Waits(inner), SettlesTo(inner))
                    ELSE inner
<1>1. inner \in Holdable(NewCalls(p, s))
  BY InnermostType
<1>2. Pending(s) \in SUBSET M
  BY PendingType
<1>3. Offer(p, s, failed) = Coerce(As[p], x) /\ As[p] # "MergeSet"
  BY FromType DEF Offer
<1> HIDE DEF inner, late
<1>4. x \in Holdable(N)
  <2>1. Waits(inner) \in SUBSET NewCalls(p, s) /\ SettlesTo(inner) \in Setless
    BY <1>1, HoldableParts
  <2>2. Promise(Pending(s) \cup Waits(inner), SettlesTo(inner)) \in Holdable(N)
    BY <2>1, <1>2, PromiseType
  <2>3. inner \in Holdable(N)
    BY <1>1, HoldableGrows
  <2> QED BY <2>2, <2>3
<1> HIDE DEF x, N
<1>5. CASE x \in Setless
  <2>1. Coerce(As[p], x) \in Setless
    BY <1>3, <1>5, CoerceSetless
  <2> QED BY <2>1, <1>3 DEF Holdable, N
<1>6. CASE x \in PromisesOn(N)
  <2>1. x.tag = "promise"
    BY <1>6 DEF PromisesOn
  <2>2. Coerce(As[p], x) = x
    BY <2>1, <1>3, CoercePromise
  <2> QED BY <2>2, <1>3, <1>4 DEF N
<1> QED BY <1>4, <1>5, <1>6 DEF Holdable

LEMMA OfferSurfaces ==
  ASSUME NEW M, NEW p \in Prop, Kind[p] # "recursive", NEW failed,
         NEW s \in [1 .. Arity(p) -> Holdable(M)],
         \A i \in 1 .. Arity(p) : Surfaces(s[i], failed)
  PROVE  Surfaces(Offer(p, s, failed), failed)
<1> DEFINE inner == Innermost(p, s, failed)
           late  == \E i \in Looked(s) : IsPromise(s[i])
           x     == IF late THEN Promise(Pending(s) \cup Waits(inner), SettlesTo(inner))
                    ELSE inner
<1>1. inner \in Holdable(NewCalls(p, s)) /\ Surfaces(inner, failed)
  BY InnermostType
<1>2. Offer(p, s, failed) = Coerce(As[p], x) /\ As[p] # "MergeSet"
  BY FromType DEF Offer
<1>3. Pending(s) \cap failed # {} => SettlesTo(inner) = Contradiction
  <2>1. SUFFICES ASSUME Pending(s) \cap failed # {}
                 PROVE  SettlesTo(inner) = Contradiction
    OBVIOUS
  <2>2. PICK i \in Looked(s) : Waits(s[i]) \cap failed # {}
    BY <2>1 DEF Pending
  <2>3. i \in 1 .. Arity(p)
    BY <2>2 DEF Looked
  <2>4. SettlesTo(s[i]) = Contradiction /\ Stops(s[i])
    BY <2>2, <2>3 DEF Surfaces, Stops
  <2>5. Stopped(s)
    BY <2>3, <2>4 DEF Stopped
  <2>6. DOMAIN s = 1 .. Arity(p) /\ Arity(p) \in 1 .. MaxArity
    BY FromType
  <2>7. \A j, k \in Looked(s) : Stops(s[j]) /\ Stops(s[k]) => j = k
    BY <2>5, <2>6, OneStop
  <2>8. (CHOOSE j \in Looked(s) : Stops(s[j])) = i
    BY <2>2, <2>4, <2>7
  <2>9. inner = Contradiction
    BY <2>4, <2>5, <2>8 DEF Innermost
  <2>10. Contradiction \in Setless
    BY DEF Setless
  <2> QED BY <2>9, <2>10, SetlessParts
<1> HIDE DEF inner, late
<1>4. Surfaces(x, failed)
  BY <1>1, <1>3, PromiseParts DEF Surfaces
<1>5. x \in Setless \/ x.tag = "promise"
  BY <1>1 DEF Holdable, PromisesOn, Promise
<1> HIDE DEF x
<1>6. CASE x \in Setless
  BY <1>2, <1>6, CoerceSetless, SetlessSurfaces
<1>7. CASE x.tag = "promise"
  BY <1>2, <1>4, <1>7, CoercePromise
<1> QED BY <1>5, <1>6, <1>7

-----------------------------------------------------------------------------
(* The steps of the runner. *)

(* All the structures in the cells surface what fails. *)
AllSurface(content) == \A c \in Cell : Surfaces(content[c], failing)

LEMMA RestartedType ==
  ASSUME NEW p \in Prop, Kind[p] = "recursive", NEW content \in [Cell -> Setless]
  PROVE  Restarted(p, content) \in [Cell -> Setless]
<1>1. ASSUME NEW c \in Cell
      PROVE  Restarted(p, content)[c] \in Setless
  <2>1. CASE Mapped(c)
    <3> DEFINE k == CHOOSE i \in 1 .. Len(Signature) : Signature[i] = c
    <3>1. k \in 1 .. Len(Signature)
      BY <2>1 DEF Mapped
    <3>2. Len(Signature) \in Nat /\ Len(Signature) <= Arity(p)
      BY NetworkAssumption, LenProperties
    <3>3. k \in 1 .. Arity(p)
      <4> HIDE DEF k
      <4> QED BY <3>1, <3>2, FromType
    <3>4. From[p][k] \in Cell
      BY <3>3, FromType
    <3>5. Restarted(p, content)[c] = content[From[p][k]]
      BY <2>1 DEF Restarted
    <3> HIDE DEF k
    <3> QED BY <3>4, <3>5
  <2>2. CASE ~ Mapped(c)
    BY <2>2, AsyncAssumption DEF Restarted
  <2> QED BY <2>1, <2>2
<1> QED BY <1>1 DEF Restarted

LEMMA InvokedType ==
  ASSUME NEW in \in Inputs
  PROVE  Invoked(in) \in [Cell -> Setless]
BY AsyncAssumption DEF Invoked

LEMMA SetlessCells ==
  ASSUME NEW M, NEW content \in [Cell -> Setless]
  PROVE  content \in [Cell -> Holdable(M)] /\ AllSurface(content)
<1>1. \A c \in Cell : content[c] \in Setless
  OBVIOUS
<1>2. content \in [Cell -> Holdable(M)]
  BY DEF Holdable
<1> QED BY <1>1, <1>2, SetlessSurfaces DEF AllSurface

LEMMA InputsType ==
  ASSUME NEW M, cells \in [Cell -> Holdable(M)], NEW p \in Prop
  PROVE  /\ InputsOf(p) \in [1 .. Arity(p) -> Holdable(M)]
         /\ AllSurface(cells) => \A i \in 1 .. Arity(p) : Surfaces(InputsOf(p)[i], failing)
<1>1. \A i \in 1 .. Arity(p) : From[p][i] \in Cell /\ InputsOf(p)[i] = cells[From[p][i]]
  BY FromType DEF InputsOf
<1>2. InputsOf(p) \in [1 .. Arity(p) -> Holdable(M)]
  BY <1>1 DEF InputsOf
<1> QED BY <1>1, <1>2 DEF AllSurface

Typed ==
  /\ failing \in Failures
  /\ ranked \in Rankings
  /\ cells \in [Cell -> Holdable(MadeCalls)]
  /\ seed \in [Cell -> Setless]
  /\ queue \in Seq(Prop)
  /\ \A m \in made :
       /\ m.call.prop \in Async /\ m.call.args \in Seq(Openable)
       /\ m.after \subseteq MadeCalls
  /\ answered \subseteq MadeCalls
  /\ status \in {"running", "done", "exit"}

LEMMA TypedTypeOK == Typed <=> TypeOK
BY DEF Typed, TypeOK, Holdable, PromisesOn, Promises

LEMMA SurfaceFailures == AllSurface(cells) <=> FailuresSurface
BY DEF AllSurface, FailuresSurface, Surfaces

LEMMA RankingType == \A r \in Rankings : r \in Seq(Prop)
BY RankingsAssumption

LEMMA InitTyped == Init => Typed /\ AllSurface(cells)
<1> SUFFICES ASSUME Init PROVE Typed /\ AllSurface(cells)
  OBVIOUS
<1>1. cells \in [Cell -> Setless]
  BY InvokedType DEF Init
<1>2. cells \in [Cell -> Holdable(MadeCalls)] /\ AllSurface(cells)
  BY <1>1, SetlessCells
<1> QED BY <1>1, <1>2, RankingType DEF Init, Typed, MadeCalls

(* An activation: the calls it makes are on record before any cell waits   *)
(* for them, and the merge keeps what surfaces.                            *)
LEMMA ActivateStep ==
  ASSUME Typed, AllSurface(cells), NEW p \in Prop, Activate(p)
  PROVE  Typed' /\ AllSurface(cells)'
<1> DEFINE s == InputsOf(p)
           M == MadeCalls
           N == M \cup NewCalls(p, s)
           offer == Offer(p, s, failing)
<1>1. /\ Kind[p] # "recursive" /\ To[p] \in Cell
      /\ cells \in [Cell -> Holdable(M)]
      /\ made' = made \cup Calls(p, s)
      /\ UNCHANGED <<failing, ranked, seed, answered>>
      /\ queue # <<>> /\ status = "running"
  BY FromType DEF Activate, Shift, Typed
<1>2. s \in [1 .. Arity(p) -> Holdable(M)]
      /\ \A i \in 1 .. Arity(p) : Surfaces(s[i], failing)
  BY <1>1, InputsType
<1>3. MadeCalls' = N
  BY <1>1 DEF MadeCalls, NewCalls
<1>4. offer \in Holdable(N) /\ Surfaces(offer, failing)
  BY <1>1, <1>2, OfferHolds, OfferSurfaces
<1>5. PICK after \in Merged(cells[To[p]], offer, answered) :
        /\ cells' = [cells EXCEPT ![To[p]] = after]
        /\ queue' = Tail(queue) \/ queue' = Tail(queue) \o Readers[To[p]]
        /\ status' \in {"running", "done", "exit"}
  BY <1>1 DEF Activate
<1>6. \A m \in Calls(p, s) :
        /\ m.call.prop \in Async /\ m.call.args \in Seq(Openable)
        /\ m.after \subseteq M
  <2>1. CASE p \in Async /\ ~ Stopped(s)
    <3>1. Arguments(s) \in [1 .. Arity(p) -> Openable] /\ Pending(s) \in SUBSET M
      BY <1>2, <2>1, ArgumentsType, PendingType
    <3>2. Arguments(s) \in Seq(Openable)
      BY <3>1, FromType
    <3>3. Calls(p, s) = {[call |-> Call(p, Arguments(s)), after |-> Pending(s)]}
      BY <2>1, CallsParts
    <3> HIDE DEF s, M
    <3> QED BY <2>1, <3>1, <3>2, <3>3 DEF Call
  <2>2. CASE ~ (p \in Async /\ ~ Stopped(s))
    BY <2>2, CallsParts
  <2> QED BY <2>1, <2>2
<1> HIDE DEF s, M, offer
<1>7. \A c \in Cell : cells[c] \in Holdable(N)
  BY <1>1, HoldableGrows
<1> HIDE DEF N
<1>8. after \in Holdable(N) /\ Surfaces(after, failing)
  <2>1. Surfaces(cells[To[p]], failing)
    BY <1>1 DEF AllSurface
  <2> QED BY <2>1, <1>1, <1>4, <1>5, <1>7, MergedHolds, MergedSurfaces
<1>9. cells' \in [Cell -> Holdable(N)]
  BY <1>1, <1>5, <1>7, <1>8
<1>10. AllSurface(cells)'
  <2>1. \A c \in Cell : Surfaces(cells[c], failing)
    BY DEF AllSurface
  <2>2. \A c \in Cell : cells'[c] = after \/ cells'[c] = cells[c]
    BY <1>1, <1>5
  <2>3. \A c \in Cell : Surfaces(cells'[c], failing')
    BY <2>1, <2>2, <1>1, <1>8
  <2> QED BY <2>3 DEF AllSurface
<1>11. queue' \in Seq(Prop)
  <2>1. queue \in Seq(Prop) /\ Readers[To[p]] \in Seq(Prop)
    BY <1>1, ReadersAssumption DEF Typed
  <2>2. Tail(queue) \in Seq(Prop)
    BY <2>1, <1>1, RangeShift
  <2>3. Tail(queue) \o Readers[To[p]] \in Seq(Prop)
    BY <2>1, <2>2
  <2> QED BY <1>5, <2>2, <2>3
<1>12. \A m \in made' :
         /\ m.call.prop \in Async /\ m.call.args \in Seq(Openable)
         /\ m.after \subseteq N
  BY <1>1, <1>6 DEF Typed, M, N
<1>13. answered' \subseteq N
  BY <1>1 DEF Typed, M, N
<1> QED BY <1>1, <1>3, <1>5, <1>9, <1>10, <1>11, <1>12, <1>13 DEF Typed

(* A recursive call starts over from structures that have all arrived. *)
LEMMA RecurseStep ==
  ASSUME Typed, AllSurface(cells), NEW p \in Prop, Recurse(p)
  PROVE  Typed' /\ AllSurface(cells)'
<1>1. Awaited \in [Cell -> Setless]
  <2>1. \A c \in Cell : SettlesTo(cells[c]) \in Setless
    BY HoldableParts DEF Typed
  <2> QED BY <2>1 DEF Awaited
<1>2. cells' = Restarted(p, Awaited) /\ seed' = cells' /\ queue' = ranked
      /\ UNCHANGED <<failing, ranked, made, answered, status>>
  BY DEF Recurse
<1>3. cells' \in [Cell -> Setless]
  BY <1>1, <1>2, RestartedType DEF Recurse
<1>4. MadeCalls' = MadeCalls
  BY <1>2 DEF MadeCalls
<1>5. cells' \in [Cell -> Holdable(MadeCalls)]
  BY <1>3, SetlessCells
<1>6. AllSurface(cells)'
  <2>1. \A c \in Cell : Surfaces(cells'[c], failing')
    BY <1>3, SetlessSurfaces
  <2> QED BY <2>1 DEF AllSurface
<1> QED BY <1>2, <1>3, <1>4, <1>5, <1>6, RankingType DEF Typed

LEMMA AnswerStep ==
  ASSUME Typed, AllSurface(cells), Answer
  PROVE  Typed' /\ AllSurface(cells)'
<1>1. PICK m \in made : answered' = answered \cup {m.call}
  BY DEF Answer
<1>2. UNCHANGED <<failing, ranked, cells, seed, queue, made, status>>
  BY DEF Answer
<1>3. answered' \subseteq MadeCalls /\ MadeCalls' = MadeCalls
  BY <1>1, <1>2 DEF Typed, MadeCalls
<1> QED BY <1>2, <1>3 DEF Typed, AllSurface

(* A step that touches neither the cells nor the calls. *)
LEMMA OtherStep ==
  ASSUME Typed, AllSurface(cells),
         (\E p \in Prop : GiveUp(p)) \/ Finish \/ UNCHANGED vars
  PROVE  Typed' /\ AllSurface(cells)'
<1>1. UNCHANGED <<failing, ranked, cells, seed, made, answered>>
  BY DEF GiveUp, Finish, vars
<1>2. queue' \in Seq(Prop) /\ status' \in {"running", "done", "exit"}
  BY RangeShift DEF GiveUp, Shift, Finish, vars, Typed
<1>3. MadeCalls' = MadeCalls
  BY <1>1 DEF MadeCalls
<1> QED BY <1>1, <1>2, <1>3 DEF Typed, AllSurface

-----------------------------------------------------------------------------
(* At every moment the cells hold structures, and promises that wait only  *)
(* for calls asyncRun has made: nothing waits for an answer nobody asked   *)
(* for.                                                                    *)
THEOREM TypeCorrect == Spec => []TypeOK
<1> DEFINE Inv == Typed /\ AllSurface(cells)
<1>1. Init => Inv
  BY InitTyped
<1>2. Inv /\ [Next]_vars => Inv'
  BY ActivateStep, RecurseStep, AnswerStep, OtherStep DEF Next, Step
<1>3. Inv => TypeOK
  BY TypedTypeOK
<1> HIDE DEF Inv
<1> QED BY <1>1, <1>2, <1>3, PTL DEF Spec

(* A failed call surfaces as a contradiction in every cell that waits for  *)
(* it, directly or through any number of propagators and merges, for every *)
(* network, ranking and order of answers.                                  *)
THEOREM FailuresAlwaysSurface == Spec => []FailuresSurface
<1> DEFINE Inv == Typed /\ AllSurface(cells)
<1>1. Init => Inv
  BY InitTyped
<1>2. Inv /\ [Next]_vars => Inv'
  BY ActivateStep, RecurseStep, AnswerStep, OtherStep DEF Next, Step
<1>3. Inv => FailuresSurface
  BY SurfaceFailures
<1> HIDE DEF Inv
<1> QED BY <1>1, <1>2, <1>3, PTL DEF Spec
-----------------------------------------------------------------------------
(* What all writers say, folded. *)

(* What a fold over the subsets of W may be. *)
FoldStep(W, base, m, g, s) ==
  IF s = {} THEN base
  ELSE Merge(m[CHOOSE x \in s : TRUE], g[s \ {CHOOSE x \in s : TRUE}])

IsFold(W, base, m, g) == g = [s \in SUBSET W |-> FoldStep(W, base, m, g, s)]

LEMMA AllSaidFold ==
  ASSUME NEW c, NEW start, NEW failed, NEW content
  PROVE  LET W == Writers(c)
             m == [p \in Writers(c) |-> SyncCompute(p, failed, content)]
             g == CHOOSE g : IsFold(W, start[c], m, g)
         IN  AllSaid(c, start, failed, content) = g[W]
<1> DEFINE W == Writers(c)
           m == [p \in Writers(c) |-> SyncCompute(p, failed, content)]
           Is(g) == g = [s \in SUBSET W |->
                   IF s = {} THEN start[c]
                   ELSE Merge(SyncCompute(CHOOSE x \in s : TRUE, failed, content),
                                g[s \ {CHOOSE x \in s : TRUE}])]
           Fold(g) == IsFold(W, start[c], m, g)
           h == CHOOSE g : Is(g)
<1>1. AllSaid(c, start, failed, content) = h[W]
  BY DEF AllSaid, MapThenFoldSet
<1>2. ASSUME NEW g, NEW s \in SUBSET W
      PROVE  FoldStep(W, start[c], m, g, s) = 
                   IF s = {} THEN start[c]
                   ELSE Merge(SyncCompute(CHOOSE x \in s : TRUE, failed, content),
                                g[s \ {CHOOSE x \in s : TRUE}])
  <2>1. s # {} => (CHOOSE x \in s : TRUE) \in Writers(c)
    OBVIOUS
  <2> QED BY <2>1 DEF FoldStep
<1>3. \A g : Fold(g) <=> Is(g)
  BY <1>2 DEF IsFold
<1>4. (CHOOSE g : Is(g)) = (CHOOSE g : Fold(g))
  <2> HIDE DEF Is, Fold
  <2> QED BY <1>3
<1> QED BY <1>1, <1>4

LEMMA Fewer ==
  ASSUME NEW W, IsFiniteSet(W), NEW s \in SUBSET W
  PROVE  /\ IsFiniteSet(s) /\ Cardinality(s) \in Nat
         /\ Cardinality(s) = 0 <=> s = {}
         /\ s # {} => /\ (CHOOSE x \in s : TRUE) \in s
                      /\ s \ {CHOOSE x \in s : TRUE} \in SUBSET W
                      /\ Cardinality(s \ {CHOOSE x \in s : TRUE}) = Cardinality(s) - 1
<1>1. IsFiniteSet(s) /\ Cardinality(s) \in Nat /\ (Cardinality(s) = 0 <=> s = {})
  BY FS_Subset, FS_CardinalityType, FS_EmptySet
<1>2. s # {} => (CHOOSE x \in s : TRUE) \in s
  OBVIOUS
<1>3. \A x \in s : Cardinality(s \ {x}) = Cardinality(s) - 1
  BY <1>1, FS_RemoveElement
<1> QED BY <1>1, <1>2, <1>3

(* The recursion over the subsets of a finite set has a solution. *)
LEMMA FoldExists ==
  ASSUME NEW W, IsFiniteSet(W), NEW base, NEW m
  PROVE  \E g : IsFold(W, base, m, g)
<1> DEFINE Upto(n, g) == \A s \in SUBSET W : Cardinality(s) <= n => g[s] = FoldStep(W, base, m, g, s)
           T == {n \in Nat : \E g : Upto(n, g)}
<1>1. 0 \in T
  <2> DEFINE g == [s \in SUBSET W |-> base]
  <2>1. ASSUME NEW s \in SUBSET W, Cardinality(s) <= 0 PROVE g[s] = FoldStep(W, base, m, g, s)
    <3>1. Cardinality(s) \in Nat /\ (Cardinality(s) = 0 <=> s = {})
      BY Fewer
    <3>2. s = {}
      BY <2>1, <3>1
    <3> QED BY <3>2 DEF FoldStep
  <2>2. Upto(0, g)
    BY <2>1
  <2> QED BY <2>2
<1>2. ASSUME NEW n \in T PROVE n + 1 \in T
  <2>1. PICK g : Upto(n, g)
    BY <1>2
  <2> DEFINE h == [s \in SUBSET W |-> IF Cardinality(s) <= n THEN g[s] ELSE FoldStep(W, base, m, g, s)]
  <2>2. ASSUME NEW s \in SUBSET W, Cardinality(s) <= n + 1
        PROVE  h[s] = FoldStep(W, base, m, h, s)
    <3>1. h[s] = FoldStep(W, base, m, g, s)
      BY <2>1
    <3>2. CASE s = {}
      BY <3>1, <3>2 DEF FoldStep
    <3>3. CASE s # {}
      <4> DEFINE x == CHOOSE x \in s : TRUE
      <4>1. s \ {x} \in SUBSET W /\ Cardinality(s \ {x}) <= n
        BY <2>2, <3>3, Fewer
      <4>2. h[s \ {x}] = g[s \ {x}]
        BY <4>1
      <4> HIDE DEF h
      <4> QED BY <3>1, <3>3, <4>2 DEF FoldStep
    <3> QED BY <3>2, <3>3
  <2> HIDE DEF h
  <2>3. Upto(n + 1, h)
    BY <2>2
  <2> QED BY <2>3
<1>3. T = Nat
  <2> HIDE DEF T
  <2>1. T \in SUBSET Nat
    BY DEF T
  <2> QED BY <2>1, <1>1, <1>2, Induction
<1>4. Cardinality(W) \in Nat /\ \A s \in SUBSET W : Cardinality(s) <= Cardinality(W)
  BY FS_CardinalityType, FS_Subset
<1>5. PICK g : Upto(Cardinality(W), g)
  BY <1>3, <1>4
<1>6. \A s \in SUBSET W : g[s] = FoldStep(W, base, m, g, s)
  BY <1>4, <1>5
<1> DEFINE h == [s \in SUBSET W |-> g[s]]
<1>7. \A s \in SUBSET W : FoldStep(W, base, m, h, s) = FoldStep(W, base, m, g, s)
  <2> TAKE s \in SUBSET W
  <2>1. h[s \ {CHOOSE x \in s : TRUE}] = g[s \ {CHOOSE x \in s : TRUE}]
    OBVIOUS
  <2> HIDE DEF h
  <2> QED BY <2>1 DEF FoldStep
<1>8. h = [s \in SUBSET W |-> FoldStep(W, base, m, h, s)]
  <2>1. \A s \in SUBSET W : g[s] = FoldStep(W, base, m, h, s)
    BY <1>6, <1>7
  <2> QED BY <2>1
<1> QED BY <1>8 DEF IsFold

(* z is what base and all m[p] come to together. *)
IsJoin(z, base, m, s) ==
  /\ z \in Info /\ base \preceq z
  /\ \A p \in s : m[p] \preceq z
  /\ \A y \in Info : base \preceq y /\ (\A p \in s : m[p] \preceq y) => z \preceq y

LEMMA FoldIsJoin ==
  ASSUME NEW W, IsFiniteSet(W), NEW base \in Info, NEW m, \A p \in W : m[p] \in Info,
         NEW g, IsFold(W, base, m, g)
  PROVE  IsJoin(g[W], base, m, W)
<1>1. \A s \in SUBSET W : g[s] = FoldStep(W, base, m, g, s)
  BY DEF IsFold
<1> DEFINE T == {n \in Nat : \A s \in SUBSET W : Cardinality(s) = n => IsJoin(g[s], base, m, s)}
<1>2. 0 \in T
  <2>1. ASSUME NEW s \in SUBSET W, Cardinality(s) = 0 PROVE IsJoin(g[s], base, m, s)
    <3>1. s = {} /\ g[s] = base
      BY <2>1, <1>1, Fewer DEF FoldStep
    <3> QED BY <3>1, PrecExtremes DEF IsJoin
  <2> QED BY <2>1
<1>3. ASSUME NEW n \in T PROVE n + 1 \in T
  <2>1. ASSUME NEW s \in SUBSET W, Cardinality(s) = n + 1 PROVE IsJoin(g[s], base, m, s)
    <3> DEFINE x == CHOOSE x \in s : TRUE
               rest == s \ {x}
    <3>1. s # {} /\ x \in s /\ rest \in SUBSET W /\ Cardinality(rest) = n
      BY <2>1, <1>3, Fewer
    <3>2. g[s] = Merge(m[x], g[rest])
      BY <1>1, <3>1 DEF FoldStep
    <3>3. IsJoin(g[rest], base, m, rest)
      BY <1>3, <3>1
    <3>4. m[x] \in Info /\ g[rest] \in Info
      BY <3>1, <3>3 DEF IsJoin
    <3>5. \A p \in s : p = x \/ p \in rest
      OBVIOUS
    <3> HIDE DEF x, rest
    <3>6. g[s] \in Info /\ m[x] \preceq g[s] /\ g[rest] \preceq g[s]
      BY <3>2, <3>4, MergeType, PrecMerge
    <3>7. base \preceq g[s]
      BY <3>3, <3>6, <3>4, PrecTransitive DEF IsJoin
    <3>8. ASSUME NEW p \in s PROVE m[p] \preceq g[s]
      <4>1. CASE p = x
        BY <4>1, <3>6
      <4>2. CASE p \in rest
        <5>1. m[p] \preceq g[rest] /\ m[p] \in Info
          BY <4>2, <3>3, <3>8, <2>1 DEF IsJoin
        <5> QED BY <5>1, <3>4, <3>6, PrecTransitive
      <4> QED BY <4>1, <4>2, <3>5
    <3>9. ASSUME NEW y \in Info, base \preceq y, \A p \in s : m[p] \preceq y PROVE g[s] \preceq y
      <4>1. g[rest] \preceq y
        BY <3>3, <3>9 DEF IsJoin, rest
      <4>2. m[x] \preceq y
        BY <3>1, <3>9
      <4> QED BY <4>1, <4>2, <3>2, <3>4, MergeLeast
    <3> QED BY <3>6, <3>7, <3>8, <3>9 DEF IsJoin
  <2> QED BY <1>3, <2>1
<1>4. T = Nat
  <2> HIDE DEF T
  <2>1. T \in SUBSET Nat
    BY DEF T
  <2> QED BY <2>1, <1>2, <1>3, Induction
<1>5. Cardinality(W) \in T /\ W \in SUBSET W
  BY <1>4, FS_CardinalityType
<1> QED BY <1>5

(* All that is said about a cell is the least structure that says as much  *)
(* as its start and each of its writers.                                   *)
LEMMA AllSaidIsJoin ==
  ASSUME IsFiniteSet(Prop), NEW c, NEW start, start[c] \in Info, NEW failed, NEW content,
         \A p \in Writers(c) : SyncCompute(p, failed, content) \in Info
  PROVE  IsJoin(AllSaid(c, start, failed, content), start[c],
                [p \in Writers(c) |-> SyncCompute(p, failed, content)], Writers(c))
<1> DEFINE m == [p \in Writers(c) |-> SyncCompute(p, failed, content)]
           g == CHOOSE g : IsFold(Writers(c), start[c], m, g)
<1>1. IsFiniteSet(Writers(c))
  BY FS_Subset DEF Writers
<1>2. \A p \in Writers(c) : m[p] \in Info
  OBVIOUS
<1>3. AllSaid(c, start, failed, content) = g[Writers(c)]
  BY AllSaidFold
<1> HIDE DEF m
<1>4. \E h : IsFold(Writers(c), start[c], m, h)
  BY <1>1, FoldExists
<1>5. IsFold(Writers(c), start[c], m, g)
  BY <1>4
<1> HIDE DEF g
<1>6. IsJoin(g[Writers(c)], start[c], m, Writers(c))
  BY <1>1, <1>2, <1>5, FoldIsJoin
<1> QED BY <1>3, <1>6 DEF m

-----------------------------------------------------------------------------
(* Plain networks: what a propagator says depends on its first input that  *)
(* is no value.                                                            *)

(* A plain structure is a value, none, or a conflict. *)
LEMMA PlainCases ==
  ASSUME NEW x \in Plain
  PROVE  /\ x \in Setless /\ x \in Info /\ ~ IsPromise(x) /\ SettlesTo(x) = x
         /\ \/ x = Nothing /\ x.tag = "nothing"
            \/ x = Contradiction /\ x.tag = "contradiction"
            \/ x.tag = "something" /\ x = Something(x.value) /\ x.value \in Raw
         /\ Stops(x) <=> x.tag # "something"
<1>1. x \in Setless
  BY DEF Plain, Setless
<1>2. \/ x = Nothing /\ x.tag = "nothing"
      \/ x = Contradiction /\ x.tag = "contradiction"
      \/ x.tag = "something" /\ x = Something(x.value) /\ x.value \in Raw
  BY Tags DEF Plain, Somethings, Something
<1>3. x \in Info /\ ~ IsPromise(x)
  BY <1>1, <1>2, SetlessCases DEF IsPromise
<1>4. SettlesTo(x) = x
  BY <1>3 DEF SettlesTo
<1>5. Stops(x) <=> x = Nothing \/ x = Contradiction
  BY <1>4 DEF Stops
<1> QED BY <1>1, <1>2, <1>3, <1>4, <1>5, Tags

LEMMA BindPlain ==
  ASSUME NEW x \in Plain, NEW k
  PROVE  /\ Stops(x) => Bind(x, k) = x
         /\ ~ Stops(x) => x.value \in Raw /\ Bind(x, k) = k[x.value]
BY PlainCases DEF Bind

(* The first input that is no value decides; else the function is called   *)
(* with all the values.                                                    *)
PlainOutcome(n, s, f, r) ==
  /\ \A k \in 1 .. n : Stops(s[k]) /\ (\A j \in 1 .. k - 1 : ~ Stops(s[j])) => r = s[k]
  /\ (\A k \in 1 .. n : ~ Stops(s[k])) => r = I(f[[k \in 1 .. n |-> s[k].value]])

LEMMA UnpackPlain ==
  ASSUME NEW n \in 1 .. MaxArity, NEW s \in [1 .. n -> Plain], NEW f
  PROVE  PlainOutcome(n, s, f, NaryUnpack(f, s))
<1> DEFINE r == NaryUnpack(f, s)
<1>0. Len(s) = n
  OBVIOUS
<1>1. CASE n = 1
  <2> DEFINE K0 == [a \in Raw |-> I(f[<<a>>])]
             v1 == s[1].value
  <2>0. s[1] \in Plain
    BY <1>1
  <2>1. r = Bind(s[1], K0)
    BY <1>0, <1>1 DEF NaryUnpack
  <2>2. Stops(s[1]) => r = s[1]
    <3> HIDE DEF K0
    <3> QED BY <2>0, <2>1, BindPlain
  <2>3. ~ Stops(s[1]) => v1 \in Raw /\ r = I(f[<<v1>>])
    <3>1. ~ Stops(s[1]) => v1 \in Raw /\ r = K0[v1]
      <4> HIDE DEF K0
      <4> QED BY <2>0, <2>1, BindPlain
    <3>2. v1 \in Raw => K0[v1] = I(f[<<v1>>])
      OBVIOUS
    <3> QED BY <3>1, <3>2
  <2>4. <<v1>> = [k \in 1 .. 1 |-> s[k].value]
    OBVIOUS
  <2> HIDE DEF K0, v1
  <2>5. \A k \in 1 .. 1 : k = 1
    OBVIOUS
  <2>6. ASSUME NEW k \in 1 .. 1, Stops(s[k]), \A j \in 1 .. k - 1 : ~ Stops(s[j])
        PROVE  r = s[k]
    <3>1. CASE k = 1
      BY <2>6, <3>1, <2>2
    <3> QED BY <3>1, <2>5
  <2>7. (\A k \in 1 .. 1 : ~ Stops(s[k])) => r = I(f[[k \in 1 .. 1 |-> s[k].value]])
    BY <2>3, <2>4
  <2> QED BY <1>1, <2>6, <2>7 DEF PlainOutcome
<1>2. CASE n = 2
  <2> DEFINE K1(a) == [b \in Raw |-> I(f[<<a, b>>])]
             K0 == [a \in Raw |-> Bind(s[2], K1(a))]
             v1 == s[1].value
             v2 == s[2].value
  <2>0. s[1] \in Plain /\ s[2] \in Plain
    BY <1>2
  <2>1. r = Bind(s[1], K0)
    BY <1>0, <1>2 DEF NaryUnpack
  <2>2. Stops(s[1]) => r = s[1]
    <3> HIDE DEF K0, K1
    <3> QED BY <2>0, <2>1, BindPlain
  <2>3. ~ Stops(s[1]) => v1 \in Raw /\ r = Bind(s[2], K1(v1))
    <3>1. ~ Stops(s[1]) => v1 \in Raw /\ r = K0[v1]
      <4> HIDE DEF K0, K1
      <4> QED BY <2>0, <2>1, BindPlain
    <3>2. v1 \in Raw => K0[v1] = Bind(s[2], K1(v1))
      OBVIOUS
    <3> QED BY <3>1, <3>2
  <2>4. ~ Stops(s[1]) /\ Stops(s[2]) => r = s[2]
    <3> HIDE DEF K0, K1, v1
    <3> QED BY <2>0, <2>3, BindPlain
  <2>5. ~ Stops(s[1]) /\ ~ Stops(s[2]) => v2 \in Raw /\ r = I(f[<<v1, v2>>])
    <3>1. ~ Stops(s[1]) /\ ~ Stops(s[2]) => v2 \in Raw /\ r = K1(v1)[v2]
      <4> HIDE DEF K0, K1, v1
      <4> QED BY <2>0, <2>3, BindPlain
    <3>2. v2 \in Raw => K1(v1)[v2] = I(f[<<v1, v2>>])
      OBVIOUS
    <3> QED BY <3>1, <3>2
  <2>6. <<v1, v2>> = [k \in 1 .. 2 |-> s[k].value]
    OBVIOUS
  <2> HIDE DEF K0, K1, v1, v2
  <2>7. \A k \in 1 .. 2 : k = 1 \/ k = 2
    OBVIOUS
  <2>8. ASSUME NEW k \in 1 .. 2, Stops(s[k]), \A j \in 1 .. k - 1 : ~ Stops(s[j])
        PROVE  r = s[k]
    <3>1. CASE k = 1
      BY <2>8, <3>1, <2>2
    <3>2. CASE k = 2
      BY <2>8, <3>2, <2>4
    <3> QED BY <3>1, <3>2, <2>7
  <2>9. (\A k \in 1 .. 2 : ~ Stops(s[k])) => r = I(f[[k \in 1 .. 2 |-> s[k].value]])
    BY <2>5, <2>6
  <2> QED BY <1>2, <2>8, <2>9 DEF PlainOutcome
<1>3. CASE n = 3
  <2> DEFINE K2(a, b) == [c \in Raw |-> I(f[<<a, b, c>>])]
             K1(a) == [b \in Raw |-> Bind(s[3], K2(a, b))]
             K0 == [a \in Raw |-> Bind(s[2], K1(a))]
             v1 == s[1].value
             v2 == s[2].value
             v3 == s[3].value
  <2>0. s[1] \in Plain /\ s[2] \in Plain /\ s[3] \in Plain
    BY <1>3
  <2>1. r = Bind(s[1], K0)
    BY <1>0, <1>3 DEF NaryUnpack
  <2>2. Stops(s[1]) => r = s[1]
    <3> HIDE DEF K0, K1, K2
    <3> QED BY <2>0, <2>1, BindPlain
  <2>3. ~ Stops(s[1]) => v1 \in Raw /\ r = Bind(s[2], K1(v1))
    <3>1. ~ Stops(s[1]) => v1 \in Raw /\ r = K0[v1]
      <4> HIDE DEF K0, K1, K2
      <4> QED BY <2>0, <2>1, BindPlain
    <3>2. v1 \in Raw => K0[v1] = Bind(s[2], K1(v1))
      OBVIOUS
    <3> QED BY <3>1, <3>2
  <2>4. ~ Stops(s[1]) /\ Stops(s[2]) => r = s[2]
    <3> HIDE DEF K0, K1, K2, v1
    <3> QED BY <2>0, <2>3, BindPlain
  <2>5. ~ Stops(s[1]) /\ ~ Stops(s[2]) => v2 \in Raw /\ r = Bind(s[3], K2(v1, v2))
    <3>1. ~ Stops(s[1]) /\ ~ Stops(s[2]) => v2 \in Raw /\ r = K1(v1)[v2]
      <4> HIDE DEF K0, K1, K2, v1
      <4> QED BY <2>0, <2>3, BindPlain
    <3>2. v2 \in Raw => K1(v1)[v2] = Bind(s[3], K2(v1, v2))
      OBVIOUS
    <3> QED BY <3>1, <3>2
  <2>6. ~ Stops(s[1]) /\ ~ Stops(s[2]) /\ Stops(s[3]) => r = s[3]
    <3> HIDE DEF K0, K1, K2, v1, v2
    <3> QED BY <2>0, <2>5, BindPlain
  <2>7. ~ Stops(s[1]) /\ ~ Stops(s[2]) /\ ~ Stops(s[3]) => v3 \in Raw /\ r = I(f[<<v1, v2, v3>>])
    <3>1. ~ Stops(s[1]) /\ ~ Stops(s[2]) /\ ~ Stops(s[3]) => v3 \in Raw /\ r = K2(v1, v2)[v3]
      <4> HIDE DEF K0, K1, K2, v1, v2
      <4> QED BY <2>0, <2>5, BindPlain
    <3>2. v3 \in Raw => K2(v1, v2)[v3] = I(f[<<v1, v2, v3>>])
      OBVIOUS
    <3> QED BY <3>1, <3>2
  <2>8. <<v1, v2, v3>> = [k \in 1 .. 3 |-> s[k].value]
    OBVIOUS
  <2> HIDE DEF K0, K1, K2, v1, v2, v3
  <2>9. \A k \in 1 .. 3 : k = 1 \/ k = 2 \/ k = 3
    OBVIOUS
  <2>10. ASSUME NEW k \in 1 .. 3, Stops(s[k]), \A j \in 1 .. k - 1 : ~ Stops(s[j])
        PROVE  r = s[k]
    <3>1. CASE k = 1
      BY <2>10, <3>1, <2>2
    <3>2. CASE k = 2
      BY <2>10, <3>2, <2>4
    <3>3. CASE k = 3
      BY <2>10, <3>3, <2>6
    <3> QED BY <3>1, <3>2, <3>3, <2>9
  <2>11. (\A k \in 1 .. 3 : ~ Stops(s[k])) => r = I(f[[k \in 1 .. 3 |-> s[k].value]])
    BY <2>7, <2>8
  <2> QED BY <1>3, <2>10, <2>11 DEF PlainOutcome
<1>4. CASE n = 4
  <2> DEFINE K3(a, b, c) == [d \in Raw |-> I(f[<<a, b, c, d>>])]
             K2(a, b) == [c \in Raw |-> Bind(s[4], K3(a, b, c))]
             K1(a) == [b \in Raw |-> Bind(s[3], K2(a, b))]
             K0 == [a \in Raw |-> Bind(s[2], K1(a))]
             v1 == s[1].value
             v2 == s[2].value
             v3 == s[3].value
             v4 == s[4].value
  <2>0. s[1] \in Plain /\ s[2] \in Plain /\ s[3] \in Plain /\ s[4] \in Plain
    BY <1>4
  <2>1. r = Bind(s[1], K0)
    BY <1>0, <1>4 DEF NaryUnpack
  <2>2. Stops(s[1]) => r = s[1]
    <3> HIDE DEF K0, K1, K2, K3
    <3> QED BY <2>0, <2>1, BindPlain
  <2>3. ~ Stops(s[1]) => v1 \in Raw /\ r = Bind(s[2], K1(v1))
    <3>1. ~ Stops(s[1]) => v1 \in Raw /\ r = K0[v1]
      <4> HIDE DEF K0, K1, K2, K3
      <4> QED BY <2>0, <2>1, BindPlain
    <3>2. v1 \in Raw => K0[v1] = Bind(s[2], K1(v1))
      OBVIOUS
    <3> QED BY <3>1, <3>2
  <2>4. ~ Stops(s[1]) /\ Stops(s[2]) => r = s[2]
    <3> HIDE DEF K0, K1, K2, K3, v1
    <3> QED BY <2>0, <2>3, BindPlain
  <2>5. ~ Stops(s[1]) /\ ~ Stops(s[2]) => v2 \in Raw /\ r = Bind(s[3], K2(v1, v2))
    <3>1. ~ Stops(s[1]) /\ ~ Stops(s[2]) => v2 \in Raw /\ r = K1(v1)[v2]
      <4> HIDE DEF K0, K1, K2, K3, v1
      <4> QED BY <2>0, <2>3, BindPlain
    <3>2. v2 \in Raw => K1(v1)[v2] = Bind(s[3], K2(v1, v2))
      OBVIOUS
    <3> QED BY <3>1, <3>2
  <2>6. ~ Stops(s[1]) /\ ~ Stops(s[2]) /\ Stops(s[3]) => r = s[3]
    <3> HIDE DEF K0, K1, K2, K3, v1, v2
    <3> QED BY <2>0, <2>5, BindPlain
  <2>7. ~ Stops(s[1]) /\ ~ Stops(s[2]) /\ ~ Stops(s[3]) => v3 \in Raw /\ r = Bind(s[4], K3(v1, v2, v3))
    <3>1. ~ Stops(s[1]) /\ ~ Stops(s[2]) /\ ~ Stops(s[3]) => v3 \in Raw /\ r = K2(v1, v2)[v3]
      <4> HIDE DEF K0, K1, K2, K3, v1, v2
      <4> QED BY <2>0, <2>5, BindPlain
    <3>2. v3 \in Raw => K2(v1, v2)[v3] = Bind(s[4], K3(v1, v2, v3))
      OBVIOUS
    <3> QED BY <3>1, <3>2
  <2>8. ~ Stops(s[1]) /\ ~ Stops(s[2]) /\ ~ Stops(s[3]) /\ Stops(s[4]) => r = s[4]
    <3> HIDE DEF K0, K1, K2, K3, v1, v2, v3
    <3> QED BY <2>0, <2>7, BindPlain
  <2>9. ~ Stops(s[1]) /\ ~ Stops(s[2]) /\ ~ Stops(s[3]) /\ ~ Stops(s[4]) => v4 \in Raw /\ r = I(f[<<v1, v2, v3, v4>>])
    <3>1. ~ Stops(s[1]) /\ ~ Stops(s[2]) /\ ~ Stops(s[3]) /\ ~ Stops(s[4]) => v4 \in Raw /\ r = K3(v1, v2, v3)[v4]
      <4> HIDE DEF K0, K1, K2, K3, v1, v2, v3
      <4> QED BY <2>0, <2>7, BindPlain
    <3>2. v4 \in Raw => K3(v1, v2, v3)[v4] = I(f[<<v1, v2, v3, v4>>])
      OBVIOUS
    <3> QED BY <3>1, <3>2
  <2>10. <<v1, v2, v3, v4>> = [k \in 1 .. 4 |-> s[k].value]
    OBVIOUS
  <2> HIDE DEF K0, K1, K2, K3, v1, v2, v3, v4
  <2>11. \A k \in 1 .. 4 : k = 1 \/ k = 2 \/ k = 3 \/ k = 4
    OBVIOUS
  <2>12. ASSUME NEW k \in 1 .. 4, Stops(s[k]), \A j \in 1 .. k - 1 : ~ Stops(s[j])
        PROVE  r = s[k]
    <3>1. CASE k = 1
      BY <2>12, <3>1, <2>2
    <3>2. CASE k = 2
      BY <2>12, <3>2, <2>4
    <3>3. CASE k = 3
      BY <2>12, <3>3, <2>6
    <3>4. CASE k = 4
      BY <2>12, <3>4, <2>8
    <3> QED BY <3>1, <3>2, <3>3, <3>4, <2>11
  <2>13. (\A k \in 1 .. 4 : ~ Stops(s[k])) => r = I(f[[k \in 1 .. 4 |-> s[k].value]])
    BY <2>9, <2>10
  <2> QED BY <1>4, <2>12, <2>13 DEF PlainOutcome
<1>5. CASE n = 5
  <2> DEFINE K4(a, b, c, d) == [e \in Raw |-> I(f[<<a, b, c, d, e>>])]
             K3(a, b, c) == [d \in Raw |-> Bind(s[5], K4(a, b, c, d))]
             K2(a, b) == [c \in Raw |-> Bind(s[4], K3(a, b, c))]
             K1(a) == [b \in Raw |-> Bind(s[3], K2(a, b))]
             K0 == [a \in Raw |-> Bind(s[2], K1(a))]
             v1 == s[1].value
             v2 == s[2].value
             v3 == s[3].value
             v4 == s[4].value
             v5 == s[5].value
  <2>0. s[1] \in Plain /\ s[2] \in Plain /\ s[3] \in Plain /\ s[4] \in Plain /\ s[5] \in Plain
    BY <1>5
  <2>1. r = Bind(s[1], K0)
    BY <1>0, <1>5 DEF NaryUnpack
  <2>2. Stops(s[1]) => r = s[1]
    <3> HIDE DEF K0, K1, K2, K3, K4
    <3> QED BY <2>0, <2>1, BindPlain
  <2>3. ~ Stops(s[1]) => v1 \in Raw /\ r = Bind(s[2], K1(v1))
    <3>1. ~ Stops(s[1]) => v1 \in Raw /\ r = K0[v1]
      <4> HIDE DEF K0, K1, K2, K3, K4
      <4> QED BY <2>0, <2>1, BindPlain
    <3>2. v1 \in Raw => K0[v1] = Bind(s[2], K1(v1))
      OBVIOUS
    <3> QED BY <3>1, <3>2
  <2>4. ~ Stops(s[1]) /\ Stops(s[2]) => r = s[2]
    <3> HIDE DEF K0, K1, K2, K3, K4, v1
    <3> QED BY <2>0, <2>3, BindPlain
  <2>5. ~ Stops(s[1]) /\ ~ Stops(s[2]) => v2 \in Raw /\ r = Bind(s[3], K2(v1, v2))
    <3>1. ~ Stops(s[1]) /\ ~ Stops(s[2]) => v2 \in Raw /\ r = K1(v1)[v2]
      <4> HIDE DEF K0, K1, K2, K3, K4, v1
      <4> QED BY <2>0, <2>3, BindPlain
    <3>2. v2 \in Raw => K1(v1)[v2] = Bind(s[3], K2(v1, v2))
      OBVIOUS
    <3> QED BY <3>1, <3>2
  <2>6. ~ Stops(s[1]) /\ ~ Stops(s[2]) /\ Stops(s[3]) => r = s[3]
    <3> HIDE DEF K0, K1, K2, K3, K4, v1, v2
    <3> QED BY <2>0, <2>5, BindPlain
  <2>7. ~ Stops(s[1]) /\ ~ Stops(s[2]) /\ ~ Stops(s[3]) => v3 \in Raw /\ r = Bind(s[4], K3(v1, v2, v3))
    <3>1. ~ Stops(s[1]) /\ ~ Stops(s[2]) /\ ~ Stops(s[3]) => v3 \in Raw /\ r = K2(v1, v2)[v3]
      <4> HIDE DEF K0, K1, K2, K3, K4, v1, v2
      <4> QED BY <2>0, <2>5, BindPlain
    <3>2. v3 \in Raw => K2(v1, v2)[v3] = Bind(s[4], K3(v1, v2, v3))
      OBVIOUS
    <3> QED BY <3>1, <3>2
  <2>8. ~ Stops(s[1]) /\ ~ Stops(s[2]) /\ ~ Stops(s[3]) /\ Stops(s[4]) => r = s[4]
    <3> HIDE DEF K0, K1, K2, K3, K4, v1, v2, v3
    <3> QED BY <2>0, <2>7, BindPlain
  <2>9. ~ Stops(s[1]) /\ ~ Stops(s[2]) /\ ~ Stops(s[3]) /\ ~ Stops(s[4]) => v4 \in Raw /\ r = Bind(s[5], K4(v1, v2, v3, v4))
    <3>1. ~ Stops(s[1]) /\ ~ Stops(s[2]) /\ ~ Stops(s[3]) /\ ~ Stops(s[4]) => v4 \in Raw /\ r = K3(v1, v2, v3)[v4]
      <4> HIDE DEF K0, K1, K2, K3, K4, v1, v2, v3
      <4> QED BY <2>0, <2>7, BindPlain
    <3>2. v4 \in Raw => K3(v1, v2, v3)[v4] = Bind(s[5], K4(v1, v2, v3, v4))
      OBVIOUS
    <3> QED BY <3>1, <3>2
  <2>10. ~ Stops(s[1]) /\ ~ Stops(s[2]) /\ ~ Stops(s[3]) /\ ~ Stops(s[4]) /\ Stops(s[5]) => r = s[5]
    <3> HIDE DEF K0, K1, K2, K3, K4, v1, v2, v3, v4
    <3> QED BY <2>0, <2>9, BindPlain
  <2>11. ~ Stops(s[1]) /\ ~ Stops(s[2]) /\ ~ Stops(s[3]) /\ ~ Stops(s[4]) /\ ~ Stops(s[5]) => v5 \in Raw /\ r = I(f[<<v1, v2, v3, v4, v5>>])
    <3>1. ~ Stops(s[1]) /\ ~ Stops(s[2]) /\ ~ Stops(s[3]) /\ ~ Stops(s[4]) /\ ~ Stops(s[5]) => v5 \in Raw /\ r = K4(v1, v2, v3, v4)[v5]
      <4> HIDE DEF K0, K1, K2, K3, K4, v1, v2, v3, v4
      <4> QED BY <2>0, <2>9, BindPlain
    <3>2. v5 \in Raw => K4(v1, v2, v3, v4)[v5] = I(f[<<v1, v2, v3, v4, v5>>])
      OBVIOUS
    <3> QED BY <3>1, <3>2
  <2>12. <<v1, v2, v3, v4, v5>> = [k \in 1 .. 5 |-> s[k].value]
    OBVIOUS
  <2> HIDE DEF K0, K1, K2, K3, K4, v1, v2, v3, v4, v5
  <2>13. \A k \in 1 .. 5 : k = 1 \/ k = 2 \/ k = 3 \/ k = 4 \/ k = 5
    OBVIOUS
  <2>14. ASSUME NEW k \in 1 .. 5, Stops(s[k]), \A j \in 1 .. k - 1 : ~ Stops(s[j])
        PROVE  r = s[k]
    <3>1. CASE k = 1
      BY <2>14, <3>1, <2>2
    <3>2. CASE k = 2
      BY <2>14, <3>2, <2>4
    <3>3. CASE k = 3
      BY <2>14, <3>3, <2>6
    <3>4. CASE k = 4
      BY <2>14, <3>4, <2>8
    <3>5. CASE k = 5
      BY <2>14, <3>5, <2>10
    <3> QED BY <3>1, <3>2, <3>3, <3>4, <3>5, <2>13
  <2>15. (\A k \in 1 .. 5 : ~ Stops(s[k])) => r = I(f[[k \in 1 .. 5 |-> s[k].value]])
    BY <2>11, <2>12
  <2> QED BY <1>5, <2>14, <2>15 DEF PlainOutcome
<1> QED BY <1>1, <1>2, <1>3, <1>4, <1>5 DEF MaxArity

LEMMA PlainMerge ==
  ASSUME NEW x \in Plain, NEW y \in Plain
  PROVE  Merge(x, y) \in Plain
<1>1. CASE x = Nothing \/ x = Contradiction \/ y = Nothing \/ y = Contradiction
  BY <1>1, PlainCases, MergeUnits, MergeUnitsRight
<1>2. CASE x.tag = "something" /\ y.tag = "something"
  BY <1>2, PlainCases, MergeSomethingByClass DEF Plain
<1> QED BY <1>1, <1>2, PlainCases

LEMMA PlainBelow ==
  ASSUME NEW x \in Plain, NEW y \in Plain
  PROVE  x \preceq y <=> x = Nothing \/ y = Contradiction \/ x = y
<1>1. x \in Info /\ y \in Info
  BY PlainCases
<1>2. x = Nothing \/ y = Contradiction \/ x = y => x \preceq y
  BY <1>1, PrecExtremes
<1>3. ASSUME x \preceq y, x # Nothing, y # Contradiction PROVE x = y
  <2>1. Merge(x, y) = y
    BY <1>3 DEF \preceq
  <2>2. x # Contradiction
    BY <2>1, <1>3, MergeUnits
  <2>3. x = Something(x.value)
    BY <2>2, <1>3, PlainCases
  <2>4. y # Nothing
    BY <2>1, <1>1, <1>3, MergeUnitsRight
  <2>5. y = Something(y.value)
    BY <2>4, <1>3, PlainCases
  <2> QED BY <2>1, <2>3, <2>5, <1>3, MergeSomethingByClass
<1> QED BY <1>2, <1>3

LEMMA IPlain ==
  ASSUME NEW x \in Plain
  PROVE  I(x) = x
<1>1. x \in Info /\ x # Null /\ x # Error
  BY PlainCases DEF Null, Error, Plain, Nothing, Contradiction, Somethings
<1> QED BY <1>1 DEF I

(* What p answers to the values t. *)
Reply(p, t, failed) == IF p \in Async THEN Answered(Call(p, t), failed) ELSE I(Apply(p, t))

LEMMA ReplyType ==
  ASSUME PlainAssumption, NEW p \in Prop, Kind[p] # "recursive", NEW failed,
         NEW t \in [1 .. Arity(p) -> Raw]
  PROVE  /\ Reply(p, t, failed) \in Plain
         /\ Reply(p, t, failed) = Contradiction \/ Reply(p, t, failed) = I(Apply(p, t))
         /\ Reply(p, t, failed) = I(IF p \in Async THEN Answered(Call(p, t), failed) ELSE Apply(p, t))
<1>1. I(Apply(p, t)) \in Plain /\ Contradiction \in Plain
  BY DEF PlainAssumption, Plain
<1>2. CASE p \in Async
  <2>1. Call(p, t).prop = p /\ Call(p, t).args = t
    BY DEF Call
  <2>2. Kind[p] # "switch"
    BY <1>2, AsyncAssumption
  <2>3. Apply(p, t) = Fn(p, t)
    BY <2>2 DEF Apply
  <2>4. Answered(Call(p, t), failed) \in {Contradiction, I(Apply(p, t))}
    BY <2>1, <2>3 DEF Answered
  <2>5. Answered(Call(p, t), failed) \in Plain
    BY <2>4, <1>1
  <2> QED BY <1>2, <2>4, <2>5, IPlain DEF Reply
<1>3. CASE p \notin Async
  BY <1>1, <1>3 DEF Reply
<1> QED BY <1>2, <1>3

(* The k-th input is the first that is no value. *)
FirstAt(s, n, k) == k \in 1 .. n /\ Stops(s[k]) /\ \A j \in 1 .. k - 1 : ~ Stops(s[j])

LEMMA SomeFirst ==
  ASSUME NEW n \in 1 .. MaxArity, NEW s, NEW i \in 1 .. n, Stops(s[i])
  PROVE  \E k \in 1 .. n : FirstAt(s, n, k) /\ k <= i
<1> DEFINE T == {k \in 1 .. n : Stops(s[k])}
<1>1. T # {} /\ T \in SUBSET (1 .. n)
  OBVIOUS
<1>2. PICK k \in T : \A j \in 1 .. k - 1 : j \notin T
  BY <1>1, FirstStop
<1>3. n \in Nat /\ k \in 1 .. n
  BY <1>2 DEF MaxArity
<1>4. k <= i
  <2>1. i \in T
    OBVIOUS
  <2>2. ~ (i \in 1 .. k - 1)
    BY <1>2, <2>1
  <2> QED BY <2>2, <1>3
<1>5. \A j \in 1 .. k - 1 : j \in 1 .. n
  BY <1>3
<1> QED BY <1>2, <1>3, <1>4, <1>5 DEF FirstAt

InputsFrom(p, content) == [i \in 1 .. Arity(p) |-> content[From[p][i]]]

LEMMA SyncOutcome ==
  ASSUME PlainAssumption, NEW p \in Prop, Kind[p] # "recursive", NEW failed,
         NEW content \in [Cell -> Plain]
  PROVE  LET n == Arity(p)
             s == InputsFrom(p, content)
             said == SyncCompute(p, failed, content)
             t == [k \in 1 .. n |-> s[k].value]
         IN  /\ s \in [1 .. n -> Plain] /\ said \in Plain
             /\ \A k : FirstAt(s, n, k) => said = s[k]
             /\ (\A k \in 1 .. n : ~ Stops(s[k])) =>
                  t \in [1 .. n -> Raw] /\ said = Reply(p, t, failed)
<1> DEFINE n == Arity(p)
           s == InputsFrom(p, content)
           said == SyncCompute(p, failed, content)
           t == [k \in 1 .. n |-> s[k].value]
           f == [u \in [1 .. n -> Raw] |->
                   IF p \in Async THEN Answered(Call(p, u), failed) ELSE Apply(p, u)]
<1>1. n \in 1 .. MaxArity /\ s \in [1 .. n -> Plain]
  BY FromType DEF InputsFrom
<1>2. said = NaryUnpack(f, s)
  <2>1. As[p] = "none"
    BY DEF PlainAssumption
  <2> QED BY <2>1 DEF SyncCompute, Coerce, InputsFrom
<1>3. (\A k \in 1 .. n : ~ Stops(s[k])) => t \in [1 .. n -> Raw] /\ I(f[t]) = Reply(p, t, failed)
  <2> SUFFICES ASSUME \A k \in 1 .. n : ~ Stops(s[k])
               PROVE  t \in [1 .. n -> Raw] /\ I(f[t]) = Reply(p, t, failed)
    OBVIOUS
  <2>1. \A k \in 1 .. n : s[k].value \in Raw
    BY <1>1, PlainCases
  <2>2. t \in [1 .. n -> Raw]
    BY <2>1
  <2> HIDE DEF t
  <2>3. f[t] = IF p \in Async THEN Answered(Call(p, t), failed) ELSE Apply(p, t)
    BY <2>2
  <2> QED BY <2>2, <2>3, ReplyType
<1> HIDE DEF n, s, f, said
<1>4. PlainOutcome(n, s, f, said)
  BY <1>1, <1>2, UnpackPlain
<1>5. \A k : FirstAt(s, n, k) => said = s[k]
  BY <1>4 DEF PlainOutcome, FirstAt
<1>6. (\A k \in 1 .. n : ~ Stops(s[k])) => t \in [1 .. n -> Raw] /\ said = Reply(p, t, failed)
  BY <1>3, <1>4 DEF PlainOutcome
<1>7. said \in Plain
  <2>1. CASE \A k \in 1 .. n : ~ Stops(s[k])
    <3>1. t \in [1 .. Arity(p) -> Raw] /\ said = Reply(p, t, failed)
      BY <2>1, <1>6 DEF n
    <3> HIDE DEF t
    <3> QED BY <3>1, ReplyType
  <2>2. CASE \E k \in 1 .. n : Stops(s[k])
    <3>1. PICK k \in 1 .. n : FirstAt(s, n, k)
      BY <2>2, <1>1, SomeFirst
    <3> QED BY <3>1, <1>1, <1>5
  <2> QED BY <2>1, <2>2
<1> QED BY <1>1, <1>5, <1>6, <1>7 DEF n, s, said

(* Told more, a propagator says more. *)
LEMMA SyncMonotone ==
  ASSUME PlainAssumption, NEW p \in Prop, Kind[p] # "recursive", NEW failed,
         NEW c1 \in [Cell -> Plain], NEW c2 \in [Cell -> Plain],
         \A c \in Cell : c1[c] \preceq c2[c]
  PROVE  SyncCompute(p, failed, c1) \preceq SyncCompute(p, failed, c2)
<1> DEFINE n == Arity(p)
           s1 == InputsFrom(p, c1)
           s2 == InputsFrom(p, c2)
           said1 == SyncCompute(p, failed, c1)
           said2 == SyncCompute(p, failed, c2)
           t1 == [k \in 1 .. n |-> s1[k].value]
           t2 == [k \in 1 .. n |-> s2[k].value]
<1>1. /\ n \in 1 .. MaxArity
      /\ s1 \in [1 .. n -> Plain] /\ s2 \in [1 .. n -> Plain]
      /\ said1 \in Plain /\ said2 \in Plain
      /\ \A k : FirstAt(s1, n, k) => said1 = s1[k]
      /\ \A k : FirstAt(s2, n, k) => said2 = s2[k]
      /\ (\A k \in 1 .. n : ~ Stops(s1[k])) => said1 = Reply(p, t1, failed)
      /\ (\A k \in 1 .. n : ~ Stops(s2[k])) => said2 = Reply(p, t2, failed)
  <2>1. n \in 1 .. MaxArity
    BY FromType
  <2>2. /\ s1 \in [1 .. n -> Plain] /\ said1 \in Plain
        /\ \A k : FirstAt(s1, n, k) => said1 = s1[k]
        /\ (\A k \in 1 .. n : ~ Stops(s1[k])) => said1 = Reply(p, t1, failed)
    BY SyncOutcome
  <2>3. /\ s2 \in [1 .. n -> Plain] /\ said2 \in Plain
        /\ \A k : FirstAt(s2, n, k) => said2 = s2[k]
        /\ (\A k \in 1 .. n : ~ Stops(s2[k])) => said2 = Reply(p, t2, failed)
    BY SyncOutcome
  <2> HIDE DEF n, s1, s2, said1, said2, t1, t2
  <2> QED BY <2>1, <2>2, <2>3
<1>2. \A k \in 1 .. n : s1[k] = Nothing \/ s2[k] = Contradiction \/ s1[k] = s2[k]
  <2> TAKE k \in 1 .. n
  <2>1. From[p][k] \in Cell /\ s1[k] = c1[From[p][k]] /\ s2[k] = c2[From[p][k]]
    BY FromType DEF InputsFrom
  <2>2. s1[k] \in Plain /\ s2[k] \in Plain /\ s1[k] \preceq s2[k]
    BY <2>1
  <2> HIDE DEF s1, s2
  <2> QED BY <2>2, PlainBelow
<1>3. \A k \in 1 .. n : /\ Stops(s1[k]) <=> s1[k] = Nothing \/ s1[k] = Contradiction
                        /\ Stops(s2[k]) <=> s2[k] = Nothing \/ s2[k] = Contradiction
  <2> HIDE DEF s1, s2, n
  <2> QED BY <1>1, PlainCases, Tags
<1>4. t1 = t2 \/ \E k \in 1 .. n : s1[k] # s2[k]
  OBVIOUS
<1> HIDE DEF n, s1, s2, said1, said2, t1, t2
<1>5. SUFFICES ASSUME said1 # Nothing, said2 # Contradiction PROVE said1 = said2
  BY <1>1, PlainBelow DEF said1, said2
<1>6. ASSUME NEW k \in 1 .. n, Stops(s2[k]), \A j \in 1 .. k : s1[j] # Nothing
      PROVE  FALSE
  <2>1. PICK l \in 1 .. n : FirstAt(s2, n, l) /\ l <= k
    BY <1>1, <1>6, SomeFirst
  <2>2. l \in 1 .. k
    BY <2>1
  <2>3. Stops(s2[l]) /\ s1[l] # Nothing /\ said2 = s2[l]
    BY <1>1, <1>6, <2>1, <2>2 DEF FirstAt
  <2> QED BY <1>2, <1>3, <1>5, <2>3
<1>7. CASE \A k \in 1 .. n : ~ Stops(s1[k])
  <2>1. \A k \in 1 .. n : s1[k] # Nothing /\ s1[k] # Contradiction
    BY <1>3, <1>7
  <2>2. \A k \in 1 .. n : \A j \in 1 .. k : j \in 1 .. n
    BY <1>1 DEF MaxArity
  <2>3. \A k \in 1 .. n : ~ Stops(s2[k])
    BY <1>6, <2>1, <2>2
  <2>4. \A k \in 1 .. n : s1[k] = s2[k]
    BY <1>2, <1>3, <2>1, <2>3
  <2> QED BY <1>1, <1>4, <1>7, <2>3, <2>4
<1>8. CASE \E k \in 1 .. n : Stops(s1[k])
  <2>1. PICK k \in 1 .. n : FirstAt(s1, n, k)
    BY <1>1, <1>8, SomeFirst
  <2>2. said1 = s1[k] /\ s1[k] = Contradiction
    BY <1>1, <1>3, <1>5, <2>1 DEF FirstAt
  <2>3. s2[k] = Contradiction
    BY <1>2, <2>2, Distinct
  <2>4. \A j \in 1 .. k : j \in 1 .. k - 1 \/ j = k
    BY <1>1 DEF MaxArity
  <2>5. \A j \in 1 .. k : j \in 1 .. n
    BY <1>1 DEF MaxArity
  <2>6. \A j \in 1 .. k : s1[j] # Nothing
    BY <1>3, <2>1, <2>2, <2>4, <2>5, Distinct DEF FirstAt
  <2> QED BY <1>3, <1>6, <2>3, <2>6
<1> QED BY <1>7, <1>8

(* A propagator that always answers something says Nothing just when an    *)
(* input is Nothing and those before it are values.                        *)
LEMMA SilentOutcome ==
  ASSUME PlainAssumption, NEW p \in Prop, Kind[p] # "recursive", NEW failed,
         NEW content \in [Cell -> Plain],
         \A t \in [1 .. Arity(p) -> Raw] : I(Apply(p, t)) # Nothing
  PROVE  SyncCompute(p, failed, content) = Nothing <=>
           \E k : FirstAt(InputsFrom(p, content), Arity(p), k)
                    /\ InputsFrom(p, content)[k] = Nothing
<1> DEFINE n == Arity(p)
           s == InputsFrom(p, content)
           said == SyncCompute(p, failed, content)
           t == [k \in 1 .. n |-> s[k].value]
<1>1. /\ n \in 1 .. MaxArity /\ s \in [1 .. n -> Plain]
      /\ \A k : FirstAt(s, n, k) => said = s[k]
      /\ (\A k \in 1 .. n : ~ Stops(s[k])) => t \in [1 .. n -> Raw] /\ said = Reply(p, t, failed)
  BY SyncOutcome, FromType
<1>2. (\A k \in 1 .. n : ~ Stops(s[k])) => said # Nothing
  <2> SUFFICES ASSUME \A k \in 1 .. n : ~ Stops(s[k]) PROVE said # Nothing
    OBVIOUS
  <2>1. t \in [1 .. n -> Raw] /\ said = Reply(p, t, failed)
    BY <1>1
  <2>2. I(Apply(p, t)) # Nothing
    BY <2>1
  <2> HIDE DEF t, said, s
  <2> QED BY <2>1, <2>2, ReplyType, Distinct
<1> HIDE DEF n, s, said, t
<1>3. (\E k \in 1 .. n : Stops(s[k])) => \E k : FirstAt(s, n, k)
  BY <1>1, SomeFirst
<1>4. said = Nothing <=> \E k : FirstAt(s, n, k) /\ s[k] = Nothing
  BY <1>1, <1>2, <1>3
<1> QED BY <1>4 DEF n, s, said

(* All propagators that write a cell a promise may reach speak together.   *)
LEMMA SpeakTogether ==
  ASSUME PlainAssumption, NEW L, DelayedAssumption(L),
         NEW p \in Prop, Kind[p] # "recursive", To[p] \in L, NEW q \in Writers(To[p]), NEW failed,
         NEW content \in [Cell -> Plain],
         SyncCompute(q, failed, content) = Nothing
  PROVE  SyncCompute(p, failed, content) = Nothing
<1>1. q \in Prop /\ Kind[q] # "recursive" /\ To[q] = To[p]
  BY DEF Writers
<1>2. From[q] = From[p] /\ Arity(q) = Arity(p)
  BY DEF DelayedAssumption, Arity
<1>3. InputsFrom(q, content) = InputsFrom(p, content)
  BY <1>2 DEF InputsFrom
<1>4. /\ \A t \in [1 .. Arity(p) -> Raw] : I(Apply(p, t)) # Nothing
      /\ \A t \in [1 .. Arity(q) -> Raw] : I(Apply(q, t)) # Nothing
  BY <1>1 DEF DelayedAssumption
<1>5. \E k : FirstAt(InputsFrom(q, content), Arity(q), k) /\ InputsFrom(q, content)[k] = Nothing
  BY <1>1, <1>4, SilentOutcome
<1> QED BY <1>2, <1>3, <1>4, <1>5, SilentOutcome

(* The cells as the class has them. *)
PlainCells(L) ==
  /\ cells \in [Cell -> Holdable(MadeCalls)]
  /\ \A c \in Cell : /\ Awaited[c] \in Plain
                     /\ IsPromise(cells[c]) => c \in L /\ Awaited[c] # Nothing
                     /\ Given(c) => Awaited[c] # Nothing

(* What a propagator offers becomes what it would have said. *)
LEMMA OfferBecomesSaid ==
  ASSUME PlainAssumption, NEW L, DelayedAssumption(L), PlainCells(L),
         NEW p \in Prop, Kind[p] # "recursive"
  PROVE  LET offer == Offer(p, InputsOf(p), failing)
         IN  /\ SettlesTo(offer) = Said(p)
             /\ IsPromise(offer) => To[p] \in L /\ Said(p) # Nothing
<1> DEFINE n == Arity(p)
           s == InputsOf(p)
           w == InputsFrom(p, Awaited)
           t == [k \in 1 .. n |-> w[k].value]
           inner == Innermost(p, s, failing)
           late  == \E i \in Looked(s) : IsPromise(s[i])
           offer == Offer(p, s, failing)
           said  == Said(p)
<1>1. Awaited \in [Cell -> Plain] /\ n \in 1 .. MaxArity /\ DOMAIN s = 1 .. n
  BY FromType DEF PlainCells, Awaited, InputsOf
<1>2. /\ w \in [1 .. n -> Plain]
      /\ \A k : FirstAt(w, n, k) => said = w[k]
      /\ (\A k \in 1 .. n : ~ Stops(w[k])) => t \in [1 .. n -> Raw] /\ said = Reply(p, t, failing)
  BY <1>1, SyncOutcome DEF Said
<1>3. \A k \in 1 .. n :
        /\ From[p][k] \in Cell /\ s[k] \in Holdable(MadeCalls)
        /\ w[k] = SettlesTo(s[k])
        /\ IsPromise(s[k]) => From[p][k] \in L /\ w[k] # Nothing
        /\ Given(From[p][k]) => w[k] # Nothing
  <2> TAKE k \in 1 .. n
  <2>1. From[p][k] \in Cell /\ s[k] = cells[From[p][k]] /\ w[k] = Awaited[From[p][k]]
    BY FromType DEF InputsOf, InputsFrom
  <2> HIDE DEF s, w
  <2>2. w[k] = SettlesTo(s[k])
    BY <2>1 DEF Awaited
  <2> QED BY <2>1, <2>2 DEF PlainCells
<1> HIDE DEF s, w, n, said
<1>4. \A k \in 1 .. n : Stops(s[k]) <=> Stops(w[k])
  <2> TAKE k \in 1 .. n
  <2>1. w[k] \in Plain
    BY <1>2
  <2>2. Stops(w[k]) <=> w[k] = Nothing \/ w[k] = Contradiction
    BY <2>1, PlainCases, Tags
  <2>3. Stops(s[k]) <=> s[k] = Nothing \/ w[k] = Contradiction
    BY <1>3 DEF Stops
  <2>4. s[k] = Nothing <=> w[k] = Nothing
    <3>1. CASE IsPromise(s[k])
      <4>1. s[k] # Nothing
        BY <3>1, Tags DEF IsPromise
      <4> QED BY <4>1, <3>1, <1>3
    <3>2. CASE ~ IsPromise(s[k])
      BY <3>2, <1>3 DEF SettlesTo
    <3> QED BY <3>1, <3>2
  <2> QED BY <2>2, <2>3, <2>4
<1>5. SettlesTo(inner) = said
  <2>1. CASE Stopped(s)
    <3>1. PICK i \in 1 .. n : Stops(w[i])
      BY <2>1, <1>1, <1>4 DEF Stopped
    <3>2. PICK k \in 1 .. n : FirstAt(w, n, k)
      BY <3>1, <1>1, SomeFirst
    <3>3. \A j \in 1 .. k - 1 : j \in 1 .. n
      BY <1>1, <3>2 DEF MaxArity
    <3>4. k \in Looked(s) /\ Stops(s[k])
      BY <1>1, <1>4, <3>2, <3>3 DEF FirstAt, Looked
    <3>5. \A i_1, j \in Looked(s) : Stops(s[i_1]) /\ Stops(s[j]) => i_1 = j
      BY <1>1, <2>1, OneStop
    <3>6. (CHOOSE j \in Looked(s) : Stops(s[j])) = k
      BY <3>4, <3>5
    <3>7. inner = SettlesTo(s[k])
      BY <2>1, <3>6 DEF Innermost
    <3>8. inner = w[k] /\ w[k] \in Plain
      BY <3>7, <1>2, <1>3
    <3> QED BY <3>2, <3>8, <1>2, PlainCases
  <2>2. CASE ~ Stopped(s)
    <3>1. \A k \in 1 .. n : ~ Stops(s[k]) /\ ~ Stops(w[k])
      BY <2>2, <1>1, <1>4 DEF Stopped
    <3>2. \A k \in 1 .. n : Opened(s[k]) = w[k].value
      <4> TAKE k \in 1 .. n
      <4>1. w[k] \in Plain /\ w[k].tag = "something"
        BY <1>2, <3>1, PlainCases
      <4> QED BY <4>1, <1>3 DEF Opened
    <3>3. Arguments(s) = t
      BY <1>1, <3>2 DEF Arguments
    <3>4. t \in [1 .. n -> Raw] /\ said = Reply(p, t, failing)
      BY <1>2, <3>1
    <3> HIDE DEF t
    <3>5. CASE p \in Async
      <4>1. inner = Promise({Call(p, t)}, Answered(Call(p, t), failing))
        BY <2>2, <3>3, <3>5 DEF Innermost
      <4> QED BY <4>1, <3>4, <3>5, PromiseParts DEF Reply
    <3>6. CASE p \notin Async
      <4>1. inner = I(Apply(p, t)) /\ said = I(Apply(p, t))
        BY <2>2, <3>3, <3>4, <3>6 DEF Innermost, Reply
      <4>2. said \in Plain
        BY <3>4, ReplyType DEF n
      <4> QED BY <4>1, <4>2, PlainCases
    <3> QED BY <3>5, <3>6
  <2> QED BY <2>1, <2>2
<1>6. IsPromise(inner) => p \in Async /\ ~ Stopped(s)
  <2>1. CASE Stopped(s) \/ p \notin Async
    <3>1. inner \in Plain
      <4>1. inner = SettlesTo(s[CHOOSE i \in Looked(s) : Stops(s[i])]) \/ inner = I(Apply(p, Arguments(s)))
        BY <2>1 DEF Innermost
      <4>2. CASE Stopped(s)
        <5>1. \E k \in Looked(s) : Stops(s[k])
          BY <1>1, <4>2, OneStop
        <5> DEFINE k == CHOOSE i \in Looked(s) : Stops(s[i])
        <5>2. k \in Looked(s)
          BY <5>1
        <5>3. k \in 1 .. n
          BY <5>2, <1>1 DEF Looked
        <5>4. inner = SettlesTo(s[k])
          BY <4>2 DEF Innermost
        <5> HIDE DEF k
        <5> QED BY <5>3, <5>4, <1>2, <1>3
      <4>3. CASE ~ Stopped(s)
        <5>1. \A k \in 1 .. n : ~ Stops(w[k])
          BY <4>3, <1>1, <1>4 DEF Stopped
        <5>2. \A k \in 1 .. n : Opened(s[k]) = w[k].value
          <6> TAKE k \in 1 .. n
          <6>1. w[k] \in Plain /\ w[k].tag = "something"
            BY <1>2, <5>1, PlainCases
          <6> QED BY <6>1, <1>3 DEF Opened
        <5>3. Arguments(s) = t
          BY <1>1, <5>2 DEF Arguments
        <5>4. t \in [1 .. n -> Raw]
          BY <1>2, <5>1
        <5> HIDE DEF t
        <5>5. inner = I(Apply(p, t))
          BY <4>3, <2>1, <5>3 DEF Innermost
        <5> QED BY <5>4, <5>5 DEF PlainAssumption, n
      <4> QED BY <4>2, <4>3
    <3> QED BY <3>1, PlainCases
  <2> QED BY <2>1
<1>7. offer = IF late THEN Promise(Pending(s) \cup Waits(inner), SettlesTo(inner)) ELSE inner
  <2>1. As[p] = "none"
    BY DEF PlainAssumption
  <2> QED BY <2>1 DEF Offer, Coerce
<1> HIDE DEF inner, offer
<1>8. SettlesTo(offer) = said
  BY <1>5, <1>7, PromiseParts
<1>9. IsPromise(offer) => late \/ (p \in Async /\ ~ Stopped(s))
  BY <1>6, <1>7
<1>10. late => To[p] \in L
  <2> SUFFICES ASSUME late PROVE To[p] \in L
    OBVIOUS
  <2>1. PICK i \in Looked(s) : IsPromise(s[i])
    OBVIOUS
  <2>2. i \in 1 .. Arity(p) /\ From[p][i] \in L
    BY <2>1, <1>1, <1>3 DEF Looked, n
  <2> QED BY <2>2 DEF DelayedAssumption
<1>11. p \in Async => To[p] \in L
  BY DEF DelayedAssumption
<1>12. To[p] \in L => (said = Nothing <=> \E k : FirstAt(w, n, k) /\ w[k] = Nothing)
  <2>1. To[p] \in L => \A u \in [1 .. Arity(p) -> Raw] : I(Apply(p, u)) # Nothing
    BY DEF DelayedAssumption
  <2> QED BY <2>1, <1>1, SilentOutcome DEF Said, said, w, n
<1>13. p \in Async /\ ~ Stopped(s) => said # Nothing
  <2> SUFFICES ASSUME p \in Async, ~ Stopped(s), said = Nothing PROVE FALSE
    OBVIOUS
  <2>1. PICK k : FirstAt(w, n, k) /\ w[k] = Nothing
    BY <1>11, <1>12
  <2>2. Stops(s[k]) /\ k \in 1 .. n
    BY <2>1, <1>4 DEF FirstAt
  <2> QED BY <2>2, <1>1 DEF Stopped
<1>14. late => said # Nothing
  <2> SUFFICES ASSUME late, said = Nothing PROVE FALSE
    OBVIOUS
  <2>1. PICK i \in Looked(s) : IsPromise(s[i])
    OBVIOUS
  <2>2. PICK k : FirstAt(w, n, k) /\ w[k] = Nothing
    BY <1>10, <1>12
  <2>3. i \in 1 .. n /\ k \in 1 .. n /\ Stops(s[k]) /\ n \in Nat
    BY <2>1, <2>2, <1>1, <1>4 DEF Looked, FirstAt, MaxArity
  <2>4. ~ (k \in 1 .. i - 1)
    BY <2>1, <2>3 DEF Looked
  <2>5. k # i
    BY <2>1, <2>2, <2>3, <1>3
  <2>6. i < k
    BY <2>3, <2>4, <2>5
  <2>7. From[p][i] \in L
    BY <2>1, <2>3, <1>3
  <2>8. Given(From[p][k])
    BY <2>3, <2>6, <2>7 DEF DelayedAssumption, n
  <2> QED BY <2>2, <2>3, <2>8, <1>3
<1> QED BY <1>8, <1>9, <1>10, <1>11, <1>13, <1>14 DEF offer, said, s

LEMMA AllSaidBounds ==
  ASSUME PlainAssumption, NEW c \in Cell, NEW start \in [Cell -> Plain], NEW failed,
         NEW content \in [Cell -> Plain]
  PROVE  /\ AllSaid(c, start, failed, content) \in Info
         /\ start[c] \preceq AllSaid(c, start, failed, content)
         /\ \A p \in Writers(c) :
              SyncCompute(p, failed, content) \preceq AllSaid(c, start, failed, content)
         /\ \A y \in Info :
              start[c] \preceq y /\ (\A p \in Writers(c) : SyncCompute(p, failed, content) \preceq y)
                => AllSaid(c, start, failed, content) \preceq y
<1> DEFINE m == [p \in Writers(c) |-> SyncCompute(p, failed, content)]
           all == AllSaid(c, start, failed, content)
<1>1. \A p \in Writers(c) : SyncCompute(p, failed, content) \in Plain
  BY SyncOutcome DEF Writers
<1>2. \A p \in Writers(c) : SyncCompute(p, failed, content) \in Info
  BY <1>1, PlainCases
<1>3. start[c] \in Info /\ IsFiniteSet(Prop)
  BY PlainCases DEF PlainAssumption
<1>4. IsJoin(all, start[c], m, Writers(c))
  BY <1>2, <1>3, AllSaidIsJoin
<1>5. \A p \in Writers(c) : m[p] = SyncCompute(p, failed, content)
  OBVIOUS
<1> HIDE DEF m, all
<1> QED BY <1>4, <1>5 DEF IsJoin, all

LEMMA AllSaidGrows ==
  ASSUME PlainAssumption, NEW c \in Cell, NEW start \in [Cell -> Plain], NEW failed,
         NEW c1 \in [Cell -> Plain], NEW c2 \in [Cell -> Plain],
         \A d \in Cell : c1[d] \preceq c2[d]
  PROVE  AllSaid(c, start, failed, c1) \preceq AllSaid(c, start, failed, c2)
<1> DEFINE y == AllSaid(c, start, failed, c2)
<1>1. y \in Info /\ start[c] \preceq y
  BY AllSaidBounds
<1>2. ASSUME NEW p \in Writers(c) PROVE SyncCompute(p, failed, c1) \preceq y
  <2>1. p \in Prop /\ Kind[p] # "recursive"
    BY DEF Writers
  <2>2. SyncCompute(p, failed, c1) \preceq SyncCompute(p, failed, c2)
    BY <2>1, SyncMonotone
  <2>3. SyncCompute(p, failed, c2) \preceq y
    BY AllSaidBounds
  <2>4. SyncCompute(p, failed, c1) \in Info /\ SyncCompute(p, failed, c2) \in Info
    BY <2>1, SyncOutcome, PlainCases
  <2> QED BY <1>1, <2>2, <2>3, <2>4, PrecTransitive
<1> QED BY <1>1, <1>2, AllSaidBounds

LEMMA SyncLocal ==
  ASSUME NEW p \in Prop, NEW failed, NEW c1, NEW c2,
         \A i \in 1 .. Arity(p) : c1[From[p][i]] = c2[From[p][i]]
  PROVE  SyncCompute(p, failed, c1) = SyncCompute(p, failed, c2)
<1>1. [i \in 1 .. Arity(p) |-> c1[From[p][i]]] = [i \in 1 .. Arity(p) |-> c2[From[p][i]]]
  OBVIOUS
<1> QED BY <1>1, Zenon DEF SyncCompute

(* A merge becomes the merge of what the two become, unless a Nothing      *)
(* replaces a promise.                                                     *)
LEMMA MergedBecomes ==
  ASSUME NEW M, NEW a \in Holdable(M), NEW b \in Holdable(M), NEW arrived,
         NEW after \in Merged(a, b, arrived),
         SettlesTo(a) \in Plain, SettlesTo(b) \in Plain,
         IsPromise(a) => b # Nothing
  PROVE  /\ SettlesTo(after) = Merge(SettlesTo(a), SettlesTo(b))
         /\ IsPromise(after) => IsPromise(a) \/ IsPromise(b)
<1>1. SettlesTo(a) \in Info /\ SettlesTo(b) \in Info
      /\ Merge(SettlesTo(a), SettlesTo(b)) \in Plain
      /\ Merge(SettlesTo(a), SettlesTo(b)) = Merge(SettlesTo(b), SettlesTo(a))
  BY PlainCases, PlainMerge, MergeCommutative
<1>2. CASE IsPromise(a)
  <2>1. after = Promise(Waits(a) \cup Waits(b), Merge(SettlesTo(a), SettlesTo(b)))
    BY <1>2, HoldableParts DEF Merged
  <2> QED BY <2>1, <1>2, PromiseParts
<1>3. CASE ~ IsPromise(a) /\ IsPromise(b)
  <2>1. a = SettlesTo(a)
    BY <1>3 DEF SettlesTo
  <2>2. CASE a = Nothing
    <3>1. after = b
      BY <1>3, <2>2, Tags DEF Merged
    <3> QED BY <1>3, <2>1, <2>2, <3>1, MergeUnits
  <2>3. CASE a.tag = "something"
    <3>1. after = Promise(Waits(b), Merge(SettlesTo(b), SettlesTo(a)))
      BY <1>3, <2>1, <2>3, HoldableParts DEF Merged
    <3> QED BY <1>1, <1>3, <3>1, PromiseParts
  <2>4. CASE a = Contradiction
    <3>1. after = Contradiction
      BY <1>3, <2>4, Tags DEF Merged
    <3>2. Contradiction \in Plain
      BY DEF Plain
    <3> QED BY <2>1, <2>4, <3>1, <3>2, <1>3, MergeUnits, PlainCases
  <2> QED BY <2>1, <2>2, <2>3, <2>4, PlainCases
<1>4. CASE ~ IsPromise(a) /\ ~ IsPromise(b)
  <2>1. after = Merge(SettlesTo(a), SettlesTo(b))
    BY <1>4 DEF Merged, SettlesTo
  <2> QED BY <1>1, <2>1, PlainCases
<1> QED BY <1>2, <1>3, <1>4

-----------------------------------------------------------------------------
(* The invariant, step by step. *)

(* Between them, the invariants give what the class says of the cells.     *)
LEMMA CellsArePlain ==
  ASSUME Typed, NEW L, NothingIsDelayed(L)
  PROVE  /\ PlainCells(L)
         /\ Awaited \in [Cell -> Plain] /\ seed \in [Cell -> Plain]
<1>1. \A c \in Cell : seed[c] \in Plain /\ Awaited[c] \in Plain /\ seed[c] \preceq Awaited[c]
                       /\ (Given(c) => seed[c] # Nothing)
  BY DEF NothingIsDelayed, BetweenSeedAndSaid
<1>2. \A c \in Cell : Given(c) => Awaited[c] # Nothing
  <2> TAKE c \in Cell
  <2>1. seed[c] = Nothing \/ Awaited[c] = Contradiction \/ seed[c] = Awaited[c]
    BY <1>1, PlainBelow
  <2> QED BY <1>1, <2>1, Distinct
<1>3. \A c \in Cell : IsPromise(cells[c]) => c \in L /\ Awaited[c] # Nothing
  BY DEF NothingIsDelayed, PromisesBecomeValues, Awaited
<1>4. Awaited \in [Cell -> Plain]
  BY <1>1 DEF Awaited
<1>5. seed \in [Cell -> Plain]
  BY <1>1 DEF Typed
<1> QED BY <1>1, <1>2, <1>3, <1>4, <1>5 DEF PlainCells, Typed

(* The cells at the start of a pass. *)
LEMMA StartDelayed ==
  ASSUME PlainAssumption, NEW L, cells \in [Cell -> Plain], seed = cells,
         \A c \in Cell : Given(c) => cells[c] # Nothing,
         Range(queue) = Prop, status = "running"
  PROVE  NothingIsDelayed(L)
<1>1. \A c \in Cell : cells[c] \in Plain /\ ~ IsPromise(cells[c]) /\ Awaited[c] = cells[c]
                       /\ cells[c] \in Info
  BY PlainCases DEF Awaited
<1>2. Awaited \in [Cell -> Plain]
  BY <1>1 DEF Awaited
<1>3. PromisesBecomeValues(L)
  BY <1>1 DEF PromisesBecomeValues
<1>4. \A c \in Cell : seed[c] \preceq Awaited[c] /\ Awaited[c] \preceq AllSaid(c, seed, failing, Awaited)
  <2> TAKE c \in Cell
  <2>1. seed[c] \preceq AllSaid(c, seed, failing, Awaited)
    BY <1>2, AllSaidBounds
  <2> QED BY <2>1, <1>1, PrecExtremes
<1>5. BetweenSeedAndSaid
  BY <1>1, <1>4 DEF BetweenSeedAndSaid
<1> QED BY <1>3, <1>5 DEF NothingIsDelayed, HeardOrQueued, DoneIsEmpty

LEMMA InitDelayed ==
  ASSUME PlainAssumption, NEW L, Init
  PROVE  NothingIsDelayed(L)
<1>1. PICK in \in Inputs : cells = Invoked(in)
  BY DEF Init
<1>2. cells \in [Cell -> Plain]
  BY <1>1 DEF PlainAssumption, Invoked
<1>3. \A c \in Cell : Given(c) => cells[c] # Nothing
  BY <1>1 DEF Given
<1>4. Range(queue) = Prop
  BY RankingsAssumption DEF Init
<1> QED BY <1>2, <1>3, <1>4, StartDelayed DEF Init

LEMMA RecurseDelayed ==
  ASSUME PlainAssumption, Typed, NEW L, NothingIsDelayed(L), NEW p \in Prop, Recurse(p)
  PROVE  NothingIsDelayed(L)'
<1>1. /\ Kind[p] = "recursive" /\ status' = "running"
      /\ cells' = Restarted(p, Awaited) /\ seed' = cells' /\ queue' = ranked
      /\ \A i \in 1 .. Len(Signature) : SettlesTo(cells[From[p][i]]).tag = "something"
  BY DEF Recurse, Shift, IsValue, Argument
<1>2. ASSUME NEW c \in Cell
      PROVE  cells'[c] \in Plain /\ (Given(c) => cells'[c] # Nothing)
  <2>1. CASE Mapped(c)
    <3> DEFINE k == CHOOSE i \in 1 .. Len(Signature) : Signature[i] = c
    <3>1. k \in 1 .. Len(Signature)
      BY <2>1 DEF Mapped
    <3>2. Len(Signature) \in Nat /\ Len(Signature) <= Arity(p)
      BY <1>1, NetworkAssumption, LenProperties
    <3>3. k \in 1 .. Arity(p)
      <4> HIDE DEF k
      <4> QED BY <3>1, <3>2, FromType
    <3>4. From[p][k] \in Cell
      BY <3>3, FromType
    <3>5. cells'[c] = Awaited[From[p][k]]
      BY <1>1, <2>1 DEF Restarted
    <3> HIDE DEF k
    <3>6. Awaited[From[p][k]].tag = "something" /\ Awaited[From[p][k]] \in Plain
      BY <3>1, <3>4, <1>1, CellsArePlain DEF Awaited
    <3> QED BY <3>5, <3>6, Tags
  <2>2. CASE ~ Mapped(c)
    BY <2>2, <1>1 DEF Restarted, PlainAssumption, Given
  <2> QED BY <2>1, <2>2
<1>3. cells' \in [Cell -> Plain]
  BY <1>1, <1>2 DEF Restarted
<1>4. Range(queue') = Prop
  BY <1>1, RankingsAssumption DEF Typed
<1> DEFINE ok == /\ cells \in [Cell -> Plain] /\ seed = cells
                 /\ \A c \in Cell : Given(c) => cells[c] # Nothing
                 /\ Range(queue) = Prop /\ status = "running"
<1>5. (ok => NothingIsDelayed(L))'
  BY StartDelayed, PTL
<1>6. ok'
  BY <1>1, <1>2, <1>3, <1>4
<1> QED BY <1>5, <1>6

(* A merge adds to a cell what its writer says, and the readers of the     *)
(* cell are queued; whoever is not queued was heard and has nothing new.   *)
LEMMA ActivateDelayed ==
  ASSUME PlainAssumption, Typed, NEW L, DelayedAssumption(L), NothingIsDelayed(L),
         NEW p \in Prop, Activate(p)
  PROVE  NothingIsDelayed(L)'
<1> DEFINE out    == To[p]
           before == cells[out]
           offer  == Offer(p, InputsOf(p), failing)
           M      == MadeCalls
           N      == M \cup NewCalls(p, InputsOf(p))
<1>1. /\ Kind[p] # "recursive" /\ out \in Cell /\ status = "running"
      /\ queue \in Seq(Prop) /\ queue # <<>> /\ p = Head(queue)
      /\ failing' = failing /\ seed' = seed
  BY FromType DEF Activate, Shift, Typed
<1>2. /\ PlainCells(L) /\ Awaited \in [Cell -> Plain] /\ seed \in [Cell -> Plain]
      /\ cells \in [Cell -> Holdable(M)]
  BY CellsArePlain DEF Typed
<1>3. PICK after \in Merged(before, offer, answered) :
        /\ cells' = [cells EXCEPT ![out] = after]
        /\ \/ /\ after = Contradiction
              /\ status' = "exit"
           \/ /\ after = before /\ queue' = Tail(queue)
              /\ status' = status
           \/ /\ queue' = Tail(queue) \o Readers[out]
              /\ status' = status
  BY DEF Activate, Changed
<1>4. /\ SettlesTo(offer) = Said(p) /\ Said(p) \in Plain
      /\ IsPromise(offer) => out \in L /\ Said(p) # Nothing
  BY <1>1, <1>2, OfferBecomesSaid, SyncOutcome DEF Said
<1>5. p \in Writers(out)
  BY <1>1 DEF Writers
<1>6. IsPromise(before) => offer # Nothing
  <2> SUFFICES ASSUME IsPromise(before), offer = Nothing PROVE FALSE
    OBVIOUS
  <2>1. Said(p) # Nothing
    BY <1>1, <1>5 DEF NothingIsDelayed, PromisesBecomeValues
  <2>2. SettlesTo(offer) = Nothing
    BY Tags DEF SettlesTo, IsPromise
  <2> QED BY <2>1, <2>2, <1>4
<1>7. before \in Holdable(N) /\ offer \in Holdable(N)
  <2>1. InputsOf(p) \in [1 .. Arity(p) -> Holdable(M)]
    BY <1>2, InputsType
  <2>2. before \in Holdable(M)
    BY <1>1, <1>2
  <2> HIDE DEF M, before, offer
  <2>3. offer \in Holdable(N)
    BY <2>1, <1>1, OfferHolds DEF offer
  <2> QED BY <2>2, <2>3, HoldableGrows
<1>8. SettlesTo(before) = Awaited[out] /\ Awaited[out] \in Plain
  BY <1>1, <1>2 DEF Awaited
<1> HIDE DEF N, M, offer, before
<1>9. /\ SettlesTo(after) = Merge(Awaited[out], Said(p))
      /\ IsPromise(after) => IsPromise(before) \/ IsPromise(offer)
  BY <1>3, <1>4, <1>6, <1>7, <1>8, MergedBecomes
<1>10. /\ Awaited' \in [Cell -> Plain]
       /\ Awaited'[out] = Merge(Awaited[out], Said(p))
       /\ \A c \in Cell : c # out => Awaited'[c] = Awaited[c] /\ cells'[c] = cells[c]
       /\ cells'[out] = after
  <2>1. /\ cells'[out] = after
        /\ \A c \in Cell : c # out => cells'[c] = cells[c]
    BY <1>1, <1>2, <1>3
  <2>2. Awaited' = [c \in Cell |-> SettlesTo(cells'[c])]
    BY DEF Awaited
  <2>3. Awaited'[out] = Merge(Awaited[out], Said(p))
    BY <1>1, <1>9, <2>1, <2>2
  <2>4. \A c \in Cell : c # out => Awaited'[c] = Awaited[c]
    BY <2>1, <2>2 DEF Awaited
  <2>5. Merge(Awaited[out], Said(p)) \in Plain
    BY <1>4, <1>8, PlainMerge
  <2>6. \A c \in Cell : Awaited'[c] \in Plain
    BY <1>2, <2>3, <2>4, <2>5
  <2> QED BY <2>1, <2>2, <2>3, <2>4, <2>6
<1>11. \A c \in Cell : Awaited[c] \preceq Awaited'[c] /\ Awaited[c] \in Info /\ Awaited'[c] \in Info
  <2> TAKE c \in Cell
  <2>1. Awaited[c] \in Info /\ Awaited'[c] \in Info /\ Said(p) \in Info
    BY <1>2, <1>4, <1>10, PlainCases
  <2>2. CASE c = out
    BY <2>1, <2>2, <1>10, PrecMerge
  <2>3. CASE c # out
    BY <2>1, <2>3, <1>10, PrecExtremes
  <2> QED BY <2>1, <2>2, <2>3
<1>12. Said(p) \preceq Awaited'[out]
  BY <1>4, <1>8, <1>10, PlainCases, PrecMerge
<1>13. \A q \in Prop : Said(q)' = SyncCompute(q, failing, Awaited')
  BY <1>1 DEF Said
<1>14. \A q \in Prop : Kind[q] # "recursive" =>
         /\ Said(q) \preceq Said(q)' /\ Said(q) \in Plain /\ Said(q)' \in Plain
         /\ Said(q) # Nothing => Said(q)' # Nothing
  <2> SUFFICES ASSUME NEW q \in Prop, Kind[q] # "recursive"
               PROVE  /\ Said(q) \preceq Said(q)' /\ Said(q) \in Plain /\ Said(q)' \in Plain
                      /\ Said(q) # Nothing => Said(q)' # Nothing
    OBVIOUS
  <2> DEFINE A == Awaited'
  <2>1. A \in [Cell -> Plain] /\ \A c \in Cell : Awaited[c] \preceq A[c]
    BY <1>10, <1>11
  <2>2. Said(q)' = SyncCompute(q, failing, A)
    BY <1>13
  <2> HIDE DEF A
  <2>3. /\ SyncCompute(q, failing, Awaited) \preceq SyncCompute(q, failing, A)
        /\ SyncCompute(q, failing, Awaited) \in Plain /\ SyncCompute(q, failing, A) \in Plain
    BY <1>2, <2>1, SyncMonotone, SyncOutcome
  <2>4. /\ Said(q) \preceq Said(q)' /\ Said(q) \in Plain /\ Said(q)' \in Plain
    BY <2>2, <2>3 DEF Said
  <2> QED BY <2>4, PlainBelow, Distinct
<1>15. PromisesBecomeValues(L)'
  <2>1. ASSUME NEW c \in Cell, IsPromise(cells'[c])
        PROVE  /\ c \in L /\ SettlesTo(cells'[c]) # Nothing
               /\ \A q \in Writers(c) : Said(q)' # Nothing
    <3>1. CASE IsPromise(cells[c])
      <4>1. /\ c \in L /\ Awaited[c] # Nothing
            /\ \A q \in Writers(c) : Said(q) # Nothing
        BY <3>1 DEF NothingIsDelayed, PromisesBecomeValues, Awaited
      <4>2. Awaited'[c] # Nothing
        <5>1. Awaited[c] \in Plain /\ Awaited'[c] \in Plain /\ Awaited[c] \preceq Awaited'[c]
          BY <1>2, <1>10, <1>11
        <5> QED BY <4>1, <5>1, PlainBelow, Distinct
      <4>3. Awaited'[c] = SettlesTo(cells'[c])
        BY DEF Awaited
      <4>4. \A q \in Writers(c) : Said(q)' # Nothing
        BY <4>1, <1>14 DEF Writers
      <4> QED BY <4>1, <4>2, <4>3, <4>4
    <3>2. CASE ~ IsPromise(cells[c])
      <4>1. c = out /\ IsPromise(offer)
        BY <2>1, <3>2, <1>9, <1>10 DEF before
      <4>2. out \in L /\ Said(p) # Nothing
        BY <4>1, <1>4
      <4>3. Awaited'[out] # Nothing
        <5>1. Awaited'[out] \in Plain
          BY <1>1, <1>10
        <5> QED BY <1>4, <1>12, <4>2, <5>1, PlainBelow, Distinct
      <4>4. Awaited'[out] = SettlesTo(cells'[out])
        BY <1>1 DEF Awaited
      <4>5. \A q \in Writers(out) : Said(q) # Nothing
        <5> TAKE q \in Writers(out)
        <5>1. Said(q) = Nothing => Said(p) = Nothing
          BY <1>1, <1>2, <4>2, SpeakTogether DEF Said
        <5> QED BY <5>1, <4>2
      <4>6. \A q \in Writers(out) : Said(q)' # Nothing
        BY <4>5, <1>14 DEF Writers
      <4> QED BY <4>1, <4>2, <4>3, <4>4, <4>6
    <3> QED BY <3>1, <3>2
  <2> QED BY <2>1 DEF PromisesBecomeValues
<1>16. BetweenSeedAndSaid'
  <2>1. ASSUME NEW c \in Cell
        PROVE  /\ seed[c] \preceq Awaited'[c]
               /\ Awaited'[c] \preceq AllSaid(c, seed, failing, Awaited')
    <3> DEFINE A == Awaited'
               all  == AllSaid(c, seed, failing, Awaited)
               all1 == AllSaid(c, seed, failing, A)
    <3>1. /\ seed[c] \preceq Awaited[c] /\ Awaited[c] \preceq all
          /\ seed[c] \in Info /\ Awaited[c] \in Info /\ A[c] \in Info /\ Awaited[c] \preceq A[c]
      BY <1>2, <1>11, PlainCases DEF NothingIsDelayed, BetweenSeedAndSaid
    <3>2. A \in [Cell -> Plain] /\ \A d \in Cell : Awaited[d] \preceq A[d]
      BY <1>10, <1>11
    <3>3. c # out => A[c] = Awaited[c]
      BY <1>10
    <3>4. A[out] = Merge(Awaited[out], Said(p)) /\ Said(p) \in Info
      BY <1>4, <1>10, PlainCases
    <3>5. SyncCompute(p, failing, A) = Said(p)'
      BY <1>13
    <3>6. Said(p) \preceq SyncCompute(p, failing, A)
      BY <1>1, <1>14, <3>5
    <3> HIDE DEF A
    <3>7. seed[c] \preceq A[c]
      BY <3>1, PrecTransitive
    <3>8. all \in Info /\ all1 \in Info /\ all \preceq all1
      BY <1>2, <3>2, AllSaidBounds, AllSaidGrows
    <3>9. Awaited[c] \preceq all1
      BY <3>1, <3>8, PrecTransitive
    <3>10. CASE c # out
      BY <3>3, <3>7, <3>9, <3>10 DEF A
    <3>11. CASE c = out
      <4>1. SyncCompute(p, failing, A) \preceq all1
        BY <1>2, <1>5, <3>2, <3>11, AllSaidBounds
      <4>2. SyncCompute(p, failing, A) \in Info
        BY <1>1, <3>2, SyncOutcome, PlainCases
      <4>3. Said(p) \preceq all1
        BY <3>4, <3>6, <3>8, <4>1, <4>2, PrecTransitive
      <4>4. Merge(Awaited[out], Said(p)) \preceq all1
        BY <3>1, <3>4, <3>8, <3>9, <3>11, <4>3, MergeLeast
      <4> QED BY <3>4, <3>7, <3>11, <4>4 DEF A
    <3> QED BY <3>10, <3>11
  <2>2. \A c \in Cell : seed[c] \in Plain /\ Awaited'[c] \in Plain /\ (Given(c) => seed[c] # Nothing)
    BY <1>10 DEF NothingIsDelayed, BetweenSeedAndSaid
  <2> QED BY <1>1, <2>1, <2>2 DEF BetweenSeedAndSaid
<1>17. HeardOrQueued'
  <2> SUFFICES ASSUME status' # "exit", NEW q \in Prop, Kind[q] # "recursive", q \notin Range(queue')
               PROVE  Said(q)' \preceq Awaited'[To[q]]
    BY DEF HeardOrQueued
  <2>1. Range(queue) = {p} \cup Range(Tail(queue)) /\ Tail(queue) \in Seq(Prop)
    BY <1>1, RangeShift
  <2>2. To[q] \in Cell /\ \A i \in 1 .. Arity(q) : From[q][i] \in Cell
    BY FromType
  <2>3. Range(Tail(queue)) \subseteq Range(queue')
    <3>1. Readers[out] \in Seq(Prop)
      BY <1>1, ReadersAssumption
    <3>2. Range(Tail(queue) \o Readers[out]) = Range(Tail(queue)) \cup Range(Readers[out])
      <4>1. \A s, t \in Seq(Prop) : Range(s \o t) = Range(s) \cup Range(t)
        BY RangeJoin
      <4> QED BY <2>1, <3>1, <4>1, Zenon
    <3> QED BY <1>3, <3>2
  <2>4. Said(q) \preceq Awaited'[To[q]]
    <3>1. CASE q = p
      BY <3>1, <1>12
    <3>2. CASE q # p
      <4>1. Said(q) \preceq Awaited[To[q]]
        BY <1>1, <2>1, <2>3, <3>2 DEF NothingIsDelayed, HeardOrQueued
      <4>2. Said(q) \in Info
        BY <1>14, PlainCases
      <4> QED BY <2>2, <4>1, <4>2, <1>11, PrecTransitive
    <3> QED BY <3>1, <3>2
  <2>5. \A i \in 1 .. Arity(q) : Awaited'[From[q][i]] = Awaited[From[q][i]]
    <3>1. CASE after = before
      <4>1. cells' = cells
        BY <3>1, <1>2, <1>3 DEF before
      <4> QED BY <4>1 DEF Awaited
    <3>2. CASE queue' = Tail(queue) \o Readers[out]
      <4>1. Readers[out] \in Seq(Prop) /\ Range(Readers[out]) = Neighbors(out)
        BY <1>1, ReadersAssumption
      <4>2. q \notin Neighbors(out)
        <5>1. \A s, t \in Seq(Prop) : Range(s \o t) = Range(s) \cup Range(t)
          BY RangeJoin
        <5>2. Range(queue') = Range(Tail(queue)) \cup Neighbors(out)
          BY <2>1, <3>2, <4>1, <5>1, Zenon
        <5> QED BY <5>2
      <4>3. \A i \in 1 .. Arity(q) : From[q][i] # out
        BY <4>2 DEF Neighbors
      <4> QED BY <2>2, <4>3, <1>10
    <3> QED BY <3>1, <3>2, <1>3
  <2>6. Said(q)' = Said(q)
    <3> DEFINE A == Awaited'
    <3>1. \A i \in 1 .. Arity(q) : A[From[q][i]] = Awaited[From[q][i]]
      BY <2>5
    <3>2. Said(q)' = SyncCompute(q, failing, A)
      BY <1>13
    <3> HIDE DEF A
    <3>3. SyncCompute(q, failing, A) = SyncCompute(q, failing, Awaited)
      BY <3>1, SyncLocal
    <3> QED BY <3>2, <3>3 DEF Said
  <2> QED BY <2>4, <2>6
<1>18. DoneIsEmpty'
  BY <1>1, <1>3 DEF DoneIsEmpty
<1> QED BY <1>15, <1>16, <1>17, <1>18 DEF NothingIsDelayed

(* A step that leaves the cells alone. *)
LEMMA OtherDelayed ==
  ASSUME Typed, NEW L, NothingIsDelayed(L),
         (\E p \in Prop : GiveUp(p)) \/ Finish \/ Answer \/ UNCHANGED vars
  PROVE  NothingIsDelayed(L)'
<1>1. UNCHANGED <<failing, cells, seed>>
  BY DEF GiveUp, Finish, Answer, vars
<1>2. Awaited' = Awaited /\ \A p : Said(p)' = Said(p)
  BY <1>1 DEF Awaited, Said
<1>3. PromisesBecomeValues(L)'
  BY <1>1, <1>2 DEF NothingIsDelayed, PromisesBecomeValues
<1>4. BetweenSeedAndSaid'
  BY <1>1, <1>2 DEF NothingIsDelayed, BetweenSeedAndSaid
<1>5. /\ status' = "exit" => status = "exit"
      /\ status' = "done" => queue' = <<>>
      /\ status = "exit" => status' = "exit"
  BY DEF GiveUp, Shift, Finish, Answer, vars, NothingIsDelayed, DoneIsEmpty
<1>6. \A q \in Prop : Kind[q] # "recursive" => (q \in Range(queue) => q \in Range(queue'))
  <2>1. CASE \E p \in Prop : GiveUp(p)
    <3>1. PICK p \in Prop : GiveUp(p)
      BY <2>1
    <3>2. Kind[p] = "recursive" /\ p = Head(queue) /\ queue' = Tail(queue) /\ queue # <<>>
      BY <3>1 DEF GiveUp, Shift
    <3>3. Range(queue) = {p} \cup Range(Tail(queue))
      BY <3>2, RangeShift DEF Typed
    <3> QED BY <3>2, <3>3
  <2>2. CASE Finish \/ Answer \/ UNCHANGED vars
    BY <2>2 DEF Finish, Answer, vars
  <2> QED BY <2>1, <2>2
<1>7. HeardOrQueued'
  BY <1>2, <1>5, <1>6 DEF NothingIsDelayed, HeardOrQueued
<1> QED BY <1>3, <1>4, <1>5, <1>7 DEF NothingIsDelayed, DoneIsEmpty

(* For every plain network whose promises stay among the cells of L: when  *)
(* a run is done, every cell becomes what all its writers say of what the  *)
(* others become, whatever the ranking, the failures and the order in      *)
(* which the answers arrive.  The invariant is that the cells lie between  *)
(* the seed and all that is said, and that who is not queued was heard.    *)
THEOREM DelaysDoNotMatter ==
  ASSUME NEW L, PlainAssumption, DelayedAssumption(L)
  PROVE  Spec => []AsIfSynchronous
<1> DEFINE Inv == Typed /\ AllSurface(cells) /\ NothingIsDelayed(L)
<1>1. Init => Inv
  BY InitTyped, InitDelayed
<1>2. Inv /\ [Next]_vars => Inv'
  <2> SUFFICES ASSUME Inv, [Next]_vars PROVE Inv'
    OBVIOUS
  <2>1. Typed' /\ AllSurface(cells)'
    BY ActivateStep, RecurseStep, AnswerStep, OtherStep DEF Next, Step
  <2>2. NothingIsDelayed(L)'
    BY ActivateDelayed, RecurseDelayed, OtherDelayed DEF Next, Step
  <2> QED BY <2>1, <2>2
<1>3. Inv => AsIfSynchronous
  <2> SUFFICES ASSUME Inv, status = "done", NEW c \in Cell
               PROVE  SettlesTo(cells[c]) = AllSaid(c, seed, failing, Awaited)
    BY DEF AsIfSynchronous
  <2> DEFINE all == AllSaid(c, seed, failing, Awaited)
  <2>1. queue = <<>> /\ Range(queue) = {}
    BY EmptyRange DEF NothingIsDelayed, DoneIsEmpty
  <2>2. Awaited \in [Cell -> Plain] /\ seed \in [Cell -> Plain]
    BY CellsArePlain
  <2>3. /\ seed[c] \preceq Awaited[c] /\ Awaited[c] \preceq all
        /\ Awaited[c] \in Info /\ all \in Info
    BY <2>2, AllSaidBounds, PlainCases DEF NothingIsDelayed, BetweenSeedAndSaid
  <2>4. \A p \in Writers(c) : SyncCompute(p, failing, Awaited) \preceq Awaited[c]
    BY <2>1 DEF NothingIsDelayed, HeardOrQueued, Said, Writers
  <2>5. all \preceq Awaited[c]
    BY <2>2, <2>3, <2>4, AllSaidBounds
  <2>6. Awaited[c] = all
    BY <2>3, <2>5, PrecAntisymmetric
  <2>7. Awaited[c] = SettlesTo(cells[c])
    BY DEF Awaited
  <2> QED BY <2>6, <2>7
<1> HIDE DEF Inv
<1> QED BY <1>1, <1>2, <1>3, PTL DEF Spec
=============================================================================
