----------------------- MODULE InfoStructureTheorems -----------------------
(***************************************************************************)
(* The algebra of the information structures, proved for every set of      *)
(* values and field names: Merge is a commutative, associative, idempotent *)
(* operation on Info with Nothing as its unit and Contradiction absorbing, *)
(* so \preceq is a partial order and Merge its least upper bound; and      *)
(* what a propagator computes is always a structure.                       *)
(***************************************************************************)
EXTENDS InfoStructures, Integers, Functions, SequenceTheorems, FiniteSetTheorems, TLAPS

(* Every set of natural numbers has a least element: n is compared through *)
(* the finite set of the numbers below it, ordered by strict inclusion.    *)
LEMMA LeastNatural ==
  ASSUME NEW T \in SUBSET Nat, T # {}
  PROVE  \E n \in T : \A m \in T : n <= m
<1> DEFINE S == {0 .. (n - 1) : n \in T}
<1>1. IsWellFoundedOn(StrictSubsetOrdering(Nat), FiniteSubsetsOf(Nat))
  BY FS_StrictSubsetOrderingWellFounded
<1>2. S \subseteq FiniteSubsetsOf(Nat) /\ S # {}
  <2>1. \A n \in T : 0 \in Int /\ n - 1 \in Int
    OBVIOUS
  <2>2. \A n \in T : IsFiniteSet(0 .. (n - 1))
    BY <2>1, FS_Interval
  <2>3. \A n \in T : 0 .. (n - 1) \in SUBSET Nat
    OBVIOUS
  <2> QED BY <2>2, <2>3 DEF FiniteSubsetsOf
<1>3. PICK x \in S : \A y \in S : ~ (<<y, x>> \in StrictSubsetOrdering(Nat))
  <2> HIDE DEF S
  <2> QED BY <1>1, <1>2, WFMin
<1>4. PICK n \in T : x = 0 .. (n - 1)
  OBVIOUS
<1>5. ASSUME NEW m \in T PROVE n <= m
  <2>1. 0 .. (m - 1) \in S /\ 0 .. (n - 1) \in S
    OBVIOUS
  <2>2. SUFFICES ASSUME m < n PROVE FALSE
    OBVIOUS
  <2>3. m \in 0 .. (n - 1) /\ m \notin 0 .. (m - 1)
    BY <2>2
  <2>4. /\ 0 .. (m - 1) \subseteq 0 .. (n - 1) /\ 0 .. (m - 1) # 0 .. (n - 1)
        /\ 0 .. (m - 1) \in SUBSET Nat /\ 0 .. (n - 1) \in SUBSET Nat
    BY <2>2, <2>3
  <2>5. <<0 .. (m - 1), 0 .. (n - 1)>> \in StrictSubsetOrdering(Nat)
    BY <2>4 DEF StrictSubsetOrdering
  <2> QED BY <2>1, <2>5, <1>3, <1>4
<1> QED BY <1>5

LEMMA Induction ==
  ASSUME NEW S \in SUBSET Nat, 0 \in S, \A n \in S : n + 1 \in S
  PROVE  S = Nat
<1> SUFFICES ASSUME Nat \ S # {} PROVE FALSE
  OBVIOUS
<1>1. PICK n \in Nat \ S : \A m \in Nat \ S : n <= m
  <2> DEFINE T == Nat \ S
  <2>1. T \in SUBSET Nat /\ T # {}
    OBVIOUS
  <2> HIDE DEF T
  <2>2. \E n \in T : \A m \in T : n <= m
    BY <2>1, LeastNatural
  <2> QED BY <2>2 DEF T
<1>2. n - 1 \in Nat /\ n - 1 < n
  BY <1>1
<1>3. n - 1 \in S
  BY <1>1, <1>2
<1>4. (n - 1) + 1 \in S
  BY <1>3
<1> QED BY <1>1, <1>4

-----------------------------------------------------------------------------

LEMMA RangeShift ==
  ASSUME NEW S, NEW s \in Seq(S), s # <<>>
  PROVE  /\ Head(s) \in S /\ Tail(s) \in Seq(S)
         /\ Range(s) = {Head(s)} \cup Range(Tail(s))
         /\ IsInjective(s) => IsInjective(Tail(s)) /\ Head(s) \notin Range(Tail(s))
<1>1. Len(s) \in Nat /\ Len(s) >= 1 /\ s \in [1 .. Len(s) -> S] /\ DOMAIN s = 1 .. Len(s)
  BY LenProperties, EmptySeq
<1>2. Head(s) = s[1] /\ Tail(s) \in Seq(S) /\ Len(Tail(s)) = Len(s) - 1
      /\ \A i \in 1 .. Len(s) - 1 : Tail(s)[i] = s[i + 1]
  BY <1>1
<1>3. DOMAIN Tail(s) = 1 .. Len(s) - 1
  BY <1>2, LenProperties
<1>4. Range(s) = {Head(s)} \cup Range(Tail(s))
  <2>1. ASSUME NEW x \in Range(s) PROVE x \in {Head(s)} \cup Range(Tail(s))
    <3>1. PICK i \in 1 .. Len(s) : x = s[i]
      BY <2>1, <1>1 DEF Range
    <3>2. CASE i = 1
      BY <3>1, <3>2, <1>2
    <3>3. CASE i # 1
      <4>1. i - 1 \in 1 .. Len(s) - 1 /\ Tail(s)[i - 1] = s[i]
        BY <3>3, <1>1, <1>2
      <4> QED BY <3>1, <4>1, <1>3 DEF Range
    <3> QED BY <3>2, <3>3
  <2>2. ASSUME NEW x \in Range(Tail(s)) PROVE x \in Range(s)
    <3>1. PICK i \in 1 .. Len(s) - 1 : x = Tail(s)[i]
      BY <2>2, <1>3 DEF Range
    <3>2. i + 1 \in 1 .. Len(s) /\ x = s[i + 1]
      BY <3>1, <1>1, <1>2
    <3> QED BY <3>2, <1>1 DEF Range
  <2>3. Head(s) \in Range(s)
    BY <1>1, <1>2 DEF Range
  <2> QED BY <2>1, <2>2, <2>3
<1>5. ASSUME IsInjective(s)
      PROVE  IsInjective(Tail(s)) /\ Head(s) \notin Range(Tail(s))
  <2>1. \A i, j \in 1 .. Len(s) : s[i] = s[j] => i = j
    BY <1>1, <1>5 DEF IsInjective
  <2>2. ASSUME NEW i \in 1 .. Len(s) - 1, NEW j \in 1 .. Len(s) - 1, Tail(s)[i] = Tail(s)[j]
        PROVE  i = j
    <3>1. i + 1 \in 1 .. Len(s) /\ j + 1 \in 1 .. Len(s) /\ s[i + 1] = s[j + 1]
      BY <2>2, <1>1, <1>2
    <3>2. i + 1 = j + 1
      BY <3>1, <2>1
    <3> QED BY <3>2, <1>1
  <2>3. ASSUME NEW i \in 1 .. Len(s) - 1, Tail(s)[i] = Head(s) PROVE FALSE
    <3>1. i + 1 \in 1 .. Len(s) /\ 1 \in 1 .. Len(s) /\ s[i + 1] = s[1]
      BY <2>3, <1>1, <1>2
    <3>2. i + 1 = 1
      BY <3>1, <2>1
    <3> QED BY <3>2, <1>1
  <2> QED BY <2>2, <2>3, <1>3 DEF IsInjective, Range
<1> QED BY <1>1, <1>2, <1>4, <1>5

LEMMA RangePush ==
  ASSUME NEW S, NEW s \in Seq(S), NEW e \in S
  PROVE  /\ Append(s, e) \in Seq(S)
         /\ Range(Append(s, e)) = Range(s) \cup {e}
         /\ IsInjective(s) /\ e \notin Range(s) => IsInjective(Append(s, e))
<1>1. Len(s) \in Nat /\ DOMAIN s = 1 .. Len(s)
  BY LenProperties
<1>2. /\ Append(s, e) \in Seq(S) /\ Len(Append(s, e)) = Len(s) + 1
      /\ Append(s, e)[Len(s) + 1] = e
      /\ \A i \in 1 .. Len(s) : Append(s, e)[i] = s[i]
  BY <1>1
<1>3. DOMAIN Append(s, e) = 1 .. Len(s) + 1
  BY <1>2, LenProperties
<1>4. \A i \in 1 .. Len(s) + 1 : i \in 1 .. Len(s) \/ i = Len(s) + 1
  BY <1>1
<1>5. 1 .. Len(s) \subseteq 1 .. Len(s) + 1 /\ Len(s) + 1 \in 1 .. Len(s) + 1
  BY <1>1
<1>6. Range(Append(s, e)) = Range(s) \cup {e}
  <2>1. ASSUME NEW x \in Range(Append(s, e)) PROVE x \in Range(s) \cup {e}
    <3>1. PICK i \in 1 .. Len(s) + 1 : x = Append(s, e)[i]
      BY <2>1, <1>3 DEF Range
    <3> QED BY <3>1, <1>1, <1>2, <1>4 DEF Range
  <2>2. ASSUME NEW x \in Range(s) PROVE x \in Range(Append(s, e))
    <3>1. PICK i \in 1 .. Len(s) : x = s[i]
      BY <2>2, <1>1 DEF Range
    <3> QED BY <3>1, <1>2, <1>3, <1>5 DEF Range
  <2>3. e \in Range(Append(s, e))
    BY <1>2, <1>3, <1>5 DEF Range
  <2> QED BY <2>1, <2>2, <2>3
<1>7. ASSUME IsInjective(s), e \notin Range(s) PROVE IsInjective(Append(s, e))
  <2>1. \A i, j \in 1 .. Len(s) : s[i] = s[j] => i = j
    BY <1>1, <1>7 DEF IsInjective
  <2>2. \A i \in 1 .. Len(s) : s[i] # e
    BY <1>1, <1>7 DEF Range
  <2>3. \A i, j \in 1 .. Len(s) + 1 : Append(s, e)[i] = Append(s, e)[j] => i = j
    BY <1>2, <1>4, <2>1, <2>2
  <2> QED BY <1>3, <2>3 DEF IsInjective
<1> QED BY <1>2, <1>6, <1>7

LEMMA RangeJoin ==
  ASSUME NEW S, NEW s \in Seq(S), NEW t \in Seq(S)
  PROVE  Range(s \o t) = Range(s) \cup Range(t)
<1>1. /\ Len(s) \in Nat /\ Len(t) \in Nat /\ DOMAIN s = 1 .. Len(s) /\ DOMAIN t = 1 .. Len(t)
      /\ DOMAIN (s \o t) = 1 .. (Len(s) + Len(t))
      /\ \A i \in 1 .. (Len(s) + Len(t)) :
           (s \o t)[i] = IF i <= Len(s) THEN s[i] ELSE t[i - Len(s)]
  BY LenProperties, ConcatProperties
<1>2. ASSUME NEW i \in DOMAIN s PROVE i \in DOMAIN (s \o t) /\ (s \o t)[i] = s[i]
  BY <1>1, <1>2
<1>3. ASSUME NEW i \in DOMAIN t
      PROVE  Len(s) + i \in DOMAIN (s \o t) /\ (s \o t)[Len(s) + i] = t[i]
  <2>1. i \in Nat /\ i >= 1 /\ i <= Len(t)
    BY <1>1, <1>3
  <2>2. Len(s) + i \in 1 .. (Len(s) + Len(t)) /\ ~ (Len(s) + i <= Len(s)) /\ (Len(s) + i) - Len(s) = i
    BY <1>1, <2>1
  <2> QED BY <1>1, <2>2
<1>4. ASSUME NEW i \in DOMAIN (s \o t)
      PROVE  (s \o t)[i] \in Range(s) \cup Range(t)
  <2>1. i \in 1 .. (Len(s) + Len(t))
    BY <1>1
  <2>2. CASE i <= Len(s)
    <3>1. i \in DOMAIN s /\ (s \o t)[i] = s[i]
      BY <1>1, <2>1, <2>2
    <3> QED BY <3>1 DEF Range
  <2>3. CASE ~ (i <= Len(s))
    <3>1. i - Len(s) \in DOMAIN t /\ (s \o t)[i] = t[i - Len(s)]
      BY <1>1, <2>1, <2>3
    <3> QED BY <3>1 DEF Range
  <2> QED BY <2>2, <2>3
<1>5. Range(s) \subseteq Range(s \o t)
  BY <1>2 DEF Range
<1>6. Range(t) \subseteq Range(s \o t)
  BY <1>3 DEF Range
<1>7. Range(s \o t) \subseteq Range(s) \cup Range(t)
  BY <1>4 DEF Range
<1> QED BY <1>5, <1>6, <1>7

LEMMA RangeOf ==
  ASSUME NEW S, NEW s \in Seq(S)
  PROVE  Range(s) \subseteq S /\ (Range(s) = {} <=> s = <<>>)
<1>1. DOMAIN s = 1 .. Len(s) /\ Len(s) \in Nat /\ \A i \in 1 .. Len(s) : s[i] \in S
  BY LenProperties, ElementOfSeq
<1>2. s # <<>> => 1 \in 1 .. Len(s)
  BY EmptySeq, <1>1
<1>3. s = <<>> => Len(s) = 0
  BY EmptySeq
<1>4. Range(s) \subseteq S
  BY <1>1 DEF Range
<1>5. CASE s = <<>>
  <2>1. DOMAIN s = {}
    BY <1>1, <1>3, <1>5
  <2> QED BY <1>4, <1>5, <2>1 DEF Range
<1>6. CASE s # <<>>
  BY <1>1, <1>2, <1>4, <1>6 DEF Range
<1> QED BY <1>5, <1>6

LEMMA EmptyRange == Range(<<>>) = {} /\ IsInjective(<<>>) /\ \A S : <<>> \in Seq(S)
<1>1. \A S : <<>> \in Seq(S)
  BY EmptySeq
<1>2. Range(<<>>) = {}
  BY <1>1, RangeOf
<1> QED BY <1>1, <1>2 DEF Range, IsInjective

-----------------------------------------------------------------------------

(* Every structure is of exactly one of the five classes. *)
LEMMA InfoCases ==
  ASSUME NEW x \in Info
  PROVE  \/ x = Nothing
         \/ x = Contradiction
         \/ x.tag = "something" /\ x = Something(x.value) /\ x.value \in Raw
         \/ x.tag = "set" /\ x = MergeSet(x.elements)
              /\ x.elements \in (SUBSET Raw) \ {{}}
         \/ x.tag = "object" /\ x = MergeObject(x.fields)
              /\ x.fields \in Partial(FieldInfo)
BY DEF Info, Somethings, MergeSets, MergeObjects, Something, MergeSet, MergeObject

LEMMA Tags ==
  /\ Nothing.tag = "nothing"
  /\ Contradiction.tag = "contradiction"
  /\ \A v : Something(v).tag = "something" /\ Something(v).value = v
  /\ \A S : MergeSet(S).tag = "set" /\ MergeSet(S).elements = S
  /\ \A f : MergeObject(f).tag = "object" /\ MergeObject(f).fields = f
BY DEF Nothing, Contradiction, Something, MergeSet, MergeObject

(* Structures of different classes are different. *)
LEMMA Distinct ==
  /\ Nothing # Contradiction
  /\ \A v : Something(v) # Nothing /\ Something(v) # Contradiction
  /\ \A S : MergeSet(S) # Nothing /\ MergeSet(S) # Contradiction
  /\ \A f : MergeObject(f) # Nothing /\ MergeObject(f) # Contradiction
BY Tags

LEMMA Constructors ==
  /\ Nothing \in Info
  /\ Contradiction \in Info
  /\ \A v \in Raw : Something(v) \in Info
  /\ \A S \in (SUBSET Raw) \ {{}} : MergeSet(S) \in Info
  /\ \A f \in Partial(FieldInfo) : MergeObject(f) \in Info
BY DEF Info, Somethings, MergeSets, MergeObjects, Something, MergeSet, MergeObject

LEMMA PartialFcn ==
  ASSUME NEW S, NEW f
  PROVE  f \in Partial(S) <=>
           DOMAIN f \in SUBSET Field /\ f = [k \in DOMAIN f |-> f[k]]
             /\ \A k \in DOMAIN f : f[k] \in S
BY DEF Partial

-----------------------------------------------------------------------------
(* Fields. *)

LEMMA FieldCases ==
  ASSUME NEW x \in FieldInfo
  PROVE  /\ x = Nothing \/ (x.tag = "something" /\ x = Something(x.value)
                             /\ x.value \in Value)
         /\ x # Contradiction
BY Tags, Distinct DEF FieldInfo, Something

LEMMA FieldMergeType ==
  ASSUME NEW x \in FieldInfo, NEW y \in FieldInfo
  PROVE  FieldMerge(x, y) \in FieldInfo \/ FieldMerge(x, y) = Contradiction
BY DEF FieldMerge

LEMMA FieldOfType ==
  ASSUME NEW f \in Partial(FieldInfo), NEW k
  PROVE  FieldOf(MergeObject(f), k) \in FieldInfo
BY PartialFcn, Tags DEF FieldOf, FieldInfo

LEMMA MergeFieldsType ==
  ASSUME NEW f \in Partial(FieldInfo), NEW g \in Partial(FieldInfo),
         \A k \in DOMAIN MergeFields(MergeObject(f), MergeObject(g)) :
           MergeFields(MergeObject(f), MergeObject(g))[k] # Contradiction
  PROVE  MergeFields(MergeObject(f), MergeObject(g)) \in Partial(FieldInfo)
<1> DEFINE m == MergeFields(MergeObject(f), MergeObject(g))
<1>1. DOMAIN m = DOMAIN f \cup DOMAIN g
  BY Tags DEF MergeFields
<1>2. DOMAIN m \in SUBSET Field
  BY <1>1, PartialFcn
<1>3. \A k \in DOMAIN m : m[k] \in FieldInfo
  <2> TAKE k \in DOMAIN m
  <2>1. m[k] = FieldMerge(FieldOf(MergeObject(f), k), FieldOf(MergeObject(g), k))
    BY DEF MergeFields
  <2> QED BY <2>1, FieldOfType, FieldMergeType
<1>4. m = [k \in DOMAIN m |-> m[k]]
  BY DEF MergeFields
<1> QED BY <1>2, <1>3, <1>4, PartialFcn

(* Two objects conflict when they disagree on a field both have. *)
Conflict(f, g) ==
  \E k \in DOMAIN f \cup DOMAIN g :
    FieldMerge(FieldOf(MergeObject(f), k), FieldOf(MergeObject(g), k)) = Contradiction

Join(f, g) == MergeFields(MergeObject(f), MergeObject(g))

LEMMA JoinDomain ==
  ASSUME NEW f, NEW g
  PROVE  DOMAIN Join(f, g) = DOMAIN f \cup DOMAIN g
BY Tags DEF Join, MergeFields

LEMMA FieldOfObject ==
  ASSUME NEW f, NEW k
  PROVE  /\ k \in DOMAIN f => FieldOf(MergeObject(f), k) = f[k]
         /\ k \notin DOMAIN f => FieldOf(MergeObject(f), k) = Nothing
BY Tags DEF FieldOf

LEMMA JoinField ==
  ASSUME NEW f, NEW g, NEW k
  PROVE  FieldOf(MergeObject(Join(f, g)), k) =
           FieldMerge(FieldOf(MergeObject(f), k), FieldOf(MergeObject(g), k))
<1>1. CASE k \in DOMAIN f \cup DOMAIN g
  <2>1. k \in DOMAIN Join(f, g)
    BY <1>1, JoinDomain
  <2>2. FieldOf(MergeObject(Join(f, g)), k) = Join(f, g)[k]
    BY <2>1, FieldOfObject
  <2>3. Join(f, g)[k] =
          FieldMerge(FieldOf(MergeObject(f), k), FieldOf(MergeObject(g), k))
    BY <2>1 DEF Join, MergeFields
  <2> QED BY <2>2, <2>3
<1>2. CASE k \notin DOMAIN f \cup DOMAIN g
  <2>1. k \notin DOMAIN Join(f, g)
    BY <1>2, JoinDomain
  <2>2. /\ FieldOf(MergeObject(Join(f, g)), k) = Nothing
        /\ FieldOf(MergeObject(f), k) = Nothing
        /\ FieldOf(MergeObject(g), k) = Nothing
    BY <1>2, <2>1, FieldOfObject
  <2> QED BY <2>2 DEF FieldMerge
<1> QED BY <1>1, <1>2

LEMMA ObjectMerge ==
  ASSUME NEW f \in Partial(FieldInfo), NEW g \in Partial(FieldInfo)
  PROVE  /\ Conflict(f, g) =>
              Merge(MergeObject(f), MergeObject(g)) = Contradiction
         /\ ~ Conflict(f, g) =>
              /\ Merge(MergeObject(f), MergeObject(g)) = MergeObject(Join(f, g))
              /\ Join(f, g) \in Partial(FieldInfo)
<1>1. Merge(MergeObject(f), MergeObject(g)) = MergeObjectMerge(MergeObject(f), MergeObject(g))
  BY Tags DEF Merge
<1>2. \A k \in DOMAIN Join(f, g) : Join(f, g)[k] =
        FieldMerge(FieldOf(MergeObject(f), k), FieldOf(MergeObject(g), k))
  BY DEF Join, MergeFields
<1>3. Conflict(f, g) <=> \E k \in DOMAIN Join(f, g) : Join(f, g)[k] = Contradiction
  BY <1>2, JoinDomain DEF Conflict
<1>4. MergeObjectMerge(MergeObject(f), MergeObject(g)) =
        IF Conflict(f, g) THEN Contradiction ELSE MergeObject(Join(f, g))
  BY <1>3, Tags, Distinct DEF MergeObjectMerge, Join
<1>5. ~ Conflict(f, g) => Join(f, g) \in Partial(FieldInfo)
  BY <1>3, MergeFieldsType DEF Join
<1> QED BY <1>1, <1>4, <1>5

(* Equality of partial functions, field by field. *)
LEMMA PartialEqual ==
  ASSUME NEW f \in Partial(FieldInfo), NEW g \in Partial(FieldInfo),
         DOMAIN f = DOMAIN g,
         \A k : FieldOf(MergeObject(f), k) = FieldOf(MergeObject(g), k)
  PROVE  f = g
<1>1. \A k \in DOMAIN f : f[k] = g[k]
  BY Tags DEF FieldOf
<1> QED BY <1>1, PartialFcn

-----------------------------------------------------------------------------
(* Merge, by the classes of its arguments. *)

LEMMA MergeUnits ==
  /\ \A y : Merge(Nothing, y) = y
  /\ \A y : Merge(Contradiction, y) = Contradiction
BY Tags DEF Merge

LEMMA MergeSetByClass ==
  ASSUME NEW S
  PROVE  /\ Merge(MergeSet(S), Nothing) = MergeSet(S)
         /\ \A v : Merge(MergeSet(S), Something(v)) = Contradiction
         /\ \A f : Merge(MergeSet(S), MergeObject(f)) = Contradiction
         /\ Merge(MergeSet(S), Contradiction) = Contradiction
         /\ \A T : S \cap T = {} => Merge(MergeSet(S), MergeSet(T)) = Contradiction
         /\ \A T : S \cap T # {} =>
                     Merge(MergeSet(S), MergeSet(T)) = MergeSet(S \cap T)
<1>1. \A y : Merge(MergeSet(S), y) = MergeSetMerge(MergeSet(S), y)
  BY Tags DEF Merge
<1>2. MergeSetMerge(MergeSet(S), Nothing) = MergeSet(S)
  BY DEF MergeSetMerge
<1>3. \A y : y # Nothing /\ y.tag # "set"
                => MergeSetMerge(MergeSet(S), y) = Contradiction
  BY DEF MergeSetMerge
<1>4. \A T : S \cap T = {} => MergeSetMerge(MergeSet(S), MergeSet(T)) = Contradiction
  BY Tags, Distinct DEF MergeSetMerge
<1>5. \A T : S \cap T # {} =>
              MergeSetMerge(MergeSet(S), MergeSet(T)) = MergeSet(S \cap T)
  BY Tags, Distinct DEF MergeSetMerge
<1> QED BY <1>1, <1>2, <1>3, <1>4, <1>5, Tags, Distinct

LEMMA MergeObjectByClass ==
  ASSUME NEW f
  PROVE  /\ Merge(MergeObject(f), Nothing) = MergeObject(f)
         /\ \A v : Merge(MergeObject(f), Something(v)) = Contradiction
         /\ \A S : Merge(MergeObject(f), MergeSet(S)) = Contradiction
         /\ Merge(MergeObject(f), Contradiction) = Contradiction
<1>1. \A y : Merge(MergeObject(f), y) = MergeObjectMerge(MergeObject(f), y)
  BY Tags DEF Merge
<1>2. \A S : MergeSetMerge(MergeSet(S), MergeObject(f)) = Contradiction
  BY Tags, Distinct DEF MergeSetMerge
<1>3. \A S : MergeObjectMerge(MergeObject(f), MergeSet(S)) = Contradiction
  BY <1>2, Tags, Distinct DEF MergeObjectMerge
<1>4. MergeObjectMerge(MergeObject(f), Nothing) = MergeObject(f)
  BY DEF MergeObjectMerge
<1>5. \A v : MergeObjectMerge(MergeObject(f), Something(v)) = Contradiction
  BY Tags, Distinct DEF MergeObjectMerge
<1>6. MergeObjectMerge(MergeObject(f), Contradiction) = Contradiction
  BY Tags, Distinct DEF MergeObjectMerge
<1> QED BY <1>1, <1>3, <1>4, <1>5, <1>6

LEMMA MergeSomethingByClass ==
  ASSUME NEW v
  PROVE  /\ Merge(Something(v), Nothing) = Something(v)
         /\ Merge(Something(v), Something(v)) = Something(v)
         /\ \A w : v # w => Merge(Something(v), Something(w)) = Contradiction
         /\ \A S : Merge(Something(v), MergeSet(S)) = Contradiction
         /\ \A f : Merge(Something(v), MergeObject(f)) = Contradiction
         /\ Merge(Something(v), Contradiction) = Contradiction
<1>1. \A y : Merge(Something(v), y) = SomethingMerge(Something(v), y)
  BY Tags DEF Merge
<1>2. \A S : MergeSetMerge(MergeSet(S), Something(v)) = Contradiction
  BY Tags, Distinct DEF MergeSetMerge
<1>3. \A f : MergeObjectMerge(MergeObject(f), Something(v)) = Contradiction
  BY Tags, Distinct DEF MergeObjectMerge
<1>4. /\ SomethingMerge(Something(v), Nothing) = Something(v)
      /\ SomethingMerge(Something(v), Something(v)) = Something(v)
      /\ \A w : v # w => SomethingMerge(Something(v), Something(w)) = Contradiction
      /\ SomethingMerge(Something(v), Contradiction) = Contradiction
  BY Tags, Distinct DEF SomethingMerge
<1>5. \A S : SomethingMerge(Something(v), MergeSet(S)) = Contradiction
  BY <1>2, Tags, Distinct DEF SomethingMerge
<1>6. \A f : SomethingMerge(Something(v), MergeObject(f)) = Contradiction
  BY <1>3, Tags, Distinct DEF SomethingMerge
<1> QED BY <1>1, <1>4, <1>5, <1>6

(* Merging two structures gives a structure. *)
LEMMA MergeType ==
  ASSUME NEW x \in Info, NEW y \in Info
  PROVE  Merge(x, y) \in Info
<1>1. CASE x.tag = "set" /\ y.tag = "set"
  <2>1. PICK S \in (SUBSET Raw) \ {{}}, T \in (SUBSET Raw) \ {{}} :
          x = MergeSet(S) /\ y = MergeSet(T)
    BY <1>1, InfoCases, Tags
  <2>2. CASE S \cap T = {}
    BY <2>1, <2>2, MergeSetByClass, Constructors
  <2>3. CASE S \cap T # {}
    <3>1. Merge(x, y) = MergeSet(S \cap T)
      BY <2>1, <2>3, MergeSetByClass
    <3>2. S \cap T \in (SUBSET Raw) \ {{}}
      BY <2>3
    <3> QED BY <3>1, <3>2, Constructors
  <2> QED BY <2>2, <2>3
<1>2. CASE x.tag = "object" /\ y.tag = "object"
  <2>1. PICK f \in Partial(FieldInfo), g \in Partial(FieldInfo) :
          x = MergeObject(f) /\ y = MergeObject(g)
    BY <1>2, InfoCases, Tags
  <2> QED BY <2>1, ObjectMerge, Constructors
<1>3. CASE x = Nothing \/ y = Nothing
  BY <1>3, InfoCases, MergeUnits, MergeSomethingByClass, MergeSetByClass, MergeObjectByClass
<1>4. CASE x = Contradiction \/ y = Contradiction
  BY <1>4, InfoCases, MergeUnits, MergeSomethingByClass, MergeSetByClass, MergeObjectByClass, Constructors
<1>5. CASE x.tag = "something"
  BY <1>5, InfoCases, MergeUnits, MergeSomethingByClass, MergeSetByClass, MergeObjectByClass, Constructors
<1>6. CASE x.tag = "set" /\ y.tag # "set"
  BY <1>6, InfoCases, MergeUnits, MergeSomethingByClass, MergeSetByClass, MergeObjectByClass, Constructors
<1>7. CASE x.tag = "object" /\ y.tag # "object"
  BY <1>7, InfoCases, MergeUnits, MergeSomethingByClass, MergeSetByClass, MergeObjectByClass, Constructors
<1> QED BY <1>1, <1>2, <1>3, <1>4, <1>5, <1>6, <1>7, InfoCases

(* A cell that is told what it already holds does not change. *)
THEOREM MergeIdempotent ==
  ASSUME NEW x \in Info
  PROVE  Merge(x, x) = x
<1>1. CASE x.tag = "set"
  <2>1. PICK S \in (SUBSET Raw) \ {{}} : x = MergeSet(S)
    BY <1>1, InfoCases, Tags
  <2> QED BY <2>1, MergeUnits, MergeSomethingByClass, MergeSetByClass, MergeObjectByClass
<1>2. CASE x.tag = "object"
  <2>1. PICK f \in Partial(FieldInfo) : x = MergeObject(f)
    BY <1>2, InfoCases, Tags
  <2>2. \A k : FieldMerge(FieldOf(MergeObject(f), k), FieldOf(MergeObject(f), k))
                 = FieldOf(MergeObject(f), k)
    BY DEF FieldMerge
  <2>3. ~ Conflict(f, f)
    BY <2>2, FieldOfType, FieldCases DEF Conflict
  <2>4. Join(f, f) = f
    <3>1. Join(f, f) \in Partial(FieldInfo)
      BY <2>3, ObjectMerge
    <3>2. DOMAIN Join(f, f) = DOMAIN f
      BY JoinDomain
    <3>3. \A k : FieldOf(MergeObject(Join(f, f)), k) = FieldOf(MergeObject(f), k)
      BY <2>2, JoinField
    <3> QED BY <3>1, <3>2, <3>3, PartialEqual
  <2> QED BY <2>1, <2>3, <2>4, ObjectMerge
<1> QED BY <1>1, <1>2, InfoCases, MergeUnits, MergeSomethingByClass, MergeSetByClass, MergeObjectByClass

(* The order in which two structures reach a cell does not matter. *)
THEOREM MergeCommutative ==
  ASSUME NEW x \in Info, NEW y \in Info
  PROVE  Merge(x, y) = Merge(y, x)
<1>1. CASE x.tag = "set" /\ y.tag = "set"
  <2>1. PICK S \in (SUBSET Raw) \ {{}}, T \in (SUBSET Raw) \ {{}} :
          x = MergeSet(S) /\ y = MergeSet(T)
    BY <1>1, InfoCases, Tags
  <2>2. S \cap T = T \cap S
    OBVIOUS
  <2>3. CASE S \cap T = {}
    BY <2>1, <2>2, <2>3, MergeSetByClass
  <2>4. CASE S \cap T # {}
    <3>1. Merge(x, y) = MergeSet(S \cap T)
      BY <2>1, <2>4, MergeSetByClass
    <3>2. Merge(y, x) = MergeSet(T \cap S)
      BY <2>1, <2>2, <2>4, MergeSetByClass
    <3> QED BY <3>1, <3>2, <2>2, Zenon
  <2> QED BY <2>3, <2>4
<1>2. CASE x.tag = "object" /\ y.tag = "object"
  <2>1. PICK f \in Partial(FieldInfo), g \in Partial(FieldInfo) :
          x = MergeObject(f) /\ y = MergeObject(g)
    BY <1>2, InfoCases, Tags
  <2>2. \A k : FieldMerge(FieldOf(MergeObject(f), k), FieldOf(MergeObject(g), k))
                 = FieldMerge(FieldOf(MergeObject(g), k), FieldOf(MergeObject(f), k))
    BY DEF FieldMerge
  <2>3. Conflict(f, g) <=> Conflict(g, f)
    BY <2>2 DEF Conflict
  <2>4. ~ Conflict(f, g) => Join(f, g) = Join(g, f)
    <3> SUFFICES ASSUME ~ Conflict(f, g) PROVE Join(f, g) = Join(g, f)
      OBVIOUS
    <3>1. Join(f, g) \in Partial(FieldInfo) /\ Join(g, f) \in Partial(FieldInfo)
      BY <2>3, ObjectMerge
    <3>2. DOMAIN Join(f, g) = DOMAIN Join(g, f)
      <4>1. DOMAIN Join(f, g) = DOMAIN f \cup DOMAIN g
        BY JoinDomain
      <4>2. DOMAIN Join(g, f) = DOMAIN g \cup DOMAIN f
        BY JoinDomain
      <4> QED BY <4>1, <4>2
    <3>3. \A k : FieldOf(MergeObject(Join(f, g)), k)
                   = FieldOf(MergeObject(Join(g, f)), k)
      BY <2>2, JoinField
    <3> QED BY <3>1, <3>2, <3>3, PartialEqual
  <2>5. CASE Conflict(f, g)
    BY <2>1, <2>3, <2>5, ObjectMerge
  <2>6. CASE ~ Conflict(f, g)
    <3>1. Merge(x, y) = MergeObject(Join(f, g))
      BY <2>1, <2>6, ObjectMerge
    <3>2. Merge(y, x) = MergeObject(Join(g, f))
      BY <2>1, <2>3, <2>6, ObjectMerge
    <3> QED BY <3>1, <3>2, <2>4, <2>6
  <2> QED BY <2>5, <2>6
<1>3. CASE x.tag # y.tag \/ x.tag \notin {"set", "object"}
  BY <1>3, InfoCases, MergeUnits, MergeSomethingByClass, MergeSetByClass, MergeObjectByClass, Tags
<1> QED BY <1>1, <1>2, <1>3

(* Nothing and Contradiction on the right. *)
LEMMA MergeUnitsRight ==
  ASSUME NEW x \in Info
  PROVE  Merge(x, Nothing) = x /\ Merge(x, Contradiction) = Contradiction
BY MergeCommutative, MergeUnits, Constructors

(* Two structures of different classes, neither Nothing, contradict. *)
LEMMA MergeMixed ==
  ASSUME NEW x \in Info, NEW y \in Info,
         x # Nothing, y # Nothing, x.tag # y.tag
  PROVE  Merge(x, y) = Contradiction
BY InfoCases, Tags, MergeUnits, MergeSomethingByClass, MergeSetByClass,
   MergeObjectByClass

(* Two structures of one class merge to that class or contradict. *)
LEMMA MergeSameClass ==
  ASSUME NEW x \in Info, NEW y \in Info,
         x # Nothing, y # Nothing, x.tag = y.tag
  PROVE  Merge(x, y) = Contradiction
           \/ (Merge(x, y).tag = x.tag /\ Merge(x, y) # Nothing)
<1>1. CASE x.tag = "something"
  BY <1>1, InfoCases, Tags, Distinct, MergeSomethingByClass
<1>2. CASE x.tag = "set"
  <2> DEFINE S == x.elements
             T == y.elements
  <2>1. x = MergeSet(S) /\ y = MergeSet(T)
    BY <1>2, InfoCases, Tags
  <2>2. CASE S \cap T = {}
    BY <2>1, <2>2, MergeSetByClass
  <2>3. CASE S \cap T # {}
    <3>1. Merge(x, y) = MergeSet(S \cap T)
      BY <2>1, <2>3, MergeSetByClass
    <3> QED BY <3>1, <1>2, Tags, Distinct
  <2> QED BY <2>2, <2>3
<1>3. CASE x.tag = "object"
  <2>1. PICK f \in Partial(FieldInfo), g \in Partial(FieldInfo) :
          x = MergeObject(f) /\ y = MergeObject(g)
    BY <1>3, InfoCases, Tags
  <2>2. CASE Conflict(f, g)
    BY <2>1, <2>2, ObjectMerge
  <2>3. CASE ~ Conflict(f, g)
    BY <2>1, <2>3, ObjectMerge, Tags, Distinct
  <2> QED BY <2>2, <2>3
<1>4. CASE x = Contradiction
  BY <1>4, MergeUnits
<1> QED BY <1>1, <1>2, <1>3, <1>4, InfoCases, Tags

LEMMA SetAssociative ==
  ASSUME NEW S, NEW T, NEW U
  PROVE  Merge(Merge(MergeSet(S), MergeSet(T)), MergeSet(U)) =
           Merge(MergeSet(S), Merge(MergeSet(T), MergeSet(U)))
<1> DEFINE L == Merge(Merge(MergeSet(S), MergeSet(T)), MergeSet(U))
           R == Merge(MergeSet(S), Merge(MergeSet(T), MergeSet(U)))
<1>1. CASE (S \cap T) \cap U = {}
  <2>1. L = Contradiction
    <3>1. CASE S \cap T = {}
      BY <3>1, MergeSetByClass, MergeUnits
    <3>2. CASE S \cap T # {}
      <4>1. L = Merge(MergeSet(S \cap T), MergeSet(U))
        BY <3>2, MergeSetByClass
      <4> QED BY <4>1, <1>1, MergeSetByClass
    <3> QED BY <3>1, <3>2
  <2>2. S \cap (T \cap U) = {}
    BY <1>1
  <2>3. R = Contradiction
    <3>1. CASE T \cap U = {}
      BY <3>1, MergeSetByClass
    <3>2. CASE T \cap U # {}
      <4>1. R = Merge(MergeSet(S), MergeSet(T \cap U))
        BY <3>2, MergeSetByClass
      <4> QED BY <4>1, <2>2, MergeSetByClass
    <3> QED BY <3>1, <3>2
  <2> QED BY <2>1, <2>3
<1>2. CASE (S \cap T) \cap U # {}
  <2>1. S \cap T # {} /\ T \cap U # {} /\ S \cap (T \cap U) # {}
    BY <1>2
  <2>2. L = MergeSet((S \cap T) \cap U)
    BY <1>2, <2>1, MergeSetByClass
  <2>3. R = MergeSet(S \cap (T \cap U))
    <3>1. R = Merge(MergeSet(S), MergeSet(T \cap U))
      BY <2>1, MergeSetByClass
    <3> QED BY <3>1, <2>1, MergeSetByClass
  <2>4. (S \cap T) \cap U = S \cap (T \cap U)
    OBVIOUS
  <2> QED BY <2>2, <2>3, <2>4, Zenon
<1> QED BY <1>1, <1>2

LEMMA FieldAssociative ==
  ASSUME NEW x \in FieldInfo, NEW y \in FieldInfo, NEW z \in FieldInfo
  PROVE  /\ FieldMerge(x, y) # Contradiction /\ FieldMerge(y, z) # Contradiction
              => FieldMerge(FieldMerge(x, y), z) = FieldMerge(x, FieldMerge(y, z))
         /\ FieldMerge(x, y) = Contradiction /\ FieldMerge(y, z) # Contradiction
              => FieldMerge(x, FieldMerge(y, z)) = Contradiction
         /\ FieldMerge(x, y) # Contradiction /\ FieldMerge(y, z) = Contradiction
              => FieldMerge(FieldMerge(x, y), z) = Contradiction
BY FieldCases DEF FieldMerge

(* Where two objects conflict, what both say of that field is not Nothing. *)
LEMMA ConflictField ==
  ASSUME NEW f \in Partial(FieldInfo), NEW g \in Partial(FieldInfo)
  PROVE  Conflict(f, g) <=>
           \E k : FieldMerge(FieldOf(MergeObject(f), k), FieldOf(MergeObject(g), k))
                    = Contradiction
<1>1. ASSUME NEW k, k \notin DOMAIN f \cup DOMAIN g
      PROVE  FieldMerge(FieldOf(MergeObject(f), k), FieldOf(MergeObject(g), k))
               = Nothing
  BY <1>1, Tags DEF FieldOf, FieldMerge
<1> QED BY <1>1, Distinct DEF Conflict

LEMMA ObjectAssociative ==
  ASSUME NEW f \in Partial(FieldInfo), NEW g \in Partial(FieldInfo),
         NEW h \in Partial(FieldInfo)
  PROVE  Merge(Merge(MergeObject(f), MergeObject(g)), MergeObject(h)) =
           Merge(MergeObject(f), Merge(MergeObject(g), MergeObject(h)))
<1> DEFINE F(k) == FieldOf(MergeObject(f), k)
           G(k) == FieldOf(MergeObject(g), k)
           H(k) == FieldOf(MergeObject(h), k)
           L == Merge(Merge(MergeObject(f), MergeObject(g)), MergeObject(h))
           R == Merge(MergeObject(f), Merge(MergeObject(g), MergeObject(h)))
<1>0. \A k : F(k) \in FieldInfo /\ G(k) \in FieldInfo /\ H(k) \in FieldInfo
  BY FieldOfType
<1>1. CASE Conflict(f, g) /\ Conflict(g, h)
  BY <1>1, ObjectMerge, MergeUnits, MergeObjectByClass
<1>2. CASE Conflict(f, g) /\ ~ Conflict(g, h)
  <2>1. PICK k : FieldMerge(F(k), G(k)) = Contradiction
    BY <1>2, ConflictField
  <2>2. FieldMerge(G(k), H(k)) # Contradiction
    BY <1>2, ConflictField
  <2>3. FieldMerge(F(k), FieldMerge(G(k), H(k))) = Contradiction
    BY <2>1, <2>2, <1>0, FieldAssociative
  <2>4. FieldOf(MergeObject(Join(g, h)), k) = FieldMerge(G(k), H(k))
    BY JoinField
  <2>5. Join(g, h) \in Partial(FieldInfo)
    BY <1>2, ObjectMerge
  <2>6. Conflict(f, Join(g, h))
    BY <2>3, <2>4, <2>5, ConflictField
  <2>7. R = Contradiction
    BY <1>2, <2>5, <2>6, ObjectMerge
  <2>8. L = Contradiction
    BY <1>2, ObjectMerge, MergeUnits
  <2> QED BY <2>7, <2>8
<1>3. CASE ~ Conflict(f, g) /\ Conflict(g, h)
  <2>1. PICK k : FieldMerge(G(k), H(k)) = Contradiction
    BY <1>3, ConflictField
  <2>2. FieldMerge(F(k), G(k)) # Contradiction
    BY <1>3, ConflictField
  <2>3. FieldMerge(FieldMerge(F(k), G(k)), H(k)) = Contradiction
    BY <2>1, <2>2, <1>0, FieldAssociative
  <2>4. FieldOf(MergeObject(Join(f, g)), k) = FieldMerge(F(k), G(k))
    BY JoinField
  <2>5. Join(f, g) \in Partial(FieldInfo)
    BY <1>3, ObjectMerge
  <2>6. Conflict(Join(f, g), h)
    BY <2>3, <2>4, <2>5, ConflictField
  <2>7. L = Contradiction
    BY <1>3, <2>5, <2>6, ObjectMerge
  <2>8. R = Contradiction
    BY <1>3, ObjectMerge, MergeObjectByClass
  <2> QED BY <2>7, <2>8
<1>4. CASE ~ Conflict(f, g) /\ ~ Conflict(g, h)
  <2>1. Join(f, g) \in Partial(FieldInfo) /\ Join(g, h) \in Partial(FieldInfo)
    BY <1>4, ObjectMerge
  <2>2. \A k : FieldOf(MergeObject(Join(f, g)), k) = FieldMerge(F(k), G(k))
    BY JoinField
  <2>3. \A k : FieldOf(MergeObject(Join(g, h)), k) = FieldMerge(G(k), H(k))
    BY JoinField
  <2>4. \A k : FieldMerge(F(k), G(k)) # Contradiction
                 /\ FieldMerge(G(k), H(k)) # Contradiction
    BY <1>4, ConflictField
  <2>5. \A k : FieldMerge(FieldMerge(F(k), G(k)), H(k))
                 = FieldMerge(F(k), FieldMerge(G(k), H(k)))
    BY <2>4, <1>0, FieldAssociative
  <2>6. Conflict(Join(f, g), h) <=> Conflict(f, Join(g, h))
    BY <2>1, <2>2, <2>3, <2>5, ConflictField
  <2>7. L = Merge(MergeObject(Join(f, g)), MergeObject(h))
    BY <1>4, ObjectMerge
  <2>8. R = Merge(MergeObject(f), MergeObject(Join(g, h)))
    BY <1>4, ObjectMerge
  <2>9. CASE Conflict(Join(f, g), h)
    BY <2>1, <2>6, <2>7, <2>8, <2>9, ObjectMerge
  <2>10. CASE ~ Conflict(Join(f, g), h)
    <3>1. L = MergeObject(Join(Join(f, g), h))
            /\ Join(Join(f, g), h) \in Partial(FieldInfo)
      BY <2>1, <2>7, <2>10, ObjectMerge
    <3>2. R = MergeObject(Join(f, Join(g, h)))
            /\ Join(f, Join(g, h)) \in Partial(FieldInfo)
      BY <2>1, <2>6, <2>8, <2>10, ObjectMerge
    <3>3. \A k : FieldOf(MergeObject(Join(Join(f, g), h)), k)
                   = FieldMerge(FieldMerge(F(k), G(k)), H(k))
      BY <2>2, JoinField
    <3>4. \A k : FieldOf(MergeObject(Join(f, Join(g, h))), k)
                   = FieldMerge(F(k), FieldMerge(G(k), H(k)))
      BY <2>3, JoinField
    <3>5. DOMAIN Join(Join(f, g), h) = DOMAIN Join(f, Join(g, h))
      <4>1. DOMAIN Join(Join(f, g), h) = (DOMAIN f \cup DOMAIN g) \cup DOMAIN h
        BY JoinDomain
      <4>2. DOMAIN Join(f, Join(g, h)) = DOMAIN f \cup (DOMAIN g \cup DOMAIN h)
        <5>1. DOMAIN Join(f, Join(g, h)) = DOMAIN f \cup DOMAIN Join(g, h)
          BY JoinDomain
        <5>2. DOMAIN Join(g, h) = DOMAIN g \cup DOMAIN h
          BY JoinDomain
        <5> QED BY <5>1, <5>2
      <4> QED BY <4>1, <4>2
    <3>6. Join(Join(f, g), h) = Join(f, Join(g, h))
      BY <2>5, <3>1, <3>2, <3>3, <3>4, <3>5, PartialEqual
    <3> QED BY <3>1, <3>2, <3>6
  <2> QED BY <2>9, <2>10
<1> QED BY <1>1, <1>2, <1>3, <1>4

(* How the contributions to a cell are grouped does not matter. *)
THEOREM MergeAssociative ==
  ASSUME NEW x \in Info, NEW y \in Info, NEW z \in Info
  PROVE  Merge(Merge(x, y), z) = Merge(x, Merge(y, z))
<1>1. CASE x = Nothing \/ y = Nothing \/ z = Nothing
  BY <1>1, MergeUnits, MergeUnitsRight, MergeType
<1>2. CASE x = Contradiction \/ y = Contradiction \/ z = Contradiction
  BY <1>2, MergeUnits, MergeUnitsRight, MergeType
<1>3. CASE /\ x # Nothing /\ y # Nothing /\ z # Nothing
           /\ x.tag # y.tag \/ y.tag # z.tag
  <2>1. CASE x.tag # y.tag /\ y.tag # z.tag
    BY <1>3, <2>1, MergeMixed, MergeUnits, MergeUnitsRight
  <2>2. CASE x.tag # y.tag /\ y.tag = z.tag
    <3>1. Merge(Merge(x, y), z) = Contradiction
      BY <1>3, <2>2, MergeMixed, MergeUnits
    <3>2. Merge(x, Merge(y, z)) = Contradiction
      BY <1>3, <2>2, MergeSameClass, MergeMixed, MergeUnitsRight, MergeType
    <3> QED BY <3>1, <3>2
  <2>3. CASE x.tag = y.tag /\ y.tag # z.tag
    <3>1. Merge(x, Merge(y, z)) = Contradiction
      BY <1>3, <2>3, MergeMixed, MergeUnitsRight
    <3>2. Merge(Merge(x, y), z) = Contradiction
      BY <1>3, <2>3, MergeSameClass, MergeMixed, MergeUnits, MergeType
    <3> QED BY <3>1, <3>2
  <2> QED BY <1>3, <2>1, <2>2, <2>3
<1>4. CASE x.tag = "something" /\ y.tag = "something" /\ z.tag = "something"
  BY <1>4, InfoCases, Tags, MergeSomethingByClass, MergeUnits
<1>5. CASE x.tag = "set" /\ y.tag = "set" /\ z.tag = "set"
  <2>1. PICK S, T, U : x = MergeSet(S) /\ y = MergeSet(T) /\ z = MergeSet(U)
    BY <1>5, InfoCases, Tags
  <2> QED BY <2>1, SetAssociative
<1>6. CASE x.tag = "object" /\ y.tag = "object" /\ z.tag = "object"
  <2>1. PICK f \in Partial(FieldInfo), g \in Partial(FieldInfo),
             h \in Partial(FieldInfo) :
          x = MergeObject(f) /\ y = MergeObject(g) /\ z = MergeObject(h)
    BY <1>6, InfoCases, Tags
  <2> QED BY <2>1, ObjectAssociative
<1> QED BY <1>1, <1>2, <1>3, <1>4, <1>5, <1>6, InfoCases, Tags

-----------------------------------------------------------------------------
(* The order "says at least as much". *)

LEMMA PrecTransitive ==
  ASSUME NEW x \in Info, NEW y \in Info, NEW z \in Info, x \preceq y, y \preceq z
  PROVE  x \preceq z
<1>1. Merge(x, z) = Merge(x, Merge(y, z))
  BY DEF \preceq
<1>2. Merge(x, Merge(y, z)) = Merge(Merge(x, y), z)
  BY MergeAssociative
<1> QED BY <1>1, <1>2 DEF \preceq

LEMMA PrecMerge ==
  ASSUME NEW x \in Info, NEW y \in Info
  PROVE  x \preceq Merge(x, y) /\ y \preceq Merge(x, y)
<1>1. Merge(x, Merge(x, y)) = Merge(x, y)
  BY MergeAssociative, MergeIdempotent
<1>2. Merge(y, Merge(x, y)) = Merge(Merge(x, y), y)
  BY MergeCommutative, MergeType
<1>3. Merge(Merge(x, y), y) = Merge(x, y)
  BY MergeAssociative, MergeIdempotent
<1> QED BY <1>1, <1>2, <1>3 DEF \preceq

(* Merge is the least structure above both of its arguments. *)
THEOREM MergeLeast ==
  ASSUME NEW x \in Info, NEW y \in Info, NEW z \in Info, x \preceq z, y \preceq z
  PROVE  Merge(x, y) \preceq z
<1>1. Merge(Merge(x, y), z) = Merge(x, Merge(y, z))
  BY MergeAssociative
<1> QED BY <1>1 DEF \preceq

LEMMA PrecAntisymmetric ==
  ASSUME NEW x \in Info, NEW y \in Info, x \preceq y, y \preceq x
  PROVE  x = y
BY MergeCommutative DEF \preceq

LEMMA PrecExtremes ==
  ASSUME NEW x \in Info
  PROVE  /\ Nothing \preceq x /\ x \preceq Contradiction
         /\ x \preceq x
         /\ Contradiction \preceq x => x = Contradiction
BY MergeUnits, MergeUnitsRight, MergeIdempotent DEF \preceq

-----------------------------------------------------------------------------
(* What a propagator computes is a structure. *)

LEMMA IType ==
  ASSUME NEW r \in Result
  PROVE  I(r) \in Info
BY Constructors DEF I, Result

LEMMA ContentType ==
  ASSUME NEW f \in Partial(FieldInfo)
  PROVE  Content(MergeObject(f)) \in Raw
<1> DEFINE c == [k \in DOMAIN f |-> IF f[k] = Nothing THEN Null ELSE f[k].value]
<1>1. \A k \in DOMAIN f : c[k] \in Value \cup {Null}
  BY PartialFcn DEF FieldInfo
<1>2. c \in Partial(Value \cup {Null})
  BY <1>1, PartialFcn
<1>3. Content(MergeObject(f)) = [rec |-> c]
  BY Tags DEF Content
<1>4. [rec |-> c] \in Record
  BY <1>2 DEF Record
<1> QED BY <1>3, <1>4 DEF Raw

LEMMA BranchType ==
  ASSUME NEW i \in Info
  PROVE  Branch(i) \subseteq Raw
<1>1. CASE i.tag = "something"
  BY <1>1, InfoCases, Tags DEF Branch
<1>2. CASE i.tag = "object"
  BY <1>2, InfoCases, Tags, ContentType DEF Branch
<1>3. CASE i.tag = "set"
  BY <1>3, InfoCases, Tags DEF Branch
<1>4. CASE i = Nothing \/ i = Contradiction
  BY <1>4, Tags DEF Branch
<1> QED BY <1>1, <1>2, <1>3, <1>4, InfoCases

LEMMA MergeSetFlattenType ==
  ASSUME NEW bs \in SUBSET Info
  PROVE  MergeSetFlatten(bs) \in Info
<1> DEFINE out == UNION {Branch(i) : i \in bs}
<1>1. out \in SUBSET Raw
  BY BranchType
<1>2. CASE Contradiction \in bs \/ out = {}
  BY <1>2, Constructors DEF MergeSetFlatten
<1>3. CASE ~ (Contradiction \in bs \/ out = {})
  <2>1. MergeSetFlatten(bs) = MergeSet(out)
    BY <1>3 DEF MergeSetFlatten
  <2> QED BY <1>1, <1>3, <2>1, Constructors
<1> QED BY <1>2, <1>3

LEMMA BindType ==
  ASSUME NEW s \in Info, NEW k, \A a \in Raw : k[a] \in Info
  PROVE  Bind(s, k) \in Info
<1>1. CASE s.tag = "something"
  BY <1>1, InfoCases, Tags DEF Bind
<1>2. CASE s.tag = "object"
  BY <1>2, InfoCases, Tags, ContentType DEF Bind
<1>3. CASE s.tag = "set"
  <2>1. s.elements \in SUBSET Raw
    BY <1>3, InfoCases, Tags
  <2>2. {k[e] : e \in s.elements} \in SUBSET Info
    BY <2>1
  <2>3. Bind(s, k) = MergeSetFlatten({k[e] : e \in s.elements})
    BY <1>3 DEF Bind
  <2> QED BY <2>2, <2>3, MergeSetFlattenType
<1>4. CASE s = Nothing \/ s = Contradiction
  BY <1>4, Tags, Constructors DEF Bind
<1> QED BY <1>1, <1>2, <1>3, <1>4, InfoCases

LEMMA NaryUnpackType ==
  ASSUME NEW s \in Seq(Info), Len(s) \in 1 .. MaxArity,
         NEW f, \A t \in [1 .. Len(s) -> Raw] : f[t] \in Result
  PROVE  NaryUnpack(f, s) \in Info
<1>0. \A i \in 1 .. Len(s) : s[i] \in Info
  OBVIOUS
<1>1. CASE Len(s) = 1
  <2>0. s[1] \in Info
    BY <1>0, <1>1
  <2> DEFINE K0 == [a \in Raw |-> I(f[<<a>>])]
  <2>1. ASSUME NEW a \in Raw
        PROVE  I(f[<<a>>]) \in Info
    <3>1. <<a>> \in [1 .. 1 -> Raw]
      OBVIOUS
    <3> QED BY <3>1, <1>1, IType
  <2>2. \A a \in Raw : K0[a] \in Info
    BY <2>1
  <2>3. NaryUnpack(f, s) = Bind(s[1], K0)
    BY <1>1 DEF NaryUnpack
  <2> HIDE DEF K0
  <2> QED BY <2>0, <2>2, <2>3, BindType
<1>2. CASE Len(s) = 2
  <2>0. s[1] \in Info /\ s[2] \in Info
    BY <1>0, <1>2
  <2> DEFINE K1(a) == [b \in Raw |-> I(f[<<a, b>>])]
             K0 == [a \in Raw |-> Bind(s[2], K1(a))]
  <2>1. ASSUME NEW a \in Raw, NEW b \in Raw
        PROVE  I(f[<<a, b>>]) \in Info
    <3>1. <<a, b>> \in [1 .. 2 -> Raw]
      OBVIOUS
    <3> QED BY <3>1, <1>2, IType
  <2>2. ASSUME NEW a \in Raw
        PROVE  Bind(s[2], K1(a)) \in Info
    <3>1. \A b \in Raw : K1(a)[b] \in Info
      BY <2>1
    <3> HIDE DEF K1
    <3> QED BY <2>0, <3>1, BindType
  <2>3. \A a \in Raw : K0[a] \in Info
    BY <2>2
  <2>4. NaryUnpack(f, s) = Bind(s[1], K0)
    BY <1>2 DEF NaryUnpack
  <2> HIDE DEF K0
  <2> QED BY <2>0, <2>3, <2>4, BindType
<1>3. CASE Len(s) = 3
  <2>0. s[1] \in Info /\ s[2] \in Info /\ s[3] \in Info
    BY <1>0, <1>3
  <2> DEFINE K2(a, b) == [c \in Raw |-> I(f[<<a, b, c>>])]
             K1(a) == [b \in Raw |-> Bind(s[3], K2(a, b))]
             K0 == [a \in Raw |-> Bind(s[2], K1(a))]
  <2>1. ASSUME NEW a \in Raw, NEW b \in Raw, NEW c \in Raw
        PROVE  I(f[<<a, b, c>>]) \in Info
    <3>1. <<a, b, c>> \in [1 .. 3 -> Raw]
      OBVIOUS
    <3> QED BY <3>1, <1>3, IType
  <2>2. ASSUME NEW a \in Raw, NEW b \in Raw
        PROVE  Bind(s[3], K2(a, b)) \in Info
    <3>1. \A c \in Raw : K2(a, b)[c] \in Info
      BY <2>1
    <3> HIDE DEF K2
    <3> QED BY <2>0, <3>1, BindType
  <2>3. ASSUME NEW a \in Raw
        PROVE  Bind(s[2], K1(a)) \in Info
    <3>1. \A b \in Raw : K1(a)[b] \in Info
      BY <2>2
    <3> HIDE DEF K1
    <3> QED BY <2>0, <3>1, BindType
  <2>4. \A a \in Raw : K0[a] \in Info
    BY <2>3
  <2>5. NaryUnpack(f, s) = Bind(s[1], K0)
    BY <1>3 DEF NaryUnpack
  <2> HIDE DEF K0
  <2> QED BY <2>0, <2>4, <2>5, BindType
<1>4. CASE Len(s) = 4
  <2>0. s[1] \in Info /\ s[2] \in Info /\ s[3] \in Info /\ s[4] \in Info
    BY <1>0, <1>4
  <2> DEFINE K3(a, b, c) == [d \in Raw |-> I(f[<<a, b, c, d>>])]
             K2(a, b) == [c \in Raw |-> Bind(s[4], K3(a, b, c))]
             K1(a) == [b \in Raw |-> Bind(s[3], K2(a, b))]
             K0 == [a \in Raw |-> Bind(s[2], K1(a))]
  <2>1. ASSUME NEW a \in Raw, NEW b \in Raw, NEW c \in Raw, NEW d \in Raw
        PROVE  I(f[<<a, b, c, d>>]) \in Info
    <3>1. <<a, b, c, d>> \in [1 .. 4 -> Raw]
      OBVIOUS
    <3> QED BY <3>1, <1>4, IType
  <2>2. ASSUME NEW a \in Raw, NEW b \in Raw, NEW c \in Raw
        PROVE  Bind(s[4], K3(a, b, c)) \in Info
    <3>1. \A d \in Raw : K3(a, b, c)[d] \in Info
      BY <2>1
    <3> HIDE DEF K3
    <3> QED BY <2>0, <3>1, BindType
  <2>3. ASSUME NEW a \in Raw, NEW b \in Raw
        PROVE  Bind(s[3], K2(a, b)) \in Info
    <3>1. \A c \in Raw : K2(a, b)[c] \in Info
      BY <2>2
    <3> HIDE DEF K2
    <3> QED BY <2>0, <3>1, BindType
  <2>4. ASSUME NEW a \in Raw
        PROVE  Bind(s[2], K1(a)) \in Info
    <3>1. \A b \in Raw : K1(a)[b] \in Info
      BY <2>3
    <3> HIDE DEF K1
    <3> QED BY <2>0, <3>1, BindType
  <2>5. \A a \in Raw : K0[a] \in Info
    BY <2>4
  <2>6. NaryUnpack(f, s) = Bind(s[1], K0)
    BY <1>4 DEF NaryUnpack
  <2> HIDE DEF K0
  <2> QED BY <2>0, <2>5, <2>6, BindType
<1>5. CASE Len(s) = 5
  <2>0. s[1] \in Info /\ s[2] \in Info /\ s[3] \in Info /\ s[4] \in Info /\ s[5] \in Info
    BY <1>0, <1>5
  <2> DEFINE K4(a, b, c, d) == [e \in Raw |-> I(f[<<a, b, c, d, e>>])]
             K3(a, b, c) == [d \in Raw |-> Bind(s[5], K4(a, b, c, d))]
             K2(a, b) == [c \in Raw |-> Bind(s[4], K3(a, b, c))]
             K1(a) == [b \in Raw |-> Bind(s[3], K2(a, b))]
             K0 == [a \in Raw |-> Bind(s[2], K1(a))]
  <2>1. ASSUME NEW a \in Raw, NEW b \in Raw, NEW c \in Raw, NEW d \in Raw, NEW e \in Raw
        PROVE  I(f[<<a, b, c, d, e>>]) \in Info
    <3>1. <<a, b, c, d, e>> \in [1 .. 5 -> Raw]
      OBVIOUS
    <3> QED BY <3>1, <1>5, IType
  <2>2. ASSUME NEW a \in Raw, NEW b \in Raw, NEW c \in Raw, NEW d \in Raw
        PROVE  Bind(s[5], K4(a, b, c, d)) \in Info
    <3>1. \A e \in Raw : K4(a, b, c, d)[e] \in Info
      BY <2>1
    <3> HIDE DEF K4
    <3> QED BY <2>0, <3>1, BindType
  <2>3. ASSUME NEW a \in Raw, NEW b \in Raw, NEW c \in Raw
        PROVE  Bind(s[4], K3(a, b, c)) \in Info
    <3>1. \A d \in Raw : K3(a, b, c)[d] \in Info
      BY <2>2
    <3> HIDE DEF K3
    <3> QED BY <2>0, <3>1, BindType
  <2>4. ASSUME NEW a \in Raw, NEW b \in Raw
        PROVE  Bind(s[3], K2(a, b)) \in Info
    <3>1. \A c \in Raw : K2(a, b)[c] \in Info
      BY <2>3
    <3> HIDE DEF K2
    <3> QED BY <2>0, <3>1, BindType
  <2>5. ASSUME NEW a \in Raw
        PROVE  Bind(s[2], K1(a)) \in Info
    <3>1. \A b \in Raw : K1(a)[b] \in Info
      BY <2>4
    <3> HIDE DEF K1
    <3> QED BY <2>0, <3>1, BindType
  <2>6. \A a \in Raw : K0[a] \in Info
    BY <2>5
  <2>7. NaryUnpack(f, s) = Bind(s[1], K0)
    BY <1>5 DEF NaryUnpack
  <2> HIDE DEF K0
  <2> QED BY <2>0, <2>6, <2>7, BindType
<1> QED BY <1>1, <1>2, <1>3, <1>4, <1>5 DEF MaxArity

LEMMA CoerceType ==
  ASSUME NEW i \in Info, NEW as
  PROVE  Coerce(as, i) \in Info
<1>1. CoerceToMergeSet(i) \in Info
  <2>1. CASE i.tag = "something" /\ i.value \in Array /\ i.value.arr # {}
    <3>1. i.value.arr \in (SUBSET Raw) \ {{}}
      BY <2>1 DEF Array, Raw
    <3> QED BY <2>1, <3>1, Constructors DEF CoerceToMergeSet
  <2> QED BY <2>1, Constructors DEF CoerceToMergeSet
<1>2. CoerceToMergeObject(i) \in Info
  <2>1. CASE i.tag = "something" /\ i.value \in Record
    <3> DEFINE r == i.value.rec
               f == [k \in DOMAIN r |-> IF r[k] = Null THEN Nothing ELSE Something(r[k])]
    <3>1. r \in Partial(Value \cup {Null})
      BY <2>1 DEF Record
    <3>2. \A k \in DOMAIN r : r[k] \in Value \cup {Null}
      BY <3>1, PartialFcn
    <3>3. \A v \in Value : Something(v) \in FieldInfo
      BY DEF FieldInfo, Something
    <3>4. \A k \in DOMAIN f : f[k] \in FieldInfo
      BY <3>2, <3>3 DEF FieldInfo
    <3>5. f \in Partial(FieldInfo)
      BY <3>1, <3>4, PartialFcn
    <3>6. CoerceToMergeObject(i) = MergeObject(f)
      BY <2>1 DEF CoerceToMergeObject, Lift
    <3> QED BY <3>5, <3>6, Constructors
  <2> QED BY <2>1, Constructors DEF CoerceToMergeObject
<1> QED BY <1>1, <1>2 DEF Coerce
=============================================================================
