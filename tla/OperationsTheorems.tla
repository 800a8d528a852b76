-------------------------- MODULE OperationsTheorems --------------------------
(***************************************************************************)
(* For every client, of every source it writes and every call it makes:    *)
(* what the strict parser refuses and accepts, in which two ways a call    *)
(* becomes a protocol error, what may change in the workspace, what the    *)
(* type checker's silence means, which programs load, with what under which*)
(* name, that the order of their declarations does not matter, and that a  *)
(* text table reads every row of a text under its headers.                 *)
(*                                                                         *)
(* The parser is four passes over the lines (Sources.tla), three of them   *)
(* folds.  A fold's state after n elements is a chain h, h[n] being op of  *)
(* h[n - 1] and the nth element: an operator ...Run(..., h) names the      *)
(* chain, a lemma ...Is says the fold is its end, and what a pass keeps    *)
(* is an induction along h.                                                *)
(***************************************************************************)
EXTENDS Operations, SequenceTheorems, FiniteSetTheorems, TLAPS

Lemmas == INSTANCE InfoStructureTheorems WITH Value <- {}, Field <- {}

-----------------------------------------------------------------------------
(* Folds over sequences, numbers and flattened sequences.                  *)
(* The greatest and the least element of a set of numbers below a bound. *)
LEMMA MaxIs ==
  ASSUME NEW S \in SUBSET Int, NEW m \in S, \A i \in S : i <= m
  PROVE  Max(S) = m
<1>1. /\ Max(S) \in S /\ \A y \in S : Max(S) >= y
  BY DEF Max
<1>2. Max(S) \in Int /\ m \in Int /\ Max(S) <= m /\ Max(S) >= m
  BY <1>1
<1> QED BY <1>2

LEMMA MinIs ==
  ASSUME NEW S \in SUBSET Int, NEW m \in S, \A i \in S : m <= i
  PROVE  Min(S) = m
<1>1. /\ Min(S) \in S /\ \A y \in S : Min(S) <= y
  BY DEF Min
<1>2. Min(S) \in Int /\ m \in Int /\ m <= Min(S) /\ Min(S) <= m
  BY <1>1
<1> QED BY <1>2

LEMMA MaxOf ==
  ASSUME NEW n \in Nat, NEW S \in SUBSET (1 .. n), S # {}
  PROVE  Max(S) \in S /\ \A i \in S : i <= Max(S)
<1> DEFINE Bounded == {k \in Nat : \A T \in SUBSET (1 .. k) : T # {} => \E m \in T : \A i \in T : i <= m}
<1>1. 0 \in Bounded
  <2>1. 1 .. 0 = {}
    OBVIOUS
  <2> QED BY <2>1
<1>2. ASSUME NEW k \in Bounded PROVE k + 1 \in Bounded
  <2> SUFFICES ASSUME NEW T \in SUBSET (1 .. (k + 1)), T # {}
               PROVE  \E m \in T : \A i \in T : i <= m
    OBVIOUS
  <2>1. CASE k + 1 \in T
    BY <2>1
  <2>2. CASE k + 1 \notin T
    <3>1. T \in SUBSET (1 .. k)
      BY <2>2
    <3> QED BY <3>1
  <2> QED BY <2>1, <2>2
<1>3. Bounded = Nat
  <2> HIDE DEF Bounded
  <2>1. Bounded \in SUBSET Nat
    BY DEF Bounded
  <2> QED BY <1>1, <1>2, <2>1, Lemmas!Induction
<1>4. PICK m \in S : \A i \in S : i <= m
  BY <1>3
<1>5. Max(S) = m
  BY <1>4, MaxIs
<1> QED BY <1>4, <1>5

LEMMA MinOf ==
  ASSUME NEW n \in Nat, NEW S \in SUBSET (1 .. n), S # {}
  PROVE  Min(S) \in S /\ \A i \in S : Min(S) <= i
<1>1. PICK m \in S : \A i \in S : m <= i
  <2>1. S \in SUBSET Nat
    OBVIOUS
  <2> QED BY <2>1, Lemmas!LeastNatural
<1>2. Min(S) = m
  BY <1>1, MinIs
<1> QED BY <1>1, <1>2

LEMMA PrefixRange ==
  ASSUME NEW n \in Nat, NEW i \in 1 .. n
  PROVE  /\ 1 .. i \in SUBSET (1 .. n) /\ 1 .. i # {}
         /\ Max(1 .. i) = i
         /\ (1 .. i) \ {i} = 1 .. (i - 1)
         /\ 1 .. (i - 1) \in SUBSET (1 .. n)
<1>1. Max(1 .. i) = i
  <2>1. 1 .. i \in SUBSET Int /\ i \in 1 .. i /\ \A j \in 1 .. i : j <= i
    OBVIOUS
  <2> QED BY <2>1, MaxIs
<1> QED BY <1>1

(* A function on the subsets of 1 .. n that takes their elements in        *)
(* ascending order: what FoldLeft is made of.                              *)
Folds(n, A, base, step, g) ==
  /\ g \in [SUBSET (1 .. n) -> A]
  /\ \A s \in SUBSET (1 .. n) : g[s] = IF s = {} THEN base ELSE step[<<g[s \ {Max(s)}], Max(s)>>]

LEMMA FoldExists ==
  ASSUME NEW n \in Nat, NEW A, NEW base \in A, NEW step \in [A \X (1 .. n) -> A]
  PROVE  \E g : Folds(n, A, base, step, g)
<1> DEFINE Reached(k) == k <= n => \E g : Folds(k, A, base, step, g)
           Good == {k \in Nat : Reached(k)}
<1>1. 0 \in Good
  <2> DEFINE g == [s \in SUBSET (1 .. 0) |-> base]
  <2>1. 1 .. 0 = {}
    OBVIOUS
  <2>2. Folds(0, A, base, step, g)
    BY <2>1 DEF Folds
  <2> QED BY <2>2
<1>2. ASSUME NEW k \in Good PROVE k + 1 \in Good
  <2>0. k \in Nat /\ k + 1 \in Nat /\ Reached(k)
    <3> HIDE DEF Reached
    <3> QED OBVIOUS
  <2> SUFFICES ASSUME k + 1 <= n PROVE \E g : Folds(k + 1, A, base, step, g)
    <3> QED BY <2>0
  <2>1. PICK g : Folds(k, A, base, step, g)
    <3>1. k <= n
      BY <2>0
    <3> QED BY <2>0, <3>1
  <2> DEFINE h == [s \in SUBSET (1 .. (k + 1)) |->
                     IF k + 1 \in s THEN step[<<g[s \ {k + 1}], k + 1>>] ELSE g[s]]
  <2>2. ASSUME NEW s \in SUBSET (1 .. (k + 1))
        PROVE  /\ h[s] \in A
               /\ h[s] = IF s = {} THEN base ELSE step[<<h[s \ {Max(s)}], Max(s)>>]
    <3>1. CASE k + 1 \in s
      <4>1. s \ {k + 1} \in SUBSET (1 .. k) /\ s \ {k + 1} \in SUBSET (1 .. (k + 1)) /\ k + 1 \in 1 .. n
            /\ k + 1 \notin s \ {k + 1}
        BY <3>1
      <4>2. Max(s) = k + 1
        <5>1. s \in SUBSET Int /\ \A i \in s : i <= k + 1
          OBVIOUS
        <5> QED BY <5>1, <3>1, MaxIs
      <4>3. h[s] = step[<<g[s \ {k + 1}], k + 1>>] /\ h[s \ {k + 1}] = g[s \ {k + 1}]
        BY <3>1, <4>1
      <4>4. g[s \ {k + 1}] \in A
        BY <2>1, <4>1 DEF Folds
      <4>5. <<g[s \ {k + 1}], k + 1>> \in A \X (1 .. n)
        BY <4>1, <4>4
      <4> QED BY <3>1, <4>2, <4>3, <4>5
    <3>2. CASE k + 1 \notin s
      <4>1. s \in SUBSET (1 .. k)
        BY <3>2
      <4>2. h[s] = g[s]
        BY <3>2
      <4>3. CASE s = {}
        BY <2>1, <4>1, <4>2, <4>3 DEF Folds
      <4>4. CASE s # {}
        <5>1. Max(s) \in s
          BY <4>1, <4>4, MaxOf
        <5>2. s \ {Max(s)} \in SUBSET (1 .. k) /\ s \ {Max(s)} \in SUBSET (1 .. (k + 1)) /\ k + 1 \notin s \ {Max(s)}
          BY <4>1, <3>2
        <5>3. h[s \ {Max(s)}] = g[s \ {Max(s)}]
          BY <5>2
        <5>4. g[s] \in A /\ g[s] = step[<<g[s \ {Max(s)}], Max(s)>>]
          BY <2>1, <4>1, <4>4 DEF Folds
        <5> QED BY <4>2, <4>4, <5>3, <5>4
      <4> QED BY <4>3, <4>4
    <3> QED BY <3>1, <3>2
  <2>3. h \in [SUBSET (1 .. (k + 1)) -> A]
    BY <2>2
  <2>4. Folds(k + 1, A, base, step, h)
    <3> HIDE DEF h
    <3> QED BY <2>2, <2>3 DEF Folds
  <2> QED BY <2>4
<1>3. Good = Nat
  <2> HIDE DEF Good
  <2>1. Good \in SUBSET Nat
    BY DEF Good
  <2> QED BY <1>1, <1>2, <2>1, Lemmas!Induction
<1>4. PICK g : Folds(n, A, base, step, g)
  <2>1. n <= n /\ Reached(n)
    BY <1>3
  <2> QED BY <2>1
<1> QED BY <1>4

(* Recursion on the numbers up to n, by a step that is a function.         *)
Recurs(n, A, base, step, h) ==
  /\ h \in [0 .. n -> A]
  /\ h[0] = base
  /\ \A i \in 1 .. n : h[i] = step[<<h[i - 1], i>>]

LEMMA Recursion ==
  ASSUME NEW n \in Nat, NEW A, NEW base \in A, NEW step \in [A \X (1 .. n) -> A]
  PROVE  \E h : Recurs(n, A, base, step, h)
<1>1. PICK g : Folds(n, A, base, step, g)
  BY FoldExists
<1> DEFINE h == [i \in 0 .. n |-> g[1 .. i]]
<1>2. h[0] = base
  <2>1. 1 .. 0 = {} /\ {} \in SUBSET (1 .. n) /\ 0 \in 0 .. n
    OBVIOUS
  <2> QED BY <1>1, <2>1 DEF Folds
<1>3. ASSUME NEW i \in 1 .. n PROVE h[i] = step[<<h[i - 1], i>>]
  <2>1. i \in 0 .. n /\ i - 1 \in 0 .. n
    OBVIOUS
  <2>2. h[i] = g[1 .. i] /\ h[i - 1] = g[1 .. (i - 1)]
    BY <2>1
  <2>3. /\ 1 .. i \in SUBSET (1 .. n) /\ 1 .. i # {}
        /\ Max(1 .. i) = i /\ (1 .. i) \ {i} = 1 .. (i - 1)
    BY PrefixRange
  <2> HIDE DEF h
  <2>4. g[1 .. i] = step[<<g[1 .. (i - 1)], i>>]
    BY <1>1, <2>3 DEF Folds
  <2> QED BY <2>2, <2>4
<1>4. h \in [0 .. n -> A]
  <2>1. \A i \in 0 .. n : 1 .. i \in SUBSET (1 .. n)
    OBVIOUS
  <2> QED BY <1>1, <2>1 DEF Folds
<1> HIDE DEF h
<1> QED BY <1>2, <1>3, <1>4 DEF Recurs

LEMMA Joined ==
  ASSUME NEW S
  PROVE  /\ \A s, t \in Seq(S) : s \o t \in Seq(S) /\ Len(s \o t) = Len(s) + Len(t)
         /\ \A s \in Seq(S) : <<>> \o s = s /\ s \o <<>> = s
<1>1. ASSUME NEW s \in Seq(S), NEW t \in Seq(S) PROVE s \o t \in Seq(S) /\ Len(s \o t) = Len(s) + Len(t)
  BY ConcatProperties
<1>2. ASSUME NEW s \in Seq(S) PROVE <<>> \o s = s /\ s \o <<>> = s
  BY ConcatEmptySeq
<1> QED BY <1>1, <1>2

(* The partial concatenations of a sequence of sequences.                  *)
LEMMA Flattened ==
  ASSUME NEW S, NEW seqs \in Seq(Seq(S))
  PROVE  \E f \in [0 .. Len(seqs) -> Seq(S)] :
            /\ f[0] = <<>>
            /\ \A i \in 1 .. Len(seqs) : f[i] = f[i - 1] \o seqs[i]
            /\ FlattenSeq(seqs) = f[Len(seqs)]
<1> DEFINE n == Len(seqs)
<1>0. n \in Nat /\ \A i \in 1 .. n : seqs[i] \in Seq(S)
  OBVIOUS
<1> HIDE DEF n
<1> DEFINE step == [p \in Seq(S) \X (1 .. n) |-> p[1] \o seqs[p[2]]]
<1>1. step \in [Seq(S) \X (1 .. n) -> Seq(S)]
  <2>1. \A p \in Seq(S) \X (1 .. n) : p[1] \in Seq(S) /\ seqs[p[2]] \in Seq(S)
    BY <1>0
  <2>2. \A p \in Seq(S) \X (1 .. n) : p[1] \o seqs[p[2]] \in Seq(S)
    BY <2>1, Joined, Zenon
  <2> QED BY <2>2
<1>2. <<>> \in Seq(S)
  OBVIOUS
<1>3. PICK h : Recurs(n, Seq(S), <<>>, step, h)
  <2> HIDE DEF step
  <2> QED BY <1>0, <1>1, <1>2, Recursion
<1> DEFINE TypedRun == h \in [0 .. n -> Seq(S)] /\ h[0] = <<>>
<1>3a. TypedRun
  BY <1>3 DEF Recurs
<1>4. ASSUME NEW i \in 1 .. n PROVE h[i] = h[i - 1] \o seqs[i]
  <2>1. i - 1 \in 0 .. n
    BY <1>0
  <2>2. <<h[i - 1], i>> \in Seq(S) \X (1 .. n)
    BY <2>1, <1>3a
  <2>3. step[<<h[i - 1], i>>] = h[i - 1] \o seqs[i]
    BY <2>2
  <2> QED BY <1>3, <2>3 DEF Recurs
<1>5. CASE n = 0
  <2>1. FlattenSeq(seqs) = <<>>
    <3>1. seqs = <<>> /\ Len(seqs) = 0
      BY <1>5, EmptySeq DEF n
    <3> QED BY <3>1 DEF FlattenSeq
  <2> QED BY <1>3a, <1>4, <1>5, <2>1 DEF n
<1>6. CASE n # 0
  <2> DEFINE Is(f) == f = [i \in 1 .. n |-> IF i = 1 THEN seqs[i] ELSE f[i - 1] \o seqs[i]]
             F == CHOOSE f : Is(f)
             f0 == [i \in 1 .. n |-> h[i]]
  <2>1. Is(f0)
    <3>1. ASSUME NEW i \in 1 .. n
          PROVE  h[i] = IF i = 1 THEN seqs[i] ELSE f0[i - 1] \o seqs[i]
      <4>1. CASE i = 1
        <5>1. h[1] = h[0] \o seqs[1] /\ seqs[1] \in Seq(S)
          <6>1. 1 \in 1 .. n /\ 1 - 1 = 0
            BY <4>1
          <6> QED BY <1>0, <1>4, <6>1
        <5>2. h[0] \o seqs[1] = seqs[1]
          BY <5>1, <1>3a, Joined
        <5> QED BY <4>1, <5>1, <5>2
      <4>2. CASE i # 1
        <5>1. i - 1 \in 1 .. n
          BY <1>0, <4>2
        <5>2. f0[i - 1] = h[i - 1]
          BY <5>1
        <5> HIDE DEF f0
        <5> QED BY <1>4, <4>2, <5>2
      <4> QED BY <4>1, <4>2
    <3> QED BY <3>1
  <2>2. Is(F)
    <3> HIDE DEF Is, f0
    <3> QED BY <2>1
  <2>3. FlattenSeq(seqs) = F[n]
    BY <1>6, Zenon DEF FlattenSeq, n
  <2> HIDE DEF F, f0
  <2> DEFINE Same == {i \in Nat : i \in 1 .. n => F[i] = h[i]}
  <2>4. Same = Nat
    <3>1. 0 \in Same
      OBVIOUS
    <3>2. ASSUME NEW i \in Same PROVE i + 1 \in Same
      <4> SUFFICES ASSUME i + 1 \in 1 .. n PROVE F[i + 1] = h[i + 1]
        OBVIOUS
      <4>1. i \in Nat /\ (i + 1) - 1 = i
        OBVIOUS
      <4>2. F[i + 1] = IF i + 1 = 1 THEN seqs[i + 1] ELSE F[i] \o seqs[i + 1]
        <5> DEFINE j == i + 1
        <5>1. j \in 1 .. n /\ j - 1 = i
          BY <4>1
        <5> HIDE DEF j
        <5>2. F[j] = IF j = 1 THEN seqs[j] ELSE F[j - 1] \o seqs[j]
          BY <2>2, <5>1
        <5> QED BY <5>1, <5>2 DEF j
      <4>3. h[i + 1] = h[i] \o seqs[i + 1]
        BY <1>4, <4>1
      <4>4. CASE i = 0
        <5>1. seqs[1] \in Seq(S) /\ h[0] = <<>>
          BY <1>0, <1>3a, <4>4
        <5>2. <<>> \o seqs[1] = seqs[1]
          BY <5>1, Joined
        <5> QED BY <4>2, <4>3, <4>4, <5>1, <5>2
      <4>5. CASE i # 0
        <5>1. i \in 1 .. n
          BY <1>0, <4>1, <4>5
        <5>2. F[i] = h[i]
          BY <5>1
        <5>3. i + 1 # 1
          BY <4>1, <4>5
        <5>4. F[i + 1] = F[i] \o seqs[i + 1]
          BY <4>2, <5>3
        <5> QED BY <4>3, <5>2, <5>4
      <4> QED BY <4>4, <4>5
    <3>3. Same \in SUBSET Nat
      OBVIOUS
    <3> HIDE DEF Same
    <3> QED BY <3>1, <3>2, <3>3, Lemmas!Induction
  <2>5. F[n] = h[n]
    <3>1. n \in Nat /\ n \in 1 .. n
      BY <1>0, <1>6
    <3> QED BY <2>4, <3>1
  <2>6. FlattenSeq(seqs) = h[n]
    BY <2>3, <2>5
  <2> QED BY <1>3a, <1>4, <2>6 DEF n
<1> QED BY <1>5, <1>6

-----------------------------------------------------------------------------
(* Ranges of sequences, and what is kept of one.                           *)
LEMMA RangeJoin ==
  ASSUME NEW S, NEW s \in Seq(S), NEW t \in Seq(S)
  PROVE  Range(s \o t) = Range(s) \cup Range(t)
<1>1. Lemmas!Range(s \o t) = Lemmas!Range(s) \cup Lemmas!Range(t)
  BY Lemmas!RangeJoin
<1>2. \A q : Lemmas!Range(q) = Range(q)
  BY DEF Range, Lemmas!Range
<1> QED BY <1>1, <1>2

LEMMA RangeIn ==
  ASSUME NEW S, NEW s \in Seq(S)
  PROVE  /\ Range(s) \subseteq S /\ DOMAIN s = 1 .. Len(s) /\ Len(s) \in Nat
         /\ Range(s) = {s[i] : i \in 1 .. Len(s)}
         /\ (Range(s) = {} <=> s = <<>>)
<1>1. Range(s) \subseteq S /\ (Range(s) = {} <=> s = <<>>)
  BY Lemmas!RangeOf DEF Range, Lemmas!Range
<1>2. DOMAIN s = 1 .. Len(s) /\ Len(s) \in Nat
  BY LenProperties
<1> QED BY <1>1, <1>2 DEF Range

(* The elements of a concatenation of sequences are those of the sequences. *)
LEMMA FlatRange ==
  ASSUME NEW S, NEW seqs \in Seq(Seq(S))
  PROVE  /\ FlattenSeq(seqs) \in Seq(S)
         /\ Range(FlattenSeq(seqs)) = UNION {Range(seqs[i]) : i \in 1 .. Len(seqs)}
<1> DEFINE n == Len(seqs)
<1>1. n \in Nat /\ \A i \in 1 .. n : seqs[i] \in Seq(S)
  OBVIOUS
<1>2. PICK f \in [0 .. n -> Seq(S)] :
            /\ f[0] = <<>>
            /\ \A i \in 1 .. n : f[i] = f[i - 1] \o seqs[i]
            /\ FlattenSeq(seqs) = f[n]
  BY Flattened
<1> HIDE DEF n
<1> DEFINE R(k) == UNION {Range(seqs[i]) : i \in 1 .. k}
           Good == {k \in Nat : k <= n => Range(f[k]) = R(k)}
<1>3. 0 \in Good
  <2>1. Range(<<>>) = {} /\ 1 .. 0 = {}
    BY DEF Range
  <2> QED BY <1>2, <2>1
<1>4. ASSUME NEW k \in Good PROVE k + 1 \in Good
  <2> SUFFICES ASSUME k + 1 <= n PROVE Range(f[k + 1]) = R(k + 1)
    OBVIOUS
  <2>1. k \in Nat /\ k <= n /\ k + 1 \in 1 .. n /\ (k + 1) - 1 = k /\ k \in 0 .. n
    BY <1>1
  <2>2. Range(f[k]) = R(k) /\ f[k] \in Seq(S) /\ seqs[k + 1] \in Seq(S) /\ f[k + 1] = f[k] \o seqs[k + 1]
    BY <1>1, <1>2, <2>1
  <2>3. Range(f[k + 1]) = Range(f[k]) \cup Range(seqs[k + 1])
    BY <2>2, RangeJoin
  <2>4. 1 .. (k + 1) = (1 .. k) \cup {k + 1}
    BY <2>1
  <2>5. R(k + 1) = R(k) \cup Range(seqs[k + 1])
    BY <2>4
  <2> QED BY <2>2, <2>3, <2>5
<1>5. Good = Nat
  <2>1. Good \in SUBSET Nat
    OBVIOUS
  <2> HIDE DEF Good
  <2> QED BY <1>3, <1>4, <2>1, Lemmas!Induction
<1>6. n <= n /\ n \in 0 .. n
  BY <1>1
<1>7. Range(f[n]) = R(n)
  BY <1>1, <1>5, <1>6
<1> QED BY <1>2, <1>6, <1>7 DEF n

LEMMA KeptIs ==
  ASSUME NEW T, NEW seq \in Seq(T), NEW S
  PROVE  /\ Kept(seq, S) \in Seq(T)
         /\ Range(Kept(seq, S)) = Range(seq) \cap S
         /\ (Kept(seq, S) = <<>> <=> Range(seq) \cap S = {})
<1> DEFINE parts == [i \in DOMAIN seq |-> IF seq[i] \in S THEN <<seq[i]>> ELSE <<>>]
<1>1. DOMAIN seq = 1 .. Len(seq) /\ Len(seq) \in Nat /\ \A i \in 1 .. Len(seq) : seq[i] \in T
  OBVIOUS
<1>2. parts \in Seq(Seq(T)) /\ Len(parts) = Len(seq)
  <2>1. \A i \in 1 .. Len(seq) : (IF seq[i] \in S THEN <<seq[i]>> ELSE <<>>) \in Seq(T)
    BY <1>1
  <2> QED BY <1>1, <2>1
<1>3. Kept(seq, S) = FlattenSeq(parts)
  BY DEF Kept, Flat, Each
<1>4. \A i \in 1 .. Len(seq) : parts[i] = (IF seq[i] \in S THEN <<seq[i]>> ELSE <<>>)
  BY <1>1
<1> HIDE DEF parts
<1>5. Kept(seq, S) \in Seq(T) /\ Range(Kept(seq, S)) = UNION {Range(parts[i]) : i \in 1 .. Len(seq)}
  BY <1>2, <1>3, FlatRange
<1>6. ASSUME NEW i \in 1 .. Len(seq) PROVE Range(parts[i]) = {seq[i]} \cap S
  <2>1. CASE seq[i] \in S
    <3>1. Range(<<seq[i]>>) = {seq[i]}
      BY DEF Range
    <3> QED BY <1>4, <2>1, <3>1
  <2>2. CASE seq[i] \notin S
    <3>1. Range(<<>>) = {}
      BY DEF Range
    <3> QED BY <1>4, <2>2, <3>1
  <2> QED BY <2>1, <2>2
<1>7. Range(seq) = {seq[i] : i \in 1 .. Len(seq)}
  BY <1>1 DEF Range
<1>8. Range(Kept(seq, S)) = Range(seq) \cap S
  BY <1>5, <1>6, <1>7
<1> QED BY <1>5, <1>8, RangeIn

-----------------------------------------------------------------------------
(* The scanner: the fold of Scan over the tokens of a line.                *)
(* What holds in the beginning of a chain and is kept by its links holds   *)
(* of all of it.                                                           *)
LEMMA AlongTheChain ==
  ASSUME NEW n \in Nat, NEW h, NEW Inv, h[0] \in Inv[0],
         \A i \in 1 .. n : h[i - 1] \in Inv[i - 1] => h[i] \in Inv[i]
  PROVE  \A i \in 0 .. n : h[i] \in Inv[i]
<1> DEFINE Good == {k \in Nat : k <= n => h[k] \in Inv[k]}
<1>1. 0 \in Good
  OBVIOUS
<1>2. ASSUME NEW k \in Good PROVE k + 1 \in Good
  <2> SUFFICES ASSUME k + 1 <= n PROVE h[k + 1] \in Inv[k + 1]
    OBVIOUS
  <2> DEFINE i == k + 1
  <2>1. i \in 1 .. n /\ i - 1 = k /\ k <= n
    OBVIOUS
  <2>2. h[i - 1] \in Inv[i - 1]
    BY <2>1
  <2> HIDE DEF i
  <2>3. h[i] \in Inv[i]
    BY <2>1, <2>2
  <2> QED BY <2>3 DEF i
<1>3. Good = Nat
  <2>1. Good \in SUBSET Nat
    OBVIOUS
  <2> HIDE DEF Good
  <2> QED BY <1>1, <1>2, <2>1, Lemmas!Induction
<1> QED BY <1>3

-----------------------------------------------------------------------------
ScanState(Tok) == [out : Seq(Tok), in : {"code", "blob", "quote"}, cut : BOOLEAN]

LEMMA ScanCases ==
  ASSUME NEW Tok, NEW s \in ScanState(Tok), NEW t \in Tok
  PROVE  /\ Scan(s, t) \in ScanState(Tok)
         /\ s.cut => Scan(s, t) = s
         /\ ~s.cut /\ ~(s.in = "code" /\ t = Comment) => Scan(s, t).out = Append(s.out, t) /\ ~Scan(s, t).cut
         /\ ~s.cut /\ s.in = "code" /\ t = Comment => Scan(s, t) = [s EXCEPT !.cut = TRUE]
         /\ Scan(s, t).out = s.out \/ Scan(s, t).out = Append(s.out, t)
<1>0. s.out \in Seq(Tok) /\ s.in \in {"code", "blob", "quote"} /\ s.cut \in BOOLEAN
      /\ s = [out |-> s.out, in |-> s.in, cut |-> s.cut] /\ Append(s.out, t) \in Seq(Tok)
  BY DEF ScanState
<1>1. CASE s.cut
  <2>1. Scan(s, t) = s
    BY <1>1, Zenon DEF Scan
  <2> QED BY <1>1, <2>1
<1>2. CASE ~s.cut /\ s.in = "blob"
  <2>1. Scan(s, t) = [s EXCEPT !.out = Append(@, t), !.in = IF t = Blob THEN "code" ELSE @]
    BY <1>2, Zenon DEF Scan
  <2> QED BY <1>0, <1>2, <2>1 DEF ScanState
<1>3. CASE ~s.cut /\ s.in = "quote"
  <2>1. Scan(s, t) = [s EXCEPT !.out = Append(@, t), !.in = IF t = Quote THEN "code" ELSE @]
    BY <1>3, Zenon DEF Scan
  <2> QED BY <1>0, <1>3, <2>1 DEF ScanState
<1>4. CASE ~s.cut /\ s.in = "code" /\ t = Comment
  <2>1. Scan(s, t) = [s EXCEPT !.cut = TRUE]
    BY <1>4, Zenon DEF Scan
  <2> QED BY <1>0, <1>4, <2>1 DEF ScanState
<1>5. CASE ~s.cut /\ s.in = "code" /\ t # Comment
  <2>1. Scan(s, t) = [s EXCEPT !.out = Append(@, t),
                               !.in = IF t = Blob THEN "blob" ELSE IF t = Quote THEN "quote" ELSE @]
    BY <1>5, Zenon DEF Scan
  <2> QED BY <1>0, <1>5, <2>1 DEF ScanState
<1> QED BY <1>0, <1>1, <1>2, <1>3, <1>4, <1>5

ScanRun(Tok, toks, base, h) ==
  /\ h \in [0 .. Len(toks) -> ScanState(Tok)]
  /\ h[0] = base
  /\ \A i \in 1 .. Len(toks) : h[i] = Scan(h[i - 1], toks[i])
  /\ FoldLeft(Scan, base, toks) = h[Len(toks)]

LEMMA ScanRuns ==
  ASSUME NEW Tok, NEW toks \in Seq(Tok), NEW base \in ScanState(Tok)
  PROVE  \E h : ScanRun(Tok, toks, base, h)
<1> DEFINE A == ScanState(Tok)
           n == Len(toks)
           step == [p \in A \X (1 .. n) |-> Scan(p[1], toks[p[2]])]
           Is(it) == it = [s \in SUBSET (1 .. n) |->
                             IF s = {} THEN base ELSE Scan(it[s \ {Max(s)}], toks[Max(s)])]
           F == CHOOSE it : Is(it)
<1>0. n \in Nat /\ DOMAIN toks = 1 .. n /\ \A i \in 1 .. n : toks[i] \in Tok
  OBVIOUS
<1>1. FoldLeft(Scan, base, toks) = F[1 .. n]
  BY <1>0, Zenon DEF FoldLeft, MapThenFoldSet
<1> HIDE DEF A, n
<1>2. step \in [A \X (1 .. n) -> A]
  <2>1. \A p \in A \X (1 .. n) : p[1] \in A /\ toks[p[2]] \in Tok
    BY <1>0
  <2>2. \A p \in A \X (1 .. n) : Scan(p[1], toks[p[2]]) \in A
    BY <2>1, ScanCases, Zenon DEF A
  <2> QED BY <2>2
<1>3. PICK g : Folds(n, A, base, step, g)
  <2> HIDE DEF step
  <2> QED BY <1>0, <1>2, FoldExists DEF A
<1>4. Is(g)
  <2>1. ASSUME NEW s \in SUBSET (1 .. n)
        PROVE  g[s] = IF s = {} THEN base ELSE Scan(g[s \ {Max(s)}], toks[Max(s)])
    <3>1. CASE s = {}
      BY <1>3, <3>1 DEF Folds
    <3>2. CASE s # {}
      <4>1. Max(s) \in 1 .. n /\ s \ {Max(s)} \in SUBSET (1 .. n)
        BY <1>0, <3>2, MaxOf
      <4>2. <<g[s \ {Max(s)}], Max(s)>> \in A \X (1 .. n)
        BY <1>3, <4>1 DEF Folds
      <4>3. step[<<g[s \ {Max(s)}], Max(s)>>] = Scan(g[s \ {Max(s)}], toks[Max(s)])
        BY <4>2
      <4>4. g[s] = step[<<g[s \ {Max(s)}], Max(s)>>]
        BY <1>3, <3>2 DEF Folds
      <4> QED BY <3>2, <4>3, <4>4
    <3> QED BY <3>1, <3>2
  <2>2. DOMAIN g = SUBSET (1 .. n) /\ g = [s \in SUBSET (1 .. n) |-> g[s]]
    BY <1>3 DEF Folds
  <2> QED BY <2>1, <2>2, Zenon
<1>5. Is(F)
  <2> HIDE DEF Is
  <2> QED BY <1>4
<1> HIDE DEF F
<1> DEFINE h == [i \in 0 .. n |-> F[1 .. i]]
<1>6. h[0] = base
  <2>1. 1 .. 0 = {} /\ {} \in SUBSET (1 .. n) /\ 0 \in 0 .. n
    BY <1>0
  <2> QED BY <1>5, <2>1
<1>7. ASSUME NEW i \in 1 .. n PROVE h[i] = Scan(h[i - 1], toks[i])
  <2>1. i \in 0 .. n /\ i - 1 \in 0 .. n
    BY <1>0
  <2>2. h[i] = F[1 .. i] /\ h[i - 1] = F[1 .. (i - 1)]
    BY <2>1
  <2>3. /\ 1 .. i \in SUBSET (1 .. n) /\ 1 .. i # {}
        /\ Max(1 .. i) = i /\ (1 .. i) \ {i} = 1 .. (i - 1)
    BY <1>0, PrefixRange
  <2> HIDE DEF h
  <2>4. F[1 .. i] = Scan(F[1 .. (i - 1)], toks[i])
    BY <1>5, <2>3
  <2> QED BY <2>2, <2>4
<1>8. h \in [0 .. n -> A]
  <2> DEFINE Inv == [i \in 0 .. n |-> A]
  <2>1. h[0] \in Inv[0]
    BY <1>0, <1>6 DEF A
  <2>2. ASSUME NEW i \in 1 .. n, h[i - 1] \in Inv[i - 1] PROVE h[i] \in Inv[i]
    <3>1. i \in 0 .. n /\ i - 1 \in 0 .. n /\ toks[i] \in Tok
      BY <1>0
    <3>2. h[i - 1] \in A
      BY <2>2, <3>1
    <3>3. Scan(h[i - 1], toks[i]) \in A
      BY <3>1, <3>2, ScanCases DEF A
    <3> QED BY <1>7, <3>1, <3>3
  <2> HIDE DEF h
  <2>3. \A i \in 0 .. n : h[i] \in Inv[i]
    <3> HIDE DEF Inv
    <3> QED BY <1>0, <2>1, <2>2, AlongTheChain
  <2> USE DEF h
  <2> QED BY <2>3
<1>9. n \in 0 .. n /\ h[n] = F[1 .. n]
  BY <1>0
<1> HIDE DEF h
<1> QED BY <1>0, <1>1, <1>6, <1>7, <1>8, <1>9 DEF ScanRun, n, A

-----------------------------------------------------------------------------
(* What is behind a line, where it begins, and the fold that classifies lines. *)
(* A line is scanned into a part of it; outside a blob nothing is left of  *)
(* it exactly if it is empty or begins with a comment.                     *)
ScansTo(Tok, toks, b, r) ==
  /\ r.stripped \in Seq(Tok) /\ r.inBlob \in BOOLEAN
  /\ Len(r.stripped) <= Len(toks)
  /\ ~b /\ (toks = <<>> \/ Head(toks) = Comment) => r.stripped = <<>> /\ ~r.inBlob
  /\ ~b /\ toks # <<>> /\ Head(toks) # Comment => r.stripped # <<>>

LEMMA ScanLineIs ==
  ASSUME NEW Tok, NEW toks \in Seq(Tok), NEW b \in BOOLEAN
  PROVE  ScansTo(Tok, toks, b, scanLine(toks, b))
<1> DEFINE base == [out |-> <<>>, in |-> IF b THEN "blob" ELSE "code", cut |-> FALSE]
           n == Len(toks)
<1>0. n \in Nat /\ (\A i \in 1 .. n : toks[i] \in Tok) /\ (toks = <<>> <=> n = 0)
      /\ (n # 0 => Head(toks) = toks[1])
  BY EmptySeq
<1>1. base \in ScanState(Tok)
  BY DEF ScanState
<1> HIDE DEF base, n
<1>2. PICK h : ScanRun(Tok, toks, base, h)
  BY <1>1, ScanRuns
<1>3. /\ h \in [0 .. n -> ScanState(Tok)] /\ h[0] = base
      /\ \A i \in 1 .. n : h[i] = Scan(h[i - 1], toks[i])
      /\ FoldLeft(Scan, base, toks) = h[n]
  BY <1>2 DEF ScanRun, n
<1>4. scanLine(toks, b) = [stripped |-> h[n].out, inBlob |-> h[n].in = "blob"]
  BY <1>3, Zenon DEF scanLine, base
<1>5. h[n] \in ScanState(Tok)
  BY <1>0, <1>3
<1>6. Len(h[n].out) <= n
  <2> DEFINE Inv == [i \in 0 .. n |-> {s \in ScanState(Tok) : Len(s.out) <= i}]
  <2>1. h[0] \in Inv[0]
    BY <1>0, <1>1, <1>3 DEF base
  <2>2. ASSUME NEW i \in 1 .. n, h[i - 1] \in Inv[i - 1] PROVE h[i] \in Inv[i]
    <3>1. i \in 0 .. n /\ i - 1 \in 0 .. n /\ i \in Nat /\ toks[i] \in Tok
      BY <1>0
    <3>2. h[i - 1] \in ScanState(Tok) /\ Len(h[i - 1].out) <= i - 1
      BY <2>2, <3>1
    <3>3. h[i] \in ScanState(Tok) /\ h[i] = Scan(h[i - 1], toks[i])
      BY <1>3, <3>1
    <3>4. \/ h[i].out = h[i - 1].out
          \/ h[i].out = Append(h[i - 1].out, toks[i])
      <4>1. \/ Scan(h[i - 1], toks[i]).out = h[i - 1].out
            \/ Scan(h[i - 1], toks[i]).out = Append(h[i - 1].out, toks[i])
        <5>1. \A s \in ScanState(Tok) : \A t \in Tok :
                 Scan(s, t).out = s.out \/ Scan(s, t).out = Append(s.out, t)
          BY ScanCases
        <5>2. h[i - 1] \in ScanState(Tok) /\ toks[i] \in Tok
          BY <3>1, <3>2
        <5> QED BY <5>1, <5>2, Zenon
      <4> QED BY <3>3, <4>1
    <3>5. h[i - 1].out \in Seq(Tok)
      BY <3>2 DEF ScanState
    <3>6. Len(h[i].out) <= i
      BY <3>1, <3>2, <3>4, <3>5
    <3> QED BY <3>1, <3>3, <3>6
  <2>3. \A i \in 0 .. n : h[i] \in Inv[i]
    <3> HIDE DEF Inv
    <3> QED BY <1>0, <2>1, <2>2, AlongTheChain
  <2> QED BY <1>0, <2>3
<1>7. ASSUME ~b, n # 0, toks[1] = Comment PROVE h[n].out = <<>> /\ h[n].in = "code"
  <2> DEFINE Inv == [i \in 0 .. n |-> {s \in ScanState(Tok) : s.out = <<>> /\ s.in = "code" /\ (i # 0 => s.cut)}]
  <2>1. h[0] \in Inv[0]
    BY <1>0, <1>1, <1>3, <1>7 DEF base
  <2>2. ASSUME NEW i \in 1 .. n, h[i - 1] \in Inv[i - 1] PROVE h[i] \in Inv[i]
    <3>1. i \in 0 .. n /\ i - 1 \in 0 .. n /\ i \in Nat /\ toks[i] \in Tok
      BY <1>0
    <3>2. h[i - 1] \in ScanState(Tok) /\ h[i - 1].out = <<>> /\ h[i - 1].in = "code" /\ (i - 1 # 0 => h[i - 1].cut)
      BY <2>2, <3>1
    <3>3. h[i] \in ScanState(Tok) /\ h[i] = Scan(h[i - 1], toks[i])
      BY <1>3, <3>1
    <3>4. h[i - 1].cut \/ toks[i] = Comment
      BY <1>7, <3>1, <3>2
    <3>5. (h[i] = h[i - 1] /\ h[i - 1].cut) \/ h[i] = [h[i - 1] EXCEPT !.cut = TRUE]
      <4>1. CASE h[i - 1].cut
        BY <3>1, <3>2, <3>3, <4>1, ScanCases
      <4>2. CASE ~h[i - 1].cut
        <5>1. Scan(h[i - 1], toks[i]) = [h[i - 1] EXCEPT !.cut = TRUE]
          <6>1. \A s \in ScanState(Tok) : \A t \in Tok :
                  ~s.cut /\ s.in = "code" /\ t = Comment => Scan(s, t) = [s EXCEPT !.cut = TRUE]
            BY ScanCases
          <6>2. /\ h[i - 1] \in ScanState(Tok) /\ toks[i] \in Tok
                /\ ~h[i - 1].cut /\ h[i - 1].in = "code" /\ toks[i] = Comment
            BY <3>1, <3>2, <3>4, <4>2
          <6> QED BY <6>1, <6>2, Zenon
        <5> QED BY <3>3, <5>1
      <4> QED BY <4>1, <4>2
    <3>6. h[i].out = <<>> /\ h[i].in = "code" /\ h[i].cut
      BY <3>2, <3>5 DEF ScanState
    <3> QED BY <3>1, <3>3, <3>6
  <2>3. \A i \in 0 .. n : h[i] \in Inv[i]
    <3> HIDE DEF Inv
    <3> QED BY <1>0, <2>1, <2>2, AlongTheChain
  <2> QED BY <1>0, <2>3
<1>8. ASSUME ~b, n # 0, toks[1] # Comment PROVE h[n].out # <<>>
  <2> DEFINE Inv == [i \in 0 .. n |-> {s \in ScanState(Tok) : i # 0 => s.out # <<>>}]
  <2>1. h[0] \in Inv[0]
    BY <1>0, <1>1, <1>3
  <2>2. ASSUME NEW i \in 1 .. n, h[i - 1] \in Inv[i - 1] PROVE h[i] \in Inv[i]
    <3>1. i \in 0 .. n /\ i - 1 \in 0 .. n /\ i \in Nat /\ toks[i] \in Tok
      BY <1>0
    <3>2. h[i - 1] \in ScanState(Tok) /\ (i - 1 # 0 => h[i - 1].out # <<>>)
      BY <2>2, <3>1
    <3>3. h[i] \in ScanState(Tok) /\ h[i] = Scan(h[i - 1], toks[i])
      BY <1>3, <3>1
    <3>4. h[i - 1].out \in Seq(Tok)
      BY <3>2 DEF ScanState
    <3>5. Append(h[i - 1].out, toks[i]) # <<>>
      BY <3>1, <3>4
    <3>6. CASE i = 1
      <4>1. ~h[0].cut /\ h[0].in = "code"
        BY <1>3, <1>8 DEF base
      <4>2. h[1].out = Append(h[0].out, toks[1])
        BY <1>8, <3>1, <3>2, <3>3, <3>6, <4>1, ScanCases
      <4> QED BY <3>1, <3>3, <3>5, <3>6, <4>2
    <3>7. CASE i # 1
      <4>1. h[i - 1].out # <<>>
        BY <3>1, <3>2, <3>7
      <4>2. h[i].out = h[i - 1].out \/ h[i].out = Append(h[i - 1].out, toks[i])
        BY <3>1, <3>2, <3>3, ScanCases
      <4> QED BY <3>1, <3>3, <3>5, <4>1, <4>2
    <3> QED BY <3>6, <3>7
  <2>3. \A i \in 0 .. n : h[i] \in Inv[i]
    <3> HIDE DEF Inv
    <3> QED BY <1>0, <2>1, <2>2, AlongTheChain
  <2> QED BY <1>0, <1>8, <2>3
<1>9. ASSUME ~b, n = 0 PROVE h[n].out = <<>> /\ h[n].in = "code"
  BY <1>3, <1>9 DEF base
<1>10. /\ scanLine(toks, b).stripped = h[n].out
       /\ scanLine(toks, b).inBlob = (h[n].in = "blob")
  BY <1>4
<1>11. h[n].out \in Seq(Tok)
  BY <1>5 DEF ScanState
<1> QED BY <1>0, <1>6, <1>7, <1>8, <1>9, <1>10, <1>11 DEF ScansTo, n

-----------------------------------------------------------------------------
(* Where the lines begin.                                                  *)
LEMMA BehindType == \A off \in Nat : \A T : \A toks \in Seq(T) : Behind(off, toks) \in Nat
BY DEF Behind

OffsetRun(T, off, texts, h) ==
  /\ h \in [0 .. Len(texts) -> Nat]
  /\ h[0] = off
  /\ \A i \in 1 .. Len(texts) : h[i] = Behind(h[i - 1], texts[i])
  /\ Offset(off, texts) = h[Len(texts)]

LEMMA OffsetRuns ==
  ASSUME NEW T, NEW off \in Nat, NEW texts \in Seq(Seq(T))
  PROVE  \E h : OffsetRun(T, off, texts, h)
<1> DEFINE A == Nat
           n == Len(texts)
           step == [p \in A \X (1 .. n) |-> Behind(p[1], texts[p[2]])]
           Is(it) == it = [s \in SUBSET (1 .. n) |->
                             IF s = {} THEN off ELSE Behind(it[s \ {Max(s)}], texts[Max(s)])]
           F == CHOOSE it : Is(it)
<1>0. /\ n \in Nat /\ DOMAIN texts = 1 .. n
      /\ \A i \in 1 .. n : texts[i] \in Seq(T)
  OBVIOUS
<1>1. Offset(off, texts) = F[1 .. n]
  BY <1>0, Zenon DEF FoldLeft, MapThenFoldSet, Offset
<1> HIDE DEF n
<1>b. off \in A
  BY BehindType
<1>t. \A a \in A : \A x \in Seq(T) : Behind(a, x) \in A
  BY BehindType
<1> HIDE DEF A
<1>2. step \in [A \X (1 .. n) -> A]
  <2>1. \A p \in A \X (1 .. n) : p[1] \in A /\ texts[p[2]] \in Seq(T)
    BY <1>0
  <2>2. \A p \in A \X (1 .. n) : Behind(p[1], texts[p[2]]) \in A
    BY <2>1, <1>t, Zenon
  <2> QED BY <2>2
<1>3. PICK g : Folds(n, A, off, step, g)
  <2> HIDE DEF step
  <2> QED BY <1>0, <1>b, <1>2, FoldExists
<1>4. Is(g)
  <2>1. ASSUME NEW s \in SUBSET (1 .. n)
        PROVE  g[s] = IF s = {} THEN off ELSE Behind(g[s \ {Max(s)}], texts[Max(s)])
    <3>1. CASE s = {}
      BY <1>3, <3>1 DEF Folds
    <3>2. CASE s # {}
      <4>1. Max(s) \in 1 .. n /\ s \ {Max(s)} \in SUBSET (1 .. n)
        BY <1>0, <3>2, MaxOf
      <4>2. <<g[s \ {Max(s)}], Max(s)>> \in A \X (1 .. n)
        BY <1>3, <4>1 DEF Folds
      <4>3. step[<<g[s \ {Max(s)}], Max(s)>>] = Behind(g[s \ {Max(s)}], texts[Max(s)])
        BY <4>2
      <4>4. g[s] = step[<<g[s \ {Max(s)}], Max(s)>>]
        BY <1>3, <3>2 DEF Folds
      <4> QED BY <3>2, <4>3, <4>4
    <3> QED BY <3>1, <3>2
  <2>2. DOMAIN g = SUBSET (1 .. n) /\ g = [s \in SUBSET (1 .. n) |-> g[s]]
    BY <1>3 DEF Folds
  <2> QED BY <2>1, <2>2, Zenon
<1>5. Is(F)
  <2> HIDE DEF Is
  <2> QED BY <1>4
<1> HIDE DEF F
<1> DEFINE h == [i \in 0 .. n |-> F[1 .. i]]
<1>6. h[0] = off
  <2>1. 1 .. 0 = {} /\ {} \in SUBSET (1 .. n) /\ 0 \in 0 .. n
    BY <1>0
  <2> QED BY <1>5, <2>1
<1>7. ASSUME NEW i \in 1 .. n PROVE h[i] = Behind(h[i - 1], texts[i])
  <2>1. i \in 0 .. n /\ i - 1 \in 0 .. n
    BY <1>0
  <2>2. h[i] = F[1 .. i] /\ h[i - 1] = F[1 .. (i - 1)]
    BY <2>1
  <2>3. /\ 1 .. i \in SUBSET (1 .. n) /\ 1 .. i # {}
        /\ Max(1 .. i) = i /\ (1 .. i) \ {i} = 1 .. (i - 1)
    BY <1>0, PrefixRange
  <2> HIDE DEF h
  <2>4. F[1 .. i] = Behind(F[1 .. (i - 1)], texts[i])
    BY <1>5, <2>3
  <2> QED BY <2>2, <2>4
<1>8. h \in [0 .. n -> A]
  <2> DEFINE Inv == [i \in 0 .. n |-> A]
  <2>1. h[0] \in Inv[0]
    BY <1>0, <1>6, <1>b
  <2>2. ASSUME NEW i \in 1 .. n, h[i - 1] \in Inv[i - 1] PROVE h[i] \in Inv[i]
    <3>1. i \in 0 .. n /\ i - 1 \in 0 .. n /\ texts[i] \in Seq(T)
      BY <1>0
    <3>2. h[i - 1] \in A
      BY <2>2, <3>1
    <3>3. Behind(h[i - 1], texts[i]) \in A
      BY <3>1, <3>2, <1>t, Zenon
    <3> QED BY <1>7, <3>1, <3>3
  <2> HIDE DEF h
  <2>3. \A i \in 0 .. n : h[i] \in Inv[i]
    <3> HIDE DEF Inv
    <3> QED BY <1>0, <2>1, <2>2, AlongTheChain
  <2> USE DEF h
  <2> QED BY <2>3
<1>9. n \in 0 .. n /\ h[n] = F[1 .. n]
  BY <1>0
<1> HIDE DEF h
<1> QED BY <1>0, <1>1, <1>6, <1>7, <1>8, <1>9 DEF OffsetRun, n, A

-----------------------------------------------------------------------------
Lines(Tok, Nd) == [toks : Seq(Tok), node : Seq(Nd)]
Infos(Tok, Nd) == [stripped : Seq(Tok), node : Seq(Nd), isAnchor : BOOLEAN, offset : Nat]
ClassifyState(Tok, Nd) == [infos : Seq(Infos(Tok, Nd)), inBlob : BOOLEAN, offset : Nat]
Unclassified == [infos |-> <<>>, inBlob |-> FALSE, offset |-> 0]

LEMMA ClassifyType ==
  ASSUME NEW Tok, NEW Nd
  PROVE  /\ Unclassified \in ClassifyState(Tok, Nd)
         /\ \A s \in ClassifyState(Tok, Nd) : \A line \in Lines(Tok, Nd) :
              ClassifyLine(s, line) \in ClassifyState(Tok, Nd)
<1>1. Unclassified \in ClassifyState(Tok, Nd)
  BY DEF Unclassified, ClassifyState
<1>2. ASSUME NEW s \in ClassifyState(Tok, Nd), NEW line \in Lines(Tok, Nd)
      PROVE  ClassifyLine(s, line) \in ClassifyState(Tok, Nd)
  <2>1. /\ s.infos \in Seq(Infos(Tok, Nd)) /\ s.inBlob \in BOOLEAN /\ s.offset \in Nat
        /\ line.toks \in Seq(Tok) /\ line.node \in Seq(Nd)
    BY DEF ClassifyState, Lines
  <2> DEFINE scanned == scanLine(line.toks, s.inBlob)
             info == [stripped |-> scanned.stripped, node |-> line.node,
                      isAnchor |-> Anchors(s.inBlob, scanned), offset |-> s.offset]
  <2>2. scanned.stripped \in Seq(Tok) /\ scanned.inBlob \in BOOLEAN
    BY <2>1, ScanLineIs DEF ScansTo
  <2>3. Anchors(s.inBlob, scanned) \in BOOLEAN
    BY DEF Anchors
  <2>4. s.offset + Len(line.toks) + 1 \in Nat
    BY <2>1
  <2>5. ClassifyLine(s, line) = [infos |-> Append(s.infos, info), inBlob |-> scanned.inBlob,
                                 offset |-> s.offset + Len(line.toks) + 1]
    BY DEF ClassifyLine
  <2> HIDE DEF scanned
  <2>6. info \in Infos(Tok, Nd)
    BY <2>1, <2>2, <2>3 DEF Infos
  <2> HIDE DEF info
  <2>7. Append(s.infos, info) \in Seq(Infos(Tok, Nd))
    BY <2>1, <2>6
  <2> QED BY <2>2, <2>4, <2>5, <2>7 DEF ClassifyState
<1> QED BY <1>1, <1>2

ClassifyRun(Tok, Nd, lines, h) ==
  /\ h \in [0 .. Len(lines) -> ClassifyState(Tok, Nd)]
  /\ h[0] = Unclassified
  /\ \A i \in 1 .. Len(lines) : h[i] = ClassifyLine(h[i - 1], lines[i])
  /\ FoldLeft(ClassifyLine, Unclassified, lines) = h[Len(lines)]

LEMMA ClassifyRuns ==
  ASSUME NEW Tok, NEW Nd, NEW lines \in Seq(Lines(Tok, Nd))
  PROVE  \E h : ClassifyRun(Tok, Nd, lines, h)
<1> DEFINE A == ClassifyState(Tok, Nd)
           n == Len(lines)
           step == [p \in A \X (1 .. n) |-> ClassifyLine(p[1], lines[p[2]])]
           Is(it) == it = [s \in SUBSET (1 .. n) |->
                             IF s = {} THEN Unclassified ELSE ClassifyLine(it[s \ {Max(s)}], lines[Max(s)])]
           F == CHOOSE it : Is(it)
<1>0. /\ n \in Nat /\ DOMAIN lines = 1 .. n
      /\ \A i \in 1 .. n : lines[i] \in Lines(Tok, Nd)
  OBVIOUS
<1>1. FoldLeft(ClassifyLine, Unclassified, lines) = F[1 .. n]
  BY <1>0, Zenon DEF FoldLeft, MapThenFoldSet
<1> HIDE DEF n
<1>b. Unclassified \in A
  BY ClassifyType
<1>t. \A a \in A : \A x \in Lines(Tok, Nd) : ClassifyLine(a, x) \in A
  BY ClassifyType
<1> HIDE DEF A
<1>2. step \in [A \X (1 .. n) -> A]
  <2>1. \A p \in A \X (1 .. n) : p[1] \in A /\ lines[p[2]] \in Lines(Tok, Nd)
    BY <1>0
  <2>2. \A p \in A \X (1 .. n) : ClassifyLine(p[1], lines[p[2]]) \in A
    BY <2>1, <1>t, Zenon
  <2> QED BY <2>2
<1>3. PICK g : Folds(n, A, Unclassified, step, g)
  <2> HIDE DEF step
  <2> QED BY <1>0, <1>b, <1>2, FoldExists
<1>4. Is(g)
  <2>1. ASSUME NEW s \in SUBSET (1 .. n)
        PROVE  g[s] = IF s = {} THEN Unclassified ELSE ClassifyLine(g[s \ {Max(s)}], lines[Max(s)])
    <3>1. CASE s = {}
      BY <1>3, <3>1 DEF Folds
    <3>2. CASE s # {}
      <4>1. Max(s) \in 1 .. n /\ s \ {Max(s)} \in SUBSET (1 .. n)
        BY <1>0, <3>2, MaxOf
      <4>2. <<g[s \ {Max(s)}], Max(s)>> \in A \X (1 .. n)
        BY <1>3, <4>1 DEF Folds
      <4>3. step[<<g[s \ {Max(s)}], Max(s)>>] = ClassifyLine(g[s \ {Max(s)}], lines[Max(s)])
        BY <4>2
      <4>4. g[s] = step[<<g[s \ {Max(s)}], Max(s)>>]
        BY <1>3, <3>2 DEF Folds
      <4> QED BY <3>2, <4>3, <4>4
    <3> QED BY <3>1, <3>2
  <2>2. DOMAIN g = SUBSET (1 .. n) /\ g = [s \in SUBSET (1 .. n) |-> g[s]]
    BY <1>3 DEF Folds
  <2> QED BY <2>1, <2>2, Zenon
<1>5. Is(F)
  <2> HIDE DEF Is
  <2> QED BY <1>4
<1> HIDE DEF F
<1> DEFINE h == [i \in 0 .. n |-> F[1 .. i]]
<1>6. h[0] = Unclassified
  <2>1. 1 .. 0 = {} /\ {} \in SUBSET (1 .. n) /\ 0 \in 0 .. n
    BY <1>0
  <2> QED BY <1>5, <2>1
<1>7. ASSUME NEW i \in 1 .. n PROVE h[i] = ClassifyLine(h[i - 1], lines[i])
  <2>1. i \in 0 .. n /\ i - 1 \in 0 .. n
    BY <1>0
  <2>2. h[i] = F[1 .. i] /\ h[i - 1] = F[1 .. (i - 1)]
    BY <2>1
  <2>3. /\ 1 .. i \in SUBSET (1 .. n) /\ 1 .. i # {}
        /\ Max(1 .. i) = i /\ (1 .. i) \ {i} = 1 .. (i - 1)
    BY <1>0, PrefixRange
  <2> HIDE DEF h
  <2>4. F[1 .. i] = ClassifyLine(F[1 .. (i - 1)], lines[i])
    BY <1>5, <2>3
  <2> QED BY <2>2, <2>4
<1>8. h \in [0 .. n -> A]
  <2> DEFINE Inv == [i \in 0 .. n |-> A]
  <2>1. h[0] \in Inv[0]
    BY <1>0, <1>6, <1>b
  <2>2. ASSUME NEW i \in 1 .. n, h[i - 1] \in Inv[i - 1] PROVE h[i] \in Inv[i]
    <3>1. i \in 0 .. n /\ i - 1 \in 0 .. n /\ lines[i] \in Lines(Tok, Nd)
      BY <1>0
    <3>2. h[i - 1] \in A
      BY <2>2, <3>1
    <3>3. ClassifyLine(h[i - 1], lines[i]) \in A
      BY <3>1, <3>2, <1>t, Zenon
    <3> QED BY <1>7, <3>1, <3>3
  <2> HIDE DEF h
  <2>3. \A i \in 0 .. n : h[i] \in Inv[i]
    <3> HIDE DEF Inv
    <3> QED BY <1>0, <2>1, <2>2, AlongTheChain
  <2> USE DEF h
  <2> QED BY <2>3
<1>9. n \in 0 .. n /\ h[n] = F[1 .. n]
  BY <1>0
<1> HIDE DEF h
<1> QED BY <1>0, <1>1, <1>6, <1>7, <1>8, <1>9 DEF ClassifyRun, n, A

-----------------------------------------------------------------------------
(* Where the blocks of a source are cut.                                   *)
LEMMA JoinOne ==
  ASSUME NEW T, NEW s \in Seq(T), NEW x \in T
  PROVE  /\ s \o <<x>> \in Seq(T) /\ Len(s \o <<x>>) = Len(s) + 1 /\ Len(s) \in Nat
         /\ \A k \in 1 .. Len(s) : (s \o <<x>>)[k] = s[k] /\ s[k] \in T
         /\ (s \o <<x>>)[Len(s) + 1] = x
OBVIOUS

(* The numbers of a set, in ascending order.                               *)
Ascends(s) == \A i, j \in 1 .. Len(s) : i < j => s[i] < s[j]

LEMMA KeptAscends ==
  ASSUME NEW n \in Nat, NEW S
  PROVE  /\ Kept([i \in 1 .. n |-> i], S) \in Seq(1 .. n)
         /\ Range(Kept([i \in 1 .. n |-> i], S)) = (1 .. n) \cap S
         /\ Ascends(Kept([i \in 1 .. n |-> i], S))
<1> DEFINE seq == [i \in 1 .. n |-> i]
           parts == [i \in DOMAIN seq |-> IF seq[i] \in S THEN <<seq[i]>> ELSE <<>>]
<1>1. /\ seq \in Seq(1 .. n) /\ Len(seq) = n
      /\ Range(seq) = 1 .. n
  BY DEF Range
<1>2. Kept(seq, S) \in Seq(1 .. n) /\ Range(Kept(seq, S)) = (1 .. n) \cap S
  <2> HIDE DEF seq
  <2> QED BY <1>1, KeptIs
<1>3. Kept(seq, S) = FlattenSeq(parts)
  BY DEF Kept, Flat, Each
<1>4. \A i \in 1 .. n : parts[i] = (IF i \in S THEN <<i>> ELSE <<>>)
  OBVIOUS
<1>5. parts \in Seq(Seq(1 .. n)) /\ Len(parts) = n
  <2>1. \A i \in 1 .. n : (IF i \in S THEN <<i>> ELSE <<>>) \in Seq(1 .. n)
    <3> DEFINE T == 1 .. n
    <3>1. \A i \in T : <<i>> \in Seq(T) /\ <<>> \in Seq(T)
      <4> HIDE DEF T
      <4> QED OBVIOUS
    <3> QED BY <3>1
  <2>2. DOMAIN parts = 1 .. n
    BY <1>1
  <2>3. parts \in [1 .. n -> Seq(1 .. n)]
    <3>1. \A i \in 1 .. n : parts[i] \in Seq(1 .. n)
      BY <2>1, <1>4
    <3> QED BY <2>2, <3>1
  <2> HIDE DEF parts
  <2> QED BY <2>3
<1> HIDE DEF parts, seq
<1>6. PICK f \in [0 .. n -> Seq(1 .. n)] :
         /\ f[0] = <<>>
         /\ \A i \in 1 .. n : f[i] = f[i - 1] \o parts[i]
         /\ FlattenSeq(parts) = f[n]
  BY <1>5, Flattened
<1> DEFINE Inv == [i \in 0 .. n |-> {s \in Seq(1 .. n) : Ascends(s) /\ \A k \in 1 .. Len(s) : s[k] <= i}]
<1>7. f[0] \in Inv[0]
  <2>1. 0 \in 0 .. n /\ <<>> \in Seq(1 .. n) /\ Len(<<>>) = 0 /\ 1 .. 0 = {}
    OBVIOUS
  <2>2. Ascends(<<>>)
    BY <2>1 DEF Ascends
  <2> QED BY <1>6, <2>1, <2>2
<1>8. ASSUME NEW i \in 1 .. n, f[i - 1] \in Inv[i - 1] PROVE f[i] \in Inv[i]
  <2>1. i \in 0 .. n /\ i - 1 \in 0 .. n /\ i \in Nat
    OBVIOUS
  <2>2. f[i - 1] \in Seq(1 .. n) /\ Ascends(f[i - 1]) /\ \A k \in 1 .. Len(f[i - 1]) : f[i - 1][k] <= i - 1
    BY <1>8, <2>1
  <2>3. f[i] = f[i - 1] \o parts[i] /\ f[i] \in Seq(1 .. n)
    BY <1>6, <2>1
  <2> DEFINE s == f[i - 1]
  <2>4. CASE i \in S
    <3>1. f[i] = s \o <<i>>
      BY <1>4, <2>3, <2>4
    <3>2. s \in Seq(1 .. n) /\ Ascends(s) /\ \A k \in 1 .. Len(s) : s[k] <= i - 1
      BY <2>2
    <3> HIDE DEF s
    <3>3. /\ Len(f[i]) = Len(s) + 1 /\ Len(s) \in Nat
          /\ \A k \in 1 .. Len(s) : f[i][k] = s[k] /\ s[k] \in 1 .. n
          /\ f[i][Len(s) + 1] = i
      <4> DEFINE T == 1 .. n
      <4>1. s \in Seq(T) /\ i \in T
        BY <3>2
      <4> HIDE DEF T
      <4>2. /\ Len(s \o <<i>>) = Len(s) + 1 /\ Len(s) \in Nat
            /\ \A k \in 1 .. Len(s) : (s \o <<i>>)[k] = s[k] /\ s[k] \in T
            /\ (s \o <<i>>)[Len(s) + 1] = i
        BY <4>1, JoinOne
      <4> QED BY <3>1, <4>2 DEF T
    <3>4. ASSUME NEW k \in 1 .. (Len(s) + 1) PROVE f[i][k] \in 1 .. n /\ f[i][k] <= i
      <4>1. CASE k \in 1 .. Len(s)
        <5>1. f[i][k] = s[k] /\ s[k] \in 1 .. n /\ s[k] <= i - 1
          BY <3>2, <3>3, <4>1
        <5> QED BY <2>1, <5>1
      <4>2. CASE k \notin 1 .. Len(s)
        <5>1. k = Len(s) + 1
          BY <3>3, <4>2
        <5> QED BY <2>1, <3>3, <5>1
      <4> QED BY <4>1, <4>2
    <3>5. ASSUME NEW j \in 1 .. Len(f[i]), NEW k \in 1 .. Len(f[i]), j < k PROVE f[i][j] < f[i][k]
      <4>1. j \in 1 .. Len(s)
        BY <3>3, <3>5
      <4>2. CASE k \in 1 .. Len(s)
        BY <3>2, <3>3, <3>5, <4>1, <4>2 DEF Ascends
      <4>3. CASE k \notin 1 .. Len(s)
        <5>1. k = Len(s) + 1
          BY <3>3, <4>3
        <5>2. f[i][j] = s[j] /\ s[j] \in 1 .. n /\ s[j] <= i - 1 /\ f[i][k] = i
          BY <3>2, <3>3, <4>1, <5>1
        <5> QED BY <2>1, <5>2
      <4> QED BY <4>2, <4>3
    <3>6. Ascends(f[i])
      BY <3>5 DEF Ascends
    <3> QED BY <2>1, <2>3, <3>3, <3>4, <3>6
  <2>5. CASE i \notin S
    <3>1. f[i] = f[i - 1]
      <4>1. f[i] = f[i - 1] \o <<>>
        BY <1>4, <2>3, <2>5
      <4> QED BY <2>2, <4>1, Joined
    <3>2. \A k \in 1 .. Len(f[i]) : f[i][k] \in 1 .. n /\ f[i][k] <= i
      BY <2>1, <2>2, <3>1
    <3> QED BY <2>1, <2>2, <3>1, <3>2
  <2> QED BY <2>4, <2>5
<1>9. \A i \in 0 .. n : f[i] \in Inv[i]
  <2> HIDE DEF Inv
  <2> QED BY <1>7, <1>8, AlongTheChain
<1>10. Ascends(f[n])
  BY <1>9
<1> QED BY <1>2, <1>3, <1>6, <1>10 DEF seq

-----------------------------------------------------------------------------
Blocks(Tok, Nd) == [text : Seq(Seq(Tok)), offset : Nat, node : Seq(Nd), line : Nat]

(* How the splitter cuts: a block for every anchor, down to its last line  *)
(* that is not blank before the next anchor.                               *)
Ends(infos, anchors, a) == IF a < Len(anchors) THEN anchors[a + 1] - 1 ELSE Len(infos)

BlockOf(infos, first, last) ==
  [text |-> [i \in 1 .. (last - first + 1) |-> infos[first + i - 1].stripped],
   offset |-> infos[first].offset, node |-> infos[first].node, line |-> first]

Cuts(infos, blocks, anchors, lasts) ==
  /\ anchors \in Seq(1 .. Len(infos)) /\ Ascends(anchors)
  /\ Range(anchors) = {i \in 1 .. Len(infos) : infos[i].isAnchor}
  /\ DOMAIN blocks = 1 .. Len(anchors)
  /\ \A a \in 1 .. Len(anchors) :
       /\ Ends(infos, anchors, a) \in anchors[a] .. Len(infos)
       /\ lasts[a] \in anchors[a] .. Ends(infos, anchors, a)
       /\ \A i \in anchors[a] .. Ends(infos, anchors, a) : infos[i].stripped # <<>> => i <= lasts[a]
       /\ blocks[a] = BlockOf(infos, anchors[a], lasts[a])

LEMMA BlocksAreCut ==
  ASSUME NEW Tok, NEW Nd, NEW infos \in Seq(Infos(Tok, Nd))
  PROVE  /\ \E anchors, lasts : Cuts(infos, toBlocks(infos), anchors, lasts)
         /\ toBlocks(infos) \in Seq(Blocks(Tok, Nd))
<1> DEFINE n == Len(infos)
           anchors == Kept([i \in DOMAIN infos |-> i], {i \in DOMAIN infos : infos[i].isAnchor})
           m == Len(anchors)
           end(a) == Ends(infos, anchors, a)
           lasts == [a \in 1 .. m |-> Max({anchors[a]} \cup {i \in anchors[a] .. end(a) : infos[i].stripped # <<>>})]
           blocks == toBlocks(infos)
<1>1. n \in Nat /\ DOMAIN infos = 1 .. n /\ \A i \in 1 .. n : infos[i] \in Infos(Tok, Nd)
  OBVIOUS
<1>2. /\ anchors \in Seq(1 .. n) /\ Ascends(anchors)
      /\ Range(anchors) = {i \in 1 .. n : infos[i].isAnchor}
  <2>1. anchors = Kept([i \in 1 .. n |-> i], {i \in 1 .. n : infos[i].isAnchor})
    BY <1>1
  <2>2. (1 .. n) \cap {i \in 1 .. n : infos[i].isAnchor} = {i \in 1 .. n : infos[i].isAnchor}
    OBVIOUS
  <2> HIDE DEF anchors, n
  <2> QED BY <1>1, <2>1, <2>2, KeptAscends
<1>3. m \in Nat /\ DOMAIN anchors = 1 .. m /\ \A a \in 1 .. m : anchors[a] \in 1 .. n
  <2> DEFINE T == 1 .. n
  <2>1. anchors \in Seq(T)
    BY <1>2
  <2> HIDE DEF anchors, n, T
  <2>2. m \in Nat /\ DOMAIN anchors = 1 .. m /\ \A a \in 1 .. m : anchors[a] \in T
    BY <2>1
  <2> QED BY <2>2 DEF T
<1>4. DOMAIN blocks = 1 .. m /\ \A a \in 1 .. m : blocks[a] = BlockOf(infos, anchors[a], lasts[a])
  <2>1. blocks = [a \in DOMAIN anchors |-> BlockOf(infos, anchors[a],
            Max({anchors[a]} \cup {i \in anchors[a] .. end(a) : infos[i].stripped # <<>>}))]
    BY Zenon DEF toBlocks, BlockOf, Ends
  <2> HIDE DEF anchors, blocks
  <2> QED BY <1>3, <2>1
<1> HIDE DEF anchors, m, n
<1>5. ASSUME NEW a \in 1 .. m
      PROVE  /\ end(a) \in anchors[a] .. n
             /\ lasts[a] \in anchors[a] .. end(a)
             /\ \A i \in anchors[a] .. end(a) : infos[i].stripped # <<>> => i <= lasts[a]
  <2> DEFINE T == {anchors[a]} \cup {i \in anchors[a] .. end(a) : infos[i].stripped # <<>>}
  <2>1. end(a) \in anchors[a] .. n
    <3>1. CASE a < m
      <4>1. a + 1 \in 1 .. m
        BY <1>3, <3>1
      <4>2. anchors[a] \in 1 .. n /\ anchors[a + 1] \in 1 .. n /\ anchors[a] < anchors[a + 1]
        BY <1>2, <1>3, <3>1, <4>1 DEF Ascends, m
      <4>3. end(a) = anchors[a + 1] - 1
        BY <3>1 DEF Ends, m
      <4> QED BY <1>1, <4>2, <4>3
    <3>2. CASE ~(a < m)
      <4>1. end(a) = n
        BY <3>2 DEF Ends, m, n
      <4> QED BY <1>1, <1>3, <4>1
    <3> QED BY <3>1, <3>2
  <2> HIDE DEF end
  <2>2. anchors[a] \in 1 .. n
    BY <1>3
  <2>3. T \in SUBSET (1 .. n) /\ T # {} /\ T \subseteq anchors[a] .. end(a)
    BY <1>1, <2>1, <2>2
  <2>4. lasts[a] = Max(T)
    BY <1>3
  <2> HIDE DEF T, lasts
  <2>5. Max(T) \in T /\ \A i \in T : i <= Max(T)
    BY <1>1, <2>3, MaxOf
  <2> QED BY <2>1, <2>3, <2>4, <2>5 DEF T
<1>6. Cuts(infos, blocks, anchors, lasts)
  <2> HIDE DEF blocks, lasts
  <2> QED BY <1>2, <1>3, <1>4, <1>5, Zenon DEF Cuts, m, n, end
<1>7. ASSUME NEW a \in 1 .. m PROVE blocks[a] \in Blocks(Tok, Nd)
  <2> DEFINE first == anchors[a]
             last == lasts[a]
             text == [i \in 1 .. (last - first + 1) |-> infos[first + i - 1].stripped]
  <2>1. first \in 1 .. n /\ last \in first .. n
    <3> HIDE DEF lasts
    <3> QED BY <1>1, <1>3, <1>5
  <2> HIDE DEF first, last
  <2>2. infos[first].offset \in Nat /\ infos[first].node \in Seq(Nd)
    BY <1>1, <2>1 DEF Infos
  <2>3. text \in Seq(Seq(Tok))
    <3>1. \A i \in 1 .. (last - first + 1) : first + i - 1 \in 1 .. n
      BY <1>1, <2>1
    <3>2. \A i \in 1 .. (last - first + 1) : infos[first + i - 1].stripped \in Seq(Tok)
      BY <1>1, <3>1 DEF Infos
    <3>3. last - first + 1 \in Nat
      BY <1>1, <2>1
    <3> QED BY <3>2, <3>3
  <2> HIDE DEF text
  <2>4. blocks[a] = [text |-> text, offset |-> infos[first].offset, node |-> infos[first].node, line |-> first]
    BY <1>4, Zenon DEF BlockOf, text, first, last
  <2> HIDE DEF blocks
  <2> QED BY <1>1, <2>1, <2>2, <2>3, <2>4 DEF Blocks
<1>8. blocks \in Seq(Blocks(Tok, Nd))
  <2>1. blocks = [a \in 1 .. m |-> blocks[a]]
    BY <1>4 DEF toBlocks, m
  <2> HIDE DEF blocks
  <2> QED BY <1>3, <1>4, <1>7, <2>1
<1> HIDE DEF blocks, lasts
<1> QED BY <1>6, <1>8 DEF blocks

-----------------------------------------------------------------------------
(* The line numbers the classification works with.                         *)
(* The beginnings of the lines of a text are a chain, whatever part of it  *)
(* they are computed from.                                                 *)
Measures(off, texts, h) ==
  /\ h \in [0 .. Len(texts) -> Nat]
  /\ h[0] = off
  /\ \A i \in 1 .. Len(texts) : h[i] = h[i - 1] + Len(texts[i]) + 1
  /\ \A j \in 0 .. Len(texts) : Offset(off, [k \in 1 .. j |-> texts[k]]) = h[j]

LEMMA OffsetsOfPrefixes ==
  ASSUME NEW T, NEW off \in Nat, NEW texts \in Seq(Seq(T))
  PROVE  \E h : Measures(off, texts, h)
<1> DEFINE n == Len(texts)
<1>0. n \in Nat /\ \A i \in 1 .. n : texts[i] \in Seq(T)
  OBVIOUS
<1>1. PICK h : OffsetRun(T, off, texts, h)
  BY OffsetRuns
<1>2. /\ h \in [0 .. n -> Nat] /\ h[0] = off
      /\ \A i \in 1 .. n : h[i] = h[i - 1] + Len(texts[i]) + 1
  BY <1>1 DEF OffsetRun, Behind
<1> HIDE DEF n
<1>3. ASSUME NEW j \in 0 .. n PROVE Offset(off, [k \in 1 .. j |-> texts[k]]) = h[j]
  <2> DEFINE p == [k \in 1 .. j |-> texts[k]]
  <2>1. j \in Nat /\ \A k \in 1 .. j : k \in 1 .. n
    BY <1>0
  <2>2. p \in Seq(Seq(T)) /\ Len(p) = j /\ \A k \in 1 .. j : p[k] = texts[k]
    BY <1>0, <2>1
  <2> HIDE DEF p
  <2>3. PICK g : OffsetRun(T, off, p, g)
    BY <2>2, OffsetRuns
  <2>4. /\ g \in [0 .. j -> Nat] /\ g[0] = off
        /\ \A i \in 1 .. j : g[i] = g[i - 1] + Len(p[i]) + 1
        /\ Offset(off, p) = g[j]
    BY <2>2, <2>3 DEF OffsetRun, Behind
  <2> DEFINE Inv == [i \in 0 .. j |-> {h[i]}]
  <2>5. g[0] \in Inv[0]
    BY <1>2, <2>1, <2>4
  <2>6. ASSUME NEW i \in 1 .. j, g[i - 1] \in Inv[i - 1] PROVE g[i] \in Inv[i]
    <3>1. i \in 0 .. j /\ i - 1 \in 0 .. j /\ i \in 1 .. n
      BY <2>1
    <3>2. g[i - 1] = h[i - 1]
      BY <2>6, <3>1
    <3>3. g[i] = h[i]
      BY <1>2, <2>2, <2>4, <3>1, <3>2
    <3> QED BY <3>1, <3>3
  <2>7. \A i \in 0 .. j : g[i] \in Inv[i]
    <3> HIDE DEF Inv
    <3> QED BY <2>1, <2>5, <2>6, AlongTheChain
  <2>8. j \in 0 .. j
    BY <2>1
  <2>9. g[j] = h[j]
    BY <2>7, <2>8
  <2> QED BY <2>4, <2>9 DEF p
<1> QED BY <1>2, <1>3 DEF n, Measures

LEMMA LinesAre ==
  ASSUME NEW Tok, NEW Nd, NEW lines \in Seq(Lines(Tok, Nd))
  PROVE  /\ Len(lines) \in Nat /\ DOMAIN lines = 1 .. Len(lines)
         /\ \A i \in 1 .. Len(lines) : lines[i].toks \in Seq(Tok) /\ lines[i].node \in Seq(Nd)
<1>1. Len(lines) \in Nat /\ DOMAIN lines = 1 .. Len(lines) /\ \A i \in 1 .. Len(lines) : lines[i] \in Lines(Tok, Nd)
  OBVIOUS
<1>2. \A line \in Lines(Tok, Nd) : line.toks \in Seq(Tok) /\ line.node \in Seq(Nd)
  BY DEF Lines
<1> QED BY <1>1, <1>2

LEMMA Starts ==
  ASSUME NEW Tok, NEW Nd, NEW lines \in Seq(Lines(Tok, Nd))
  PROVE  /\ Start(lines, 1) = 0
         /\ \A i \in 1 .. (Len(lines) + 1) : Start(lines, i) \in Nat
         /\ \A i \in 1 .. Len(lines) : Start(lines, i + 1) = Start(lines, i) + Len(lines[i].toks) + 1
<1> DEFINE n == Len(lines)
           texts == [k \in 1 .. n |-> lines[k].toks]
<1>1. n \in Nat /\ \A i \in 1 .. n : lines[i].toks \in Seq(Tok)
  BY LinesAre
<1> HIDE DEF n
<1>2. texts \in Seq(Seq(Tok)) /\ Len(texts) = n
  BY <1>1
<1>3. PICK h \in [0 .. n -> Nat] :
           /\ h[0] = 0
           /\ \A i \in 1 .. n : h[i] = h[i - 1] + Len(texts[i]) + 1
           /\ \A j \in 0 .. n : Offset(0, [k \in 1 .. j |-> texts[k]]) = h[j]
  <2> HIDE DEF texts
  <2>1. PICK h : Measures(0, texts, h)
    BY <1>2, OffsetsOfPrefixes
  <2> QED BY <1>2, <2>1 DEF Measures
<1>4. ASSUME NEW i \in 1 .. (n + 1) PROVE Start(lines, i) = h[i - 1]
  <2>1. i - 1 \in 0 .. n /\ \A k \in 1 .. (i - 1) : k \in 1 .. n
    BY <1>1
  <2>2. [k \in 1 .. (i - 1) |-> lines[k].toks] = [k \in 1 .. (i - 1) |-> texts[k]]
    BY <2>1
  <2> QED BY <1>3, <2>1, <2>2 DEF Start
<1> HIDE DEF texts
<1>5. Start(lines, 1) = 0
  <2>1. 1 \in 1 .. (n + 1) /\ 1 - 1 = 0
    BY <1>1
  <2> QED BY <1>3, <1>4, <2>1
<1>6. ASSUME NEW i \in 1 .. (n + 1) PROVE Start(lines, i) \in Nat
  <2>1. i - 1 \in 0 .. n
    BY <1>1
  <2> QED BY <1>3, <1>4, <2>1
<1>7. ASSUME NEW i \in 1 .. n PROVE Start(lines, i + 1) = Start(lines, i) + Len(lines[i].toks) + 1
  <2>1. i \in 1 .. (n + 1) /\ i + 1 \in 1 .. (n + 1) /\ (i + 1) - 1 = i
    BY <1>1
  <2>2. Start(lines, i + 1) = h[i] /\ Start(lines, i) = h[i - 1]
    BY <1>4, <2>1
  <2>3. texts[i] = lines[i].toks
    BY DEF texts
  <2> QED BY <1>3, <2>2, <2>3
<1> QED BY <1>5, <1>6, <1>7 DEF n

(* Later lines begin later.                                                *)
LEMMA StartsAscend ==
  ASSUME NEW Tok, NEW Nd, NEW lines \in Seq(Lines(Tok, Nd)),
         NEW i \in 1 .. (Len(lines) + 1), NEW j \in 1 .. (Len(lines) + 1), i < j
  PROVE  Start(lines, i) + Len(lines[i].toks) < Start(lines, j)
<1> DEFINE n == Len(lines)
           Good == {k \in Nat : i + 1 + k <= n + 1 =>
                      Start(lines, i) + Len(lines[i].toks) < Start(lines, i + 1 + k)}
<1>0. /\ n \in Nat /\ i \in 1 .. n
      /\ \A k \in 1 .. n : Len(lines[k].toks) \in Nat
      /\ \A k \in 1 .. (n + 1) : Start(lines, k) \in Nat
      /\ \A k \in 1 .. n : Start(lines, k + 1) = Start(lines, k) + Len(lines[k].toks) + 1
  <2>1. n \in Nat /\ \A k \in 1 .. n : lines[k].toks \in Seq(Tok)
    BY LinesAre
  <2>2. i \in 1 .. n
    BY <2>1
  <2> QED BY <2>1, <2>2, Starts
<1> HIDE DEF n
<1>1. 0 \in Good
  <2>1. i + 1 + 0 = i + 1 /\ i \in 1 .. (n + 1)
    BY <1>0
  <2>2. Start(lines, i + 1) = Start(lines, i) + Len(lines[i].toks) + 1 /\ Start(lines, i) \in Nat /\ Len(lines[i].toks) \in Nat
    BY <1>0, <2>1
  <2>3. Start(lines, i) + Len(lines[i].toks) < Start(lines, i + 1)
    BY <2>2
  <2> QED BY <2>1, <2>3
<1>2. ASSUME NEW k \in Good PROVE k + 1 \in Good
  <2>1. k \in Nat /\ k + 1 \in Nat
    OBVIOUS
  <2> SUFFICES ASSUME i + 1 + (k + 1) <= n + 1
               PROVE  Start(lines, i) + Len(lines[i].toks) < Start(lines, i + 1 + (k + 1))
    BY <2>1
  <2> DEFINE m == i + 1 + k
  <2>2. m \in 1 .. n /\ i + 1 + (k + 1) = m + 1 /\ m <= n + 1 /\ i \in 1 .. (n + 1) /\ m \in 1 .. (n + 1)
    BY <1>0, <2>1
  <2>3. Start(lines, i) + Len(lines[i].toks) < Start(lines, m)
    BY <2>2
  <2> HIDE DEF m, Good
  <2>4. /\ Start(lines, m + 1) = Start(lines, m) + Len(lines[m].toks) + 1
        /\ Start(lines, m) \in Nat /\ Len(lines[m].toks) \in Nat /\ Start(lines, i) \in Nat /\ Len(lines[i].toks) \in Nat
    BY <1>0, <2>2
  <2>5. Start(lines, i) + Len(lines[i].toks) < Start(lines, m + 1)
    <3> DEFINE a == Start(lines, i)
               b == Len(lines[i].toks)
               c == Start(lines, m)
               d == Len(lines[m].toks)
    <3>1. a \in Nat /\ b \in Nat /\ c \in Nat /\ d \in Nat /\ a + b < c /\ Start(lines, m + 1) = c + d + 1
      BY <2>3, <2>4
    <3> HIDE DEF a, b, c, d
    <3>2. a + b < c + d + 1
      BY <3>1
    <3> QED BY <3>1, <3>2 DEF a, b
  <2> QED BY <2>2, <2>5
<1>3. Good = Nat
  <2>1. Good \in SUBSET Nat
    OBVIOUS
  <2> HIDE DEF Good
  <2> QED BY <1>1, <1>2, <2>1, Lemmas!Induction
<1>4. j - i - 1 \in Nat /\ i + 1 + (j - i - 1) = j /\ j <= n + 1
  BY <1>0 DEF n
<1>5. j - i - 1 \in Good
  BY <1>3, <1>4
<1> QED BY <1>4, <1>5

-----------------------------------------------------------------------------
(* The first i lines have nothing on them but comments.                    *)
Quiet(lines, i) == \A j \in 1 .. i : lines[j].toks = <<>> \/ Head(lines[j].toks) = Comment

(* What the splitter knows of the first i lines.                           *)
Knows(lines, i, infos) ==
  /\ Len(infos) = i
  /\ \A k \in 1 .. i : /\ infos[k].node = lines[k].node
                       /\ infos[k].offset = Start(lines, k)
                       /\ Len(infos[k].stripped) <= Len(lines[k].toks)
                       /\ Quiet(lines, k) => infos[k].stripped = <<>>

ReadTo(Tok, Nd, lines, i) ==
  {s \in ClassifyState(Tok, Nd) :
     /\ Knows(lines, i, s.infos)
     /\ s.offset = Start(lines, i + 1)
     /\ Quiet(lines, i) => ~s.inBlob}

LEMMA ClassifyKnows ==
  ASSUME NEW Tok, NEW Nd, NEW lines \in Seq(Lines(Tok, Nd))
  PROVE  /\ classify(lines) \in Seq(Infos(Tok, Nd))
         /\ Len(classify(lines)) = Len(lines)
         /\ \A i \in 1 .. Len(lines) :
              /\ classify(lines)[i].node = lines[i].node
              /\ classify(lines)[i].offset = Start(lines, i)
              /\ Len(classify(lines)[i].stripped) <= Len(lines[i].toks)
              /\ Quiet(lines, i) => classify(lines)[i].stripped = <<>>
<1> DEFINE n == Len(lines)
<1>0. n \in Nat /\ \A i \in 1 .. n : lines[i] \in Lines(Tok, Nd)
  OBVIOUS
<1>1. PICK h : ClassifyRun(Tok, Nd, lines, h)
  BY ClassifyRuns
<1>2. /\ h \in [0 .. n -> ClassifyState(Tok, Nd)] /\ h[0] = Unclassified
      /\ \A i \in 1 .. n : h[i] = ClassifyLine(h[i - 1], lines[i])
      /\ FoldLeft(ClassifyLine, Unclassified, lines) = h[n]
  BY <1>1 DEF ClassifyRun
<1>3. classify(lines) = h[n].infos
  BY <1>2, Zenon DEF classify, Unclassified
<1> HIDE DEF n
<1> DEFINE Inv == [i \in 0 .. n |-> ReadTo(Tok, Nd, lines, i)]
<1>4. h[0] \in Inv[0]
  <2>1. 0 \in 0 .. n /\ 0 + 1 = 1 /\ 1 .. 0 = {} /\ Len(<<>>) = 0
    BY <1>0
  <2>2. h[0] \in ClassifyState(Tok, Nd) /\ h[0].infos = <<>> /\ ~h[0].inBlob /\ h[0].offset = 0
    <3>1. Unclassified.infos = <<>> /\ ~Unclassified.inBlob /\ Unclassified.offset = 0
      BY DEF Unclassified
    <3> QED BY <1>2, <2>1, <3>1
  <2>3. Start(lines, 1) = 0
    BY Starts
  <2>4. Knows(lines, 0, <<>>)
    BY <2>1 DEF Knows
  <2> QED BY <2>1, <2>2, <2>3, <2>4 DEF ReadTo
<1>5. ASSUME NEW i \in 1 .. n, h[i - 1] \in Inv[i - 1] PROVE h[i] \in Inv[i]
  <2>1. i \in 0 .. n /\ i - 1 \in 0 .. n /\ (i - 1) + 1 = i /\ i \in Nat
    BY <1>0
  <2> DEFINE s == h[i - 1]
             line == lines[i]
             scanned == scanLine(line.toks, s.inBlob)
             info == [stripped |-> scanned.stripped, node |-> line.node,
                      isAnchor |-> Anchors(s.inBlob, scanned), offset |-> s.offset]
  <2>2. /\ s \in ClassifyState(Tok, Nd) /\ Knows(lines, i - 1, s.infos)
        /\ s.offset = Start(lines, i) /\ (Quiet(lines, i - 1) => ~s.inBlob)
    BY <1>5, <2>1 DEF ReadTo
  <2>3. h[i] = [infos |-> Append(s.infos, info), inBlob |-> scanned.inBlob,
                offset |-> s.offset + Len(line.toks) + 1]
    BY <1>2 DEF ClassifyLine
  <2>4. h[i] \in ClassifyState(Tok, Nd)
    BY <1>2, <2>1
  <2>5. s.infos \in Seq(Infos(Tok, Nd)) /\ s.inBlob \in BOOLEAN /\ line.toks \in Seq(Tok)
    BY <1>0, <2>2 DEF ClassifyState, Lines
  <2> HIDE DEF s
  <2>6. ScansTo(Tok, line.toks, s.inBlob, scanned)
    BY <2>5, ScanLineIs
  <2>7. Quiet(lines, i) => Quiet(lines, i - 1) /\ (line.toks = <<>> \/ Head(line.toks) = Comment)
    BY <2>1 DEF Quiet
  <2>8. Quiet(lines, i) => scanned.stripped = <<>> /\ ~scanned.inBlob
    BY <2>2, <2>6, <2>7 DEF ScansTo
  <2>9. Len(scanned.stripped) <= Len(line.toks)
    BY <2>6 DEF ScansTo
  <2>10. info.node = line.node /\ info.offset = Start(lines, i) /\ info.stripped = scanned.stripped
    BY <2>2
  <2> HIDE DEF scanned, info
  <2>11. Len(s.infos) = i - 1
    BY <2>2 DEF Knows
  <2>12. /\ Len(Append(s.infos, info)) = i /\ Append(s.infos, info)[i] = info
         /\ \A k \in 1 .. (i - 1) : Append(s.infos, info)[k] = s.infos[k]
    BY <2>1, <2>5, <2>11
  <2>13. ASSUME NEW k \in 1 .. i
         PROVE  /\ Append(s.infos, info)[k].node = lines[k].node
                /\ Append(s.infos, info)[k].offset = Start(lines, k)
                /\ Len(Append(s.infos, info)[k].stripped) <= Len(lines[k].toks)
                /\ Quiet(lines, k) => Append(s.infos, info)[k].stripped = <<>>
    <3>1. CASE k = i
      BY <2>8, <2>9, <2>10, <2>12, <3>1
    <3>2. CASE k # i
      <4>1. k \in 1 .. (i - 1)
        BY <2>1, <3>2
      <4>2. Append(s.infos, info)[k] = s.infos[k]
        BY <2>12, <4>1
      <4>3. /\ s.infos[k].node = lines[k].node /\ s.infos[k].offset = Start(lines, k)
            /\ Len(s.infos[k].stripped) <= Len(lines[k].toks)
            /\ Quiet(lines, k) => s.infos[k].stripped = <<>>
        BY <2>2, <4>1 DEF Knows
      <4> QED BY <4>2, <4>3
    <3> QED BY <3>1, <3>2
  <2>14. Knows(lines, i, Append(s.infos, info))
    BY <2>12, <2>13 DEF Knows
  <2>15. s.offset + Len(line.toks) + 1 = Start(lines, i + 1)
    BY <2>2, Starts DEF n
  <2>16. h[i] \in ReadTo(Tok, Nd, lines, i)
    <3>1. /\ h[i].infos = Append(s.infos, info) /\ h[i].inBlob = scanned.inBlob
          /\ h[i].offset = s.offset + Len(line.toks) + 1
      BY <2>3
    <3>2. Knows(lines, i, h[i].infos) /\ h[i].offset = Start(lines, i + 1)
      BY <2>14, <2>15, <3>1
    <3>3. Quiet(lines, i) => ~h[i].inBlob
      BY <2>8, <3>1
    <3> QED BY <2>4, <3>2, <3>3 DEF ReadTo
  <2> QED BY <2>1, <2>16
<1>6. \A i \in 0 .. n : h[i] \in Inv[i]
  <2> HIDE DEF Inv
  <2> QED BY <1>0, <1>4, <1>5, AlongTheChain
<1>7. n \in 0 .. n
  BY <1>0
<1>8. h[n] \in ReadTo(Tok, Nd, lines, n)
  BY <1>6, <1>7
<1>9. h[n].infos \in Seq(Infos(Tok, Nd)) /\ Knows(lines, n, h[n].infos)
  BY <1>8 DEF ReadTo, ClassifyState
<1> QED BY <1>3, <1>9 DEF n, Knows

-----------------------------------------------------------------------------
(* The blocks, joined again, are the source.                               *)
LEMMA AsSequence ==
  ASSUME NEW S, NEW k \in Nat, NEW g \in [1 .. k -> S]
  PROVE  g \in Seq(S) /\ Len(g) = k /\ DOMAIN g = 1 .. k
OBVIOUS

(* A chain of concatenations, and the parts of it.                         *)
Joins(S, seqs, f) ==
  /\ f \in [0 .. Len(seqs) -> Seq(S)]
  /\ f[0] = <<>>
  /\ \A i \in 1 .. Len(seqs) : f[i] = f[i - 1] \o seqs[i]

LEMMA FlattenJoins ==
  ASSUME NEW S, NEW seqs \in Seq(Seq(S))
  PROVE  \E f : Joins(S, seqs, f) /\ FlattenSeq(seqs) = f[Len(seqs)]
BY Flattened DEF Joins

LEMMA JoinsAgree ==
  ASSUME NEW S, NEW seqs \in Seq(Seq(S)), NEW f, Joins(S, seqs, f)
  PROVE  FlattenSeq(seqs) = f[Len(seqs)]
<1> DEFINE n == Len(seqs)
<1>0. n \in Nat
  OBVIOUS
<1>1. PICK g : Joins(S, seqs, g) /\ FlattenSeq(seqs) = g[n]
  BY FlattenJoins
<1>2. /\ f[0] = <<>> /\ \A i \in 1 .. n : f[i] = f[i - 1] \o seqs[i]
      /\ g[0] = <<>> /\ \A i \in 1 .. n : g[i] = g[i - 1] \o seqs[i]
  BY <1>1 DEF Joins
<1> HIDE DEF n
<1> DEFINE Inv == [i \in 0 .. n |-> {g[i]}]
<1>3. f[0] \in Inv[0]
  BY <1>0, <1>2
<1>4. ASSUME NEW i \in 1 .. n, f[i - 1] \in Inv[i - 1] PROVE f[i] \in Inv[i]
  <2>1. i \in 0 .. n /\ i - 1 \in 0 .. n
    BY <1>0
  <2>2. f[i - 1] = g[i - 1]
    BY <1>4, <2>1
  <2> QED BY <1>2, <2>1, <2>2
<1>5. \A i \in 0 .. n : f[i] \in Inv[i]
  <2> HIDE DEF Inv
  <2> QED BY <1>0, <1>3, <1>4, AlongTheChain
<1>6. n \in 0 .. n
  BY <1>0
<1> QED BY <1>1, <1>5, <1>6 DEF n

LEMMA JoinsBlank ==
  ASSUME NEW S, NEW seqs \in Seq(Seq(S)), NEW f, Joins(S, seqs, f),
         NEW p \in 0 .. Len(seqs), NEW q \in p .. Len(seqs),
         \A i \in (p + 1) .. q : seqs[i] = <<>>
  PROVE  f[q] = f[p]
<1> DEFINE n == Len(seqs)
           h == [i \in 0 .. (q - p) |-> f[p + i]]
           Inv == [i \in 0 .. (q - p) |-> {f[p]}]
<1>0. n \in Nat /\ p \in Nat /\ q - p \in Nat /\ q <= n /\ p + 0 = p /\ p + (q - p) = q
  OBVIOUS
<1>1. f \in [0 .. n -> Seq(S)] /\ \A i \in 1 .. n : f[i] = f[i - 1] \o seqs[i]
  BY DEF Joins
<1> HIDE DEF n
<1>2. h[0] \in Inv[0]
  BY <1>0
<1>3. ASSUME NEW i \in 1 .. (q - p), h[i - 1] \in Inv[i - 1] PROVE h[i] \in Inv[i]
  <2>1. /\ i \in 0 .. (q - p) /\ i - 1 \in 0 .. (q - p) /\ p + i \in 1 .. n /\ p + i \in (p + 1) .. q
        /\ (p + i) - 1 = p + (i - 1) /\ p \in 0 .. n
    BY <1>0
  <2>2. f[p + (i - 1)] = f[p]
    BY <1>3, <2>1
  <2>3. f[p + i] = f[p] \o <<>>
    BY <1>1, <2>1, <2>2
  <2>4. f[p] \in Seq(S)
    BY <1>1, <2>1
  <2>5. f[p + i] = f[p]
    BY <2>3, <2>4, Joined
  <2> QED BY <2>1, <2>5
<1>4. \A i \in 0 .. (q - p) : h[i] \in Inv[i]
  <2> HIDE DEF Inv, h
  <2> QED BY <1>0, <1>2, <1>3, AlongTheChain
<1>5. q - p \in 0 .. (q - p)
  BY <1>0
<1>6. h[q - p] = f[p]
  BY <1>4, <1>5
<1> QED BY <1>0, <1>5, <1>6

Part(seqs, p, q) == [i \in 1 .. (q - p) |-> seqs[p + i]]

LEMMA JoinsPart ==
  ASSUME NEW S, NEW seqs \in Seq(Seq(S)), NEW f, Joins(S, seqs, f),
         NEW p \in 0 .. Len(seqs), NEW q \in p .. Len(seqs)
  PROVE  f[q] = f[p] \o FlattenSeq(Part(seqs, p, q))
<1> DEFINE n == Len(seqs)
           part == [i \in 1 .. (q - p) |-> seqs[p + i]]
           h == [i \in 0 .. (q - p) |-> f[p + i]]
<1>0. /\ n \in Nat /\ p \in Nat /\ q - p \in Nat /\ q <= n /\ p + 0 = p /\ p + (q - p) = q
      /\ \A i \in 1 .. n : seqs[i] \in Seq(S)
  OBVIOUS
<1>1. f \in [0 .. n -> Seq(S)] /\ \A i \in 1 .. n : f[i] = f[i - 1] \o seqs[i]
  BY DEF Joins
<1> HIDE DEF n
<1>1a. \A i \in 1 .. (q - p) : p + i \in 1 .. n /\ (p + i) - 1 = p + (i - 1)
  BY <1>0
<1>2. part \in Seq(Seq(S)) /\ Len(part) = q - p /\ \A i \in 1 .. (q - p) : part[i] = seqs[p + i] /\ part[i] \in Seq(S)
  <2>1. \A i \in 1 .. (q - p) : part[i] = seqs[p + i] /\ part[i] \in Seq(S)
    BY <1>0, <1>1a
  <2>2. part \in [1 .. (q - p) -> Seq(S)]
    BY <2>1
  <2> HIDE DEF part
  <2> QED BY <1>0, <2>1, <2>2, AsSequence
<1> HIDE DEF part
<1>3. PICK g : Joins(S, part, g) /\ FlattenSeq(part) = g[q - p]
  BY <1>2, FlattenJoins
<1>4. /\ g \in [0 .. (q - p) -> Seq(S)] /\ g[0] = <<>>
      /\ \A i \in 1 .. (q - p) : g[i] = g[i - 1] \o part[i]
  BY <1>2, <1>3 DEF Joins
<1> DEFINE Inv == [i \in 0 .. (q - p) |-> {f[p] \o g[i]}]
<1>5. f[p] \in Seq(S)
  <2>1. p \in 0 .. n
    BY <1>0
  <2> QED BY <1>1, <2>1
<1>6. h[0] \in Inv[0]
  <2>1. f[p] \o <<>> = f[p]
    BY <1>5, Joined
  <2>2. 0 \in 0 .. (q - p)
    BY <1>0
  <2> QED BY <1>0, <1>4, <2>1, <2>2
<1>7. ASSUME NEW i \in 1 .. (q - p), h[i - 1] \in Inv[i - 1] PROVE h[i] \in Inv[i]
  <2>1. i \in 0 .. (q - p) /\ i - 1 \in 0 .. (q - p) /\ p + i \in 1 .. n /\ (p + i) - 1 = p + (i - 1)
    BY <1>0, <1>1a
  <2>2. f[p + (i - 1)] = f[p] \o g[i - 1]
    BY <1>7, <2>1
  <2>3. f[p + i] = f[p + (i - 1)] \o part[i]
    BY <1>1, <1>2, <2>1
  <2>4. (f[p] \o g[i - 1]) \o part[i] = f[p] \o (g[i - 1] \o part[i])
    <3>1. g[i - 1] \in Seq(S) /\ part[i] \in Seq(S)
      BY <1>2, <1>4, <2>1
    <3>2. \A s, t, u \in Seq(S) : (s \o t) \o u = s \o (t \o u)
      BY ConcatAssociative
    <3> QED BY <1>5, <3>1, <3>2, Zenon
  <2>5. f[p + i] = f[p] \o g[i]
    BY <1>4, <2>2, <2>3, <2>4
  <2> QED BY <2>1, <2>5
<1>8. \A i \in 0 .. (q - p) : h[i] \in Inv[i]
  <2> HIDE DEF Inv, h
  <2> QED BY <1>0, <1>6, <1>7, AlongTheChain
<1>9. q - p \in 0 .. (q - p)
  BY <1>0
<1>10. h[q - p] = f[p] \o g[q - p]
  BY <1>8, <1>9
<1> QED BY <1>0, <1>3, <1>9, <1>10 DEF part, Part

-----------------------------------------------------------------------------
(* What is before the first anchor is in no block; when that is blank, the *)
(* blocks have all the code, in order.                                     *)
LEMMA BlocksKeepTheCode ==
  ASSUME NEW Tok, NEW Nd, NEW infos \in Seq(Infos(Tok, Nd)), NEW blocks, NEW anchors, NEW lasts,
         Cuts(infos, blocks, anchors, lasts),
         \A i \in 1 .. Len(infos) :
            (\A a \in 1 .. Len(anchors) : i < anchors[a]) => infos[i].stripped = <<>>
  PROVE  CodeOf(infos) = Flat(LAMBDA b : FlattenSeq(b.text), blocks)
<1> DEFINE n == Len(infos)
           m == Len(anchors)
           seqs == [i \in 1 .. n |-> infos[i].stripped]
           texts == [a \in 1 .. m |-> FlattenSeq(blocks[a].text)]
           end(a) == IF a = m THEN n ELSE anchors[a + 1] - 1
<1>0. /\ n \in Nat /\ DOMAIN infos = 1 .. n
      /\ \A i \in 1 .. n : infos[i].stripped \in Seq(Tok)
  <2>1. n \in Nat /\ DOMAIN infos = 1 .. n /\ \A i \in 1 .. n : infos[i] \in Infos(Tok, Nd)
    OBVIOUS
  <2>2. \A info \in Infos(Tok, Nd) : info.stripped \in Seq(Tok)
    BY DEF Infos
  <2> QED BY <2>1, <2>2
<1>1. /\ anchors \in Seq(1 .. n) /\ Ascends(anchors) /\ DOMAIN blocks = 1 .. m
      /\ \A a \in 1 .. m :
           /\ Ends(infos, anchors, a) \in anchors[a] .. n
           /\ lasts[a] \in anchors[a] .. Ends(infos, anchors, a)
           /\ \A i \in anchors[a] .. Ends(infos, anchors, a) : infos[i].stripped # <<>> => i <= lasts[a]
           /\ blocks[a] = BlockOf(infos, anchors[a], lasts[a])
  BY DEF Cuts
<1>2. m \in Nat /\ \A a \in 1 .. m : anchors[a] \in 1 .. n
  <2> DEFINE T == 1 .. n
  <2>1. anchors \in Seq(T)
    BY <1>1
  <2> HIDE DEF T, n
  <2>2. m \in Nat /\ \A a \in 1 .. m : anchors[a] \in T
    BY <2>1
  <2> QED BY <2>2 DEF T
<1>3. \A a \in 1 .. m : Ends(infos, anchors, a) = end(a)
  BY <1>2 DEF Ends
<1>4. \A a, c \in 1 .. m : a < c => anchors[a] < anchors[c]
  BY <1>1 DEF Ascends
<1>5. /\ CodeOf(infos) = FlattenSeq(seqs)
      /\ Flat(LAMBDA b : FlattenSeq(b.text), blocks) = FlattenSeq(texts)
  BY <1>0, <1>1 DEF CodeOf, Flat, Each
<1> HIDE DEF n, m
<1>6. seqs \in Seq(Seq(Tok)) /\ Len(seqs) = n /\ \A i \in 1 .. n : seqs[i] = infos[i].stripped
  BY <1>0
<1> HIDE DEF seqs
<1>7. PICK f : Joins(Tok, seqs, f) /\ FlattenSeq(seqs) = f[n]
  BY <1>6, FlattenJoins
<1>7a. ASSUME NEW p \in 0 .. Len(seqs), NEW q \in p .. Len(seqs)
       PROVE  /\ f[q] = f[p] \o FlattenSeq(Part(seqs, p, q))
              /\ (\A i \in (p + 1) .. q : seqs[i] = <<>>) => f[q] = f[p]
  <2>1. f[q] = f[p] \o FlattenSeq(Part(seqs, p, q))
    BY <1>6, <1>7, JoinsPart
  <2>2. ASSUME \A i \in (p + 1) .. q : seqs[i] = <<>> PROVE f[q] = f[p]
    BY <1>6, <1>7, <2>2, JoinsBlank
  <2> QED BY <2>1, <2>2
<1>8. f \in [0 .. n -> Seq(Tok)] /\ f[0] = <<>>
  BY <1>6, <1>7 DEF Joins
<1> DEFINE g == [a \in 0 .. m |-> f[end(a)]]
<1>9. \A a \in 0 .. m : end(a) \in 0 .. n
  <2> SUFFICES ASSUME NEW a \in 0 .. m PROVE end(a) \in 0 .. n
    OBVIOUS
  <2>1. CASE a = m
    BY <1>0, <2>1
  <2>2. CASE a # m
    <3>1. a + 1 \in 1 .. m
      BY <1>2, <2>2
    <3>2. anchors[a + 1] \in 1 .. n
      BY <1>2, <3>1
    <3> QED BY <1>0, <2>2, <3>2
  <2> QED BY <2>1, <2>2
<1>10. ASSUME NEW a \in 1 .. m
       PROVE  /\ blocks[a].text \in Seq(Seq(Tok))
              /\ FlattenSeq(blocks[a].text) \in Seq(Tok)
              /\ f[end(a)] = f[end(a - 1)] \o FlattenSeq(blocks[a].text)
  <2> DEFINE first == anchors[a]
             last == lasts[a]
             text == [i \in 1 .. (last - first + 1) |-> infos[first + i - 1].stripped]
  <2>1. first \in 1 .. n /\ end(a) \in first .. n /\ last \in first .. end(a)
    BY <1>1, <1>2, <1>3 DEF n, m
  <2>2. end(a - 1) = first - 1
    <3>1. a - 1 # m /\ (a - 1) + 1 = a
      BY <1>2
    <3> QED BY <3>1
  <2>3. blocks[a].text = text
    <3>1. blocks[a] = BlockOf(infos, first, last)
      BY <1>1 DEF m
    <3> QED BY <3>1 DEF BlockOf
  <2>4. \A i \in (last + 1) .. end(a) : seqs[i] = <<>>
    <3> SUFFICES ASSUME NEW i \in (last + 1) .. end(a) PROVE infos[i].stripped = <<>>
      <4>1. \A i \in (last + 1) .. end(a) : i \in 1 .. n
        BY <1>0, <2>1
      <4> QED BY <1>6, <4>1
    <3>1. i \in first .. end(a) /\ ~(i <= last)
      BY <1>0, <2>1
    <3> QED BY <1>1, <1>3, <3>1 DEF m
  <2> HIDE DEF first, last, end
  <2>5. /\ first - 1 \in 0 .. n /\ last \in (first - 1) .. n /\ last \in 0 .. n /\ end(a) \in last .. n
        /\ last - (first - 1) = last - first + 1
        /\ \A i \in 1 .. (last - first + 1) : (first - 1) + i = first + i - 1 /\ first + i - 1 \in 1 .. n
        /\ last - first + 1 \in Nat
    BY <1>0, <2>1
  <2>6. text = Part(seqs, first - 1, last)
    BY <1>6, <2>5 DEF Part
  <2>7. text \in Seq(Seq(Tok))
    <3>1. \A i \in 1 .. (last - first + 1) : infos[first + i - 1].stripped \in Seq(Tok)
      BY <1>0, <2>5
    <3>2. text \in [1 .. (last - first + 1) -> Seq(Tok)]
      BY <3>1
    <3> HIDE DEF text
    <3> QED BY <2>5, <3>2, AsSequence
  <2> HIDE DEF text, texts, g
  <2>8a. first - 1 \in 0 .. Len(seqs) /\ last \in (first - 1) .. Len(seqs) /\ last \in 0 .. Len(seqs) /\ end(a) \in last .. Len(seqs)
    BY <1>6, <2>5
  <2>8. f[last] = f[first - 1] \o FlattenSeq(text)
    BY <1>7a, <2>8a, <2>6, Zenon
  <2>9. f[end(a)] = f[last]
    BY <1>7a, <2>4, <2>8a, Zenon
  <2> QED BY <2>2, <2>3, <2>7, <2>8, <2>9, FlatRange
<1>11. f[end(0)] = <<>>
  <2>1. \A i \in 1 .. end(0) : seqs[i] = <<>>
    <3> SUFFICES ASSUME NEW i \in 1 .. end(0) PROVE infos[i].stripped = <<>>
      <4>1. \A i \in 1 .. end(0) : i \in 1 .. n
        BY <1>0, <1>2, <1>9
      <4> QED BY <1>6, <4>1
    <3>1. i \in 1 .. n
      BY <1>0, <1>2, <1>9
    <3>2. \A a \in 1 .. m : i < anchors[a]
      <4> SUFFICES ASSUME NEW a \in 1 .. m PROVE i < anchors[a]
        OBVIOUS
      <4>1. 1 \in 1 .. m /\ 0 # m /\ 0 + 1 = 1
        BY <1>2
      <4>2. i < anchors[1]
        <5>1. end(0) = anchors[1] - 1 /\ anchors[1] \in 1 .. n
          BY <1>2, <4>1
        <5> QED BY <5>1
      <4>3. anchors[1] <= anchors[a]
        <5>1. anchors[1] \in 1 .. n /\ anchors[a] \in 1 .. n /\ (a = 1 \/ 1 < a)
          BY <1>2, <4>1
        <5> QED BY <1>4, <4>1, <5>1
      <4>4. anchors[1] \in 1 .. n /\ anchors[a] \in 1 .. n
        BY <1>2, <4>1
      <4> QED BY <4>2, <4>3, <4>4
    <3> QED BY <3>1, <3>2 DEF n, m
  <2>2. end(0) \in 0 .. n
    BY <1>2, <1>9
  <2> HIDE DEF end, g, texts
  <2>3. 0 \in 0 .. Len(seqs) /\ (0 + 1) .. end(0) = 1 .. end(0) /\ end(0) \in 0 .. Len(seqs)
    BY <1>0, <1>6, <2>2
  <2>4. f[end(0)] = f[0]
    BY <1>7a, <2>1, <2>3, Zenon
  <2> QED BY <1>8, <2>4
<1>12. texts \in Seq(Seq(Tok)) /\ Len(texts) = m /\ \A a \in 1 .. m : texts[a] = FlattenSeq(blocks[a].text)
  <2>1. \A a \in 1 .. m : FlattenSeq(blocks[a].text) \in Seq(Tok)
    BY <1>10
  <2> QED BY <1>2, <2>1
<1> HIDE DEF texts, end
<1>13. Joins(Tok, texts, g)
  <2>1. g \in [0 .. m -> Seq(Tok)]
    BY <1>8, <1>9
  <2>2. g[0] = <<>>
    BY <1>2, <1>11
  <2>3. \A a \in 1 .. m : g[a] = g[a - 1] \o texts[a]
    <3> SUFFICES ASSUME NEW a \in 1 .. m PROVE g[a] = g[a - 1] \o texts[a]
      OBVIOUS
    <3>1. a \in 0 .. m /\ a - 1 \in 0 .. m
      BY <1>2
    <3> QED BY <1>10, <1>12, <3>1
  <2> HIDE DEF g
  <2> QED BY <1>12, <2>1, <2>2, <2>3 DEF Joins
<1>14. FlattenSeq(texts) = g[m]
  <2> HIDE DEF g
  <2> QED BY <1>12, <1>13, JoinsAgree
<1>15. g[m] = f[n]
  BY <1>2 DEF end
<1> QED BY <1>5, <1>7, <1>14, <1>15

-----------------------------------------------------------------------------
(* The matcher: the folds over the tokens and the lines of a block.        *)
MatchState == [in : {"code", "blob", "quote"}, line : Nat, col : Nat, seen : BOOLEAN, bad : BOOLEAN]

LEMMA MatchTokenCases ==
  ASSUME NEW s \in MatchState, NEW t
  PROVE  /\ MatchToken(s, t) \in MatchState
         /\ s.bad => MatchToken(s, t) = s
         /\ MatchToken(s, t).line = s.line
         /\ MatchToken(s, t).col = s.col \/ MatchToken(s, t).col = s.col + 1
<1>0. /\ s.in \in {"code", "blob", "quote"} /\ s.line \in Nat /\ s.col \in Nat /\ s.bad \in BOOLEAN
      /\ s.seen \in BOOLEAN
  BY DEF MatchState
<1>1. CASE s.bad
  <2>1. MatchToken(s, t) = s
    BY <1>1, Zenon DEF MatchToken
  <2> QED BY <1>1, <2>1
<1> DEFINE no == s.in = "code" /\ (t = "junk" \/ (t \in Keyword /\ s.seen))
           in == CASE s.in = "code" /\ t = Blob  -> "blob"
                   [] s.in = "code" /\ t = Quote -> "quote"
                   [] s.in = "blob" /\ t = Blob   -> "code"
                   [] s.in = "quote" /\ t = Quote -> "code"
                   [] OTHER -> s.in
<1>2. CASE ~s.bad /\ no
  <2>1. MatchToken(s, t) = [s EXCEPT !.bad = TRUE]
    BY <1>2, Zenon DEF MatchToken
  <2> QED BY <1>0, <1>2, <2>1 DEF MatchState
<1>3. CASE ~s.bad /\ ~no
  <2>1. MatchToken(s, t) = [s EXCEPT !.col = @ + 1, !.seen = TRUE, !.in = in]
    BY <1>3, Zenon DEF MatchToken
  <2>2. in \in {"code", "blob", "quote"}
    <3>0. Blob # Quote /\ "code" # "blob" /\ "code" # "quote" /\ "blob" # "quote"
      BY DEF Blob, Quote
    <3>1. CASE s.in = "code" /\ t = Blob
      <4>1. in = "blob"
        BY <3>0, <3>1, Zenon
      <4> QED BY <4>1
    <3>2. CASE s.in = "code" /\ t = Quote
      <4>1. in = "quote"
        BY <3>0, <3>2, Zenon
      <4> QED BY <4>1
    <3>3. CASE s.in = "blob" /\ t = Blob
      <4>1. in = "code"
        BY <3>0, <3>3, Zenon
      <4> QED BY <4>1
    <3>4. CASE s.in = "quote" /\ t = Quote
      <4>1. in = "code"
        BY <3>0, <3>4, Zenon
      <4> QED BY <4>1
    <3>5. CASE /\ ~(s.in = "code" /\ t = Blob) /\ ~(s.in = "code" /\ t = Quote)
               /\ ~(s.in = "blob" /\ t = Blob) /\ ~(s.in = "quote" /\ t = Quote)
      <4>1. in = s.in
        BY <3>5, Zenon
      <4> QED BY <1>0, <4>1
    <3> QED BY <3>1, <3>2, <3>3, <3>4, <3>5
  <2> HIDE DEF in
  <2>3. s.col + 1 \in Nat
    BY <1>0
  <2> QED BY <1>0, <1>3, <2>1, <2>2, <2>3 DEF MatchState
<1> QED BY <1>0, <1>1, <1>2, <1>3

LEMMA MatchTokenType == \A s \in MatchState : \A t : MatchToken(s, t) \in MatchState
BY MatchTokenCases

MatchTokenRun(Tok, toks, base, h) ==
  /\ h \in [0 .. Len(toks) -> MatchState]
  /\ h[0] = base
  /\ \A i \in 1 .. Len(toks) : h[i] = MatchToken(h[i - 1], toks[i])
  /\ FoldLeft(MatchToken, base, toks) = h[Len(toks)]

LEMMA MatchTokenRuns ==
  ASSUME NEW Tok, NEW toks \in Seq(Tok), NEW base \in MatchState
  PROVE  \E h : MatchTokenRun(Tok, toks, base, h)
<1> DEFINE A == MatchState
           n == Len(toks)
           step == [p \in A \X (1 .. n) |-> MatchToken(p[1], toks[p[2]])]
           Is(it) == it = [s \in SUBSET (1 .. n) |->
                             IF s = {} THEN base ELSE MatchToken(it[s \ {Max(s)}], toks[Max(s)])]
           F == CHOOSE it : Is(it)
<1>0. /\ n \in Nat /\ DOMAIN toks = 1 .. n
      /\ \A i \in 1 .. n : toks[i] \in Tok
  OBVIOUS
<1>1. FoldLeft(MatchToken, base, toks) = F[1 .. n]
  BY <1>0, Zenon DEF FoldLeft, MapThenFoldSet
<1> HIDE DEF n
<1>b. base \in A
  BY MatchTokenType
<1>t. \A a \in A : \A x \in Tok : MatchToken(a, x) \in A
  BY MatchTokenType
<1> HIDE DEF A
<1>2. step \in [A \X (1 .. n) -> A]
  <2>1. \A p \in A \X (1 .. n) : p[1] \in A /\ toks[p[2]] \in Tok
    BY <1>0
  <2>2. \A p \in A \X (1 .. n) : MatchToken(p[1], toks[p[2]]) \in A
    BY <2>1, <1>t, Zenon
  <2> QED BY <2>2
<1>3. PICK g : Folds(n, A, base, step, g)
  <2> HIDE DEF step
  <2> QED BY <1>0, <1>b, <1>2, FoldExists
<1>4. Is(g)
  <2>1. ASSUME NEW s \in SUBSET (1 .. n)
        PROVE  g[s] = IF s = {} THEN base ELSE MatchToken(g[s \ {Max(s)}], toks[Max(s)])
    <3>1. CASE s = {}
      BY <1>3, <3>1 DEF Folds
    <3>2. CASE s # {}
      <4>1. Max(s) \in 1 .. n /\ s \ {Max(s)} \in SUBSET (1 .. n)
        BY <1>0, <3>2, MaxOf
      <4>2. <<g[s \ {Max(s)}], Max(s)>> \in A \X (1 .. n)
        BY <1>3, <4>1 DEF Folds
      <4>3. step[<<g[s \ {Max(s)}], Max(s)>>] = MatchToken(g[s \ {Max(s)}], toks[Max(s)])
        BY <4>2
      <4>4. g[s] = step[<<g[s \ {Max(s)}], Max(s)>>]
        BY <1>3, <3>2 DEF Folds
      <4> QED BY <3>2, <4>3, <4>4
    <3> QED BY <3>1, <3>2
  <2>2. DOMAIN g = SUBSET (1 .. n) /\ g = [s \in SUBSET (1 .. n) |-> g[s]]
    BY <1>3 DEF Folds
  <2> QED BY <2>1, <2>2, Zenon
<1>5. Is(F)
  <2> HIDE DEF Is
  <2> QED BY <1>4
<1> HIDE DEF F
<1> DEFINE h == [i \in 0 .. n |-> F[1 .. i]]
<1>6. h[0] = base
  <2>1. 1 .. 0 = {} /\ {} \in SUBSET (1 .. n) /\ 0 \in 0 .. n
    BY <1>0
  <2> QED BY <1>5, <2>1
<1>7. ASSUME NEW i \in 1 .. n PROVE h[i] = MatchToken(h[i - 1], toks[i])
  <2>1. i \in 0 .. n /\ i - 1 \in 0 .. n
    BY <1>0
  <2>2. h[i] = F[1 .. i] /\ h[i - 1] = F[1 .. (i - 1)]
    BY <2>1
  <2>3. /\ 1 .. i \in SUBSET (1 .. n) /\ 1 .. i # {}
        /\ Max(1 .. i) = i /\ (1 .. i) \ {i} = 1 .. (i - 1)
    BY <1>0, PrefixRange
  <2> HIDE DEF h
  <2>4. F[1 .. i] = MatchToken(F[1 .. (i - 1)], toks[i])
    BY <1>5, <2>3
  <2> QED BY <2>2, <2>4
<1>8. h \in [0 .. n -> A]
  <2> DEFINE Inv == [i \in 0 .. n |-> A]
  <2>1. h[0] \in Inv[0]
    BY <1>0, <1>6, <1>b
  <2>2. ASSUME NEW i \in 1 .. n, h[i - 1] \in Inv[i - 1] PROVE h[i] \in Inv[i]
    <3>1. i \in 0 .. n /\ i - 1 \in 0 .. n /\ toks[i] \in Tok
      BY <1>0
    <3>2. h[i - 1] \in A
      BY <2>2, <3>1
    <3>3. MatchToken(h[i - 1], toks[i]) \in A
      BY <3>1, <3>2, <1>t, Zenon
    <3> QED BY <1>7, <3>1, <3>3
  <2> HIDE DEF h
  <2>3. \A i \in 0 .. n : h[i] \in Inv[i]
    <3> HIDE DEF Inv
    <3> QED BY <1>0, <2>1, <2>2, AlongTheChain
  <2> USE DEF h
  <2> QED BY <2>3
<1>9. n \in 0 .. n /\ h[n] = F[1 .. n]
  BY <1>0
<1> HIDE DEF h
<1> QED BY <1>0, <1>1, <1>6, <1>7, <1>8, <1>9 DEF MatchTokenRun, n, A

LEMMA MatchLineCases ==
  ASSUME NEW Tok, NEW toks \in Seq(Tok), NEW s \in MatchState
  PROVE  /\ MatchLine(s, toks) \in MatchState
         /\ s.bad => MatchLine(s, toks) = s
         /\ ~s.bad => /\ MatchLine(s, toks).line = s.line + 1
                      /\ MatchLine(s, toks).col \in 1 .. (Len(toks) + 1)
<1> DEFINE base == IF s.bad THEN s ELSE [s EXCEPT !.line = @ + 1, !.col = 1]
           n == Len(toks)
<1>0. n \in Nat
  OBVIOUS
<1>1. /\ base \in MatchState
      /\ s.bad => base = s
      /\ ~s.bad => base.line = s.line + 1 /\ base.col = 1
  <2>1. s.line \in Nat /\ s.line + 1 \in Nat /\ s.bad \in BOOLEAN
    BY DEF MatchState
  <2>2. CASE s.bad
    BY <2>2
  <2>3. CASE ~s.bad
    <3>1. base = [s EXCEPT !.line = @ + 1, !.col = 1]
      BY <2>3, Zenon
    <3> HIDE DEF base
    <3> QED BY <2>1, <2>3, <3>1 DEF MatchState
  <2> QED BY <2>1, <2>2, <2>3
<1>2. MatchLine(s, toks) = FoldLeft(MatchToken, base, toks)
  BY Zenon DEF MatchLine
<1> HIDE DEF base, n
<1>3. PICK h : MatchTokenRun(Tok, toks, base, h)
  BY <1>1, MatchTokenRuns
<1>4. /\ h \in [0 .. n -> MatchState] /\ h[0] = base
      /\ \A i \in 1 .. n : h[i] = MatchToken(h[i - 1], toks[i])
      /\ MatchLine(s, toks) = h[n]
  BY <1>2, <1>3 DEF MatchTokenRun, n
<1> DEFINE Inv == [i \in 0 .. n |-> {r \in MatchState : /\ base.bad => r = base
                                                        /\ r.line = base.line
                                                        /\ r.col \in base.col .. (base.col + i)}]
<1>5. base.col \in Nat
  BY <1>1 DEF MatchState
<1>6. h[0] \in Inv[0]
  BY <1>0, <1>1, <1>4, <1>5
<1>7. ASSUME NEW i \in 1 .. n, h[i - 1] \in Inv[i - 1] PROVE h[i] \in Inv[i]
  <2>1. i \in 0 .. n /\ i - 1 \in 0 .. n /\ i \in Nat
    BY <1>0
  <2>2. /\ h[i - 1] \in MatchState /\ (base.bad => h[i - 1] = base) /\ h[i - 1].line = base.line
        /\ h[i - 1].col \in base.col .. (base.col + (i - 1))
    BY <1>7, <2>1
  <2> DEFINE r == MatchToken(h[i - 1], toks[i])
  <2>3. /\ r \in MatchState /\ (h[i - 1].bad => r = h[i - 1]) /\ r.line = h[i - 1].line
        /\ r.col = h[i - 1].col \/ r.col = h[i - 1].col + 1
    BY <2>2, MatchTokenCases
  <2>4. h[i] = r
    BY <1>4
  <2> HIDE DEF r
  <2>5. r.col \in base.col .. (base.col + i)
    BY <1>5, <2>1, <2>2, <2>3
  <2>6. base.bad => r = base
    BY <2>2, <2>3
  <2>7. r.line = base.line
    BY <2>2, <2>3
  <2> QED BY <2>1, <2>3, <2>4, <2>5, <2>6, <2>7
<1>8. \A i \in 0 .. n : h[i] \in Inv[i]
  <2> HIDE DEF Inv
  <2> QED BY <1>0, <1>6, <1>7, AlongTheChain
<1>9. n \in 0 .. n
  BY <1>0
<1>10. /\ h[n] \in MatchState /\ (base.bad => h[n] = base) /\ h[n].line = base.line
       /\ h[n].col \in base.col .. (base.col + n)
  BY <1>8, <1>9
<1>11. ASSUME s.bad PROVE MatchLine(s, toks) = s
  BY <1>1, <1>4, <1>10, <1>11
<1>12. ASSUME ~s.bad PROVE MatchLine(s, toks).line = s.line + 1 /\ MatchLine(s, toks).col \in 1 .. (n + 1)
  <2>1. base.col = 1 /\ base.line = s.line + 1
    BY <1>1, <1>12
  <2>2. h[n].line = s.line + 1 /\ h[n].col \in 1 .. (n + 1)
    BY <1>0, <1>10, <2>1
  <2> QED BY <1>4, <2>2
<1> QED BY <1>4, <1>10, <1>11, <1>12 DEF n

Unmatched == [in |-> "code", line |-> 0, col |-> 1, seen |-> FALSE, bad |-> FALSE]

LEMMA MatchLineType ==
  /\ Unmatched \in MatchState
  /\ \A Tok : \A s \in MatchState : \A toks \in Seq(Tok) : MatchLine(s, toks) \in MatchState
<1>1. Unmatched \in MatchState
  BY DEF Unmatched, MatchState
<1> QED BY <1>1, MatchLineCases

MatchRun(Tok, text, h) ==
  /\ h \in [0 .. Len(text) -> MatchState]
  /\ h[0] = Unmatched
  /\ \A i \in 1 .. Len(text) : h[i] = MatchLine(h[i - 1], text[i])
  /\ FoldLeft(MatchLine, Unmatched, text) = h[Len(text)]

LEMMA MatchRuns ==
  ASSUME NEW Tok, NEW text \in Seq(Seq(Tok))
  PROVE  \E h : MatchRun(Tok, text, h)
<1> DEFINE A == MatchState
           n == Len(text)
           step == [p \in A \X (1 .. n) |-> MatchLine(p[1], text[p[2]])]
           Is(it) == it = [s \in SUBSET (1 .. n) |->
                             IF s = {} THEN Unmatched ELSE MatchLine(it[s \ {Max(s)}], text[Max(s)])]
           F == CHOOSE it : Is(it)
<1>0. /\ n \in Nat /\ DOMAIN text = 1 .. n
      /\ \A i \in 1 .. n : text[i] \in Seq(Tok)
  OBVIOUS
<1>1. FoldLeft(MatchLine, Unmatched, text) = F[1 .. n]
  BY <1>0, Zenon DEF FoldLeft, MapThenFoldSet
<1> HIDE DEF n
<1>b. Unmatched \in A
  BY MatchLineType
<1>t. \A a \in A : \A x \in Seq(Tok) : MatchLine(a, x) \in A
  BY MatchLineType
<1> HIDE DEF A
<1>2. step \in [A \X (1 .. n) -> A]
  <2>1. \A p \in A \X (1 .. n) : p[1] \in A /\ text[p[2]] \in Seq(Tok)
    BY <1>0
  <2>2. \A p \in A \X (1 .. n) : MatchLine(p[1], text[p[2]]) \in A
    BY <2>1, <1>t, Zenon
  <2> QED BY <2>2
<1>3. PICK g : Folds(n, A, Unmatched, step, g)
  <2> HIDE DEF step
  <2> QED BY <1>0, <1>b, <1>2, FoldExists
<1>4. Is(g)
  <2>1. ASSUME NEW s \in SUBSET (1 .. n)
        PROVE  g[s] = IF s = {} THEN Unmatched ELSE MatchLine(g[s \ {Max(s)}], text[Max(s)])
    <3>1. CASE s = {}
      BY <1>3, <3>1 DEF Folds
    <3>2. CASE s # {}
      <4>1. Max(s) \in 1 .. n /\ s \ {Max(s)} \in SUBSET (1 .. n)
        BY <1>0, <3>2, MaxOf
      <4>2. <<g[s \ {Max(s)}], Max(s)>> \in A \X (1 .. n)
        BY <1>3, <4>1 DEF Folds
      <4>3. step[<<g[s \ {Max(s)}], Max(s)>>] = MatchLine(g[s \ {Max(s)}], text[Max(s)])
        BY <4>2
      <4>4. g[s] = step[<<g[s \ {Max(s)}], Max(s)>>]
        BY <1>3, <3>2 DEF Folds
      <4> QED BY <3>2, <4>3, <4>4
    <3> QED BY <3>1, <3>2
  <2>2. DOMAIN g = SUBSET (1 .. n) /\ g = [s \in SUBSET (1 .. n) |-> g[s]]
    BY <1>3 DEF Folds
  <2> QED BY <2>1, <2>2, Zenon
<1>5. Is(F)
  <2> HIDE DEF Is
  <2> QED BY <1>4
<1> HIDE DEF F
<1> DEFINE h == [i \in 0 .. n |-> F[1 .. i]]
<1>6. h[0] = Unmatched
  <2>1. 1 .. 0 = {} /\ {} \in SUBSET (1 .. n) /\ 0 \in 0 .. n
    BY <1>0
  <2> QED BY <1>5, <2>1
<1>7. ASSUME NEW i \in 1 .. n PROVE h[i] = MatchLine(h[i - 1], text[i])
  <2>1. i \in 0 .. n /\ i - 1 \in 0 .. n
    BY <1>0
  <2>2. h[i] = F[1 .. i] /\ h[i - 1] = F[1 .. (i - 1)]
    BY <2>1
  <2>3. /\ 1 .. i \in SUBSET (1 .. n) /\ 1 .. i # {}
        /\ Max(1 .. i) = i /\ (1 .. i) \ {i} = 1 .. (i - 1)
    BY <1>0, PrefixRange
  <2> HIDE DEF h
  <2>4. F[1 .. i] = MatchLine(F[1 .. (i - 1)], text[i])
    BY <1>5, <2>3
  <2> QED BY <2>2, <2>4
<1>8. h \in [0 .. n -> A]
  <2> DEFINE Inv == [i \in 0 .. n |-> A]
  <2>1. h[0] \in Inv[0]
    BY <1>0, <1>6, <1>b
  <2>2. ASSUME NEW i \in 1 .. n, h[i - 1] \in Inv[i - 1] PROVE h[i] \in Inv[i]
    <3>1. i \in 0 .. n /\ i - 1 \in 0 .. n /\ text[i] \in Seq(Tok)
      BY <1>0
    <3>2. h[i - 1] \in A
      BY <2>2, <3>1
    <3>3. MatchLine(h[i - 1], text[i]) \in A
      BY <3>1, <3>2, <1>t, Zenon
    <3> QED BY <1>7, <3>1, <3>3
  <2> HIDE DEF h
  <2>3. \A i \in 0 .. n : h[i] \in Inv[i]
    <3> HIDE DEF Inv
    <3> QED BY <1>0, <2>1, <2>2, AlongTheChain
  <2> USE DEF h
  <2> QED BY <2>3
<1>9. n \in 0 .. n /\ h[n] = F[1 .. n]
  BY <1>0
<1> HIDE DEF h
<1> QED BY <1>0, <1>1, <1>6, <1>7, <1>8, <1>9 DEF MatchRun, n, A

(* A block with lines is matched up to a place on one of them.             *)
LEMMA MatchesWithin ==
  ASSUME NEW Tok, NEW block, block.text \in Seq(Seq(Tok)), block.text # <<>>
  PROVE  /\ Match(block).ok \in BOOLEAN
         /\ Match(block).line \in 1 .. Len(block.text)
         /\ Match(block).col \in 1 .. (Len(block.text[Match(block).line]) + 1)
<1> DEFINE text == block.text
           n == Len(text)
<1>0. n \in Nat /\ n # 0 /\ text \in Seq(Seq(Tok)) /\ \A i \in 1 .. n : text[i] \in Seq(Tok)
  BY EmptySeq
<1>1. Match(block) = [ok |-> ~FoldLeft(MatchLine, Unmatched, text).bad /\ FoldLeft(MatchLine, Unmatched, text).in = "code",
                      line |-> FoldLeft(MatchLine, Unmatched, text).line, col |-> FoldLeft(MatchLine, Unmatched, text).col]
  BY Zenon DEF Match, Unmatched
<1> HIDE DEF text, n
<1>2. PICK h : MatchRun(Tok, text, h)
  BY <1>0, MatchRuns
<1>3. /\ h \in [0 .. n -> MatchState] /\ h[0] = Unmatched
      /\ \A i \in 1 .. n : h[i] = MatchLine(h[i - 1], text[i])
      /\ FoldLeft(MatchLine, Unmatched, text) = h[n]
  BY <1>2 DEF MatchRun, n
<1> DEFINE Inv == [i \in 0 .. n |->
                     {s \in MatchState : /\ s.line <= i /\ (~s.bad => s.line = i) /\ (i # 0 => s.line # 0)
                                         /\ s.line # 0 => s.col \in 1 .. (Len(text[s.line]) + 1)}]
<1>4. h[0] \in Inv[0]
  <2>1. Unmatched.line = 0 /\ Unmatched \in MatchState /\ 0 \in 0 .. n
    BY <1>0, MatchLineType DEF Unmatched
  <2> QED BY <1>3, <2>1
<1>5. ASSUME NEW i \in 1 .. n, h[i - 1] \in Inv[i - 1] PROVE h[i] \in Inv[i]
  <2>1. i \in 0 .. n /\ i - 1 \in 0 .. n /\ i \in Nat /\ i # 0 /\ text[i] \in Seq(Tok)
    BY <1>0
  <2> DEFINE s == h[i - 1]
             r == MatchLine(s, text[i])
  <2>2. /\ s \in MatchState /\ s.line <= i - 1 /\ (~s.bad => s.line = i - 1) /\ (i - 1 # 0 => s.line # 0)
        /\ s.line # 0 => s.col \in 1 .. (Len(text[s.line]) + 1)
    BY <1>5, <2>1
  <2>3. h[i] = r
    BY <1>3
  <2>3a. h[0] = s \/ i - 1 # 0
    BY <2>1
  <2> HIDE DEF s
  <2>4. /\ r \in MatchState /\ (s.bad => r = s)
        /\ ~s.bad => r.line = s.line + 1 /\ r.col \in 1 .. (Len(text[i]) + 1)
    BY <2>1, <2>2, MatchLineCases
  <2>4a. s.line \in Nat
    BY <2>2 DEF MatchState
  <2> HIDE DEF r
  <2>5. CASE s.bad
    <3>1. i - 1 # 0
      BY <1>3, <2>3a, <2>5 DEF Unmatched
    <3> QED BY <2>1, <2>2, <2>3, <2>4, <2>4a, <2>5, <3>1
  <2>6. CASE ~s.bad
    <3>1. r.line = i
      BY <2>1, <2>2, <2>4, <2>6
    <3>2. r.col \in 1 .. (Len(text[r.line]) + 1)
      BY <2>4, <2>6, <3>1
    <3> QED BY <2>1, <2>3, <2>4, <3>1, <3>2
  <2> QED BY <2>5, <2>6
<1>6. \A i \in 0 .. n : h[i] \in Inv[i]
  <2> HIDE DEF Inv
  <2> QED BY <1>0, <1>4, <1>5, AlongTheChain
<1>7. n \in 0 .. n
  BY <1>0
<1>8. /\ h[n] \in MatchState /\ h[n].line <= n /\ h[n].line # 0
      /\ h[n].line # 0 => h[n].col \in 1 .. (Len(text[h[n].line]) + 1)
  BY <1>0, <1>6, <1>7
<1>9. h[n].line \in Nat /\ h[n].bad \in BOOLEAN
  BY <1>8 DEF MatchState
<1>10. h[n].line \in 1 .. n
  BY <1>0, <1>8, <1>9
<1>11. Match(block).line = h[n].line /\ Match(block).col = h[n].col /\ Match(block).ok = (~h[n].bad /\ h[n].in = "code")
  BY <1>1, <1>3
<1> QED BY <1>8, <1>10, <1>11 DEF text, n

-----------------------------------------------------------------------------
(* A block is split from its source.                                       *)
(* What the strict parser makes of lines: the splitter's infos, its blocks *)
(* and where they were cut.                                                *)
Split(Tok, Nd, lines, anchors, lasts) ==
  /\ lines \in Seq(Lines(Tok, Nd))
  /\ classify(lines) \in Seq(Infos(Tok, Nd))
  /\ split(lines) \in Seq(Blocks(Tok, Nd))
  /\ Cuts(classify(lines), split(lines), anchors, lasts)

LEMMA Splits ==
  ASSUME NEW Tok, NEW Nd, NEW lines \in Seq(Lines(Tok, Nd))
  PROVE  \E anchors, lasts : Split(Tok, Nd, lines, anchors, lasts)
<1>1. classify(lines) \in Seq(Infos(Tok, Nd))
  BY ClassifyKnows
<1>2. /\ split(lines) \in Seq(Blocks(Tok, Nd))
      /\ \E anchors, lasts : Cuts(classify(lines), split(lines), anchors, lasts)
  BY <1>1, BlocksAreCut DEF split
<1> QED BY <1>1, <1>2 DEF Split

(* The block of an anchor, in the lines.                                   *)
LEMMA BlockLines ==
  ASSUME NEW Tok, NEW Nd, NEW lines, NEW anchors, NEW lasts,
         Split(Tok, Nd, lines, anchors, lasts)
  PROVE  /\ Len(lines) \in Nat /\ Len(classify(lines)) = Len(lines)
         /\ Len(anchors) \in Nat /\ DOMAIN split(lines) = 1 .. Len(anchors) /\ Len(split(lines)) = Len(anchors)
         /\ \A a \in 1 .. Len(anchors) :
              /\ anchors[a] \in 1 .. Len(lines)
              /\ lasts[a] \in anchors[a] .. Len(lines)
              /\ split(lines)[a].line = anchors[a]
              /\ split(lines)[a].offset = Start(lines, anchors[a])
              /\ split(lines)[a].node = lines[anchors[a]].node
              /\ Len(split(lines)[a].text) = lasts[a] - anchors[a] + 1
              /\ \A i \in 1 .. (lasts[a] - anchors[a] + 1) :
                   split(lines)[a].text[i] = classify(lines)[anchors[a] + i - 1].stripped
         /\ \A a, c \in 1 .. Len(anchors) : a < c => anchors[a] < anchors[c]
<1> DEFINE n == Len(lines)
           m == Len(anchors)
           infos == classify(lines)
           blocks == split(lines)
<1>1. /\ lines \in Seq(Lines(Tok, Nd)) /\ infos \in Seq(Infos(Tok, Nd)) /\ blocks \in Seq(Blocks(Tok, Nd))
      /\ Cuts(infos, blocks, anchors, lasts)
  BY DEF Split
<1>2. /\ n \in Nat /\ Len(infos) = n
      /\ \A i \in 1 .. n : infos[i].node = lines[i].node /\ infos[i].offset = Start(lines, i)
  BY <1>1, LinesAre, ClassifyKnows
<1> HIDE DEF n, infos, blocks
<1>3. /\ anchors \in Seq(1 .. n) /\ Ascends(anchors) /\ DOMAIN blocks = 1 .. m
      /\ \A a \in 1 .. m : /\ Ends(infos, anchors, a) \in anchors[a] .. n
                           /\ lasts[a] \in anchors[a] .. Ends(infos, anchors, a)
                           /\ blocks[a] = BlockOf(infos, anchors[a], lasts[a])
  BY <1>1, <1>2 DEF Cuts
<1>4. m \in Nat /\ \A a \in 1 .. m : anchors[a] \in 1 .. n
  <2> DEFINE T == 1 .. n
  <2>1. anchors \in Seq(T)
    BY <1>3
  <2> HIDE DEF T
  <2>2. m \in Nat /\ \A a \in 1 .. m : anchors[a] \in T
    BY <2>1
  <2> QED BY <2>2 DEF T
<1>5. \A a, c \in 1 .. m : a < c => anchors[a] < anchors[c]
  BY <1>3 DEF Ascends
<1>6. Len(blocks) = m
  <2>1. Len(blocks) \in Nat /\ DOMAIN blocks = 1 .. Len(blocks)
    BY <1>1
  <2> HIDE DEF m
  <2> QED BY <1>3, <1>4, <2>1
<1> HIDE DEF m
<1>7. ASSUME NEW a \in 1 .. m
      PROVE  /\ anchors[a] \in 1 .. n
             /\ lasts[a] \in anchors[a] .. n
             /\ blocks[a].line = anchors[a]
             /\ blocks[a].offset = Start(lines, anchors[a])
             /\ blocks[a].node = lines[anchors[a]].node
             /\ Len(blocks[a].text) = lasts[a] - anchors[a] + 1
             /\ \A i \in 1 .. (lasts[a] - anchors[a] + 1) :
                  blocks[a].text[i] = infos[anchors[a] + i - 1].stripped
  <2> DEFINE first == anchors[a]
             last == lasts[a]
  <2>1. first \in 1 .. n /\ last \in first .. n
    <3>1. anchors[a] \in 1 .. n /\ Ends(infos, anchors, a) \in anchors[a] .. n /\ lasts[a] \in anchors[a] .. Ends(infos, anchors, a)
      BY <1>3, <1>4
    <3> QED BY <1>2, <3>1
  <2>2. blocks[a] = [text |-> [i \in 1 .. (last - first + 1) |-> infos[first + i - 1].stripped],
                     offset |-> infos[first].offset, node |-> infos[first].node, line |-> first]
    BY <1>3 DEF BlockOf
  <2> HIDE DEF first, last
  <2>3. last - first + 1 \in Nat
    BY <1>2, <2>1
  <2>4. Len(blocks[a].text) = last - first + 1
    BY <2>2, <2>3
  <2> QED BY <1>2, <2>1, <2>2, <2>4 DEF first, last
<1> QED BY <1>2, <1>3, <1>4, <1>5, <1>6, <1>7 DEF n, m, infos, blocks

-----------------------------------------------------------------------------
(* Every declaration is located in its source.                             *)
LEMMA StartsInOrder ==
  ASSUME NEW Tok, NEW Nd, NEW lines \in Seq(Lines(Tok, Nd)),
         NEW i \in 1 .. (Len(lines) + 1), NEW j \in 1 .. (Len(lines) + 1)
  PROVE  Start(lines, i) < Start(lines, j) <=> i < j
<1>0. /\ Start(lines, i) \in Nat /\ Start(lines, j) \in Nat /\ i \in Nat /\ j \in Nat
      /\ i \in 1 .. Len(lines) => Len(lines[i].toks) \in Nat
      /\ j \in 1 .. Len(lines) => Len(lines[j].toks) \in Nat
  <2>1. \A k \in 1 .. Len(lines) : lines[k].toks \in Seq(Tok)
    BY LinesAre
  <2>2. \A k \in 1 .. Len(lines) : Len(lines[k].toks) \in Nat
    BY <2>1
  <2> QED BY <2>2, Starts
<1>1. CASE i < j
  <2>1. Start(lines, i) + Len(lines[i].toks) < Start(lines, j)
    BY <1>1, StartsAscend
  <2>2. i \in 1 .. Len(lines)
    BY <1>0, <1>1
  <2> QED BY <1>0, <1>1, <2>1, <2>2
<1>2. CASE j < i
  <2>1. Start(lines, j) + Len(lines[j].toks) < Start(lines, i)
    BY <1>2, StartsAscend
  <2>2. j \in 1 .. Len(lines)
    BY <1>0, <1>2
  <2> QED BY <1>0, <1>2, <2>1, <2>2
<1> QED BY <1>0, <1>1, <1>2

(* Where the error of a block is reported.                                 *)
LEMMA BlocksAreLocated ==
  ASSUME NEW Tok, NEW Nd, NEW lines, NEW anchors, NEW lasts,
         Split(Tok, Nd, lines, anchors, lasts), NEW a \in 1 .. Len(anchors)
  PROVE  LocatesFirst(lines, classify(lines), split(lines)[a], Located(lines, split(lines)[a]))
<1> DEFINE n == Len(lines)
           infos == classify(lines)
           b == split(lines)[a]
           first == anchors[a]
           last == lasts[a]
           toks(i) == lines[i].toks
           rel == Match(b)
           L == rel.line
           c == rel.col
           line == first + L - 1
           start(i) == Start(lines, i)
<1>1. /\ n \in Nat /\ first \in 1 .. n /\ last \in first .. n
      /\ b.line = first /\ b.offset = start(first)
      /\ Len(b.text) = last - first + 1
      /\ \A i \in 1 .. (last - first + 1) : b.text[i] = infos[first + i - 1].stripped
  BY BlockLines
<1>2. b.text \in Seq(Seq(Tok)) /\ b.offset \in Nat
  <2>1. split(lines) \in Seq(Blocks(Tok, Nd))
    BY DEF Split
  <2>2. Len(split(lines)) = Len(anchors)
    BY BlockLines
  <2>3. b \in Blocks(Tok, Nd)
    BY <2>1, <2>2
  <2> HIDE DEF b
  <2> QED BY <2>3 DEF Blocks
<1>3. lines \in Seq(Lines(Tok, Nd))
  BY DEF Split
<1>4. /\ \A i \in 1 .. n : Len(toks(i)) \in Nat /\ Len(infos[i].stripped) \in Nat /\ Len(infos[i].stripped) <= Len(toks(i))
      /\ \A i \in 1 .. (n + 1) : start(i) \in Nat
      /\ \A i \in 1 .. n : start(i + 1) = start(i) + Len(toks(i)) + 1
      /\ \A i, j \in 1 .. (n + 1) : start(i) < start(j) <=> i < j
      /\ DOMAIN lines = 1 .. n
  <2>1. \A i \in 1 .. n : toks(i) \in Seq(Tok) /\ infos[i].stripped \in Seq(Tok) /\ Len(infos[i].stripped) <= Len(toks(i))
    <3>1. \A i \in 1 .. n : toks(i) \in Seq(Tok)
      BY <1>3, LinesAre
    <3>2. infos \in Seq(Infos(Tok, Nd)) /\ Len(infos) = n /\ \A i \in 1 .. n : Len(infos[i].stripped) <= Len(toks(i))
      BY <1>3, ClassifyKnows
    <3> HIDE DEF infos, n
    <3>3. \A i \in 1 .. n : infos[i] \in Infos(Tok, Nd)
      BY <3>2
    <3>4. \A info \in Infos(Tok, Nd) : info.stripped \in Seq(Tok)
      BY DEF Infos
    <3> QED BY <3>1, <3>2, <3>3, <3>4
  <2>2. \A i \in 1 .. n : Len(toks(i)) \in Nat /\ Len(infos[i].stripped) \in Nat
    BY <2>1
  <2>3. \A i, j \in 1 .. (n + 1) : start(i) < start(j) <=> i < j
    BY <1>3, StartsInOrder
  <2> QED BY <1>3, <2>1, <2>2, <2>3, Starts, LinesAre
<1> HIDE DEF n, infos, b, toks, start
<1>5. L \in 1 .. (last - first + 1) /\ c \in 1 .. (Len(infos[line].stripped) + 1) /\ line \in first .. last
  <2>1. b.text # <<>>
    <3>1. last - first + 1 # 0
      BY <1>1
    <3>2. Len(<<>>) = 0
      OBVIOUS
    <3> QED BY <1>1, <3>1, <3>2
  <2>2. L \in 1 .. Len(b.text) /\ c \in 1 .. (Len(b.text[L]) + 1)
    BY <1>2, <2>1, MatchesWithin
  <2>3. L \in 1 .. (last - first + 1)
    BY <1>1, <2>2
  <2>4. b.text[L] = infos[line].stripped
    BY <1>1, <2>3
  <2> HIDE DEF first, last, rel, L, c
  <2> QED BY <1>1, <2>2, <2>3, <2>4
<1>6. PICK h \in [0 .. (last - first + 1) -> Nat] :
           /\ h[0] = b.offset
           /\ \A i \in 1 .. (last - first + 1) : h[i] = h[i - 1] + Len(b.text[i]) + 1
           /\ \A j \in 0 .. (last - first + 1) : Offset(b.offset, [k \in 1 .. j |-> b.text[k]]) = h[j]
  <2>1. PICK h : Measures(b.offset, b.text, h)
    BY <1>2, OffsetsOfPrefixes
  <2> QED BY <1>1, <2>1, Zenon DEF Measures
<1> HIDE DEF first, last, rel, L, c
<1> DEFINE pos == blockPosToAbsolute(b, rel)
           Whole(i) == \A k \in first .. (first + i - 1) : ~(Len(infos[k].stripped) < Len(toks(k)))
<1>7. pos = h[L - 1] + c - 1
  <2>1. L - 1 \in 0 .. (last - first + 1) /\ L - 1 <= Len(b.text) /\ L - 1 \in Nat
    BY <1>1, <1>5
  <2>2. SubSeq(b.text, 1, L - 1) = [k \in 1 .. (L - 1) |-> b.text[k]]
    <3>1. SubSeq(b.text, 1, L - 1) = [k \in 1 .. ((L - 1) - 1 + 1) |-> b.text[k + 1 - 1]]
      BY <1>2, <2>1
    <3>2. (L - 1) - 1 + 1 = L - 1 /\ \A k \in 1 .. (L - 1) : k + 1 - 1 = k
      BY <2>1
    <3> QED BY <3>1, <3>2
  <2>3. Offset(b.offset, SubSeq(b.text, 1, L - 1)) = h[L - 1]
    BY <1>6, <2>1, <2>2
  <2> QED BY <2>3 DEF blockPosToAbsolute, L, c
<1> HIDE DEF pos
<1> DEFINE Inv == [i \in 0 .. (L - 1) |->
                     {x \in Nat : /\ start(first) <= x /\ x <= start(first + i)
                                  /\ Whole(i) => x = start(first + i)}]
<1>8. h[0] \in Inv[0]
  <2>1. 0 \in 0 .. (L - 1) /\ first + 0 = first /\ start(first) \in Nat
    BY <1>1, <1>4, <1>5
  <2> QED BY <1>1, <1>6, <2>1
<1>9. ASSUME NEW i \in 1 .. (L - 1), h[i - 1] \in Inv[i - 1] PROVE h[i] \in Inv[i]
  <2>1. /\ i \in 0 .. (L - 1) /\ i - 1 \in 0 .. (L - 1) /\ i \in 1 .. (last - first + 1) /\ i - 1 \in 0 .. (last - first + 1)
        /\ first + i - 1 \in 1 .. n /\ first + (i - 1) = first + i - 1 /\ (first + i - 1) + 1 = first + i
        /\ first + i \in 1 .. (n + 1) /\ first + i - 1 \in 1 .. (n + 1)
        /\ first \in 1 .. (n + 1)
    BY <1>1, <1>5
  <2> DEFINE k == first + i - 1
  <2>2. /\ h[i - 1] \in Nat /\ start(first) <= h[i - 1] /\ h[i - 1] <= start(k)
        /\ Whole(i - 1) => h[i - 1] = start(k)
    BY <1>9, <2>1
  <2>3. h[i] = h[i - 1] + Len(infos[k].stripped) + 1
    <3>1. b.text[i] = infos[k].stripped
      BY <1>1, <2>1
    <3> QED BY <1>6, <2>1, <3>1
  <2> HIDE DEF Whole
  <2>4. /\ start(k + 1) = start(k) + Len(toks(k)) + 1 /\ start(k) \in Nat /\ start(first) \in Nat
        /\ Len(toks(k)) \in Nat /\ Len(infos[k].stripped) \in Nat
        /\ Len(infos[k].stripped) <= Len(toks(k))
    BY <1>4, <2>1
  <2>5. Whole(i) => Whole(i - 1) /\ ~(Len(infos[k].stripped) < Len(toks(k)))
    BY <1>1, <2>1 DEF Whole
  <2>6. first + i = k + 1
    BY <2>1
  <2> HIDE DEF k
  <2>7. /\ h[i] \in Nat /\ start(first) <= h[i] /\ h[i] <= start(k + 1)
        /\ Whole(i) => h[i] = start(k + 1)
    BY <2>2, <2>3, <2>4, <2>5
  <2> QED BY <2>1, <2>6, <2>7
<1>10. L - 1 \in Nat /\ L - 1 \in 0 .. (L - 1) /\ first + (L - 1) = line
  BY <1>1, <1>5
<1>11. \A i \in 0 .. (L - 1) : h[i] \in Inv[i]
  <2> HIDE DEF Inv
  <2> QED BY <1>8, <1>9, <1>10, AlongTheChain
<1>12. /\ h[L - 1] \in Nat /\ start(first) <= h[L - 1] /\ h[L - 1] <= start(line)
       /\ Whole(L - 1) => h[L - 1] = start(line)
  <2>1. h[L - 1] \in Inv[L - 1]
    BY <1>10, <1>11
  <2> HIDE DEF Whole, line
  <2> QED BY <1>10, <2>1
<1> HIDE DEF Inv
<1>13. /\ line \in 1 .. n /\ line + 1 \in 1 .. (n + 1) /\ first \in 1 .. n /\ first \in 1 .. (n + 1) /\ first <= line
       /\ line \in 1 .. (n + 1) /\ 1 \in 1 .. n /\ L \in Nat /\ c \in Nat /\ c >= 1 /\ first + L - 1 = line
  BY <1>1, <1>5
<1> HIDE DEF line
<1>14. c - 1 <= Len(toks(line))
  <2>1. Len(infos[line].stripped) \in Nat /\ Len(toks(line)) \in Nat /\ Len(infos[line].stripped) <= Len(toks(line))
    BY <1>4, <1>13
  <2> QED BY <1>5, <2>1
<1>15. /\ pos \in Nat /\ start(first) <= pos /\ pos < start(line + 1)
       /\ Whole(L - 1) => start(line) <= pos /\ pos - start(line) + 1 = c
  <2>1. start(line + 1) = start(line) + Len(toks(line)) + 1 /\ start(line) \in Nat /\ start(first) \in Nat /\ Len(toks(line)) \in Nat
    BY <1>4, <1>13
  <2> HIDE DEF Whole
  <2> DEFINE x == h[L - 1]
  <2>2. /\ x \in Nat /\ start(first) <= x /\ x <= start(line) /\ (Whole(L - 1) => x = start(line))
        /\ pos = x + c - 1
    BY <1>7, <1>12
  <2> HIDE DEF x
  <2>3. c \in Nat /\ c >= 1
    BY <1>13
  <2>4. pos \in Nat /\ start(first) <= pos
    BY <2>1, <2>2, <2>3
  <2>5. pos < start(line + 1)
    BY <1>14, <2>1, <2>2, <2>3
  <2>6. Whole(L - 1) => start(line) <= pos /\ pos - start(line) + 1 = c
    BY <2>1, <2>2, <2>3
  <2> QED BY <2>4, <2>5, <2>6
<1> DEFINE T == {1} \cup {i \in DOMAIN lines : Start(lines, i) <= pos}
           at == Max(T)
<1>16. /\ at \in first .. line
       /\ Whole(L - 1) => at = line
  <2>1. T \in SUBSET (1 .. n) /\ T # {}
    BY <1>4, <1>13
  <2>2. first \in T
    BY <1>4, <1>13, <1>15 DEF start
  <2>3. Whole(L - 1) => line \in T
    <3> HIDE DEF Whole
    <3> QED BY <1>4, <1>13, <1>15 DEF start
  <2>4. \A i \in T : i = 1 \/ start(i) <= pos
    BY DEF start
  <2> HIDE DEF T, Whole
  <2>5. Max(T) \in T /\ \A i \in T : i <= Max(T)
    BY <1>1, <2>1, MaxOf
  <2>6. at \in 1 .. n /\ first <= at
    BY <2>1, <2>2, <2>5
  <2>7. at <= line
    <3>1. CASE at = 1
      BY <1>13, <3>1
    <3>2. CASE start(at) <= pos
      <4>1. at \in 1 .. (n + 1) /\ start(at) \in Nat /\ start(line + 1) \in Nat
        <5>1. at \in 1 .. (n + 1) /\ line + 1 \in 1 .. (n + 1)
          <6> HIDE DEF at
          <6> QED BY <1>1, <1>13, <2>6
        <5> HIDE DEF at
        <5> QED BY <1>4, <5>1
      <4>2. start(at) < start(line + 1)
        BY <1>15, <3>2, <4>1
      <4>3. at < line + 1
        BY <1>4, <1>13, <4>1, <4>2
      <4> QED BY <1>13, <2>6, <4>3
    <3> QED BY <2>4, <2>5, <3>1, <3>2
  <2>8. Whole(L - 1) => line <= at
    BY <2>3, <2>5
  <2> HIDE DEF at
  <2> QED BY <1>13, <2>6, <2>7, <2>8
<1>17. Located(lines, b) = <<at, pos - start(at) + 1>>
  BY DEF Located, posToLineCol, start, rel, pos
<1>18. ~Shortened(lines, infos, b.line, line) => Whole(L - 1)
  <2>1. first .. (line - 1) = first .. (first + (L - 1) - 1)
    <3>1. line - 1 = first + (L - 1) - 1
      BY <1>13
    <3> QED BY <3>1
  <2> QED BY <1>1, <2>1 DEF Shortened, toks
<1>19. Whole(L - 1) => Located(lines, b) = <<line, c>>
  <2> HIDE DEF Whole, at
  <2> QED BY <1>15, <1>16, <1>17
<1> HIDE DEF Whole
<1>20. Locates(lines, infos, b, rel, Located(lines, b))
  <2>1. Located(lines, b)[1] = at
    BY <1>17
  <2>2. b.line + rel.line - 1 = line
    BY <1>1, <1>13 DEF L
  <2>3. Located(lines, b)[1] \in b.line .. line
    BY <1>1, <1>16, <2>1
  <2>4. ~Shortened(lines, infos, b.line, line) => Located(lines, b) = <<line, rel.col>>
    BY <1>18, <1>19 DEF c
  <2> QED BY <2>2, <2>3, <2>4 DEF Locates
<1> QED BY <1>20 DEF LocatesFirst, infos, b, rel

-----------------------------------------------------------------------------
(* What the parser accepts and what it calls garbage.                      *)
(* The line of the first anchor, or the one behind the last line.          *)
Beginning(lines, anchors) == IF Len(anchors) = 0 THEN Len(lines) + 1 ELSE anchors[1]

Covered(lines) ==
  Append(Each(LAMBDA b : b.offset, split(lines)), Start(lines, Len(lines) + 1))[1]

Garbage(lines) == leadingGarbage(lines, Covered(lines))

(* The strict parser, its operands named.                                  *)
LEMMA StrictIs ==
  ASSUME NEW lines
  PROVE  parseProgramStrict(lines) =
           IF Garbage(lines) # {} THEN [ok |-> FALSE, at |-> <<Min(Garbage(lines)), 1>>]
           ELSE IF Failing(split(lines)) # <<>>
                THEN [ok |-> FALSE, at |-> Located(lines, Failing(split(lines))[1])]
                ELSE [ok |-> TRUE, nodes |-> Flat(LAMBDA b : b.node, split(lines))]
BY Zenon DEF parseProgramStrict, Strict, Garbage, Covered

LEMMA GarbageIs ==
  ASSUME NEW Tok, NEW Nd, NEW lines, NEW anchors, NEW lasts,
         Split(Tok, Nd, lines, anchors, lasts)
  PROVE  /\ Beginning(lines, anchors) \in 1 .. (Len(lines) + 1)
         /\ \A a \in 1 .. Len(anchors) : Beginning(lines, anchors) <= anchors[a]
         /\ Garbage(lines) = {i \in 1 .. Len(lines) :
                                /\ i < Beginning(lines, anchors)
                                /\ lines[i].toks # <<>> /\ Head(lines[i].toks) # Comment}
<1> DEFINE n == Len(lines)
           m == Len(anchors)
           blocks == split(lines)
           offsets == Each(LAMBDA b : b.offset, blocks)
           first == Beginning(lines, anchors)
<1>1. /\ n \in Nat /\ m \in Nat /\ DOMAIN blocks = 1 .. m
      /\ \A a \in 1 .. m : anchors[a] \in 1 .. n /\ blocks[a].offset = Start(lines, anchors[a])
      /\ \A a, c \in 1 .. m : a < c => anchors[a] < anchors[c]
  BY BlockLines
<1>2. /\ lines \in Seq(Lines(Tok, Nd)) /\ DOMAIN lines = 1 .. n
      /\ \A i \in 1 .. (n + 1) : Start(lines, i) \in Nat
  BY LinesAre, Starts DEF Split
<1> HIDE DEF n, m, blocks
<1>3. first \in 1 .. (n + 1) /\ \A a \in 1 .. m : first <= anchors[a]
  <2>1. CASE m = 0
    BY <1>1, <2>1 DEF Beginning, n, m
  <2>2. CASE m # 0
    <3>1. 1 \in 1 .. m /\ first = anchors[1]
      BY <1>1, <2>2 DEF Beginning, m
    <3>2. ASSUME NEW a \in 1 .. m PROVE anchors[1] <= anchors[a]
      <4>1. a = 1 \/ 1 < a
        BY <1>1
      <4>2. anchors[1] \in 1 .. n /\ anchors[a] \in 1 .. n
        BY <1>1, <3>1
      <4> QED BY <1>1, <3>1, <4>1, <4>2
    <3> QED BY <1>1, <3>1, <3>2
  <2> QED BY <2>1, <2>2
<1>4. Covered(lines) = Start(lines, first)
  <2>1. offsets = [a \in 1 .. m |-> blocks[a].offset]
    BY <1>1 DEF Each
  <2>2. offsets \in Seq(Nat) /\ Len(offsets) = m
    <3>1. \A a \in 1 .. m : blocks[a].offset \in Nat
      <4>1. \A a \in 1 .. m : anchors[a] \in 1 .. (n + 1)
        BY <1>1
      <4> QED BY <1>1, <1>2, <4>1
    <3>2. offsets \in [1 .. m -> Nat]
      BY <2>1, <3>1
    <3> HIDE DEF offsets
    <3> QED BY <1>1, <3>2, AsSequence
  <2>3. Covered(lines) = Append(offsets, Start(lines, n + 1))[1]
    BY DEF Covered, blocks, n
  <2> HIDE DEF offsets
  <2>4. Start(lines, n + 1) \in Nat
    BY <1>1, <1>2
  <2>5. CASE m = 0
    <3>1. offsets = <<>>
      BY <2>2, <2>5, EmptySeq
    <3>2. Append(offsets, Start(lines, n + 1))[1] = Start(lines, n + 1)
      BY <3>1
    <3> QED BY <2>3, <2>5, <3>2 DEF Beginning, n, m
  <2>6. CASE m # 0
    <3>1. 1 \in 1 .. m
      BY <1>1, <2>6
    <3>2. Append(offsets, Start(lines, n + 1))[1] = offsets[1]
      BY <2>2, <2>4, <3>1
    <3> QED BY <1>1, <2>1, <2>3, <2>6, <3>1, <3>2 DEF Beginning, m
  <2> QED BY <2>5, <2>6
<1>5. \A i \in 1 .. n : Start(lines, i) < Start(lines, first) <=> i < first
  <2> HIDE DEF first
  <2>1. \A i \in 1 .. n : i \in 1 .. (n + 1)
    BY <1>1
  <2> QED BY <1>2, <1>3, <2>1, StartsInOrder DEF n
<1> HIDE DEF first
<1>6. Garbage(lines) = {i \in 1 .. n : i < first /\ lines[i].toks # <<>> /\ Head(lines[i].toks) # Comment}
  BY <1>2, <1>4, <1>5 DEF Garbage, leadingGarbage
<1> QED BY <1>3, <1>6 DEF n, m, first

(* What the strict parser returns.                                         *)
LEMMA ParsesTo ==
  ASSUME NEW Tok, NEW Nd, NEW lines \in Seq(Lines(Tok, Nd))
  PROVE  /\ parseProgramStrict(lines).ok \in BOOLEAN
         /\ parseProgramStrict(lines).ok => parseProgramStrict(lines).nodes \in Seq(Nd)
<1> DEFINE blocks == split(lines)
           nodes == [a \in DOMAIN blocks |-> blocks[a].node]
<1>1. blocks \in Seq(Blocks(Tok, Nd))
  BY Splits DEF Split
<1>2. Flat(LAMBDA b : b.node, blocks) = FlattenSeq(nodes)
  BY DEF Flat, Each
<1> HIDE DEF blocks
<1>3. nodes \in Seq(Seq(Nd))
  <2>1. Len(blocks) \in Nat /\ DOMAIN blocks = 1 .. Len(blocks) /\ \A a \in 1 .. Len(blocks) : blocks[a] \in Blocks(Tok, Nd)
    BY <1>1
  <2>2. \A b \in Blocks(Tok, Nd) : b.node \in Seq(Nd)
    BY DEF Blocks
  <2>3. nodes \in [1 .. Len(blocks) -> Seq(Nd)]
    BY <2>1, <2>2
  <2> HIDE DEF nodes
  <2> QED BY <2>1, <2>3, AsSequence
<1> HIDE DEF nodes
<1>4. FlattenSeq(nodes) \in Seq(Nd)
  BY <1>3, FlatRange
<1>5. CASE Garbage(lines) # {}
  <2>1. parseProgramStrict(lines) = [ok |-> FALSE, at |-> <<Min(Garbage(lines)), 1>>]
    BY <1>5, StrictIs, Zenon
  <2> QED BY <2>1
<1>6. CASE Garbage(lines) = {} /\ Failing(blocks) # <<>>
  <2>1. parseProgramStrict(lines) = [ok |-> FALSE, at |-> Located(lines, Failing(blocks)[1])]
    BY <1>6, StrictIs, Zenon DEF blocks
  <2> QED BY <2>1
<1>7. CASE Garbage(lines) = {} /\ Failing(blocks) = <<>>
  <2>1. parseProgramStrict(lines) = [ok |-> TRUE, nodes |-> FlattenSeq(nodes)]
    BY <1>2, <1>7, StrictIs, Zenon DEF blocks
  <2> QED BY <1>4, <2>1
<1> QED BY <1>5, <1>6, <1>7

(* A source without lines the splitter drops is read in full.              *)
LEMMA AcceptedKeepsTheCode ==
  ASSUME NEW Tok, NEW Nd, NEW lines, NEW anchors, NEW lasts,
         Split(Tok, Nd, lines, anchors, lasts), Garbage(lines) = {}
  PROVE  KeepsTheCode(lines, classify(lines), split(lines))
<1> DEFINE n == Len(lines)
           infos == classify(lines)
<1>1. /\ lines \in Seq(Lines(Tok, Nd)) /\ infos \in Seq(Infos(Tok, Nd))
      /\ Cuts(infos, split(lines), anchors, lasts)
  BY DEF Split
<1>2. /\ n \in Nat /\ Len(infos) = n
      /\ \A i \in 1 .. n : Quiet(lines, i) => infos[i].stripped = <<>>
  BY <1>1, ClassifyKnows, LinesAre
<1>3. \A i \in 1 .. n : i < Beginning(lines, anchors) => lines[i].toks = <<>> \/ Head(lines[i].toks) = Comment
  BY GarbageIs
<1>4. Beginning(lines, anchors) \in 1 .. (n + 1)
  BY GarbageIs
<1> HIDE DEF n, infos
<1>5. ASSUME NEW i \in 1 .. n, \A a \in 1 .. Len(anchors) : i < anchors[a] PROVE infos[i].stripped = <<>>
  <2>1. i < Beginning(lines, anchors)
    <3>1. CASE Len(anchors) = 0
      BY <1>2, <3>1 DEF Beginning, n
    <3>2. CASE Len(anchors) # 0
      <4>1. 1 \in 1 .. Len(anchors)
        <5>1. Len(anchors) \in Nat
          BY BlockLines
        <5> QED BY <3>2, <5>1
      <4> QED BY <1>5, <3>2, <4>1 DEF Beginning
    <3> QED BY <3>1, <3>2
  <2>2. ASSUME NEW j \in 1 .. i PROVE lines[j].toks = <<>> \/ Head(lines[j].toks) = Comment
    <3>1. j \in 1 .. n /\ j < Beginning(lines, anchors)
      BY <1>2, <1>4, <2>1
    <3> QED BY <1>3, <3>1
  <2>3. Quiet(lines, i)
    BY <2>2 DEF Quiet
  <2> QED BY <1>2, <2>3
<1>6. CodeOf(infos) = Flat(LAMBDA b : FlattenSeq(b.text), split(lines))
  BY <1>1, <1>2, <1>5, BlocksKeepTheCode
<1> QED BY <1>6 DEF KeepsTheCode, infos

(* A first line that is dropped is in no block, and nothing precedes it.   *)
LEMMA GarbageIsLocated ==
  ASSUME NEW Tok, NEW Nd, NEW lines, NEW anchors, NEW lasts,
         Split(Tok, Nd, lines, anchors, lasts), Garbage(lines) # {}
  PROVE  LocatesGarbage(lines, split(lines), <<Min(Garbage(lines)), 1>>)
<1> DEFINE n == Len(lines)
           G == Garbage(lines)
           at == Min(G)
           first == Beginning(lines, anchors)
<1>1. /\ n \in Nat /\ \A i \in 1 .. n : lines[i].toks \in Seq(Tok)
  BY LinesAre DEF Split
<1>2. /\ G = {i \in 1 .. n : i < first /\ lines[i].toks # <<>> /\ Head(lines[i].toks) # Comment}
      /\ first \in 1 .. (n + 1)
      /\ \A a \in 1 .. Len(anchors) : first <= anchors[a]
  BY GarbageIs
<1>3. at \in G /\ \A i \in G : at <= i
  <2>1. G \in SUBSET (1 .. n)
    BY <1>2
  <2> HIDE DEF n
  <2> QED BY <1>1, <2>1, MinOf
<1> HIDE DEF n, G, at, first
<1>4. at \in 1 .. n /\ at < first /\ lines[at].toks # <<>> /\ Head(lines[at].toks) # Comment
  BY <1>2, <1>3
<1>5. scanLine(lines[at].toks, FALSE).stripped # <<>>
  <2>1. ScansTo(Tok, lines[at].toks, FALSE, scanLine(lines[at].toks, FALSE))
    BY <1>1, <1>4, ScanLineIs
  <2> QED BY <1>4, <2>1 DEF ScansTo
<1>6. ASSUME NEW i \in 1 .. (at - 1) PROVE scanLine(lines[i].toks, FALSE).stripped = <<>>
  <2>1. i \in 1 .. n /\ i < first /\ ~(at <= i)
    BY <1>1, <1>2, <1>4
  <2>2. lines[i].toks = <<>> \/ Head(lines[i].toks) = Comment
    BY <1>2, <1>3, <2>1
  <2>3. ScansTo(Tok, lines[i].toks, FALSE, scanLine(lines[i].toks, FALSE))
    BY <1>1, <2>1, ScanLineIs
  <2> QED BY <2>2, <2>3 DEF ScansTo
<1>7. ASSUME NEW a \in DOMAIN split(lines) PROVE at < split(lines)[a].line
  <2>1. a \in 1 .. Len(anchors) /\ split(lines)[a].line = anchors[a] /\ anchors[a] \in 1 .. n
    BY BlockLines DEF n
  <2>2. first <= anchors[a]
    BY <1>2, <2>1
  <2> QED BY <1>1, <1>2, <1>4, <2>1, <2>2
<1> QED BY <1>5, <1>6, <1>7 DEF LocatesGarbage, at, G

(* The strict parser reads in full what it accepts, and locates what it    *)
(* rejects.                                                                *)
LEMMA StrictReadsEverything ==
  ASSUME NEW Tok, NEW Nd, NEW lines \in Seq(Lines(Tok, Nd))
  PROVE  ReadsEverything(lines, parseProgramStrict(lines), classify(lines), split(lines))
<1> DEFINE r == parseProgramStrict(lines)
           blocks == split(lines)
<1>1. PICK anchors, lasts : Split(Tok, Nd, lines, anchors, lasts)
  BY Splits
<1>2. CASE Garbage(lines) # {}
  <2>1. r = [ok |-> FALSE, at |-> <<Min(Garbage(lines)), 1>>]
    BY <1>2, StrictIs, Zenon
  <2>2. LocatesGarbage(lines, blocks, r.at)
    <3>1. r.at = <<Min(Garbage(lines)), 1>>
      BY <2>1
    <3>2. LocatesGarbage(lines, blocks, <<Min(Garbage(lines)), 1>>)
      BY <1>1, <1>2, GarbageIsLocated
    <3> HIDE DEF r
    <3> QED BY <3>1, <3>2
  <2> QED BY <2>1, <2>2 DEF ReadsEverything
<1>3. CASE Garbage(lines) = {} /\ Failing(blocks) # <<>>
  <2>1. r = [ok |-> FALSE, at |-> Located(lines, Failing(blocks)[1])]
    BY <1>3, StrictIs, Zenon
  <2>2. \E a \in 1 .. Len(anchors) : Failing(blocks)[1] = blocks[a]
    <3>1. blocks \in Seq(Blocks(Tok, Nd)) /\ DOMAIN blocks = 1 .. Len(anchors)
      BY <1>1, BlockLines DEF Split
    <3> HIDE DEF blocks
    <3>2. /\ Failing(blocks) \in Seq(Blocks(Tok, Nd))
          /\ Range(Failing(blocks)) \subseteq Range(blocks)
      BY <3>1, KeptIs DEF Failing
    <3>3. Failing(blocks)[1] \in Range(Failing(blocks))
      <4>1. Len(Failing(blocks)) \in Nat /\ Len(Failing(blocks)) # 0
        BY <1>3, <3>2, EmptySeq
      <4>2. 1 \in DOMAIN Failing(blocks)
        BY <3>2, <4>1
      <4> QED BY <4>2 DEF Range
    <3> QED BY <3>1, <3>2, <3>3 DEF Range
  <2>3. LocatesFirst(lines, classify(lines), Failing(blocks)[1], r.at)
    <3>1. LocatesFirst(lines, classify(lines), Failing(blocks)[1], Located(lines, Failing(blocks)[1]))
      BY <1>1, <2>2, BlocksAreLocated
    <3>2. r.at = Located(lines, Failing(blocks)[1])
      BY <2>1
    <3> HIDE DEF r
    <3> QED BY <3>1, <3>2
  <2> QED BY <1>3, <2>1, <2>3 DEF ReadsEverything
<1>4. CASE Garbage(lines) = {} /\ Failing(blocks) = <<>>
  <2>1. r = [ok |-> TRUE, nodes |-> Flat(LAMBDA b : b.node, blocks)]
    BY <1>4, StrictIs, Zenon
  <2>2. KeepsTheCode(lines, classify(lines), blocks)
    BY <1>1, <1>4, AcceptedKeepsTheCode
  <2> QED BY <2>1, <2>2 DEF ReadsEverything
<1> QED BY <1>2, <1>3, <1>4

-----------------------------------------------------------------------------
(* The parsed program is the source, in every reachable state.             *)
(* The tokens and the declarations of a client's lines.                    *)
Tokens(c)       == UNION {Range(line.toks) : line \in Written(c)}
Declarations(c) == UNION {Range(line.node) : line \in Written(c)}

LEMMA WiderSeq ==
  ASSUME NEW S, NEW T, S \subseteq T, NEW s \in Seq(S)
  PROVE  s \in Seq(T)
OBVIOUS

LEMMA WrittenLines ==
  ASSUME NEW c \in DOMAIN Clients
  PROVE  /\ Written(c) \subseteq Lines(Tokens(c), Declarations(c))
         /\ Clients[c].start \in Seq(Lines(Tokens(c), Declarations(c)))
<1>1. IsSequence(Clients[c].start) /\ \A line \in Written(c) : IsLine(line)
  BY ClientsAssumption
<1>2. ASSUME NEW line \in Written(c) PROVE line \in Lines(Tokens(c), Declarations(c))
  <2>1. line = [toks |-> line.toks, node |-> line.node]
        /\ line.toks \in Seq(Range(line.toks)) /\ line.node \in Seq(Range(line.node))
    BY <1>1 DEF IsLine, IsSequence
  <2>2. Range(line.toks) \subseteq Tokens(c) /\ Range(line.node) \subseteq Declarations(c)
    BY DEF Tokens, Declarations
  <2>3. line.toks \in Seq(Tokens(c)) /\ line.node \in Seq(Declarations(c))
    BY <2>1, <2>2, WiderSeq
  <2> QED BY <2>1, <2>3 DEF Lines
<1>3. Clients[c].start \in Seq(Lines(Tokens(c), Declarations(c)))
  <2>1. Range(Clients[c].start) \subseteq Lines(Tokens(c), Declarations(c))
    BY <1>2 DEF Written
  <2> QED BY <1>1, <2>1, WiderSeq DEF IsSequence
<1> QED BY <1>2, <1>3

(* A source is lines of its client, and what was parsed is that source.    *)
SourceOK ==
  /\ client \in DOMAIN Clients
  /\ source \in Seq(Lines(Tokens(client), Declarations(client)))
  /\ parsed = parseProgramStrict(source)

LEMMA ProgramIs ==
  ASSUME SourceOK
  PROVE  Program(parsed) \in Seq(Declarations(client))
<1>1. parsed.ok => parsed.nodes \in Seq(Declarations(client))
  BY ParsesTo DEF SourceOK
<1> QED BY <1>1 DEF Program

LEMMA SourceInit ==
  ASSUME Init
  PROVE  SourceOK
BY WrittenLines DEF Init, SourceOK, me

LEMMA SourceStep ==
  ASSUME SourceOK, [Next]_vars
  PROVE  SourceOK'
<1>1. ASSUME UNCHANGED <<client, source, parsed>> PROVE SourceOK'
  BY <1>1 DEF SourceOK
<1>2. CASE Edit
  <2>1. PICK line \in me.lines : source' = Append(source, line)
    BY <1>2 DEF Edit
  <2>2. client' = client /\ parsed' = parseProgramStrict(source')
    BY <1>2 DEF Edit
  <2>3. line \in Lines(Tokens(client), Declarations(client))
    BY <2>1, WrittenLines DEF SourceOK, Written, me
  <2>4. source' \in Seq(Lines(Tokens(client), Declarations(client)))
    BY <2>1, <2>3 DEF SourceOK
  <2> QED BY <2>2, <2>4 DEF SourceOK
<1>3. CASE UNCHANGED vars
  BY <1>1, <1>3 DEF vars
<1>4. ASSUME NEW op, NEW r, Serve(op, r) PROVE SourceOK'
  BY <1>1, <1>4 DEF Serve
<1>5. CASE Parse \/ Check \/ Typecheck \/ CompileSchemas \/ RunGrammar \/ RunTtable \/ Diagram \/ UnknownTool
  BY <1>4, <1>5 DEF Parse, Check, Typecheck, CompileSchemas, RunGrammar, RunTtable, Diagram, UnknownTool
<1>6. CASE CompileJs
  BY <1>1, <1>6 DEF CompileJs
<1>7. CASE RunSource \/ RunCompiled
  BY <1>1, <1>7 DEF RunSource, RunCompiled, Run1
<1>8. CASE SeedCell \/ RunNetwork
  BY <1>1, <1>8 DEF SeedCell, RunNetwork
<1>9. CASE ReadPdf \/ WritePdf \/ Upload
  BY <1>1, <1>9 DEF ReadPdf, WritePdf, Upload
<1> QED BY <1>2, <1>3, <1>5, <1>6, <1>7, <1>8, <1>9 DEF Next

(* An operation always answers of the source as it is: what was parsed is  *)
(* what the strict parser makes of the lines written so far, and those are *)
(* the client's.  (operations/*.ts parse before anything else)             *)
THEOREM ParsedIsSource == Spec => []SourceOK
<1>1. Init => SourceOK
  BY SourceInit
<1>2. SourceOK /\ [Next]_vars => SourceOK'
  BY SourceStep
<1> QED BY <1>1, <1>2, PTL DEF Spec

(* What the strict parser accepts it reads in full, every token outside the*)
(* comments in the text of one block, in order; what it rejects it locates *)
(* in the source: for every line of every length a client can write.       *)
(* (split.ts:99-129, parse-strict.ts:33-83)                                *)
THEOREM ReadsInFull == Spec => []ReadInFull
<1>1. SourceOK => ReadInFull
  <2> SUFFICES ASSUME SourceOK PROVE ReadsEverything(source, parsed, classify(source), split(source))
    BY DEF ReadInFull
  <2> QED BY StrictReadsEverything DEF SourceOK
<1> QED BY <1>1, ParsedIsSource, PTL

-----------------------------------------------------------------------------
LEMMA CheckedIs ==
  ASSUME NEW checks
  PROVE  Checked(checks).outcome \in {"result", "failure"}
BY DEF Checked, Succeeds, Fails

LEMMA CheckedSucceeds ==
  ASSUME NEW T, NEW checks \in Seq(T), Checked(checks) = Succeeds, NEW c \in Range(checks)
  PROVE  ~c[1]
<1> DEFINE failed == Kept(checks, {d \in Range(checks) : d[1]})
<1>1. failed = <<>>
  <2>1. CASE failed # <<>>
    <3>1. Checked(checks) = Fails(failed[1][2])
      BY <2>1 DEF Checked
    <3>2. Fails(failed[1][2]).outcome = "failure" /\ Succeeds.outcome = "result"
      BY DEF Fails, Succeeds
    <3> HIDE DEF failed
    <3> QED BY <3>1, <3>2
  <2> QED BY <2>1
<1>2. Range(checks) \cap {d \in Range(checks) : d[1]} = {}
  BY <1>1, KeptIs
<1> QED BY <1>2

(* The declaration of a name, when there is one.                           *)
LEMMA TheIs ==
  ASSUME NEW Nd, NEW nodes \in Seq(Nd), NEW kind, NEW name, Declares(nodes, kind, name)
  PROVE  The(nodes, kind, name) \in Range(OfKind(nodes, kind))
<1> DEFINE at == Min(Named(nodes, kind, name))
<1>1. at \in Named(nodes, kind, name)
  <2>1. DOMAIN nodes = 1 .. Len(nodes) /\ Len(nodes) \in Nat
    OBVIOUS
  <2>2. Named(nodes, kind, name) \in SUBSET (1 .. Len(nodes))
    BY <2>1 DEF Named
  <2> QED BY <2>1, <2>2, MinOf DEF Declares
<1> HIDE DEF at
<1>2. at \in DOMAIN nodes /\ nodes[at].kind = kind
  BY <1>1 DEF Named
<1>3. Range(OfKind(nodes, kind)) = Range(nodes) \cap {n \in Range(nodes) : n.kind = kind}
  BY KeptIs DEF OfKind
<1> QED BY <1>2, <1>3 DEF The, at, Range

(* A grammar is run outside of any try only if it was found.               *)
LEMMA RunGrammarThrows ==
  ASSUME NEW Nd, NEW p, Program(p) \in Seq(Nd), NEW name, NEW text,
         runGrammar(p, name, text).outcome = "exception"
  PROVE  /\ runGrammar(p, name, text).why = "no scanner"
         /\ \E g \in Range(OfKind(Program(p), "grammar")) : ~ScannerBuilds(g)
<1> DEFINE nodes == Program(p)
           g == The(nodes, "grammar", name)
           checks == <<Syntax(p), <<~Declares(nodes, "grammar", name), "unknown-grammar">>>>
           tried == Checked(checks)
           result == compileGrammar(g, nodes, text)
           unsound == ~validateGrammarSyntax(g) \/ ~validateGrammarSignature(g, nodes)
           no == (g.signature # <<>> /\ g.signature[1].depth > 0) /\ ~ScannerBuilds(g)
<1>0. runGrammar(p, name, text) =
        IF tried # Succeeds THEN tried
        ELSE IF unsound THEN Fails("syntax")
        ELSE IF no THEN Throws("no scanner")
        ELSE IF result.is = "contradiction" THEN Fails("no-match") ELSE Succeeds
  BY Zenon DEF runGrammar
<1>1. /\ Fails("syntax").outcome = "failure" /\ Fails("no-match").outcome = "failure" /\ Succeeds.outcome = "result"
      /\ Throws("no scanner").why = "no scanner"
  BY DEF Fails, Succeeds, Throws
<1>2. tried.outcome # "exception"
  BY CheckedIs
<1> HIDE DEF result, unsound, tried, no
<1>3. tried = Succeeds /\ ~unsound /\ no
  <2>1. ASSUME tried # Succeeds PROVE FALSE
    <3>1. runGrammar(p, name, text) = tried
      BY <1>0, <2>1, Zenon
    <3> QED BY <1>2, <3>1
  <2>2. ASSUME tried = Succeeds, unsound PROVE FALSE
    <3>1. runGrammar(p, name, text) = Fails("syntax")
      BY <1>0, <2>2, Zenon
    <3> QED BY <1>1, <3>1
  <2>3. ASSUME tried = Succeeds, ~unsound, ~no PROVE FALSE
    <3>1. runGrammar(p, name, text) = Fails("no-match") \/ runGrammar(p, name, text) = Succeeds
      BY <1>0, <2>3, Zenon
    <3> QED BY <1>1, <3>1
  <2> QED BY <2>1, <2>2, <2>3
<1>4. runGrammar(p, name, text).why = "no scanner"
  <2>1. runGrammar(p, name, text) = Throws("no scanner")
    BY <1>0, <1>3, Zenon
  <2> QED BY <1>1, <2>1
<1>5. Declares(nodes, "grammar", name)
  <2>1. checks \in Seq({checks[1], checks[2]}) /\ checks[2] \in Range(checks)
        /\ checks[2][1] = ~Declares(nodes, "grammar", name)
    <3>1. DOMAIN checks = {1, 2}
      OBVIOUS
    <3> QED BY <3>1 DEF Range
  <2>2. ~checks[2][1]
    <3> HIDE DEF checks
    <3> QED BY <1>3, <2>1, CheckedSucceeds DEF tried
  <2> QED BY <2>1, <2>2
<1>6. g \in Range(OfKind(nodes, "grammar"))
  BY <1>5, TheIs
<1> QED BY <1>3, <1>4, <1>6 DEF no

-----------------------------------------------------------------------------
(* A failure is a value.                                                   *)
(* An answer that is no exception is no protocol error.                    *)
LEMMA DispatchIs ==
  ASSUME NEW op, NEW r
  PROVE  /\ dispatch(op, r).op = op
         /\ op \in operations => /\ dispatch(op, r).isError = (r.outcome = "exception")
                                 /\ dispatch(op, r).why = r.why
                                 /\ dispatch(op, r).ok = (r.outcome = "result")
<1>1. CASE op \in operations
  <2>1. dispatch(op, r) = [op |-> op, ok |-> r.outcome = "result", why |-> r.why, isError |-> r.outcome = "exception"]
    BY <1>1, Zenon DEF dispatch
  <2> QED BY <2>1
<1>2. CASE op \notin operations
  <2>1. dispatch(op, r) = [op |-> op, ok |-> FALSE, why |-> "unknown tool", isError |-> TRUE]
    BY <1>2, Zenon DEF dispatch
  <2>2. \A why, no, yes : [op |-> op, ok |-> no, why |-> why, isError |-> yes].op = op
    OBVIOUS
  <2>3. dispatch(op, r).op = op
    BY <2>1, <2>2, Zenon
  <2> QED BY <1>2, <2>3, Zenon
<1> QED BY <1>1, <1>2

LEMMA AnswersWithValue ==
  ASSUME NEW op \in operations, NEW r, r.outcome # "exception", Answer(op, r)
  PROVE  FailuresAreValues'
<1>1. ~answer'.isError
  BY DispatchIs DEF Answer
<1> QED BY <1>1 DEF FailuresAreValues

LEMMA OutcomeIs ==
  ASSUME NEW why
  PROVE  /\ Fails(why).outcome = "failure" /\ Succeeds.outcome = "result"
         /\ Throws(why).outcome = "exception" /\ Throws(why).why = why
BY DEF Fails, Succeeds, Throws

LEMMA BeginFails ==
  ASSUME NEW op \in {"run", "run-compiled"}, NEW code, NEW name, NEW cells \in me.cells,
         FailuresAreValues, UNCHANGED <<client, parsed>>, Begin(op, code, name, cells)
  PROVE  FailuresAreValues'
<1> DEFINE loaded == loadProgram(code)
           why == IF loaded.ok THEN "unknown network" ELSE "load error"
<1>0. op \in operations
  BY DEF operations
<1> HIDE DEF loaded, why
<1>1. CASE ~loaded.ok \/ name \notin loaded.networks
  <2>1. Answer(op, Fails(why))
    BY <1>1 DEF Begin, loaded, why
  <2>2. Fails(why).outcome # "exception"
    BY OutcomeIs
  <2> QED BY <1>0, <2>1, <2>2, AnswersWithValue
<1>2. CASE ~(~loaded.ok \/ name \notin loaded.networks) /\ cells = <<>>
  <2>1. Answer(op, Throws("no cells"))
    BY <1>2 DEF Begin, loaded
  <2>2. answer'.op = op /\ answer'.why = "no cells"
    <3>1. answer' = dispatch(op, Throws("no cells")) /\ Throws("no cells").why = "no cells"
      BY <2>1, OutcomeIs DEF Answer
    <3> QED BY <1>0, <3>1, DispatchIs
  <2> QED BY <1>2, <2>2 DEF FailuresAreValues, me
<1>3. CASE ~(~loaded.ok \/ name \notin loaded.networks) /\ cells # <<>>
  <2>1. UNCHANGED answer
    BY <1>3 DEF Begin, loaded
  <2> QED BY <2>1 DEF FailuresAreValues, me
<1> QED BY <1>1, <1>2, <1>3

LEMMA RunFails ==
  ASSUME NEW op \in {"run", "run-compiled"}, NEW ready, NEW code, ready.outcome # "exception",
         FailuresAreValues, Run1(op, ready, code)
  PROVE  FailuresAreValues'
<1>1. PICK name \in me.names, cells \in me.cells :
         IF ready = Succeeds THEN Begin(op, code, name, cells) ELSE Answer(op, ready) /\ UNCHANGED open
  BY DEF Run1
<1>2. UNCHANGED <<client, parsed>>
  BY DEF Run1
<1>3. CASE ready = Succeeds
  <2>1. Begin(op, code, name, cells)
    BY <1>1, <1>3
  <2> QED BY <1>2, <2>1, BeginFails
<1>4. CASE ready # Succeeds
  <2>1. Answer(op, ready) /\ op \in operations
    BY <1>1, <1>4 DEF operations
  <2> QED BY <2>1, AnswersWithValue
<1> QED BY <1>3, <1>4

LEMMA UnreadableIs ==
  \A name : Unreadable(name).outcome # "exception" /\ Unwritable(name).outcome # "exception"
BY CheckedIs DEF Unreadable, Unwritable

LEMMA FailuresStep ==
  ASSUME SourceOK, FailuresAreValues, [Next]_vars
  PROVE  FailuresAreValues'
<1>1. ASSUME UNCHANGED <<client, parsed, answer>> PROVE FailuresAreValues'
  BY <1>1 DEF FailuresAreValues, me
<1>2. ASSUME NEW op \in operations, NEW checks, Answer(op, Checked(checks)) PROVE FailuresAreValues'
  <2>1. Checked(checks).outcome # "exception"
    BY CheckedIs
  <2> QED BY <1>2, <2>1, AnswersWithValue
<1>3. CASE Edit
  <2>1. answer' = NoAnswer
    BY <1>3 DEF Edit
  <2> QED BY <2>1 DEF FailuresAreValues
<1>4. CASE Parse
  <2>1. \E checks : Answer("parse", Checked(checks))
    BY <1>4 DEF Parse, Serve, parse
  <2> QED BY <1>2, <2>1 DEF operations
<1>5. CASE Check
  <2>1. \E checks : Answer("check", Checked(checks))
    BY <1>5 DEF Check, Serve, check
  <2> QED BY <1>2, <2>1 DEF operations
<1>6. CASE Typecheck
  <2>1. \E checks : Answer("typecheck", Checked(checks))
    BY <1>6 DEF Typecheck, Serve, typecheck
  <2> QED BY <1>2, <2>1 DEF operations
<1>7. CASE CompileSchemas
  <2>1. \E checks : Answer("compile-schemas", Checked(checks))
    BY <1>7 DEF CompileSchemas, Serve, compileSchemas
  <2> QED BY <1>2, <2>1 DEF operations
<1>8. CASE RunGrammar
  <2>1. PICK name \in me.names, text \in me.texts : Serve("run-grammar", runGrammar(parsed, name, text))
    BY <1>8 DEF RunGrammar
  <2> DEFINE r == runGrammar(parsed, name, text)
  <2>2. Answer("run-grammar", r) /\ parsed' = parsed /\ "run-grammar" \in operations
    BY <2>1 DEF Serve, operations
  <2>3. CASE r.outcome # "exception"
    BY <2>2, <2>3, AnswersWithValue
  <2>4. CASE r.outcome = "exception"
    <3>1. /\ r.why = "no scanner"
          /\ \E g \in Range(OfKind(Program(parsed), "grammar")) : ~ScannerBuilds(g)
      BY <2>4, ProgramIs, RunGrammarThrows
    <3>2. answer'.op = "run-grammar" /\ answer'.why = r.why
      BY <2>2, DispatchIs DEF Answer
    <3> HIDE DEF r
    <3> QED BY <2>2, <3>1, <3>2 DEF FailuresAreValues, Program
  <2> QED BY <2>3, <2>4
<1>9. CASE RunTtable
  <2>1. PICK name \in me.names, text \in me.texts : Serve("run-ttable", runTtable(parsed, name, text))
    BY <1>9 DEF RunTtable
  <2> DEFINE r == runTtable(parsed, name, text)
             t == The(Program(parsed), "ttable", name)
             tried == Checked(<<Syntax(parsed), <<~Declares(Program(parsed), "ttable", name), "unknown-ttable">>>>)
  <2>2. r \in {tried, Fails("syntax"), Fails("no-match"), Succeeds}
    <3>1. r = IF tried # Succeeds THEN tried
              ELSE IF ~validateTTable(t, Program(parsed)) THEN Fails("syntax")
              ELSE IF compileTTable(t, Program(parsed), text).is = "contradiction" THEN Fails("no-match") ELSE Succeeds
      BY Zenon DEF runTtable
    <3> HIDE DEF r, t, tried
    <3> QED BY <3>1
  <2>3. tried.outcome # "exception"
    BY CheckedIs
  <2>4. r.outcome # "exception"
    <3> HIDE DEF r, tried
    <3> QED BY <2>2, <2>3, OutcomeIs
  <2>5. Answer("run-ttable", r) /\ "run-ttable" \in operations
    BY <2>1 DEF Serve, operations
  <2> QED BY <2>4, <2>5, AnswersWithValue
<1>10. CASE Diagram
  <2>1. \E checks : Answer("diagram", Checked(checks))
    BY <1>10 DEF Diagram, Serve, diagram
  <2> QED BY <1>2, <2>1 DEF operations
<1>11. CASE UnknownTool
  <2>1. answer'.op = "lint"
    BY <1>11, DispatchIs DEF UnknownTool, Serve, Answer
  <2> QED BY <2>1 DEF FailuresAreValues, operations
<1>12. CASE CompileJs
  <2> DEFINE r == compileJs(parsed)
  <2>1. Answer("compile-js", r) /\ "compile-js" \in operations
    BY <1>12 DEF CompileJs, operations
  <2>2. r.outcome # "exception"
    BY OutcomeIs, Zenon DEF compileJs
  <2> HIDE DEF r
  <2> QED BY <2>1, <2>2, AnswersWithValue
<1>13. CASE RunSource
  <2> DEFINE ready == Checked(<<<<source = <<>>, "source is required">>, <<compileJs(parsed) # Succeeds, "compile error">>>>)
             code == emitJs(Program(parsed)).code
  <2>1. Run1("run", ready, code)
    BY <1>13, Zenon DEF RunSource
  <2>2. ready.outcome # "exception"
    BY CheckedIs
  <2> HIDE DEF ready, code
  <2> QED BY <2>1, <2>2, RunFails
<1>14. CASE RunCompiled
  <2> DEFINE ready == Checked(<<<<artifact = <<>>, "code is required">>>>)
             code == artifact[1]
  <2>1. Run1("run-compiled", ready, code)
    BY <1>14, Zenon DEF RunCompiled
  <2>2. ready.outcome # "exception"
    BY CheckedIs
  <2> HIDE DEF ready, code
  <2> QED BY <2>1, <2>2, RunFails
<1>15. CASE SeedCell
  <2>1. PICK i \in DOMAIN open :
      /\ open[i].op \in {"run", "run-compiled"}
      /\ LET expr == Head(open[i].todo)
             r    == IF expr.is = "file" THEN Unreadable(expr.name)
                     ELSE IF Evaluates(open[i].loaded, expr) THEN Succeeds ELSE Fails("cannot evaluate cell")
         IN IF r = Succeeds
            THEN open' = [open EXCEPT ![i].todo = Tail(@)] /\ UNCHANGED answer
            ELSE Answer(open[i].op, r) /\ Drop(i)
    BY <1>15, Zenon DEF SeedCell
  <2> DEFINE expr == Head(open[i].todo)
             r == IF expr.is = "file" THEN Unreadable(expr.name)
                  ELSE IF Evaluates(open[i].loaded, expr) THEN Succeeds ELSE Fails("cannot evaluate cell")
  <2>2. r.outcome # "exception"
    BY UnreadableIs, OutcomeIs
  <2>3. open[i].op \in operations /\ UNCHANGED <<client, parsed>>
    BY <1>15, <2>1 DEF operations, SeedCell
  <2>4. UNCHANGED answer \/ Answer(open[i].op, r)
    BY <2>1
  <2> HIDE DEF r
  <2> QED BY <1>1, <2>2, <2>3, <2>4, AnswersWithValue
<1>16. CASE RunNetwork
  <2>1. PICK i \in DOMAIN open : /\ open[i].op \in {"run", "run-compiled"}
                                 /\ \E checks : Answer(open[i].op, Checked(checks))
    BY <1>16 DEF RunNetwork
  <2>2. open[i].op \in operations
    BY <2>1 DEF operations
  <2> QED BY <1>2, <2>1, <2>2
<1>17. CASE ReadPdf
  <2>1. UNCHANGED <<client, parsed>>
    BY <1>17 DEF ReadPdf
  <2>2. \E file : UNCHANGED answer \/ Answer("pdf-to-text", Unreadable(file))
    BY <1>17 DEF ReadPdf
  <2> QED BY <1>1, <2>1, <2>2, UnreadableIs, AnswersWithValue DEF operations
<1>18. CASE WritePdf
  <2>0. "pdf-to-text" \in operations
    BY DEF operations
  <2>1. PICK i \in DOMAIN open : PrepareText(i) \/ EmptyText(i) \/ WritePiece(i) \/ FinishText(i) \/ FailToWrite(i)
    BY <1>18 DEF WritePdf
  <2>2. UNCHANGED <<client, parsed>>
    BY <1>18 DEF WritePdf
  <2>3. CASE PrepareText(i)
    <3> DEFINE r == IF open[i].bytes.is # "pdf" THEN Fails("cannot decode") ELSE Unwritable(TextOf(open[i]))
    <3>1. UNCHANGED answer \/ Answer("pdf-to-text", r)
      BY <2>3, Zenon DEF PrepareText
    <3>2. r.outcome # "exception"
      BY UnreadableIs, OutcomeIs
    <3> HIDE DEF r
    <3> QED BY <1>1, <2>0, <2>2, <3>1, <3>2, AnswersWithValue
  <2>4. CASE EmptyText(i) \/ WritePiece(i)
    BY <1>1, <2>2, <2>4 DEF EmptyText, WritePiece
  <2>5. CASE FinishText(i)
    BY <2>0, <2>5, OutcomeIs, AnswersWithValue DEF FinishText
  <2>6. CASE FailToWrite(i)
    BY <2>0, <2>6, OutcomeIs, AnswersWithValue DEF FailToWrite
  <2> QED BY <2>1, <2>3, <2>4, <2>5, <2>6
<1>19. CASE Upload
  BY <1>1, <1>19 DEF Upload
<1>20. CASE UNCHANGED vars
  BY <1>1, <1>20 DEF vars
<1> QED BY <1>3, <1>4, <1>5, <1>6, <1>7, <1>8, <1>9, <1>10, <1>11, <1>12, <1>13, <1>14, <1>15, <1>16,
           <1>17, <1>18, <1>19, <1>20 DEF Next

(* Whatever a client calls, in whatever order, a failure is content it     *)
(* reads; a protocol error is an unknown tool, the scanner of a vector     *)
(* grammar or a run without cells.  (mcp/tools.ts:36-43)                   *)
THEOREM FailuresAreOfTwoKinds == Spec => []FailuresAreValues
<1>1. Init => SourceOK /\ FailuresAreValues
  BY SourceInit DEF Init, FailuresAreValues
<1>2. (SourceOK /\ FailuresAreValues) /\ [Next]_vars => (SourceOK /\ FailuresAreValues)'
  BY SourceStep, FailuresStep
<1> QED BY <1>1, <1>2, PTL DEF Spec

-----------------------------------------------------------------------------
(* The extractions that are open: what each has read, and what a call that *)
(* writes alone finds in its text.                                         *)
FilesOK == \A name \in DOMAIN files : files[name].is = "pdf" => files[name].length \in Nat

IsExtraction(c) ==
  /\ DOMAIN c = {"op", "file", "bytes", "at", "done", "alone"} /\ c.op = "pdf-to-text"
  /\ c.at \in {"read", "prepared", "writing"} /\ c.done \in Nat
  /\ c.bytes.is = "pdf" => c.bytes.length \in Nat
  /\ c.at # "read" => c.bytes.is = "pdf"
  /\ c.at # "writing" => c.done = 0

NoLink(name)    == name \in DOMAIN files => files[name].is # "link"
Begun(c)        == TextFile([k \in 1..c.done |-> c.bytes])
Undisturbed(i)  ==
  /\ TextOf(open[i]) \in DOMAIN files /\ files[TextOf(open[i])] = Begun(open[i])
  /\ \A k \in DOMAIN open : Writes(open[k], TextOf(open[i])) => k = i

CallOK(i) ==
  /\ IsExtraction(open[i])
  /\ open[i].at # "read" => NoLink(TextOf(open[i]))
  /\ open[i].at = "writing" /\ open[i].alone => Undisturbed(i)

CallsOK ==
  /\ IsSequence(open)
  /\ \A i \in DOMAIN open : "op" \in DOMAIN open[i] /\ (open[i].op = "pdf-to-text" => CallOK(i))

(* A step that leaves every text as it is, and makes no link.              *)
TextsStay ==
  /\ \A name \in DOMAIN files : files[name].is = "text" => name \in DOMAIN files' /\ files'[name] = files[name]
  /\ \A name \in DOMAIN files' : files'[name].is = "link" => name \in DOMAIN files /\ files[name].is = "link"

(* A call that has not begun to write; or one that is as it was.           *)
Fresh(c) == IsExtraction(c) /\ c.at # "writing"
Carried(g) ==
  /\ \A j \in DOMAIN open' : "op" \in DOMAIN open'[j]
  /\ \A j \in DOMAIN open' : open'[j].op = "pdf-to-text" =>
       \/ Fresh(open'[j]) /\ (open'[j].at # "read" => NoLink(TextOf(open'[j])))
       \/ g[j] \in DOMAIN open /\ open'[j] = open[g[j]]
  /\ \A j, k \in DOMAIN open' : g[j] = g[k] /\ g[j] \in DOMAIN open => j = k

LEMMA CallsCarried ==
  ASSUME CallsOK, TextsStay, IsSequence(open)', NEW g, Carried(g)
  PROVE  CallsOK'
<1> SUFFICES ASSUME NEW j \in DOMAIN open', open'[j].op = "pdf-to-text"
             PROVE  CallOK(j)'
  BY DEF CallsOK, Carried
<1>1. ASSUME NEW name, NoLink(name) PROVE NoLink(name)'
  BY <1>1 DEF NoLink, TextsStay
<1>2. CASE Fresh(open'[j]) /\ (open'[j].at # "read" => NoLink(TextOf(open'[j])))
  BY <1>1, <1>2 DEF CallOK, Fresh
<1>3. CASE g[j] \in DOMAIN open /\ open'[j] = open[g[j]]
  <2> DEFINE i == g[j]
  <2>1. CallOK(i)
    BY <1>3 DEF CallsOK
  <2>2. /\ IsExtraction(open[j])'
        /\ open'[j].at # "read" => NoLink(TextOf(open[j]))'
    <3>1. IsExtraction(open[i]) /\ (open[i].at # "read" => NoLink(TextOf(open[i])))
      BY <2>1 DEF CallOK
    <3>2. \A name : NoLink(name) => NoLink(name)'
      BY <1>1
    <3>3. open[i].at # "read" => NoLink(TextOf(open[j]))'
      BY <1>3, <3>1, <3>2 DEF NoLink
    <3> QED BY <1>3, <3>1, <3>3
  <2>3. ASSUME open'[j].at = "writing", open'[j].alone PROVE Undisturbed(j)'
    <3> DEFINE name == TextOf(open[i])
    <3>1. Undisturbed(i)
      BY <1>3, <2>1, <2>3 DEF CallOK
    <3>2. name \in DOMAIN files /\ files[name] = Begun(open[i]) /\ files[name].is = "text"
      BY <3>1 DEF Undisturbed, Begun, TextFile
    <3>3. name \in DOMAIN files' /\ files'[name] = Begun(open'[j])
      BY <1>3, <3>2 DEF TextsStay
    <3>4. ASSUME NEW k \in DOMAIN open', Writes(open'[k], name) PROVE k = j
      <4>1. open'[k].op = "pdf-to-text" /\ ~Fresh(open'[k])
        BY <3>4 DEF Writes, Fresh
      <4>2. g[k] \in DOMAIN open /\ open'[k] = open[g[k]]
        BY <4>1 DEF Carried
      <4>3. g[k] = i
        BY <3>1, <3>4, <4>2 DEF Undisturbed
      <4> QED BY <1>3, <4>2, <4>3 DEF Carried
    <3> HIDE DEF name
    <3>5. TextOf(open'[j]) = name
      BY <1>3 DEF name
    <3> QED BY <3>3, <3>4, <3>5 DEF Undisturbed
  <2> QED BY <2>2, <2>3 DEF CallOK
<1> QED BY <1>2, <1>3 DEF Carried

(* The three ways the open calls change, but for the writing.              *)
LEMMA SameCalls ==
  ASSUME CallsOK, TextsStay, UNCHANGED open
  PROVE  CallsOK'
<1> DEFINE g == [j \in DOMAIN open |-> j]
<1>1. Carried(g)
  BY DEF Carried, CallsOK
<1>2. IsSequence(open)'
  BY DEF CallsOK
<1> QED BY <1>1, <1>2, CallsCarried

LEMMA HasRange ==
  ASSUME NEW S, NEW s \in Seq(S)
  PROVE  IsSequence(s)
<1>1. s \in [1..Len(s) -> Range(s)] /\ Len(s) \in Nat
  BY DEF Range
<1> HIDE DEF Range
<1> DEFINE R == Range(s)
<1>2. s \in Seq(R)
  <2> HIDE DEF R
  <2>1. s \in [1..Len(s) -> R]
    BY <1>1 DEF R
  <2> QED BY <1>1, <2>1, AsSequence
<1> QED BY <1>2 DEF IsSequence

LEMMA OneMoreCall ==
  ASSUME CallsOK, UNCHANGED files, NEW c, open' = Append(open, c), "op" \in DOMAIN c,
         c.op = "pdf-to-text" => Fresh(c) /\ c.at = "read"
  PROVE  CallsOK' /\ Len(open') = Len(open) + 1
<1>0. open \in Seq(Range(open))
  BY DEF CallsOK, IsSequence
<1> DEFINE n == Len(open)
<1>1. n \in Nat /\ DOMAIN open = 1..n /\ DOMAIN open' = 1..(n + 1) /\ Len(open') = n + 1
      /\ open'[n + 1] = c /\ \A j \in 1..n : open'[j] = open[j]
  BY <1>0
<1>2. IsSequence(open)'
  <2>1. open' \in Seq(Range(open) \cup {c})
    BY <1>0
  <2>2. IsSequence(open')
    BY <2>1, HasRange
  <2> QED BY <2>2 DEF IsSequence, Range
<1> DEFINE g == [j \in 1..(n + 1) |-> j]
<1>3. Carried(g)
  BY <1>1 DEF Carried, CallsOK
<1>4. TextsStay
  BY DEF TextsStay
<1> QED BY <1>1, <1>2, <1>3, <1>4, CallsCarried

LEMMA Without ==
  ASSUME NEW S, NEW s \in Seq(S), NEW i \in DOMAIN s
  PROVE  /\ RemoveAt(s, i) \in Seq(S)
         /\ Len(RemoveAt(s, i)) = Len(s) - 1 /\ DOMAIN RemoveAt(s, i) = 1..(Len(s) - 1)
         /\ \A j \in 1..(Len(s) - 1) : RemoveAt(s, i)[j] = s[IF j < i THEN j ELSE j + 1]
<1> DEFINE n == Len(s)
           before == SubSeq(s, 1, i - 1)
           behind == SubSeq(s, i + 1, n)
<1>1. n \in Nat /\ i \in 1..n
  OBVIOUS
<1>2. before \in Seq(S) /\ Len(before) = i - 1 /\ \A j \in 1..(i - 1) : before[j] = s[j]
  <2>1. \A j \in 1..(i - 1) : j \in 1..n
    BY <1>1
  <2> QED BY <1>1, <2>1, SubSeqProperties
<1>3. behind \in Seq(S) /\ Len(behind) = n - i /\ \A j \in 1..(n - i) : behind[j] = s[i + j]
  <2>1. \A j \in (i + 1)..n : j \in 1..n
    BY <1>1
  <2> QED BY <1>1, <2>1, SubSeqProperties
<1>4. RemoveAt(s, i) = before \o behind
  BY DEF RemoveAt
<1> HIDE DEF before, behind
<1>5. /\ before \o behind \in Seq(S) /\ Len(before \o behind) = n - 1
      /\ \A j \in 1..(i - 1) : (before \o behind)[j] = before[j]
      /\ \A j \in i..(n - 1) : (before \o behind)[j] = behind[j - (i - 1)]
  BY <1>1, <1>2, <1>3
<1>6. ASSUME NEW j \in 1..(n - 1) PROVE (before \o behind)[j] = s[IF j < i THEN j ELSE j + 1]
  <2>1. CASE j < i
    BY <1>1, <1>2, <1>5, <2>1
  <2>2. CASE ~(j < i)
    <3>1. j \in i..(n - 1) /\ j - (i - 1) \in 1..(n - i) /\ i + (j - (i - 1)) = j + 1
      BY <1>1, <2>2
    <3> QED BY <1>3, <1>5, <2>2, <3>1
  <2> QED BY <2>1, <2>2
<1> QED BY <1>1, <1>4, <1>5, <1>6

LEMMA OneCallLess ==
  ASSUME CallsOK, UNCHANGED files, NEW i \in DOMAIN open, Drop(i)
  PROVE  CallsOK' /\ Len(open') = Len(open) - 1
<1>0. open \in Seq(Range(open))
  BY DEF CallsOK, IsSequence
<1> DEFINE n == Len(open)
           g == [j \in 1..(n - 1) |-> IF j < i THEN j ELSE j + 1]
<1>1. n \in Nat /\ i \in 1..n /\ DOMAIN open = 1..n
  BY <1>0
<1>2. /\ open' \in Seq(Range(open)) /\ Len(open') = n - 1 /\ DOMAIN open' = 1..(n - 1)
      /\ \A j \in 1..(n - 1) : open'[j] = open[g[j]]
  BY <1>0, Without DEF Drop
<1>3. IsSequence(open)'
  <2>1. IsSequence(open')
    BY <1>2, HasRange
  <2> QED BY <2>1 DEF IsSequence, Range
<1>4. \A j, k \in 1..(n - 1) : g[j] \in 1..n /\ (g[j] = g[k] => j = k)
  BY <1>1
<1> HIDE DEF g
<1>5. Carried(g)
  BY <1>1, <1>2, <1>4 DEF Carried, CallsOK
<1>6. TextsStay
  BY DEF TextsStay
<1> QED BY <1>2, <1>3, <1>5, <1>6, CallsCarried

(* A step that changes one open call, and no other as far as it counts.    *)
LEMMA SameLength ==
  ASSUME CallsOK, NEW c, open' = [k \in DOMAIN open |-> c[k]]
  PROVE  IsSequence(open)' /\ DOMAIN open' = DOMAIN open /\ Len(open') = Len(open)
<1>0. open \in Seq(Range(open))
  BY DEF CallsOK, IsSequence
<1> DEFINE n == Len(open)
           S == {c[k] : k \in DOMAIN open}
<1>1. n \in Nat /\ DOMAIN open = 1..n
  BY <1>0
<1>2. open' \in [1..n -> S]
  BY <1>1
<1> HIDE DEF S
<1>3. open' \in Seq(S) /\ Len(open') = n /\ DOMAIN open' = 1..n
  BY <1>1, <1>2, AsSequence
<1>4. IsSequence(open')
  BY <1>3, HasRange
<1> QED BY <1>1, <1>3, <1>4 DEF IsSequence, Range

TextsOK == FilesOK /\ CallsOK

(* What a step does to the workspace, as TextsComeFromTheirDocuments has it.*)
TextsStep ==
  /\ \A name \in DOMAIN files' :
       \/ name \in DOMAIN files /\ (files'[name] = files[name] \/ Replaced(name))
       \/ \E i \in DOMAIN open : WrittenBy(i, name)
  /\ Len(open') < Len(open) /\ answer'.op = "pdf-to-text" /\ answer'.ok =>
       \E i \in DOMAIN open : Reported(i)

LEMMA StoringIs ==
  ASSUME NEW name, NEW content, files' = Storing(name, content)
  PROVE  /\ DOMAIN files' = DOMAIN files \cup {name}
         /\ files'[name] = content
         /\ \A other \in DOMAIN files : other # name => files'[other] = files[other]
BY DEF Storing

LEMMA StoringText ==
  ASSUME FilesOK, NEW name, NEW pieces, files' = Storing(name, TextFile(pieces))
  PROVE  /\ FilesOK' /\ name \in DOMAIN files' /\ files'[name] = TextFile(pieces)
         /\ \A other \in DOMAIN files' : other # name => other \in DOMAIN files /\ files'[other] = files[other]
         /\ \A other \in DOMAIN files : other \in DOMAIN files'
         /\ \A other : NoLink(other) => NoLink(other)'
<1> DEFINE content == TextFile(pieces)
<1>1. content.is = "text"
  BY DEF TextFile
<1> HIDE DEF content
<1>2. /\ DOMAIN files' = DOMAIN files \cup {name}
      /\ files'[name] = content
      /\ \A other \in DOMAIN files : other # name => files'[other] = files[other]
  BY StoringIs DEF content
<1>3. FilesOK'
  BY <1>1, <1>2 DEF FilesOK
<1>4. \A other : NoLink(other) => NoLink(other)'
  BY <1>1, <1>2 DEF NoLink
<1> QED BY <1>2, <1>3, <1>4 DEF content

LEMMA LengthIs == CallsOK => Len(open) \in Nat /\ DOMAIN open = 1..Len(open)
<1> SUFFICES ASSUME CallsOK PROVE Len(open) \in Nat /\ DOMAIN open = 1..Len(open)
  OBVIOUS
<1>1. open \in Seq(Range(open))
  BY DEF CallsOK, IsSequence
<1> QED BY <1>1

LEMMA CheckedFails ==
  ASSUME NEW checks, Checked(checks) # Succeeds
  PROVE  Checked(checks).outcome = "failure"
BY DEF Checked, Fails

LEMMA AnswersNo ==
  ASSUME NEW op, NEW r, Answer(op, r)
  PROVE  answer'.op = op /\ (op \in operations /\ r.outcome = "failure" => ~answer'.ok)
BY DispatchIs DEF Answer

LEMMA Several ==
  ASSUME NEW a, NEW b, NEW c
  PROVE  /\ <<a, b>> \in Seq({a, b, c}) /\ b \in Range(<<a, b>>)
         /\ <<a, b, c>> \in Seq({a, b, c}) /\ b \in Range(<<a, b, c>>)
<1>1. <<a, b>> \in Seq({a, b, c}) /\ <<a, b, c>> \in Seq({a, b, c})
  OBVIOUS
<1>2. 2 \in DOMAIN <<a, b>> /\ <<a, b>>[2] = b /\ 2 \in DOMAIN <<a, b, c>> /\ <<a, b, c>>[2] = b
  OBVIOUS
<1> QED BY <1>1, <1>2 DEF Range

LEMMA Writable ==
  ASSUME NEW name, Unwritable(name) = Succeeds
  PROVE  NoLink(name)
<1> DEFINE safe   == <<~safeName(name), "bad name">>
           isLink == <<name \in DOMAIN files /\ files[name].is = "link", "symlink">>
<1>1. Checked(<<safe, isLink>>) = Succeeds
  BY DEF Unwritable
<1>2. ~isLink[1]
  <2> HIDE DEF safe, isLink
  <2>1. \E T : <<safe, isLink>> \in Seq(T) /\ isLink \in Range(<<safe, isLink>>)
    BY Several
  <2> QED BY <1>1, <2>1, CheckedSucceeds
<1> QED BY <1>2 DEF NoLink

LEMMA Readable ==
  ASSUME NEW name, Unreadable(name) = Succeeds
  PROVE  name \in DOMAIN files
<1> DEFINE safe    == <<~safeName(name), "bad name">>
           missing == <<name \notin DOMAIN files, "no such file">>
           isLink  == <<name \in DOMAIN files /\ files[name].is = "link", "symlink">>
<1>1. Checked(<<safe, missing, isLink>>) = Succeeds
  BY DEF Unreadable
<1>2. ~missing[1]
  <2> HIDE DEF safe, missing, isLink
  <2>1. \E T : <<safe, missing, isLink>> \in Seq(T) /\ missing \in Range(<<safe, missing, isLink>>)
    BY Several
  <2> QED BY <1>1, <2>1, CheckedSucceeds
<1> QED BY <1>2

(* Steps that write nothing. *)
LEMMA WritesNothing ==
  ASSUME CallsOK, FilesOK, UNCHANGED files, CallsOK', Len(open') >= Len(open) \/ ~(answer'.op = "pdf-to-text" /\ answer'.ok)
  PROVE  TextsOK' /\ TextsStep
<1>1. Len(open) \in Nat /\ Len(open') \in Nat
  <2>1. Len(open) \in Nat
    BY LengthIs
  <2>2. open' \in Seq(Range(open'))
    BY DEF CallsOK, IsSequence, Range
  <2> QED BY <2>1, <2>2
<1>2. FilesOK'
  BY DEF FilesOK
<1> QED BY <1>1, <1>2 DEF TextsOK, TextsStep

LEMMA PrepareStep ==
  ASSUME TextsOK, NEW i \in DOMAIN open, open[i].op = "pdf-to-text", PrepareText(i)
  PROVE  TextsOK' /\ TextsStep
<1> DEFINE call == open[i]
           r    == IF call.bytes.is # "pdf" THEN Fails("cannot decode") ELSE Unwritable(TextOf(call))
<1>0. CallsOK /\ FilesOK /\ UNCHANGED files /\ call.at = "read" /\ CallOK(i)
  BY DEF TextsOK, CallsOK, PrepareText
<1>1. CASE r = Succeeds
  <2>1. open' = [open EXCEPT ![i].at = "prepared"]
    BY <1>1, Zenon DEF PrepareText
  <2>2. call.bytes.is = "pdf" /\ NoLink(TextOf(call))
    BY <1>1, Writable DEF Fails, Succeeds
  <2>3. open' = [k \in DOMAIN open |-> IF k = i THEN [call EXCEPT !.at = "prepared"] ELSE open[k]]
    BY <2>1
  <2>4. IsSequence(open)' /\ DOMAIN open' = DOMAIN open /\ Len(open') = Len(open)
    <3> DEFINE c == [k \in DOMAIN open |-> IF k = i THEN [call EXCEPT !.at = "prepared"] ELSE open[k]]
    <3>1. open' = [k \in DOMAIN open |-> c[k]]
      BY <2>3
    <3> HIDE DEF c
    <3> QED BY <1>0, <3>1, SameLength
  <2>5. IsExtraction(call)
    BY <1>0 DEF CallOK
  <2>6. open'[i] = [call EXCEPT !.at = "prepared"]
    BY <2>3
  <2>7. IsExtraction(open'[i]) /\ open'[i].at = "prepared" /\ open'[i].file = call.file
    BY <1>0, <2>2, <2>5, <2>6 DEF IsExtraction
  <2>8. Fresh(open'[i]) /\ NoLink(TextOf(open'[i])) /\ "op" \in DOMAIN open'[i]
    BY <2>2, <2>7, <2>6, <1>0 DEF Fresh, TextOf, CallsOK
  <2> DEFINE g == [k \in DOMAIN open |-> k]
  <2>9. Carried(g)
    BY <1>0, <2>3, <2>4, <2>8 DEF Carried, CallsOK
  <2>10. TextsStay
    BY <1>0 DEF TextsStay
  <2>11. CallsOK'
    BY <1>0, <2>4, <2>9, <2>10, CallsCarried
  <2> QED BY <1>0, <2>4, <2>11, WritesNothing, LengthIs
<1>2. CASE r # Succeeds
  <2>1. Answer("pdf-to-text", r) /\ Drop(i)
    BY <1>2, Zenon DEF PrepareText
  <2>2. r.outcome = "failure"
    BY <1>2, OutcomeIs, CheckedFails DEF Unwritable
  <2> HIDE DEF r
  <2>3. ~answer'.ok
    BY <2>1, <2>2, AnswersNo DEF operations
  <2> QED BY <1>0, <2>1, <2>3, OneCallLess, WritesNothing
<1> QED BY <1>1, <1>2

LEMMA Except ==
  ASSUME NEW c, DOMAIN c = {"op", "file", "bytes", "at", "done", "alone"}, NEW at, NEW alone, NEW done
  PROVE  /\ LET d == [c EXCEPT !.at = at, !.alone = alone] IN
            /\ DOMAIN d = DOMAIN c /\ d.at = at /\ d.alone = alone
            /\ d.op = c.op /\ d.file = c.file /\ d.bytes = c.bytes /\ d.done = c.done
         /\ LET d == [c EXCEPT !.alone = alone] IN
            /\ DOMAIN d = DOMAIN c /\ d.at = c.at /\ d.alone = alone
            /\ d.op = c.op /\ d.file = c.file /\ d.bytes = c.bytes /\ d.done = c.done
         /\ LET d == [c EXCEPT !.done = done] IN
            /\ DOMAIN d = DOMAIN c /\ d.at = c.at /\ d.alone = c.alone
            /\ d.op = c.op /\ d.file = c.file /\ d.bytes = c.bytes /\ d.done = done
OBVIOUS

LEMMA EmptyStep ==
  ASSUME TextsOK, NEW i \in DOMAIN open, open[i].op = "pdf-to-text", EmptyText(i)
  PROVE  TextsOK' /\ TextsStep
<1> DEFINE call  == open[i]
           name  == TextOf(call)
           begun == [call EXCEPT !.at = "writing", !.alone = Writers(name) = {}]
<1>0. CallsOK /\ FilesOK /\ UNCHANGED answer /\ call.at = "prepared" /\ CallOK(i)
  BY DEF TextsOK, CallsOK, EmptyText
<1>1. files' = Storing(name, TextFile(<<>>))
  BY DEF EmptyText
<1>2. open' = [k \in DOMAIN open |-> IF k = i THEN begun ELSE
                 IF k \in Writers(name) THEN [open[k] EXCEPT !.alone = FALSE] ELSE open[k]]
  BY Zenon DEF EmptyText
<1>3. IsExtraction(call) /\ NoLink(name) /\ call.bytes.is = "pdf" /\ call.done = 0
  BY <1>0 DEF CallOK, IsExtraction
<1> DEFINE c == [k \in DOMAIN open |-> IF k = i THEN begun ELSE
                   IF k \in Writers(name) THEN [open[k] EXCEPT !.alone = FALSE] ELSE open[k]]
<1>4. IsSequence(open)' /\ DOMAIN open' = DOMAIN open /\ Len(open') = Len(open)
  <2>1. open' = [k \in DOMAIN open |-> c[k]]
    BY <1>2
  <2> HIDE DEF c
  <2> QED BY <1>0, <2>1, SameLength
<1>5. /\ IsExtraction(open'[i]) /\ open'[i].at = "writing" /\ open'[i].alone = (Writers(name) = {})
      /\ open'[i].done = 0 /\ TextOf(open'[i]) = name /\ open'[i].bytes = call.bytes /\ open'[i].op = "pdf-to-text"
      /\ "op" \in DOMAIN open'[i]
  <2>1. open'[i] = begun
    BY <1>2
  <2> DEFINE alone == Writers(name) = {}
  <2>2. open'[i] = [call EXCEPT !.at = "writing", !.alone = alone]
    BY <2>1
  <2> HIDE DEF alone, name
  <2>3. DOMAIN call = {"op", "file", "bytes", "at", "done", "alone"} /\ call.op = "pdf-to-text"
    BY <1>3 DEF IsExtraction
  <2>4. /\ DOMAIN open'[i] = DOMAIN call /\ open'[i].at = "writing" /\ open'[i].alone = alone
        /\ open'[i].op = "pdf-to-text" /\ open'[i].file = call.file /\ open'[i].bytes = call.bytes
        /\ open'[i].done = 0
    <3>1. call.done = 0
      BY <1>3
    <3> HIDE DEF call
    <3> QED BY <2>2, <2>3, <3>1, Except
  <2> QED BY <1>3, <2>3, <2>4 DEF IsExtraction, TextOf, alone, name
<1>6. ASSUME NEW k \in Writers(name), k # i
      PROVE  /\ IsExtraction(open'[k]) /\ ~open'[k].alone /\ open'[k].at = "writing" /\ TextOf(open'[k]) = name
             /\ "op" \in DOMAIN open'[k]
  <2>1. k \in DOMAIN open /\ IsExtraction(open[k]) /\ open[k].at = "writing" /\ TextOf(open[k]) = name
    BY <1>0, <1>6 DEF Writers, Writes, CallsOK, CallOK
  <2>2. open'[k] = [open[k] EXCEPT !.alone = FALSE]
    BY <1>2, <1>6, <2>1
  <2> HIDE DEF name
  <2> DEFINE o == open[k]
  <2>3. DOMAIN o = {"op", "file", "bytes", "at", "done", "alone"} /\ o.op = "pdf-to-text"
    BY <2>1 DEF IsExtraction
  <2>4. /\ DOMAIN open'[k] = DOMAIN o /\ open'[k].at = o.at /\ ~open'[k].alone
        /\ open'[k].op = o.op /\ open'[k].file = o.file /\ open'[k].bytes = o.bytes /\ open'[k].done = o.done
    <3>1. open'[k] = [o EXCEPT !.alone = FALSE]
      BY <2>2
    <3> HIDE DEF o
    <3> QED BY <2>3, <3>1, Except
  <2> QED BY <2>1, <2>3, <2>4 DEF IsExtraction, TextOf
<1>7. ASSUME NEW k \in DOMAIN open, k # i, k \notin Writers(name) PROVE open'[k] = open[k]
  BY <1>2, <1>7
<1>8. /\ FilesOK' /\ name \in DOMAIN files' /\ files'[name] = TextFile(<<>>)
      /\ \A other \in DOMAIN files' : other # name => other \in DOMAIN files /\ files'[other] = files[other]
      /\ \A other \in DOMAIN files : other \in DOMAIN files'
      /\ \A other : NoLink(other) => NoLink(other)'
  BY <1>0, <1>1, StoringText
<1> HIDE DEF begun, name, c
<1>9. ASSUME NEW j \in DOMAIN open', open'[j].op = "pdf-to-text" PROVE CallOK(j)'
  <2>1. CASE j = i
    <3>2. ASSUME open'[i].alone PROVE Undisturbed(i)'
      <4>1. Writers(name) = {}
        BY <1>5, <3>2
      <4>2. files'[name] = Begun(open'[i])
        <5>1. [k \in 1..0 |-> open'[i].bytes] = <<>>
          OBVIOUS
        <5> QED BY <1>5, <1>8, <5>1 DEF Begun
      <4>3. ASSUME NEW k \in DOMAIN open, Writes(open'[k], name) PROVE k = i
        <5>1. k # i => Writes(open[k], name)
          BY <1>7, <4>1, <4>3
        <5> QED BY <4>1, <5>1 DEF Writers
      <4> QED BY <1>4, <1>5, <1>8, <4>2, <4>3 DEF Undisturbed
    <3>3. TextOf(open'[i]) = name /\ IsExtraction(open'[i])
      BY <1>5
    <3>4. NoLink(TextOf(open[i]))'
      BY <1>3, <1>8, <3>3 DEF NoLink
    <3> QED BY <2>1, <3>2, <3>3, <3>4 DEF CallOK
  <2>2. CASE j # i /\ j \in Writers(name)
    <3>1. IsExtraction(open'[j]) /\ ~open'[j].alone /\ TextOf(open'[j]) = name
      BY <1>6, <2>2
    <3>2. NoLink(TextOf(open[j]))'
      BY <1>3, <1>8, <3>1 DEF NoLink
    <3> QED BY <3>1, <3>2 DEF CallOK
  <2>3. CASE j # i /\ j \notin Writers(name)
    <3>1. open'[j] = open[j] /\ CallOK(j)
      BY <1>0, <1>4, <1>7, <2>3, <1>9 DEF CallsOK
    <3>2. open[j].at # "read" => NoLink(TextOf(open[j]))'
      BY <1>8, <3>1 DEF CallOK, NoLink
    <3>3. ASSUME open[j].at = "writing", open[j].alone PROVE Undisturbed(j)'
      <4>1. Undisturbed(j)
        BY <3>1, <3>3 DEF CallOK
      <4>2. TextOf(open[j]) # name
        BY <1>4, <1>9, <2>3, <3>1, <3>3 DEF Writers, Writes
      <4>3. TextOf(open[j]) \in DOMAIN files' /\ files'[TextOf(open[j])] = Begun(open[j])
        BY <1>8, <4>1, <4>2 DEF Undisturbed
      <4>4. ASSUME NEW k \in DOMAIN open, Writes(open'[k], TextOf(open[j])) PROVE k = j
        <5>1. k # i /\ k \notin Writers(name)
          BY <1>5, <1>6, <4>2, <4>4 DEF Writes
        <5>2. Writes(open[k], TextOf(open[j]))
          BY <1>7, <4>4, <5>1
        <5> QED BY <4>1, <5>2 DEF Undisturbed
      <4> QED BY <1>4, <3>1, <4>3, <4>4 DEF Undisturbed
    <3> QED BY <3>1, <3>2, <3>3 DEF CallOK
  <2> QED BY <2>1, <2>2, <2>3
<1>10. CallsOK'
  <2>1. \A k \in DOMAIN open' : "op" \in DOMAIN open'[k]
    BY <1>0, <1>4, <1>5, <1>6, <1>7 DEF CallsOK
  <2> QED BY <1>4, <1>9, <2>1 DEF CallsOK
<1>11. TextsStep
  <2>1. WrittenBy(i, name)
    BY <1>0, <1>3, <1>4, <1>8 DEF WrittenBy, NoLink, name
  <2>2. ~(Len(open') < Len(open))
    BY <1>0, <1>4, LengthIs
  <2> QED BY <1>8, <2>1, <2>2 DEF TextsStep
<1> QED BY <1>8, <1>10, <1>11 DEF TextsOK

LEMMA OnePieceMore ==
  ASSUME NEW d \in Nat, NEW bytes
  PROVE  WithPiece([k \in 1..d |-> bytes], d + 1, bytes) = [k \in 1..(d + 1) |-> bytes]
<1> DEFINE pieces == [k \in 1..d |-> bytes]
<1>1. DOMAIN pieces \cup 1..(d + 1) = 1..(d + 1)
  OBVIOUS
<1>2. ASSUME NEW j \in 1..(d + 1)
      PROVE  (IF j = d + 1 THEN bytes ELSE IF j \in DOMAIN pieces THEN pieces[j] ELSE [is |-> "hole"]) = bytes
  <2>1. j # d + 1 => j \in DOMAIN pieces /\ pieces[j] = bytes
    OBVIOUS
  <2> HIDE DEF pieces
  <2> QED BY <2>1
<1> HIDE DEF pieces
<1>3. WithPiece(pieces, d + 1, bytes) = [j \in 1..(d + 1) |-> bytes]
  BY <1>1, <1>2 DEF WithPiece
<1> QED BY <1>3 DEF pieces

LEMMA PieceStep ==
  ASSUME TextsOK, NEW i \in DOMAIN open, open[i].op = "pdf-to-text", WritePiece(i)
  PROVE  TextsOK' /\ TextsStep
<1> DEFINE call   == open[i]
           name   == TextOf(call)
           pieces == WithPiece(files[name].pieces, call.done + 1, call.bytes)
<1>0. /\ CallsOK /\ FilesOK /\ UNCHANGED answer /\ call.at = "writing" /\ call.done < call.bytes.length
      /\ CallOK(i) /\ files' = Storing(name, TextFile(pieces))
      /\ open' = [k \in DOMAIN open |-> IF k = i THEN [call EXCEPT !.done = @ + 1] ELSE open[k]]
  BY DEF TextsOK, CallsOK, WritePiece
<1>1. IsExtraction(call) /\ NoLink(name) /\ call.bytes.is = "pdf" /\ call.done \in Nat /\ call.bytes.length \in Nat
  BY <1>0 DEF CallOK, IsExtraction
<1>2. IsSequence(open)' /\ DOMAIN open' = DOMAIN open /\ Len(open') = Len(open)
  <2> DEFINE c == [k \in DOMAIN open |-> IF k = i THEN [call EXCEPT !.done = @ + 1] ELSE open[k]]
  <2>1. open' = [k \in DOMAIN open |-> c[k]]
    BY <1>0
  <2> HIDE DEF c
  <2> QED BY <1>0, <2>1, SameLength
<1>3. /\ IsExtraction(open'[i]) /\ open'[i].at = "writing" /\ open'[i].alone = call.alone /\ open'[i].file = call.file
      /\ open'[i].done = call.done + 1 /\ TextOf(open'[i]) = name /\ open'[i].bytes = call.bytes
      /\ open'[i].op = "pdf-to-text" /\ "op" \in DOMAIN open'[i]
  <2>1. open'[i] = [call EXCEPT !.done = call.done + 1]
    BY <1>0
  <2>2. DOMAIN call = {"op", "file", "bytes", "at", "done", "alone"} /\ call.op = "pdf-to-text"
    BY <1>1 DEF IsExtraction
  <2>3. /\ DOMAIN open'[i] = DOMAIN call /\ open'[i].at = call.at /\ open'[i].alone = call.alone
        /\ open'[i].op = "pdf-to-text" /\ open'[i].file = call.file /\ open'[i].bytes = call.bytes
        /\ open'[i].done = call.done + 1
    <3> HIDE DEF call, name
    <3> QED BY <2>1, <2>2, Except
  <2> QED BY <1>0, <1>1, <2>2, <2>3 DEF IsExtraction, TextOf
<1>4. ASSUME NEW k \in DOMAIN open, k # i PROVE open'[k] = open[k]
  BY <1>0, <1>4
<1> HIDE DEF pieces
<1>5. /\ FilesOK' /\ name \in DOMAIN files' /\ files'[name] = TextFile(pieces)
      /\ \A other \in DOMAIN files' : other # name => other \in DOMAIN files /\ files'[other] = files[other]
      /\ \A other \in DOMAIN files : other \in DOMAIN files'
      /\ \A other : NoLink(other) => NoLink(other)'
  BY <1>0, StoringText
<1> HIDE DEF name
<1>6. ASSUME NEW other PROVE Writes(open[i], other) <=> other = name
  BY <1>0, Zenon DEF Writes, name
<1>7. ASSUME NEW k \in DOMAIN open, NEW other, Writes(open'[k], other) PROVE Writes(open[k], other)
  <2>1. CASE k = i
    BY <1>3, <1>6, <1>7, <2>1 DEF Writes
  <2>2. CASE k # i
    BY <1>4, <1>7, <2>2
  <2> QED BY <2>1, <2>2
<1>8. ASSUME NEW j \in DOMAIN open', open'[j].op = "pdf-to-text" PROVE CallOK(j)'
  <2>1. CASE j = i
    <3>1. NoLink(TextOf(open[i]))'
      BY <1>1, <1>3, <1>5 DEF NoLink
    <3>2. ASSUME open'[i].alone PROVE Undisturbed(i)'
      <4>1. Undisturbed(i)
        BY <1>0, <1>3, <3>2 DEF CallOK
      <4>2. files[name].pieces = [k \in 1..call.done |-> call.bytes]
        BY <4>1 DEF Undisturbed, Begun, TextFile, name
      <4>3. pieces = [k \in 1..(call.done + 1) |-> call.bytes]
        <5> DEFINE d == call.done
                   b == call.bytes
        <5>1. d \in Nat /\ files[name].pieces = [k \in 1..d |-> b]
          BY <1>1, <4>2
        <5>2. pieces = WithPiece(files[name].pieces, d + 1, b)
          BY DEF pieces
        <5> HIDE DEF d, b
        <5>3. WithPiece([k \in 1..d |-> b], d + 1, b) = [k \in 1..(d + 1) |-> b]
          BY <5>1, OnePieceMore
        <5>4. pieces = [k \in 1..(d + 1) |-> b]
          BY <5>1, <5>2, <5>3
        <5> QED BY <5>4 DEF d, b
      <4>4. files'[name] = Begun(open'[i])
        BY <1>3, <1>5, <4>3 DEF Begun
      <4>5. ASSUME NEW k \in DOMAIN open, Writes(open'[k], name) PROVE k = i
        BY <1>7, <4>1, <4>5 DEF Undisturbed, name
      <4> QED BY <1>2, <1>3, <1>5, <4>4, <4>5 DEF Undisturbed
    <3> QED BY <1>3, <2>1, <3>1, <3>2 DEF CallOK
  <2>2. CASE j # i
    <3>1. open'[j] = open[j] /\ CallOK(j)
      BY <1>0, <1>2, <1>4, <1>8, <2>2 DEF CallsOK
    <3>2. open[j].at # "read" => NoLink(TextOf(open[j]))'
      BY <1>5, <3>1 DEF CallOK, NoLink
    <3>3. ASSUME open[j].at = "writing", open[j].alone PROVE Undisturbed(j)'
      <4>1. Undisturbed(j)
        BY <3>1, <3>3 DEF CallOK
      <4>2. TextOf(open[j]) # name
        BY <1>6, <2>2, <4>1 DEF Undisturbed
      <4>3. TextOf(open[j]) \in DOMAIN files' /\ files'[TextOf(open[j])] = Begun(open[j])
        BY <1>5, <4>1, <4>2 DEF Undisturbed
      <4>4. ASSUME NEW k \in DOMAIN open, Writes(open'[k], TextOf(open[j])) PROVE k = j
        BY <1>7, <4>1, <4>4 DEF Undisturbed
      <4> QED BY <1>2, <3>1, <4>3, <4>4 DEF Undisturbed
    <3> QED BY <3>1, <3>2, <3>3 DEF CallOK
  <2> QED BY <2>1, <2>2
<1>9. CallsOK'
  <2>1. \A k \in DOMAIN open' : "op" \in DOMAIN open'[k]
    BY <1>0, <1>2, <1>3, <1>4 DEF CallsOK
  <2> QED BY <1>2, <1>8, <2>1 DEF CallsOK
<1>10. TextsStep
  <2>1. call.done + 1 \in 1..call.bytes.length
    BY <1>0, <1>1
  <2>2. WrittenBy(i, name)
    BY <1>0, <1>1, <1>2, <1>5, <2>1 DEF WrittenBy, NoLink, name, pieces
  <2>3. ~(Len(open') < Len(open))
    BY <1>0, <1>2, LengthIs
  <2> QED BY <1>5, <2>2, <2>3 DEF TextsStep
<1> QED BY <1>5, <1>9, <1>10 DEF TextsOK

LEMMA FinishStep ==
  ASSUME TextsOK, NEW i \in DOMAIN open, open[i].op = "pdf-to-text", FinishText(i)
  PROVE  TextsOK' /\ TextsStep
<1>1. CallsOK /\ FilesOK /\ CallOK(i) /\ UNCHANGED files /\ Drop(i) /\ open[i].at = "writing"
      /\ open[i].done = open[i].bytes.length
  BY DEF TextsOK, CallsOK, FinishText
<1>2. CallsOK' /\ FilesOK'
  BY <1>1, OneCallLess DEF FilesOK
<1>3. Reported(i)
  <2>1. open[i].alone => Undisturbed(i)
    BY <1>1 DEF CallOK
  <2>2. Begun(open[i]) = Extracted(open[i].bytes)
    BY <1>1 DEF Begun, Extracted
  <2> QED BY <1>1, <2>1, <2>2 DEF Reported, Drop, Undisturbed
<1> QED BY <1>1, <1>2, <1>3 DEF TextsOK, TextsStep

LEMMA UploadStep ==
  ASSUME TextsOK, Upload
  PROVE  TextsOK' /\ TextsStep
<1>1. CallsOK /\ FilesOK /\ UNCHANGED <<open, answer>>
  BY DEF TextsOK, Upload
<1>2. PICK file, content :
        /\ file \in DOMAIN files
        /\ files[file].is \in {"pdf", "broken"} /\ files' = Storing(file, content)
        /\ content.is \in {"pdf", "broken"} /\ (content.is = "pdf" => content.length \in Nat)
  <2>1. PICK file \in me.names \cap DOMAIN files :
          \/ /\ files[file].is = "pdf" /\ files[file].version < MaxVersion
             /\ files' = Storing(file, [is |-> "broken", of |-> file, version |-> files[file].version + 1])
          \/ /\ files[file].is = "broken"
             /\ \E length \in 1..MaxLength :
                  files' = Storing(file, [is |-> "pdf", of |-> file, version |-> files[file].version, length |-> length])
    BY DEF Upload
  <2>2. CASE /\ files[file].is = "pdf"
             /\ files' = Storing(file, [is |-> "broken", of |-> file, version |-> files[file].version + 1])
    <3> DEFINE content == [is |-> "broken", of |-> file, version |-> files[file].version + 1]
    <3>1. content.is = "broken"
      OBVIOUS
    <3> HIDE DEF content
    <3>2. files' = Storing(file, content)
      BY <2>2 DEF content
    <3> QED BY <2>2, <3>1, <3>2
  <2>3. ASSUME NEW length \in 1..MaxLength, files[file].is = "broken",
               files' = Storing(file, [is |-> "pdf", of |-> file, version |-> files[file].version, length |-> length])
        PROVE  \E content : /\ files' = Storing(file, content)
                            /\ content.is \in {"pdf", "broken"} /\ (content.is = "pdf" => content.length \in Nat)
    <3> DEFINE content == [is |-> "pdf", of |-> file, version |-> files[file].version, length |-> length]
    <3>1. content.is = "pdf" /\ content.length \in Nat
      OBVIOUS
    <3> HIDE DEF content
    <3>2. files' = Storing(file, content)
      BY <2>3 DEF content
    <3> QED BY <3>1, <3>2
  <2> QED BY <2>1, <2>2, <2>3
<1>3. /\ DOMAIN files' = DOMAIN files /\ files'[file] = content
      /\ \A other \in DOMAIN files : other # file => files'[other] = files[other]
  BY <1>2, StoringIs
<1>4. TextsStay /\ FilesOK'
  BY <1>1, <1>2, <1>3 DEF TextsStay, FilesOK
<1>5. CallsOK'
  BY <1>1, <1>4, SameCalls
<1>6. TextsStep
  <2>1. Replaced(file)
    BY <1>1, <1>2, <1>3 DEF Replaced
  <2>2. ~(Len(open') < Len(open))
    BY <1>1, LengthIs
  <2> QED BY <1>3, <2>1, <2>2 DEF TextsStep
<1> QED BY <1>4, <1>5, <1>6 DEF TextsOK

LEMMA TextsOfAStep ==
  ASSUME TextsOK, [Next]_vars
  PROVE  TextsOK' /\ [TextsStep]_vars
<1>0. CallsOK /\ FilesOK /\ Len(open) \in Nat
  BY LengthIs DEF TextsOK
<1>1. ASSUME UNCHANGED <<files, open>> PROVE TextsOK' /\ TextsStep
  <2>1. CallsOK'
    BY <1>0, <1>1, SameCalls DEF TextsStay
  <2> QED BY <1>0, <1>1, <2>1, WritesNothing
<1>2. ASSUME NEW c, open' = Append(open, c), UNCHANGED files, "op" \in DOMAIN c,
             c.op = "pdf-to-text" => Fresh(c) /\ c.at = "read"
      PROVE  TextsOK' /\ TextsStep
  <2>1. CallsOK' /\ Len(open') = Len(open) + 1
    BY <1>0, <1>2, OneMoreCall
  <2> QED BY <1>0, <1>2, <2>1, WritesNothing
<1>3. ASSUME NEW i \in DOMAIN open, Drop(i), UNCHANGED files, NEW op, NEW r, Answer(op, r), op # "pdf-to-text"
      PROVE  TextsOK' /\ TextsStep
  BY <1>0, <1>3, OneCallLess, AnswersNo, WritesNothing
<1>4. CASE RunSource \/ RunCompiled
  <2>0. PICK op \in {"run", "run-compiled"} : \E ready, code : Run1(op, ready, code)
    BY <1>4 DEF RunSource, RunCompiled
  <2>1. PICK ready, code : Run1(op, ready, code)
    BY <2>0
  <2>2. PICK name, cells : UNCHANGED <<files, open>> \/ (UNCHANGED files /\ Begin(op, code, name, cells))
    BY <2>1 DEF Run1
  <2> DEFINE c == [op |-> op, loaded |-> loadProgram(code), network |-> name, todo |-> cells[1]]
  <2>3. UNCHANGED <<files, open>> \/ (UNCHANGED files /\ open' = Append(open, c))
    BY <2>2 DEF Begin
  <2>4. "op" \in DOMAIN c /\ c.op # "pdf-to-text"
    OBVIOUS
  <2> HIDE DEF c
  <2> QED BY <1>1, <1>2, <2>3, <2>4
<1>5. CASE SeedCell
  <2>1. PICK i \in DOMAIN open :
          /\ open[i].op \in {"run", "run-compiled"} /\ UNCHANGED files
          /\ \/ open' = [open EXCEPT ![i].todo = Tail(@)]
             \/ \E r : Answer(open[i].op, r) /\ Drop(i)
    BY <1>5 DEF SeedCell
  <2>2. CASE \E r : Answer(open[i].op, r) /\ Drop(i)
    BY <1>3, <2>1, <2>2
  <2>3. CASE open' = [open EXCEPT ![i].todo = Tail(@)]
    <3>1. open' = [k \in DOMAIN open |-> IF k = i THEN [open[i] EXCEPT !.todo = Tail(@)] ELSE open[k]]
      BY <2>3
    <3>2. "op" \in DOMAIN open[i]
      BY <1>0 DEF CallsOK
    <3>3. open'[i].op = open[i].op /\ "op" \in DOMAIN open'[i]
      BY <3>1, <3>2
    <3>4. IsSequence(open)' /\ DOMAIN open' = DOMAIN open /\ Len(open') = Len(open)
      <4> DEFINE c == [k \in DOMAIN open |-> IF k = i THEN [open[i] EXCEPT !.todo = Tail(@)] ELSE open[k]]
      <4>1. open' = [k \in DOMAIN open |-> c[k]]
        BY <3>1
      <4> HIDE DEF c
      <4> QED BY <1>0, <4>1, SameLength
    <3> DEFINE g == [k \in DOMAIN open |-> k]
    <3>5. \A k \in DOMAIN open : k # i => open'[k] = open[k]
      BY <3>1
    <3>6. Carried(g)
      BY <1>0, <2>1, <3>3, <3>4, <3>5 DEF Carried, CallsOK
    <3>7. CallsOK'
      BY <1>0, <2>1, <3>4, <3>6, CallsCarried DEF TextsStay
    <3> QED BY <1>0, <2>1, <3>4, <3>7, WritesNothing
  <2> QED BY <2>1, <2>2, <2>3
<1>6. CASE RunNetwork
  <2>1. PICK i \in DOMAIN open : /\ open[i].op \in {"run", "run-compiled"} /\ UNCHANGED files
                                 /\ \E r : Answer(open[i].op, r) /\ Drop(i)
    BY <1>6 DEF RunNetwork
  <2> QED BY <1>3, <2>1
<1>7. CASE ReadPdf
  <2>1. PICK file : \/ UNCHANGED <<files, open>>
                    \/ /\ UNCHANGED files /\ Unreadable(file) = Succeeds
                       /\ open' = Append(open, Extracting(file, files[file]))
    BY <1>7 DEF ReadPdf
  <2> DEFINE c == Extracting(file, files[file])
  <2>2. CASE UNCHANGED files /\ Unreadable(file) = Succeeds /\ open' = Append(open, c)
    <3>1. file \in DOMAIN files
      BY <2>2, Readable
    <3>2. Fresh(c) /\ c.at = "read" /\ "op" \in DOMAIN c
      BY <1>0, <3>1 DEF Fresh, IsExtraction, Extracting, FilesOK
    <3> HIDE DEF c
    <3> QED BY <1>2, <2>2, <3>2
  <2> QED BY <1>1, <2>1, <2>2
<1>8. CASE WritePdf
  <2>1. PICK i \in DOMAIN open :
          /\ open[i].op = "pdf-to-text"
          /\ PrepareText(i) \/ EmptyText(i) \/ WritePiece(i) \/ FinishText(i) \/ FailToWrite(i)
    BY <1>8 DEF WritePdf
  <2>2. CASE FailToWrite(i)
    <3>1. Answer("pdf-to-text", Fails("file system")) /\ Drop(i) /\ UNCHANGED files
      BY <2>2 DEF FailToWrite
    <3>2. ~answer'.ok
      <4> DEFINE r == Fails("file system")
      <4>1. r.outcome = "failure"
        BY OutcomeIs
      <4>2. Answer("pdf-to-text", r)
        BY <3>1
      <4> HIDE DEF r
      <4> QED BY <4>1, <4>2, AnswersNo DEF operations
    <3> QED BY <1>0, <3>1, <3>2, OneCallLess, WritesNothing
  <2> QED BY <2>1, <2>2, PrepareStep, EmptyStep, PieceStep, FinishStep
<1>9. CASE Upload
  BY <1>9, UploadStep
<1>10. CASE \/ Edit \/ Parse \/ Check \/ Typecheck \/ CompileSchemas \/ RunGrammar \/ RunTtable \/ Diagram
            \/ UnknownTool \/ CompileJs
  BY <1>1, <1>10 DEF Edit, Parse, Check, Typecheck, CompileSchemas, RunGrammar, RunTtable, Diagram,
           UnknownTool, CompileJs, Serve
<1>11. CASE UNCHANGED vars
  BY <1>1, <1>11 DEF vars
<1> QED BY <1>4, <1>5, <1>6, <1>7, <1>8, <1>9, <1>10, <1>11 DEF Next

(* However extractions, uploads and failures of the file system interleave,*)
(* in a workspace of any size: the workspace changes by uploads and by the *)
(* writes of an extraction that is still open, into the one text of the    *)
(* document it has read and never through a link; and an extraction that   *)
(* reports success, no other having written its text since it began to,    *)
(* leaves there the whole text of what it read.  Behind it is an invariant:*)
(* a text that one open call alone has written holds what this call has    *)
(* written so far.  (pdf-to-text.ts:26-60, workspace.ts:46-77)             *)
THEOREM TextsAreExtracted == Spec => TextsComeFromTheirDocuments
<1>1. Init => TextsOK
  BY FilesAssumption DEF Init, TextsOK, FilesOK, CallsOK, IsSequence, Range
<1>2. TextsOK /\ [Next]_vars => TextsOK' /\ [TextsStep]_vars
  BY TextsOfAStep
<1> QED BY <1>1, <1>2, PTL DEF Spec, TextsComeFromTheirDocuments, TextsStep

-----------------------------------------------------------------------------
(* The typings of a network: finite sets of types, and the pass over the switches. *)
LEMMA FiniteImage ==
  ASSUME NEW S, IsFiniteSet(S), NEW f
  PROVE  IsFiniteSet({f[x] : x \in S})
<1> DEFINE T == {f[x] : x \in S}
           g == [x \in S |-> f[x]]
<1>1. g \in Surjection(S, T)
  BY DEF Surjection
<1> QED BY <1>1, FS_Surjection

LEMMA FiniteRange ==
  ASSUME NEW T, NEW seq \in Seq(T)
  PROVE  IsFiniteSet(Range(seq))
<1>1. DOMAIN seq = 1 .. Len(seq) /\ 1 \in Int /\ Len(seq) \in Int
  OBVIOUS
<1>2. IsFiniteSet(DOMAIN seq)
  BY <1>1, FS_Interval
<1> QED BY <1>2, FiniteImage DEF Range

LEMMA AtMostOne ==
  ASSUME NEW X, IsFiniteSet(X), ~(Cardinality(X) > 1)
  PROVE  /\ X = {} \/ (Cardinality(X) = 1 /\ \E x : X = {x})
         /\ X = {} => Cardinality(X) # 1
<1>1. Cardinality(X) \in Nat /\ (Cardinality(X) = 0 <=> X = {}) /\ (Cardinality(X) = 1 <=> \E x : X = {x})
  BY FS_CardinalityType, FS_EmptySet, FS_Singleton
<1>2. Cardinality(X) = 0 \/ Cardinality(X) = 1
  BY <1>1
<1> QED BY <1>1, <1>2

(* The types the cells C are known to be written and read with.            *)
Typings(C, T) == [writtenBy : [C -> SUBSET T], readBy : [C -> SUBSET T]]

\* What is inferred of a cell, and of what a cell at all holds.
OneOf(written, read) ==
  IF Cardinality(written) = 1 THEN written ELSE IF Cardinality(read) = 1 THEN read ELSE {}
Holds(cells, c) == IF cells.writtenBy[c] # {} THEN cells.writtenBy[c] ELSE cells.readBy[c]

SwitchIn(C, t) == t.to \in C /\ t.from[1] \in C /\ (Len(t.from) >= 2 => t.from[2] \in C)

LEMMA SwitchTermIs ==
  ASSUME NEW C, NEW T, Boolean \in T, NEW cells \in Typings(C, T), NEW t, SwitchIn(C, t)
  PROVE  /\ SwitchTerm(cells, t) \in Typings(C, T)
         /\ \A c \in C : SwitchTerm(cells, t).readBy[c] =
                           cells.readBy[c] \cup IF c = t.from[1] THEN {Boolean} ELSE {}
         /\ \A c \in C : c # t.to => SwitchTerm(cells, t).writtenBy[c] = cells.writtenBy[c]
         /\ SwitchTerm(cells, t).writtenBy[t.to] =
              cells.writtenBy[t.to] \cup
                IF Len(t.from) >= 2
                THEN OneOf(cells.writtenBy[t.from[2]], SwitchTerm(cells, t).readBy[t.from[2]]) ELSE {Boolean}
<1> DEFINE b == t.from[1]
           v == t.from[2]
           read == [cells EXCEPT !.readBy[b] = @ \cup {Boolean}]
           X == IF Len(t.from) >= 2 THEN Inferred(read, v) ELSE {Boolean}
           Y(R) == IF Len(t.from) >= 2 THEN OneOf(cells.writtenBy[v], R) ELSE {Boolean}
           out == [read EXCEPT !.writtenBy[t.to] = @ \cup X]
<1>0. /\ cells = [writtenBy |-> cells.writtenBy, readBy |-> cells.readBy]
      /\ cells.writtenBy \in [C -> SUBSET T] /\ cells.readBy \in [C -> SUBSET T]
      /\ b \in C /\ t.to \in C
  BY DEF Typings, SwitchIn
<1>1. SwitchTerm(cells, t) = out
  BY Zenon DEF SwitchTerm
<1> HIDE DEF b
<1>2. /\ read \in Typings(C, T) /\ read.writtenBy = cells.writtenBy
      /\ \A c \in C : read.readBy[c] = cells.readBy[c] \cup IF c = b THEN {Boolean} ELSE {}
  <2> DEFINE R == [cells.readBy EXCEPT ![b] = @ \cup {Boolean}]
  <2>1. R \in [C -> SUBSET T] /\ \A c \in C : R[c] = cells.readBy[c] \cup IF c = b THEN {Boolean} ELSE {}
    BY <1>0
  <2>2. read = [cells EXCEPT !.readBy = R]
    OBVIOUS
  <2> HIDE DEF R, read
  <2> QED BY <1>0, <2>1, <2>2 DEF Typings
<1>3. X = Y(read.readBy[v])
  BY <1>2 DEF Inferred, OneOf
<1> HIDE DEF read
<1>4. Y(read.readBy[v]) \in SUBSET T
  <2>1. CASE Len(t.from) >= 2
    <3>1. v \in C
      BY <2>1 DEF SwitchIn
    <3>2. cells.writtenBy[v] \in SUBSET T /\ read.readBy[v] \in SUBSET T
      BY <1>0, <1>2, <3>1 DEF Typings
    <3> QED BY <2>1, <3>2 DEF OneOf
  <2>2. CASE ~(Len(t.from) >= 2)
    BY <2>2
  <2> QED BY <2>1, <2>2
<1> HIDE DEF X, Y
<1>5. /\ out \in Typings(C, T) /\ out.readBy = read.readBy
      /\ \A c \in C : c # t.to => out.writtenBy[c] = read.writtenBy[c]
      /\ out.writtenBy[t.to] = read.writtenBy[t.to] \cup X
  <2> DEFINE W == [read.writtenBy EXCEPT ![t.to] = @ \cup X]
  <2>0. read.writtenBy \in [C -> SUBSET T] /\ read.readBy \in [C -> SUBSET T]
        /\ read = [writtenBy |-> read.writtenBy, readBy |-> read.readBy]
    BY <1>2 DEF Typings
  <2>1. /\ W \in [C -> SUBSET T] /\ W[t.to] = read.writtenBy[t.to] \cup X
        /\ \A c \in C : c # t.to => W[c] = read.writtenBy[c]
    BY <1>0, <1>3, <1>4, <2>0
  <2>2. out = [read EXCEPT !.writtenBy = W]
    OBVIOUS
  <2> HIDE DEF W, out
  <2> QED BY <2>0, <2>1, <2>2 DEF Typings
<1> HIDE DEF out
<1>6. X = Y(out.readBy[v])
  BY <1>3, <1>5
<1> QED BY <1>1, <1>2, <1>5, <1>6 DEF Y, b

LEMMA SwitchTermAdds ==
  ASSUME NEW C, NEW T, Boolean \in T, NEW cells \in Typings(C, T), NEW t, SwitchIn(C, t)
  PROVE  \A c \in C :
           /\ cells.writtenBy[c] \subseteq SwitchTerm(cells, t).writtenBy[c]
           /\ cells.readBy[c] \subseteq SwitchTerm(cells, t).readBy[c]
           /\ t.to # c => cells.writtenBy[c] = SwitchTerm(cells, t).writtenBy[c]
           /\ t.from[1] # c => cells.readBy[c] = SwitchTerm(cells, t).readBy[c]
<1> DEFINE made == SwitchTerm(cells, t)
<1>1. \A c \in C : made.readBy[c] = cells.readBy[c] \cup IF c = t.from[1] THEN {Boolean} ELSE {}
  BY SwitchTermIs
<1>2. \A c \in C : c # t.to => made.writtenBy[c] = cells.writtenBy[c]
  BY SwitchTermIs
<1>3. cells.writtenBy[t.to] \subseteq made.writtenBy[t.to]
  BY SwitchTermIs
<1> HIDE DEF made
<1>4. ASSUME NEW c \in C
      PROVE  /\ cells.writtenBy[c] \subseteq made.writtenBy[c] /\ cells.readBy[c] \subseteq made.readBy[c]
             /\ t.to # c => cells.writtenBy[c] = made.writtenBy[c]
             /\ t.from[1] # c => cells.readBy[c] = made.readBy[c]
  <2>1. made.readBy[c] = cells.readBy[c] \cup IF c = t.from[1] THEN {Boolean} ELSE {}
    BY <1>1
  <2>2. CASE c = t.to
    BY <1>3, <2>1, <2>2
  <2>3. CASE c # t.to
    BY <1>2, <2>1, <2>3
  <2> QED BY <2>2, <2>3
<1> QED BY <1>4 DEF made

(* The second pass of the checker.                                         *)
SwitchRun(C, T, base, seq, h) ==
  /\ h \in [0 .. Len(seq) -> Typings(C, T)]
  /\ h[0] = base
  /\ \A i \in 1 .. Len(seq) : h[i] = SwitchTerm(h[i - 1], seq[i])
  /\ FoldLeft(SwitchTerm, base, seq) = h[Len(seq)]

LEMMA SwitchRuns ==
  ASSUME NEW C, NEW T, Boolean \in T, NEW base \in Typings(C, T), NEW S, \A t \in S : SwitchIn(C, t), NEW seq \in Seq(S)
  PROVE  \E h : SwitchRun(C, T, base, seq, h)
<1> DEFINE A == Typings(C, T)
           n == Len(seq)
           step == [p \in A \X (1 .. n) |-> SwitchTerm(p[1], seq[p[2]])]
           Is(it) == it = [s \in SUBSET (1 .. n) |->
                             IF s = {} THEN base ELSE SwitchTerm(it[s \ {Max(s)}], seq[Max(s)])]
           F == CHOOSE it : Is(it)
<1>0. /\ n \in Nat /\ DOMAIN seq = 1 .. n
      /\ \A i \in 1 .. n : seq[i] \in S
  OBVIOUS
<1>1. FoldLeft(SwitchTerm, base, seq) = F[1 .. n]
  BY <1>0, Zenon DEF FoldLeft, MapThenFoldSet
<1> HIDE DEF n
<1>b. base \in A
  BY SwitchTermIs
<1>t. \A a \in A : \A x \in S : SwitchTerm(a, x) \in A
  BY SwitchTermIs
<1> HIDE DEF A
<1>2. step \in [A \X (1 .. n) -> A]
  <2>1. \A p \in A \X (1 .. n) : p[1] \in A /\ seq[p[2]] \in S
    BY <1>0
  <2>2. \A p \in A \X (1 .. n) : SwitchTerm(p[1], seq[p[2]]) \in A
    BY <2>1, <1>t, Zenon
  <2> QED BY <2>2
<1>3. PICK g : Folds(n, A, base, step, g)
  <2> HIDE DEF step
  <2> QED BY <1>0, <1>b, <1>2, FoldExists
<1>4. Is(g)
  <2>1. ASSUME NEW s \in SUBSET (1 .. n)
        PROVE  g[s] = IF s = {} THEN base ELSE SwitchTerm(g[s \ {Max(s)}], seq[Max(s)])
    <3>1. CASE s = {}
      BY <1>3, <3>1 DEF Folds
    <3>2. CASE s # {}
      <4>1. Max(s) \in 1 .. n /\ s \ {Max(s)} \in SUBSET (1 .. n)
        BY <1>0, <3>2, MaxOf
      <4>2. <<g[s \ {Max(s)}], Max(s)>> \in A \X (1 .. n)
        BY <1>3, <4>1 DEF Folds
      <4>3. step[<<g[s \ {Max(s)}], Max(s)>>] = SwitchTerm(g[s \ {Max(s)}], seq[Max(s)])
        BY <4>2
      <4>4. g[s] = step[<<g[s \ {Max(s)}], Max(s)>>]
        BY <1>3, <3>2 DEF Folds
      <4> QED BY <3>2, <4>3, <4>4
    <3> QED BY <3>1, <3>2
  <2>2. DOMAIN g = SUBSET (1 .. n) /\ g = [s \in SUBSET (1 .. n) |-> g[s]]
    BY <1>3 DEF Folds
  <2> QED BY <2>1, <2>2, Zenon
<1>5. Is(F)
  <2> HIDE DEF Is
  <2> QED BY <1>4
<1> HIDE DEF F
<1> DEFINE h == [i \in 0 .. n |-> F[1 .. i]]
<1>6. h[0] = base
  <2>1. 1 .. 0 = {} /\ {} \in SUBSET (1 .. n) /\ 0 \in 0 .. n
    BY <1>0
  <2> QED BY <1>5, <2>1
<1>7. ASSUME NEW i \in 1 .. n PROVE h[i] = SwitchTerm(h[i - 1], seq[i])
  <2>1. i \in 0 .. n /\ i - 1 \in 0 .. n
    BY <1>0
  <2>2. h[i] = F[1 .. i] /\ h[i - 1] = F[1 .. (i - 1)]
    BY <2>1
  <2>3. /\ 1 .. i \in SUBSET (1 .. n) /\ 1 .. i # {}
        /\ Max(1 .. i) = i /\ (1 .. i) \ {i} = 1 .. (i - 1)
    BY <1>0, PrefixRange
  <2> HIDE DEF h
  <2>4. F[1 .. i] = SwitchTerm(F[1 .. (i - 1)], seq[i])
    BY <1>5, <2>3
  <2> QED BY <2>2, <2>4
<1>8. h \in [0 .. n -> A]
  <2> DEFINE Inv == [i \in 0 .. n |-> A]
  <2>1. h[0] \in Inv[0]
    BY <1>0, <1>6, <1>b
  <2>2. ASSUME NEW i \in 1 .. n, h[i - 1] \in Inv[i - 1] PROVE h[i] \in Inv[i]
    <3>1. i \in 0 .. n /\ i - 1 \in 0 .. n /\ seq[i] \in S
      BY <1>0
    <3>2. h[i - 1] \in A
      BY <2>2, <3>1
    <3>3. SwitchTerm(h[i - 1], seq[i]) \in A
      BY <3>1, <3>2, <1>t, Zenon
    <3> QED BY <1>7, <3>1, <3>3
  <2> HIDE DEF h
  <2>3. \A i \in 0 .. n : h[i] \in Inv[i]
    <3> HIDE DEF Inv
    <3> QED BY <1>0, <2>1, <2>2, AlongTheChain
  <2> USE DEF h
  <2> QED BY <2>3
<1>9. n \in 0 .. n /\ h[n] = F[1 .. n]
  BY <1>0
<1> HIDE DEF h
<1> QED BY <1>0, <1>1, <1>6, <1>7, <1>8, <1>9 DEF SwitchRun, n, A

(* Along the pass, types are only added: to what a switch writes and to its*)
(* condition.                                                              *)
LEMMA SwitchesAdd ==
  ASSUME NEW C, NEW T, Boolean \in T, NEW base \in Typings(C, T), NEW S, \A t \in S : SwitchIn(C, t),
         NEW seq \in Seq(S), NEW h, SwitchRun(C, T, base, seq, h), NEW i \in 0 .. Len(seq)
  PROVE  \A j \in i .. Len(seq) : \A c \in C :
           /\ h[i].writtenBy[c] \subseteq h[j].writtenBy[c] /\ h[i].readBy[c] \subseteq h[j].readBy[c]
           /\ (\A k \in (i + 1) .. j : seq[k].to # c) => h[i].writtenBy[c] = h[j].writtenBy[c]
           /\ (\A k \in (i + 1) .. j : seq[k].from[1] # c) => h[i].readBy[c] = h[j].readBy[c]
<1> DEFINE n == Len(seq)
           Good(j) == \A c \in C :
             /\ h[i].writtenBy[c] \subseteq h[j].writtenBy[c] /\ h[i].readBy[c] \subseteq h[j].readBy[c]
             /\ (\A k \in (i + 1) .. j : seq[k].to # c) => h[i].writtenBy[c] = h[j].writtenBy[c]
             /\ (\A k \in (i + 1) .. j : seq[k].from[1] # c) => h[i].readBy[c] = h[j].readBy[c]
           G == {d \in Nat : i + d <= n => Good(i + d)}
<1>0. n \in Nat /\ i \in Nat /\ i <= n /\ \A k \in 1 .. n : seq[k] \in S
  OBVIOUS
<1>1. 0 \in G
  <2>1. i + 0 = i
    BY <1>0
  <2>2. Good(i)
    OBVIOUS
  <2> HIDE DEF Good
  <2> QED BY <2>1, <2>2
<1>2. ASSUME NEW d \in G PROVE d + 1 \in G
  <2> SUFFICES ASSUME i + (d + 1) <= n PROVE Good(i + (d + 1))
    OBVIOUS
  <2> DEFINE j == i + d
             m == j + 1
  <2>0. j \in 0 .. n /\ m \in 1 .. n /\ m - 1 = j /\ i + (d + 1) = m /\ i + d = j /\ i <= j
    BY <1>0
  <2>1. Good(j)
    <3> HIDE DEF Good
    <3> QED BY <1>0, <2>0
  <2> HIDE DEF j
  <2>2. h[m] = SwitchTerm(h[j], seq[m]) /\ h[j] \in Typings(C, T)
    <3> HIDE DEF m
    <3> QED BY <2>0 DEF SwitchRun
  <2>3. seq[m] \in S /\ SwitchIn(C, seq[m])
    BY <1>0, <2>0
  <2> DEFINE t == seq[m]
  <2>5. \A k \in (i + 1) .. j : k \in (i + 1) .. m
    BY <1>0, <2>0
  <2>6. m \in (i + 1) .. m
    BY <1>0, <2>0
  <2> HIDE DEF m
  <2>7. ASSUME NEW c \in C
        PROVE  /\ h[j].writtenBy[c] \subseteq h[m].writtenBy[c] /\ h[j].readBy[c] \subseteq h[m].readBy[c]
               /\ t.to # c => h[j].writtenBy[c] = h[m].writtenBy[c]
               /\ t.from[1] # c => h[j].readBy[c] = h[m].readBy[c]
    <3> DEFINE cells == h[j]
    <3>1. cells \in Typings(C, T) /\ SwitchIn(C, t) /\ h[m] = SwitchTerm(cells, t)
      BY <2>2, <2>3
    <3> HIDE DEF t, cells, Good
    <3>2. /\ cells.writtenBy[c] \subseteq SwitchTerm(cells, t).writtenBy[c]
          /\ cells.readBy[c] \subseteq SwitchTerm(cells, t).readBy[c]
          /\ t.to # c => cells.writtenBy[c] = SwitchTerm(cells, t).writtenBy[c]
          /\ t.from[1] # c => cells.readBy[c] = SwitchTerm(cells, t).readBy[c]
      BY <3>1, SwitchTermAdds
    <3> QED BY <3>1, <3>2, Zenon DEF cells
  <2>8. Good(m)
    <3> SUFFICES ASSUME NEW c \in C
                 PROVE  /\ h[i].writtenBy[c] \subseteq h[m].writtenBy[c] /\ h[i].readBy[c] \subseteq h[m].readBy[c]
                        /\ (\A k \in (i + 1) .. m : seq[k].to # c) => h[i].writtenBy[c] = h[m].writtenBy[c]
                        /\ (\A k \in (i + 1) .. m : seq[k].from[1] # c) => h[i].readBy[c] = h[m].readBy[c]
      OBVIOUS
    <3>1. /\ h[i].writtenBy[c] \subseteq h[j].writtenBy[c] /\ h[i].readBy[c] \subseteq h[j].readBy[c]
          /\ (\A k \in (i + 1) .. j : seq[k].to # c) => h[i].writtenBy[c] = h[j].writtenBy[c]
          /\ (\A k \in (i + 1) .. j : seq[k].from[1] # c) => h[i].readBy[c] = h[j].readBy[c]
      BY <2>1, Zenon
    <3>2. (\A k \in (i + 1) .. m : seq[k].to # c) => t.to # c /\ \A k \in (i + 1) .. j : seq[k].to # c
      BY <2>5, <2>6, Zenon
    <3>3. (\A k \in (i + 1) .. m : seq[k].from[1] # c) => t.from[1] # c /\ \A k \in (i + 1) .. j : seq[k].from[1] # c
      BY <2>5, <2>6, Zenon
    <3> HIDE DEF t
    <3> QED BY <2>7, <3>1, <3>2, <3>3
  <2> HIDE DEF Good
  <2> QED BY <2>0, <2>8
<1>3. G = Nat
  <2>1. G \in SUBSET Nat
    OBVIOUS
  <2> HIDE DEF G
  <2> QED BY <1>1, <1>2, <2>1, Lemmas!Induction
<1>4. ASSUME NEW j \in i .. n PROVE Good(j)
  <2>1. j - i \in Nat /\ i + (j - i) = j /\ j <= n
    BY <1>0
  <2> HIDE DEF Good
  <2> QED BY <1>3, <2>1
<1> QED BY <1>4

-----------------------------------------------------------------------------
(* The two passes of the type checker.                                     *)
NetworkOK(net) ==
  /\ IsSequence(net.terms)
  /\ \A t \in Range(net.terms) : IsSequence(t.from) /\ (t.kind = "switch" => t.from # <<>>)

(* All the types the checker comes across in a network.                    *)
TypesOf(net, fns) ==
  {Boolean} \cup {returnType(fns[t.fn], t) : t \in Range(Typed(net, fns))}
            \cup UNION {{r[2] : r \in Reads(fns, t)} : t \in Range(Typed(net, fns))}

LEMMA TermsAre ==
  ASSUME NEW net, NEW fns, NetworkOK(net)
  PROVE  /\ IsFiniteSet(Range(Typed(net, fns))) /\ Range(Typed(net, fns)) \subseteq Range(net.terms)
         /\ Switches(net) \in Seq(Range(Switches(net)))
         /\ \A t \in Range(Switches(net)) : t \in Range(net.terms) /\ SwitchIn(Cells(net), t)
<1>0. net.terms \in Seq(Range(net.terms))
  BY DEF NetworkOK, IsSequence
<1> DEFINE T == Range(net.terms)
           A == {t \in T : t.kind = "propagate" /\ t.fn \in DOMAIN fns}
           B == {t \in T : t.kind = "switch"}
<1>1. Typed(net, fns) = Kept(net.terms, A) /\ Switches(net) = Kept(net.terms, B)
  BY DEF Typed, Switches
<1>2. A \subseteq T /\ B \subseteq T
  OBVIOUS
<1>3. \A t \in B : t.from \in Seq(Range(t.from)) /\ t.from # <<>>
  BY DEF NetworkOK, IsSequence
<1>4. ASSUME NEW t \in B PROVE SwitchIn(Cells(net), t)
  <2>1. t.from \in Seq(Range(t.from)) /\ t.from # <<>>
    BY <1>3
  <2> DEFINE s == t.from
  <2>2. t \in T
    OBVIOUS
  <2>3. Range(s) \subseteq Cells(net) /\ t.to \in Cells(net)
    BY <2>2 DEF Cells
  <2>4. 1 \in DOMAIN s /\ (Len(s) >= 2 => 2 \in DOMAIN s)
    <3> HIDE DEF s, B
    <3>1. s \in Seq(Range(s)) /\ s # <<>>
      BY <2>1 DEF s
    <3>2. Len(s) \in Nat /\ Len(s) # 0 /\ DOMAIN s = 1 .. Len(s)
      BY <3>1, EmptySeq
    <3> QED BY <3>2
  <2>5. s[1] \in Range(s) /\ (Len(s) >= 2 => s[2] \in Range(s))
    BY <2>4 DEF Range
  <2> HIDE DEF B
  <2> QED BY <2>3, <2>5 DEF SwitchIn
<1> HIDE DEF A, B
<1>5. IsFiniteSet(Range(Typed(net, fns))) /\ Range(Typed(net, fns)) \subseteq T
  <2>1. Typed(net, fns) \in Seq(T) /\ Range(Typed(net, fns)) = T \cap A
    BY <1>0, <1>1, KeptIs
  <2> QED BY <2>1, FiniteRange
<1>6. Switches(net) \in Seq(T) /\ Range(Switches(net)) = T \cap B
  BY <1>0, <1>1, KeptIs
<1>7. Switches(net) \in Seq(Range(Switches(net)))
  <2> DEFINE s == Switches(net)
  <2>1. s \in Seq(T)
    BY <1>6
  <2> HIDE DEF s
  <2>2. s \in Seq(Range(s))
    BY <2>1 DEF Range
  <2> QED BY <2>2 DEF s
<1> QED BY <1>2, <1>4, <1>5, <1>6, <1>7

LEMMA ReadsAre ==
  ASSUME NEW net, NEW fns, NetworkOK(net), NEW t \in Range(net.terms)
  PROVE  /\ IsFiniteSet({r[2] : r \in Reads(fns, t)})
         /\ \A r \in Reads(fns, t) : r[1] \in Cells(net)
<1> DEFINE D == DOMAIN t.from \cap DOMAIN fns[t.fn].params
           p == [i \in D |-> <<t.from[i], paramTypes(fns[t.fn], t)[i]>>]
<1>1. Reads(fns, t) = {p[i] : i \in D}
  BY DEF Reads
<1>2. IsFiniteSet(D)
  <2> DEFINE s == t.from
  <2>1. s \in Seq(Range(s))
    BY DEF NetworkOK, IsSequence
  <2> HIDE DEF s
  <2>2. DOMAIN s = 1 .. Len(s) /\ 1 \in Int /\ Len(s) \in Int
    BY <2>1
  <2>3. IsFiniteSet(DOMAIN s) /\ D \in SUBSET (DOMAIN s)
    BY <2>2, FS_Interval DEF s
  <2> HIDE DEF D
  <2> QED BY <2>3, FS_Subset
<1>3. \A i \in D : p[i][1] = t.from[i] /\ t.from[i] \in Range(t.from)
  BY DEF Range
<1>4. Range(t.from) \subseteq Cells(net)
  BY DEF Cells
<1> HIDE DEF D, p
<1>5. IsFiniteSet(Reads(fns, t))
  BY <1>1, <1>2, FiniteImage
<1>6. IsFiniteSet({r[2] : r \in Reads(fns, t)})
  <2> DEFINE R == Reads(fns, t)
             second == [r \in R |-> r[2]]
  <2>1. {r[2] : r \in R} = {second[r] : r \in R}
    OBVIOUS
  <2> HIDE DEF R, second
  <2>2. IsFiniteSet({second[r] : r \in R})
    BY <1>5, FiniteImage DEF R
  <2> QED BY <2>1, <2>2 DEF R
<1> QED BY <1>1, <1>3, <1>4, <1>6

LEMMA TypesAreFinite ==
  ASSUME NEW net, NEW fns, NetworkOK(net)
  PROVE  IsFiniteSet(TypesOf(net, fns)) /\ Boolean \in TypesOf(net, fns)
<1> DEFINE typed == Range(Typed(net, fns))
           returned == [t \in typed |-> returnType(fns[t.fn], t)]
           taken == [t \in typed |-> {r[2] : r \in Reads(fns, t)}]
<1>1. TypesOf(net, fns) = {Boolean} \cup {returned[t] : t \in typed} \cup UNION {taken[t] : t \in typed}
  BY DEF TypesOf
<1>2. IsFiniteSet(typed) /\ typed \subseteq Range(net.terms)
  BY TermsAre
<1>3. \A t \in typed : IsFiniteSet(taken[t])
  BY <1>2, ReadsAre
<1> HIDE DEF typed, returned, taken
<1>4. IsFiniteSet({returned[t] : t \in typed}) /\ IsFiniteSet({taken[t] : t \in typed})
  BY <1>2, FiniteImage
<1>5. IsFiniteSet(UNION {taken[t] : t \in typed})
  BY <1>3, <1>4, FS_UNION
<1>6. IsFiniteSet({Boolean})
  BY FS_Singleton
<1>7. ASSUME NEW P, NEW Q, IsFiniteSet(P), IsFiniteSet(Q) PROVE IsFiniteSet(P \cup Q)
  BY <1>7, FS_Union, Zenon
<1>8. IsFiniteSet({Boolean} \cup {returned[t] : t \in typed})
  BY <1>4, <1>6, <1>7, Zenon
<1>9. IsFiniteSet(TypesOf(net, fns))
  <2> DEFINE A == {Boolean} \cup {returned[t] : t \in typed}
             B == UNION {taken[t] : t \in typed}
  <2>1. TypesOf(net, fns) = A \cup B /\ IsFiniteSet(A) /\ IsFiniteSet(B)
    BY <1>1, <1>5, <1>8
  <2> HIDE DEF A, B
  <2>2. IsFiniteSet(A \cup B)
    BY <1>7, <2>1
  <2> QED BY <2>1, <2>2
<1> QED BY <1>1, <1>9

LEMMA FirstPass ==
  ASSUME NEW net, NEW fns, NetworkOK(net)
  PROVE  LET base == PropagateTerms(net, fns) IN
         /\ base \in Typings(Cells(net), TypesOf(net, fns))
         /\ \A t \in Range(Typed(net, fns)) : returnType(fns[t.fn], t) \in base.writtenBy[t.to]
         /\ \A t \in Range(Typed(net, fns)) : \A r \in Reads(fns, t) : r[2] \in base.readBy[r[1]]
         /\ \A c \in Cells(net) : (\A t \in Range(Typed(net, fns)) : t.to # c) => base.writtenBy[c] = {}
<1> DEFINE typed == Range(Typed(net, fns))
           C == Cells(net)
           T == TypesOf(net, fns)
           base == PropagateTerms(net, fns)
           W == [c \in C |-> {returnType(fns[t.fn], t) : t \in {u \in typed : u.to = c}}]
           R == [c \in C |-> {r[2] : r \in {s \in UNION {Reads(fns, t) : t \in typed} : s[1] = c}}]
<1>1. base = [writtenBy |-> W, readBy |-> R]
  BY DEF PropagateTerms
<1>2. \A t \in typed : t \in Range(net.terms) /\ t.to \in C /\ returnType(fns[t.fn], t) \in T
  <2>1. typed \subseteq Range(net.terms)
    BY TermsAre
  <2> QED BY <2>1 DEF Cells, TypesOf
<1>3. \A t \in typed : \A r \in Reads(fns, t) : r[1] \in C /\ r[2] \in T
  <2>1. ASSUME NEW t \in typed, NEW r \in Reads(fns, t) PROVE r[1] \in C
    BY <1>2, ReadsAre
  <2>2. ASSUME NEW t \in typed, NEW r \in Reads(fns, t) PROVE r[2] \in T
    BY DEF TypesOf
  <2> QED BY <2>1, <2>2
<1> HIDE DEF typed, C, T, base
<1>4. W \in [C -> SUBSET T] /\ R \in [C -> SUBSET T]
  <2>1. \A c \in C : W[c] \in SUBSET T
    BY <1>2
  <2>2. \A c \in C : R[c] \in SUBSET T
    BY <1>3
  <2> QED BY <2>1, <2>2
<1>5. \A t \in typed : returnType(fns[t.fn], t) \in W[t.to]
  BY <1>2
<1>6. ASSUME NEW t \in typed, NEW r \in Reads(fns, t) PROVE r[2] \in R[r[1]]
  <2>1. r[1] \in C /\ r \in UNION {Reads(fns, u) : u \in typed}
    BY <1>3
  <2> QED BY <2>1
<1>7. \A c \in C : (\A t \in typed : t.to # c) => W[c] = {}
  OBVIOUS
<1> HIDE DEF W, R
<1> QED BY <1>1, <1>4, <1>5, <1>6, <1>7 DEF Typings, typed, C, T, base


(* A cell no term writes stays unwritten; no cell of a clean network has   *)
(* two types, or one its readers do not take.                              *)
OneType(cells, C) ==
  \A c \in C : /\ ~(Cardinality(cells.writtenBy[c]) > 1) /\ ~(Cardinality(cells.readBy[c]) > 1)
               /\ Cardinality(cells.writtenBy[c]) = 1 => cells.readBy[c] \subseteq cells.writtenBy[c]

LEMMA HoldsOne ==
  ASSUME NEW C, NEW T, IsFiniteSet(T), NEW cells \in Typings(C, T), OneType(cells, C), NEW c \in C
  PROVE  /\ Holds(cells, c) = OneOf(cells.writtenBy[c], cells.readBy[c])
         /\ \A x \in cells.writtenBy[c] : Holds(cells, c) = {x}
         /\ \A x \in cells.readBy[c] : Holds(cells, c) = {x}
<1> DEFINE W == cells.writtenBy[c]
           R == cells.readBy[c]
<1>1. W \in SUBSET T /\ R \in SUBSET T
  BY DEF Typings
<1>2. /\ ~(Cardinality(W) > 1) /\ ~(Cardinality(R) > 1)
      /\ Cardinality(W) = 1 => R \subseteq W
  BY DEF OneType
<1>3. Holds(cells, c) = (IF W # {} THEN W ELSE R)
  BY DEF Holds
<1> HIDE DEF W, R
<1>4. IsFiniteSet(W) /\ IsFiniteSet(R)
  BY <1>1, FS_Subset
<1>5. /\ W = {} \/ (Cardinality(W) = 1 /\ \E x : W = {x})
      /\ W = {} => Cardinality(W) # 1
  BY <1>2, <1>4, AtMostOne
<1>6. /\ R = {} \/ (Cardinality(R) = 1 /\ \E x : R = {x})
      /\ R = {} => Cardinality(R) # 1
  BY <1>2, <1>4, AtMostOne
<1>7. Holds(cells, c) = OneOf(W, R)
  BY <1>3, <1>5, <1>6 DEF OneOf
<1>8. ASSUME NEW x \in W PROVE Holds(cells, c) = {x}
  BY <1>3, <1>5, <1>8
<1>9. ASSUME NEW x \in R PROVE Holds(cells, c) = {x}
  BY <1>2, <1>3, <1>5, <1>6, <1>9
<1> QED BY <1>7, <1>8, <1>9 DEF W, R

(* What the second pass leaves: every type it has met is recorded, and a   *)
(* switch that comes after those that say what its value is passes on the  *)
(* one type of that value.                                                 *)
LEMMA SecondPass ==
  ASSUME NEW C, NEW T, IsFiniteSet(T), Boolean \in T, NEW base \in Typings(C, T), NEW S, \A t \in S : SwitchIn(C, t),
         NEW seq \in Seq(S),
         \A i \in DOMAIN seq, j \in DOMAIN seq :
            j > i /\ Len(seq[i].from) >= 2 => seq[i].from[2] \notin {seq[j].to, seq[j].from[1]}
  PROVE  LET cells == FoldLeft(SwitchTerm, base, seq) IN
         /\ cells \in Typings(C, T)
         /\ \A c \in C : base.writtenBy[c] \subseteq cells.writtenBy[c] /\ base.readBy[c] \subseteq cells.readBy[c]
         /\ \A c \in C : (\A i \in DOMAIN seq : seq[i].to # c) => cells.writtenBy[c] = base.writtenBy[c]
         /\ OneType(cells, C) =>
              \A i \in DOMAIN seq :
                /\ Boolean \in cells.readBy[seq[i].from[1]]
                /\ Len(seq[i].from) >= 2 => Holds(cells, seq[i].from[2]) \subseteq Holds(cells, seq[i].to)
                /\ ~(Len(seq[i].from) >= 2) => Boolean \in cells.writtenBy[seq[i].to]
<1> DEFINE n == Len(seq)
<1>0. n \in Nat /\ DOMAIN seq = 1 .. n /\ \A i \in 1 .. n : seq[i] \in S
  OBVIOUS
<1>1. PICK h : SwitchRun(C, T, base, seq, h)
  BY SwitchRuns
<1> DEFINE cells == h[n]
<1>2. /\ FoldLeft(SwitchTerm, base, seq) = h[n] /\ h[0] = base
      /\ \A i \in 0 .. n : h[i] \in Typings(C, T)
      /\ \A i \in 1 .. n : h[i] = SwitchTerm(h[i - 1], seq[i])
  BY <1>1 DEF SwitchRun
<1>3. \A i \in 0 .. n : \A c \in C :
        /\ h[i].writtenBy[c] \subseteq cells.writtenBy[c] /\ h[i].readBy[c] \subseteq cells.readBy[c]
        /\ (\A k \in (i + 1) .. n : seq[k].to # c) => h[i].writtenBy[c] = cells.writtenBy[c]
        /\ (\A k \in (i + 1) .. n : seq[k].from[1] # c) => h[i].readBy[c] = cells.readBy[c]
  <2>1. ASSUME NEW i \in 0 .. n
        PROVE  \A c \in C :
                 /\ h[i].writtenBy[c] \subseteq cells.writtenBy[c] /\ h[i].readBy[c] \subseteq cells.readBy[c]
                 /\ (\A k \in (i + 1) .. n : seq[k].to # c) => h[i].writtenBy[c] = cells.writtenBy[c]
                 /\ (\A k \in (i + 1) .. n : seq[k].from[1] # c) => h[i].readBy[c] = cells.readBy[c]
    <3>1. n \in i .. n /\ n = Len(seq)
      BY <1>0
    <3> HIDE DEF n
    <3> QED BY <1>1, <3>1, SwitchesAdd
  <2> QED BY <2>1
<1>4. 0 \in 0 .. n /\ n \in 0 .. n /\ 0 + 1 = 1
  BY <1>0
<1> HIDE DEF n, cells
<1>5. /\ cells \in Typings(C, T)
      /\ \A c \in C : base.writtenBy[c] \subseteq cells.writtenBy[c] /\ base.readBy[c] \subseteq cells.readBy[c]
      /\ \A c \in C : (\A i \in DOMAIN seq : seq[i].to # c) => cells.writtenBy[c] = base.writtenBy[c]
  <2>1. cells \in Typings(C, T)
    BY <1>2, <1>4 DEF cells
  <2>2. ASSUME NEW c \in C
        PROVE  /\ base.writtenBy[c] \subseteq cells.writtenBy[c] /\ base.readBy[c] \subseteq cells.readBy[c]
               /\ (\A i \in 1 .. n : seq[i].to # c) => base.writtenBy[c] = cells.writtenBy[c]
    BY <1>2, <1>3, <1>4
  <2> QED BY <1>0, <2>1, <2>2
<1>6. ASSUME OneType(cells, C), NEW i \in 1 .. n
      PROVE  /\ Boolean \in cells.readBy[seq[i].from[1]]
             /\ Len(seq[i].from) >= 2 => Holds(cells, seq[i].from[2]) \subseteq Holds(cells, seq[i].to)
             /\ ~(Len(seq[i].from) >= 2) => Boolean \in cells.writtenBy[seq[i].to]
  <2> DEFINE t == seq[i]
             b == t.from[1]
             v == t.from[2]
             before == h[i - 1]
             after == h[i]
  <2>1. /\ i - 1 \in 0 .. n /\ i \in 0 .. n /\ t \in S
        /\ \A j \in (i + 1) .. n : j \in 1 .. n /\ j > i
    BY <1>0
  <2>2. /\ before \in Typings(C, T) /\ after = SwitchTerm(before, t) /\ SwitchIn(C, t)
        /\ t.to \in C /\ b \in C /\ (Len(t.from) >= 2 => v \in C)
    BY <1>2, <2>1 DEF SwitchIn
  <2>3. /\ after.writtenBy[t.to] \subseteq cells.writtenBy[t.to]
        /\ after.readBy[b] \subseteq cells.readBy[b]
    BY <1>3, <2>1, <2>2
  <2>4. /\ Boolean \in after.readBy[b]
        /\ after.writtenBy[t.to] =
             before.writtenBy[t.to] \cup
               IF Len(t.from) >= 2 THEN OneOf(before.writtenBy[v], after.readBy[v]) ELSE {Boolean}
        /\ \A c \in C : c # t.to => after.writtenBy[c] = before.writtenBy[c]
    <3> HIDE DEF before, after, t
    <3>1. /\ \A c \in C : after.readBy[c] = before.readBy[c] \cup IF c = t.from[1] THEN {Boolean} ELSE {}
          /\ \A c \in C : c # t.to => after.writtenBy[c] = before.writtenBy[c]
          /\ after.writtenBy[t.to] =
               before.writtenBy[t.to] \cup
                 IF Len(t.from) >= 2
                 THEN OneOf(before.writtenBy[t.from[2]], after.readBy[t.from[2]]) ELSE {Boolean}
      BY <2>2, SwitchTermIs
    <3> QED BY <2>2, <3>1
  <2>5. ~(Len(t.from) >= 2) => Boolean \in cells.writtenBy[t.to]
    <3> HIDE DEF before, after, t
    <3> QED BY <2>3, <2>4
  <2>6. ASSUME Len(t.from) >= 2 PROVE Holds(cells, v) \subseteq Holds(cells, t.to)
    <3>1. CASE v = t.to
      BY <3>1
    <3>2. CASE v # t.to
      <4>1. \A k \in (i + 1) .. n : seq[k].to # v /\ seq[k].from[1] # v
        BY <1>0, <2>1, <2>6
      <4>2. after.writtenBy[v] = cells.writtenBy[v] /\ after.readBy[v] = cells.readBy[v]
        <5>1. v \in C
          BY <2>2, <2>6
        <5>2. (\A k \in (i + 1) .. n : seq[k].to # v) /\ (\A k \in (i + 1) .. n : seq[k].from[1] # v)
          BY <4>1
        <5> HIDE DEF v, t
        <5> QED BY <1>3, <2>1, <5>1, <5>2
      <4>3. before.writtenBy[v] = after.writtenBy[v]
        <5> HIDE DEF before, after, t
        <5> QED BY <2>2, <2>4, <2>6, <3>2
      <4>4. OneOf(cells.writtenBy[v], cells.readBy[v]) \subseteq cells.writtenBy[t.to]
        <5> HIDE DEF before, after, v, t
        <5> QED BY <2>3, <2>4, <2>6, <4>2, <4>3
      <4>5. Holds(cells, v) \subseteq cells.writtenBy[t.to]
        <5>1. v \in C
          BY <2>2, <2>6
        <5> HIDE DEF before, after, v, t
        <5>2. Holds(cells, v) = OneOf(cells.writtenBy[v], cells.readBy[v])
          BY <1>5, <1>6, <5>1, HoldsOne
        <5> QED BY <4>4, <5>2
      <4> HIDE DEF v, t
      <4> QED BY <4>5 DEF Holds
    <3> QED BY <3>1, <3>2
  <2>7. Boolean \in cells.readBy[b]
    <3> HIDE DEF before, after, b
    <3> QED BY <2>3, <2>4
  <2> QED BY <2>5, <2>6, <2>7
<1> QED BY <1>0, <1>2, <1>5, <1>6 DEF cells

-----------------------------------------------------------------------------
(* A network without errors is sound.                                      *)
(* What the checker knows of a network without errors whose switches are in*)
(* data order.                                                             *)
Settled(net, fns, F) ==
  /\ F \in Typings(Cells(net), TypesOf(net, fns))
  /\ OneType(F, Cells(net))
  /\ \A t \in Range(Typed(net, fns)) : returnType(fns[t.fn], t) \in F.writtenBy[t.to]
  /\ \A t \in Range(Typed(net, fns)) : \A r \in Reads(fns, t) : r[1] \in Cells(net) /\ r[2] \in F.readBy[r[1]]
  /\ \A t \in Range(Switches(net)) :
       /\ Boolean \in F.readBy[t.from[1]]
       /\ Len(t.from) >= 2 => Holds(F, t.from[2]) \subseteq Holds(F, t.to)
       /\ ~(Len(t.from) >= 2) => Boolean \in F.writtenBy[t.to]
  /\ \A c \in Cells(net) : (\A t \in Range(net.terms) : t.to # c) => F.writtenBy[c] = {}

LEMMA CheckedIsSettled ==
  ASSUME NEW net, NEW nodes, NetworkOK(net), Clean(typeCheck(net, nodes)), SwitchesInDataOrder(net)
  PROVE  \E F : Settled(net, buildFnMap(nodes), F)
<1> DEFINE fns == buildFnMap(nodes)
           C == Cells(net)
           T == TypesOf(net, fns)
           base == PropagateTerms(net, fns)
           seq == Switches(net)
           F == FoldLeft(SwitchTerm, base, seq)
           typed == Range(Typed(net, fns))
           S == Range(seq)
<1>1. CellErrors(F) = {}
  BY DEF typeCheck, Clean
<1> HIDE DEF fns
<1>2. IsFiniteSet(T) /\ Boolean \in T
  BY TypesAreFinite
<1>3. /\ typed \subseteq Range(net.terms) /\ seq \in Seq(S)
      /\ \A t \in S : t \in Range(net.terms) /\ SwitchIn(C, t)
  BY TermsAre
<1>4. /\ base \in Typings(C, T)
      /\ \A t \in typed : returnType(fns[t.fn], t) \in base.writtenBy[t.to]
      /\ \A t \in typed : \A r \in Reads(fns, t) : r[2] \in base.readBy[r[1]]
      /\ \A c \in C : (\A t \in typed : t.to # c) => base.writtenBy[c] = {}
  BY FirstPass
<1>5. \A i \in DOMAIN seq, j \in DOMAIN seq :
        j > i /\ Len(seq[i].from) >= 2 => seq[i].from[2] \notin {seq[j].to, seq[j].from[1]}
  BY DEF SwitchesInDataOrder
<1>6. \A t \in typed : t.to \in C /\ \A r \in Reads(fns, t) : r[1] \in C
  <2>1. ASSUME NEW t \in typed PROVE t.to \in C
    BY <1>3 DEF Cells
  <2>2. ASSUME NEW t \in typed PROVE \A r \in Reads(fns, t) : r[1] \in C
    BY <1>3, ReadsAre
  <2> QED BY <2>1, <2>2
<1> HIDE DEF C, T, base, seq, typed, S
<1>7. /\ F \in Typings(C, T)
      /\ \A c \in C : base.writtenBy[c] \subseteq F.writtenBy[c] /\ base.readBy[c] \subseteq F.readBy[c]
      /\ \A c \in C : (\A i \in DOMAIN seq : seq[i].to # c) => F.writtenBy[c] = base.writtenBy[c]
      /\ OneType(F, C) =>
           \A i \in DOMAIN seq :
             /\ Boolean \in F.readBy[seq[i].from[1]]
             /\ Len(seq[i].from) >= 2 => Holds(F, seq[i].from[2]) \subseteq Holds(F, seq[i].to)
             /\ ~(Len(seq[i].from) >= 2) => Boolean \in F.writtenBy[seq[i].to]
  BY <1>2, <1>3, <1>4, <1>5, SecondPass
<1> HIDE DEF F
<1>8. OneType(F, C)
  <2>1. DOMAIN F.writtenBy = C
    BY <1>7 DEF Typings
  <2>2. ASSUME NEW c \in C
        PROVE  ~(\/ Cardinality(F.writtenBy[c]) > 1 \/ Cardinality(F.readBy[c]) > 1
                 \/ (Cardinality(F.writtenBy[c]) = 1 /\ F.readBy[c] \ F.writtenBy[c] # {}))
    BY <1>1, <2>1 DEF CellErrors
  <2>3. \A c \in C : F.readBy[c] \ F.writtenBy[c] = {} => F.readBy[c] \subseteq F.writtenBy[c]
    OBVIOUS
  <2> QED BY <2>2, <2>3 DEF OneType
<1>9. ASSUME NEW t \in S PROVE \E i \in DOMAIN seq : seq[i] = t
  BY DEF S, Range
<1>10. ASSUME NEW i \in DOMAIN seq PROVE seq[i] \in S
  BY DEF S, Range
<1>11. \A t \in typed : returnType(fns[t.fn], t) \in F.writtenBy[t.to]
  BY <1>4, <1>6, <1>7
<1>12. ASSUME NEW t \in typed, NEW r \in Reads(fns, t) PROVE r[1] \in C /\ r[2] \in F.readBy[r[1]]
  BY <1>4, <1>6, <1>7
<1>13. ASSUME NEW t \in S
       PROVE  /\ Boolean \in F.readBy[t.from[1]]
              /\ Len(t.from) >= 2 => Holds(F, t.from[2]) \subseteq Holds(F, t.to)
              /\ ~(Len(t.from) >= 2) => Boolean \in F.writtenBy[t.to]
  <2>1. PICK i \in DOMAIN seq : seq[i] = t
    BY <1>9
  <2> QED BY <1>7, <1>8, <2>1
<1>14. ASSUME NEW c \in C, \A t \in Range(net.terms) : t.to # c PROVE F.writtenBy[c] = {}
  <2>1. (\A t \in typed : t.to # c) /\ \A i \in DOMAIN seq : seq[i].to # c
    BY <1>3, <1>10, <1>14
  <2> QED BY <1>4, <1>7, <2>1
<1>15. Settled(net, fns, F)
  BY <1>7, <1>8, <1>11, <1>12, <1>13, <1>14 DEF Settled, C, T, typed, seq, S
<1> QED BY <1>15 DEF fns

LEMMA HoldsWhatIsKnown ==
  ASSUME NEW net, NEW fns, NEW F, Settled(net, fns, F), NEW c \in Cells(net)
  PROVE  /\ F.writtenBy[c] \subseteq Holds(F, c)
         /\ (\A t \in Range(net.terms) : t.to # c) => F.readBy[c] \subseteq Holds(F, c)
BY DEF Settled, Holds

LEMMA SeededIsHeld ==
  ASSUME NEW net, NEW fns, NEW F, NetworkOK(net), Settled(net, fns, F), NEW c \in Cells(net)
  PROVE  Seeded(net, fns, c) \subseteq Holds(F, c)
<1> SUFFICES ASSUME \A t \in Range(net.terms) : t.to # c, NEW x \in Seeded(net, fns, c)
             PROVE  x \in F.readBy[c]
  BY HoldsWhatIsKnown DEF Seeded
<1>1. \/ \E t \in Range(Typed(net, fns)) : \E r \in Reads(fns, t) : r[1] = c /\ x = r[2]
      \/ x = Boolean /\ \E t \in Range(Switches(net)) : t.from[1] = c
  BY DEF Seeded
<1> QED BY <1>1 DEF Settled

LEMMA DeliveredIsHeld ==
  ASSUME NEW net, NEW fns, NEW F, NetworkOK(net), Settled(net, fns, F),
         NEW carried, \A c \in Cells(net) : carried[c] \subseteq Holds(F, c), NEW c \in Cells(net)
  PROVE  Delivered(net, fns, carried, c) \subseteq Holds(F, c)
<1> SUFFICES ASSUME NEW x \in Delivered(net, fns, carried, c) PROVE x \in Holds(F, c)
  OBVIOUS
<1>1. F.writtenBy[c] \subseteq Holds(F, c)
  BY HoldsWhatIsKnown
<1>2. \/ \E t \in Range(Typed(net, fns)) : t.to = c /\ x = returnType(fns[t.fn], t)
      \/ \E t \in Range(Switches(net)) : t.to = c /\ x \in IF Len(t.from) >= 2 THEN carried[t.from[2]] ELSE {Boolean}
  BY DEF Delivered
<1>3. CASE \E t \in Range(Typed(net, fns)) : t.to = c /\ x = returnType(fns[t.fn], t)
  BY <1>1, <1>3 DEF Settled
<1>4. CASE \E t \in Range(Switches(net)) : t.to = c /\ x \in IF Len(t.from) >= 2 THEN carried[t.from[2]] ELSE {Boolean}
  <2>1. PICK t \in Range(Switches(net)) :
          t.to = c /\ x \in IF Len(t.from) >= 2 THEN carried[t.from[2]] ELSE {Boolean}
    BY <1>4
  <2>2. SwitchIn(Cells(net), t)
    BY TermsAre
  <2>3. /\ Len(t.from) >= 2 => Holds(F, t.from[2]) \subseteq Holds(F, t.to)
        /\ ~(Len(t.from) >= 2) => Boolean \in F.writtenBy[t.to]
    BY DEF Settled
  <2>4. CASE Len(t.from) >= 2
    <3>1. t.from[2] \in Cells(net) /\ x \in carried[t.from[2]]
      BY <2>1, <2>2, <2>4 DEF SwitchIn
    <3> QED BY <2>1, <2>3, <2>4, <3>1
  <2>5. CASE ~(Len(t.from) >= 2)
    BY <1>1, <2>1, <2>3, <2>5
  <2> QED BY <2>4, <2>5
<1> QED BY <1>2, <1>3, <1>4

(* What the cells carry after one more round.                              *)
Spread(net, fns, carried) == [c \in Cells(net) |-> carried[c] \cup Delivered(net, fns, carried, c)]

(* The rounds in which the reference definition lets the types spread.      *)
SpreadRun(net, fns, A, base, seq, h) ==
  /\ h \in [0 .. Len(seq) -> A]
  /\ h[0] = base
  /\ \A i \in 1 .. Len(seq) : h[i] = Spread(net, fns, h[i - 1])
  /\ FoldLeft(LAMBDA carried, t : [c \in Cells(net) |-> carried[c] \cup Delivered(net, fns, carried, c)], base, seq) = h[Len(seq)]

LEMMA SpreadRuns ==
  ASSUME NEW net, NEW fns, NEW A, NEW base \in A, \A carried \in A : Spread(net, fns, carried) \in A, NEW S, NEW seq \in Seq(S)
  PROVE  \E h : SpreadRun(net, fns, A, base, seq, h)
<1> DEFINE n == Len(seq)
           step == [p \in A \X (1 .. n) |-> Spread(net, fns, p[1])]
           Is(it) == it = [s \in SUBSET (1 .. n) |->
                             IF s = {} THEN base ELSE Spread(net, fns, it[s \ {Max(s)}])]
           F == CHOOSE it : Is(it)
<1>0. /\ n \in Nat /\ DOMAIN seq = 1 .. n
      /\ \A i \in 1 .. n : seq[i] \in S
  OBVIOUS
<1>1. FoldLeft(LAMBDA carried, t : [c \in Cells(net) |-> carried[c] \cup Delivered(net, fns, carried, c)], base, seq) = F[1 .. n]
  BY <1>0, Zenon DEF FoldLeft, MapThenFoldSet, Spread
<1> HIDE DEF n
<1>b. base \in A
  BY Zenon
<1>t. \A a \in A : \A x \in S : Spread(net, fns, a) \in A
  BY Zenon
<1>2. step \in [A \X (1 .. n) -> A]
  <2>1. \A p \in A \X (1 .. n) : p[1] \in A /\ seq[p[2]] \in S
    BY <1>0
  <2>2. \A p \in A \X (1 .. n) : Spread(net, fns, p[1]) \in A
    BY <2>1, <1>t, Zenon
  <2> QED BY <2>2
<1>3. PICK g : Folds(n, A, base, step, g)
  <2> HIDE DEF step
  <2> QED BY <1>0, <1>b, <1>2, FoldExists
<1>4. Is(g)
  <2>1. ASSUME NEW s \in SUBSET (1 .. n)
        PROVE  g[s] = IF s = {} THEN base ELSE Spread(net, fns, g[s \ {Max(s)}])
    <3>1. CASE s = {}
      BY <1>3, <3>1 DEF Folds
    <3>2. CASE s # {}
      <4>1. Max(s) \in 1 .. n /\ s \ {Max(s)} \in SUBSET (1 .. n)
        BY <1>0, <3>2, MaxOf
      <4>2. <<g[s \ {Max(s)}], Max(s)>> \in A \X (1 .. n)
        BY <1>3, <4>1 DEF Folds
      <4>3. step[<<g[s \ {Max(s)}], Max(s)>>] = Spread(net, fns, g[s \ {Max(s)}])
        BY <4>2
      <4>4. g[s] = step[<<g[s \ {Max(s)}], Max(s)>>]
        BY <1>3, <3>2 DEF Folds
      <4> QED BY <3>2, <4>3, <4>4
    <3> QED BY <3>1, <3>2
  <2>2. DOMAIN g = SUBSET (1 .. n) /\ g = [s \in SUBSET (1 .. n) |-> g[s]]
    BY <1>3 DEF Folds
  <2> QED BY <2>1, <2>2, Zenon
<1>5. Is(F)
  <2> HIDE DEF Is
  <2> QED BY <1>4
<1> HIDE DEF F
<1> DEFINE h == [i \in 0 .. n |-> F[1 .. i]]
<1>6. h[0] = base
  <2>1. 1 .. 0 = {} /\ {} \in SUBSET (1 .. n) /\ 0 \in 0 .. n
    BY <1>0
  <2> QED BY <1>5, <2>1
<1>7. ASSUME NEW i \in 1 .. n PROVE h[i] = Spread(net, fns, h[i - 1])
  <2>1. i \in 0 .. n /\ i - 1 \in 0 .. n
    BY <1>0
  <2>2. h[i] = F[1 .. i] /\ h[i - 1] = F[1 .. (i - 1)]
    BY <2>1
  <2>3. /\ 1 .. i \in SUBSET (1 .. n) /\ 1 .. i # {}
        /\ Max(1 .. i) = i /\ (1 .. i) \ {i} = 1 .. (i - 1)
    BY <1>0, PrefixRange
  <2> HIDE DEF h
  <2>4. F[1 .. i] = Spread(net, fns, F[1 .. (i - 1)])
    BY <1>5, <2>3
  <2> QED BY <2>2, <2>4
<1>8. h \in [0 .. n -> A]
  <2> DEFINE Inv == [i \in 0 .. n |-> A]
  <2>1. h[0] \in Inv[0]
    BY <1>0, <1>6, <1>b
  <2>2. ASSUME NEW i \in 1 .. n, h[i - 1] \in Inv[i - 1] PROVE h[i] \in Inv[i]
    <3>1. i \in 0 .. n /\ i - 1 \in 0 .. n /\ seq[i] \in S
      BY <1>0
    <3>2. h[i - 1] \in A
      BY <2>2, <3>1
    <3>3. Spread(net, fns, h[i - 1]) \in A
      BY <3>1, <3>2, <1>t, Zenon
    <3> QED BY <1>7, <3>1, <3>3
  <2> HIDE DEF h
  <2>3. \A i \in 0 .. n : h[i] \in Inv[i]
    <3> HIDE DEF Inv
    <3> QED BY <1>0, <2>1, <2>2, AlongTheChain
  <2> USE DEF h
  <2> QED BY <2>3
<1>9. n \in 0 .. n /\ h[n] = F[1 .. n]
  BY <1>0
<1> HIDE DEF h
<1> QED BY <1>0, <1>1, <1>6, <1>7, <1>8, <1>9 DEF SpreadRun, n

LEMMA CarriesWithin ==
  ASSUME NEW net, NEW fns, NEW F, NetworkOK(net), Settled(net, fns, F)
  PROVE  \A c \in Cells(net) : Carries(net, fns)[c] \subseteq Holds(F, c)
<1> DEFINE C == Cells(net)
           A == {carried \in [C -> SUBSET UNION {Holds(F, c) : c \in C}] : \A c \in C : carried[c] \subseteq Holds(F, c)}
           base == [c \in C |-> Seeded(net, fns, c)]
           S == {0} \cup Range(net.terms)
           seq == <<0>> \o net.terms
<1>1. base \in A
  BY SeededIsHeld
<1>2. ASSUME NEW carried \in A PROVE Spread(net, fns, carried) \in A
  <2>1. \A c \in C : carried[c] \subseteq Holds(F, c)
    OBVIOUS
  <2>2. \A c \in C : Delivered(net, fns, carried, c) \subseteq Holds(F, c)
    BY <2>1, DeliveredIsHeld
  <2> QED BY <2>1, <2>2 DEF Spread
<1>3. seq \in Seq(S)
  <2>1. net.terms \in Seq(S) /\ <<0>> \in Seq(S)
    BY WiderSeq DEF NetworkOK, IsSequence
  <2> HIDE DEF S
  <2> QED BY <2>1, Joined
<1>4. Carries(net, fns) = FoldLeft(LAMBDA carried, t : [c \in Cells(net) |-> carried[c] \cup Delivered(net, fns, carried, c)], base, seq)
  BY DEF Carries
<1> HIDE DEF A, base, seq, S
<1>5. PICK h : SpreadRun(net, fns, A, base, seq, h)
  BY <1>1, <1>2, <1>3, SpreadRuns
<1>6. Carries(net, fns) = h[Len(seq)] /\ h \in [0 .. Len(seq) -> A]
  BY <1>4, <1>5 DEF SpreadRun
<1>7. Carries(net, fns) \in A
  BY <1>3, <1>6
<1> QED BY <1>7 DEF A

LEMMA SoundWhenClean ==
  ASSUME NEW net, NEW nodes, NetworkOK(net)
  PROVE  CleanIsSound(net, nodes)
<1> DEFINE fns == buildFnMap(nodes)
           carried == Carries(net, fns)
<1> SUFFICES ASSUME Clean(typeCheck(net, nodes)), SwitchesInDataOrder(net)
             PROVE  /\ \A t \in Range(Typed(net, fns)) : \A r \in Reads(fns, t) : carried[r[1]] \subseteq {r[2]}
                    /\ \A t \in Range(Switches(net)) : carried[t.from[1]] \subseteq {Boolean}
  BY DEF CleanIsSound
<1>1. PICK F : Settled(net, fns, F)
  BY CheckedIsSettled
<1> HIDE DEF fns
<1>2. \A c \in Cells(net) : carried[c] \subseteq Holds(F, c)
  BY <1>1, CarriesWithin
<1> HIDE DEF carried
<1>3. IsFiniteSet(TypesOf(net, fns))
  BY TypesAreFinite
<1>4. ASSUME NEW c \in Cells(net), NEW x \in F.readBy[c] PROVE carried[c] \subseteq {x}
  <2>1. Holds(F, c) = {x}
    BY <1>1, <1>3, <1>4, HoldsOne DEF Settled
  <2> QED BY <1>2, <2>1
<1>5. ASSUME NEW t \in Range(Typed(net, fns)), NEW r \in Reads(fns, t) PROVE carried[r[1]] \subseteq {r[2]}
  <2>1. r[1] \in Cells(net) /\ r[2] \in F.readBy[r[1]]
    BY <1>1 DEF Settled
  <2> QED BY <1>4, <2>1
<1>6. ASSUME NEW t \in Range(Switches(net)) PROVE carried[t.from[1]] \subseteq {Boolean}
  <2>1. t.from[1] \in Cells(net)
    BY TermsAre DEF SwitchIn
  <2>2. Boolean \in F.readBy[t.from[1]]
    BY <1>1 DEF Settled
  <2> QED BY <1>4, <2>1, <2>2
<1> QED BY <1>5, <1>6

LEMMA OfKindAre ==
  ASSUME NEW T, NEW nodes \in Seq(T), NEW kind
  PROVE  \A n \in Range(OfKind(nodes, kind)) : n \in Range(nodes) /\ n.kind = kind
<1> DEFINE S == {n \in Range(nodes) : n.kind = kind}
<1>1. OfKind(nodes, kind) = Kept(nodes, S)
  BY DEF OfKind
<1>2. Range(Kept(nodes, S)) = Range(nodes) \cap S
  BY KeptIs
<1> QED BY <1>1, <1>2

(* Whatever network a client writes: if the checker finds no error in it,  *)
(* and its switches are in data order, no function of it is ever given a   *)
(* value of a type it does not declare, and no switch a condition that is  *)
(* no boolean - through any chain of functions, mappings, filters and      *)
(* switches.  (type-checker.ts:205-353)                                    *)
THEOREM CheckedNetworksAreSound == Spec => []CheckedMeansSound
<1>1. SourceOK => CheckedMeansSound
  <2> SUFFICES ASSUME SourceOK, NEW n \in Range(OfKind(Nodes, "network")) PROVE CleanIsSound(n, Nodes)
    BY DEF CheckedMeansSound
  <2>1. Nodes \in Seq(Declarations(client))
    BY ProgramIs DEF Nodes
  <2>2. n \in Range(Nodes) /\ n.kind = "network"
    BY <2>1, OfKindAre
  <2>3. n \in Declarations(client)
    <3> DEFINE s == Nodes
    <3>1. s \in Seq(Declarations(client)) /\ n \in Range(s)
      BY <2>1, <2>2
    <3> HIDE DEF s
    <3> QED BY <3>1, RangeIn
  <2>4. IsDeclaration(n)
    BY <2>3, DeclarationsAssumption DEF SourceOK, Declarations
  <2>5. NetworkOK(n)
    BY <2>2, <2>4 DEF IsDeclaration, NetworkOK
  <2> QED BY <2>5, SoundWhenClean
<1> QED BY <1>1, ParsedIsSource, PTL

-----------------------------------------------------------------------------
(* Sequences without repetition.                                           *)
(* A sequence of which no two places hold the same.                        *)
LEMMA InjectiveIs ==
  ASSUME NEW S, NEW s \in Seq(S)
  PROVE  IsInjective(s) <=> \A i, j \in 1 .. Len(s) : s[i] = s[j] => i = j
<1>1. DOMAIN s = 1 .. Len(s)
  OBVIOUS
<1> QED BY <1>1 DEF IsInjective

LEMMA JoinInjective ==
  ASSUME NEW S, NEW s \in Seq(S), NEW t \in Seq(S)
  PROVE  IsInjective(s \o t) <=> IsInjective(s) /\ IsInjective(t) /\ Range(s) \cap Range(t) = {}
<1> DEFINE m == Len(s)
           n == Len(t)
           st == s \o t
<1>1. m \in Nat /\ n \in Nat /\ st \in Seq(S) /\ Len(st) = m + n
  OBVIOUS
<1>2. /\ \A i \in 1 .. m : st[i] = s[i]
      /\ \A i \in 1 .. n : st[m + i] = t[i]
  OBVIOUS
<1>3. /\ IsInjective(s) <=> \A i, j \in 1 .. m : s[i] = s[j] => i = j
      /\ IsInjective(t) <=> \A i, j \in 1 .. n : t[i] = t[j] => i = j
      /\ IsInjective(st) <=> \A i, j \in 1 .. (m + n) : st[i] = st[j] => i = j
  BY <1>1, InjectiveIs
<1>4. Range(s) = {s[i] : i \in 1 .. m} /\ Range(t) = {t[i] : i \in 1 .. n}
  BY RangeIn
<1> HIDE DEF m, n, st
<1>5. ASSUME IsInjective(st) PROVE IsInjective(s) /\ IsInjective(t) /\ Range(s) \cap Range(t) = {}
  <2>1. ASSUME NEW i \in 1 .. m, NEW j \in 1 .. m, s[i] = s[j] PROVE i = j
    <3>1. i \in 1 .. (m + n) /\ j \in 1 .. (m + n)
      BY <1>1
    <3> QED BY <1>2, <1>3, <1>5, <2>1, <3>1
  <2>2. ASSUME NEW i \in 1 .. n, NEW j \in 1 .. n, t[i] = t[j] PROVE i = j
    <3>1. m + i \in 1 .. (m + n) /\ m + j \in 1 .. (m + n)
      BY <1>1
    <3>2. st[m + i] = st[m + j]
      BY <1>2, <2>2
    <3>3. m + i = m + j
      BY <1>3, <1>5, <3>1, <3>2
    <3> QED BY <1>1, <3>3
  <2>3. ASSUME NEW i \in 1 .. m, NEW j \in 1 .. n PROVE s[i] # t[j]
    <3>1. i \in 1 .. (m + n) /\ m + j \in 1 .. (m + n) /\ i # m + j
      BY <1>1
    <3>2. st[i] # st[m + j]
      BY <1>3, <1>5, <3>1
    <3> QED BY <1>2, <3>2
  <2> QED BY <1>3, <1>4, <2>1, <2>2, <2>3
<1>6. ASSUME IsInjective(s), IsInjective(t), Range(s) \cap Range(t) = {} PROVE IsInjective(st)
  <2>1. ASSUME NEW i \in 1 .. m, NEW j \in 1 .. n PROVE s[i] # t[j]
    BY <1>4, <1>6
  <2> SUFFICES ASSUME NEW i \in 1 .. (m + n), NEW j \in 1 .. (m + n), st[i] = st[j] PROVE i = j
    BY <1>3
  <2>2. \A k \in 1 .. (m + n) : k \in 1 .. m \/ \E l \in 1 .. n : k = m + l
    <3> TAKE k \in 1 .. (m + n)
    <3>1. CASE k <= m
      BY <1>1, <3>1
    <3>2. CASE ~(k <= m)
      <4>1. k - m \in 1 .. n /\ k = m + (k - m)
        BY <1>1, <3>2
      <4> QED BY <4>1
    <3> QED BY <3>1, <3>2
  <2>3. CASE i \in 1 .. m /\ j \in 1 .. m
    BY <1>2, <1>3, <1>6, <2>3
  <2>4. ASSUME NEW k \in 1 .. n, i = m + k, j \in 1 .. m PROVE FALSE
    BY <1>2, <2>1, <2>4
  <2>5. ASSUME NEW l \in 1 .. n, j = m + l, i \in 1 .. m PROVE FALSE
    BY <1>2, <2>1, <2>5
  <2>6. ASSUME NEW k \in 1 .. n, i = m + k, NEW l \in 1 .. n, j = m + l PROVE i = j
    <3>1. t[k] = t[l]
      BY <1>2, <2>6
    <3> QED BY <1>3, <1>6, <2>6, <3>1
  <2> QED BY <2>2, <2>3, <2>4, <2>5, <2>6
<1> QED BY <1>5, <1>6 DEF st

(* Sequences that are injective, and share nothing with each other.        *)
Apart(seqs, k) ==
  /\ \A i \in 1 .. k : IsInjective(seqs[i])
  /\ \A i, j \in 1 .. k : i # j => Range(seqs[i]) \cap Range(seqs[j]) = {}

LEMMA FlatInjective ==
  ASSUME NEW S, NEW seqs \in Seq(Seq(S))
  PROVE  IsInjective(FlattenSeq(seqs)) <=> Apart(seqs, Len(seqs))
<1> DEFINE n == Len(seqs)
<1>1. n \in Nat /\ \A i \in 1 .. n : seqs[i] \in Seq(S)
  OBVIOUS
<1>2. PICK f \in [0 .. n -> Seq(S)] :
            /\ f[0] = <<>>
            /\ \A i \in 1 .. n : f[i] = f[i - 1] \o seqs[i]
            /\ FlattenSeq(seqs) = f[n]
  BY Flattened
<1> HIDE DEF n
<1> DEFINE R(k) == UNION {Range(seqs[i]) : i \in 1 .. k}
           Good == {k \in Nat : k <= n => /\ Range(f[k]) = R(k)
                                          /\ IsInjective(f[k]) <=> Apart(seqs, k)}
<1>3. 0 \in Good
  <2>1. Range(<<>>) = {} /\ 1 .. 0 = {} /\ IsInjective(<<>>)
    BY DEF Range, IsInjective
  <2>2. Apart(seqs, 0)
    BY <2>1 DEF Apart
  <2> QED BY <1>2, <2>1, <2>2
<1>4. ASSUME NEW k \in Good PROVE k + 1 \in Good
  <2> SUFFICES ASSUME k + 1 <= n
               PROVE  Range(f[k + 1]) = R(k + 1) /\ (IsInjective(f[k + 1]) <=> Apart(seqs, k + 1))
    OBVIOUS
  <2>1. k \in Nat /\ k <= n /\ k + 1 \in 1 .. n /\ (k + 1) - 1 = k /\ k \in 0 .. n
    BY <1>1
  <2>2. Range(f[k]) = R(k) /\ f[k] \in Seq(S) /\ seqs[k + 1] \in Seq(S) /\ f[k + 1] = f[k] \o seqs[k + 1]
    BY <1>1, <1>2, <2>1
  <2>2a. IsInjective(f[k]) <=> Apart(seqs, k)
    BY <2>1
  <2>3. Range(f[k + 1]) = Range(f[k]) \cup Range(seqs[k + 1])
    BY <2>2, RangeJoin
  <2>4. 1 .. (k + 1) = (1 .. k) \cup {k + 1} /\ k + 1 \notin 1 .. k
    BY <2>1
  <2>5. R(k + 1) = R(k) \cup Range(seqs[k + 1])
    BY <2>4
  <2>6. IsInjective(f[k + 1]) <=> IsInjective(f[k]) /\ IsInjective(seqs[k + 1]) /\ R(k) \cap Range(seqs[k + 1]) = {}
    BY <2>2, JoinInjective
  <2>7. Apart(seqs, k + 1) <=> Apart(seqs, k) /\ IsInjective(seqs[k + 1]) /\ R(k) \cap Range(seqs[k + 1]) = {}
    <3> DEFINE l == k + 1
               D == 1 .. k
               One(i) == IsInjective(seqs[i])
               Two(i, j) == Range(seqs[i]) \cap Range(seqs[j]) = {}
    <3>1. R(k) \cap Range(seqs[l]) = {} <=> \A i \in D : Two(i, l)
      OBVIOUS
    <3>2. \A i, j : Two(i, j) <=> Two(j, i)
      OBVIOUS
    <3>3. /\ Apart(seqs, k) <=> (\A i \in D : One(i)) /\ (\A i, j \in D : i # j => Two(i, j))
          /\ Apart(seqs, l) <=> (\A i \in D \cup {l} : One(i)) /\ (\A i, j \in D \cup {l} : i # j => Two(i, j))
      BY <2>4, Zenon DEF Apart
    <3>4. l \notin D
      BY <2>4
    <3>5. IsInjective(seqs[l]) <=> One(l)
      OBVIOUS
    <3> HIDE DEF l, D, One, Two, R
    <3>6. Apart(seqs, l) <=> Apart(seqs, k) /\ One(l) /\ \A i \in D : Two(i, l)
      BY <3>2, <3>3, <3>4
    <3>7. Apart(seqs, l) <=> Apart(seqs, k) /\ IsInjective(seqs[l]) /\ R(k) \cap Range(seqs[l]) = {}
      BY <3>1, <3>5, <3>6
    <3> QED BY <3>7 DEF l
  <2> QED BY <2>2a, <2>3, <2>2, <2>5, <2>6, <2>7
<1>5. Good = Nat
  <2>1. Good \in SUBSET Nat
    OBVIOUS
  <2> HIDE DEF Good
  <2> QED BY <1>3, <1>4, <2>1, Lemmas!Induction
<1>6. n <= n
  BY <1>1
<1>7. IsInjective(f[n]) <=> Apart(seqs, n)
  BY <1>1, <1>5, <1>6
<1> QED BY <1>2, <1>7 DEF n

LEMMA FlatJoin ==
  ASSUME NEW S, NEW a \in Seq(Seq(S)), NEW b \in Seq(Seq(S))
  PROVE  FlattenSeq(a \o b) = FlattenSeq(a) \o FlattenSeq(b)
<1> DEFINE m == Len(a)
           n == Len(b)
           ab == a \o b
<1>1. m \in Nat /\ n \in Nat /\ ab \in Seq(Seq(S)) /\ Len(ab) = m + n
  OBVIOUS
<1>2. /\ \A i \in 1 .. m : ab[0 + i] = a[i]
      /\ \A i \in 1 .. n : ab[m + i] = b[i]
  OBVIOUS
<1>3. a = [i \in 1 .. m |-> a[i]] /\ b = [i \in 1 .. n |-> b[i]]
  OBVIOUS
<1> HIDE DEF ab, m, n
<1>5. PICK g : Joins(S, ab, g) /\ FlattenSeq(ab) = g[m + n]
  BY <1>1, FlattenJoins
<1>6. 0 \in 0 .. (m + n) /\ m \in 0 .. (m + n) /\ m + n \in m .. (m + n) /\ (m + n) - m = n /\ m - 0 = m
  BY <1>1
<1>7. Part(ab, 0, m) = a
  <2>1. Part(ab, 0, m) = [i \in 1 .. m |-> ab[0 + i]]
    BY <1>6 DEF Part
  <2> QED BY <1>2, <1>3, <2>1
<1>8. Part(ab, m, m + n) = b
  <2>1. Part(ab, m, m + n) = [i \in 1 .. n |-> ab[m + i]]
    BY <1>6 DEF Part
  <2> QED BY <1>2, <1>3, <2>1
<1>9. g[m] = g[0] \o FlattenSeq(a)
  <2>1. 0 \in 0 .. Len(ab) /\ m \in 0 .. Len(ab)
    BY <1>1
  <2> QED BY <1>1, <1>5, <2>1, <1>7, JoinsPart, Zenon
<1>10. g[m + n] = g[m] \o FlattenSeq(b)
  <2>1. m \in 0 .. Len(ab) /\ m + n \in m .. Len(ab)
    BY <1>1
  <2> QED BY <1>1, <1>5, <2>1, <1>8, JoinsPart, Zenon
<1>11. g[m] = FlattenSeq(a)
  <2>1. g[0] = <<>> /\ FlattenSeq(a) \in Seq(S)
    BY <1>5, FlatRange DEF Joins
  <2>2. <<>> \o FlattenSeq(a) = FlattenSeq(a)
    BY <2>1, Joined
  <2> QED BY <1>9, <2>1, <2>2
<1> QED BY <1>5, <1>10, <1>11 DEF ab

-----------------------------------------------------------------------------
(* When declarations merge.                                                *)
LEMMA KeptInjective ==
  ASSUME NEW T, NEW seq \in Seq(T), NEW S, IsInjective(seq)
  PROVE  IsInjective(Kept(seq, S))
<1> DEFINE parts == [i \in DOMAIN seq |-> IF seq[i] \in S THEN <<seq[i]>> ELSE <<>>]
<1>1. DOMAIN seq = 1 .. Len(seq) /\ Len(seq) \in Nat /\ \A i \in 1 .. Len(seq) : seq[i] \in T
  OBVIOUS
<1>2. parts \in Seq(Seq(T)) /\ Len(parts) = Len(seq)
  <2>1. \A i \in 1 .. Len(seq) : (IF seq[i] \in S THEN <<seq[i]>> ELSE <<>>) \in Seq(T)
    BY <1>1
  <2> QED BY <1>1, <2>1
<1>3. Kept(seq, S) = FlattenSeq(parts)
  BY DEF Kept, Flat, Each
<1>4. \A i \in 1 .. Len(seq) : parts[i] = (IF seq[i] \in S THEN <<seq[i]>> ELSE <<>>)
  BY <1>1
<1> HIDE DEF parts
<1>5. ASSUME NEW i \in 1 .. Len(seq) PROVE IsInjective(parts[i]) /\ Range(parts[i]) \subseteq {seq[i]}
  <2>1. IsInjective(<<seq[i]>>) /\ IsInjective(<<>>) /\ Range(<<seq[i]>>) = {seq[i]} /\ Range(<<>>) = {}
    BY DEF IsInjective, Range
  <2> QED BY <1>4, <2>1
<1>6. \A i, j \in 1 .. Len(seq) : i # j => seq[i] # seq[j]
  BY InjectiveIs
<1>7. Apart(parts, Len(parts))
  BY <1>2, <1>5, <1>6 DEF Apart
<1> QED BY <1>2, <1>3, <1>7, FlatInjective

-----------------------------------------------------------------------------
(* Maps from some of the keys of K to values of V, and one more entry.     *)
Maps(K, V) == UNION {[D -> V] : D \in SUBSET K}

LEMMA MapIs ==
  ASSUME NEW K, NEW V, NEW reg \in Maps(K, V)
  PROVE  /\ DOMAIN reg \subseteq K /\ reg \in [DOMAIN reg -> V]
         /\ \A k \in DOMAIN reg : reg[k] \in V
<1>1. PICK D \in SUBSET K : reg \in [D -> V]
  BY DEF Maps
<1> QED BY <1>1

LEMMA RegisteringIs ==
  ASSUME NEW K, NEW V, NEW reg \in Maps(K, V), NEW key \in K, NEW value \in V
  PROVE  Registering(reg, key, value) \in Maps(K, V)
<1> DEFINE D == DOMAIN reg \cup {key}
           new == [k \in D |-> IF k = key THEN value ELSE reg[k]]
<1>1. D \in SUBSET K /\ \A k \in DOMAIN reg : reg[k] \in V
  BY MapIs
<1>2. new \in [D -> V]
  BY <1>1
<1>3. new \in Maps(K, V)
  BY <1>1, <1>2 DEF Maps
<1> QED BY <1>3 DEF Registering

(* A program merges when declarations of one registry key are equal.       *)
Combined(T) == [ok : BOOLEAN, nodes : Maps({registryKey(n) : n \in T}, T)]
Uncombined  == [ok |-> TRUE, nodes |-> <<>>]

LEMMA MergeCases ==
  ASSUME NEW T, NEW r \in Combined(T), NEW n \in T
  PROVE  /\ Merge(r, n) \in Combined(T)
         /\ ~r.ok => Merge(r, n) = r
         /\ r.ok /\ registryKey(n) \in DOMAIN r.nodes /\ r.nodes[registryKey(n)] # n => ~Merge(r, n).ok
         /\ r.ok /\ ~(registryKey(n) \in DOMAIN r.nodes /\ r.nodes[registryKey(n)] # n) =>
              Merge(r, n).ok /\ Merge(r, n).nodes = Registering(r.nodes, registryKey(n), n)
<1> DEFINE K == {registryKey(m) : m \in T}
           key == registryKey(n)
           put == Registering(r.nodes, key, n)
<1>1. key \in K /\ r.nodes \in Maps(K, T) /\ r.ok \in BOOLEAN
  BY DEF Combined
<1>2. Merge(r, n) = IF ~r.ok THEN r
                    ELSE IF key \in DOMAIN r.nodes /\ r.nodes[key] # n THEN [r EXCEPT !.ok = FALSE]
                    ELSE [r EXCEPT !.nodes = put]
  BY DEF Merge
<1>3. put \in Maps(K, T)
  <2>1. put = Registering(r.nodes, key, n)
    OBVIOUS
  <2> HIDE DEF K, key, put
  <2> QED BY <1>1, <2>1, RegisteringIs
<1>4. Combined(T) = [ok : BOOLEAN, nodes : Maps(K, T)]
  BY DEF Combined
<1>4a. r \in [ok : BOOLEAN, nodes : Maps(K, T)]
  BY <1>4
<1> HIDE DEF K, key, put
<1>5. [r EXCEPT !.ok = FALSE] \in Combined(T) /\ [r EXCEPT !.nodes = put] \in Combined(T)
  <2> DEFINE M == Maps(K, T)
  <2> HIDE DEF M
  <2>1. r \in [ok : BOOLEAN, nodes : M] /\ put \in M
    BY <1>3, <1>4a DEF M
  <2>2. [r EXCEPT !.ok = FALSE] \in [ok : BOOLEAN, nodes : M] /\ [r EXCEPT !.nodes = put] \in [ok : BOOLEAN, nodes : M]
    BY <2>1
  <2> QED BY <1>4, <2>2 DEF M
<1>6. /\ [r EXCEPT !.ok = FALSE].ok = FALSE
      /\ [r EXCEPT !.nodes = put].ok = r.ok /\ [r EXCEPT !.nodes = put].nodes = put
  BY <1>4a
<1>7. /\ Merge(r, n) \in Combined(T)
      /\ ~r.ok => Merge(r, n) = r
      /\ r.ok /\ key \in DOMAIN r.nodes /\ r.nodes[key] # n => ~Merge(r, n).ok
      /\ r.ok /\ ~(key \in DOMAIN r.nodes /\ r.nodes[key] # n) => Merge(r, n).ok /\ Merge(r, n).nodes = put
  BY <1>2, <1>5, <1>6, Zenon
<1> QED BY <1>7 DEF key, put

LEMMA CombinedType ==
  /\ \A T : Uncombined \in Combined(T)
  /\ \A T : \A r \in Combined(T) : \A n \in T : Merge(r, n) \in Combined(T)
<1>1. ASSUME NEW T PROVE Uncombined \in Combined(T)
  <2> DEFINE K == {registryKey(m) : m \in T}
  <2>1. <<>> \in [{} -> T]
    OBVIOUS
  <2>2. <<>> \in Maps(K, T)
    BY <2>1 DEF Maps
  <2> QED BY <2>2 DEF Uncombined, Combined
<1>2. ASSUME NEW T, NEW r \in Combined(T), NEW n \in T PROVE Merge(r, n) \in Combined(T)
  BY MergeCases
<1> QED BY <1>1, <1>2

(* The registry of a program, declaration by declaration.                   *)
CombineRun(T, nodes, h) ==
  /\ h \in [0 .. Len(nodes) -> Combined(T)]
  /\ h[0] = Uncombined
  /\ \A i \in 1 .. Len(nodes) : h[i] = Merge(h[i - 1], nodes[i])
  /\ combine(nodes) = h[Len(nodes)]

LEMMA CombineRuns ==
  ASSUME NEW T, NEW nodes \in Seq(T)
  PROVE  \E h : CombineRun(T, nodes, h)
<1> DEFINE A == Combined(T)
           n == Len(nodes)
           step == [p \in A \X (1 .. n) |-> Merge(p[1], nodes[p[2]])]
           Is(it) == it = [s \in SUBSET (1 .. n) |->
                             IF s = {} THEN Uncombined ELSE Merge(it[s \ {Max(s)}], nodes[Max(s)])]
           F == CHOOSE it : Is(it)
<1>0. /\ n \in Nat /\ DOMAIN nodes = 1 .. n
      /\ \A i \in 1 .. n : nodes[i] \in T
  OBVIOUS
<1>1. combine(nodes) = F[1 .. n]
  BY <1>0, Zenon DEF FoldLeft, MapThenFoldSet, combine, Uncombined
<1> HIDE DEF n
<1>b. Uncombined \in A
  BY CombinedType
<1>t. \A a \in A : \A x \in T : Merge(a, x) \in A
  BY CombinedType
<1> HIDE DEF A
<1>2. step \in [A \X (1 .. n) -> A]
  <2>1. \A p \in A \X (1 .. n) : p[1] \in A /\ nodes[p[2]] \in T
    BY <1>0
  <2>2. \A p \in A \X (1 .. n) : Merge(p[1], nodes[p[2]]) \in A
    BY <2>1, <1>t, Zenon
  <2> QED BY <2>2
<1>3. PICK g : Folds(n, A, Uncombined, step, g)
  <2> HIDE DEF step
  <2> QED BY <1>0, <1>b, <1>2, FoldExists
<1>4. Is(g)
  <2>1. ASSUME NEW s \in SUBSET (1 .. n)
        PROVE  g[s] = IF s = {} THEN Uncombined ELSE Merge(g[s \ {Max(s)}], nodes[Max(s)])
    <3>1. CASE s = {}
      BY <1>3, <3>1 DEF Folds
    <3>2. CASE s # {}
      <4>1. Max(s) \in 1 .. n /\ s \ {Max(s)} \in SUBSET (1 .. n)
        BY <1>0, <3>2, MaxOf
      <4>2. <<g[s \ {Max(s)}], Max(s)>> \in A \X (1 .. n)
        BY <1>3, <4>1 DEF Folds
      <4>3. step[<<g[s \ {Max(s)}], Max(s)>>] = Merge(g[s \ {Max(s)}], nodes[Max(s)])
        BY <4>2
      <4>4. g[s] = step[<<g[s \ {Max(s)}], Max(s)>>]
        BY <1>3, <3>2 DEF Folds
      <4> QED BY <3>2, <4>3, <4>4
    <3> QED BY <3>1, <3>2
  <2>2. DOMAIN g = SUBSET (1 .. n) /\ g = [s \in SUBSET (1 .. n) |-> g[s]]
    BY <1>3 DEF Folds
  <2> QED BY <2>1, <2>2, Zenon
<1>5. Is(F)
  <2> HIDE DEF Is
  <2> QED BY <1>4
<1> HIDE DEF F
<1> DEFINE h == [i \in 0 .. n |-> F[1 .. i]]
<1>6. h[0] = Uncombined
  <2>1. 1 .. 0 = {} /\ {} \in SUBSET (1 .. n) /\ 0 \in 0 .. n
    BY <1>0
  <2> QED BY <1>5, <2>1
<1>7. ASSUME NEW i \in 1 .. n PROVE h[i] = Merge(h[i - 1], nodes[i])
  <2>1. i \in 0 .. n /\ i - 1 \in 0 .. n
    BY <1>0
  <2>2. h[i] = F[1 .. i] /\ h[i - 1] = F[1 .. (i - 1)]
    BY <2>1
  <2>3. /\ 1 .. i \in SUBSET (1 .. n) /\ 1 .. i # {}
        /\ Max(1 .. i) = i /\ (1 .. i) \ {i} = 1 .. (i - 1)
    BY <1>0, PrefixRange
  <2> HIDE DEF h
  <2>4. F[1 .. i] = Merge(F[1 .. (i - 1)], nodes[i])
    BY <1>5, <2>3
  <2> QED BY <2>2, <2>4
<1>8. h \in [0 .. n -> A]
  <2> DEFINE Inv == [i \in 0 .. n |-> A]
  <2>1. h[0] \in Inv[0]
    BY <1>0, <1>6, <1>b
  <2>2. ASSUME NEW i \in 1 .. n, h[i - 1] \in Inv[i - 1] PROVE h[i] \in Inv[i]
    <3>1. i \in 0 .. n /\ i - 1 \in 0 .. n /\ nodes[i] \in T
      BY <1>0
    <3>2. h[i - 1] \in A
      BY <2>2, <3>1
    <3>3. Merge(h[i - 1], nodes[i]) \in A
      BY <3>1, <3>2, <1>t, Zenon
    <3> QED BY <1>7, <3>1, <3>3
  <2> HIDE DEF h
  <2>3. \A i \in 0 .. n : h[i] \in Inv[i]
    <3> HIDE DEF Inv
    <3> QED BY <1>0, <2>1, <2>2, AlongTheChain
  <2> USE DEF h
  <2> QED BY <2>3
<1>9. n \in 0 .. n /\ h[n] = F[1 .. n]
  BY <1>0
<1> HIDE DEF h
<1> QED BY <1>0, <1>1, <1>6, <1>7, <1>8, <1>9 DEF CombineRun, n, A

LEMMA CombineIs ==
  ASSUME NEW T, NEW nodes \in Seq(T)
  PROVE  combine(nodes).ok <=> \A m, n \in Range(nodes) : registryKey(m) = registryKey(n) => m = n
<1> DEFINE N == Len(nodes)
           Key(i) == registryKey(nodes[i])
           Alike(k) == \A i, j \in 1 .. k : Key(i) = Key(j) => nodes[i] = nodes[j]
           Has(reg, k) == /\ DOMAIN reg = {Key(i) : i \in 1 .. k}
                          /\ \A i \in 1 .. k : reg[Key(i)] = nodes[i]
           Inv == [k \in 0 .. N |-> {r \in Combined(T) : /\ r.ok <=> Alike(k)
                                                         /\ r.ok => Has(r.nodes, k)}]
<1>1. N \in Nat /\ \A i \in 1 .. N : nodes[i] \in T
  OBVIOUS
<1>2. PICK h : CombineRun(T, nodes, h)
  BY CombineRuns
<1>3. /\ h \in [0 .. N -> Combined(T)] /\ h[0] = Uncombined
      /\ \A i \in 1 .. N : h[i] = Merge(h[i - 1], nodes[i])
      /\ combine(nodes) = h[N]
  BY <1>2 DEF CombineRun
<1>r. Range(nodes) = {nodes[i] : i \in 1 .. N}
  BY RangeIn
<1> HIDE DEF N
<1>4. h[0] \in Inv[0]
  <2>1. 1 .. 0 = {} /\ 0 \in 0 .. N
    BY <1>1
  <2>2. Alike(0)
    BY <2>1
  <2>3. Uncombined.ok = TRUE /\ Uncombined.nodes = <<>> /\ DOMAIN <<>> = {}
    BY DEF Uncombined
  <2>4. {Key(i) : i \in 1 .. 0} = {}
    BY <2>1
  <2>5. Has(Uncombined.nodes, 0)
    BY <2>1, <2>3, <2>4
  <2> HIDE DEF Alike, Has
  <2> QED BY <1>3, <2>1, <2>2, <2>3, <2>5, CombinedType
<1>5. ASSUME NEW k \in 1 .. N, h[k - 1] \in Inv[k - 1] PROVE h[k] \in Inv[k]
  <2> DEFINE j == k - 1
             r == h[j]
             n == nodes[k]
             key == registryKey(n)
  <2>1. /\ k \in 0 .. N /\ j \in 0 .. N /\ n \in T
        /\ 1 .. k = (1 .. j) \cup {k} /\ k \notin 1 .. j
    BY <1>1
  <2>2. r \in Combined(T) /\ (r.ok <=> Alike(j)) /\ (r.ok => Has(r.nodes, j))
    <3> HIDE DEF Alike, Has
    <3> QED BY <1>5, <2>1
  <2>3. h[k] = Merge(r, n)
    BY <1>3
  <2>4. key = Key(k)
    OBVIOUS
  <2>5. /\ Alike(k) => Alike(j)
        /\ Alike(k) <=> Alike(j) /\ \A i \in 1 .. j : Key(i) = key => nodes[i] = n
    BY <2>1
  <2>6. r.nodes \in Maps({registryKey(m) : m \in T}, T) /\ key \in {registryKey(m) : m \in T}
    BY <2>1, <2>2 DEF Combined
  <2>7. h[k] \in Combined(T)
    BY <2>1, <2>2, <2>3, MergeCases
  <2>8. CASE ~r.ok
    <3>1. h[k] = r
      BY <2>1, <2>2, <2>3, <2>8, MergeCases
    <3>2. ~Alike(k)
      <4> HIDE DEF Alike
      <4> QED BY <2>2, <2>5, <2>8
    <3> HIDE DEF Alike, Has, r
    <3> QED BY <2>1, <2>7, <2>8, <3>1, <3>2
  <2>9. CASE r.ok /\ key \in DOMAIN r.nodes /\ r.nodes[key] # n
    <3>1. ~h[k].ok
      BY <2>1, <2>2, <2>3, <2>9, MergeCases
    <3>2. PICK i \in 1 .. j : Key(i) = key /\ r.nodes[key] = nodes[i]
      BY <2>2, <2>9
    <3>3. ~Alike(k)
      BY <2>1, <2>9, <3>2
    <3> HIDE DEF Alike, Has, r
    <3> QED BY <2>1, <2>7, <3>1, <3>3
  <2>10. CASE r.ok /\ ~(key \in DOMAIN r.nodes /\ r.nodes[key] # n)
    <3> DEFINE new == Registering(r.nodes, key, n)
    <3>1. h[k].ok /\ h[k].nodes = new
      BY <2>1, <2>2, <2>3, <2>10, MergeCases
    <3>2. \A i \in 1 .. j : Key(i) = key => nodes[i] = n
      BY <2>2, <2>10
    <3>3. Alike(k)
      <4>1. Alike(j)
        <5> HIDE DEF Alike, Has, r
        <5> QED BY <2>2, <2>10
      <4> HIDE DEF Alike, r, n, key, Key
      <4> QED BY <2>5, <3>2, <4>1
    <3> DEFINE D == {Key(i) : i \in 1 .. j}
    <3>4. DOMAIN new = D \cup {key} /\ new[key] = n /\ \A l \in D : l # key => new[l] = r.nodes[l]
      <4> DEFINE reg == r.nodes
      <4>1. DOMAIN reg = D /\ new = Registering(reg, key, n)
        BY <2>2, <2>10
      <4> HIDE DEF r, n, key, D, reg, new
      <4>2. DOMAIN new = D \cup {key} /\ new[key] = n /\ \A l \in D : l # key => new[l] = reg[l]
        BY <4>1 DEF Registering
      <4> QED BY <4>2 DEF reg
    <3>5. Has(new, k)
      <4>1. \A i \in 1 .. j : r.nodes[Key(i)] = nodes[i]
        BY <2>2, <2>10
      <4>2. {Key(i) : i \in 1 .. k} = {Key(i) : i \in 1 .. j} \cup {key}
        BY <2>1
      <4>3. ASSUME NEW i \in 1 .. k PROVE new[Key(i)] = nodes[i]
        <5>1. CASE i = k
          BY <3>4, <5>1
        <5>2. CASE i # k
          <6>1. i \in 1 .. j
            BY <2>1, <5>2
          <6>2. CASE Key(i) = key
            BY <3>2, <3>4, <6>1, <6>2
          <6>3. CASE Key(i) # key
            <7>1. Key(i) \in D
              BY <6>1
            <7> HIDE DEF new, key, Key, r, D
            <7> QED BY <3>4, <4>1, <6>1, <6>3, <7>1
          <6> QED BY <6>2, <6>3
        <5> QED BY <5>1, <5>2
      <4> HIDE DEF new, key, Key
      <4> QED BY <3>4, <4>1, <4>2, <4>3
    <3> HIDE DEF Alike, Has, r, new
    <3> QED BY <2>1, <2>7, <3>1, <3>3, <3>5
  <2> QED BY <2>8, <2>9, <2>10
<1>6. \A k \in 0 .. N : h[k] \in Inv[k]
  <2> HIDE DEF Inv
  <2> QED BY <1>1, <1>4, <1>5, AlongTheChain
<1>7. N \in 0 .. N
  BY <1>1
<1>8. h[N].ok <=> Alike(N)
  <2> HIDE DEF Alike, Has
  <2> QED BY <1>6, <1>7
<1> QED BY <1>3, <1>8, <1>r

-----------------------------------------------------------------------------
(* A registry: the fold that enters the keys.                              *)
(* Entries, entered in a registry one after the other.                     *)
Registered(base, all) == FoldLeft(LAMBDA reg, e : Registering(reg, e[1], e[2]), base, all)

LEMMA RegisteringType ==
  ASSUME NEW K, NEW V
  PROVE  \A reg \in Maps(K, V) : \A e \in K \X V : Registering(reg, e[1], e[2]) \in Maps(K, V)
<1> SUFFICES ASSUME NEW reg \in Maps(K, V), NEW e \in K \X V PROVE Registering(reg, e[1], e[2]) \in Maps(K, V)
  OBVIOUS
<1>1. e[1] \in K /\ e[2] \in V
  OBVIOUS
<1> QED BY <1>1, RegisteringIs

RegisterRun(K, V, base, all, h) ==
  /\ h \in [0 .. Len(all) -> Maps(K, V)]
  /\ h[0] = base
  /\ \A i \in 1 .. Len(all) : h[i] = Registering(h[i - 1], all[i][1], all[i][2])
  /\ Registered(base, all) = h[Len(all)]

LEMMA RegisterRuns ==
  ASSUME NEW K, NEW V, NEW base \in Maps(K, V), NEW all \in Seq(K \X V)
  PROVE  \E h : RegisterRun(K, V, base, all, h)
<1> DEFINE A == Maps(K, V)
           n == Len(all)
           step == [p \in A \X (1 .. n) |-> Registering(p[1], all[p[2]][1], all[p[2]][2])]
           Is(it) == it = [s \in SUBSET (1 .. n) |->
                             IF s = {} THEN base ELSE Registering(it[s \ {Max(s)}], all[Max(s)][1], all[Max(s)][2])]
           F == CHOOSE it : Is(it)
<1>0. /\ n \in Nat /\ DOMAIN all = 1 .. n
      /\ \A i \in 1 .. n : all[i] \in (K \X V)
  OBVIOUS
<1>1. Registered(base, all) = F[1 .. n]
  BY <1>0, Zenon DEF FoldLeft, MapThenFoldSet, Registered
<1> HIDE DEF n
<1>b. base \in A
  BY RegisteringType
<1>t. \A a \in A : \A x \in (K \X V) : Registering(a, x[1], x[2]) \in A
  BY RegisteringType
<1> HIDE DEF A
<1>2. step \in [A \X (1 .. n) -> A]
  <2>1. \A p \in A \X (1 .. n) : p[1] \in A /\ all[p[2]] \in (K \X V)
    BY <1>0
  <2>2. \A p \in A \X (1 .. n) : Registering(p[1], all[p[2]][1], all[p[2]][2]) \in A
    BY <2>1, <1>t, Zenon
  <2> QED BY <2>2
<1>3. PICK g : Folds(n, A, base, step, g)
  <2> HIDE DEF step
  <2> QED BY <1>0, <1>b, <1>2, FoldExists
<1>4. Is(g)
  <2>1. ASSUME NEW s \in SUBSET (1 .. n)
        PROVE  g[s] = IF s = {} THEN base ELSE Registering(g[s \ {Max(s)}], all[Max(s)][1], all[Max(s)][2])
    <3>1. CASE s = {}
      BY <1>3, <3>1 DEF Folds
    <3>2. CASE s # {}
      <4>1. Max(s) \in 1 .. n /\ s \ {Max(s)} \in SUBSET (1 .. n)
        BY <1>0, <3>2, MaxOf
      <4>2. <<g[s \ {Max(s)}], Max(s)>> \in A \X (1 .. n)
        BY <1>3, <4>1 DEF Folds
      <4>3. step[<<g[s \ {Max(s)}], Max(s)>>] = Registering(g[s \ {Max(s)}], all[Max(s)][1], all[Max(s)][2])
        BY <4>2
      <4>4. g[s] = step[<<g[s \ {Max(s)}], Max(s)>>]
        BY <1>3, <3>2 DEF Folds
      <4> QED BY <3>2, <4>3, <4>4
    <3> QED BY <3>1, <3>2
  <2>2. DOMAIN g = SUBSET (1 .. n) /\ g = [s \in SUBSET (1 .. n) |-> g[s]]
    BY <1>3 DEF Folds
  <2> QED BY <2>1, <2>2, Zenon
<1>5. Is(F)
  <2> HIDE DEF Is
  <2> QED BY <1>4
<1> HIDE DEF F
<1> DEFINE h == [i \in 0 .. n |-> F[1 .. i]]
<1>6. h[0] = base
  <2>1. 1 .. 0 = {} /\ {} \in SUBSET (1 .. n) /\ 0 \in 0 .. n
    BY <1>0
  <2> QED BY <1>5, <2>1
<1>7. ASSUME NEW i \in 1 .. n PROVE h[i] = Registering(h[i - 1], all[i][1], all[i][2])
  <2>1. i \in 0 .. n /\ i - 1 \in 0 .. n
    BY <1>0
  <2>2. h[i] = F[1 .. i] /\ h[i - 1] = F[1 .. (i - 1)]
    BY <2>1
  <2>3. /\ 1 .. i \in SUBSET (1 .. n) /\ 1 .. i # {}
        /\ Max(1 .. i) = i /\ (1 .. i) \ {i} = 1 .. (i - 1)
    BY <1>0, PrefixRange
  <2> HIDE DEF h
  <2>4. F[1 .. i] = Registering(F[1 .. (i - 1)], all[i][1], all[i][2])
    BY <1>5, <2>3
  <2> QED BY <2>2, <2>4
<1>8. h \in [0 .. n -> A]
  <2> DEFINE Inv == [i \in 0 .. n |-> A]
  <2>1. h[0] \in Inv[0]
    BY <1>0, <1>6, <1>b
  <2>2. ASSUME NEW i \in 1 .. n, h[i - 1] \in Inv[i - 1] PROVE h[i] \in Inv[i]
    <3>1. i \in 0 .. n /\ i - 1 \in 0 .. n /\ all[i] \in (K \X V)
      BY <1>0
    <3>2. h[i - 1] \in A
      BY <2>2, <3>1
    <3>3. Registering(h[i - 1], all[i][1], all[i][2]) \in A
      BY <3>1, <3>2, <1>t, Zenon
    <3> QED BY <1>7, <3>1, <3>3
  <2> HIDE DEF h
  <2>3. \A i \in 0 .. n : h[i] \in Inv[i]
    <3> HIDE DEF Inv
    <3> QED BY <1>0, <2>1, <2>2, AlongTheChain
  <2> USE DEF h
  <2> QED BY <2>3
<1>9. n \in 0 .. n /\ h[n] = F[1 .. n]
  BY <1>0
<1> HIDE DEF h
<1> QED BY <1>0, <1>1, <1>6, <1>7, <1>8, <1>9 DEF RegisterRun, n, A

Has(base, all, L) ==
  /\ DOMAIN L = DOMAIN base \cup {all[i][1] : i \in 1 .. Len(all)}
  /\ \A k \in DOMAIN L :
       \/ \E i \in 1 .. Len(all) : all[i][1] = k /\ L[k] = all[i][2]
       \/ k \in DOMAIN base /\ L[k] = base[k] /\ \A i \in 1 .. Len(all) : all[i][1] # k

LEMMA RegisteredIs ==
  ASSUME NEW K, NEW V, NEW base \in Maps(K, V), NEW all \in Seq(K \X V)
  PROVE  Registered(base, all) \in Maps(K, V) /\ Has(base, all, Registered(base, all))
<1> DEFINE N == Len(all)
           L == Registered(base, all)
           B == DOMAIN base
           D(j) == B \cup {all[i][1] : i \in 1 .. j}
           Last1(reg, j, k) ==
              \/ \E i \in 1 .. j : all[i][1] = k /\ reg[k] = all[i][2]
              \/ k \in B /\ reg[k] = base[k] /\ \A i \in 1 .. j : all[i][1] # k
           Inv == [j \in 0 .. N |-> {reg \in Maps(K, V) : DOMAIN reg = D(j) /\ \A k \in D(j) : Last1(reg, j, k)}]
<1>1. N \in Nat /\ \A i \in 1 .. N : all[i] \in K \X V
  OBVIOUS
<1>2. PICK h : RegisterRun(K, V, base, all, h)
  BY RegisterRuns
<1>3. /\ h \in [0 .. N -> Maps(K, V)] /\ h[0] = base
      /\ \A i \in 1 .. N : h[i] = Registering(h[i - 1], all[i][1], all[i][2])
      /\ L = h[N]
  BY <1>2 DEF RegisterRun
<1> HIDE DEF N, L
<1>4. h[0] \in Inv[0]
  <2>1. 1 .. 0 = {} /\ 0 \in 0 .. N
    BY <1>1
  <2>2. D(0) = B
    BY <2>1
  <2>3. \A k \in B : Last1(base, 0, k)
    BY <2>1
  <2>4. base \in Maps(K, V) /\ DOMAIN base = B
    OBVIOUS
  <2> HIDE DEF B, D, Last1
  <2> QED BY <1>3, <2>1, <2>2, <2>3, <2>4
<1>5. ASSUME NEW j \in 1 .. N, h[j - 1] \in Inv[j - 1] PROVE h[j] \in Inv[j]
  <2> DEFINE i == j - 1
             reg == h[i]
             key == all[j][1]
             new == h[j]
  <2>1. /\ j \in 0 .. N /\ i \in 0 .. N /\ all[j] \in K \X V
        /\ 1 .. j = (1 .. i) \cup {j} /\ j \notin 1 .. i
    BY <1>1
  <2>2. reg \in Maps(K, V) /\ DOMAIN reg = D(i) /\ \A k \in D(i) : Last1(reg, i, k)
    <3> HIDE DEF D, Last1
    <3> QED BY <1>5, <2>1
  <2>3. new = Registering(reg, key, all[j][2]) /\ new \in Maps(K, V)
    BY <1>3, <2>1
  <2>4. D(j) = D(i) \cup {key}
    BY <2>1
  <2>5. DOMAIN new = D(j) /\ new[key] = all[j][2] /\ \A k \in D(i) : k # key => new[k] = reg[k]
    <3> HIDE DEF D, reg, key, new
    <3> QED BY <2>2, <2>3, <2>4 DEF Registering
  <2>6. ASSUME NEW k \in D(j) PROVE Last1(new, j, k)
    <3>1. CASE k = key
      BY <2>1, <2>5, <3>1
    <3>2. CASE k # key
      <4>1. k \in D(i) /\ new[k] = reg[k]
        <5> HIDE DEF D, key, new, reg
        <5> QED BY <2>4, <2>5, <3>2
      <4>2. Last1(reg, i, k)
        <5> HIDE DEF D, Last1
        <5> QED BY <2>2, <4>1
      <4>3. CASE \E l \in 1 .. i : all[l][1] = k /\ reg[k] = all[l][2]
        <5>1. PICK l \in 1 .. i : all[l][1] = k /\ reg[k] = all[l][2]
          BY <4>3
        <5>2. l \in 1 .. j
          BY <2>1
        <5> HIDE DEF new, reg
        <5> QED BY <4>1, <5>1, <5>2
      <4>4. CASE k \in B /\ reg[k] = base[k] /\ \A l \in 1 .. i : all[l][1] # k
        <5>1. \A l \in 1 .. j : all[l][1] # k
          BY <2>1, <3>2, <4>4
        <5> HIDE DEF new, reg
        <5> QED BY <4>1, <4>4, <5>1
      <4> QED BY <4>2, <4>3, <4>4
    <3> QED BY <3>1, <3>2
  <2> HIDE DEF D, Last1, new
  <2> QED BY <2>1, <2>3, <2>5, <2>6 DEF new
<1>6. \A j \in 0 .. N : h[j] \in Inv[j]
  <2> HIDE DEF Inv
  <2> QED BY <1>1, <1>4, <1>5, AlongTheChain
<1>7. N \in 0 .. N
  BY <1>1
<1>8. L \in Maps(K, V) /\ DOMAIN L = D(N) /\ \A k \in D(N) : Last1(L, N, k)
  <2> HIDE DEF D, Last1
  <2> QED BY <1>3, <1>6, <1>7
<1>9. Has(base, all, L)
  BY <1>8 DEF N, Has
<1> QED BY <1>8, <1>9 DEF L

-----------------------------------------------------------------------------
(* Names, keys and constants: what a declaration emits.                    *)
(* Names, with words and marks put before and behind them.                 *)
Under(word, name) == <<word, "/">> \o name
FieldOf(name, f)  == name \o <<".", f>>

LEMMA NamesAre ==
  ASSUME NEW name, IsName(name)
  PROVE  /\ "." \notin Range(name)
         /\ IsSequence(Pred(name)) /\ Range(Pred(name)) = Range(name) \cup {"?"}
         /\ \A word : Range(Under(word, name)) = Range(name) \cup {word, "/"} /\ Under(word, name)[1] = word
         /\ \A f : "." \in Range(FieldOf(name, f))
<1> DEFINE R == Range(name)
<1>1. name \in Seq(R) /\ "." \notin R
  BY DEF IsName, IsSequence
<1>2. Range(Pred(name)) = R \cup {"?"} /\ Pred(name) \in Seq(R \cup {"?"})
  <2> DEFINE S == R \cup {"?"}
             mark == <<"?">>
  <2>1. name \in Seq(S) /\ mark \in Seq(S) /\ Range(mark) = {"?"} /\ Append(name, "?") = name \o mark
    BY <1>1, AppendIsConcat DEF Range
  <2> HIDE DEF S, mark
  <2>2. Range(name \o mark) = Range(name) \cup {"?"}
    BY <2>1, RangeJoin
  <2>3. name \o mark \in Seq(S)
    BY <2>1, Joined
  <2> QED BY <2>1, <2>2, <2>3 DEF Pred, S
<1>3. ASSUME NEW word PROVE Range(Under(word, name)) = R \cup {word, "/"} /\ Under(word, name)[1] = word
  <2> DEFINE S == R \cup {word, "/"}
             head == <<word, "/">>
  <2>1. name \in Seq(S) /\ head \in Seq(S) /\ Range(head) = {word, "/"} /\ Len(head) = 2 /\ head[1] = word
    BY <1>1 DEF Range
  <2> HIDE DEF head, S, R
  <2>2. Range(head \o name) = {word, "/"} \cup R
    BY <2>1, RangeJoin DEF R
  <2>3. (head \o name)[1] = head[1]
    BY <2>1
  <2> QED BY <2>1, <2>2, <2>3 DEF Under, head
<1>4. ASSUME NEW f PROVE "." \in Range(FieldOf(name, f))
  <2> DEFINE S == R \cup {".", f}
             tail == <<".", f>>
  <2>1. name \in Seq(S) /\ tail \in Seq(S) /\ "." \in Range(tail)
    BY <1>1 DEF Range
  <2> HIDE DEF S, tail
  <2>2. Range(name \o tail) = Range(name) \cup Range(tail)
    BY <2>1, RangeJoin
  <2> QED BY <2>1, <2>2 DEF FieldOf, tail
<1> QED BY <1>1, <1>2, <1>3, <1>4 DEF IsSequence

LEMMA JoinedAt ==
  ASSUME NEW S, NEW s \in Seq(S), NEW t \in Seq(S)
  PROVE  /\ \A i \in 1 .. Len(s) : (s \o t)[i] = s[i]
         /\ \A i \in 1 .. Len(t) : (s \o t)[Len(s) + i] = t[i]
OBVIOUS

LEMMA UnderIsUnique ==
  ASSUME NEW a, IsName(a), NEW b, IsName(b), NEW word, Under(word, a) = Under(word, b)
  PROVE  a = b
<1> DEFINE S == Range(a) \cup Range(b) \cup {word, "/"}
           head == <<word, "/">>
<1>1. a \in Seq(S) /\ b \in Seq(S) /\ head \in Seq(S) /\ Len(head) = 2
  BY DEF IsName, IsSequence
<1>2. head \o a = head \o b
  BY DEF Under
<1> HIDE DEF S, head
<1>3. Len(a) = Len(b)
  <2>1. Len(head \o a) = Len(head) + Len(a) /\ Len(head \o b) = Len(head) + Len(b)
    BY <1>1, Joined
  <2>2. Len(a) \in Nat /\ Len(b) \in Nat
    BY <1>1
  <2> QED BY <1>1, <1>2, <2>1, <2>2
<1>4. ASSUME NEW i \in 1 .. Len(a) PROVE a[i] = b[i]
  <2>1. \A j \in 1 .. Len(a) : (head \o a)[Len(head) + j] = a[j]
    <3>1. head \in Seq(S) /\ a \in Seq(S)
      BY <1>1
    <3> QED BY <3>1, SMT
  <2>2. \A j \in 1 .. Len(b) : (head \o b)[Len(head) + j] = b[j]
    <3>1. head \in Seq(S) /\ b \in Seq(S)
      BY <1>1
    <3> QED BY <3>1, SMT
  <2>3. i \in 1 .. Len(b)
    BY <1>3
  <2>4. (head \o a)[Len(head) + i] = a[i] /\ (head \o b)[Len(head) + i] = b[i]
    BY <2>1, <2>2, <2>3
  <2> QED BY <1>2, <2>4
<1>5. a = [i \in 1 .. Len(a) |-> a[i]] /\ b = [i \in 1 .. Len(b) |-> b[i]]
  BY <1>1
<1> QED BY <1>3, <1>4, <1>5

LEMMA FieldOfIsUnique ==
  ASSUME NEW a, IsName(a), NEW b, IsName(b), NEW f, NEW g, FieldOf(a, f) = FieldOf(b, g)
  PROVE  a = b
<1> DEFINE S == Range(a) \cup Range(b) \cup {".", f, g}
           s == <<".", f>>
           t == <<".", g>>
<1>1. a \in Seq(S) /\ b \in Seq(S) /\ s \in Seq(S) /\ Len(s) = 2 /\ t \in Seq(S) /\ Len(t) = 2
  BY DEF IsName, IsSequence
<1>2. a \o s = b \o t
  BY DEF FieldOf
<1> HIDE DEF S, s, t
<1>3. Len(a) = Len(b)
  <2>1. Len(a \o s) = Len(a) + Len(s) /\ Len(b \o t) = Len(b) + Len(t)
    BY <1>1, Joined
  <2>2. Len(a) \in Nat /\ Len(b) \in Nat
    BY <1>1
  <2> QED BY <1>1, <1>2, <2>1, <2>2
<1>4. ASSUME NEW i \in 1 .. Len(a) PROVE a[i] = b[i]
  <2>1. (a \o s)[i] = a[i] /\ (b \o t)[i] = b[i]
    BY <1>1, <1>3, JoinedAt
  <2> QED BY <1>2, <2>1
<1>5. a = [i \in 1 .. Len(a) |-> a[i]] /\ b = [i \in 1 .. Len(b) |-> b[i]]
  BY <1>1
<1> QED BY <1>3, <1>4, <1>5

LEMMA EmitCases ==
  \A n : /\ n.kind = "record" => emit(n) = emitRecord(n)
         /\ n.kind = "enum" => emit(n) = emitEnum(n)
         /\ n.kind = "fn" => emit(n) = emitFn(n)
         /\ n.kind = "llmfn" => emit(n) = emitLlmFn(n)
         /\ n.kind = "network" => emit(n) = emitNetwork(n)
         /\ n.kind = "grammar" => emit(n) = emitGrammar(n)
         /\ n.kind = "ttable" => emit(n) = emitTTable(n)
         /\ n.kind = "extract" => emit(n) = emitExtract(n)
         /\ n.kind = "derive" => emit(n) = emitDerive(n)
         /\ n.kind = "parameter" => emit(n) = emitParameter(n)
<1> TAKE n
<1>1. ASSUME n.kind = "record" PROVE emit(n) = emitRecord(n)
  BY <1>1, Zenon DEF emit
<1>2. ASSUME n.kind = "enum" PROVE emit(n) = emitEnum(n)
  BY <1>2, Zenon DEF emit
<1>3. ASSUME n.kind = "fn" PROVE emit(n) = emitFn(n)
  BY <1>3, Zenon DEF emit
<1>4. ASSUME n.kind = "llmfn" PROVE emit(n) = emitLlmFn(n)
  BY <1>4, Zenon DEF emit
<1>5. ASSUME n.kind = "network" PROVE emit(n) = emitNetwork(n)
  BY <1>5, Zenon DEF emit
<1>6. ASSUME n.kind = "grammar" PROVE emit(n) = emitGrammar(n)
  BY <1>6, Zenon DEF emit
<1>7. ASSUME n.kind = "ttable" PROVE emit(n) = emitTTable(n)
  BY <1>7, Zenon DEF emit
<1>8. ASSUME n.kind = "extract" PROVE emit(n) = emitExtract(n)
  BY <1>8, Zenon DEF emit
<1>9. ASSUME n.kind = "derive" PROVE emit(n) = emitDerive(n)
  BY <1>9, Zenon DEF emit
<1>10. ASSUME n.kind = "parameter" PROVE emit(n) = emitParameter(n)
  BY <1>10, Zenon DEF emit
<1> QED BY <1>1, <1>2, <1>3, <1>4, <1>5, <1>6, <1>7, <1>8, <1>9, <1>10

LEMMA OneEntry == \A x : IsSequence(<<x>>) /\ Range(<<x>>) = {x}
BY DEF IsSequence, Range

LEMMA EmitsIs == \A consts, keys : Emits(consts, keys).consts = consts /\ Emits(consts, keys).keys = keys
BY DEF Emits

(* What a declaration emits.                                               *)
LEMMA EmitOf ==
  ASSUME NEW n, IsDeclaration(n)
  PROVE  /\ IsSequence(emit(n).consts) /\ IsSequence(emit(n).keys)
         /\ n.kind = "record" =>
              /\ Range(emit(n).consts) = {n.name, Pred(n.name)}
              /\ Range(emit(n).keys) = {n.name, Pred(n.name)} \cup {FieldOf(n.name, f.name) : f \in Range(n.fields)}
         /\ n.kind = "enum" =>
              Range(emit(n).consts) = {Pred(n.name)} /\ Range(emit(n).keys) = {Pred(n.name)}
         /\ n.kind \in {"fn", "llmfn"} =>
              Range(emit(n).consts) = {n.name} /\ Range(emit(n).keys) = {n.name}
         /\ n.kind = "network" =>
              Range(emit(n).consts) = {n.name} /\ Range(emit(n).keys) = {Under("network", n.name)}
         /\ n.kind = "grammar" =>
              Range(emit(n).consts) = {Under("grammar", n.name)} /\ Range(emit(n).keys) = {Under("grammar", n.name)}
         /\ n.kind = "ttable" =>
              Range(emit(n).consts) = {Under("TTable", n.name)} /\ Range(emit(n).keys) = {Under("TTable", n.name)}
         /\ n.kind = "extract" =>
              Range(emit(n).consts) = {Under("extract", n.name)} /\ Range(emit(n).keys) = {Under("extract", n.name)}
         /\ n.kind \in {"derive", "parameter"} => Range(emit(n).consts) = {} /\ Range(emit(n).keys) = {}
<1> DEFINE C == emit(n).consts
           E == emit(n).keys
<1>1. CASE n.kind = "record"
  <2> DEFINE two == <<n.name, Pred(n.name)>>
             acc == [i \in DOMAIN n.fields |-> FieldOf(n.name, n.fields[i].name)]
             A == {FieldOf(n.name, f.name) : f \in Range(n.fields)}
             S == {n.name, Pred(n.name)} \cup A
  <2>1. C = two /\ E = two \o acc
    <3> DEFINE keys == two \o acc
    <3>1. emitRecord(n) = Emits(two, keys)
      BY Zenon DEF emitRecord, Each, FieldOf
    <3>2. emit(n) = emitRecord(n)
      BY <1>1, EmitCases
    <3> HIDE DEF two, keys
    <3>3. C = two /\ E = keys
      BY <3>1, <3>2, EmitsIs
    <3> QED BY <3>3 DEF keys
  <2>2. n.fields \in Seq(Range(n.fields))
    BY <1>1 DEF IsDeclaration, IsSequence
  <2>3. acc \in Seq(A) /\ Range(acc) = A
    <3> DEFINE F == n.fields
    <3>1. DOMAIN F = 1 .. Len(F) /\ Len(F) \in Nat /\ \A i \in 1 .. Len(F) : F[i] \in Range(F)
      BY <2>2 DEF Range
    <3>2. \A f \in Range(F) : \E i \in 1 .. Len(F) : f = F[i]
      BY <3>1 DEF Range
    <3>3. acc \in [1 .. Len(F) -> A]
      BY <3>1
    <3>4. \A i \in 1 .. Len(F) : acc[i] = FieldOf(n.name, F[i].name)
      BY <3>1
    <3>5. acc \in Seq(A) /\ DOMAIN acc = 1 .. Len(F)
      <4> HIDE DEF acc, A
      <4> QED BY <3>1, <3>3, AsSequence
    <3> HIDE DEF acc, F
    <3>6. Range(acc) = {acc[i] : i \in 1 .. Len(F)}
      BY <3>5 DEF Range
    <3>7. {acc[i] : i \in 1 .. Len(F)} = {FieldOf(n.name, f.name) : f \in Range(F)}
      BY <3>1, <3>2, <3>4
    <3> QED BY <3>5, <3>6, <3>7 DEF F
  <2>4. two \in Seq(S) /\ IsSequence(two) /\ Range(two) = {n.name, Pred(n.name)}
    BY DEF Range, IsSequence
  <2> HIDE DEF two, acc
  <2>5. acc \in Seq(S)
    BY <2>3, WiderSeq
  <2> HIDE DEF S
  <2>6. Range(two \o acc) = Range(two) \cup Range(acc) /\ two \o acc \in Seq(S)
    BY <2>4, <2>5, RangeJoin, Joined
  <2> USE DEF S
  <2>7. Range(two \o acc) = S
    BY <2>3, <2>4, <2>6
  <2>8. IsSequence(two \o acc)
    BY <2>6, <2>7 DEF IsSequence
  <2>9. IsSequence(C) /\ IsSequence(E) /\ Range(C) = {n.name, Pred(n.name)} /\ Range(E) = {n.name, Pred(n.name)} \cup A
    BY <2>1, <2>4, <2>7, <2>8
  <2> QED BY <1>1, <2>9
<1>2. CASE n.kind = "enum"
  <2>1. C = <<Pred(n.name)>> /\ E = <<Pred(n.name)>>
    <3> DEFINE one == <<Pred(n.name)>>
    <3>1. emit(n) = Emits(one, one)
      BY <1>2, EmitCases, Zenon DEF emitEnum
    <3> HIDE DEF one
    <3>2. C = one /\ E = one
      BY <3>1, EmitsIs
    <3> QED BY <3>2 DEF one
  <2> QED BY <1>2, <2>1, OneEntry
<1>3. CASE n.kind \in {"fn", "llmfn"}
  <2>1. C = <<n.name>> /\ E = <<n.name>>
    <3> DEFINE one == <<n.name>>
    <3>1. emitFn(n) = Emits(one, one) /\ emitLlmFn(n) = Emits(one, one)
      BY Zenon DEF emitFn, emitLlmFn
    <3>2. emit(n) = emitFn(n) \/ emit(n) = emitLlmFn(n)
      BY <1>3, EmitCases
    <3> HIDE DEF one
    <3>3. C = one /\ E = one
      BY <3>1, <3>2, EmitsIs
    <3> QED BY <3>3 DEF one
  <2> QED BY <1>3, <2>1, OneEntry
<1>4. CASE n.kind = "network"
  <2>1. C = <<n.name>> /\ E = <<Under("network", n.name)>>
    <3> DEFINE key == <<Under("network", n.name)>>
    <3>1. emitNetwork(n) = Emits(<<n.name>>, key)
      BY Zenon DEF emitNetwork, Under
    <3>2. emit(n) = emitNetwork(n)
      BY <1>4, EmitCases
    <3> HIDE DEF key
    <3>3. C = <<n.name>> /\ E = key
      BY <3>1, <3>2, EmitsIs
    <3> QED BY <3>3 DEF key
  <2> QED BY <1>4, <2>1, OneEntry
<1>5. CASE n.kind = "grammar"
  <2>1. C = <<Under("grammar", n.name)>> /\ E = <<Under("grammar", n.name)>>
    <3> DEFINE key == <<Under("grammar", n.name)>>
    <3>1. emitGrammar(n) = Emits(key, key)
      BY Zenon DEF emitGrammar, Under
    <3>2. emit(n) = emitGrammar(n)
      BY <1>5, EmitCases
    <3> HIDE DEF key
    <3>3. C = key /\ E = key
      BY <3>1, <3>2, EmitsIs
    <3> QED BY <3>3 DEF key
  <2> QED BY <1>5, <2>1, OneEntry
<1>6. CASE n.kind = "ttable"
  <2>1. C = <<Under("TTable", n.name)>> /\ E = <<Under("TTable", n.name)>>
    <3> DEFINE key == <<Under("TTable", n.name)>>
    <3>1. emitTTable(n) = Emits(key, key)
      BY Zenon DEF emitTTable, Under
    <3>2. emit(n) = emitTTable(n)
      BY <1>6, EmitCases
    <3> HIDE DEF key
    <3>3. C = key /\ E = key
      BY <3>1, <3>2, EmitsIs
    <3> QED BY <3>3 DEF key
  <2> QED BY <1>6, <2>1, OneEntry
<1>7. CASE n.kind = "extract"
  <2>1. C = <<Under("extract", n.name)>> /\ E = <<Under("extract", n.name)>>
    <3> DEFINE key == <<Under("extract", n.name)>>
    <3>1. emitExtract(n) = Emits(key, key)
      BY Zenon DEF emitExtract, Under
    <3>2. emit(n) = emitExtract(n)
      BY <1>7, EmitCases
    <3> HIDE DEF key
    <3>3. C = key /\ E = key
      BY <3>1, <3>2, EmitsIs
    <3> QED BY <3>3 DEF key
  <2> QED BY <1>7, <2>1, OneEntry
<1>8. CASE n.kind \in {"derive", "parameter"}
  <2>1. C = <<>> /\ E = <<>>
    <3>1. emitDerive(n) = Emits(<<>>, <<>>) /\ emitParameter(n) = Emits(<<>>, <<>>)
      BY Zenon DEF emitDerive, emitParameter
    <3>2. emit(n) = emitDerive(n) \/ emit(n) = emitParameter(n)
      BY <1>8, EmitCases
    <3> QED BY <3>1, <3>2, EmitsIs
  <2>2. IsSequence(<<>>) /\ Range(<<>>) = {}
    BY DEF IsSequence, Range
  <2> QED BY <1>8, <2>1, <2>2
<1> QED BY <1>1, <1>2, <1>3, <1>4, <1>5, <1>6, <1>7, <1>8 DEF IsDeclaration

(* A key of a declaration is a constant it binds, too - and then it has no *)
(* dot, and begins like a network's only if it is a function's -, or it is *)
(* that of an accessor or of a network.                                    *)
OfConst(n, k) ==
  /\ k \in Range(emit(n).consts) /\ "." \notin Range(k)
  /\ "/" \notin Range(k) \/ k[1] # "network" \/ (n.kind \in {"fn", "llmfn"} /\ k = n.name)
OfAccessor(n, k) == n.kind = "record" /\ \E f : k = FieldOf(n.name, f)
OfNetwork(n, k)  == n.kind = "network" /\ k = Under("network", n.name)

LEMMA KeysAre ==
  ASSUME NEW n, IsDeclaration(n), NEW k \in Range(emit(n).keys)
  PROVE  OfConst(n, k) \/ OfAccessor(n, k) \/ OfNetwork(n, k)
<1>1. IsName(n.name) /\ (n.kind \in {"record", "enum"} => "/" \notin Range(n.name))
  BY DEF IsDeclaration
<1>2. /\ "." \notin Range(n.name) /\ Range(Pred(n.name)) = Range(n.name) \cup {"?"}
      /\ \A word : Range(Under(word, n.name)) = Range(n.name) \cup {word, "/"} /\ Under(word, n.name)[1] = word
  BY <1>1, NamesAre
<1>3. CASE n.kind = "record"
  <2>1. k \in {n.name, Pred(n.name)} \/ \E f \in Range(n.fields) : k = FieldOf(n.name, f.name)
    BY <1>3, EmitOf
  <2>2. ASSUME k \in {n.name, Pred(n.name)} PROVE OfConst(n, k)
    <3>1. k \in Range(emit(n).consts)
      BY <1>3, <2>2, EmitOf
    <3>2. "/" \notin Range(k) /\ "." \notin Range(k)
      BY <1>1, <1>2, <1>3, <2>2
    <3> QED BY <3>1, <3>2 DEF OfConst
  <2>3. ASSUME NEW f \in Range(n.fields), k = FieldOf(n.name, f.name) PROVE OfAccessor(n, k)
    BY <1>3, <2>3 DEF OfAccessor
  <2> QED BY <2>1, <2>2, <2>3
<1>4. CASE n.kind = "enum"
  <2>1. k = Pred(n.name) /\ k \in Range(emit(n).consts)
    BY <1>4, EmitOf
  <2>2. "/" \notin Range(k) /\ "." \notin Range(k)
    BY <1>1, <1>2, <1>4, <2>1
  <2> QED BY <2>1, <2>2 DEF OfConst
<1>5. CASE n.kind \in {"fn", "llmfn"}
  <2>1. k = n.name /\ k \in Range(emit(n).consts)
    BY <1>5, EmitOf
  <2> QED BY <1>2, <1>5, <2>1 DEF OfConst
<1>6. CASE n.kind = "network"
  <2>1. k = Under("network", n.name)
    BY <1>6, EmitOf
  <2> QED BY <1>6, <2>1 DEF OfNetwork
<1>7. ASSUME NEW word \in {"grammar", "TTable", "extract"},
             k = Under(word, n.name), k \in Range(emit(n).consts)
      PROVE  OfConst(n, k)
  <2>1. Range(k) = Range(n.name) \cup {word, "/"} /\ k[1] = word
    BY <1>2, <1>7
  <2>2. "." \notin Range(k) /\ k[1] # "network"
    BY <1>2, <2>1
  <2> QED BY <1>7, <2>2 DEF OfConst
<1>8. CASE n.kind \in {"grammar", "ttable", "extract"}
  <2>1. \E word \in {"grammar", "TTable", "extract"} : k = Under(word, n.name) /\ k \in Range(emit(n).consts)
    BY <1>8, EmitOf
  <2> QED BY <1>7, <2>1
<1>9. CASE n.kind \in {"derive", "parameter"}
  BY <1>9, EmitOf
<1> QED BY <1>3, <1>4, <1>5, <1>6, <1>8, <1>9 DEF IsDeclaration

-----------------------------------------------------------------------------
(* What an artifact has under its names.                                   *)
(* The entries of a program: every key of every declaration, with it.      *)
EntriesOf(n)   == [i \in DOMAIN emit(n).keys |-> <<emit(n).keys[i], n>>]
Entries(nodes) == FlattenSeq([i \in DOMAIN nodes |-> EntriesOf(nodes[i])])
KeysOf(D)      == UNION {Range(emit(n).keys) : n \in D}

LEMMA EntriesOfOne ==
  ASSUME NEW n, IsDeclaration(n)
  PROVE  /\ EntriesOf(n) \in Seq(Range(emit(n).keys) \X {n})
         /\ Range(EntriesOf(n)) = Range(emit(n).keys) \X {n}
<1> DEFINE s == emit(n).keys
           R == Range(s)
           e == [i \in DOMAIN s |-> <<s[i], n>>]
<1>1. s \in Seq(R)
  BY EmitOf DEF IsSequence
<1>2. EntriesOf(n) = e
  BY DEF EntriesOf
<1> HIDE DEF s
<1>3. DOMAIN s = 1 .. Len(s) /\ Len(s) \in Nat /\ \A i \in 1 .. Len(s) : s[i] \in R
  BY <1>1
<1>3a. R = {s[i] : i \in 1 .. Len(s)}
  BY <1>1, RangeIn
<1> HIDE DEF R
<1>4. e \in [1 .. Len(s) -> R \X {n}] /\ \A i \in 1 .. Len(s) : e[i] = <<s[i], n>>
  BY <1>3
<1>5. e \in Seq(R \X {n}) /\ DOMAIN e = 1 .. Len(s)
  <2> DEFINE P == R \X {n}
  <2> HIDE DEF e, P
  <2>1. e \in [1 .. Len(s) -> P] /\ Len(s) \in Nat
    BY <1>3, <1>4 DEF P
  <2>2. e \in Seq(P) /\ DOMAIN e = 1 .. Len(s)
    BY <2>1, AsSequence
  <2> QED BY <2>2 DEF P
<1> HIDE DEF e
<1>6. Range(e) = {e[i] : i \in 1 .. Len(s)}
  BY <1>5 DEF Range
<1>7. Range(e) = R \X {n}
  <2>1. \A i \in 1 .. Len(s) : e[i] \in R \X {n}
    BY <1>3, <1>4
  <2>2. ASSUME NEW p \in R \X {n} PROVE \E i \in 1 .. Len(s) : e[i] = p
    <3>1. p[1] \in R /\ p = <<p[1], n>>
      OBVIOUS
    <3>2. PICK i \in 1 .. Len(s) : s[i] = p[1]
      BY <1>3a, <3>1
    <3> QED BY <1>4, <3>1, <3>2
  <2> QED BY <1>6, <2>1, <2>2
<1> QED BY <1>2, <1>5, <1>7 DEF R, s

LEMMA EntriesAre ==
  ASSUME NEW D, \A n \in D : IsDeclaration(n), NEW nodes \in Seq(D)
  PROVE  /\ Entries(nodes) \in Seq(KeysOf(D) \X D)
         /\ Range(Entries(nodes)) = UNION {Range(emit(n).keys) \X {n} : n \in Range(nodes)}
<1> DEFINE P == KeysOf(D) \X D
           seqs == [i \in DOMAIN nodes |-> EntriesOf(nodes[i])]
<1>1. DOMAIN nodes = 1 .. Len(nodes) /\ Len(nodes) \in Nat /\ \A i \in 1 .. Len(nodes) : nodes[i] \in D
  OBVIOUS
<1>2. Range(nodes) = {nodes[i] : i \in 1 .. Len(nodes)}
  BY RangeIn
<1>3. ASSUME NEW n \in D PROVE EntriesOf(n) \in Seq(P) /\ Range(EntriesOf(n)) = Range(emit(n).keys) \X {n}
  <2> DEFINE Q == Range(emit(n).keys) \X {n}
             s == EntriesOf(n)
  <2>1. s \in Seq(Q) /\ Range(s) = Q
    BY EntriesOfOne
  <2>2. Q \subseteq P
    BY DEF KeysOf
  <2> HIDE DEF Q, P, s
  <2>3. s \in Seq(P)
    BY <2>1, <2>2, WiderSeq
  <2> QED BY <2>1, <2>3 DEF s, Q
<1> HIDE DEF P
<1>4. seqs \in [1 .. Len(nodes) -> Seq(P)] /\ \A i \in 1 .. Len(nodes) : seqs[i] = EntriesOf(nodes[i])
  BY <1>1, <1>3
<1>5. Entries(nodes) = FlattenSeq(seqs)
  BY DEF Entries
<1> HIDE DEF seqs
<1>6. seqs \in Seq(Seq(P)) /\ Len(seqs) = Len(nodes)
  BY <1>1, <1>4, AsSequence
<1>7. Entries(nodes) \in Seq(P) /\ Range(Entries(nodes)) = UNION {Range(seqs[i]) : i \in 1 .. Len(seqs)}
  BY <1>5, <1>6, FlatRange
<1>8. {Range(seqs[i]) : i \in 1 .. Len(seqs)} = {Range(emit(n).keys) \X {n} : n \in Range(nodes)}
  <2>1. \A i \in 1 .. Len(nodes) : Range(seqs[i]) = Range(emit(nodes[i]).keys) \X {nodes[i]}
    BY <1>1, <1>3, <1>4
  <2>2. ASSUME NEW i \in 1 .. Len(seqs) PROVE \E n \in Range(nodes) : Range(seqs[i]) = Range(emit(n).keys) \X {n}
    BY <1>2, <1>6, <2>1
  <2>3. ASSUME NEW n \in Range(nodes) PROVE \E i \in 1 .. Len(seqs) : Range(seqs[i]) = Range(emit(n).keys) \X {n}
    BY <1>2, <1>6, <2>1
  <2> QED BY <2>2, <2>3
<1> QED BY <1>7, <1>8 DEF P

(* What a loaded artifact has under its names.                             *)
Native        == [kind |-> "native"]
TrueLeaf      == [key \in {<<"true", "?">>} |-> Native]
Leaves(nodes) == Registered(TrueLeaf, Entries(nodes))
Owns(L, k, n) == k \in Range(emit(n).keys) /\ L[k] = n

LEMMA LeavesAre ==
  ASSUME NEW D, \A n \in D : IsDeclaration(n), NEW nodes \in Seq(D), NEW L, L = Leaves(nodes)
  PROVE  /\ DOMAIN L = {<<"true", "?">>} \cup KeysOf(Range(nodes))
         /\ L = [k \in DOMAIN L |-> L[k]]
         /\ \A k \in KeysOf(Range(nodes)) : \E n \in Range(nodes) : Owns(L, k, n)
         /\ <<"true", "?">> \notin KeysOf(Range(nodes)) => L[<<"true", "?">>] = Native
<1> DEFINE t == <<"true", "?">>
           K == KeysOf(D) \cup {t}
           V == D \cup {Native}
           all == Entries(nodes)
           R == Range(nodes)
<1>1. TrueLeaf \in Maps(K, V) /\ DOMAIN TrueLeaf = {t} /\ TrueLeaf[t] = Native
  <2>1. TrueLeaf \in [{t} -> V] /\ {t} \subseteq K
    BY DEF TrueLeaf
  <2>2. TrueLeaf \in Maps(K, V)
    BY <2>1 DEF Maps
  <2> QED BY <2>2 DEF TrueLeaf
<1>2. all \in Seq(KeysOf(D) \X D) /\ Range(all) = UNION {Range(emit(n).keys) \X {n} : n \in R}
  BY EntriesAre
<1>3. L = Registered(TrueLeaf, all)
  BY DEF Leaves
<1> HIDE DEF all, t
<1>4. all \in Seq(K \X V)
  <2> DEFINE P == KeysOf(D) \X D
             Q == K \X V
  <2>1. P \subseteq Q
    OBVIOUS
  <2>2. all \in Seq(P)
    BY <1>2
  <2> HIDE DEF P, Q
  <2>3. all \in Seq(Q)
    BY <2>1, <2>2, WiderSeq
  <2> QED BY <2>3 DEF Q
<1> HIDE DEF K, V
<1>5. /\ L \in Maps(K, V)
      /\ DOMAIN L = DOMAIN TrueLeaf \cup {all[i][1] : i \in 1 .. Len(all)}
      /\ \A k \in DOMAIN L :
           \/ \E i \in 1 .. Len(all) : all[i][1] = k /\ L[k] = all[i][2]
           \/ k \in DOMAIN TrueLeaf /\ L[k] = TrueLeaf[k] /\ \A i \in 1 .. Len(all) : all[i][1] # k
  <2> DEFINE base == TrueLeaf
             M == Registered(base, all)
  <2>1. L \in Maps(K, V) /\ Has(TrueLeaf, all, L)
    <3>1. base \in Maps(K, V) /\ all \in Seq(K \X V)
      BY <1>1, <1>4
    <3> HIDE DEF base
    <3>2. Registered(base, all) \in Maps(K, V) /\ Has(base, all, Registered(base, all))
      BY <3>1, RegisteredIs
    <3>3. L = M /\ base = TrueLeaf
      BY <1>3 DEF base
    <3> QED BY <3>2, <3>3
  <2> QED BY <2>1 DEF Has
<1>6. Range(all) = {all[i] : i \in 1 .. Len(all)}
  BY <1>4, RangeIn
<1>7. \A i \in 1 .. Len(all) : all[i][2] \in R /\ all[i][1] \in Range(emit(all[i][2]).keys)
  <2> TAKE i \in 1 .. Len(all)
  <2>1. PICK n \in R : all[i] \in Range(emit(n).keys) \X {n}
    BY <1>2, <1>6
  <2>2. all[i][1] \in Range(emit(n).keys) /\ all[i][2] = n
    BY <2>1
  <2> QED BY <2>1, <2>2
<1>8. \A n \in R : \A k \in Range(emit(n).keys) : \E i \in 1 .. Len(all) : all[i][1] = k
  <2> TAKE n \in R
  <2> TAKE k \in Range(emit(n).keys)
  <2>1. <<k, n>> \in Range(all)
    BY <1>2
  <2>2. PICK i \in 1 .. Len(all) : all[i] = <<k, n>>
    BY <1>6, <2>1
  <2> QED BY <2>2
<1>9. {all[i][1] : i \in 1 .. Len(all)} = KeysOf(R)
  BY <1>7, <1>8 DEF KeysOf
<1>10. L = [k \in DOMAIN L |-> L[k]]
  BY <1>5 DEF Maps
<1>11. ASSUME NEW k \in KeysOf(R) PROVE \E n \in R : Owns(L, k, n)
  <2>1. PICK j \in 1 .. Len(all) : all[j][1] = k
    BY <1>9
  <2>2. k \in DOMAIN L
    BY <1>5, <2>1
  <2>3. PICK i \in 1 .. Len(all) : all[i][1] = k /\ L[k] = all[i][2]
    BY <1>5, <2>1, <2>2
  <2> QED BY <1>7, <2>3 DEF Owns
<1>12. ASSUME t \notin KeysOf(R) PROVE L[t] = Native
  <2>1. t \in DOMAIN L /\ \A i \in 1 .. Len(all) : all[i][1] # t
    BY <1>1, <1>5, <1>9, <1>12
  <2> QED BY <1>1, <1>5, <2>1
<1> QED BY <1>1, <1>5, <1>9, <1>10, <1>11, <1>12 DEF t

-----------------------------------------------------------------------------
(* The constants of declarations and of the prelude.                       *)
(* The names of constants, as JavaScript has them.                         *)
Mangled(s) == [i \in DOMAIN s |-> mangle(s[i])]
Names(n)   == {mangle(c) : c \in Range(emit(n).consts)}

LEMMA MangledIs ==
  ASSUME NEW s, IsSequence(s)
  PROVE  /\ Mangled(s) \in Seq({mangle(c) : c \in Range(s)}) /\ Len(Mangled(s)) = Len(s)
         /\ Range(Mangled(s)) = {mangle(c) : c \in Range(s)}
<1> DEFINE R == Range(s)
           M == {mangle(c) : c \in R}
           m == [i \in DOMAIN s |-> mangle(s[i])]
<1>1. s \in Seq(R)
  BY DEF IsSequence
<1>2. DOMAIN s = 1 .. Len(s) /\ Len(s) \in Nat /\ R = {s[i] : i \in 1 .. Len(s)}
  BY <1>1, RangeIn
<1> HIDE DEF R
<1>3. m \in [1 .. Len(s) -> M] /\ \A i \in 1 .. Len(s) : m[i] = mangle(s[i])
  BY <1>2
<1> HIDE DEF m, M
<1>4. m \in Seq(M) /\ Len(m) = Len(s)
  BY <1>2, <1>3, AsSequence
<1>5. Range(m) = {m[i] : i \in 1 .. Len(s)}
  BY <1>4, RangeIn
<1>6. Range(m) = M
  BY <1>2, <1>3, <1>5 DEF M
<1> QED BY <1>4, <1>6 DEF Mangled, M, m, R

(* Those of the declarations of a program, in their order.                 *)
PartsOf(nodes) == [i \in DOMAIN nodes |-> Mangled(emit(nodes[i]).consts)]
Covers(S, D)   == \A n \in D : Names(n) \subseteq S

LEMMA PartsAre ==
  ASSUME NEW D, \A n \in D : IsDeclaration(n), NEW nodes \in Seq(D), NEW S, Covers(S, D)
  PROVE  /\ PartsOf(nodes) \in Seq(Seq(S)) /\ Len(PartsOf(nodes)) = Len(nodes)
         /\ \A i \in 1 .. Len(nodes) : /\ PartsOf(nodes)[i] = Mangled(emit(nodes[i]).consts)
                                       /\ Range(PartsOf(nodes)[i]) = Names(nodes[i])
         /\ BoundNames(nodes) = FlattenSeq(PartsOf(nodes))
         /\ BoundNames(nodes) \in Seq(S)
         /\ Range(BoundNames(nodes)) = UNION {Names(n) : n \in Range(nodes)}
<1> DEFINE parts == PartsOf(nodes)
<1>1. DOMAIN nodes = 1 .. Len(nodes) /\ Len(nodes) \in Nat /\ \A i \in 1 .. Len(nodes) : nodes[i] \in D
  OBVIOUS
<1>2. Range(nodes) = {nodes[i] : i \in 1 .. Len(nodes)}
  BY RangeIn
<1>3. ASSUME NEW n \in D PROVE Mangled(emit(n).consts) \in Seq(S) /\ Range(Mangled(emit(n).consts)) = Names(n)
  <2> DEFINE s == emit(n).consts
             N == {mangle(c) : c \in Range(s)}
  <2>1. IsSequence(s)
    BY EmitOf
  <2> HIDE DEF s
  <2>2. Mangled(s) \in Seq(N) /\ Range(Mangled(s)) = N
    BY <2>1, MangledIs
  <2>3. N = Names(n) /\ N \subseteq S
    BY DEF s, Names, Covers
  <2> HIDE DEF N
  <2>4. Mangled(s) \in Seq(S)
    BY <2>2, <2>3, WiderSeq
  <2> QED BY <2>2, <2>3, <2>4 DEF s
<1>4. parts \in [1 .. Len(nodes) -> Seq(S)] /\ \A i \in 1 .. Len(nodes) : parts[i] = Mangled(emit(nodes[i]).consts)
  BY <1>1, <1>3 DEF PartsOf
<1>5. BoundNames(nodes) = FlattenSeq(parts)
  BY Zenon DEF BoundNames, PartsOf, Mangled, Flat, Each
<1> HIDE DEF parts
<1>6. parts \in Seq(Seq(S)) /\ Len(parts) = Len(nodes)
  BY <1>1, <1>4, AsSequence
<1>7. \A i \in 1 .. Len(nodes) : Range(parts[i]) = Names(nodes[i])
  BY <1>1, <1>3, <1>4
<1>8. BoundNames(nodes) \in Seq(S) /\ Range(BoundNames(nodes)) = UNION {Range(parts[i]) : i \in 1 .. Len(parts)}
  BY <1>5, <1>6, FlatRange
<1>9. {Range(parts[i]) : i \in 1 .. Len(parts)} = {Names(n) : n \in Range(nodes)}
  BY <1>2, <1>6, <1>7
<1> QED BY <1>4, <1>5, <1>6, <1>7, <1>8, <1>9 DEF parts

LEMMA BoundJoin ==
  ASSUME NEW D, \A n \in D : IsDeclaration(n), NEW a \in Seq(D), NEW b \in Seq(D), NEW S, Covers(S, D)
  PROVE  BoundNames(a \o b) = BoundNames(a) \o BoundNames(b)
<1> DEFINE ab == a \o b
           m == Len(a)
           n == Len(b)
           p == PartsOf(a)
           q == PartsOf(b)
           r == PartsOf(a \o b)
<1>1. /\ ab \in Seq(D) /\ m \in Nat /\ n \in Nat /\ Len(ab) = m + n
      /\ \A i \in 1 .. m : ab[i] = a[i]
      /\ \A i \in 1 .. n : ab[m + i] = b[i]
  OBVIOUS
<1>2. p \in Seq(Seq(S)) /\ Len(p) = m /\ (\A i \in 1 .. m : p[i] = Mangled(emit(a[i]).consts)) /\ BoundNames(a) = FlattenSeq(p)
  BY PartsAre
<1>3. q \in Seq(Seq(S)) /\ Len(q) = n /\ (\A i \in 1 .. n : q[i] = Mangled(emit(b[i]).consts)) /\ BoundNames(b) = FlattenSeq(q)
  BY PartsAre
<1> HIDE DEF ab
<1>4. /\ PartsOf(ab) \in Seq(Seq(S)) /\ Len(PartsOf(ab)) = m + n
      /\ \A i \in 1 .. (m + n) : PartsOf(ab)[i] = Mangled(emit(ab[i]).consts)
      /\ BoundNames(ab) = FlattenSeq(PartsOf(ab))
  BY <1>1, PartsAre
<1>5. r = PartsOf(ab)
  BY DEF ab
<1> HIDE DEF p, q, r, m, n
<1>6. r = p \o q
  <2>1. /\ p \o q \in Seq(Seq(S)) /\ Len(p \o q) = m + n
        /\ \A i \in 1 .. m : (p \o q)[i] = p[i]
        /\ \A i \in 1 .. n : (p \o q)[m + i] = q[i]
    <3> DEFINE T == Seq(S)
    <3>1. p \in Seq(T) /\ q \in Seq(T) /\ Len(p) = m /\ Len(q) = n
      BY <1>2, <1>3
    <3> HIDE DEF T
    <3>2. p \o q \in Seq(T) /\ Len(p \o q) = Len(p) + Len(q)
      BY <3>1, Joined
    <3>3. \A i \in 1 .. Len(p) : (p \o q)[i] = p[i]
      BY <3>1
    <3>4. \A i \in 1 .. Len(q) : (p \o q)[Len(p) + i] = q[i]
      BY <3>1
    <3> QED BY <3>1, <3>2, <3>3, <3>4 DEF T
  <2> DEFINE pq == p \o q
  <2> HIDE DEF pq
  <2>2. ASSUME NEW i \in 1 .. (m + n) PROVE r[i] = pq[i]
    <3>1. CASE i \in 1 .. m
      <4>1. r[i] = Mangled(emit(ab[i]).consts) /\ ab[i] = a[i] /\ p[i] = Mangled(emit(a[i]).consts) /\ pq[i] = p[i]
        BY <1>1, <1>2, <1>4, <1>5, <2>1, <3>1 DEF pq
      <4> QED BY <4>1
    <3>2. CASE i \notin 1 .. m
      <4>1. i - m \in 1 .. n /\ i = m + (i - m)
        BY <1>1, <3>2
      <4>2. r[i] = Mangled(emit(ab[i]).consts) /\ ab[i] = b[i - m] /\ q[i - m] = Mangled(emit(b[i - m]).consts) /\ pq[i] = q[i - m]
        <5>1. r[i] = Mangled(emit(ab[i]).consts)
          BY <1>4, <1>5
        <5>2. ab[i] = b[i - m] /\ q[i - m] = Mangled(emit(b[i - m]).consts)
          BY <1>1, <1>3, <4>1
        <5>3. pq[i] = q[i - m]
          BY <2>1, <4>1 DEF pq
        <5> QED BY <5>1, <5>2, <5>3
      <4> QED BY <4>2
    <3> QED BY <3>1, <3>2
  <2>3. r = [i \in 1 .. (m + n) |-> r[i]] /\ pq = [i \in 1 .. (m + n) |-> pq[i]]
    <3> DEFINE T == Seq(S)
    <3>1. r \in Seq(T) /\ Len(r) = m + n /\ pq \in Seq(T) /\ Len(pq) = m + n
      BY <1>4, <1>5, <2>1 DEF pq
    <3> HIDE DEF T
    <3> QED BY <3>1
  <2> QED BY <2>2, <2>3 DEF pq
<1>7. FlattenSeq(p \o q) = FlattenSeq(p) \o FlattenSeq(q)
  BY <1>2, <1>3, FlatJoin
<1>8. BoundNames(ab) = BoundNames(a) \o BoundNames(b)
  BY <1>2, <1>3, <1>4, <1>5, <1>6, <1>7, Zenon
<1> QED BY <1>8 DEF ab

(* What an artifact binds beside the declarations, it binds once.          *)
PreludeNames == [i \in DOMAIN Prelude |-> mangle(Prelude[i].name)]
Own          == Range(Helper) \cup Range(Mangled(Builtin)) \cup Range(PreludeNames)

LEMMA HelperIs == Helper \in Seq(Range(Helper))
<1>1. \A a, b, c, d : <<a, b, c, d>> \in Seq(Range(<<a, b, c, d>>))
  BY DEF Range
<1> QED BY <1>1, Zenon DEF Helper

LEMMA PreludeIs ==
  /\ Helper \in Seq(Own) /\ Mangled(Builtin) \in Seq(Own) /\ PreludeNames \in Seq(Own) /\ Prelude \in Seq(Range(Prelude))
  /\ Range(Mangled(Builtin)) = {mangle(b) : b \in Range(Builtin)}
  /\ Len(PreludeNames) = Len(Prelude) /\ \A i \in 1 .. Len(Prelude) : PreludeNames[i] = mangle(Prelude[i].name)
  /\ IsInjective(Helper) /\ IsInjective(Mangled(Builtin)) /\ IsInjective(PreludeNames)
  /\ Range(Helper) \cap Range(Mangled(Builtin)) = {}
  /\ (Range(Helper) \cup Range(Mangled(Builtin))) \cap Range(PreludeNames) = {}
<1> DEFINE B == Mangled(Builtin)
           P == PreludeNames
<1>1. IsSequence(Prelude) /\ IsSequence(Builtin) /\ IsInjective(Helper \o Each(mangle, Builtin) \o Each(LAMBDA n : mangle(n.name), Prelude))
  BY PreludeAssumption
<1>2. Each(mangle, Builtin) = B /\ Each(LAMBDA n : mangle(n.name), Prelude) = P
  BY Zenon DEF Each, Mangled, PreludeNames
<1>3. IsInjective((Helper \o B) \o P)
  BY <1>1, <1>2
<1>4. B \in Seq({mangle(c) : c \in Range(Builtin)}) /\ Range(B) = {mangle(c) : c \in Range(Builtin)}
  BY <1>1, MangledIs
<1>5. Prelude \in Seq(Range(Prelude)) /\ DOMAIN Prelude = 1 .. Len(Prelude) /\ Len(Prelude) \in Nat
  BY <1>1 DEF IsSequence
<1>6. P \in Seq(Range(P)) /\ Len(P) = Len(Prelude) /\ \A i \in 1 .. Len(Prelude) : P[i] = mangle(Prelude[i].name)
  <2>1. P = [i \in 1 .. Len(Prelude) |-> mangle(Prelude[i].name)]
    BY <1>5 DEF PreludeNames
  <2>2. P \in [1 .. Len(Prelude) -> Range(P)]
    BY <2>1 DEF Range
  <2> HIDE DEF P
  <2> QED BY <1>5, <2>1, <2>2, AsSequence
<1>7. Helper \in Seq(Own) /\ B \in Seq(Own) /\ P \in Seq(Own)
  <2> HIDE DEF B, P
  <2>1. Range(Helper) \subseteq Own /\ Range(B) \subseteq Own /\ Range(P) \subseteq Own
    BY DEF Own, B, P
  <2>2. B \in Seq(Range(B))
    BY <1>4
  <2> QED BY <1>6, <2>1, <2>2, HelperIs, WiderSeq
<1> HIDE DEF B, P
<1>8. Helper \o B \in Seq(Own) /\ Range(Helper \o B) = Range(Helper) \cup Range(B)
  BY <1>7, Joined, RangeJoin
<1>9. IsInjective(Helper \o B) /\ IsInjective(P) /\ Range(Helper \o B) \cap Range(P) = {}
  BY <1>3, <1>7, <1>8, JoinInjective
<1>10. IsInjective(Helper) /\ IsInjective(B) /\ Range(Helper) \cap Range(B) = {}
  BY <1>7, <1>9, JoinInjective
<1> QED BY <1>4, <1>5, <1>6, <1>7, <1>8, <1>9, <1>10 DEF B, P

-----------------------------------------------------------------------------
(* The prelude, in an artifact.                                            *)
LEMMA FnConsts ==
  ASSUME NEW n, n.kind = "fn"
  PROVE  IsInjective(Mangled(emit(n).consts)) /\ Names(n) = {mangle(n.name)}
<1> DEFINE one == <<n.name>>
<1>1. emit(n) = Emits(one, one)
  BY EmitCases, Zenon DEF emitFn
<1> HIDE DEF one
<1>2. emit(n).consts = one
  BY <1>1, EmitsIs
<1> USE DEF one
<1>3. DOMAIN Mangled(one) = {1}
  BY DEF Mangled
<1>4. IsInjective(Mangled(one))
  BY <1>3 DEF IsInjective
<1>5. Names(n) = {mangle(c) : c \in Range(one)} /\ Range(one) = {n.name}
  BY <1>2, OneEntry DEF Names
<1> QED BY <1>2, <1>4, <1>5

LEMMA PreludeDeclares ==
  /\ \A n \in Range(Prelude) : IsDeclaration(n) /\ n.kind = "fn" /\ "/" \notin Range(n.name) /\ Names(n) = {mangle(n.name)}
  /\ Covers(Own, Range(Prelude))
<1>1. ASSUME NEW n \in Range(Prelude)
      PROVE  IsDeclaration(n) /\ n.kind = "fn" /\ "/" \notin Range(n.name) /\ Names(n) = {mangle(n.name)}
  <2>1. IsPrelude(n)
    BY PreludeAssumption
  <2>2. n.kind = "fn" /\ IsName(n.name) /\ "/" \notin Range(n.name)
    BY <2>1 DEF IsPrelude
  <2> QED BY <2>2, FnConsts DEF IsDeclaration
<1>2. ASSUME NEW n \in Range(Prelude) PROVE Names(n) \subseteq Own
  <2>1. /\ Prelude \in Seq(Range(Prelude)) /\ PreludeNames \in Seq(Own) /\ Len(PreludeNames) = Len(Prelude)
        /\ \A i \in 1 .. Len(Prelude) : PreludeNames[i] = mangle(Prelude[i].name)
    BY PreludeIs
  <2>2. PICK i \in 1 .. Len(Prelude) : n = Prelude[i]
    BY <2>1, RangeIn
  <2>3. PreludeNames[i] \in Own
    BY <2>1
  <2> QED BY <1>1, <2>1, <2>2, <2>3
<1> QED BY <1>1, <1>2 DEF Covers

(* The functions of the prelude that go into an artifact.                  *)
FreeSeq(nodes) == Kept(Prelude, {n \in Range(Prelude) : n.name \notin {nodes[i].name : i \in DOMAIN nodes}})

LEMMA FreeIs ==
  ASSUME NEW D, NEW nodes \in Seq(D)
  PROVE  /\ withPrelude(nodes) = FreeSeq(nodes) \o nodes
         /\ FreeSeq(nodes) \in Seq(Range(Prelude)) /\ Range(FreeSeq(nodes)) = Free(Range(nodes))
         /\ IsInjective(BoundNames(FreeSeq(nodes)))
         /\ BoundNames(FreeSeq(nodes)) \in Seq(Own)
         /\ Range(BoundNames(FreeSeq(nodes))) = {mangle(n.name) : n \in Free(Range(nodes))}
         /\ Range(BoundNames(FreeSeq(nodes))) \subseteq Range(PreludeNames)
<1> DEFINE F == FreeSeq(nodes)
           T == Range(Prelude)
           S == {n \in T : n.name \notin {nodes[i].name : i \in DOMAIN nodes}}
           names == [i \in DOMAIN Prelude |-> mangle(Prelude[i].name)]
<1>1. withPrelude(nodes) = F \o nodes
  BY Zenon DEF withPrelude, FreeSeq
<1>2. {nodes[i].name : i \in DOMAIN nodes} = {n.name : n \in Range(nodes)}
  BY DEF Range
<1>3. S = Free(Range(nodes))
  BY <1>2, Zenon DEF Free
<1>4. /\ Prelude \in Seq(T) /\ Len(PreludeNames) = Len(Prelude) /\ IsInjective(PreludeNames) /\ PreludeNames \in Seq(Own)
      /\ \A i \in 1 .. Len(Prelude) : PreludeNames[i] = mangle(Prelude[i].name)
  BY PreludeIs
<1>5. F = Kept(Prelude, S)
  BY Zenon DEF FreeSeq
<1>6. T = {Prelude[i] : i \in 1 .. Len(Prelude)} /\ Range(PreludeNames) = {PreludeNames[i] : i \in 1 .. Len(Prelude)}
  BY <1>4, RangeIn
<1> HIDE DEF S, T, F
<1>7. \A i, j \in 1 .. Len(Prelude) : PreludeNames[i] = PreludeNames[j] => i = j
  BY <1>4, InjectiveIs
<1>8. \A m, n \in T : mangle(m.name) = mangle(n.name) => m = n
  BY <1>4, <1>6, <1>7
<1>9. IsInjective(Prelude)
  <2>1. \A i, j \in 1 .. Len(Prelude) : Prelude[i] = Prelude[j] => i = j
    BY <1>4, <1>7
  <2> QED BY <1>4, <2>1, InjectiveIs
<1>10. F \in Seq(T) /\ Range(F) = T \cap S /\ IsInjective(F)
  <2>1. Kept(Prelude, S) \in Seq(T) /\ Range(Kept(Prelude, S)) = Range(Prelude) \cap S
    BY <1>4, KeptIs
  <2>2. IsInjective(Kept(Prelude, S))
    BY <1>4, <1>9, KeptInjective, Zenon
  <2> QED BY <1>5, <2>1, <2>2 DEF T
<1>11. Range(F) = Free(Range(nodes)) /\ Range(F) \subseteq T
  BY <1>3, <1>10 DEF S
<1>12. \A n \in T : IsDeclaration(n) /\ n.kind = "fn" /\ Names(n) = {mangle(n.name)}
  BY PreludeDeclares DEF T
<1>12a. Covers(Own, T)
  BY PreludeDeclares DEF T
<1> DEFINE parts == PartsOf(F)
<1>13. /\ parts \in Seq(Seq(Own)) /\ Len(parts) = Len(F)
       /\ \A i \in 1 .. Len(F) : parts[i] = Mangled(emit(F[i]).consts) /\ Range(parts[i]) = Names(F[i])
       /\ BoundNames(F) = FlattenSeq(parts) /\ BoundNames(F) \in Seq(Own)
       /\ Range(BoundNames(F)) = UNION {Names(n) : n \in Range(F)}
  BY <1>10, <1>12, <1>12a, PartsAre
<1> HIDE DEF parts
<1>14. Len(F) \in Nat /\ (\A i \in 1 .. Len(F) : F[i] \in T) /\ \A i, j \in 1 .. Len(F) : F[i] = F[j] => i = j
  <2>1. \A i, j \in 1 .. Len(F) : F[i] = F[j] => i = j
    BY <1>10, InjectiveIs
  <2> QED BY <1>10, <2>1
<1>15. Apart(parts, Len(parts))
  <2>1. ASSUME NEW i \in 1 .. Len(F) PROVE IsInjective(parts[i]) /\ Range(parts[i]) = {mangle(F[i].name)}
    BY <1>12, <1>13, <1>14, FnConsts
  <2>2. ASSUME NEW i \in 1 .. Len(F), NEW j \in 1 .. Len(F), i # j PROVE mangle(F[i].name) # mangle(F[j].name)
    BY <1>8, <1>14, <2>2
  <2>3. \A i \in 1 .. Len(parts) : IsInjective(parts[i])
    BY <1>13, <2>1
  <2>4. \A i, j \in 1 .. Len(parts) : i # j => Range(parts[i]) \cap Range(parts[j]) = {}
    <3> SUFFICES ASSUME NEW i \in 1 .. Len(F), NEW j \in 1 .. Len(F), i # j PROVE Range(parts[i]) \cap Range(parts[j]) = {}
      BY <1>13
    <3>1. Range(parts[i]) = {mangle(F[i].name)} /\ Range(parts[j]) = {mangle(F[j].name)}
      BY <2>1
    <3> QED BY <2>2, <3>1
  <2> QED BY <2>3, <2>4, Zenon DEF Apart
<1>16. IsInjective(BoundNames(F))
  BY <1>13, <1>15, FlatInjective
<1>17. Range(BoundNames(F)) = {mangle(n.name) : n \in Free(Range(nodes))}
  BY <1>11, <1>12, <1>13
<1>18. \A n \in T : mangle(n.name) \in Range(PreludeNames)
  BY <1>4, <1>6
<1> QED BY <1>1, <1>10, <1>11, <1>13, <1>16, <1>17, <1>18 DEF F, T

LEMMA ArtifactIs ==
  ASSUME NEW nodes
  PROVE  /\ emitProgram(nodes).nodes = withPrelude(nodes)
         /\ emitProgram(nodes).consts =
              Helper \o emitBuiltins({mangle(withPrelude(nodes)[i].name) : i \in DOMAIN withPrelude(nodes)})
                     \o BoundNames(withPrelude(nodes))
<1>1. \A a, b, c, d : /\ [nodes |-> a, consts |-> b, networks |-> c, values |-> d].nodes = a
                      /\ [nodes |-> a, consts |-> b, networks |-> c, values |-> d].consts = b
  OBVIOUS
<1> QED BY <1>1, Zenon DEF emitProgram, BoundNames

-----------------------------------------------------------------------------
(* When no constant is declared twice.                                     *)
(* No constant twice: what that asks of the declarations.                  *)
Once(nodes) ==
  /\ IsInjective(BoundNames(nodes))
  /\ Range(BoundNames(nodes)) \cap Beside(Free(Range(nodes)), Spared(Range(nodes))) = {}
Unshared(nodes) == \A m, n \in Range(nodes) : \A x \in Names(m) : x \in Names(n) => m = n

LEMMA WithPreludeIs ==
  ASSUME NEW D, NEW nodes \in Seq(D)
  PROVE  /\ withPrelude(nodes) \in Seq(D \cup Range(Prelude))
         /\ Range(withPrelude(nodes)) = Free(Range(nodes)) \cup Range(nodes)
         /\ Free(Range(nodes)) \subseteq Range(Prelude)
<1> DEFINE F == FreeSeq(nodes)
           T == Range(Prelude)
           E == D \cup T
<1>1. withPrelude(nodes) = F \o nodes /\ F \in Seq(T) /\ Range(F) = Free(Range(nodes))
  BY FreeIs
<1> HIDE DEF F, T
<1>2. F \in Seq(E) /\ nodes \in Seq(E)
  BY <1>1, WiderSeq
<1> HIDE DEF E
<1>3. F \o nodes \in Seq(E) /\ Range(F \o nodes) = Range(F) \cup Range(nodes)
  BY <1>2, Joined, RangeJoin
<1>4. Free(Range(nodes)) \subseteq T
  BY DEF Free, T
<1> QED BY <1>1, <1>3, <1>4 DEF E, T

LEMMA ConstsOnce ==
  ASSUME NEW D, \A n \in D : IsDeclaration(n), NEW nodes \in Seq(D)
  PROVE  /\ IsInjective(emitProgram(nodes).consts) <=> Once(nodes)
         /\ Once(nodes) => Unshared(withPrelude(nodes))
<1> DEFINE T == Range(Prelude)
           E == D \cup T
           S == Own \cup UNION {Names(n) : n \in E}
           w == withPrelude(nodes)
           F == FreeSeq(nodes)
           B == Mangled(Builtin)
           taken == {mangle(w[i].name) : i \in DOMAIN w}
           eb == emitBuiltins(taken)
           BF == BoundNames(F)
           BN == BoundNames(nodes)
           BW == BoundNames(w)
           code == emitProgram(nodes).consts
           free == Free(Range(nodes))
           spared == Spared(Range(nodes))
<1>1. \A n \in E : IsDeclaration(n)
  BY PreludeDeclares
<1>2. Covers(S, E)
  BY DEF Covers
<1>3. w = F \o nodes /\ F \in Seq(T) /\ IsInjective(BF) /\ BF \in Seq(Own)
  BY FreeIs
<1>3a. Range(BF) = {mangle(n.name) : n \in free} /\ Range(BF) \subseteq Range(PreludeNames)
  BY FreeIs
<1>4. w \in Seq(E) /\ Range(w) = free \cup Range(nodes)
  BY WithPreludeIs
<1>5. code = (Helper \o eb) \o BW
  BY ArtifactIs
<1>6. /\ Helper \in Seq(Own) /\ B \in Seq(Own) /\ Range(B) = {mangle(b) : b \in Range(Builtin)}
      /\ IsInjective(Helper) /\ IsInjective(B)
  BY PreludeIs
<1>6a. /\ Range(Helper) \cap Range(B) = {}
       /\ (Range(Helper) \cup Range(B)) \cap Range(PreludeNames) = {}
  BY PreludeIs
<1>7. eb = Kept(B, Range(B) \ taken)
  BY Zenon DEF emitBuiltins, Each, Mangled
<1>8. taken = {mangle(n.name) : n \in free} \cup {mangle(n.name) : n \in Range(nodes)}
  <2>1. taken = {mangle(n.name) : n \in Range(w)}
    <3> HIDE DEF w
    <3> QED BY DEF Range
  <2> HIDE DEF taken
  <2> QED BY <1>4, <2>1
<1> HIDE DEF w, F, taken, code
<1> HIDE DEF B, eb, BF, BN, BW, free, spared
<1>9. F \in Seq(E) /\ nodes \in Seq(E)
  <2> HIDE DEF T
  <2> QED BY <1>3, WiderSeq
<1> HIDE DEF E, S
<1>10. BW = BF \o BN
  <2>1. BoundNames(F \o nodes) = BoundNames(F) \o BoundNames(nodes)
    BY <1>1, <1>2, <1>9, BoundJoin
  <2> QED BY <1>3, <2>1 DEF BW, BF, BN
<1>11. BN \in Seq(S) /\ BW \in Seq(S) /\ BW = FlattenSeq(PartsOf(w))
  BY <1>1, <1>2, <1>4, <1>9, PartsAre DEF BN, BW
<1>12. BF \in Seq(S) /\ Helper \in Seq(S) /\ B \in Seq(S)
  <2>1. Own \subseteq S
    BY DEF S
  <2> QED BY <1>3, <1>6, <2>1, WiderSeq
<1>13. eb \in Seq(S) /\ IsInjective(eb) /\ Range(eb) = Range(B) \ taken
  <2> DEFINE rest == Range(B) \ taken
  <2> HIDE DEF rest
  <2>1. Kept(B, rest) \in Seq(S) /\ Range(Kept(B, rest)) = Range(B) \cap rest
    BY <1>12, KeptIs
  <2>2. IsInjective(Kept(B, rest))
    BY <1>6, <1>12, KeptInjective, Zenon
  <2> QED BY <1>7, <2>1, <2>2 DEF rest
<1>14. Helper \o eb \in Seq(S) /\ Range(Helper \o eb) = Range(Helper) \cup Range(eb) /\ IsInjective(Helper \o eb)
  <2>1. Range(Helper) \cap Range(eb) = {}
    BY <1>6a, <1>13
  <2>2. Helper \o eb \in Seq(S) /\ Range(Helper \o eb) = Range(Helper) \cup Range(eb)
    BY <1>12, <1>13, Joined, RangeJoin
  <2>3. IsInjective(Helper \o eb)
    BY <1>6, <1>12, <1>13, <2>1, JoinInjective
  <2> QED BY <2>2, <2>3
<1>15. Range(BW) = Range(BF) \cup Range(BN) /\ (IsInjective(BW) <=> IsInjective(BN) /\ Range(BF) \cap Range(BN) = {})
  <2>1. Range(BW) = Range(BF) \cup Range(BN)
    BY <1>10, <1>11, <1>12, RangeJoin
  <2>2. IsInjective(BW) <=> IsInjective(BF) /\ IsInjective(BN) /\ Range(BF) \cap Range(BN) = {}
    BY <1>10, <1>11, <1>12, JoinInjective
  <2> QED BY <1>3, <2>1, <2>2
<1>16. IsInjective(code) <=> IsInjective(BW) /\ Range(Helper \o eb) \cap Range(BW) = {}
  BY <1>5, <1>11, <1>14, JoinInjective
<1>17. Range(eb) = {mangle(b) : b \in spared}
  <2> DEFINE N == {mangle(n.name) : n \in Range(nodes)}
  <2> HIDE DEF N
  <2>1. spared = {b \in Range(Builtin) : mangle(b) \notin N}
    BY Zenon DEF spared, Spared, N
  <2>2. taken = Range(BF) \cup N
    BY <1>3a, <1>8 DEF N
  <2>3. Range(B) \cap Range(BF) = {}
    BY <1>3a, <1>6a
  <2> QED BY <1>6, <1>13, <2>1, <2>2, <2>3
<1>18. Beside(free, spared) = Range(Helper) \cup Range(BF) \cup Range(eb)
  BY <1>3a, <1>17 DEF Beside
<1>19. (Range(Helper) \cup Range(eb)) \cap Range(BF) = {}
  BY <1>3a, <1>6a, <1>13
<1>20. IsInjective(code) <=> IsInjective(BN) /\ Range(BN) \cap Beside(free, spared) = {}
  BY <1>14, <1>15, <1>16, <1>18, <1>19
<1>21. ASSUME IsInjective(BW) PROVE Unshared(w)
  <2> DEFINE parts == PartsOf(w)
  <2>1. parts \in Seq(Seq(S)) /\ Len(parts) = Len(w) /\ \A i \in 1 .. Len(w) : Range(parts[i]) = Names(w[i])
    BY <1>1, <1>2, <1>4, PartsAre
  <2> HIDE DEF parts
  <2>2. Apart(parts, Len(parts))
    BY <1>11, <1>21, <2>1, FlatInjective DEF parts
  <2>3. \A i, j \in 1 .. Len(w) : i # j => Range(parts[i]) \cap Range(parts[j]) = {}
    BY <2>1, <2>2 DEF Apart
  <2>4. Range(w) = {w[i] : i \in 1 .. Len(w)}
    BY <1>4, RangeIn
  <2>5. ASSUME NEW i \in 1 .. Len(w), NEW j \in 1 .. Len(w), NEW x \in Names(w[i]), x \in Names(w[j]) PROVE w[i] = w[j]
    BY <2>1, <2>3, <2>5
  <2> QED BY <2>4, <2>5 DEF Unshared
<1>22. IsInjective(code) => Unshared(w)
  BY <1>16, <1>21
<1> QED BY <1>20, <1>22 DEF Once, BN, free, spared, code, w

-----------------------------------------------------------------------------
(* When a key has one owner.                                               *)
(* A key has one owner, where no constant has two - but for a network and  *)
(* a function of the name it is registered under.                          *)
Clash(m, n) == m.kind = "network" /\ n.kind \in {"fn", "llmfn"} /\ n.name = Under("network", m.name)

LEMMA OneOwner ==
  ASSUME NEW m, IsDeclaration(m), NEW n, IsDeclaration(n),
         NEW k \in Range(emit(m).keys), k \in Range(emit(n).keys),
         \A x \in Names(m) : x \in Names(n) => m = n
  PROVE  m = n \/ (Clash(m, n) /\ k = n.name) \/ (Clash(n, m) /\ k = m.name)
<1>1. OfConst(m, k) \/ OfAccessor(m, k) \/ OfNetwork(m, k)
  BY KeysAre
<1>2. OfConst(n, k) \/ OfAccessor(n, k) \/ OfNetwork(n, k)
  BY KeysAre
<1>3. \A c \in Range(emit(m).consts) : c \in Range(emit(n).consts) => m = n
  BY DEF Names
<1>4. IsName(m.name) /\ IsName(n.name)
  BY DEF IsDeclaration
<1>5. ASSUME NEW a, IsDeclaration(a), OfNetwork(a, k) PROVE k[1] = "network" /\ "/" \in Range(k) /\ "." \notin Range(k)
  <2>1. IsName(a.name) /\ k = Under("network", a.name)
    BY <1>5 DEF OfNetwork, IsDeclaration
  <2>2. Range(k) = Range(a.name) \cup {"network", "/"} /\ k[1] = "network" /\ "." \notin Range(a.name)
    BY <2>1, NamesAre
  <2> QED BY <2>2
<1>6. ASSUME NEW a, IsDeclaration(a), OfAccessor(a, k) PROVE "." \in Range(k) /\ a.name \in Range(emit(a).consts)
  <2>1. IsName(a.name) /\ a.kind = "record" /\ \E f : k = FieldOf(a.name, f)
    BY <1>6 DEF OfAccessor, IsDeclaration
  <2>2. "." \in Range(k)
    BY <2>1, NamesAre
  <2>3. a.name \in Range(emit(a).consts)
    <3>1. Range(emit(a).consts) = {a.name, Pred(a.name)}
      BY <1>6, <2>1, EmitOf, Zenon
    <3> QED BY <3>1
  <2> QED BY <2>2, <2>3
<1>7. CASE OfConst(m, k) /\ OfConst(n, k)
  BY <1>3, <1>7 DEF OfConst
<1>8. CASE OfAccessor(m, k) /\ OfAccessor(n, k)
  <2>1. PICK f, g : k = FieldOf(m.name, f) /\ k = FieldOf(n.name, g)
    BY <1>8 DEF OfAccessor
  <2>2. m.name = n.name
    BY <1>4, <2>1, FieldOfIsUnique
  <2> QED BY <1>3, <1>6, <1>8, <2>2
<1>9. CASE OfNetwork(m, k) /\ OfNetwork(n, k)
  <2>1. Under("network", m.name) = Under("network", n.name) /\ m.kind = "network" /\ n.kind = "network"
    BY <1>9 DEF OfNetwork
  <2>2. m.name = n.name
    BY <1>4, <2>1, UnderIsUnique
  <2>3. m.name \in Range(emit(m).consts) /\ n.name \in Range(emit(n).consts)
    BY <2>1, EmitOf
  <2> QED BY <1>3, <2>2, <2>3
<1>10. ASSUME NEW a, IsDeclaration(a), NEW b, IsDeclaration(b), OfConst(a, k), OfNetwork(b, k) PROVE Clash(b, a) /\ k = a.name
  <2>1. k[1] = "network" /\ "/" \in Range(k)
    BY <1>5, <1>10
  <2>2. a.kind \in {"fn", "llmfn"} /\ k = a.name
    BY <1>10, <2>1 DEF OfConst
  <2> QED BY <1>10, <2>2 DEF Clash, OfNetwork
<1>11. ~(OfAccessor(m, k) /\ (OfConst(n, k) \/ OfNetwork(n, k))) /\ ~(OfAccessor(n, k) /\ (OfConst(m, k) \/ OfNetwork(m, k)))
  BY <1>5, <1>6 DEF OfConst
<1> QED BY <1>1, <1>2, <1>7, <1>8, <1>9, <1>10, <1>11

LEMMA HidesIs ==
  ASSUME NEW D, NEW nodes \in Seq(D), NEW m \in Range(nodes), NEW n \in Range(nodes), Clash(m, n)
  PROVE  Hides(nodes)
<1>1. m \in Range(OfKind(nodes, "network"))
  <2> DEFINE S == {n2 \in Range(nodes) : n2.kind = "network"}
  <2>1. OfKind(nodes, "network") = Kept(nodes, S)
    BY DEF OfKind
  <2>2. m \in S
    BY DEF Clash
  <2> HIDE DEF S
  <2> QED BY <2>1, <2>2, KeptIs
<1>2. registryKey(n) = n.name
  BY Zenon DEF registryKey, Clash
<1>3. registryKey(n) = <<"network", "/">> \o m.name
  BY <1>2 DEF Clash, Under
<1> QED BY <1>1, <1>3, Zenon DEF Hides

(* Among the declarations of an artifact, those of the prelude clash with  *)
(* none, and so none do unless a program hides one of its networks.        *)
LEMMA Clashes ==
  ASSUME NEW D, NEW nodes \in Seq(D), NEW m \in Range(withPrelude(nodes)), NEW n \in Range(withPrelude(nodes)), Clash(m, n),
         \A d \in D : IsDeclaration(d)
  PROVE  Hides(nodes) /\ n \in Range(nodes) /\ n \notin Free(Range(nodes))
<1>1. /\ m \in Free(Range(nodes)) \/ m \in Range(nodes)
      /\ n \in Free(Range(nodes)) \/ n \in Range(nodes)
      /\ Free(Range(nodes)) \subseteq Range(Prelude)
  BY WithPreludeIs
<1>2. m \notin Free(Range(nodes))
  BY <1>1, PreludeDeclares DEF Clash
<1>3. n \notin Free(Range(nodes))
  <2>1. "/" \in Range(n.name)
    <3>1. IsName(m.name)
      BY <1>1, <1>2, RangeIn DEF IsDeclaration
    <3>2. Range(Under("network", m.name)) = Range(m.name) \cup {"network", "/"}
      BY <3>1, NamesAre
    <3> QED BY <3>2 DEF Clash
  <2> QED BY <1>1, <2>1, PreludeDeclares
<1> QED BY <1>1, <1>2, <1>3, HidesIs

LEMMA LoadIs ==
  ASSUME NEW code
  PROVE  /\ loadProgram(code).ok \in BOOLEAN
         /\ loadProgram(code).ok <=> IsInjective(code.consts) /\ \A n \in Range(code.nodes) : Builds(code.nodes, n)
         /\ loadProgram(code).ok => loadProgram(code).leaves = Leaves(code.nodes)
<1> DEFINE all == Flat(LAMBDA n : Each(LAMBDA key : <<key, n>>, emit(n).keys), code.nodes)
           regs == FoldLeft(LAMBDA reg, e : Registering(reg, e[1], e[2]), [key \in {<<"true", "?">>} |-> [kind |-> "native"]], all)
           no == ~IsInjective(code.consts) \/ \E n \in Range(code.nodes) : ~Builds(code.nodes, n)
           yes == [ok |-> TRUE, networks |-> code.networks, values |-> code.values, leaves |-> regs]
<1>1. loadProgram(code) = IF no THEN [ok |-> FALSE] ELSE yes
  BY Zenon DEF loadProgram
<1>2. regs = Leaves(code.nodes)
  <2>1. all = Entries(code.nodes)
    BY Zenon DEF Entries, EntriesOf, Flat, Each
  <2> HIDE DEF all
  <2> QED BY <2>1, Zenon DEF Leaves, Registered, TrueLeaf, Native
<1>3. \A a, b, c : [ok |-> TRUE, networks |-> a, values |-> b, leaves |-> c].ok = TRUE /\ [ok |-> TRUE, networks |-> a, values |-> b, leaves |-> c].leaves = c
  OBVIOUS
<1>4. [ok |-> FALSE].ok = FALSE
  OBVIOUS
<1>5. yes.ok = TRUE /\ yes.leaves = regs
  BY <1>3, Zenon
<1> HIDE DEF yes, regs
<1> QED BY <1>1, <1>2, <1>4, <1>5, Zenon

-----------------------------------------------------------------------------
(* A program that merges loads.                                            *)
LEMMA LoadsAll ==
  ASSUME NEW D, \A n \in D : IsDeclaration(n), NEW nodes \in Seq(D)
  PROVE  LoadsWhenEmitted(nodes, loadProgram(emitProgram(nodes)))
<1> DEFINE w == withPrelude(nodes)
           code == emitProgram(nodes)
           r == loadProgram(code)
           L == Leaves(w)
           free == Free(Range(nodes))
           E == D \cup Range(Prelude)
<1>1. w \in Seq(E) /\ Range(w) = free \cup Range(nodes) /\ free \subseteq Range(Prelude)
  BY WithPreludeIs
<1>2. (\A n \in E : IsDeclaration(n)) /\ (\A n \in Range(w) : IsDeclaration(n))
  <2>1. \A n \in E : IsDeclaration(n)
    BY PreludeDeclares
  <2> HIDE DEF E, w
  <2>2. Range(w) \subseteq E
    BY <1>1, RangeIn
  <2> QED BY <2>1, <2>2
<1>3. code.nodes = w
  BY ArtifactIs
<1>4. (IsInjective(code.consts) <=> Once(nodes)) /\ (Once(nodes) => Unshared(w))
  BY ConstsOnce
<1> HIDE DEF code
<1>5. /\ r.ok <=> IsInjective(code.consts) /\ \A n \in Range(w) : Builds(w, n)
      /\ r.ok => r.leaves = L
  <2>1. /\ loadProgram(code).ok <=> IsInjective(code.consts) /\ \A n \in Range(code.nodes) : Builds(code.nodes, n)
        /\ loadProgram(code).ok => loadProgram(code).leaves = Leaves(code.nodes)
    BY LoadIs
  <2> HIDE DEF w
  <2> QED BY <1>3, <2>1
<1>6. \A n \in free : Builds(w, n)
  <2>1. \A n \in free : n.kind = "fn" /\ IsJavaScript(n)
    BY <1>1, PreludeAssumption DEF IsPrelude
  <2> HIDE DEF w, free
  <2> QED BY <2>1, Zenon DEF Builds
<1>7. r.ok <=> (\A n \in Range(nodes) : Builds(w, n)) /\ Once(nodes)
  BY <1>1, <1>4, <1>5, <1>6
<1> HIDE DEF w, free, L, r
<1>8. ASSUME r.ok, NEW n \in Range(w), n.name \in Range(emit(n).keys),
             n \in free \/ ~Hides(nodes), n \notin Range(nodes) \/ n \in free \/ n.kind # "network"
      PROVE  r.leaves[n.name] = n
  <2>1. L = Leaves(w) /\ r.leaves = L /\ Unshared(w)
    BY <1>4, <1>5, <1>8 DEF L
  <2>2. n.name \in KeysOf(Range(w))
    BY <1>8 DEF KeysOf
  <2>3. PICK m \in Range(w) : Owns(L, n.name, m)
    BY <1>1, <1>2, <2>1, <2>2, LeavesAre
  <2>4. n.name \in Range(emit(m).keys) /\ L[n.name] = m
    BY <2>3 DEF Owns
  <2>5. IsDeclaration(m) /\ IsDeclaration(n) /\ \A x \in Names(m) : x \in Names(n) => m = n
    BY <1>2, <2>1 DEF Unshared
  <2>6. m = n \/ (Clash(m, n) /\ n.name = n.name) \/ (Clash(n, m) /\ n.name = m.name)
    BY <1>8, <2>4, <2>5, OneOwner, Zenon
  <2>7. ASSUME Clash(m, n) PROVE FALSE
    <3>1. m \in Range(withPrelude(nodes)) /\ n \in Range(withPrelude(nodes))
      BY DEF w
    <3>2. Hides(nodes) /\ n \notin Free(Range(nodes))
      BY <2>7, <3>1, Clashes
    <3> QED BY <1>8, <3>2 DEF free
  <2>8. ASSUME Clash(n, m) PROVE FALSE
    <3>1. m \in Range(withPrelude(nodes)) /\ n \in Range(withPrelude(nodes))
      BY DEF w
    <3>2. Hides(nodes)
      BY <2>8, <3>1, Clashes
    <3>3. n.kind = "network"
      BY <2>8 DEF Clash
    <3>4. n \in free
      BY <1>8, <3>2
    <3> QED BY <1>1, <3>3, <3>4, PreludeDeclares
  <2> QED BY <2>1, <2>4, <2>6, <2>7, <2>8
<1>9. ASSUME NEW n \in Range(w), n.kind \in {"fn", "record", "llmfn"} PROVE n.name \in Range(emit(n).keys)
  <2>1. IsDeclaration(n)
    BY <1>2
  <2>2. CASE n.kind = "record"
    <3> DEFINE A == {FieldOf(n.name, f.name) : f \in Range(n.fields)}
    <3>1. Range(emit(n).keys) = {n.name, Pred(n.name)} \cup A
      BY <2>1, <2>2, EmitOf, Zenon
    <3> QED BY <3>1
  <2>3. CASE n.kind \in {"fn", "llmfn"}
    BY <2>1, <2>3, EmitOf
  <2> QED BY <1>9, <2>2, <2>3
<1>10. r.ok => LoadsAsDeclared(r, nodes, free)
  <2> SUFFICES ASSUME r.ok PROVE LoadsAsDeclared(r, nodes, free)
    OBVIOUS
  <2>1. ASSUME NEW n \in free PROVE r.leaves[n.name] = n
    <3>1. n \in Range(w) /\ n.kind = "fn"
      BY <1>1, PreludeDeclares
    <3> QED BY <1>8, <1>9, <3>1
  <2>2. ASSUME NEW n \in Range(nodes), n.kind \in {"fn", "record", "llmfn"}, ~Hides(nodes) PROVE r.leaves[n.name] = n
    <3>1. n \in Range(w) /\ n.kind # "network"
      BY <1>1, <2>2
    <3> QED BY <1>8, <1>9, <2>2, <3>1
  <2> QED BY <2>1, <2>2 DEF LoadsAsDeclared
<1> QED BY <1>7, <1>10 DEF LoadsWhenEmitted, Once, w, free, r, code

(* The prelude can be compiled: what is emitted depends on the program.    *)
LEMMA EmissionFails ==
  ASSUME NEW why, NEW made, made = [ok |-> FALSE, why |-> why]
  PROVE  made.ok = FALSE
OBVIOUS

LEMMA EmitsWhenItCompiles ==
  ASSUME NEW D, NEW nodes \in Seq(D)
  PROVE  /\ emitJs(nodes).ok \in BOOLEAN
         /\ emitJs(nodes).ok <=> combine(nodes).ok /\ \A n \in Range(OfKind(nodes, "fn")) : Compiles(n.body)
         /\ emitJs(nodes).ok => emitJs(nodes).code = emitProgram(nodes)
<1> DEFINE w == withPrelude(nodes)
           code == emitProgram(nodes)
           fails == \E n \in Range(w) : n.kind = "fn" /\ ~Compiles(n.body)
           merges == combine(nodes).ok
<1>1. Range(w) = Free(Range(nodes)) \cup Range(nodes) /\ Free(Range(nodes)) \subseteq Range(Prelude)
  BY WithPreludeIs
<1>2. \A n \in Range(Prelude) : Compiles(n.body)
  BY PreludeAssumption DEF IsPrelude
<1>3. Range(OfKind(nodes, "fn")) = {n \in Range(nodes) : n.kind = "fn"}
  <2>1. Range(OfKind(nodes, "fn")) = Range(nodes) \cap {n \in Range(nodes) : n.kind = "fn"}
    BY KeptIs DEF OfKind
  <2> QED BY <2>1
<1>4. fails <=> \E n \in Range(OfKind(nodes, "fn")) : ~Compiles(n.body)
  <2> HIDE DEF w
  <2> QED BY <1>1, <1>2, <1>3
<1>5. emitJs(nodes) = IF ~merges THEN [ok |-> FALSE, why |-> "conflict"]
                      ELSE IF fails THEN [ok |-> FALSE, why |-> "compile error"] ELSE [ok |-> TRUE, code |-> code]
  BY Zenon DEF emitJs
<1> HIDE DEF fails, code, merges
<1>6. emitJs(nodes).ok = (merges /\ ~fails)
  <2>1. ASSUME ~(merges /\ ~fails) PROVE emitJs(nodes).ok = FALSE
    <3>1. \E why : emitJs(nodes) = [ok |-> FALSE, why |-> why]
      BY <1>5, <2>1, Zenon
    <3> QED BY <3>1, EmissionFails
  <2>2. merges /\ ~fails => emitJs(nodes).ok = TRUE
    BY <1>5
  <2> QED BY <2>1, <2>2, Zenon
<1>7. merges /\ ~fails => emitJs(nodes).code = code
  BY <1>5
<1> QED BY <1>4, <1>6, <1>7 DEF code, merges

(* The declarations of a source are what its client may write.             *)
LEMMA NodesAre ==
  ASSUME SourceOK
  PROVE  Nodes \in Seq(Declarations(client)) /\ \A n \in Declarations(client) : IsDeclaration(n)
<1>1. Nodes \in Seq(Declarations(client))
  BY ProgramIs DEF Nodes
<1>2. \A n \in Declarations(client) : IsDeclaration(n)
  BY DeclarationsAssumption DEF SourceOK, Declarations
<1> QED BY <1>1, <1>2

(* Whatever program a client writes: if its declarations merge, and no if  *)
(* lacks an argument, it is emitted; the artifact loads, unless one of them*)
(* cannot be built - its JavaScript not parsed among other things - or the *)
(* module would have a constant twice; and then every function of the      *)
(* prelude that no declaration takes the name of, and every function,      *)
(* record and LLM function of the program is there under its own name -    *)
(* these unless a network is hidden by a function.  (combine.ts:7-23,      *)
(* compile.ts:50-101, prelude.ts:30-36, load.ts:42-52)                     *)
THEOREM AcceptedProgramsLoad == Spec => []AcceptedMeansLoaded
<1>1. ASSUME SourceOK PROVE AcceptedMeansLoaded
  <2> DEFINE D == Declarations(client)
  <2>1. Nodes \in Seq(D) /\ \A n \in D : IsDeclaration(n)
    BY <1>1, NodesAre
  <2> HIDE DEF D
  <2>2. LoadsWhenEmitted(Nodes, loadProgram(emitProgram(Nodes)))
    BY <2>1, LoadsAll
  <2>3. /\ emitJs(Nodes).ok <=> combine(Nodes).ok /\ \A n \in Range(OfKind(Nodes, "fn")) : Compiles(n.body)
        /\ emitJs(Nodes).ok => emitJs(Nodes).code = emitProgram(Nodes)
    BY <2>1, EmitsWhenItCompiles
  <2> QED BY <2>2, <2>3 DEF AcceptedMeansLoaded, LoadsWhenAccepted
<1> QED BY <1>1, ParsedIsSource, PTL

-----------------------------------------------------------------------------
(* Declarations that change places.                                        *)
(* A program and the same with its declarations in another order: places   *)
(* exchanged in pairs.                                                     *)
Exchanges(nodes, other, pi) ==
  /\ Len(other) = Len(nodes)
  /\ pi \in [1 .. Len(nodes) -> 1 .. Len(nodes)]
  /\ \A i \in 1 .. Len(nodes) : pi[pi[i]] = i /\ other[i] = nodes[pi[i]]

LEMMA RearrangedIs ==
  ASSUME NEW D, NEW nodes \in Seq(D), NEW other \in Rearranged(nodes)
  PROVE  other \in Seq(D) /\ \E pi : Exchanges(nodes, other, pi)
<1> DEFINE N == Len(nodes)
<1>1. N \in Nat /\ DOMAIN nodes = 1 .. N /\ nodes = [j \in 1 .. N |-> nodes[j]] /\ \A j \in 1 .. N : nodes[j] \in D
  OBVIOUS
<1>2. PICK i \in 1 .. (N - 1) : other = [nodes EXCEPT ![i] = nodes[i + 1], ![i + 1] = nodes[i]]
  BY DEF Rearranged
<1> HIDE DEF N
<1>3. i \in 1 .. N /\ i + 1 \in 1 .. N /\ i # i + 1
  BY <1>1, <1>2
<1> DEFINE pi == [j \in 1 .. N |-> IF j = i THEN i + 1 ELSE IF j = i + 1 THEN i ELSE j]
<1>4. pi \in [1 .. N -> 1 .. N] /\ pi[i] = i + 1 /\ pi[i + 1] = i /\ \A j \in 1 .. N : j # i /\ j # i + 1 => pi[j] = j
  BY <1>3
<1>5. other[i] = nodes[i + 1] /\ other[i + 1] = nodes[i] /\ \A j \in 1 .. N : j # i /\ j # i + 1 => other[j] = nodes[j]
  BY <1>1, <1>2, <1>3
<1>6. other \in [1 .. N -> D]
  BY <1>1, <1>2, <1>3
<1>7. other \in Seq(D) /\ Len(other) = N
  BY <1>1, <1>6, AsSequence
<1> HIDE DEF pi
<1>8. \A j \in 1 .. N : pi[pi[j]] = j /\ other[j] = nodes[pi[j]]
  BY <1>3, <1>4, <1>5
<1>9. Exchanges(nodes, other, pi)
  BY <1>4, <1>7, <1>8 DEF Exchanges, N
<1> QED BY <1>7, <1>9

LEMMA ExchangedRange ==
  ASSUME NEW S, NEW s \in Seq(S), NEW t \in Seq(S), NEW pi, Exchanges(s, t, pi)
  PROVE  Range(t) = Range(s)
<1>1. /\ Len(s) \in Nat /\ Len(t) = Len(s) /\ pi \in [1 .. Len(s) -> 1 .. Len(s)]
      /\ \A i \in 1 .. Len(s) : pi[pi[i]] = i /\ t[i] = s[pi[i]]
  BY DEF Exchanges
<1>2. Range(s) = {s[i] : i \in 1 .. Len(s)} /\ Range(t) = {t[i] : i \in 1 .. Len(s)}
  BY <1>1, RangeIn
<1>3. \A i \in 1 .. Len(s) : t[i] \in Range(s) /\ s[i] = t[pi[i]]
  <2> TAKE i \in 1 .. Len(s)
  <2>1. pi[i] \in 1 .. Len(s)
    BY <1>1
  <2> QED BY <1>1, <1>2, <2>1
<1>4. \A i \in 1 .. Len(s) : s[i] \in Range(t)
  BY <1>1, <1>2, <1>3
<1> QED BY <1>2, <1>3, <1>4

LEMMA ExchangedApart ==
  ASSUME NEW S, NEW p \in Seq(Seq(S)), NEW q \in Seq(Seq(S)), NEW pi, Exchanges(p, q, pi), Apart(p, Len(p))
  PROVE  Apart(q, Len(q))
<1>1. /\ Len(p) \in Nat /\ Len(q) = Len(p) /\ pi \in [1 .. Len(p) -> 1 .. Len(p)]
      /\ \A i \in 1 .. Len(p) : pi[pi[i]] = i /\ q[i] = p[pi[i]]
  BY DEF Exchanges
<1>2. \A i \in 1 .. Len(q) : IsInjective(q[i])
  BY <1>1 DEF Apart
<1>3. ASSUME NEW i \in 1 .. Len(q), NEW j \in 1 .. Len(q), i # j PROVE Range(q[i]) \cap Range(q[j]) = {}
  <2>1. pi[i] \in 1 .. Len(p) /\ pi[j] \in 1 .. Len(p) /\ pi[i] # pi[j]
    <3>1. i \in 1 .. Len(p) /\ j \in 1 .. Len(p)
      BY <1>1
    <3>2. pi[i] \in 1 .. Len(p) /\ pi[j] \in 1 .. Len(p) /\ pi[pi[i]] = i /\ pi[pi[j]] = j
      BY <1>1, <3>1
    <3> QED BY <1>3, <3>2
  <2>2. Range(p[pi[i]]) \cap Range(p[pi[j]]) = {}
    BY <2>1, Zenon DEF Apart
  <2> QED BY <1>1, <1>3, <2>2
<1> QED BY <1>2, <1>3, Zenon DEF Apart

LEMMA ExchangedOnce ==
  ASSUME NEW D, \A n \in D : IsDeclaration(n), NEW nodes \in Seq(D), NEW other \in Seq(D),
         NEW pi, Exchanges(nodes, other, pi), Once(nodes)
  PROVE  Once(other)
<1> DEFINE S == UNION {Names(n) : n \in D}
           p == PartsOf(nodes)
           q == PartsOf(other)
<1>1. Covers(S, D)
  BY DEF Covers
<1> HIDE DEF S, p, q
<1>2. /\ p \in Seq(Seq(S)) /\ Len(p) = Len(nodes)
      /\ \A i \in 1 .. Len(nodes) : p[i] = Mangled(emit(nodes[i]).consts)
      /\ BoundNames(nodes) = FlattenSeq(p) /\ Range(BoundNames(nodes)) = UNION {Names(n) : n \in Range(nodes)}
  BY <1>1, PartsAre DEF p
<1>3. /\ q \in Seq(Seq(S)) /\ Len(q) = Len(other)
      /\ \A i \in 1 .. Len(other) : q[i] = Mangled(emit(other[i]).consts)
      /\ BoundNames(other) = FlattenSeq(q) /\ Range(BoundNames(other)) = UNION {Names(n) : n \in Range(other)}
  BY <1>1, PartsAre DEF q
<1>4. Range(other) = Range(nodes)
  BY ExchangedRange
<1>5. Exchanges(p, q, pi)
  <2>1. /\ Len(other) = Len(nodes) /\ pi \in [1 .. Len(nodes) -> 1 .. Len(nodes)]
        /\ \A i \in 1 .. Len(nodes) : pi[pi[i]] = i /\ other[i] = nodes[pi[i]]
    BY DEF Exchanges
  <2>2. \A i \in 1 .. Len(nodes) : q[i] = p[pi[i]]
    <3> TAKE i \in 1 .. Len(nodes)
    <3>1. pi[i] \in 1 .. Len(nodes) /\ other[i] = nodes[pi[i]] /\ i \in 1 .. Len(other)
      BY <2>1
    <3>2. p[pi[i]] = Mangled(emit(nodes[pi[i]]).consts)
      BY <1>2, <3>1
    <3>3. q[i] = Mangled(emit(other[i]).consts)
      BY <1>3, <3>1
    <3> QED BY <3>1, <3>2, <3>3
  <2> QED BY <1>2, <1>3, <2>1, <2>2 DEF Exchanges
<1>6. IsInjective(BoundNames(nodes))
  BY DEF Once
<1>7. Apart(p, Len(p))
  BY <1>2, <1>6, FlatInjective
<1>8. Apart(q, Len(q))
  BY <1>2, <1>3, <1>5, <1>7, ExchangedApart, Zenon
<1>9. IsInjective(BoundNames(other))
  BY <1>3, <1>8, FlatInjective
<1>10. Range(BoundNames(other)) = Range(BoundNames(nodes))
  BY <1>2, <1>3, <1>4
<1> QED BY <1>4, <1>9, <1>10, Zenon DEF Once

-----------------------------------------------------------------------------
(* What is looked up, whatever the order.                                  *)
(* Two orders of the same declarations, no two functions and no two records *)
(* of one name.                                                            *)
Alike(w, v) ==
  /\ Range(v) = Range(w) /\ Len(v) = Len(w)
  /\ \A m, n \in Range(w) : m.kind \in {"fn", "record"} /\ m.kind = n.kind /\ m.name = n.name => m = n

LEMMA LatestIs ==
  ASSUME NEW T, NEW w \in Seq(T), NEW kind, NEW name
  PROVE  /\ Declares(w, kind, name) <=> \E n \in Range(w) : n.kind = kind /\ n.name = name
         /\ Declares(w, kind, name) => /\ Latest(w, kind, name) \in Range(w)
                                       /\ Latest(w, kind, name).kind = kind /\ Latest(w, kind, name).name = name
<1> DEFINE I == {i \in DOMAIN w : w[i].kind = kind /\ w[i].name = name}
<1>1. Named(w, kind, name) = I
  BY DEF Named
<1>2. DOMAIN w = 1 .. Len(w) /\ Len(w) \in Nat /\ Range(w) = {w[i] : i \in 1 .. Len(w)}
  BY RangeIn
<1>3. Declares(w, kind, name) <=> \E n \in Range(w) : n.kind = kind /\ n.name = name
  BY <1>1, <1>2 DEF Declares
<1>4. ASSUME I # {} PROVE Max(I) \in I
  <2>1. I \in SUBSET (1 .. Len(w))
    BY <1>2
  <2> HIDE DEF I
  <2> QED BY <1>2, <1>4, <2>1, MaxOf
<1>5. ASSUME I # {} PROVE w[Max(I)] \in Range(w) /\ w[Max(I)].kind = kind /\ w[Max(I)].name = name
  BY <1>2, <1>4, <1>5
<1>6. Latest(w, kind, name) = w[Max(I)] /\ (Declares(w, kind, name) <=> I # {})
  BY <1>1 DEF Latest, Declares
<1> HIDE DEF I
<1> QED BY <1>3, <1>5, <1>6

LEMMA LatestSame ==
  ASSUME NEW T, NEW w \in Seq(T), NEW v \in Seq(T), Alike(w, v), NEW kind, NEW name
  PROVE  /\ Declares(v, kind, name) <=> Declares(w, kind, name)
         /\ kind \in {"fn", "record"} /\ Declares(w, kind, name) => Latest(v, kind, name) = Latest(w, kind, name)
<1>1. Range(v) = Range(w)
  BY DEF Alike
<1>2. Declares(v, kind, name) <=> Declares(w, kind, name)
  BY <1>1, LatestIs
<1>3. ASSUME kind \in {"fn", "record"}, Declares(w, kind, name) PROVE Latest(v, kind, name) = Latest(w, kind, name)
  <2> DEFINE m == Latest(v, kind, name)
             n == Latest(w, kind, name)
  <2>1. n \in Range(w) /\ n.kind = kind /\ n.name = name
    BY <1>3, LatestIs
  <2>2. m \in Range(v) /\ m.kind = kind /\ m.name = name
    BY <1>2, <1>3, LatestIs
  <2> HIDE DEF m, n
  <2>3. m = n
    BY <1>1, <1>3, <2>1, <2>2 DEF Alike
  <2> QED BY <2>3 DEF m, n
<1> QED BY <1>2, <1>3

(* What the types of a program can unfold to.                              *)
Types(nodes) ==
  {n.params[1].pred : n \in Range(nodes)} \cup UNION {{f.type.of : f \in Range(n.fields)} : n \in Range(nodes)}

LEMMA UnfoldsCases ==
  ASSUME NEW w, NEW p
  PROVE  LET Q == \E n \in Range(w) : n.kind = "fn" /\ n.isPredicate /\ n.name = p /\ n.params # <<>>
             R == Declares(w, "enum", stripPred(p)) \/ ~Declares(w, "record", stripPred(p))
         IN /\ p \in Primitive => Unfolds(w, p) = {}
            /\ p \notin Primitive /\ Q => Unfolds(w, p) = {Latest(w, "fn", p).params[1].pred}
            /\ p \notin Primitive /\ ~Q /\ R => Unfolds(w, p) = {}
            /\ p \notin Primitive /\ ~Q /\ ~R =>
                 Unfolds(w, p) = {f.type.of : f \in Range(Latest(w, "record", stripPred(p)).fields)}
<1> DEFINE Q == \E n \in Range(w) : n.kind = "fn" /\ n.isPredicate /\ n.name = p /\ n.params # <<>>
           R == Declares(w, "enum", stripPred(p)) \/ ~Declares(w, "record", stripPred(p))
           a == {Latest(w, "fn", p).params[1].pred}
           b == {f.type.of : f \in Range(Latest(w, "record", stripPred(p)).fields)}
<1>1. Unfolds(w, p) = IF p \in Primitive THEN {} ELSE IF Q THEN a ELSE IF R THEN {} ELSE b
  BY Zenon DEF Unfolds
<1> HIDE DEF Q, R, a, b
<1>2. /\ p \in Primitive => Unfolds(w, p) = {}
      /\ p \notin Primitive /\ Q => Unfolds(w, p) = a
      /\ p \notin Primitive /\ ~Q /\ R => Unfolds(w, p) = {}
      /\ p \notin Primitive /\ ~Q /\ ~R => Unfolds(w, p) = b
  BY <1>1, Zenon
<1> QED BY <1>2 DEF Q, R, a, b

LEMMA UnfoldsSame ==
  ASSUME NEW T, NEW w \in Seq(T), NEW v \in Seq(T), Alike(w, v), NEW p
  PROVE  Unfolds(v, p) = Unfolds(w, p) /\ Unfolds(w, p) \subseteq Types(w)
<1> DEFINE Q(x) == \E n \in Range(x) : n.kind = "fn" /\ n.isPredicate /\ n.name = p /\ n.params # <<>>
           R(x) == Declares(x, "enum", stripPred(p)) \/ ~Declares(x, "record", stripPred(p))
           a(x) == {Latest(x, "fn", p).params[1].pred}
           b(x) == {f.type.of : f \in Range(Latest(x, "record", stripPred(p)).fields)}
<1>1. Range(v) = Range(w)
  BY DEF Alike
<1>2. (Q(v) <=> Q(w)) /\ (R(v) <=> R(w))
  BY <1>1, LatestSame
<1>3. ASSUME Q(w) PROVE a(v) = a(w) /\ a(w) \subseteq Types(w)
  <2> DEFINE n == Latest(w, "fn", p)
  <2>1. Declares(w, "fn", p)
    BY <1>3, LatestIs
  <2>2. Latest(v, "fn", p) = n /\ n \in Range(w)
    BY <2>1, LatestSame, LatestIs
  <2> HIDE DEF n
  <2>3. {n.params[1].pred} \subseteq Types(w)
    BY <2>2 DEF Types
  <2> QED BY <2>2, <2>3 DEF n
<1>4. ASSUME ~R(w) PROVE b(v) = b(w) /\ b(w) \subseteq Types(w)
  <2> DEFINE n == Latest(w, "record", stripPred(p))
  <2>1. Declares(w, "record", stripPred(p))
    BY <1>4
  <2>2. Latest(v, "record", stripPred(p)) = n /\ n \in Range(w)
    BY <2>1, LatestSame, LatestIs
  <2> HIDE DEF n
  <2>3. {f.type.of : f \in Range(n.fields)} \subseteq Types(w)
    BY <2>2 DEF Types
  <2> QED BY <2>2, <2>3 DEF n
<1>5. ASSUME NEW x
      PROVE  /\ p \in Primitive => Unfolds(x, p) = {}
             /\ p \notin Primitive /\ Q(x) => Unfolds(x, p) = a(x)
             /\ p \notin Primitive /\ ~Q(x) /\ R(x) => Unfolds(x, p) = {}
             /\ p \notin Primitive /\ ~Q(x) /\ ~R(x) => Unfolds(x, p) = b(x)
  BY UnfoldsCases
<1> HIDE DEF Q, R, a, b
<1> QED BY <1>2, <1>3, <1>4, <1>5

-----------------------------------------------------------------------------
(* What predicates reach, step by step.                                    *)
Widens(w, seen) == seen \cup UNION {Unfolds(w, p) : p \in seen}

LEMMA WidensType ==
  ASSUME NEW U, NEW w, \A p : Unfolds(w, p) \subseteq U
  PROVE  \A seen \in SUBSET U : Widens(w, seen) \in SUBSET U
BY DEF Widens

ReachRun(U, w, preds, h) ==
  /\ h \in [0 .. Len(w) -> SUBSET U]
  /\ h[0] = preds
  /\ \A i \in 1 .. Len(w) : h[i] = Widens(w, h[i - 1])
  /\ Reaches(w, preds) = h[Len(w)]

LEMMA ReachRuns ==
  ASSUME NEW U, NEW T, NEW w \in Seq(T), \A p : Unfolds(w, p) \subseteq U, NEW preds \in SUBSET U
  PROVE  \E h : ReachRun(U, w, preds, h)
<1> DEFINE A == SUBSET U
           n == Len(w)
           step == [p \in A \X (1 .. n) |-> Widens(w, p[1])]
           Is(it) == it = [s \in SUBSET (1 .. n) |->
                             IF s = {} THEN preds ELSE Widens(w, it[s \ {Max(s)}])]
           F == CHOOSE it : Is(it)
<1>0. /\ n \in Nat /\ DOMAIN w = 1 .. n
      /\ \A i \in 1 .. n : w[i] \in T
  OBVIOUS
<1>1. Reaches(w, preds) = F[1 .. n]
  BY <1>0, Zenon DEF FoldLeft, MapThenFoldSet, Reaches, Widens
<1> HIDE DEF n
<1>b. preds \in A
  BY WidensType
<1>t. \A a \in A : \A x \in T : Widens(w, a) \in A
  BY WidensType
<1> HIDE DEF A
<1>2. step \in [A \X (1 .. n) -> A]
  <2>1. \A p \in A \X (1 .. n) : p[1] \in A /\ w[p[2]] \in T
    BY <1>0
  <2>2. \A p \in A \X (1 .. n) : Widens(w, p[1]) \in A
    BY <2>1, <1>t, Zenon
  <2> QED BY <2>2
<1>3. PICK g : Folds(n, A, preds, step, g)
  <2> HIDE DEF step
  <2> QED BY <1>0, <1>b, <1>2, FoldExists
<1>4. Is(g)
  <2>1. ASSUME NEW s \in SUBSET (1 .. n)
        PROVE  g[s] = IF s = {} THEN preds ELSE Widens(w, g[s \ {Max(s)}])
    <3>1. CASE s = {}
      BY <1>3, <3>1 DEF Folds
    <3>2. CASE s # {}
      <4>1. Max(s) \in 1 .. n /\ s \ {Max(s)} \in SUBSET (1 .. n)
        BY <1>0, <3>2, MaxOf
      <4>2. <<g[s \ {Max(s)}], Max(s)>> \in A \X (1 .. n)
        BY <1>3, <4>1 DEF Folds
      <4>3. step[<<g[s \ {Max(s)}], Max(s)>>] = Widens(w, g[s \ {Max(s)}])
        BY <4>2
      <4>4. g[s] = step[<<g[s \ {Max(s)}], Max(s)>>]
        BY <1>3, <3>2 DEF Folds
      <4> QED BY <3>2, <4>3, <4>4
    <3> QED BY <3>1, <3>2
  <2>2. DOMAIN g = SUBSET (1 .. n) /\ g = [s \in SUBSET (1 .. n) |-> g[s]]
    BY <1>3 DEF Folds
  <2> QED BY <2>1, <2>2, Zenon
<1>5. Is(F)
  <2> HIDE DEF Is
  <2> QED BY <1>4
<1> HIDE DEF F
<1> DEFINE h == [i \in 0 .. n |-> F[1 .. i]]
<1>6. h[0] = preds
  <2>1. 1 .. 0 = {} /\ {} \in SUBSET (1 .. n) /\ 0 \in 0 .. n
    BY <1>0
  <2> QED BY <1>5, <2>1
<1>7. ASSUME NEW i \in 1 .. n PROVE h[i] = Widens(w, h[i - 1])
  <2>1. i \in 0 .. n /\ i - 1 \in 0 .. n
    BY <1>0
  <2>2. h[i] = F[1 .. i] /\ h[i - 1] = F[1 .. (i - 1)]
    BY <2>1
  <2>3. /\ 1 .. i \in SUBSET (1 .. n) /\ 1 .. i # {}
        /\ Max(1 .. i) = i /\ (1 .. i) \ {i} = 1 .. (i - 1)
    BY <1>0, PrefixRange
  <2> HIDE DEF h
  <2>4. F[1 .. i] = Widens(w, F[1 .. (i - 1)])
    BY <1>5, <2>3
  <2> QED BY <2>2, <2>4
<1>8. h \in [0 .. n -> A]
  <2> DEFINE Inv == [i \in 0 .. n |-> A]
  <2>1. h[0] \in Inv[0]
    BY <1>0, <1>6, <1>b
  <2>2. ASSUME NEW i \in 1 .. n, h[i - 1] \in Inv[i - 1] PROVE h[i] \in Inv[i]
    <3>1. i \in 0 .. n /\ i - 1 \in 0 .. n /\ w[i] \in T
      BY <1>0
    <3>2. h[i - 1] \in A
      BY <2>2, <3>1
    <3>3. Widens(w, h[i - 1]) \in A
      BY <3>1, <3>2, <1>t, Zenon
    <3> QED BY <1>7, <3>1, <3>3
  <2> HIDE DEF h
  <2>3. \A i \in 0 .. n : h[i] \in Inv[i]
    <3> HIDE DEF Inv
    <3> QED BY <1>0, <2>1, <2>2, AlongTheChain
  <2> USE DEF h
  <2> QED BY <2>3
<1>9. n \in 0 .. n /\ h[n] = F[1 .. n]
  BY <1>0
<1> HIDE DEF h
<1> QED BY <1>0, <1>1, <1>6, <1>7, <1>8, <1>9 DEF ReachRun, n, A

LEMMA ReachesSame ==
  ASSUME NEW T, NEW w \in Seq(T), NEW v \in Seq(T), Alike(w, v), NEW preds
  PROVE  Reaches(v, preds) = Reaches(w, preds)
<1> DEFINE U == preds \cup Types(w)
           N == Len(w)
<1>1. \A p : Unfolds(v, p) = Unfolds(w, p) /\ Unfolds(w, p) \subseteq U
  BY UnfoldsSame
<1>2. preds \in SUBSET U /\ N \in Nat /\ Len(v) = N
  BY DEF Alike
<1> HIDE DEF U, N
<1>3. PICK h : ReachRun(U, w, preds, h)
  BY <1>1, <1>2, ReachRuns
<1>4. PICK g : ReachRun(U, v, preds, g)
  BY <1>1, <1>2, ReachRuns
<1>5. h[0] = preds /\ (\A i \in 1 .. N : h[i] = Widens(w, h[i - 1])) /\ Reaches(w, preds) = h[N]
  BY <1>3 DEF ReachRun, N
<1>6. g[0] = preds /\ (\A i \in 1 .. N : g[i] = Widens(v, g[i - 1])) /\ Reaches(v, preds) = g[N]
  BY <1>2, <1>4 DEF ReachRun
<1>7. \A seen : Widens(v, seen) = Widens(w, seen)
  BY <1>1 DEF Widens
<1> DEFINE Inv == [i \in 0 .. N |-> {h[i]}]
<1>8. g[0] \in Inv[0]
  BY <1>2, <1>5, <1>6
<1>9. ASSUME NEW i \in 1 .. N, g[i - 1] \in Inv[i - 1] PROVE g[i] \in Inv[i]
  <2>1. i \in 0 .. N /\ i - 1 \in 0 .. N
    BY <1>2
  <2>2. g[i - 1] = h[i - 1]
    BY <1>9, <2>1
  <2>3. g[i] = h[i]
    BY <1>5, <1>6, <1>7, <2>2
  <2> QED BY <2>1, <2>3
<1>10. \A i \in 0 .. N : g[i] \in Inv[i]
  <2> HIDE DEF Inv
  <2> QED BY <1>2, <1>8, <1>9, AlongTheChain
<1>11. N \in 0 .. N
  BY <1>2
<1> QED BY <1>5, <1>6, <1>10, <1>11

LEMMA SchemaEndsSame ==
  ASSUME NEW T, NEW w \in Seq(T), NEW v \in Seq(T), Alike(w, v), NEW pred
  PROVE  SchemaEnds(v, pred) <=> SchemaEnds(w, pred)
<1>1. /\ \A preds : Reaches(v, preds) = Reaches(w, preds)
      /\ \A p : Unfolds(v, p) = Unfolds(w, p)
  BY ReachesSame, UnfoldsSame
<1> QED BY <1>1, Zenon DEF SchemaEnds

LEMMA BuildsSame ==
  ASSUME NEW T, NEW w \in Seq(T), NEW v \in Seq(T), Alike(w, v), NEW n
  PROVE  Builds(v, n) <=> Builds(w, n)
<1>1. \A pred : SchemaEnds(v, pred) <=> SchemaEnds(w, pred)
  BY SchemaEndsSame
<1>2. \A kind, name : Declares(v, kind, name) <=> Declares(w, kind, name)
  BY LatestSame
<1>3. \A name : Declares(w, "record", name) => Latest(v, "record", name) = Latest(w, "record", name)
  BY LatestSame
<1>4. CASE n.kind = "grammar"
  <2>1. \A x : Builds(x, n) <=> validateGrammarSyntax(n) /\ validateGrammarSignature(n, x)
    BY <1>4, Zenon DEF Builds
  <2>2. validateGrammarSignature(n, v) <=> validateGrammarSignature(n, w)
    BY <1>2, Zenon DEF validateGrammarSignature
  <2> QED BY <2>1, <2>2
<1>5. CASE n.kind = "llmfn"
  <2> DEFINE type == n.returns
             base == stripPred(type.of)
  <2>1. \A x : Builds(x, n) <=> deriveProtocol(x, type)
    BY <1>5, Zenon DEF Builds
  <2> HIDE DEF type
  <2>2. \A record : deriveSchema(v, record) <=> deriveSchema(w, record)
    BY <1>1, Zenon DEF deriveSchema
  <2>3. \A x : /\ type.depth = 0 /\ Declares(x, "record", base) =>
                   (deriveProtocol(x, type) <=> deriveSchema(x, Latest(x, "record", base)))
               /\ ~(type.depth = 0 /\ Declares(x, "record", base)) => (deriveProtocol(x, type) <=> SchemaEnds(x, type.of))
    BY Zenon DEF deriveProtocol
  <2> HIDE DEF base
  <2>4. deriveProtocol(v, type) <=> deriveProtocol(w, type)
    <3>1. CASE type.depth = 0 /\ Declares(w, "record", base)
      <4>1. Latest(v, "record", base) = Latest(w, "record", base) /\ Declares(v, "record", base)
        BY <1>2, <1>3, <3>1
      <4> QED BY <2>2, <2>3, <3>1, <4>1
    <3>2. CASE ~(type.depth = 0 /\ Declares(w, "record", base))
      <4>1. ~(type.depth = 0 /\ Declares(v, "record", base))
        BY <1>2, <3>2
      <4> QED BY <1>1, <2>3, <3>2, <4>1
    <3> QED BY <3>1, <3>2
  <2> QED BY <2>1, <2>4
<1>6. CASE n.kind = "fn"
  <2>1. \A x : Builds(x, n) = IsJavaScript(n)
    BY <1>6, Zenon DEF Builds
  <2> QED BY <2>1
<1>7. CASE n.kind \notin {"fn", "grammar", "llmfn"}
  <2>1. \A x : Builds(x, n) = TRUE
    BY <1>7, Zenon DEF Builds
  <2> QED BY <2>1
<1> QED BY <1>4, <1>5, <1>6, <1>7

-----------------------------------------------------------------------------
(* A program is an unordered bag.                                          *)
LEMMA PreludeUnique ==
  \A m, n \in Range(Prelude) : m.name = n.name => m = n
<1>1. /\ Prelude \in Seq(Range(Prelude)) /\ IsInjective(PreludeNames) /\ PreludeNames \in Seq(Own)
      /\ Len(PreludeNames) = Len(Prelude) /\ \A i \in 1 .. Len(Prelude) : PreludeNames[i] = mangle(Prelude[i].name)
  BY PreludeIs
<1>2. Range(Prelude) = {Prelude[i] : i \in 1 .. Len(Prelude)}
  BY <1>1, RangeIn
<1>3. \A i, j \in 1 .. Len(Prelude) : PreludeNames[i] = PreludeNames[j] => i = j
  BY <1>1, InjectiveIs
<1> QED BY <1>1, <1>2, <1>3

LEMMA CombineSame ==
  ASSUME NEW D, NEW nodes \in Seq(D), NEW other \in Seq(D), Range(other) = Range(nodes)
  PROVE  combine(other).ok = combine(nodes).ok
<1>1. ASSUME NEW x \in Seq(D) PROVE combine(x).ok \in BOOLEAN
  <2>1. PICK h : CombineRun(D, x, h)
    BY CombineRuns
  <2>2. Len(x) \in 0 .. Len(x)
    OBVIOUS
  <2>3. combine(x) \in Combined(D)
    BY <2>1, <2>2 DEF CombineRun
  <2> QED BY <2>3 DEF Combined
<1>2. combine(nodes).ok <=> \A m, n \in Range(nodes) : registryKey(m) = registryKey(n) => m = n
  BY CombineIs
<1>3. combine(other).ok <=> \A m, n \in Range(other) : registryKey(m) = registryKey(n) => m = n
  BY CombineIs
<1>4. combine(nodes).ok \in BOOLEAN /\ combine(other).ok \in BOOLEAN
  BY <1>1
<1> QED BY <1>2, <1>3, <1>4

LEMMA EmitsSame ==
  ASSUME NEW D, NEW nodes \in Seq(D), NEW other \in Seq(D), Range(other) = Range(nodes)
  PROVE  emitJs(other).ok = emitJs(nodes).ok
<1>1. Range(OfKind(other, "fn")) = Range(OfKind(nodes, "fn"))
  <2>1. Range(OfKind(nodes, "fn")) = Range(nodes) \cap {n \in Range(nodes) : n.kind = "fn"}
    BY KeptIs DEF OfKind
  <2>2. Range(OfKind(other, "fn")) = Range(other) \cap {n \in Range(other) : n.kind = "fn"}
    BY KeptIs DEF OfKind
  <2> QED BY <2>1, <2>2
<1>2. combine(other).ok = combine(nodes).ok
  BY CombineSame
<1>3. /\ emitJs(nodes).ok \in BOOLEAN
      /\ emitJs(nodes).ok <=> combine(nodes).ok /\ \A n \in Range(OfKind(nodes, "fn")) : Compiles(n.body)
  BY EmitsWhenItCompiles
<1>4. /\ emitJs(other).ok \in BOOLEAN
      /\ emitJs(other).ok <=> combine(other).ok /\ \A n \in Range(OfKind(other, "fn")) : Compiles(n.body)
  BY EmitsWhenItCompiles
<1> QED BY <1>1, <1>2, <1>3, <1>4

LEMMA AlikeWhenCombined ==
  ASSUME NEW D, NEW nodes \in Seq(D), NEW other \in Seq(D),
         Range(other) = Range(nodes), Len(other) = Len(nodes), combine(nodes).ok
  PROVE  Alike(withPrelude(nodes), withPrelude(other))
<1> DEFINE w == withPrelude(nodes)
           v == withPrelude(other)
           free == Free(Range(nodes))
           T == Range(Prelude)
           E == D \cup T
<1>1. /\ Range(w) = free \cup Range(nodes) /\ free \subseteq T
      /\ Range(v) = Range(w)
  BY WithPreludeIs
<1>2. Len(v) = Len(w)
  <2>1. /\ w = FreeSeq(nodes) \o nodes /\ v = FreeSeq(other) \o other
        /\ FreeSeq(nodes) \in Seq(T)
    BY FreeIs
  <2>2. FreeSeq(other) = FreeSeq(nodes)
    <3>1. \A x : {x[i].name : i \in DOMAIN x} = {n.name : n \in Range(x)}
      BY DEF Range
    <3>2. {other[i].name : i \in DOMAIN other} = {nodes[i].name : i \in DOMAIN nodes}
      BY <3>1
    <3> QED BY <3>2, Zenon DEF FreeSeq
  <2>3. FreeSeq(nodes) \in Seq(E) /\ nodes \in Seq(E) /\ other \in Seq(E)
    BY <2>1, WiderSeq
  <2> HIDE DEF E, w, v
  <2>4. Len(w) = Len(FreeSeq(nodes)) + Len(nodes) /\ Len(v) = Len(FreeSeq(nodes)) + Len(other)
    <3> DEFINE F == FreeSeq(nodes)
    <3>1. F \in Seq(E) /\ nodes \in Seq(E) /\ other \in Seq(E) /\ w = F \o nodes /\ v = F \o other
      BY <2>1, <2>2, <2>3
    <3> HIDE DEF F
    <3>2. Len(F \o nodes) = Len(F) + Len(nodes) /\ Len(F \o other) = Len(F) + Len(other)
      BY <3>1, Joined
    <3> QED BY <3>1, <3>2 DEF F
  <2> QED BY <2>4
<1>3. \A m, n \in Range(nodes) : registryKey(m) = registryKey(n) => m = n
  BY CombineIs
<1>4. \A n : n.kind \in {"fn", "record"} => registryKey(n) = n.name
  BY Zenon DEF registryKey
<1>5. \A m \in free : m \in T /\ \A n \in Range(nodes) : m.name # n.name
  BY DEF Free
<1> HIDE DEF w, v, free, T
<1>6. ASSUME NEW m \in Range(w), NEW n \in Range(w), m.kind \in {"fn", "record"}, m.kind = n.kind, m.name = n.name PROVE m = n
  <2>1. CASE m \in Range(nodes) /\ n \in Range(nodes)
    BY <1>3, <1>4, <1>6, <2>1
  <2>2. CASE m \in free /\ n \in free
    BY <1>5, <1>6, <2>2, PreludeUnique DEF T
  <2>3. ~(m \in free /\ n \in Range(nodes)) /\ ~(n \in free /\ m \in Range(nodes))
    BY <1>5, <1>6
  <2> QED BY <1>1, <2>1, <2>2, <2>3
<1>7. Alike(w, v)
  BY <1>1, <1>2, <1>6, Zenon DEF Alike
<1> QED BY <1>7 DEF w, v

(* What the artifact has under its names, whatever the order.              *)
LEMMA LeavesSame ==
  ASSUME NEW D, \A n \in D : IsDeclaration(n), NEW nodes \in Seq(D), NEW other \in Seq(D),
         Range(other) = Range(nodes), Once(nodes), ~Hides(nodes)
  PROVE  Leaves(withPrelude(other)) = Leaves(withPrelude(nodes))
<1> DEFINE w == withPrelude(nodes)
           v == withPrelude(other)
           L == Leaves(w)
           M == Leaves(v)
           E == D \cup Range(Prelude)
           t == <<"true", "?">>
           K == KeysOf(Range(w))
<1>1. w \in Seq(E) /\ v \in Seq(E) /\ Range(v) = Range(w)
  BY WithPreludeIs
<1>2. (\A n \in E : IsDeclaration(n)) /\ (\A n \in Range(w) : IsDeclaration(n))
  <2>1. \A n \in E : IsDeclaration(n)
    BY PreludeDeclares
  <2> HIDE DEF E, w
  <2>2. Range(w) \subseteq E
    BY <1>1, RangeIn
  <2> QED BY <2>1, <2>2
<1>3. Unshared(w)
  BY ConstsOnce
<1>4. \A m, n \in Range(w) : ~Clash(m, n)
  BY Clashes
<1> HIDE DEF w, v, E
<1>5. /\ DOMAIN L = {t} \cup K /\ L = [k \in DOMAIN L |-> L[k]]
      /\ \A k \in K : \E n \in Range(w) : Owns(L, k, n)
      /\ t \notin K => L[t] = Native
  BY <1>1, <1>2, LeavesAre
<1>6. /\ DOMAIN M = {t} \cup K /\ M = [k \in DOMAIN M |-> M[k]]
      /\ \A k \in K : \E n \in Range(w) : Owns(M, k, n)
      /\ t \notin K => M[t] = Native
  <2> DEFINE J == KeysOf(Range(v))
  <2>1. J = K
    BY <1>1
  <2>2. /\ DOMAIN M = {t} \cup J /\ M = [k \in DOMAIN M |-> M[k]]
        /\ \A k \in J : \E n \in Range(v) : Owns(M, k, n)
        /\ t \notin J => M[t] = Native
    BY <1>1, <1>2, LeavesAre
  <2> QED BY <1>1, <2>1, <2>2
<1> HIDE DEF L, M, t, K
<1>7. ASSUME NEW k \in K PROVE L[k] = M[k]
  <2>1. PICK m \in Range(w) : Owns(L, k, m)
    BY <1>5
  <2>2. PICK n \in Range(w) : Owns(M, k, n)
    BY <1>6
  <2>3. k \in Range(emit(m).keys) /\ L[k] = m /\ k \in Range(emit(n).keys) /\ M[k] = n
    BY <2>1, <2>2 DEF Owns
  <2>4. \A x \in Names(m) : x \in Names(n) => m = n
    BY <1>3 DEF Unshared
  <2>5. m = n \/ (Clash(m, n) /\ k = n.name) \/ (Clash(n, m) /\ k = m.name)
    BY <1>2, <2>3, <2>4, OneOwner, Zenon
  <2> QED BY <1>4, <2>3, <2>5
<1>8. \A k \in {t} \cup K : L[k] = M[k]
  BY <1>5, <1>6, <1>7
<1>9. L = M
  BY <1>5, <1>6, <1>8
<1> QED BY <1>9 DEF L, M, w, v

LEMMA OrderDoesNotMatter ==
  ASSUME NEW D, \A n \in D : IsDeclaration(n), NEW nodes \in Seq(D)
  PROVE  OrderIndependent(nodes)
<1> SUFFICES ASSUME NEW other \in Rearranged(nodes)
             PROVE  /\ combine(other).ok = combine(nodes).ok /\ emitJs(other).ok = emitJs(nodes).ok
                    /\ emitJs(nodes).ok =>
                         SameArtifact(loadProgram(emitJs(nodes).code), loadProgram(emitJs(other).code), Hides(nodes))
  BY Zenon DEF OrderIndependent
<1> DEFINE w == withPrelude(nodes)
           v == withPrelude(other)
           E == D \cup Range(Prelude)
           code(x) == emitProgram(x)
           one == loadProgram(code(nodes))
           two == loadProgram(code(other))
<1>1. other \in Seq(D) /\ \E pi : Exchanges(nodes, other, pi)
  BY RearrangedIs
<1>2. PICK pi : Exchanges(nodes, other, pi)
  BY <1>1
<1>3. Exchanges(other, nodes, pi) /\ Len(other) = Len(nodes)
  <2>1. /\ Len(other) = Len(nodes) /\ pi \in [1 .. Len(nodes) -> 1 .. Len(nodes)]
        /\ \A i \in 1 .. Len(nodes) : pi[pi[i]] = i /\ other[i] = nodes[pi[i]]
    BY <1>2 DEF Exchanges
  <2>2. \A i \in 1 .. Len(nodes) : nodes[i] = other[pi[i]]
    <3> TAKE i \in 1 .. Len(nodes)
    <3>1. pi[i] \in 1 .. Len(nodes) /\ pi[pi[i]] = i
      BY <2>1
    <3> QED BY <2>1, <3>1
  <2> QED BY <2>1, <2>2 DEF Exchanges
<1>4. Range(other) = Range(nodes)
  BY <1>1, <1>2, ExchangedRange
<1>5. combine(other).ok = combine(nodes).ok
  BY <1>1, <1>4, CombineSame
<1>5a. /\ emitJs(other).ok = emitJs(nodes).ok
       /\ emitJs(nodes).ok => combine(nodes).ok /\ emitJs(nodes).code = code(nodes) /\ emitJs(other).code = code(other)
  BY <1>1, <1>4, EmitsSame, EmitsWhenItCompiles
<1> SUFFICES ASSUME combine(nodes).ok PROVE SameArtifact(one, two, Hides(nodes))
  BY <1>5, <1>5a
<1>6. Once(other) <=> Once(nodes)
  BY <1>1, <1>2, <1>3, ExchangedOnce
<1>7. w \in Seq(E) /\ v \in Seq(E) /\ Range(v) = Range(w)
  BY <1>1, <1>4, WithPreludeIs
<1>8. Alike(w, v)
  BY <1>1, <1>3, <1>4, AlikeWhenCombined
<1>9. code(nodes).nodes = w /\ code(other).nodes = v
  BY ArtifactIs
<1>10. (IsInjective(code(nodes).consts) <=> Once(nodes)) /\ (IsInjective(code(other).consts) <=> Once(other))
  BY <1>1, ConstsOnce
<1> HIDE DEF w, v, E, code
<1>11. /\ one.ok \in BOOLEAN /\ two.ok \in BOOLEAN
       /\ one.ok <=> IsInjective(code(nodes).consts) /\ \A n \in Range(w) : Builds(w, n)
       /\ two.ok <=> IsInjective(code(other).consts) /\ \A n \in Range(v) : Builds(v, n)
       /\ one.ok => one.leaves = Leaves(w)
       /\ two.ok => two.leaves = Leaves(v)
  BY <1>9, LoadIs
<1> HIDE DEF one, two
<1>12. \A n : Builds(v, n) <=> Builds(w, n)
  BY <1>7, <1>8, BuildsSame
<1>13. one.ok = two.ok
  BY <1>6, <1>7, <1>10, <1>11, <1>12
<1>14. ASSUME one.ok, ~Hides(nodes) PROVE one.leaves = two.leaves
  <2>1. Once(nodes)
    BY <1>10, <1>11, <1>14
  <2>2. Leaves(v) = Leaves(w)
    BY <1>1, <1>4, <1>14, <2>1, LeavesSame DEF w, v
  <2> QED BY <1>11, <1>13, <1>14, <2>2
<1> QED BY <1>13, <1>14 DEF SameArtifact

(* Whatever program a client writes: whether it merges, is emitted, loads, *)
(* and what the artifact has under each of its names does not change when  *)
(* two declarations change places - the names, unless a network is hidden  *)
(* by a function.  (combine.ts:5-23, defnetwork/emit.ts:22-28)             *)
THEOREM ProgramsAreBags == Spec => []BagOfDeclarations
<1>1. SourceOK => BagOfDeclarations
  BY NodesAre, OrderDoesNotMatter DEF BagOfDeclarations
<1> QED BY <1>1, ParsedIsSource, PTL

-----------------------------------------------------------------------------
(* The lines of a text.                                                    *)
LEMMA OpenType ==
  ASSUME NEW X, \A x \in X : x.inner \in Seq(X), NEW tag, NEW items \in Seq(X)
  PROVE  Open(tag, items) \in Seq(X)
<1> DEFINE part(item) == IF item.tag = tag THEN <<item>> ELSE item.inner
           parts == [i \in DOMAIN items |-> part(items[i])]
<1>1. DOMAIN items = 1 .. Len(items) /\ Len(items) \in Nat /\ \A i \in 1 .. Len(items) : items[i] \in X
  OBVIOUS
<1>2. \A x \in X : part(x) \in Seq(X)
  OBVIOUS
<1>3. parts \in Seq(Seq(X))
  <2> HIDE DEF part
  <2>1. \A i \in 1 .. Len(items) : part(items[i]) \in Seq(X)
    BY <1>1, <1>2
  <2> QED BY <1>1, <2>1
<1>4. Open(tag, items) = FlattenSeq(parts)
  BY DEF Open, Flat, Each
<1> HIDE DEF parts
<1> QED BY <1>3, <1>4, FlatRange

LEMMA OpenedType ==
  ASSUME NEW X, \A x \in X : x.inner \in Seq(X), NEW tag, NEW items \in Seq(X)
  PROVE  Opened(tag, items) \in Seq(X)
<1> DEFINE A == Seq(X)
           n == MaxNesting
           step == [p \in A \X (1 .. n) |-> Open(tag, p[1])]
           Is(it) == it = [s \in SUBSET (1 .. n) |->
                             IF s = {} THEN items ELSE Open(tag, it[s \ {Max(s)}])]
           F == CHOOSE it : Is(it)
<1>0. n \in Nat /\ DOMAIN Depths = 1 .. n /\ Len(Depths) = n
  BY NestingAssumption DEF Depths
<1>1. Opened(tag, items) = F[1 .. n]
  BY <1>0, Zenon DEF FoldLeft, MapThenFoldSet, Opened
<1> HIDE DEF n
<1>b. items \in A
  OBVIOUS
<1>t. \A a \in A : Open(tag, a) \in A
  BY OpenType
<1> HIDE DEF A
<1>2. step \in [A \X (1 .. n) -> A]
  <2>1. \A p \in A \X (1 .. n) : p[1] \in A
    BY <1>0
  <2>2. \A p \in A \X (1 .. n) : Open(tag, p[1]) \in A
    BY <2>1, <1>t, Zenon
  <2> QED BY <2>2
<1>3. PICK g : Folds(n, A, items, step, g)
  <2> HIDE DEF step
  <2> QED BY <1>0, <1>b, <1>2, FoldExists
<1>4. Is(g)
  <2>1. ASSUME NEW s \in SUBSET (1 .. n)
        PROVE  g[s] = IF s = {} THEN items ELSE Open(tag, g[s \ {Max(s)}])
    <3>1. CASE s = {}
      BY <1>3, <3>1 DEF Folds
    <3>2. CASE s # {}
      <4>1. Max(s) \in 1 .. n /\ s \ {Max(s)} \in SUBSET (1 .. n)
        BY <1>0, <3>2, MaxOf
      <4>2. <<g[s \ {Max(s)}], Max(s)>> \in A \X (1 .. n)
        BY <1>3, <4>1 DEF Folds
      <4>3. step[<<g[s \ {Max(s)}], Max(s)>>] = Open(tag, g[s \ {Max(s)}])
        BY <4>2
      <4>4. g[s] = step[<<g[s \ {Max(s)}], Max(s)>>]
        BY <1>3, <3>2 DEF Folds
      <4> QED BY <3>2, <4>3, <4>4
    <3> QED BY <3>1, <3>2
  <2>2. DOMAIN g = SUBSET (1 .. n) /\ g = [s \in SUBSET (1 .. n) |-> g[s]]
    BY <1>3 DEF Folds
  <2> QED BY <2>1, <2>2, Zenon
<1>5. Is(F)
  <2> HIDE DEF Is
  <2> QED BY <1>4
<1> HIDE DEF F
<1> DEFINE h == [i \in 0 .. n |-> F[1 .. i]]
<1>6. h[0] = items
  <2>1. 1 .. 0 = {} /\ {} \in SUBSET (1 .. n) /\ 0 \in 0 .. n
    BY <1>0
  <2> QED BY <1>5, <2>1
<1>7. ASSUME NEW i \in 1 .. n PROVE h[i] = Open(tag, h[i - 1])
  <2>1. i \in 0 .. n /\ i - 1 \in 0 .. n
    BY <1>0
  <2>2. h[i] = F[1 .. i] /\ h[i - 1] = F[1 .. (i - 1)]
    BY <2>1
  <2>3. /\ 1 .. i \in SUBSET (1 .. n) /\ 1 .. i # {}
        /\ Max(1 .. i) = i /\ (1 .. i) \ {i} = 1 .. (i - 1)
    BY <1>0, PrefixRange
  <2> HIDE DEF h
  <2>4. F[1 .. i] = Open(tag, F[1 .. (i - 1)])
    BY <1>5, <2>3
  <2> QED BY <2>2, <2>4
<1>8. h \in [0 .. n -> A]
  <2> DEFINE Inv == [i \in 0 .. n |-> A]
  <2>1. h[0] \in Inv[0]
    BY <1>0, <1>6, <1>b
  <2>2. ASSUME NEW i \in 1 .. n, h[i - 1] \in Inv[i - 1] PROVE h[i] \in Inv[i]
    <3>1. i \in 0 .. n /\ i - 1 \in 0 .. n
      BY <1>0
    <3>2. h[i - 1] \in A
      BY <2>2, <3>1
    <3>3. Open(tag, h[i - 1]) \in A
      BY <3>1, <3>2, <1>t, Zenon
    <3> QED BY <1>7, <3>1, <3>3
  <2> HIDE DEF h
  <2>3. \A i \in 0 .. n : h[i] \in Inv[i]
    <3> HIDE DEF Inv
    <3> QED BY <1>0, <2>1, <2>2, AlongTheChain
  <2> USE DEF h
  <2> QED BY <2>3
<1>9. n \in 0 .. n /\ h[n] = F[1 .. n]
  BY <1>0
<1> HIDE DEF h
<1> QED BY <1>1, <1>8, <1>9 DEF A


LEMMA DelimitedType ==
  ASSUME NEW X, \A x \in X : x.inner \in Seq(X), NEW items \in Seq(X)
  PROVE  Delimited(items) \in Seq(X)
<1> DEFINE rows == Found("row", items)
<1>1. Opened("row", items) \in Seq(X)
  BY OpenedType
<1>2. rows \in Seq(X)
  <2> DEFINE all == Opened("row", items)
  <2>1. rows = Kept(all, {item \in Range(all) : item.tag = "row"})
    BY DEF Found
  <2> HIDE DEF all, rows
  <2> QED BY <1>1, <2>1, KeptIs DEF all
<1>3. Delimited(items) = Kept(rows, {row \in Range(rows) : Len(row.inner) >= 2})
  BY DEF Delimited
<1> HIDE DEF rows
<1> QED BY <1>2, <1>3, KeptIs

-----------------------------------------------------------------------------
(* The columns of a text table.                                            *)
LEMMA SplitRowIs ==
  ASSUME NEW X, NEW row, row.inner \in Seq(X)
  PROVE  LET cells == splitRow(row) IN
         /\ cells \in Seq(X) /\ Len(cells) \in Nat /\ Len(cells) <= Len(row.inner)
         /\ \A i \in 1 .. Len(cells) : cells[i] = row.inner[i]
<1> DEFINE inner == row.inner
           shorter == SubSeq(inner, 1, Len(inner) - 1)
<1>1. splitRow(row) = IF inner # <<>> /\ Last(inner) = Blank THEN shorter ELSE inner
  BY DEF splitRow, Front
<1> HIDE DEF inner
<1>2. inner \in Seq(X) /\ Len(inner) \in Nat
  BY LenProperties DEF inner
<1>3. ASSUME inner # <<>>
      PROVE  /\ shorter \in Seq(X) /\ Len(shorter) = Len(inner) - 1 /\ Len(inner) >= 1
             /\ \A i \in 1 .. Len(shorter) : shorter[i] = inner[i]
  <2>1. Len(inner) >= 1
    BY <1>2, <1>3
  <2>2. /\ shorter \in Seq(X) /\ Len(shorter) = Len(inner) - 1
        /\ \A i \in 1 .. Len(shorter) : shorter[i] = inner[1 + i - 1]
    <3>1. \A i \in 1 .. (Len(inner) - 1) : inner[i] \in X /\ 1 + i - 1 = i
      BY <1>2
    <3> DEFINE m == Len(inner) - 1
    <3>2. m \in Int /\ m >= 0
      BY <1>2, <2>1
    <3> HIDE DEF m
    <3>3. 1 \in Int /\ (IF 1 <= m THEN m - 1 + 1 ELSE 0) = m /\ m - 1 + 1 = m
      BY <3>2
    <3>4. /\ SubSeq(inner, 1, m) \in Seq(X)
          /\ Len(SubSeq(inner, 1, m)) = IF 1 <= m THEN m - 1 + 1 ELSE 0
          /\ \A i \in 1 .. (m - 1 + 1) : SubSeq(inner, 1, m)[i] = inner[1 + i - 1]
      BY <3>1, <3>2, SubSeqProperties DEF m
    <3> QED BY <3>3, <3>4 DEF m, shorter
  <2> QED BY <1>2, <2>1, <2>2
<1> HIDE DEF shorter
<1>4. CASE inner # <<>> /\ Last(inner) = Blank
  BY <1>1, <1>2, <1>3, <1>4 DEF inner
<1>5. CASE ~(inner # <<>> /\ Last(inner) = Blank)
  BY <1>1, <1>2, <1>5 DEF inner
<1> QED BY <1>4, <1>5

(* A field has one header. *)
LEMMA HeaderIs ==
  ASSUME NEW t, NEW nodes, t.headers \in Seq(Range(t.headers)), validateTTable(t, nodes), NEW k \in DOMAIN t.headers
  PROVE  LET same == {i \in DOMAIN t.headers : t.headers[i].field = t.headers[k].field} IN
         same = {k} /\ Max(same) = k /\ k \in 1 .. Len(t.headers) /\ Len(t.headers) \in Nat
<1> DEFINE same    == {i \in DOMAIN t.headers : t.headers[i].field = t.headers[k].field}
           headers == [i \in DOMAIN t.headers |-> t.headers[i].field]
<1>1. DOMAIN t.headers = 1 .. Len(t.headers) /\ Len(t.headers) \in Nat
  BY LenProperties
<1>2. IsInjective(headers)
  BY DEF validateTTable
<1>3. \A i \in DOMAIN t.headers : t.headers[i].field = t.headers[k].field => i = k
  BY <1>2 DEF IsInjective
<1>4. same = {k}
  BY <1>3
<1> HIDE DEF same
<1>5. Max(same) = k
  <2>1. same \in SUBSET Int /\ k \in same /\ \A i \in same : i <= k
    BY <1>1, <1>4
  <2> QED BY <2>1, MaxIs
<1> QED BY <1>1, <1>4, <1>5 DEF same

(* Where a table looks for a field is where its header stands. *)
LEMMA ColumnIs ==
  ASSUME NEW X, NEW head \in Seq(X), NEW t, NEW nodes, t.headers \in Seq(Range(t.headers)),
         validateTTable(t, nodes), NEW k \in DOMAIN t.headers, ColumnOf(t, head, t.headers[k]) # {}
  PROVE  LET c == CHOOSE i \in ColumnOf(t, head, t.headers[k]) : TRUE IN
         /\ Positional(t) => c = k /\ c \in 1 .. Len(t.headers)
         /\ ~Positional(t) => c \in 1 .. Len(head) /\ <<head[c].tag>> = t.headers[k].text
<1> DEFINE columns == ColumnOf(t, head, t.headers[k])
           c == CHOOSE i \in columns : TRUE
           same == {i \in DOMAIN t.headers : t.headers[i].field = t.headers[k].field}
<1>1. columns = IF Positional(t) THEN {Max(same)}
                ELSE {i \in DOMAIN head : <<head[i].tag>> = t.headers[k].text /\ \A j \in 1..(i - 1) : head[j] # head[i]}
  BY Zenon DEF ColumnOf
<1>2. Max(same) = k /\ k \in 1 .. Len(t.headers)
  BY HeaderIs
<1>3. DOMAIN head = 1 .. Len(head)
  BY LenProperties
<1> HIDE DEF columns, same
<1>4. c \in columns
  BY DEF columns
<1> HIDE DEF c
<1>5. CASE Positional(t)
  <2>1. c = k
    BY <1>1, <1>2, <1>4, <1>5
  <2> QED BY <1>2, <1>5, <2>1 DEF c, columns
<1>6. CASE ~Positional(t)
  <2>1. c \in 1 .. Len(head) /\ <<head[c].tag>> = t.headers[k].text
    BY <1>1, <1>3, <1>4, <1>6
  <2> QED BY <1>6, <2>1 DEF c, columns
<1> QED BY <1>5, <1>6

-----------------------------------------------------------------------------
(* A text table keeps its rows.                                            *)
(* What a table makes of a line below its header. *)
Width(t, head) == IF Positional(t) THEN Len(t.headers) ELSE Len(splitRow(head))

ColumnsOf(t, head) ==
  [f \in {h.field : h \in Range(t.headers)} |->
     LET h == t.headers[Max({i \in DOMAIN t.headers : t.headers[i].field = f})]
     IN CHOOSE i \in ColumnOf(t, splitRow(head), h) : TRUE]

RowOf(t, nodes, head, line) ==
  IF Len(splitRow(line)) # Width(t, head) THEN Contradiction("ttable/malformed-row")
  ELSE Rec(t.row, [f \in {g.name : g \in Range(The(nodes, "record", t.row).fields)} |->
                     Text(<<IF f \in {h.field : h \in Range(t.headers)}
                            THEN splitRow(line)[ColumnsOf(t, head)[f]] ELSE Blank>>)])

\* Every header is found.
Headed(t, head) == \A h \in Range(t.headers) : ColumnOf(t, splitRow(head), h) # {}

LEMMA TableIs ==
  ASSUME NEW t, NEW nodes, NEW lines, TableOf(t, nodes, lines).is = "list"
  PROVE  /\ lines # <<>>
         /\ Headed(t, lines[1])
         /\ TableOf(t, nodes, lines).values =
              [i \in 1..(Len(lines) - 1) |-> RowOf(t, nodes, lines[1], lines[i + 1])]
<1> DEFINE values == [i \in 1..(Len(lines) - 1) |-> RowOf(t, nodes, lines[1], lines[i + 1])]
           missing == \E h \in Range(t.headers) : ColumnOf(t, splitRow(lines[1]), h) = {}
<1>1. TableOf(t, nodes, lines) =
        IF lines = <<>> THEN Contradiction("ttable/no-header")
        ELSE IF missing THEN Contradiction("ttable/header-mismatch")
        ELSE List(values)
  BY Zenon DEF TableOf, RowOf, Width, ColumnsOf
<1> HIDE DEF values
<1>2. \A type : Contradiction(type).is # "list"
  BY DEF Contradiction
<1>3. List(values).values = values
  BY DEF List
<1>4. lines # <<>> /\ ~missing
  BY <1>1, <1>2
<1>5. TableOf(t, nodes, lines).values = values
  BY <1>1, <1>3, <1>4
<1>6. Headed(t, lines[1])
  BY <1>4 DEF Headed
<1> QED BY <1>4, <1>5, <1>6 DEF values

LEMMA RowIsKept ==
  ASSUME NEW X, \A x \in X : x.inner \in Seq(X), NEW head \in X, NEW line \in X, NEW t, NEW nodes,
         t.headers \in Seq(Range(t.headers)), validateTTable(t, nodes), Headed(t, head)
  PROVE  RowKeeps(t, head, line, RowOf(t, nodes, head, line))
<1> DEFINE row   == RowOf(t, nodes, head, line)
           cells == splitRow(line)
           names == {g.name : g \in Range(The(nodes, "record", t.row).fields)}
           width == Width(t, head)
           value(f) == Text(<<IF f \in {h.field : h \in Range(t.headers)}
                              THEN cells[ColumnsOf(t, head)[f]] ELSE Blank>>)
<1>1. /\ cells \in Seq(X) /\ Len(cells) \in Nat
      /\ \A i \in 1 .. Len(cells) : cells[i] = line.inner[i]
  BY SplitRowIs
<1>2. /\ splitRow(head) \in Seq(X) /\ Len(splitRow(head)) \in Nat
      /\ \A i \in 1 .. Len(splitRow(head)) : splitRow(head)[i] = head.inner[i]
  BY SplitRowIs
<1>3. row = IF Len(cells) # width THEN Contradiction("ttable/malformed-row")
            ELSE Rec(t.row, [f \in names |-> value(f)])
  BY DEF RowOf
<1>4. (row.is = "contradiction") = (Len(cells) # width)
  <2> HIDE DEF row, cells, width, names, value
  <2> QED BY <1>3 DEF Contradiction, Rec
<1>5. ASSUME row.is = "record", NEW k \in DOMAIN t.headers
      PROVE  \E c \in 1..width :
               /\ row.fields[t.headers[k].field] = Text(<<line.inner[c]>>)
               /\ IF Positional(t) THEN c = k ELSE <<head.inner[c].tag>> = t.headers[k].text
  <2> DEFINE f == t.headers[k].field
             c == ColumnsOf(t, head)[f]
             mapped == {h.field : h \in Range(t.headers)}
  <2>1. Len(cells) = width
    BY <1>4, <1>5
  <2>2. t.headers[k] \in Range(t.headers) /\ f \in mapped
    BY DEF Range
  <2>3. f \in names
    <3>1. Range([i \in DOMAIN t.headers |-> t.headers[i].field]) = names
      BY DEF validateTTable
    <3>2. f \in Range([i \in DOMAIN t.headers |-> t.headers[i].field])
      BY DEF Range
    <3> QED BY <3>1, <3>2
  <2>4. row.fields[f] = Text(<<cells[c]>>)
    <3>1. row.fields = [g \in names |-> value(g)]
      <4> HIDE DEF names, value, cells, width, row
      <4> QED BY <1>3, <2>1 DEF Rec
    <3>2. value(f) = Text(<<cells[c]>>)
      BY <2>2
    <3> HIDE DEF names, value, row, cells, c, f
    <3> QED BY <2>3, <3>1, <3>2
  <2>5. c = CHOOSE i \in ColumnOf(t, splitRow(head), t.headers[k]) : TRUE
    <3>1. Max({i \in DOMAIN t.headers : t.headers[i].field = f}) = k
      BY HeaderIs
    <3>2. c = CHOOSE i \in ColumnOf(t, splitRow(head), t.headers[Max({i \in DOMAIN t.headers : t.headers[i].field = f})]) : TRUE
      BY <2>2, Zenon DEF ColumnsOf
    <3> QED BY <3>1, <3>2
  <2>6. /\ Positional(t) => c = k /\ c \in 1 .. Len(t.headers)
        /\ ~Positional(t) => c \in 1 .. Len(splitRow(head)) /\ <<splitRow(head)[c].tag>> = t.headers[k].text
    <3>1. ColumnOf(t, splitRow(head), t.headers[k]) # {}
      BY <2>2 DEF Headed
    <3> HIDE DEF c
    <3> QED BY <1>2, <2>5, <3>1, ColumnIs
  <2> HIDE DEF c
  <2>7. /\ c \in 1 .. width
        /\ IF Positional(t) THEN c = k ELSE <<head.inner[c].tag>> = t.headers[k].text
    BY <1>2, <2>6 DEF Width
  <2>8. cells[c] = line.inner[c]
    BY <1>1, <2>1, <2>7
  <2> HIDE DEF f, cells, width, row
  <2> QED BY <2>4, <2>7, <2>8 DEF f
<1>6. width = IF Positional(t) THEN Len(t.headers) ELSE Len(splitRow(head))
  BY DEF Width
<1> HIDE DEF row, cells, width
<1>7. /\ (row.is = "contradiction") = (Len(splitRow(line)) # width)
      /\ row.is = "record" => \A k \in DOMAIN t.headers : \E c \in 1..width :
           /\ row.fields[t.headers[k].field] = Text(<<line.inner[c]>>)
           /\ IF Positional(t) THEN c = k ELSE <<head.inner[c].tag>> = t.headers[k].text
  BY <1>4, <1>5 DEF cells
<1> QED BY <1>6, <1>7, Zenon DEF RowKeeps, row

LEMMA LinesAreKept ==
  ASSUME NEW X, \A x \in X : x.inner \in Seq(X), NEW lines \in Seq(X), NEW t, NEW nodes,
         t.headers \in Seq(Range(t.headers)), validateTTable(t, nodes)
  PROVE  AllRowsKeep(t, lines, TableOf(t, nodes, lines))
<1> DEFINE r == TableOf(t, nodes, lines)
           n == Len(lines) - 1
<1>1. ASSUME r.is = "list"
      PROVE  /\ Len(r.values) = Len(lines) - 1
             /\ \A i \in DOMAIN r.values : RowKeeps(t, lines[1], lines[i + 1], r.values[i])
  <2>1. /\ lines # <<>>
        /\ Headed(t, lines[1])
        /\ r.values = [i \in 1..(Len(lines) - 1) |-> RowOf(t, nodes, lines[1], lines[i + 1])]
    BY <1>1, TableIs
  <2>2. n \in Nat /\ Len(lines) >= 1 /\ lines[1] \in X /\ \A i \in 1 .. n : lines[i + 1] \in X
    BY <2>1
  <2> HIDE DEF r
  <2>3. DOMAIN r.values = 1 .. n /\ \A i \in 1 .. n : r.values[i] = RowOf(t, nodes, lines[1], lines[i + 1])
    BY <2>1
  <2>4. Len(r.values) = n
    <3> HIDE DEF n
    <3> QED BY <2>1, <2>2, <2>3 DEF n
  <2>5. ASSUME NEW i \in 1 .. n PROVE RowKeeps(t, lines[1], lines[i + 1], r.values[i])
    <3>1. lines[1] \in X /\ lines[i + 1] \in X
      BY <2>2
    <3>2. RowKeeps(t, lines[1], lines[i + 1], RowOf(t, nodes, lines[1], lines[i + 1]))
      BY <2>1, <3>1, RowIsKept
    <3> QED BY <2>3, <3>2
  <2> QED BY <2>3, <2>4, <2>5
<1> HIDE DEF r
<1> QED BY <1>1, Zenon DEF AllRowsKeep, r

LEMMA RowsAreKept ==
  ASSUME NEW X, \A x \in X : x.inner \in Seq(X), NEW items \in Seq(X), NEW t, NEW nodes,
         t.headers \in Seq(Range(t.headers))
  PROVE  RowsKeepTheirColumns(t, nodes, items)
<1>1. Delimited(items) \in Seq(X)
  BY DelimitedType
<1>2. compileTTable(t, nodes, items) = TableOf(t, nodes, Delimited(items))
  BY DEF compileTTable
<1> QED BY <1>1, <1>2, LinesAreKept DEF RowsKeepTheirColumns

LEMMA TablesAreKept ==
  ASSUME SourceOK
  PROVE  TablesKeepTheirRows
<1> SUFFICES ASSUME NEW text \in me.texts, NEW t \in Range(OfKind(Nodes, "ttable"))
             PROVE  RowsKeepTheirColumns(t, Nodes, text)
  BY DEF TablesKeepTheirRows
<1>1. IsText(text)
  BY TextsAssumption DEF SourceOK, me
<1>2. /\ text \in Seq(Parts(text))
      /\ \A item \in Parts(text) : item.inner \in Seq(Parts(text))
  BY <1>1 DEF IsText
<1>3. t.headers \in Seq(Range(t.headers))
  <2>1. Nodes \in Seq(Declarations(client)) /\ \A n \in Declarations(client) : IsDeclaration(n)
    BY NodesAre
  <2> DEFINE s == Nodes
  <2> HIDE DEF s
  <2>2. t \in Range(s) /\ t.kind = "ttable"
    BY <2>1, OfKindAre DEF s
  <2>3. IsDeclaration(t)
    BY <2>1, <2>2, RangeIn DEF s
  <2> QED BY <2>2, <2>3 DEF IsDeclaration, IsSequence
<1> QED BY <1>2, <1>3, RowsAreKept

(* Whatever text a table is read from: every line below the header gives a *)
(* row, in order, with the cell below the header of a field under that     *)
(* field, or, if it is of another width, a contradiction in its place: a   *)
(* row is not lost, moved or padded.  (ttable-runtime.ts:50)               *)
THEOREM TablesAreRead == Spec => []TablesKeepTheirRows
<1>1. SourceOK => TablesKeepTheirRows
  BY TablesAreKept
<1> QED BY <1>1, ParsedIsSource, PTL

=============================================================================
