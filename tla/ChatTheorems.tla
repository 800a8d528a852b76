---------------------------- MODULE ChatTheorems ----------------------------
(***************************************************************************)
(* What holds of the chat for any number of pages, files and turns, and    *)
(* whatever is lost on the way.                                            *)
(*                                                                         *)
(* Hearing frames, saying messages and the calls in flight come first: a   *)
(* page that hears a list of frames, two pages that hear the same ones,    *)
(* and the call that goes, comes or changes.  Then every handler is read   *)
(* once, for the types, and what it does to calls, page and streams is     *)
(* kept in a lemma (HandleChatIs, AnswerFilesIs, ...).  The five           *)
(* invariants follow from those lemmas, each from one of its own: of page  *)
(* q a step either leaves all alone that the invariant speaks of (Stays),  *)
(* or makes it true (Sound).                                               *)
(***************************************************************************)
EXTENDS Chat, TLAPS, SequenceTheorems, FiniteSetTheorems

Lemmas == INSTANCE InfoStructureTheorems WITH Value <- {}, Field <- {}

-----------------------------------------------------------------------------
(* Hearing frames one after the other.                                     *)

Hears(h, s, frames) ==
  h = [k \in 0 .. Len(frames) |->
         IF k = 0 THEN s ELSE HearConversation(h[k - 1], frames[k])]

LEMMA HearingExists ==
  ASSUME NEW s, NEW frames, Len(frames) \in Nat
  PROVE  \E h : Hears(h, s, frames) /\ HearAll(s, frames) = h[Len(frames)]
<1> DEFINE Is(g, m) ==
             g = [k \in 0 .. m |-> IF k = 0 THEN s ELSE HearConversation(g[k - 1], frames[k])]
           S == {m \in Nat : \E g : Is(g, m)}
<1>1. 0 \in S
  <2>1. Is([k \in 0 .. 0 |-> s], 0)
    OBVIOUS
  <2> QED BY <2>1
<1>2. ASSUME NEW m \in S PROVE m + 1 \in S
  <2>1. PICK g : Is(g, m)
    OBVIOUS
  <2> DEFINE h == [k \in 0 .. (m + 1) |->
                     IF k = m + 1 THEN HearConversation(g[m], frames[m + 1]) ELSE g[k]]
  <2>2. \A k \in 0 .. m : h[k] = g[k]
    OBVIOUS
  <2>3. ASSUME NEW k \in 0 .. (m + 1)
        PROVE  h[k] = IF k = 0 THEN s ELSE HearConversation(h[k - 1], frames[k])
    <3>1. CASE k = m + 1
      BY <3>1, <2>2
    <3>2. CASE k # m + 1
      <4>1. k \in 0 .. m /\ h[k] = g[k] /\ (k # 0 => k - 1 \in 0 .. m /\ h[k - 1] = g[k - 1])
        BY <3>2, <2>2
      <4>2. g[k] = IF k = 0 THEN s ELSE HearConversation(g[k - 1], frames[k])
        BY <2>1, <4>1
      <4> QED BY <4>1, <4>2
    <3> QED BY <3>1, <3>2
  <2>4. Is(h, m + 1)
    <3>1. h = [k \in 0 .. (m + 1) |-> h[k]]
      OBVIOUS
    <3> HIDE DEF h
    <3> QED BY <2>3, <3>1
  <2>5. m + 1 \in Nat
    OBVIOUS
  <2> HIDE DEF Is, h
  <2> QED BY <2>4, <2>5
<1>3. S = Nat
  <2>1. S \in SUBSET Nat
    OBVIOUS
  <2> HIDE DEF S
  <2> QED BY <1>1, <1>2, <2>1, Lemmas!Induction
<1>4. \E g : Is(g, Len(frames))
  <2> HIDE DEF Is
  <2> QED BY <1>3
<1>5. \E g : Hears(g, s, frames)
  BY <1>4 DEF Hears
<1> DEFINE c == CHOOSE g : Hears(g, s, frames)
<1>6. Hears(c, s, frames)
  BY <1>5
<1>7. HearAll(s, frames) = c[Len(frames)]
  BY Zenon DEF HearAll, Hears
<1> QED BY <1>6, <1>7

(* Two hearings of the same frames stay related as long as every single    *)
(* frame keeps them so; R relates a position and the two states there.     *)
LEMMA HearTogether ==
  ASSUME NEW frames, Len(frames) \in Nat, NEW s, NEW t, NEW R,
         <<0, s, t>> \in R,
         \A k \in 1 .. Len(frames) : \A a, b :
            <<k - 1, a, b>> \in R =>
              <<k, HearConversation(a, frames[k]), HearConversation(b, frames[k])>> \in R
  PROVE  <<Len(frames), HearAll(s, frames), HearAll(t, frames)>> \in R
<1>1. PICK g : Hears(g, s, frames) /\ HearAll(s, frames) = g[Len(frames)]
  BY HearingExists
<1>2. PICK h : Hears(h, t, frames) /\ HearAll(t, frames) = h[Len(frames)]
  BY HearingExists
<1>3. g[0] = s /\ h[0] = t
  BY <1>1, <1>2 DEF Hears
<1>4. ASSUME NEW k \in 1 .. Len(frames)
      PROVE  /\ g[k] = HearConversation(g[k - 1], frames[k])
             /\ h[k] = HearConversation(h[k - 1], frames[k])
  <2>1. k \in 0 .. Len(frames) /\ k # 0
    OBVIOUS
  <2>2. g[k] = HearConversation(g[k - 1], frames[k])
    BY <2>1, <1>1 DEF Hears
  <2>3. h[k] = HearConversation(h[k - 1], frames[k])
    BY <2>1, <1>2 DEF Hears
  <2> QED BY <2>2, <2>3
<1> DEFINE S == {k \in Nat : k <= Len(frames) => <<k, g[k], h[k]>> \in R}
<1>5. 0 \in S
  BY <1>3
<1>6. ASSUME NEW k \in S PROVE k + 1 \in S
  <2> SUFFICES ASSUME k + 1 <= Len(frames) PROVE <<k + 1, g[k + 1], h[k + 1]>> \in R
    OBVIOUS
  <2> DEFINE j == k + 1
  <2>1. j \in 1 .. Len(frames) /\ j - 1 = k /\ <<k, g[k], h[k]>> \in R
    OBVIOUS
  <2> HIDE DEF j
  <2>2. <<j, HearConversation(g[k], frames[j]), HearConversation(h[k], frames[j])>> \in R
    BY <2>1
  <2>3. g[j] = HearConversation(g[k], frames[j]) /\ h[j] = HearConversation(h[k], frames[j])
    BY <2>1, <1>4
  <2>4. <<j, g[j], h[j]>> \in R
    BY <2>2, <2>3
  <2> QED BY <2>4 DEF j
<1>7. S = Nat
  <2>1. S \in SUBSET Nat
    OBVIOUS
  <2> HIDE DEF S
  <2> QED BY <1>5, <1>6, <2>1, Lemmas!Induction
<1>8. <<Len(frames), g[Len(frames)], h[Len(frames)]>> \in R
  BY <1>7
<1> QED BY <1>1, <1>2, <1>8

LEMMA HearNothing ==
  ASSUME NEW s
  PROVE  HearAll(s, <<>>) = s
<1>1. PICK h : Hears(h, s, <<>>) /\ HearAll(s, <<>>) = h[Len(<<>>)]
  BY HearingExists
<1> QED BY <1>1 DEF Hears

(* One more frame at the end ... *)
LEMMA HearOneMore ==
  ASSUME NEW F, NEW frames \in Seq(F), NEW f \in F, NEW s
  PROVE  HearAll(s, Append(frames, f)) = HearConversation(HearAll(s, frames), f)
<1> DEFINE more == Append(frames, f)
<1>1. Len(frames) \in Nat /\ Len(more) = Len(frames) + 1 /\ more[Len(frames) + 1] = f
      /\ \A k \in 1 .. Len(frames) : more[k] = frames[k]
  BY AppendProperties, LenProperties
<1> HIDE DEF more
<1>2. PICK g : Hears(g, s, frames) /\ HearAll(s, frames) = g[Len(frames)]
  BY <1>1, HearingExists
<1>3. PICK h : Hears(h, s, more) /\ HearAll(s, more) = h[Len(more)]
  BY <1>1, HearingExists
<1> DEFINE S == {k \in Nat : k <= Len(frames) => h[k] = g[k]}
<1>4. 0 \in S
  BY <1>1, <1>2, <1>3 DEF Hears
<1>5. ASSUME NEW k \in S PROVE k + 1 \in S
  <2> SUFFICES ASSUME k + 1 <= Len(frames) PROVE h[k + 1] = g[k + 1]
    OBVIOUS
  <2>1. k + 1 \in 1 .. Len(frames) /\ k + 1 \in 0 .. Len(frames) /\ k + 1 \in 0 .. Len(more)
        /\ k + 1 # 0 /\ (k + 1) - 1 = k /\ h[k] = g[k]
    BY <1>1
  <2>2. h[k + 1] = HearConversation(h[k], more[k + 1]) /\ more[k + 1] = frames[k + 1]
    BY <2>1, <1>1, <1>3 DEF Hears
  <2>3. g[k + 1] = HearConversation(g[k], frames[k + 1])
    BY <2>1, <1>2 DEF Hears
  <2> QED BY <2>1, <2>2, <2>3
<1>6. S = Nat
  <2>1. S \in SUBSET Nat
    OBVIOUS
  <2> HIDE DEF S
  <2> QED BY <1>4, <1>5, <2>1, Lemmas!Induction
<1>7. h[Len(frames)] = g[Len(frames)]
  BY <1>1, <1>6
<1>8. h[Len(frames) + 1] = HearConversation(h[Len(frames)], f)
  BY <1>1, <1>3 DEF Hears
<1> QED BY <1>1, <1>2, <1>3, <1>7, <1>8 DEF more

(* ... and the first of them. *)
LEMMA HearFirst ==
  ASSUME NEW F, NEW frames \in Seq(F), frames # <<>>, NEW s
  PROVE  HearAll(s, frames) = HearAll(HearConversation(s, Head(frames)), Tail(frames))
<1> DEFINE n == Len(frames)
           rest == Tail(frames)
           t == HearConversation(s, Head(frames))
<1>1. n \in Nat /\ n >= 1 /\ Len(rest) = n - 1 /\ Head(frames) = frames[1]
      /\ \A k \in 1 .. (n - 1) : rest[k] = frames[k + 1]
  BY HeadTailProperties, LenProperties, EmptySeq
<1> HIDE DEF n, rest, t
<1>2. PICK g : Hears(g, s, frames) /\ HearAll(s, frames) = g[n]
  BY <1>1, HearingExists DEF n
<1>3. PICK h : Hears(h, t, rest) /\ HearAll(t, rest) = h[n - 1]
  BY <1>1, HearingExists
<1> DEFINE S == {k \in Nat : k <= n - 1 => g[k + 1] = h[k]}
<1>4. 0 \in S
  <2>1. g[1] = HearConversation(g[0], frames[1]) /\ g[0] = s
    BY <1>1, <1>2 DEF Hears, n
  <2>2. h[0] = t
    BY <1>1, <1>3 DEF Hears
  <2> QED BY <1>1, <2>1, <2>2 DEF t
<1>5. ASSUME NEW k \in S PROVE k + 1 \in S
  <2> SUFFICES ASSUME k + 1 <= n - 1 PROVE g[(k + 1) + 1] = h[k + 1]
    OBVIOUS
  <2>1. k + 1 \in 1 .. (n - 1) /\ k + 1 \in 0 .. (n - 1) /\ k + 1 # 0 /\ (k + 1) - 1 = k
        /\ (k + 1) + 1 \in 0 .. n /\ (k + 1) + 1 # 0 /\ ((k + 1) + 1) - 1 = k + 1
        /\ g[k + 1] = h[k]
    BY <1>1
  <2>2. h[k + 1] = HearConversation(h[k], rest[k + 1])
    BY <2>1, <1>1, <1>3 DEF Hears
  <2>3. g[(k + 1) + 1] = HearConversation(g[k + 1], frames[(k + 1) + 1])
    BY <2>1, <1>2 DEF Hears, n
  <2>4. rest[k + 1] = frames[(k + 1) + 1]
    BY <1>1, <2>1
  <2> QED BY <2>1, <2>2, <2>3, <2>4
<1>6. S = Nat
  <2>1. S \in SUBSET Nat
    OBVIOUS
  <2> HIDE DEF S
  <2> QED BY <1>4, <1>5, <2>1, Lemmas!Induction
<1>7. g[(n - 1) + 1] = h[n - 1]
  BY <1>1, <1>6
<1> QED BY <1>1, <1>2, <1>3, <1>7 DEF t, rest

-----------------------------------------------------------------------------
(* What messages say of the conversation, one message after the other.     *)

Says(h, messages) ==
  h = [k \in 0 .. Len(messages) |->
         IF k = 0 THEN <<>>
         ELSE IF messages[k].of = Local THEN h[k - 1]
         ELSE Append(h[k - 1], messages[k])]

LEMMA SayingExists ==
  ASSUME NEW messages, Len(messages) \in Nat
  PROVE  \E h : Says(h, messages) /\ Conversation(messages) = h[Len(messages)]
<1> DEFINE Next1(x, k) == IF messages[k].of = Local THEN x ELSE Append(x, messages[k])
           Is(g, m) == g = [k \in 0 .. m |-> IF k = 0 THEN <<>> ELSE Next1(g[k - 1], k)]
           S == {m \in Nat : \E g : Is(g, m)}
<1>1. 0 \in S
  <2>1. Is([k \in 0 .. 0 |-> <<>>], 0)
    OBVIOUS
  <2> QED BY <2>1
<1>2. ASSUME NEW m \in S PROVE m + 1 \in S
  <2> HIDE DEF Next1
  <2>1. PICK g : Is(g, m)
    OBVIOUS
  <2> DEFINE h == [k \in 0 .. (m + 1) |-> IF k = m + 1 THEN Next1(g[m], m + 1) ELSE g[k]]
  <2>2. \A k \in 0 .. m : h[k] = g[k]
    OBVIOUS
  <2>3. ASSUME NEW k \in 0 .. (m + 1)
        PROVE  h[k] = IF k = 0 THEN <<>> ELSE Next1(h[k - 1], k)
    <3>1. CASE k = m + 1
      BY <3>1, <2>2
    <3>2. CASE k # m + 1
      <4>1. k \in 0 .. m /\ h[k] = g[k] /\ (k # 0 => k - 1 \in 0 .. m /\ h[k - 1] = g[k - 1])
        BY <3>2, <2>2
      <4>2. g[k] = IF k = 0 THEN <<>> ELSE Next1(g[k - 1], k)
        BY <2>1, <4>1
      <4> QED BY <4>1, <4>2
    <3> QED BY <3>1, <3>2
  <2>4. Is(h, m + 1)
    <3>1. h = [k \in 0 .. (m + 1) |-> h[k]]
      OBVIOUS
    <3> HIDE DEF h
    <3> QED BY <2>3, <3>1
  <2>5. m + 1 \in Nat
    OBVIOUS
  <2> HIDE DEF Is, h
  <2> QED BY <2>4, <2>5
<1>3. S = Nat
  <2>1. S \in SUBSET Nat
    OBVIOUS
  <2> HIDE DEF S
  <2> QED BY <1>1, <1>2, <2>1, Lemmas!Induction
<1>4. \E g : Is(g, Len(messages))
  <2> HIDE DEF Is
  <2> QED BY <1>3
<1>5. \E g : Says(g, messages)
  BY <1>4 DEF Says
<1> DEFINE c == CHOOSE g : Says(g, messages)
<1>6. Says(c, messages)
  BY <1>5
<1>7. Conversation(messages) = c[Len(messages)]
  BY Zenon DEF Conversation, Says
<1> QED BY <1>6, <1>7

LEMMA SayNothing == Conversation(<<>>) = <<>>
<1>1. PICK h : Says(h, <<>>) /\ Conversation(<<>>) = h[Len(<<>>)]
  BY SayingExists
<1> QED BY <1>1 DEF Says

(* A note of the page itself says nothing, any other message is the last   *)
(* one said.                                                               *)
LEMMA SayOneMore ==
  ASSUME NEW M, NEW messages \in Seq(M), NEW m \in M
  PROVE  Conversation(Append(messages, m)) =
           IF m.of = Local THEN Conversation(messages) ELSE Append(Conversation(messages), m)
<1> DEFINE more == Append(messages, m)
           n == Len(messages)
<1>1. n \in Nat /\ Len(more) = n + 1 /\ more[n + 1] = m
      /\ \A k \in 1 .. n : more[k] = messages[k]
  BY AppendProperties, LenProperties
<1> HIDE DEF more, n
<1>2. PICK g : Says(g, messages) /\ Conversation(messages) = g[n]
  BY <1>1, SayingExists DEF n
<1>3. PICK h : Says(h, more) /\ Conversation(more) = h[n + 1]
  BY <1>1, SayingExists
<1> DEFINE S == {k \in Nat : k <= n => h[k] = g[k]}
<1>4. 0 \in S
  BY <1>1, <1>2, <1>3 DEF Says, n
<1>5. ASSUME NEW k \in S PROVE k + 1 \in S
  <2> SUFFICES ASSUME k + 1 <= n PROVE h[k + 1] = g[k + 1]
    OBVIOUS
  <2> DEFINE j == k + 1
  <2>1. j \in 1 .. n /\ j \in 0 .. n /\ j \in 0 .. (n + 1)
        /\ j # 0 /\ j - 1 = k /\ h[k] = g[k]
    BY <1>1
  <2> HIDE DEF j
  <2>2. more[j] = messages[j]
    BY <2>1, <1>1
  <2>3. h[j] = IF more[j].of = Local THEN h[k] ELSE Append(h[k], more[j])
    BY <2>1, <1>1, <1>3 DEF Says
  <2>4. g[j] = IF messages[j].of = Local THEN g[k] ELSE Append(g[k], messages[j])
    BY <2>1, <1>2 DEF Says, n
  <2> QED BY <2>1, <2>2, <2>3, <2>4 DEF j
<1>6. S = Nat
  <2>1. S \in SUBSET Nat
    OBVIOUS
  <2> HIDE DEF S
  <2> QED BY <1>4, <1>5, <2>1, Lemmas!Induction
<1>7. h[n] = g[n]
  BY <1>1, <1>6
<1>8. h[n + 1] = IF m.of = Local THEN h[n] ELSE Append(h[n], m)
  <2>1. n + 1 \in 0 .. (n + 1) /\ n + 1 # 0 /\ (n + 1) - 1 = n
    BY <1>1
  <2> DEFINE j == n + 1
  <2> HIDE DEF j
  <2>2. h[j] = IF more[j].of = Local THEN h[j - 1] ELSE Append(h[j - 1], more[j])
    BY <2>1, <1>1, <1>3 DEF Says, j
  <2> QED BY <2>1, <2>2, <1>1 DEF j
<1> QED BY <1>2, <1>3, <1>7, <1>8 DEF more

-----------------------------------------------------------------------------
(* The records of the model.                                               *)

Note == [role : Roles, of : Nat]

Viewer == [open : BOOLEAN, file : {<<>>} \cup File, loading : BOOLEAN,
           failed : BOOLEAN, text : {<<>>} \cup (File \X Nat)]

State == [messages : Seq(Note), status : {"idle", "working"}, traces : Seq(Nat),
          files : [File -> Nat], upload : [busy : BOOLEAN, failed : BOOLEAN],
          viewer : Viewer]

SaidFrame == [type : {"user", "message", "error", "trace"}, of : Nat \ {0}]
Frame == SaidFrame \cup [type : {"status"}, state : {"idle", "working"}]
                   \cup [type : {"reset", "workspace"}]

LEMMA FrameCases ==
  ASSUME NEW f \in Frame
  PROVE  \/ f.type \in {"user", "message", "error", "trace"} /\ f.of \in Nat /\ f.of # 0
         \/ f.type = "status" /\ f.state \in {"idle", "working"}
         \/ f.type \in {"reset", "workspace"}
BY DEF Frame, SaidFrame

LEMMA HearCases ==
  ASSUME NEW s, NEW f
  PROVE  /\ f.type = "user" => HearConversation(s, f) = AddMessage(s, "user", f.of)
         /\ f.type = "message" => HearConversation(s, f) = AddMessage(s, "assistant", f.of)
         /\ f.type = "error" => HearConversation(s, f) = AddMessage(s, "error", f.of)
         /\ f.type = "status" => HearConversation(s, f) = StatusChanged(s, f.state)
         /\ f.type = "trace" => HearConversation(s, f) = [s EXCEPT !.traces = Append(@, f.of)]
         /\ f.type = "reset" => HearConversation(s, f) = ConversationReset(s)
         /\ f.type = "workspace" => HearConversation(s, f) = s
<1>1. f.type = "user" => HearConversation(s, f) = AddMessage(s, "user", f.of)
  BY Zenon DEF HearConversation
<1>2. f.type = "message" => HearConversation(s, f) = AddMessage(s, "assistant", f.of)
  BY Zenon DEF HearConversation
<1>3. f.type = "error" => HearConversation(s, f) = AddMessage(s, "error", f.of)
  BY Zenon DEF HearConversation
<1>4. f.type = "status" => HearConversation(s, f) = StatusChanged(s, f.state)
  BY Zenon DEF HearConversation
<1>5. f.type = "trace" => HearConversation(s, f) = [s EXCEPT !.traces = Append(@, f.of)]
  BY Zenon DEF HearConversation
<1>6. f.type = "reset" => HearConversation(s, f) = ConversationReset(s)
  BY Zenon DEF HearConversation
<1>7. f.type = "workspace" => HearConversation(s, f) = s
  BY Zenon DEF HearConversation
<1> QED BY <1>1, <1>2, <1>3, <1>4, <1>5, <1>6, <1>7

(* What the page does to its state, field by field. *)
LEMMA AddMessageIs ==
  ASSUME NEW s \in State, NEW role \in Roles, NEW of \in Nat
  PROVE  /\ AddMessage(s, role, of) \in State
         /\ AddMessage(s, role, of).messages = Append(s.messages, [role |-> role, of |-> of])
         /\ AddMessage(s, role, of).status = s.status
         /\ AddMessage(s, role, of).files = s.files
         /\ AddMessage(s, role, of).upload = s.upload
         /\ AddMessage(s, role, of).viewer = s.viewer
<1> DEFINE ms == Append(s.messages, [role |-> role, of |-> of])
<1>1. ms \in Seq(Note)
  BY AppendProperties DEF State, Note
<1> HIDE DEF ms
<1>2. [s EXCEPT !.messages = ms] \in State
  BY <1>1 DEF State
<1>3. /\ [s EXCEPT !.messages = ms].messages = ms
      /\ [s EXCEPT !.messages = ms].status = s.status
      /\ [s EXCEPT !.messages = ms].files = s.files
      /\ [s EXCEPT !.messages = ms].upload = s.upload
      /\ [s EXCEPT !.messages = ms].viewer = s.viewer
  BY <1>1 DEF State
<1>4. AddMessage(s, role, of) = [s EXCEPT !.messages = ms]
  BY Zenon DEF AddMessage, ms
<1> QED BY <1>2, <1>3, <1>4 DEF ms

LEMMA StatusChangedIs ==
  ASSUME NEW s \in State, NEW status \in {"idle", "working"}
  PROVE  /\ StatusChanged(s, status) \in State
         /\ StatusChanged(s, status).messages = s.messages
         /\ StatusChanged(s, status).status = status
         /\ StatusChanged(s, status).files = s.files
         /\ StatusChanged(s, status).upload = s.upload
         /\ StatusChanged(s, status).viewer = s.viewer
<1>1. <<>> \in Seq(Nat)
  BY EmptySeq
<1>2. [s EXCEPT !.status = status, !.traces = <<>>] \in State
  BY <1>1 DEF State
<1> QED BY <1>2 DEF StatusChanged, State

LEMMA ConversationResetIs ==
  ASSUME NEW s \in State
  PROVE  /\ ConversationReset(s) \in State
         /\ ConversationReset(s).messages = <<>>
         /\ ConversationReset(s).status = "idle"
         /\ ConversationReset(s).files = s.files
         /\ ConversationReset(s).upload = s.upload
         /\ ConversationReset(s).viewer = s.viewer
<1>1. <<>> \in Seq(Nat) /\ <<>> \in Seq(Note)
  BY EmptySeq
<1>2. [s EXCEPT !.messages = <<>>, !.status = "idle", !.traces = <<>>] \in State
  BY <1>1 DEF State
<1> QED BY <1>2 DEF ConversationReset, State

(* What a page makes of one frame. *)
NoteOf(f) ==
  [role |-> IF f.type = "user" THEN "user" ELSE IF f.type = "message" THEN "assistant" ELSE "error",
   of |-> f.of]

LEMMA HearIs ==
  ASSUME NEW s \in State, NEW f \in Frame
  PROVE  /\ HearConversation(s, f) \in State
         /\ HearConversation(s, f).files = s.files
         /\ HearConversation(s, f).upload = s.upload
         /\ HearConversation(s, f).viewer = s.viewer
         /\ HearConversation(s, f).messages =
              IF f.type \in {"user", "message", "error"} THEN Append(s.messages, NoteOf(f))
              ELSE IF f.type = "reset" THEN <<>> ELSE s.messages
         /\ HearConversation(s, f).status =
              IF f.type = "status" THEN f.state ELSE IF f.type = "reset" THEN "idle" ELSE s.status
         /\ f.type \in {"user", "message", "error"} => NoteOf(f) \in Note /\ NoteOf(f).of # Local
<1>1. CASE f.type \in {"user", "message", "error"}
  <2>1. f.of \in Nat /\ f.of # 0
    BY <1>1, FrameCases
  <2>2. NoteOf(f) \in Note /\ NoteOf(f).of # Local
    BY <2>1 DEF NoteOf, Note, Roles, Local
  <2>3. CASE f.type = "user"
    <3>1. HearConversation(s, f) = AddMessage(s, "user", f.of)
      BY <2>3, HearCases
    <3>2. NoteOf(f) = [role |-> "user", of |-> f.of] /\ "user" \in Roles
      BY <2>3 DEF NoteOf, Roles
    <3> QED BY <2>1, <2>2, <2>3, <3>1, <3>2, AddMessageIs
  <2>4. CASE f.type = "message"
    <3>1. HearConversation(s, f) = AddMessage(s, "assistant", f.of)
      BY <2>4, HearCases
    <3>2. NoteOf(f) = [role |-> "assistant", of |-> f.of] /\ "assistant" \in Roles
      BY <2>4 DEF NoteOf, Roles
    <3> QED BY <2>1, <2>2, <2>4, <3>1, <3>2, AddMessageIs
  <2>5. CASE f.type = "error"
    <3>1. HearConversation(s, f) = AddMessage(s, "error", f.of)
      BY <2>5, HearCases
    <3>2. NoteOf(f) = [role |-> "error", of |-> f.of] /\ "error" \in Roles
      BY <2>5 DEF NoteOf, Roles
    <3> QED BY <2>1, <2>2, <2>5, <3>1, <3>2, AddMessageIs
  <2> QED BY <1>1, <2>3, <2>4, <2>5
<1>2. CASE f.type = "status"
  <2>1. f.state \in {"idle", "working"} /\ HearConversation(s, f) = StatusChanged(s, f.state)
    BY <1>2, FrameCases, HearCases
  <2> QED BY <1>2, <2>1, StatusChangedIs
<1>3. CASE f.type = "trace"
  <2>1. f.of \in Nat /\ HearConversation(s, f) = [s EXCEPT !.traces = Append(@, f.of)]
    BY <1>3, FrameCases, HearCases
  <2> DEFINE ts == Append(s.traces, f.of)
  <2>2. ts \in Seq(Nat)
    BY <2>1, AppendProperties DEF State
  <2>3. HearConversation(s, f) = [s EXCEPT !.traces = ts]
    BY <2>1, Zenon
  <2> HIDE DEF ts
  <2>4. HearConversation(s, f) \in State
    BY <2>2, <2>3 DEF State
  <2>5. /\ HearConversation(s, f).files = s.files
        /\ HearConversation(s, f).upload = s.upload
        /\ HearConversation(s, f).viewer = s.viewer
        /\ HearConversation(s, f).messages = s.messages
        /\ HearConversation(s, f).status = s.status
    BY <2>3 DEF State
  <2> QED BY <1>3, <2>4, <2>5
<1>4. CASE f.type = "reset"
  BY <1>4, HearCases, ConversationResetIs
<1>5. CASE f.type = "workspace"
  BY <1>5, HearCases
<1> QED BY <1>1, <1>2, <1>3, <1>4, <1>5, FrameCases

(* The mirror, the uploads and the viewer leave the conversation alone. *)
LEMMA FilesLoadedIs ==
  ASSUME NEW s \in State, NEW files \in [File -> Nat]
  PROVE  /\ FilesLoaded(s, files) \in State
         /\ FilesLoaded(s, files).messages = s.messages
         /\ FilesLoaded(s, files).status = s.status
         /\ FilesLoaded(s, files).files = files
         /\ FilesLoaded(s, files).upload = s.upload
         /\ FilesLoaded(s, files).viewer = s.viewer
BY DEF FilesLoaded, State

LEMMA UploadSet ==
  ASSUME NEW s \in State, NEW u \in [busy : BOOLEAN, failed : BOOLEAN],
         NEW t, t = [s EXCEPT !.upload = u]
  PROVE  /\ t \in State
         /\ t.messages = s.messages /\ t.status = s.status /\ t.files = s.files
         /\ t.upload = u /\ t.viewer = s.viewer
BY DEF State

LEMMA UploadStartedIs ==
  ASSUME NEW s \in State
  PROVE  /\ UploadStarted(s) \in State
         /\ UploadStarted(s).messages = s.messages
         /\ UploadStarted(s).status = s.status
         /\ UploadStarted(s).files = s.files
         /\ UploadStarted(s).upload.busy = TRUE
         /\ UploadStarted(s).viewer = s.viewer
<1> DEFINE u == [busy |-> TRUE, failed |-> FALSE]
<1>1. u \in [busy : BOOLEAN, failed : BOOLEAN] /\ u.busy = TRUE
  OBVIOUS
<1>2. UploadStarted(s) = [s EXCEPT !.upload = u]
  BY Zenon DEF UploadStarted
<1> HIDE DEF u
<1> QED BY <1>1, <1>2, UploadSet

LEMMA UploadEndedIs ==
  ASSUME NEW s \in State, NEW failed \in BOOLEAN
  PROVE  /\ UploadEnded(s, failed) \in State
         /\ UploadEnded(s, failed).messages = s.messages
         /\ UploadEnded(s, failed).status = s.status
         /\ UploadEnded(s, failed).files = s.files
         /\ UploadEnded(s, failed).upload.busy = FALSE
         /\ UploadEnded(s, failed).viewer = s.viewer
<1> DEFINE u == [busy |-> FALSE, failed |-> failed]
<1>1. u \in [busy : BOOLEAN, failed : BOOLEAN] /\ u.busy = FALSE
  OBVIOUS
<1>2. UploadEnded(s, failed) = [s EXCEPT !.upload = u]
  BY Zenon DEF UploadEnded
<1> HIDE DEF u
<1> QED BY <1>1, <1>2, UploadSet

LEMMA ViewerSet ==
  ASSUME NEW s \in State, NEW v \in Viewer, NEW t, t = [s EXCEPT !.viewer = v]
  PROVE  /\ t \in State
         /\ t.messages = s.messages /\ t.status = s.status /\ t.files = s.files
         /\ t.upload = s.upload /\ t.viewer = v
BY DEF State

LEMMA ViewerOpenedIs ==
  ASSUME NEW s \in State, NEW file \in File
  PROVE  /\ ViewerOpened(s, file) \in State
         /\ ViewerOpened(s, file).messages = s.messages
         /\ ViewerOpened(s, file).status = s.status
         /\ ViewerOpened(s, file).files = s.files
         /\ ViewerOpened(s, file).upload = s.upload
         /\ ViewerOpened(s, file).viewer.file = file
         /\ ViewerOpened(s, file).viewer.text = <<>>
<1> DEFINE v == [ClosedViewer EXCEPT !.open = TRUE, !.file = file, !.loading = TRUE]
<1>1. v \in Viewer /\ v.file = file /\ v.text = <<>>
  BY DEF ClosedViewer, Viewer
<1>2. ViewerOpened(s, file) = [s EXCEPT !.viewer = v]
  BY DEF ViewerOpened
<1> HIDE DEF v
<1> QED BY <1>1, <1>2, ViewerSet

LEMMA ViewerLoadedIs ==
  ASSUME NEW s \in State, NEW text \in File \X Nat
  PROVE  /\ ViewerLoaded(s, text) \in State
         /\ ViewerLoaded(s, text).messages = s.messages
         /\ ViewerLoaded(s, text).status = s.status
         /\ ViewerLoaded(s, text).files = s.files
         /\ ViewerLoaded(s, text).upload = s.upload
         /\ ViewerLoaded(s, text).viewer.file = s.viewer.file
         /\ ViewerLoaded(s, text).viewer.text = text
<1> DEFINE v == [s.viewer EXCEPT !.loading = FALSE, !.failed = FALSE, !.text = text]
<1>1. v \in Viewer /\ v.file = s.viewer.file /\ v.text = text
  BY DEF State, Viewer
<1>2. ViewerLoaded(s, text) = [s EXCEPT !.viewer = v]
  BY DEF ViewerLoaded, State, Viewer
<1> HIDE DEF v
<1> QED BY <1>1, <1>2, ViewerSet

LEMMA ViewerFailedIs ==
  ASSUME NEW s \in State
  PROVE  /\ ViewerFailed(s) \in State
         /\ ViewerFailed(s).messages = s.messages
         /\ ViewerFailed(s).status = s.status
         /\ ViewerFailed(s).files = s.files
         /\ ViewerFailed(s).upload = s.upload
         /\ ViewerFailed(s).viewer.file = s.viewer.file
         /\ ViewerFailed(s).viewer.text = s.viewer.text
<1> DEFINE v == [s.viewer EXCEPT !.loading = FALSE, !.failed = TRUE]
<1>1. v \in Viewer /\ v.file = s.viewer.file /\ v.text = s.viewer.text
  BY DEF State, Viewer
<1>2. ViewerFailed(s) = [s EXCEPT !.viewer = v]
  BY DEF ViewerFailed, State, Viewer
<1> HIDE DEF v
<1> QED BY <1>1, <1>2, ViewerSet

LEMMA ViewerClosedIs ==
  ASSUME NEW s \in State
  PROVE  /\ ViewerClosed(s) \in State
         /\ ViewerClosed(s).messages = s.messages
         /\ ViewerClosed(s).status = s.status
         /\ ViewerClosed(s).files = s.files
         /\ ViewerClosed(s).upload = s.upload
         /\ ViewerClosed(s).viewer.file = s.viewer.file
         /\ ViewerClosed(s).viewer.text = s.viewer.text
<1> DEFINE v == [s.viewer EXCEPT !.open = FALSE]
<1>1. v \in Viewer /\ v.file = s.viewer.file /\ v.text = s.viewer.text
  BY DEF State, Viewer
<1>2. ViewerClosed(s) = [s EXCEPT !.viewer = v]
  BY DEF ViewerClosed, State, Viewer
<1> HIDE DEF v
<1> QED BY <1>1, <1>2, ViewerSet

-----------------------------------------------------------------------------
(* The calls in flight.                                                    *)

ChatCall   == [kind : {"chat"}, arg : Message \ {""}, stage : {"sent"}]
              \cup [kind : {"chat"}, arg : Message \ {""}, stage : {"answered"},
                    status : {204, 409}, body : {<<>>}]
ResetCall  == [kind : {"reset"}, arg : {<<>>}, stage : {"sent"}]
              \cup [kind : {"reset"}, arg : {<<>>}, stage : {"answered"},
                    status : {204, 409}, body : {<<>>}]
UploadCall == [kind : {"upload"}, arg : Seq(File) \ {<<>>}, stage : {"sent", "read", "written"}]
              \cup [kind : {"upload"}, arg : Seq(File) \ {<<>>}, stage : {"answered"},
                    status : {200, 413}, body : {<<>>}]
Listing    == [kind : {"files"}, arg : {<<>>}, stage : {"sent"},
               listed : SUBSET File, body : [File -> Nat]]
Listed     == [kind : {"files"}, arg : {<<>>}, stage : {"answered"},
               status : {200}, body : [File -> Nat]]
Viewing    == [kind : {"view"}, arg : File, stage : {"sent"}]
Missing    == [kind : {"view"}, arg : File, stage : {"answered"}, status : {404}, body : {<<>>}]
Viewed     == {c \in [kind : {"view"}, arg : File, stage : {"answered"},
                      status : {200}, body : File \X Nat] : c.body[1] = c.arg}
CallRec    == ChatCall \cup ResetCall \cup UploadCall \cup Listing \cup Listed
              \cup Viewing \cup Missing \cup Viewed

LEMMA CallCases ==
  ASSUME NEW c \in CallRec
  PROVE  \/ c.kind = "chat" /\ c.arg \in Message /\ c.arg # ""
            /\ (c.stage = "sent" \/ (c.stage = "answered" /\ c.status \in {204, 409}))
         \/ c.kind = "reset"
            /\ (c.stage = "sent" \/ (c.stage = "answered" /\ c.status \in {204, 409}))
         \/ c.kind = "upload" /\ c.arg \in Seq(File) /\ c.arg # <<>>
            /\ (c.stage \in {"sent", "read", "written"}
                \/ (c.stage = "answered" /\ c.status \in {200, 413}))
         \/ c.kind = "view" /\ c.arg \in File
            /\ (\/ c.stage = "sent"
                \/ c.stage = "answered" /\ c.status = 404
                \/ c.stage = "answered" /\ c.status = 200 /\ c.body \in File \X Nat
                   /\ c.body[1] = c.arg)
         \/ c.kind = "files" /\ c.body \in [File -> Nat]
            /\ (\/ c.stage = "sent" /\ c \in Listing
                \/ c.stage = "answered" /\ c.status = 200)
<1>1. CASE c \in ChatCall
  BY <1>1 DEF ChatCall
<1>2. CASE c \in ResetCall
  BY <1>2 DEF ResetCall
<1>3. CASE c \in UploadCall
  BY <1>3 DEF UploadCall
<1>4. CASE c \in Listing
  <2>1. c.kind = "files" /\ c.stage = "sent" /\ c.body \in [File -> Nat]
    BY <1>4 DEF Listing
  <2> QED BY <1>4, <2>1
<1>5. CASE c \in Listed
  BY <1>5 DEF Listed
<1>6. CASE c \in Viewing
  BY <1>6 DEF Viewing
<1>7. CASE c \in Missing
  BY <1>7 DEF Missing
<1>8. CASE c \in Viewed
  BY <1>8 DEF Viewed
<1> QED BY <1>1, <1>2, <1>3, <1>4, <1>5, <1>6, <1>7, <1>8 DEF CallRec

OneUpload(s) == \A i, j \in DOMAIN s : s[i].kind = "upload" /\ s[j].kind = "upload" => i = j
Uploading(s) == \E i \in DOMAIN s : s[i].kind = "upload"

(* What becomes of the calls of a page: the call at gone goes, if there is *)
(* one there, the others stay, and the new ones come.                      *)
Changed(old, gone, new, now) ==
  /\ now \in Seq(CallRec)
  /\ \A k \in DOMAIN now : now[k] \in new \/ \E j \in DOMAIN old \ {gone} : now[k] = old[j]
  /\ \A j \in DOMAIN old \ {gone} : \E k \in DOMAIN now : now[k] = old[j]
  /\ \A c \in new : \E k \in DOMAIN now : now[k] = c

LEMMA RemoveAtIs ==
  ASSUME NEW S, NEW s \in Seq(S), NEW i \in 1 .. Len(s)
  PROVE  /\ RemoveAt(s, i) \in Seq(S)
         /\ Len(RemoveAt(s, i)) = Len(s) - 1
         /\ \A k \in 1 .. (Len(s) - 1) :
              RemoveAt(s, i)[k] = IF k < i THEN s[k] ELSE s[k + 1]
<1> DEFINE n == Len(s)
           a == SubSeq(s, 1, i - 1)
           b == SubSeq(s, i + 1, n)
           r == a \o b
<1>1. n \in Nat
  BY LenProperties
<1>2. a \in Seq(S) /\ Len(a) = i - 1 /\ \A k \in 1 .. (i - 1) : a[k] = s[k]
  BY <1>1, SubSeqProperties
<1>3. b \in Seq(S) /\ Len(b) = n - i /\ \A k \in 1 .. (n - i) : b[k] = s[i + k]
  BY <1>1, SubSeqProperties
<1> HIDE DEF a, b
<1>4. r \in Seq(S) /\ Len(r) = n - 1
      /\ \A k \in 1 .. (n - 1) : r[k] = IF k <= Len(a) THEN a[k] ELSE b[k - Len(a)]
  <2>1. Len(a) + Len(b) = n - 1
    BY <1>1, <1>2, <1>3
  <2>2. /\ r \in Seq(S) /\ Len(r) = Len(a) + Len(b)
        /\ \A k \in 1 .. (Len(a) + Len(b)) : r[k] = IF k <= Len(a) THEN a[k] ELSE b[k - Len(a)]
    BY <1>2, <1>3, ConcatProperties
  <2> HIDE DEF r
  <2> QED BY <2>1, <2>2
<1>5. RemoveAt(s, i) = r
  BY DEF RemoveAt, r, a, b, n
<1> HIDE DEF r
<1>6. ASSUME NEW k \in 1 .. (n - 1)
      PROVE  r[k] = IF k < i THEN s[k] ELSE s[k + 1]
  <2>1. CASE k < i
    BY <2>1, <1>1, <1>2, <1>4
  <2>2. CASE ~(k < i)
    <3>1. k - Len(a) \in 1 .. (n - i) /\ i + (k - Len(a)) = k + 1 /\ ~(k <= Len(a))
      BY <2>2, <1>1, <1>2
    <3> QED BY <2>2, <3>1, <1>3, <1>4
  <2> QED BY <2>1, <2>2
<1> QED BY <1>4, <1>5, <1>6

LEMMA CallsDomain ==
  ASSUME NEW s \in Seq(CallRec)
  PROVE  DOMAIN s = 1 .. Len(s) /\ Len(s) \in Nat /\ 0 \notin DOMAIN s
         /\ \A i \in DOMAIN s : s[i] \in CallRec
BY LenProperties, ElementOfSeq

LEMMA CallGoes ==
  ASSUME NEW s \in Seq(CallRec), NEW i \in DOMAIN s
  PROVE  /\ Changed(s, i, {}, RemoveAt(s, i))
         /\ OneUpload(s) => OneUpload(RemoveAt(s, i))
<1> DEFINE r == RemoveAt(s, i)
           n == Len(s)
<1>1. DOMAIN s = 1 .. n /\ n \in Nat /\ i \in 1 .. n
  BY CallsDomain
<1>2. r \in Seq(CallRec) /\ DOMAIN r = 1 .. (n - 1)
      /\ \A k \in 1 .. (n - 1) : r[k] = IF k < i THEN s[k] ELSE s[k + 1]
  <2>1. r \in Seq(CallRec) /\ Len(r) = n - 1
        /\ \A k \in 1 .. (n - 1) : r[k] = IF k < i THEN s[k] ELSE s[k + 1]
    BY <1>1, RemoveAtIs
  <2> HIDE DEF r
  <2>2. DOMAIN r = 1 .. Len(r)
    BY <2>1, LenProperties
  <2> QED BY <2>1, <2>2
<1> HIDE DEF r, n
<1>3. ASSUME NEW k \in DOMAIN r PROVE \E j \in DOMAIN s \ {i} : r[k] = s[j]
  <2>1. CASE k < i
    BY <2>1, <1>1, <1>2
  <2>2. CASE ~(k < i)
    <3>1. k + 1 \in DOMAIN s \ {i} /\ r[k] = s[k + 1]
      BY <2>2, <1>1, <1>2
    <3> QED BY <3>1
  <2> QED BY <2>1, <2>2
<1>4. ASSUME NEW j \in DOMAIN s \ {i} PROVE \E k \in DOMAIN r : r[k] = s[j]
  <2>1. CASE j < i
    BY <2>1, <1>1, <1>2
  <2>2. CASE ~(j < i)
    <3> DEFINE k == j - 1
    <3>1. k \in DOMAIN r /\ ~(k < i) /\ k + 1 = j
      BY <2>2, <1>1, <1>2
    <3>2. r[k] = s[k + 1]
      BY <3>1, <1>2
    <3> QED BY <3>1, <3>2
  <2> QED BY <2>1, <2>2
<1>5. ASSUME OneUpload(s), NEW k \in DOMAIN r, NEW l \in DOMAIN r,
             r[k].kind = "upload", r[l].kind = "upload"
      PROVE  k = l
  <2> DEFINE At1(m) == IF m < i THEN m ELSE m + 1
  <2>1. \A m \in DOMAIN r : At1(m) \in DOMAIN s /\ r[m] = s[At1(m)]
    BY <1>1, <1>2
  <2>2. At1(k) = At1(l)
    <3> HIDE DEF At1
    <3> QED BY <1>5, <2>1 DEF OneUpload
  <2> QED BY <2>2, <1>1, <1>2
<1>6. Changed(s, i, {}, r)
  BY <1>2, <1>3, <1>4 DEF Changed
<1> QED BY <1>5, <1>6 DEF OneUpload, r

LEMMA CallComes ==
  ASSUME NEW s \in Seq(CallRec), NEW c \in CallRec
  PROVE  /\ Changed(s, 0, {c}, Append(s, c))
         /\ OneUpload(s) /\ ~(c.kind = "upload" /\ Uploading(s)) => OneUpload(Append(s, c))
<1> DEFINE r == Append(s, c)
           n == Len(s)
<1>1. DOMAIN s = 1 .. n /\ n \in Nat
  BY CallsDomain
<1>2. r \in Seq(CallRec) /\ DOMAIN r = 1 .. (n + 1) /\ r[n + 1] = c
      /\ \A k \in 1 .. n : r[k] = s[k]
  <2>1. r \in Seq(CallRec) /\ Len(r) = n + 1 /\ r[n + 1] = c /\ \A k \in 1 .. n : r[k] = s[k]
    BY AppendProperties
  <2> HIDE DEF r
  <2>2. DOMAIN r = 1 .. Len(r)
    BY <2>1, LenProperties
  <2> QED BY <2>1, <2>2
<1> HIDE DEF r, n
<1>3. \A k \in DOMAIN r : (k = n + 1 /\ r[k] = c) \/ (k \in DOMAIN s /\ k # 0 /\ r[k] = s[k])
  BY <1>1, <1>2
<1>4. \A j \in DOMAIN s : j \in DOMAIN r /\ r[j] = s[j] /\ j # 0
  BY <1>1, <1>2
<1>5. n + 1 \in DOMAIN r /\ r[n + 1] = c
  BY <1>1, <1>2
<1>6. Changed(s, 0, {c}, r)
  BY <1>2, <1>3, <1>4, <1>5 DEF Changed
<1>7. ASSUME OneUpload(s), ~(c.kind = "upload" /\ Uploading(s)) PROVE OneUpload(r)
  BY <1>7, <1>3 DEF OneUpload, Uploading
<1> QED BY <1>6, <1>7 DEF r

LEMMA CallGoesAndComes ==
  ASSUME NEW s \in Seq(CallRec), NEW i \in DOMAIN s, NEW c \in CallRec
  PROVE  /\ Changed(s, i, {c}, Append(RemoveAt(s, i), c))
         /\ OneUpload(s) /\ (c.kind = "upload" => s[i].kind = "upload")
              => OneUpload(Append(RemoveAt(s, i), c))
<1> DEFINE r == RemoveAt(s, i)
<1>1. Changed(s, i, {}, r) /\ (OneUpload(s) => OneUpload(r))
  BY CallGoes
<1> HIDE DEF r
<1>2. r \in Seq(CallRec)
  BY <1>1 DEF Changed
<1> DEFINE t == Append(r, c)
<1>3. Changed(r, 0, {c}, t)
      /\ (OneUpload(r) /\ ~(c.kind = "upload" /\ Uploading(r)) => OneUpload(t))
  BY <1>2, CallComes
<1> HIDE DEF t
<1>4. 0 \notin DOMAIN r
  BY <1>2, CallsDomain
<1>5. Changed(s, i, {c}, t)
  BY <1>1, <1>3, <1>4 DEF Changed
<1>6. ASSUME OneUpload(s), s[i].kind = "upload" PROVE ~Uploading(r)
  BY <1>1, <1>6 DEF Changed, Uploading, OneUpload
<1> QED BY <1>1, <1>3, <1>5, <1>6 DEF t, r

LEMMA CallBecomes ==
  ASSUME NEW s \in Seq(CallRec), NEW i \in DOMAIN s, NEW c \in CallRec
  PROVE  /\ Changed(s, i, {c}, [s EXCEPT ![i] = c])
         /\ OneUpload(s) /\ c.kind = s[i].kind => OneUpload([s EXCEPT ![i] = c])
<1> DEFINE r == [s EXCEPT ![i] = c]
<1>1. r \in Seq(CallRec)
  BY ExceptSeq, CallsDomain
<1>2. DOMAIN r = DOMAIN s /\ r[i] = c /\ \A k \in DOMAIN s \ {i} : r[k] = s[k]
  OBVIOUS
<1> HIDE DEF r
<1>3. Changed(s, i, {c}, r)
  BY <1>1, <1>2 DEF Changed
<1>4. OneUpload(s) /\ c.kind = s[i].kind => OneUpload(r)
  BY <1>2 DEF OneUpload
<1> QED BY <1>3, <1>4 DEF r

(* Whether an upload is in flight afterwards. *)
LEMMA UploadingAfter ==
  ASSUME NEW old, NEW gone, NEW new, NEW now, Changed(old, gone, new, now), OneUpload(old)
  PROVE  /\ (gone \in DOMAIN old /\ old[gone].kind = "upload")
              => (Uploading(now) <=> \E c \in new : c.kind = "upload")
         /\ (gone \notin DOMAIN old \/ old[gone].kind # "upload")
              => (Uploading(now) <=> Uploading(old) \/ \E c \in new : c.kind = "upload")
BY DEF Changed, OneUpload, Uploading

-----------------------------------------------------------------------------
(* Types.                                                                  *)

What == {"messages", "status", "files", "viewer"}

TurnTypes ==
  /\ clients \subseteq Page /\ busy \in BOOLEAN
  /\ turn \in [of : Nat, next : SUBSET Nat]
  /\ sessionId \subseteq 1 .. turn.of /\ turn.next \subseteq 1 .. turn.of
  /\ busy => turn.of # 0
  /\ transcript \in Seq(Note)

StreamTypes ==
  /\ stream \in [Page -> Seq(Frame)]
  /\ \A p \in Page : p \notin clients => stream[p] = <<>>
  /\ unheard \in [Page -> SUBSET What]

PageTypes ==
  /\ workspace \in [File -> Nat]
  /\ calls \in [Page -> Seq(CallRec)]
  /\ page \in [Page -> State]
  /\ \A p \in Page : OneUpload(calls[p]) /\ (page[p].upload.busy <=> Uploading(calls[p]))

Bounded == "tabs" \in DOMAIN budget /\ budget.tabs \subseteq Page

Types == TurnTypes /\ StreamTypes /\ PageTypes /\ Bounded

LEMMA TypesSuffice ==
  ASSUME Types
  PROVE  TypeOK
<1>1. /\ clients \subseteq Page /\ busy \in BOOLEAN
      /\ turn.of \in Nat /\ sessionId \subseteq 1 .. turn.of /\ turn.next \subseteq 1 .. turn.of
      /\ workspace \in [File -> Nat]
  BY DEF Types, TurnTypes, PageTypes
<1>2. ASSUME NEW p \in Page
      PROVE  /\ p \notin clients => stream[p] = <<>>
             /\ page[p].status \in {"idle", "working"}
             /\ \A i \in DOMAIN page[p].messages : page[p].messages[i].role \in Roles
             /\ page[p].files \in [File -> Nat]
             /\ page[p].upload.busy = InFlight(p, "upload")
             /\ unheard[p] \subseteq {"messages", "status", "files", "viewer"}
  <2>1. (p \notin clients => stream[p] = <<>>)
        /\ unheard[p] \subseteq {"messages", "status", "files", "viewer"}
    BY DEF Types, StreamTypes, What
  <2>2. page[p].upload.busy = InFlight(p, "upload")
    <3>1. page[p].upload.busy \in BOOLEAN
      BY DEF Types, PageTypes, State
    <3>2. page[p].upload.busy <=> InFlight(p, "upload")
      BY DEF Types, PageTypes, InFlight, Uploading
    <3>3. InFlight(p, "upload") \in BOOLEAN
      BY DEF InFlight
    <3> QED BY <3>1, <3>2, <3>3
  <2>3. page[p] \in State
    BY DEF Types, PageTypes
  <2>4. page[p].status \in {"idle", "working"} /\ page[p].files \in [File -> Nat]
        /\ page[p].messages \in Seq(Note)
    BY <2>3 DEF State
  <2>5. \A i \in DOMAIN page[p].messages : page[p].messages[i] \in Note
    BY <2>4, LenProperties, ElementOfSeq
  <2> QED BY <2>1, <2>2, <2>4, <2>5 DEF Note
<1> QED BY <1>1, <1>2 DEF TypeOK

LEMMA InitTypes ==
  ASSUME Init
  PROVE  Types
<1>1. /\ DOMAIN budget = {"tabs", "files"} \union HowOften
      /\ budget.tabs \subseteq Page /\ budget.files \subseteq File
  BY BudgetsAssumption DEF Init
<1>2. Bounded
  BY <1>1 DEF Bounded
<1>3. TurnTypes
  <2>1. turn \in [of : Nat, next : SUBSET Nat] /\ turn.next = {}
    BY DEF Init
  <2>2. transcript \in Seq(Note)
    BY EmptySeq DEF Init
  <2> QED BY <1>1, <2>1, <2>2 DEF TurnTypes, Init
<1>4. StreamTypes
  <2>1. <<>> \in Seq(Frame)
    BY EmptySeq
  <2> QED BY <2>1 DEF StreamTypes, Init, What
<1>5. PageTypes
  <2>1. workspace \in [File -> Nat]
    BY DEF Init
  <2>2. FilesCall \in CallRec /\ FilesCall.kind = "files"
    BY DEF FilesCall, CallRec, Listing, NoFiles
  <2>3. InitialState \in State /\ InitialState.upload.busy = FALSE
    <3>1. ClosedViewer \in Viewer
      BY DEF ClosedViewer, Viewer
    <3>2. NoFiles \in [File -> Nat]
      BY DEF NoFiles
    <3>3. <<>> \in Seq(Nat) /\ <<>> \in Seq(Note)
      BY EmptySeq
    <3> QED BY <3>1, <3>2, <3>3 DEF InitialState, State
  <2>4. <<>> \in Seq(CallRec) /\ <<FilesCall>> \in Seq(CallRec)
    BY <2>2, EmptySeq
  <2>5. OneUpload(<<>>) /\ ~Uploading(<<>>) /\ OneUpload(<<FilesCall>>) /\ ~Uploading(<<FilesCall>>)
    BY <2>2 DEF OneUpload, Uploading
  <2>6. /\ calls = [p \in Page |-> IF budget.listings > 0 THEN <<FilesCall>> ELSE <<>>]
        /\ page = [p \in Page |-> InitialState]
    BY DEF Init
  <2> HIDE DEF OneUpload, Uploading
  <2>7. calls \in [Page -> Seq(CallRec)]
        /\ \A p \in Page : OneUpload(calls[p]) /\ ~Uploading(calls[p])
    BY <2>4, <2>5, <2>6
  <2>8. page \in [Page -> State] /\ \A p \in Page : page[p].upload.busy = FALSE
    BY <2>3, <2>6
  <2> QED BY <2>1, <2>7, <2>8 DEF PageTypes
<1> QED BY <1>2, <1>3, <1>4, <1>5 DEF Types

-----------------------------------------------------------------------------
(* What a broadcast does to the streams.                                   *)

LEMMA AspectIs ==
  ASSUME NEW f \in Frame
  PROVE  /\ f.type \in {"user", "message", "error"} => Aspect(f) = {"messages"}
         /\ f.type = "status" => Aspect(f) = {"status"}
         /\ f.type = "reset" => Aspect(f) = {"messages", "status"}
         /\ f.type = "workspace" => Aspect(f) = {"files"}
         /\ f.type = "trace" => Aspect(f) = {}
<1>1. f.type \in {"user", "message", "error"} => Aspect(f) = {"messages"}
  BY Zenon DEF Aspect
<1>2. f.type = "status" => Aspect(f) = {"status"}
  BY Zenon DEF Aspect
<1>3. f.type = "reset" => Aspect(f) = {"messages", "status"}
  BY Zenon DEF Aspect
<1>4. f.type = "workspace" => Aspect(f) = {"files"}
  BY Zenon DEF Aspect
<1>5. f.type = "trace" => Aspect(f) = {}
  BY Zenon DEF Aspect
<1> QED BY <1>1, <1>2, <1>3, <1>4, <1>5

LEMMA FramesDomain ==
  ASSUME NEW frames \in Seq(Frame)
  PROVE  DOMAIN frames = 1 .. Len(frames) /\ Len(frames) \in Nat
         /\ \A i \in DOMAIN frames : frames[i] \in Frame
BY LenProperties, ElementOfSeq

LEMMA AspectsAre ==
  ASSUME NEW frames \in Seq(Frame)
  PROVE  Aspects(frames) \subseteq What \ {"viewer"}
<1>1. ASSUME NEW i \in DOMAIN frames PROVE Aspect(frames[i]) \subseteq What \ {"viewer"}
  <2>1. frames[i] \in Frame
    BY FramesDomain
  <2> QED BY <2>1, AspectIs, FrameCases DEF What
<1> QED BY <1>1 DEF Aspects

LEMMA Broadcasting ==
  ASSUME StreamTypes, NEW frames \in Seq(Frame), Broadcast(frames), UNCHANGED clients
  PROVE  /\ StreamTypes'
         /\ \A p \in Page :
              /\ p \in clients => /\ stream'[p] = stream[p] \o frames
                                  /\ unheard'[p] = unheard[p] \ Repairs(frames)
              /\ p \notin clients => /\ stream'[p] = stream[p]
                                     /\ unheard'[p] = unheard[p] \union Aspects(frames)
<1>1. \A p \in Page :
         /\ p \in clients => /\ stream'[p] = stream[p] \o frames
                             /\ unheard'[p] = unheard[p] \ Repairs(frames)
         /\ p \notin clients => /\ stream'[p] = stream[p]
                                /\ unheard'[p] = unheard[p] \union Aspects(frames)
  BY DEF Broadcast
<1>2. Aspects(frames) \subseteq What
  BY AspectsAre
<1>3. \A p \in Page : stream'[p] \in Seq(Frame) /\ unheard'[p] \in SUBSET What
  <2> TAKE p \in Page
  <2>1. stream[p] \in Seq(Frame) /\ unheard[p] \in SUBSET What
    BY DEF StreamTypes
  <2>2. stream[p] \o frames \in Seq(Frame)
    BY <2>1, ConcatProperties
  <2> QED BY <1>1, <1>2, <2>1, <2>2
<1>4. stream' = [p \in Page |-> stream'[p]] /\ unheard' = [p \in Page |-> unheard'[p]]
  BY DEF Broadcast
<1>5. stream' \in [Page -> Seq(Frame)] /\ unheard' \in [Page -> SUBSET What]
  BY <1>3, <1>4
<1>6. \A p \in Page : p \notin clients' => stream'[p] = <<>>
  BY <1>1 DEF StreamTypes
<1> QED BY <1>1, <1>5, <1>6 DEF StreamTypes

-----------------------------------------------------------------------------
(* What the steps do to the calls in flight and to the pages.              *)

(* Page p's calls change as in Changed, those of the other pages do not.   *)
CallsMove(p, gone, new) ==
  /\ calls' \in [Page -> Seq(CallRec)]
  /\ \A q \in Page \ {p} : calls'[q] = calls[q]
  /\ Changed(calls[p], gone, new, calls'[p])
  /\ OneUpload(calls'[p])

PageMove(p, s) ==
  /\ page' \in [Page -> State]
  /\ \A q \in Page \ {p} : page'[q] = page[q]
  /\ page'[p] = s

LEMMA CallsSet ==
  ASSUME PageTypes, NEW p \in Page, NEW gone, NEW new, NEW now,
         calls' = [calls EXCEPT ![p] = now], Changed(calls[p], gone, new, now), OneUpload(now)
  PROVE  CallsMove(p, gone, new)
<1>1. now \in Seq(CallRec)
  BY DEF Changed
<1>2. calls \in [Page -> Seq(CallRec)]
  BY DEF PageTypes
<1>3. calls' \in [Page -> Seq(CallRec)] /\ calls'[p] = now
      /\ \A q \in Page \ {p} : calls'[q] = calls[q]
  BY <1>1, <1>2
<1> QED BY <1>3 DEF CallsMove

LEMMA CallsKept ==
  ASSUME PageTypes, NEW p \in Page, calls' = calls
  PROVE  CallsMove(p, 0, {})
<1>1. calls \in [Page -> Seq(CallRec)] /\ OneUpload(calls[p])
  BY DEF PageTypes
<1>2. 0 \notin DOMAIN calls[p]
  BY <1>1, CallsDomain
<1>3. Changed(calls[p], 0, {}, calls'[p])
  BY <1>1, <1>2 DEF Changed
<1> QED BY <1>1, <1>3 DEF CallsMove

LEMMA PageSet ==
  ASSUME PageTypes, NEW p \in Page, NEW s \in State, page' = [page EXCEPT ![p] = s]
  PROVE  PageMove(p, s)
BY DEF PageMove, PageTypes

LEMMA PageKept ==
  ASSUME PageTypes, NEW p \in Page, page' = page
  PROVE  PageMove(p, page[p]) /\ page[p] \in State
BY DEF PageMove, PageTypes

LEMMA PageTypesKept ==
  ASSUME PageTypes, NEW p \in Page, NEW gone, NEW new, NEW s \in State,
         CallsMove(p, gone, new), PageMove(p, s), workspace' \in [File -> Nat],
         s.upload.busy <=> Uploading(calls'[p])
  PROVE  PageTypes'
<1>1. calls' \in [Page -> Seq(CallRec)] /\ page' \in [Page -> State]
  BY DEF CallsMove, PageMove
<1>2. ASSUME NEW q \in Page
      PROVE  OneUpload(calls'[q]) /\ (page'[q].upload.busy <=> Uploading(calls'[q]))
  <2>1. CASE q = p
    BY <2>1 DEF CallsMove, PageMove
  <2>2. CASE q # p
    <3>1. calls'[q] = calls[q] /\ page'[q] = page[q]
      BY <2>2 DEF CallsMove, PageMove
    <3>2. OneUpload(calls[q]) /\ (page[q].upload.busy <=> Uploading(calls[q]))
      BY DEF PageTypes
    <3> QED BY <3>1, <3>2
  <2> QED BY <2>1, <2>2
<1> QED BY <1>1, <1>2 DEF PageTypes

(* No upload comes or goes, and the page's uploads stay as they are. *)
LEMMA NoUploadMoves ==
  ASSUME PageTypes, NEW p \in Page, NEW gone, NEW new, NEW s \in State,
         CallsMove(p, gone, new), PageMove(p, s), workspace' \in [File -> Nat],
         s.upload = page[p].upload,
         \A c \in new : c.kind # "upload",
         gone \notin DOMAIN calls[p] \/ calls[p][gone].kind # "upload"
  PROVE  PageTypes'
<1>1. OneUpload(calls[p]) /\ (page[p].upload.busy <=> Uploading(calls[p]))
  BY DEF PageTypes
<1>2. Uploading(calls'[p]) <=> Uploading(calls[p])
  BY <1>1, UploadingAfter DEF CallsMove
<1> QED BY <1>1, <1>2, PageTypesKept

(* A call in flight. *)
LEMMA CallAt ==
  ASSUME PageTypes, NEW p \in Page, NEW i \in DOMAIN calls[p]
  PROVE  /\ calls[p] \in Seq(CallRec) /\ calls[p][i] \in CallRec
         /\ OneUpload(calls[p]) /\ page[p] \in State
         /\ calls \in [Page -> Seq(CallRec)]
BY CallsDomain DEF PageTypes

LEMMA CallReplaced ==
  ASSUME PageTypes, NEW p \in Page, NEW i \in DOMAIN calls[p], NEW c \in CallRec,
         c.kind = calls[p][i].kind,
         calls' = [calls EXCEPT ![p] = [calls[p] EXCEPT ![i] = c]]
  PROVE  CallsMove(p, i, {c})
BY CallAt, CallBecomes, CallsSet

LEMMA CallOver ==
  ASSUME PageTypes, NEW p \in Page, NEW i \in DOMAIN calls[p], Over(p, i)
  PROVE  CallsMove(p, i, {})
BY CallAt, CallGoes, CallsSet DEF Over, Others

LEMMA CallSent ==
  ASSUME PageTypes, NEW p \in Page, NEW c \in CallRec,
         ~(c.kind = "upload" /\ Uploading(calls[p])),
         calls' = [calls EXCEPT ![p] = Append(calls[p], c)]
  PROVE  CallsMove(p, 0, {c})
<1>1. calls[p] \in Seq(CallRec) /\ OneUpload(calls[p])
  BY DEF PageTypes
<1> QED BY <1>1, CallComes, CallsSet

LEMMA CallFollowed ==
  ASSUME PageTypes, NEW p \in Page, NEW i \in DOMAIN calls[p], NEW c \in CallRec,
         c.kind = "upload" => calls[p][i].kind = "upload",
         calls' = [calls EXCEPT ![p] = Append(Others(p, i), c)]
  PROVE  CallsMove(p, i, {c})
BY CallAt, CallGoesAndComes, CallsSet DEF Others

(* The answer to a call. *)
AnswerOf(c, status, body) ==
  [kind |-> c.kind, arg |-> c.arg, stage |-> "answered", status |-> status, body |-> body]

LEMMA CallAnswered ==
  ASSUME PageTypes, NEW p \in Page, NEW i \in DOMAIN calls[p], NEW status, NEW body,
         AnswerOf(calls[p][i], status, body) \in CallRec, Answer(p, i, status, body)
  PROVE  CallsMove(p, i, {AnswerOf(calls[p][i], status, body)})
<1> DEFINE c == AnswerOf(calls[p][i], status, body)
<1>1. calls \in [Page -> Seq(CallRec)]
  BY CallAt
<1>2. calls' = [calls EXCEPT ![p] = [calls[p] EXCEPT ![i] = c]]
  BY <1>1 DEF Answer, AnswerOf
<1>3. c.kind = calls[p][i].kind
  BY DEF AnswerOf
<1> QED BY <1>2, <1>3, CallReplaced

(* The server handles a call of the page p: in c the call has moved on.    *)
Handled(p, i, c) ==
  /\ PageTypes' /\ page' = page
  /\ c \in CallRec /\ CallsMove(p, i, {c})
  /\ c.kind = calls[p][i].kind /\ c.arg = calls[p][i].arg

LEMMA AnswerHandles ==
  ASSUME PageTypes, NEW p \in Page, NEW i \in DOMAIN calls[p], NEW status, NEW body,
         calls[p][i].kind # "upload",
         AnswerOf(calls[p][i], status, body) \in CallRec, Answer(p, i, status, body),
         UNCHANGED <<workspace, page>>
  PROVE  Handled(p, i, AnswerOf(calls[p][i], status, body))
<1> DEFINE c == AnswerOf(calls[p][i], status, body)
<1>1. CallsMove(p, i, {c})
  BY CallAnswered
<1>2. c.kind = calls[p][i].kind /\ c.arg = calls[p][i].arg
  BY DEF AnswerOf
<1>3. PageMove(p, page[p]) /\ page[p] \in State
  BY PageKept
<1>4. workspace' \in [File -> Nat]
  BY DEF PageTypes
<1> HIDE DEF c
<1>5. PageTypes'
  BY <1>1, <1>2, <1>3, <1>4, NoUploadMoves
<1> QED BY <1>1, <1>2, <1>5 DEF Handled, c

LEMMA HandleChatIs ==
  ASSUME PageTypes, NEW p \in Page, NEW i \in DOMAIN calls[p], HandleChat(p, i), page' = page
  PROVE  /\ calls[p][i].kind = "chat" /\ calls[p][i].stage = "sent"
         /\ busy => Refuse(p, i, 409)
         /\ ~busy => StartTurn(p, i)
         /\ UNCHANGED <<clients, workspace, budget>>
         /\ \E c : Handled(p, i, c) /\ c.stage = "answered"
<1> DEFINE c == calls[p][i]
<1>1. c \in CallRec /\ c.kind = "chat" /\ c.stage = "sent"
  BY CallAt DEF HandleChat, At
<1>2. c.arg \in Message \ {""}
  BY <1>1, CallCases
<1>3. /\ busy => Refuse(p, i, 409)
      /\ ~busy => StartTurn(p, i)
      /\ UNCHANGED <<clients, workspace, budget>>
  BY <1>2 DEF HandleChat
<1>4. PICK status \in {204, 409} : Answer(p, i, status, <<>>)
  BY <1>3 DEF Refuse, StartTurn
<1> DEFINE d == AnswerOf(c, status, <<>>)
<1>5. d \in CallRec
  BY <1>1, <1>2 DEF AnswerOf, CallRec, ChatCall
<1>6. Handled(p, i, d)
  BY <1>1, <1>3, <1>4, <1>5, AnswerHandles
<1>7. d.stage = "answered"
  BY DEF AnswerOf
<1> QED BY <1>1, <1>3, <1>6, <1>7

LEMMA HandleResetIs ==
  ASSUME PageTypes, NEW p \in Page, NEW i \in DOMAIN calls[p], HandleReset(p, i), page' = page
  PROVE  /\ calls[p][i].kind = "reset"
         /\ busy => Refuse(p, i, 409)
         /\ ~busy => /\ sessionId' = {} /\ transcript' = <<>>
                     /\ Broadcast(<<Reset>>)
                     /\ UNCHANGED <<busy, turn>>
         /\ UNCHANGED <<clients, workspace, budget>>
         /\ \E c : Handled(p, i, c)
<1> DEFINE c == calls[p][i]
<1>1. c \in CallRec /\ c.kind = "reset" /\ c.stage = "sent"
  BY CallAt DEF HandleReset, At
<1>2. c.arg = <<>>
  BY <1>1 DEF CallRec, ChatCall, ResetCall, UploadCall, Listing, Listed, Viewing, Missing, Viewed
<1>3. /\ busy => Refuse(p, i, 409)
      /\ ~busy => /\ sessionId' = {} /\ transcript' = <<>>
                  /\ Broadcast(<<Reset>>)
                  /\ UNCHANGED <<busy, turn>>
      /\ UNCHANGED <<clients, workspace, budget>>
  BY DEF HandleReset
<1>4. PICK status \in {204, 409} : Answer(p, i, status, <<>>)
  BY <1>3 DEF Refuse, HandleReset
<1>5. AnswerOf(c, status, <<>>) \in CallRec
  BY <1>1, <1>2 DEF AnswerOf, CallRec, ResetCall
<1>6. Handled(p, i, AnswerOf(c, status, <<>>))
  BY <1>1, <1>3, <1>4, <1>5, AnswerHandles
<1> QED BY <1>1, <1>3, <1>6

LEMMA HandleFileContentIs ==
  ASSUME PageTypes, NEW p \in Page, NEW i \in DOMAIN calls[p], HandleFileContent(p, i), page' = page
  PROVE  /\ calls[p][i].kind = "view"
         /\ UNCHANGED <<clients, sessionId, busy, turn, workspace, stream, transcript, unheard, budget>>
         /\ \E c : Handled(p, i, c)
<1> DEFINE c == calls[p][i]
<1>1. c \in CallRec /\ c.kind = "view" /\ c.stage = "sent"
  BY CallAt DEF HandleFileContent, At
<1>2. c.arg \in File
  BY <1>1, CallCases
<1>3. UNCHANGED <<clients, sessionId, busy, turn, workspace, stream, transcript, unheard, budget>>
  BY DEF HandleFileContent
<1>4. CASE workspace[c.arg] = 0
  <2>1. Answer(p, i, 404, <<>>)
    BY <1>4 DEF HandleFileContent
  <2>2. AnswerOf(c, 404, <<>>) \in CallRec
    BY <1>1, <1>2 DEF AnswerOf, CallRec, Missing
  <2>3. Handled(p, i, AnswerOf(c, 404, <<>>))
    BY <1>1, <1>3, <2>1, <2>2, AnswerHandles
  <2> QED BY <1>1, <1>3, <2>3
<1>5. CASE workspace[c.arg] # 0
  <2> DEFINE body == <<c.arg, workspace[c.arg]>>
  <2>1. Answer(p, i, 200, body)
    BY <1>5 DEF HandleFileContent
  <2>2. AnswerOf(c, 200, body) \in CallRec
    <3>1. body \in File \X Nat /\ body[1] = c.arg
      BY <1>2 DEF PageTypes
    <3> HIDE DEF body
    <3> QED BY <1>1, <1>2, <3>1 DEF AnswerOf, CallRec, Viewed
  <2>3. Handled(p, i, AnswerOf(c, 200, body))
    BY <1>1, <1>3, <2>1, <2>2, AnswerHandles
  <2> QED BY <1>1, <1>3, <2>3
<1> QED BY <1>4, <1>5

(* An upload stays in flight while it is handled. *)
LEMMA UploadHandles ==
  ASSUME PageTypes, NEW p \in Page, NEW i \in DOMAIN calls[p], NEW c \in CallRec,
         calls[p][i].kind = "upload", c.kind = "upload", c.arg = calls[p][i].arg,
         CallsMove(p, i, {c}), workspace' \in [File -> Nat], page' = page
  PROVE  Handled(p, i, c)
<1>1. PageMove(p, page[p]) /\ page[p] \in State /\ OneUpload(calls[p])
  BY PageKept, CallAt
<1>2. Uploading(calls'[p])
  BY <1>1, UploadingAfter DEF CallsMove
<1>3. page[p].upload.busy
  BY DEF PageTypes, Uploading
<1>4. PageTypes'
  BY <1>1, <1>2, <1>3, PageTypesKept
<1> QED BY <1>4 DEF Handled

LEMMA HandleUploadIs ==
  ASSUME PageTypes, NEW p \in Page, NEW i \in DOMAIN calls[p], HandleUpload(p, i), page' = page
  PROVE  /\ calls[p][i].kind = "upload" /\ calls[p][i].stage = "sent"
         /\ UNCHANGED <<clients, sessionId, busy, turn, workspace, stream, transcript, unheard, budget>>
         /\ \E c : Handled(p, i, c)
<1> DEFINE c == calls[p][i]
<1>1. c \in CallRec /\ c.kind = "upload" /\ c.stage = "sent"
  BY CallAt DEF HandleUpload, At
<1>2. c.arg \in Seq(File) \ {<<>>}
  BY <1>1, CallCases
<1>3. UNCHANGED <<clients, sessionId, busy, turn, workspace, stream, transcript, unheard, budget>>
  BY DEF HandleUpload
<1>4. workspace' \in [File -> Nat]
  BY <1>3 DEF PageTypes
<1>5. CASE Answer(p, i, 413, <<>>)
  <2> DEFINE d == AnswerOf(c, 413, <<>>)
  <2>1. d \in CallRec
    BY <1>1, <1>2 DEF AnswerOf, CallRec, UploadCall
  <2>2. d.kind = "upload" /\ d.arg = c.arg
    BY <1>1 DEF AnswerOf
  <2>3. CallsMove(p, i, {d})
    BY <1>5, <2>1, CallAnswered
  <2> HIDE DEF d
  <2>4. Handled(p, i, d)
    BY <1>1, <1>4, <2>1, <2>2, <2>3, UploadHandles
  <2> QED BY <1>1, <1>3, <2>4
<1>6. CASE Advance(p, i, "read")
  <2> DEFINE d == [c EXCEPT !.stage = "read"]
  <2>1. c \in [kind : {"upload"}, arg : Seq(File) \ {<<>>}, stage : {"sent", "read", "written"}]
    BY <1>1 DEF CallRec, ChatCall, ResetCall, UploadCall, Listing, Listed, Viewing, Missing, Viewed
  <2>2. d \in CallRec
    BY <2>1 DEF CallRec, UploadCall
  <2>3. d.kind = "upload" /\ d.arg = c.arg
    BY <2>1
  <2>4. calls' = [calls EXCEPT ![p] = [calls[p] EXCEPT ![i] = d]]
    BY <1>6, CallAt DEF Advance
  <2> HIDE DEF d
  <2>5. CallsMove(p, i, {d})
    BY <1>1, <2>2, <2>3, <2>4, CallReplaced
  <2>6. Handled(p, i, d)
    BY <1>1, <1>4, <2>2, <2>3, <2>5, UploadHandles
  <2> QED BY <1>1, <1>3, <2>6
<1> QED BY <1>5, <1>6 DEF HandleUpload

LEMMA WriteUploadIs ==
  ASSUME PageTypes, NEW p \in Page, NEW i \in DOMAIN calls[p], WriteUpload(p, i), page' = page
  PROVE  /\ calls[p][i].kind = "upload" /\ calls[p][i].stage = "read"
         /\ UNCHANGED <<clients, sessionId, busy, turn, stream, transcript, unheard, budget>>
         /\ \E f \in File : workspace' = [workspace EXCEPT ![f] = @ + 1]
         /\ \E c : Handled(p, i, c) /\ c.stage = "written"
<1> DEFINE c == calls[p][i]
           d == [c EXCEPT !.stage = "written"]
<1>1. c \in CallRec /\ c.kind = "upload" /\ c.stage = "read"
  BY CallAt DEF WriteUpload, At
<1>2. c.arg \in Seq(File) \ {<<>>}
  BY <1>1, CallCases
<1>3. UNCHANGED <<clients, sessionId, busy, turn, stream, transcript, unheard, budget>>
  BY DEF WriteUpload
<1>4. PICK f \in File : workspace' = [workspace EXCEPT ![f] = @ + 1]
  <2>1. Head(c.arg) \in File
    BY <1>2
  <2> QED BY <2>1 DEF WriteUpload
<1>5. workspace' \in [File -> Nat]
  BY <1>4 DEF PageTypes
<1>6. c \in [kind : {"upload"}, arg : Seq(File) \ {<<>>}, stage : {"sent", "read", "written"}]
  BY <1>1 DEF CallRec, ChatCall, ResetCall, UploadCall, Listing, Listed, Viewing, Missing, Viewed
<1>7. d \in CallRec
  BY <1>6 DEF CallRec, UploadCall
<1>8. d.kind = "upload" /\ d.arg = c.arg /\ d.stage = "written"
  BY <1>6
<1>9. calls' = [calls EXCEPT ![p] = [calls[p] EXCEPT ![i] = d]]
  BY CallAt DEF WriteUpload, Advance
<1> HIDE DEF d
<1>10. CallsMove(p, i, {d})
  BY <1>1, <1>7, <1>8, <1>9, CallReplaced
<1>11. Handled(p, i, d)
  BY <1>1, <1>5, <1>7, <1>8, <1>10, UploadHandles
<1> QED BY <1>1, <1>3, <1>4, <1>8, <1>11

LEMMA FinishUploadIs ==
  ASSUME PageTypes, NEW p \in Page, NEW i \in DOMAIN calls[p], FinishUpload(p, i), page' = page
  PROVE  /\ calls[p][i].kind = "upload" /\ calls[p][i].stage = "written"
         /\ Broadcast(<<Workspace>>)
         /\ UNCHANGED <<clients, sessionId, busy, turn, workspace, transcript, budget>>
         /\ \E c : Handled(p, i, c)
<1> DEFINE c == calls[p][i]
           d == AnswerOf(c, 200, <<>>)
<1>1. c \in CallRec /\ c.kind = "upload" /\ c.stage = "written"
  BY CallAt DEF FinishUpload, At
<1>2. c.arg \in Seq(File) \ {<<>>}
  BY <1>1, CallCases
<1>3. /\ Broadcast(<<Workspace>>)
      /\ UNCHANGED <<clients, sessionId, busy, turn, workspace, transcript, budget>>
  BY DEF FinishUpload
<1>4. workspace' \in [File -> Nat]
  BY <1>3 DEF PageTypes
<1>5. d \in CallRec
  BY <1>1, <1>2 DEF AnswerOf, CallRec, UploadCall
<1>6. d.kind = "upload" /\ d.arg = c.arg
  BY <1>1 DEF AnswerOf
<1>7. CallsMove(p, i, {d})
  BY <1>5, CallAnswered DEF FinishUpload
<1> HIDE DEF d
<1>8. Handled(p, i, d)
  BY <1>1, <1>4, <1>5, <1>6, <1>7, UploadHandles
<1> QED BY <1>1, <1>3, <1>8

(* A listing has read one more section. *)
SectionRead(p, i, section, c) ==
  /\ Handled(p, i, c)
  /\ c \in Listing => c.listed = calls[p][i].listed \union section
  /\ c \notin Listing => File = calls[p][i].listed \union section
  /\ c.body = [f \in File |-> IF f \in section THEN workspace[f] ELSE calls[p][i].body[f]]

LEMMA HandleFilesIs ==
  ASSUME PageTypes, NEW p \in Page, NEW i \in DOMAIN calls[p],
         NEW section \in {Uploads, File \ Uploads}, HandleFiles(p, i, section), page' = page
  PROVE  /\ calls[p][i].kind = "files" /\ calls[p][i] \in Listing
         /\ UNCHANGED <<clients, sessionId, busy, turn, workspace, stream, transcript, unheard, budget>>
         /\ \E c : SectionRead(p, i, section, c)
<1> DEFINE c == calls[p][i]
           listed == c.listed \union section
           body == [f \in File |-> IF f \in section THEN workspace[f] ELSE c.body[f]]
<1>1. c \in CallRec /\ c.kind = "files" /\ c.stage = "sent"
  BY CallAt DEF HandleFiles, At
<1>2. c \in Listing
  BY <1>1, CallCases
<1>3. UNCHANGED <<clients, sessionId, busy, turn, workspace, stream, transcript, unheard, budget>>
  BY DEF HandleFiles
<1>4. workspace' \in [File -> Nat]
  BY <1>3 DEF PageTypes
<1>5. body \in [File -> Nat] /\ listed \in SUBSET File
  BY <1>2, UploadsAreFiles DEF PageTypes, Listing
<1>6. CASE listed = File
  <2> DEFINE d == AnswerOf(c, 200, body)
  <2>1. Answer(p, i, 200, body)
    BY <1>6 DEF HandleFiles
  <2>2. d.body = body /\ d.stage = "answered"
    BY DEF AnswerOf
  <2> HIDE DEF body
  <2>3. d \in CallRec
    BY <1>1, <1>2, <1>5 DEF AnswerOf, CallRec, Listing, Listed
  <2>4. Handled(p, i, d)
    BY <1>1, <1>3, <2>1, <2>3, AnswerHandles
  <2> HIDE DEF d
  <2>5. d \notin Listing
    BY <2>2 DEF Listing
  <2> QED BY <1>1, <1>2, <1>3, <1>6, <2>2, <2>4, <2>5 DEF body, SectionRead
<1>7. CASE listed # File
  <2> DEFINE d == [c EXCEPT !.listed = listed, !.body = body]
  <2>1. calls' = [calls EXCEPT ![p][i] = d]
    BY <1>7 DEF HandleFiles
  <2> HIDE DEF body, listed
  <2>2. d \in Listing /\ d.listed = listed /\ d.body = body
    BY <1>2, <1>5 DEF Listing
  <2>3. d.kind = c.kind /\ d.arg = c.arg /\ d.kind # "upload"
    BY <1>1, <1>2 DEF Listing
  <2> HIDE DEF d
  <2>4. d \in CallRec
    BY <2>2 DEF CallRec
  <2>5. calls' = [calls EXCEPT ![p] = [calls[p] EXCEPT ![i] = d]]
    BY <2>1, CallAt
  <2>6. CallsMove(p, i, {d})
    BY <2>3, <2>4, <2>5, CallReplaced
  <2>7. PageMove(p, page[p]) /\ page[p] \in State
    BY PageKept
  <2>8. PageTypes'
    BY <1>1, <1>4, <2>3, <2>6, <2>7, NoUploadMoves
  <2>9. Handled(p, i, d)
    BY <2>3, <2>4, <2>6, <2>8 DEF Handled
  <2> QED BY <1>1, <1>2, <1>3, <2>2, <2>9 DEF body, listed, SectionRead
<1> QED BY <1>6, <1>7

(* A page makes a step of its own; t is what becomes of its state.         *)
Paged(p, gone, new, t) ==
  /\ PageTypes' /\ t \in State
  /\ PageMove(p, t) /\ CallsMove(p, gone, new)

LEMMA FilesCallIs ==
  FilesCall \in CallRec /\ FilesCall.kind = "files" /\ FilesCall.stage = "sent"
  /\ FilesCall \in Listing /\ FilesCall.listed = {}
<1>1. FilesCall \in Listing
  BY DEF FilesCall, Listing, NoFiles
<1> QED BY <1>1 DEF FilesCall, CallRec

(* A fetch of the list is under way, or fails at once. *)
Fetches(p, gone) ==
  \/ CallsMove(p, gone, {FilesCall}) /\ UNCHANGED unheard
  \/ CallsMove(p, gone, {}) /\ unheard' = [unheard EXCEPT ![p] = @ \union {"files"}]

LEMMA LoadFilesNow ==
  ASSUME PageTypes, NEW p \in Page, LoadFiles(p, calls[p])
  PROVE  Fetches(p, 0)
<1>1. CASE Room(calls[p])
  <2>1. CallsMove(p, 0, {FilesCall})
    BY <1>1, CallSent, FilesCallIs DEF LoadFiles
  <2> QED BY <1>1, <2>1 DEF LoadFiles, Fetches
<1>2. CASE ~Room(calls[p])
  <2>1. calls' = calls
    BY <1>2 DEF LoadFiles, PageTypes
  <2>2. CallsMove(p, 0, {})
    BY <2>1, CallsKept
  <2> QED BY <1>2, <2>2 DEF LoadFiles, Fetches
<1> QED BY <1>1, <1>2

LEMMA LoadFilesAfter ==
  ASSUME PageTypes, NEW p \in Page, NEW i \in DOMAIN calls[p], LoadFiles(p, Others(p, i))
  PROVE  Fetches(p, i)
<1>1. CASE Room(Others(p, i))
  <2>1. CallsMove(p, i, {FilesCall})
    BY <1>1, CallFollowed, FilesCallIs DEF LoadFiles
  <2> QED BY <1>1, <2>1 DEF LoadFiles, Fetches
<1>2. CASE ~Room(Others(p, i))
  <2>1. CallsMove(p, i, {})
    BY <1>2, CallOver DEF LoadFiles, Over
  <2> QED BY <1>2, <2>1 DEF LoadFiles, Fetches
<1> QED BY <1>1, <1>2

LEMMA NothingGone ==
  ASSUME PageTypes, NEW p \in Page
  PROVE  0 \notin DOMAIN calls[p]
BY CallsDomain DEF PageTypes

LEMMA SubmitTurnIs ==
  ASSUME PageTypes, NEW p \in Page, NEW m \in Message, SubmitTurn(p, m)
  PROVE  /\ page[p].status # "working"
         /\ UNCHANGED <<clients, sessionId, busy, turn, workspace, stream, transcript, unheard>>
         /\ \E c : /\ Paged(p, 0, {c}, StatusChanged(page[p], "working"))
                   /\ c.kind = "chat" /\ c.stage = "sent"
<1> DEFINE c == Call("chat", m)
           t == StatusChanged(page[p], "working")
<1>1. c.kind = "chat" /\ c.stage = "sent" /\ c \in CallRec
  BY DEF SubmitTurn, Call, CallRec, ChatCall
<1>2. page[p] \in State
  BY DEF PageTypes
<1>3. t \in State /\ t.upload = page[p].upload
  BY <1>2, StatusChangedIs
<1>4. calls' = [calls EXCEPT ![p] = Append(calls[p], c)] /\ page' = [page EXCEPT ![p] = t]
      /\ UNCHANGED <<clients, sessionId, busy, turn, workspace, stream, transcript, unheard>>
  BY DEF SubmitTurn, Become
<1> HIDE DEF c, t
<1>5. CallsMove(p, 0, {c})
  BY <1>1, <1>4, CallSent
<1>6. PageMove(p, t)
  BY <1>3, <1>4, PageSet
<1>7. workspace' \in [File -> Nat]
  BY <1>4 DEF PageTypes
<1>8. PageTypes'
  BY <1>1, <1>3, <1>5, <1>6, <1>7, NothingGone, NoUploadMoves
<1>9. Paged(p, 0, {c}, t)
  BY <1>3, <1>5, <1>6, <1>8 DEF Paged
<1>10. page[p].status # "working"
  BY DEF SubmitTurn, CanSend
<1> QED BY <1>1, <1>4, <1>9, <1>10 DEF t

LEMMA NewChatIs ==
  ASSUME PageTypes, NEW p \in Page, NewChat(p)
  PROVE  /\ UNCHANGED <<clients, sessionId, busy, turn, workspace, stream, transcript, unheard>>
         /\ \E c : Paged(p, 0, {c}, page[p]) /\ c.kind = "reset"
<1> DEFINE c == Call("reset", <<>>)
<1>1. c.kind = "reset" /\ c.stage = "sent" /\ c \in CallRec
  BY DEF Call, CallRec, ResetCall
<1>2. calls' = [calls EXCEPT ![p] = Append(calls[p], c)] /\ page' = page
      /\ UNCHANGED <<clients, sessionId, busy, turn, workspace, stream, transcript, unheard>>
  BY DEF NewChat
<1> HIDE DEF c
<1>3. CallsMove(p, 0, {c})
  BY <1>1, <1>2, CallSent
<1>4. PageMove(p, page[p]) /\ page[p] \in State
  BY <1>2, PageKept
<1>5. workspace' \in [File -> Nat]
  BY <1>2 DEF PageTypes
<1>6. PageTypes'
  BY <1>1, <1>3, <1>4, <1>5, NothingGone, NoUploadMoves
<1> QED BY <1>1, <1>2, <1>3, <1>4, <1>6 DEF Paged

LEMMA UploadFilesIs ==
  ASSUME PageTypes, NEW p \in Page, NEW l \in UploadLists, UploadFiles(p, l)
  PROVE  /\ UNCHANGED <<clients, sessionId, busy, turn, workspace, stream, transcript, unheard>>
         /\ \E c : Paged(p, 0, {c}, UploadStarted(page[p])) /\ c.kind = "upload"
<1> DEFINE c == Call("upload", l)
           t == UploadStarted(page[p])
<1>1. c.kind = "upload" /\ c \in CallRec
  <2>1. l \in Seq(File) \ {<<>>}
    BY UploadListsAssumption, UploadsAreFiles DEF UploadFiles
  <2> QED BY <2>1 DEF Call, CallRec, UploadCall
<1>2. page[p] \in State /\ ~Uploading(calls[p])
  BY DEF PageTypes, UploadFiles
<1>3. t \in State /\ t.upload.busy
  BY <1>2, UploadStartedIs
<1>4. calls' = [calls EXCEPT ![p] = Append(calls[p], c)] /\ page' = [page EXCEPT ![p] = t]
      /\ UNCHANGED <<clients, sessionId, busy, turn, workspace, stream, transcript, unheard>>
  BY DEF UploadFiles, Become
<1> HIDE DEF c, t
<1>5. CallsMove(p, 0, {c})
  BY <1>1, <1>2, <1>4, CallSent
<1>6. PageMove(p, t)
  BY <1>3, <1>4, PageSet
<1>7. workspace' \in [File -> Nat] /\ OneUpload(calls[p])
  BY <1>4 DEF PageTypes
<1>8. Uploading(calls'[p])
  BY <1>1, <1>5, <1>7, NothingGone, UploadingAfter DEF CallsMove
<1>9. PageTypes'
  BY <1>3, <1>5, <1>6, <1>7, <1>8, PageTypesKept
<1>10. Paged(p, 0, {c}, t)
  BY <1>3, <1>5, <1>6, <1>9 DEF Paged
<1> QED BY <1>1, <1>4, <1>10 DEF t

LEMMA OpenViewerIs ==
  ASSUME PageTypes, NEW p \in Page, NEW f \in File, OpenViewer(p, f)
  PROVE  /\ UNCHANGED <<clients, sessionId, busy, turn, workspace, stream, transcript>>
         /\ \E c : /\ Paged(p, 0, {c}, ViewerOpened(page[p], f))
                   /\ c.kind = "view" /\ c.arg = f
<1> DEFINE c == Call("view", f)
           t == ViewerOpened(page[p], f)
<1>1. c.kind = "view" /\ c.arg = f /\ c \in CallRec
  BY DEF Call, CallRec, Viewing
<1>2. page[p] \in State
  BY DEF PageTypes
<1>3. t \in State /\ t.upload = page[p].upload
  BY <1>2, ViewerOpenedIs
<1>4. calls' = [calls EXCEPT ![p] = Append(calls[p], c)] /\ page' = [page EXCEPT ![p] = t]
      /\ UNCHANGED <<clients, sessionId, busy, turn, workspace, stream, transcript>>
  BY DEF OpenViewer, Become
<1> HIDE DEF c, t
<1>5. CallsMove(p, 0, {c})
  BY <1>1, <1>4, CallSent
<1>6. PageMove(p, t)
  BY <1>3, <1>4, PageSet
<1>7. workspace' \in [File -> Nat]
  BY <1>4 DEF PageTypes
<1>8. PageTypes'
  BY <1>1, <1>3, <1>5, <1>6, <1>7, NothingGone, NoUploadMoves
<1>9. Paged(p, 0, {c}, t)
  BY <1>3, <1>5, <1>6, <1>8 DEF Paged
<1> QED BY <1>1, <1>4, <1>9 DEF t

LEMMA CloseViewerIs ==
  ASSUME PageTypes, NEW p \in Page, CloseViewer(p)
  PROVE  /\ UNCHANGED <<clients, sessionId, busy, turn, workspace, stream, calls, transcript, unheard>>
         /\ Paged(p, 0, {}, ViewerClosed(page[p]))
<1> DEFINE t == ViewerClosed(page[p])
<1>1. page[p] \in State
  BY DEF PageTypes
<1>2. t \in State /\ t.upload = page[p].upload
  BY <1>1, ViewerClosedIs
<1>3. page' = [page EXCEPT ![p] = t]
      /\ UNCHANGED <<clients, sessionId, busy, turn, workspace, stream, calls, transcript, unheard>>
  BY DEF CloseViewer, Become
<1> HIDE DEF t
<1>4. CallsMove(p, 0, {})
  BY <1>3, CallsKept
<1>5. PageMove(p, t)
  BY <1>2, <1>3, PageSet
<1>6. workspace' \in [File -> Nat]
  BY <1>3 DEF PageTypes
<1>7. PageTypes'
  BY <1>2, <1>4, <1>5, <1>6, NothingGone, NoUploadMoves
<1>8. Paged(p, 0, {}, t)
  BY <1>2, <1>4, <1>5, <1>7 DEF Paged
<1> QED BY <1>3, <1>8 DEF t

(* A fetch is no upload: the page goes on as it is, or ends its upload. *)
LEMMA FetchesPaged ==
  ASSUME PageTypes, NEW p \in Page, NEW gone, NEW t \in State, Fetches(p, gone), PageMove(p, t),
         workspace' = workspace,
         \/ /\ t.upload = page[p].upload
            /\ gone \notin DOMAIN calls[p] \/ calls[p][gone].kind # "upload"
         \/ /\ t.upload.busy = FALSE
            /\ gone \in DOMAIN calls[p] /\ calls[p][gone].kind = "upload"
  PROVE  \E new \in {{}, {FilesCall}} : Paged(p, gone, new, t)
<1>1. PICK new \in {{}, {FilesCall}} : CallsMove(p, gone, new)
  BY DEF Fetches
<1>2. \A c \in new : c.kind # "upload"
  BY FilesCallIs
<1>3. workspace' \in [File -> Nat] /\ OneUpload(calls[p])
  BY DEF PageTypes
<1>4. CASE /\ t.upload = page[p].upload
           /\ gone \notin DOMAIN calls[p] \/ calls[p][gone].kind # "upload"
  <2>1. PageTypes'
    BY <1>1, <1>2, <1>3, <1>4, NoUploadMoves
  <2> QED BY <1>1, <2>1 DEF Paged
<1>5. CASE /\ t.upload.busy = FALSE
           /\ gone \in DOMAIN calls[p] /\ calls[p][gone].kind = "upload"
  <2>1. ~Uploading(calls'[p])
    BY <1>1, <1>2, <1>3, <1>5, UploadingAfter DEF CallsMove
  <2>2. PageTypes'
    BY <1>1, <1>3, <1>5, <2>1, PageTypesKept
  <2> QED BY <1>1, <2>2 DEF Paged
<1> QED BY <1>4, <1>5

LEMMA ReceiveIs ==
  ASSUME PageTypes, StreamTypes, NEW p \in Page, Receive(p)
  PROVE  /\ stream[p] \in Seq(Frame) /\ stream[p] # <<>> /\ Head(stream[p]) \in Frame
         /\ stream' = [stream EXCEPT ![p] = Tail(stream[p])]
         /\ UNCHANGED <<clients, sessionId, busy, turn, workspace, transcript, budget>>
         /\ Head(stream[p]).type # "workspace" => UNCHANGED <<calls, unheard>>
         /\ Head(stream[p]).type = "workspace" => Fetches(p, 0)
         /\ \E new \in {{}, {FilesCall}} :
              Paged(p, 0, new, HearConversation(page[p], Head(stream[p])))
<1> DEFINE f == Head(stream[p])
           t == HearConversation(page[p], f)
<1>1. stream[p] \in Seq(Frame) /\ stream[p] # <<>> /\ f \in Frame
  BY DEF StreamTypes, Receive
<1>2. /\ stream' = [stream EXCEPT ![p] = Tail(stream[p])]
      /\ UNCHANGED <<clients, sessionId, busy, turn, workspace, transcript, budget>>
      /\ f.type # "workspace" => Become(p, t) /\ UNCHANGED <<calls, unheard>>
      /\ f.type = "workspace" => LoadFiles(p, calls[p]) /\ UNCHANGED page
  BY DEF Receive
<1>3. page[p] \in State
  BY DEF PageTypes
<1> HIDE DEF f
<1>4. t \in State /\ t.upload = page[p].upload
  BY <1>1, <1>3, HearIs
<1>5. CASE f.type = "workspace"
  <2>1. t = page[p]
    BY <1>5, HearCases
  <2>2. PageMove(p, t) /\ Fetches(p, 0)
    BY <1>2, <1>5, <2>1, PageKept, LoadFilesNow
  <2> HIDE DEF t
  <2>3. \E new \in {{}, {FilesCall}} : Paged(p, 0, new, t)
    BY <1>2, <1>4, <2>2, NothingGone, FetchesPaged
  <2> QED BY <1>1, <1>2, <1>5, <2>2, <2>3 DEF t, f
<1>6. CASE f.type # "workspace"
  <2>1. CallsMove(p, 0, {})
    BY <1>2, <1>6, CallsKept
  <2> HIDE DEF t
  <2>2. PageMove(p, t)
    BY <1>2, <1>4, <1>6, PageSet DEF Become
  <2>3. workspace' \in [File -> Nat]
    BY <1>2 DEF PageTypes
  <2>4. PageTypes'
    BY <1>4, <2>1, <2>2, <2>3, NothingGone, NoUploadMoves
  <2>5. Paged(p, 0, {}, t)
    BY <1>4, <2>1, <2>2, <2>4 DEF Paged
  <2> QED BY <1>1, <1>2, <1>6, <2>5 DEF t, f
<1> QED BY <1>5, <1>6

(* The call is over and was no upload. *)
LEMMA OverPaged ==
  ASSUME PageTypes, NEW p \in Page, NEW i \in DOMAIN calls[p], NEW t \in State,
         calls[p][i].kind # "upload", t.upload = page[p].upload,
         Over(p, i), Become(p, t), workspace' = workspace
  PROVE  Paged(p, i, {}, t)
<1>1. CallsMove(p, i, {})
  BY CallOver
<1>2. PageMove(p, t)
  BY PageSet DEF Become
<1>3. workspace' \in [File -> Nat]
  BY DEF PageTypes
<1>4. PageTypes'
  BY <1>1, <1>2, <1>3, NoUploadMoves
<1> QED BY <1>1, <1>2, <1>4 DEF Paged

(* The call was the upload, and with it the uploads end. *)
LEMMA OverUploadPaged ==
  ASSUME PageTypes, NEW p \in Page, NEW i \in DOMAIN calls[p], NEW t \in State,
         calls[p][i].kind = "upload", t.upload.busy = FALSE,
         Over(p, i), Become(p, t), workspace' = workspace
  PROVE  Paged(p, i, {}, t)
<1>1. CallsMove(p, i, {})
  BY CallOver
<1>2. PageMove(p, t)
  BY PageSet DEF Become
<1>3. workspace' \in [File -> Nat] /\ OneUpload(calls[p])
  BY DEF PageTypes
<1>4. ~Uploading(calls'[p])
  BY <1>1, <1>3, UploadingAfter DEF CallsMove
<1>5. PageTypes'
  BY <1>1, <1>2, <1>3, <1>4, PageTypesKept
<1> QED BY <1>1, <1>2, <1>5 DEF Paged

LEMMA ChatAnswerIs ==
  ASSUME NEW s, NEW status \in {204, 409}
  PROVE  ChatAnswer(s, status) \in {s, AddMessage(s, "error", Local)}
BY DEF ChatAnswer

LEMMA AnswerChatIs ==
  ASSUME PageTypes, NEW p \in Page, NEW i \in DOMAIN calls[p], AnswerChat(p, i)
  PROVE  /\ calls[p][i].kind = "chat" /\ calls[p][i].stage = "answered"
         /\ UNCHANGED <<clients, sessionId, busy, turn, workspace, stream, transcript, unheard, budget>>
         /\ \E t \in {page[p], AddMessage(page[p], "error", Local)} : Paged(p, i, {}, t)
<1> DEFINE c == calls[p][i]
           t == ChatAnswer(page[p], c.status)
<1>1. c \in CallRec /\ c.kind = "chat" /\ c.stage = "answered" /\ page[p] \in State
  BY CallAt DEF AnswerChat, At
<1>2. c.status \in {204, 409}
  BY <1>1, CallCases
<1>3. t \in {page[p], AddMessage(page[p], "error", Local)}
  BY <1>2, ChatAnswerIs
<1>4. /\ Become(p, t) /\ Over(p, i)
      /\ UNCHANGED <<clients, sessionId, busy, turn, workspace, stream, transcript, unheard, budget>>
  BY DEF AnswerChat
<1> HIDE DEF t
<1>5. t \in State /\ t.upload = page[p].upload
  <2>1. "error" \in Roles /\ Local \in Nat
    BY DEF Roles, Local
  <2> DEFINE noted == AddMessage(page[p], "error", Local)
  <2>2. noted \in State /\ noted.upload = page[p].upload
    BY <1>1, <2>1, AddMessageIs
  <2> HIDE DEF noted
  <2>3. t = page[p] \/ t = noted
    BY <1>3 DEF noted
  <2> QED BY <1>1, <2>2, <2>3
<1>6. Paged(p, i, {}, t)
  BY <1>1, <1>4, <1>5, OverPaged
<1> QED BY <1>1, <1>3, <1>4, <1>6

LEMMA AnswerResetIs ==
  ASSUME PageTypes, NEW p \in Page, NEW i \in DOMAIN calls[p], AnswerReset(p, i)
  PROVE  /\ calls[p][i].kind = "reset"
         /\ UNCHANGED <<clients, sessionId, busy, turn, workspace, stream, transcript, budget>>
         /\ \E new \in {{}, {FilesCall}}, ok \in BOOLEAN :
              /\ Paged(p, i, new, IF ok THEN ConversationReset(page[p]) ELSE page[p])
              /\ Marked(p, (IF ok THEN Wiped(p) ELSE {}) \union IF new = {} THEN {"files"} ELSE {})
<1> DEFINE c == calls[p][i]
           ok == c.status = 204
           room == Room(Others(p, i))
           t == IF ok THEN ConversationReset(page[p]) ELSE page[p]
           new == IF room THEN {FilesCall} ELSE {}
<1>1. c \in CallRec /\ c.kind = "reset" /\ page[p] \in State
  BY CallAt DEF AnswerReset, At
<1>2. /\ Become(p, t)
      /\ calls' = [calls EXCEPT ![p] = IF room THEN Append(Others(p, i), FilesCall)
                                       ELSE Others(p, i)]
      /\ Marked(p, (IF ok THEN Wiped(p) ELSE {}) \union IF room THEN {} ELSE {"files"})
      /\ UNCHANGED <<clients, sessionId, busy, turn, workspace, stream, transcript, budget>>
  BY Zenon DEF AnswerReset
<1>3. t \in State /\ t.upload = page[p].upload
  BY <1>1, ConversationResetIs
<1>4. ok \in BOOLEAN
  OBVIOUS
<1> HIDE DEF ok, room, t
<1>5. CallsMove(p, i, new)
  <2>1. CASE room
    BY <1>2, <2>1, CallFollowed, FilesCallIs
  <2>2. CASE ~room
    BY <1>2, <2>2, CallOver DEF Over
  <2> QED BY <2>1, <2>2
<1>6. PageMove(p, t)
  BY <1>2, <1>3, PageSet DEF Become
<1>7. workspace' \in [File -> Nat]
  BY <1>2 DEF PageTypes
<1>8. new \in {{}, {FilesCall}} /\ (room <=> new # {}) /\ \A d \in new : d.kind # "upload"
  BY FilesCallIs
<1> HIDE DEF new
<1>9. PageTypes'
  BY <1>1, <1>3, <1>5, <1>6, <1>7, <1>8, NoUploadMoves
<1>10. Paged(p, i, new, t)
  BY <1>3, <1>5, <1>6, <1>9 DEF Paged
<1>11. Marked(p, (IF ok THEN Wiped(p) ELSE {}) \union IF new = {} THEN {"files"} ELSE {})
  BY <1>2, <1>8 DEF Marked
<1> QED BY <1>1, <1>2, <1>4, <1>8, <1>10, <1>11 DEF t

LEMMA AnswerFilesIs ==
  ASSUME PageTypes, NEW p \in Page, NEW i \in DOMAIN calls[p], AnswerFiles(p, i)
  PROVE  /\ calls[p][i] \in Listed
         /\ UNCHANGED <<clients, sessionId, busy, turn, workspace, stream, transcript, budget>>
         /\ Paged(p, i, {}, FilesLoaded(page[p], calls[p][i].body))
         /\ Marked(p, IF Older(calls[p][i].body, page[p].files) THEN {"files"} ELSE {})
<1> DEFINE c == calls[p][i]
           t == FilesLoaded(page[p], c.body)
<1>1. c \in CallRec /\ c.kind = "files" /\ c.stage = "answered" /\ page[p] \in State
  BY CallAt DEF AnswerFiles, At
<1>2. c \in Listed
  BY <1>1 DEF CallRec, ChatCall, ResetCall, UploadCall, Listing, Viewing, Missing, Viewed
<1>3. t \in State /\ t.upload = page[p].upload
  <2>1. c.body \in [File -> Nat]
    BY <1>2 DEF Listed
  <2> QED BY <1>1, <2>1, FilesLoadedIs
<1>4. /\ Become(p, t) /\ Over(p, i)
      /\ Marked(p, IF Older(c.body, page[p].files) THEN {"files"} ELSE {})
      /\ UNCHANGED <<clients, sessionId, busy, turn, workspace, stream, transcript, budget>>
  BY DEF AnswerFiles
<1> HIDE DEF t
<1>5. Paged(p, i, {}, t)
  BY <1>1, <1>3, <1>4, OverPaged
<1> QED BY <1>2, <1>4, <1>5 DEF t

(* What a page sends next once an upload is answered. *)
Sent(d) == d.stage = "sent" /\ (d.kind = "upload" \/ (d.kind = "files" /\ d = FilesCall))

LEMMA AnswerUploadIs ==
  ASSUME PageTypes, NEW p \in Page, NEW i \in DOMAIN calls[p], AnswerUpload(p, i)
  PROVE  /\ calls[p][i].kind = "upload" /\ calls[p][i].stage = "answered"
         /\ UNCHANGED <<clients, sessionId, busy, turn, workspace, stream, transcript, budget>>
         /\ unheard' = unheard \/ Fetches(p, i)
         /\ \E t \in {page[p], UploadEnded(page[p], TRUE), UploadEnded(page[p], FALSE)} : \E new :
              /\ Paged(p, i, new, t)
              /\ \A d \in new : Sent(d)
<1> DEFINE c == calls[p][i]
           rest == Tail(c.arg)
<1>1. c \in CallRec /\ c.kind = "upload" /\ c.stage = "answered" /\ page[p] \in State
      /\ OneUpload(calls[p])
  BY CallAt DEF AnswerUpload, At
<1>2. c.arg \in Seq(File) \ {<<>>}
  BY <1>1, CallCases
<1>3. UNCHANGED <<clients, sessionId, busy, turn, workspace, stream, transcript, budget>>
  BY DEF AnswerUpload
<1>4. TRUE \in BOOLEAN /\ FALSE \in BOOLEAN
  OBVIOUS
<1>5. CASE c.status # 200
  <2> DEFINE t == UploadEnded(page[p], TRUE)
  <2>1. t \in State /\ t.upload.busy = FALSE
    BY <1>1, <1>4, UploadEndedIs
  <2>2. Become(p, t) /\ Over(p, i) /\ UNCHANGED unheard
    BY <1>5 DEF AnswerUpload
  <2> HIDE DEF t
  <2>3. Paged(p, i, {}, t)
    BY <1>1, <1>3, <2>1, <2>2, OverUploadPaged
  <2>4. \E new : Paged(p, i, new, t) /\ \A d \in new : Sent(d)
    BY <2>3
  <2> QED BY <1>1, <1>3, <2>2, <2>4 DEF t
<1>6. CASE c.status = 200 /\ rest # <<>>
  <2> DEFINE d == Call("upload", rest)
  <2>1. /\ calls' = [calls EXCEPT ![p] = Append(Others(p, i), d)]
        /\ UNCHANGED <<page, unheard>>
    BY <1>6 DEF AnswerUpload
  <2>2. rest \in Seq(File) \ {<<>>}
    BY <1>2, <1>6
  <2>3. d \in CallRec /\ d.kind = "upload" /\ d.stage = "sent"
    BY <2>2 DEF Call, CallRec, UploadCall
  <2> HIDE DEF d
  <2>4. CallsMove(p, i, {d})
    BY <1>1, <2>1, <2>3, CallFollowed
  <2>5. PageMove(p, page[p])
    BY <2>1, PageKept
  <2>6. Uploading(calls'[p])
    BY <1>1, <2>3, <2>4, UploadingAfter DEF CallsMove
  <2>7. page[p].upload.busy
    BY <1>1 DEF PageTypes, Uploading
  <2>8. workspace' \in [File -> Nat]
    BY <1>3 DEF PageTypes
  <2>9. PageTypes'
    BY <1>1, <2>4, <2>5, <2>6, <2>7, <2>8, PageTypesKept
  <2>10. Paged(p, i, {d}, page[p])
    BY <1>1, <2>4, <2>5, <2>9 DEF Paged
  <2>11. \A e \in {d} : Sent(e)
    BY <2>3 DEF Sent
  <2>12. \E new : Paged(p, i, new, page[p])
                  /\ \A e \in new : Sent(e)
    BY <2>10, <2>11
  <2> QED BY <1>1, <1>3, <2>1, <2>12
<1>7. CASE c.status = 200 /\ rest = <<>>
  <2> DEFINE t == UploadEnded(page[p], FALSE)
  <2>1. t \in State /\ t.upload.busy = FALSE
    BY <1>1, <1>4, UploadEndedIs
  <2>2. Become(p, t) /\ LoadFiles(p, Others(p, i))
    BY <1>7 DEF AnswerUpload
  <2> HIDE DEF t
  <2>3. PageMove(p, t) /\ Fetches(p, i)
    BY <2>1, <2>2, PageSet, LoadFilesAfter DEF Become
  <2>4. PICK new \in {{}, {FilesCall}} : Paged(p, i, new, t)
    BY <1>1, <1>3, <2>1, <2>3, FetchesPaged
  <2>5. \A d \in new : Sent(d)
    BY FilesCallIs DEF Sent
  <2> QED BY <1>1, <1>3, <2>3, <2>4, <2>5 DEF t
<1> QED BY <1>5, <1>6, <1>7

LEMMA AnswerViewIs ==
  ASSUME PageTypes, NEW p \in Page, NEW i \in DOMAIN calls[p], AnswerView(p, i)
  PROVE  /\ calls[p][i].kind = "view"
         /\ UNCHANGED <<clients, sessionId, busy, turn, workspace, stream, transcript, unheard, budget>>
         /\ \/ Paged(p, i, {}, ViewerFailed(page[p]))
            \/ /\ calls[p][i].body \in File \X Nat /\ calls[p][i].body[1] = calls[p][i].arg
               /\ Paged(p, i, {}, ViewerLoaded(page[p], calls[p][i].body))
<1> DEFINE c == calls[p][i]
<1>1. c \in CallRec /\ c.kind = "view" /\ c.stage = "answered" /\ page[p] \in State
  BY CallAt DEF AnswerView, At
<1>2. /\ Become(p, IF c.status = 200 THEN ViewerLoaded(page[p], c.body) ELSE ViewerFailed(page[p]))
      /\ Over(p, i)
      /\ UNCHANGED <<clients, sessionId, busy, turn, workspace, stream, transcript, unheard, budget>>
  BY DEF AnswerView
<1>3. CASE c.status = 200
  <2>1. c.body \in File \X Nat /\ c.body[1] = c.arg
    <3> HIDE DEF c
    <3>1. c \notin ChatCall /\ c \notin ResetCall /\ c \notin UploadCall
      BY <1>1 DEF ChatCall, ResetCall, UploadCall
    <3>2. c \notin Listing /\ c \notin Listed
      BY <1>1 DEF Listing, Listed
    <3>3. c \notin Viewing /\ c \notin Missing
      BY <1>1, <1>3 DEF Viewing, Missing
    <3>4. c \in Viewed
      BY <1>1, <3>1, <3>2, <3>3 DEF CallRec
    <3> QED BY <3>4 DEF Viewed
  <2> DEFINE t == ViewerLoaded(page[p], c.body)
  <2>2. t \in State /\ t.upload = page[p].upload
    BY <1>1, <2>1, ViewerLoadedIs
  <2>3. Become(p, t)
    BY <1>2, <1>3
  <2> HIDE DEF t
  <2>4. Paged(p, i, {}, t)
    BY <1>1, <1>2, <2>2, <2>3, OverPaged
  <2> QED BY <1>1, <1>2, <2>1, <2>4 DEF t
<1>4. CASE c.status # 200
  <2> DEFINE t == ViewerFailed(page[p])
  <2>1. t \in State /\ t.upload = page[p].upload
    BY <1>1, ViewerFailedIs
  <2>2. Become(p, t)
    BY <1>2, <1>4
  <2> HIDE DEF t
  <2>3. Paged(p, i, {}, t)
    BY <1>1, <1>2, <2>1, <2>2, OverPaged
  <2> QED BY <1>1, <1>2, <2>3 DEF t
<1> QED BY <1>3, <1>4

LEMMA RejectIs ==
  ASSUME PageTypes, NEW p \in Page, NEW i \in DOMAIN calls[p], Reject(p, i)
  PROVE  /\ calls[p][i].stage \in {"sent", "answered"}
         /\ UNCHANGED <<clients, sessionId, busy, turn, workspace, stream, transcript>>
         /\ \E t \in State :
              /\ Paged(p, i, {}, t)
              /\ t.messages = page[p].messages /\ t.status = page[p].status
              /\ t.files = page[p].files
              /\ t.viewer.file = page[p].viewer.file /\ t.viewer.text = page[p].viewer.text
         /\ \E what \in SUBSET {"files", "status"} :
              /\ Marked(p, what)
              /\ calls[p][i].kind = "files" => "files" \in what
              /\ calls[p][i].kind = "chat" /\ calls[p][i].stage = "sent" /\ ~Pending(p, "status")
                   => "status" \in what
<1> DEFINE c == calls[p][i]
           t == CASE c.kind = "upload" -> UploadEnded(page[p], TRUE)
                  [] c.kind = "view"   -> ViewerFailed(page[p])
                  [] OTHER             -> page[p]
           what == CASE c.kind = "files" -> {"files"}
                     [] c.kind = "chat" /\ c.stage = "sent" /\ ~Pending(p, "status") -> {"status"}
                     [] OTHER -> {}
<1>1. page[p] \in State /\ c.stage \in {"sent", "answered"}
  BY CallAt DEF Reject
<1>2. /\ Over(p, i) /\ Become(p, t) /\ Marked(p, what)
      /\ UNCHANGED <<clients, sessionId, busy, turn, workspace, stream, transcript>>
  BY Zenon DEF Reject
<1>3. /\ what \in SUBSET {"files", "status"}
      /\ c.kind = "files" => "files" \in what
      /\ c.kind = "chat" /\ c.stage = "sent" /\ ~Pending(p, "status") => "status" \in what
  <2>1. CASE c.kind = "files"
    <3>1. what = {"files"}
      BY <2>1, Zenon
    <3> QED BY <2>1, <3>1
  <2>2. CASE c.kind = "chat" /\ c.stage = "sent" /\ ~Pending(p, "status")
    <3>1. c.kind # "files"
      BY <2>2
    <3>2. what = {"status"}
      BY <2>2, <3>1, Zenon
    <3> QED BY <2>2, <3>1, <3>2
  <2>3. CASE c.kind # "files" /\ ~(c.kind = "chat" /\ c.stage = "sent" /\ ~Pending(p, "status"))
    <3>1. what = {}
      BY <2>3, Zenon
    <3> QED BY <2>3, <3>1
  <2> QED BY <2>1, <2>2, <2>3
<1>4. CASE c.kind = "upload"
  <2>1. t = UploadEnded(page[p], TRUE)
    BY <1>4, Zenon
  <2> HIDE DEF t, what
  <2>2. /\ t \in State /\ t.upload.busy = FALSE
        /\ t.messages = page[p].messages /\ t.status = page[p].status
        /\ t.files = page[p].files /\ t.viewer = page[p].viewer
    BY <1>1, <2>1, UploadEndedIs
  <2>3. Paged(p, i, {}, t)
    BY <1>2, <1>4, <2>2, OverUploadPaged
  <2> QED BY <1>1, <1>2, <1>3, <2>2, <2>3
<1>5. CASE c.kind # "upload"
  <2>1. t = ViewerFailed(page[p]) \/ t = page[p]
    <3>1. CASE c.kind = "view"
      <4>1. t = ViewerFailed(page[p])
        BY <1>5, <3>1, Zenon
      <4> QED BY <4>1
    <3>2. CASE c.kind # "view"
      <4>1. t = page[p]
        BY <1>5, <3>2, Zenon
      <4> QED BY <4>1
    <3> QED BY <3>1, <3>2
  <2> HIDE DEF t, what
  <2>2. /\ t \in State /\ t.upload = page[p].upload
        /\ t.messages = page[p].messages /\ t.status = page[p].status
        /\ t.files = page[p].files
        /\ t.viewer.file = page[p].viewer.file /\ t.viewer.text = page[p].viewer.text
    BY <1>1, <2>1, ViewerFailedIs
  <2>3. Paged(p, i, {}, t)
    BY <1>2, <1>5, <2>2, OverPaged
  <2> QED BY <1>1, <1>2, <1>3, <2>2, <2>3
<1> QED BY <1>4, <1>5

-----------------------------------------------------------------------------
(* The steps there are.                                                    *)

Handles(p, i) ==
  /\ page' = page
  /\ \/ HandleChat(p, i) \/ HandleReset(p, i) \/ HandleFileContent(p, i)
     \/ HandleUpload(p, i) \/ WriteUpload(p, i) \/ FinishUpload(p, i)
     \/ \E s \in {Uploads, File \ Uploads} : HandleFiles(p, i, s)

Agent ==
  /\ page' = page
  /\ \/ AgentSession \/ AgentTrace \/ TurnSucceeds \/ TurnFails
     \/ \E f \in File \ Uploads : AgentWrites(f)

Connects(p) == page' = page /\ Connect(p)
Drops(p) == page' = page /\ Drop(p)

UserActs(p) ==
  \/ NewChat(p) \/ CloseViewer(p)
  \/ \E m \in Message : SubmitTurn(p, m)
  \/ \E l \in UploadLists : UploadFiles(p, l)
  \/ \E f \in File : OpenViewer(p, f)

GetsAnswer(p, i) ==
  \/ AnswerChat(p, i) \/ AnswerReset(p, i) \/ AnswerFiles(p, i)
  \/ AnswerUpload(p, i) \/ AnswerView(p, i) \/ Reject(p, i)

LEMMA Steps ==
  ASSUME Bounded, Next
  PROVE  \/ Agent
         \/ \E p \in Page : \/ Connects(p) \/ Drops(p) \/ UserActs(p) \/ Receive(p)
                            \/ \E i \in DOMAIN calls[p] : Handles(p, i) \/ GetsAnswer(p, i)
<1>1. budget.tabs \subseteq Page
  BY DEF Bounded
<1>2. CASE ServerStep
  BY <1>1, <1>2 DEF ServerStep, Handle, Handles, Agent, Connects, Drops
<1>3. CASE \E p \in budget.tabs : PageStep(p)
  BY <1>1, <1>3 DEF PageStep, Answered, Rows, UserActs, GetsAnswer
<1> QED BY <1>2, <1>3 DEF Next

(* What the agent does to the conversation and the streams. *)
LEMMA FramesAre ==
  ASSUME NEW n \in Nat \ {0}
  PROVE  /\ User(n) \in Frame /\ Reply(n) \in Frame /\ Error(n) \in Frame /\ Trace(n) \in Frame
         /\ Status("idle") \in Frame /\ Status("working") \in Frame
         /\ Reset \in Frame /\ Workspace \in Frame
<1>1. User(n) \in SaidFrame /\ Reply(n) \in SaidFrame /\ Error(n) \in SaidFrame
      /\ Trace(n) \in SaidFrame
  BY DEF User, Reply, Error, Trace, SaidFrame
<1>2. Status("idle") \in [type : {"status"}, state : {"idle", "working"}]
      /\ Status("working") \in [type : {"status"}, state : {"idle", "working"}]
  BY DEF Status
<1>3. Reset \in [type : {"reset", "workspace"}] /\ Workspace \in [type : {"reset", "workspace"}]
  BY DEF Reset, Workspace
<1> QED BY <1>1, <1>2, <1>3 DEF Frame

LEMMA StaticFrames == Reset \in Frame /\ Workspace \in Frame
BY FramesAre

LEMMA FrameLists ==
  ASSUME NEW f \in Frame, NEW g \in Frame, NEW h \in Frame
  PROVE  <<f>> \in Seq(Frame) /\ <<f, g>> \in Seq(Frame) /\ <<f, g, h>> \in Seq(Frame)
OBVIOUS

(* The conversation: what each step does to the turn, the session and the  *)
(* transcript.                                                             *)
Begins ==
  /\ ~busy /\ busy' = TRUE
  /\ turn' = [of |-> turn.of + 1, next |-> sessionId]
  /\ transcript' = Append(transcript, [role |-> "user", of |-> turn.of + 1])
  /\ UNCHANGED <<clients, sessionId>>
Forgets ==
  /\ ~busy /\ sessionId' = {} /\ transcript' = <<>> /\ UNCHANGED <<clients, busy, turn>>
Names ==
  /\ busy /\ turn.of \notin turn.next
  /\ turn' = [turn EXCEPT !.next = @ \union {turn.of}]
  /\ sessionId' \in {turn'.next, sessionId}
  /\ UNCHANGED <<clients, busy, transcript>>
Succeeds ==
  /\ busy /\ busy' = FALSE /\ turn.of \in turn.next
  /\ sessionId' = turn.next
  /\ transcript' = Append(transcript, [role |-> "assistant", of |-> turn.of])
  /\ UNCHANGED <<clients, turn>>
Fails ==
  /\ busy /\ busy' = FALSE
  /\ transcript' = Append(transcript, [role |-> "error", of |-> turn.of])
  /\ UNCHANGED <<clients, turn, sessionId>>
Nothing == UNCHANGED <<sessionId, busy, turn, transcript>>

LEMMA ConversationSteps ==
  ASSUME Types, Next
  PROVE  \/ Begins \/ Forgets \/ Names \/ Succeeds \/ Fails
         \/ Nothing /\ clients' \subseteq Page
<1>1. PageTypes /\ StreamTypes /\ Bounded /\ clients \subseteq Page
  BY DEF Types, TurnTypes
<1>2. CASE Agent
  <2>1. AgentSession => Names
    BY DEF AgentSession, Names
  <2>2. TurnSucceeds => Succeeds
    BY DEF TurnSucceeds, Succeeds
  <2>3. TurnFails => Fails
    BY DEF TurnFails, Fails
  <2>4. AgentTrace => Nothing /\ clients' = clients
    BY DEF AgentTrace, Nothing
  <2>5. \A f \in File \ Uploads : AgentWrites(f) => Nothing /\ clients' = clients
    BY DEF AgentWrites, Nothing
  <2> QED BY <1>1, <1>2, <2>1, <2>2, <2>3, <2>4, <2>5 DEF Agent
<1>3. ASSUME NEW p \in Page, Connects(p) PROVE Nothing /\ clients' \subseteq Page
  BY <1>1, <1>3 DEF Connects, Connect, Nothing
<1>4. ASSUME NEW p \in Page, Drops(p) PROVE Nothing /\ clients' \subseteq Page
  BY <1>1, <1>4 DEF Drops, Drop, Nothing
<1>5. ASSUME NEW p \in Page, UserActs(p) PROVE Nothing /\ clients' = clients
  BY <1>5 DEF UserActs, NewChat, CloseViewer, SubmitTurn, UploadFiles, OpenViewer, Nothing
<1>6. ASSUME NEW p \in Page, Receive(p) PROVE Nothing /\ clients' = clients
  BY <1>6 DEF Receive, Nothing
<1>7. ASSUME NEW p \in Page, NEW i \in DOMAIN calls[p], Handles(p, i)
      PROVE  Begins \/ Forgets \/ (Nothing /\ clients' = clients)
  <2>1. CASE HandleChat(p, i)
    <3>1. (busy => Refuse(p, i, 409)) /\ (~busy => StartTurn(p, i)) /\ clients' = clients
      BY <1>1, <1>7, <2>1, HandleChatIs DEF Handles
    <3> QED BY <3>1 DEF Refuse, StartTurn, Begins, Nothing
  <2>2. CASE HandleReset(p, i)
    <3>1. /\ busy => Refuse(p, i, 409)
          /\ ~busy => sessionId' = {} /\ transcript' = <<>> /\ UNCHANGED <<busy, turn>>
          /\ clients' = clients
      BY <1>1, <1>7, <2>2, HandleResetIs DEF Handles
    <3> QED BY <3>1 DEF Refuse, Forgets, Nothing
  <2>3. CASE HandleFileContent(p, i)
    BY <2>3 DEF HandleFileContent, Nothing
  <2>4. CASE HandleUpload(p, i)
    BY <2>4 DEF HandleUpload, Nothing
  <2>5. CASE WriteUpload(p, i)
    BY <2>5 DEF WriteUpload, Nothing
  <2>6. CASE FinishUpload(p, i)
    BY <2>6 DEF FinishUpload, Nothing
  <2>7. CASE \E s \in {Uploads, File \ Uploads} : HandleFiles(p, i, s)
    BY <2>7 DEF HandleFiles, Nothing
  <2> QED BY <1>7, <2>1, <2>2, <2>3, <2>4, <2>5, <2>6, <2>7 DEF Handles
<1>8. ASSUME NEW p \in Page, NEW i \in DOMAIN calls[p], GetsAnswer(p, i)
      PROVE  Nothing /\ clients' = clients
  <2>1. CASE AnswerReset(p, i)
    BY <2>1, <1>1, AnswerResetIs DEF Nothing
  <2>2. CASE ~AnswerReset(p, i)
    BY <1>8, <2>2 DEF GetsAnswer, AnswerChat, AnswerFiles, AnswerUpload, AnswerView, Reject, Nothing
  <2> QED BY <2>1, <2>2
<1> QED BY <1>1, <1>2, <1>3, <1>4, <1>5, <1>6, <1>7, <1>8, Steps

LEMMA TurnTypesStep ==
  ASSUME Types, Next
  PROVE  TurnTypes'
<1>1. /\ clients \subseteq Page /\ busy \in BOOLEAN
      /\ turn \in [of : Nat, next : SUBSET Nat]
      /\ sessionId \subseteq 1 .. turn.of /\ turn.next \subseteq 1 .. turn.of
      /\ busy => turn.of # 0
      /\ transcript \in Seq(Note)
  BY DEF Types, TurnTypes
<1>2. \A role \in Roles, n \in Nat : Append(transcript, [role |-> role, of |-> n]) \in Seq(Note)
  <2> TAKE role \in Roles, n \in Nat
  <2>1. [role |-> role, of |-> n] \in Note
    BY DEF Note
  <2> QED BY <1>1, <2>1, AppendProperties
<1>3. "user" \in Roles /\ "assistant" \in Roles /\ "error" \in Roles
  BY DEF Roles
<1>4. CASE Begins
  <2>1. transcript' \in Seq(Note) /\ turn' \in [of : Nat, next : SUBSET Nat]
        /\ turn'.of = turn.of + 1 /\ turn'.next = sessionId /\ sessionId' = sessionId
        /\ clients' = clients /\ busy' = TRUE
    BY <1>1, <1>2, <1>3, <1>4 DEF Begins
  <2>2. 1 .. turn.of \subseteq 1 .. (turn.of + 1) /\ turn.of + 1 # 0
    BY <1>1
  <2> QED BY <1>1, <2>1, <2>2 DEF TurnTypes
<1>5. CASE Forgets
  <2>1. <<>> \in Seq(Note)
    BY EmptySeq
  <2> QED BY <1>1, <1>5, <2>1 DEF Forgets, TurnTypes
<1>6. CASE Names
  <2>1. turn.of \in 1 .. turn.of /\ turn.of \in Nat
    BY <1>1, <1>6 DEF Names
  <2>2. turn' \in [of : Nat, next : SUBSET Nat] /\ turn'.of = turn.of
        /\ turn'.next = turn.next \union {turn.of}
    BY <1>1, <1>6, <2>1 DEF Names
  <2>3. sessionId' \subseteq 1 .. turn.of /\ clients' = clients /\ busy' = busy
        /\ transcript' = transcript
    BY <1>1, <1>6, <2>1, <2>2 DEF Names
  <2> QED BY <1>1, <2>1, <2>2, <2>3 DEF TurnTypes
<1>7. CASE Succeeds
  BY <1>1, <1>2, <1>3, <1>7 DEF Succeeds, TurnTypes
<1>8. CASE Fails
  BY <1>1, <1>2, <1>3, <1>8 DEF Fails, TurnTypes
<1>9. CASE Nothing /\ clients' \subseteq Page
  BY <1>1, <1>9 DEF Nothing, TurnTypes
<1> QED BY <1>4, <1>5, <1>6, <1>7, <1>8, <1>9, ConversationSteps

LEMMA BoundedStep ==
  ASSUME Types, Next
  PROVE  Bounded'
<1>1. "tabs" \in DOMAIN budget /\ budget.tabs \subseteq Page
  BY DEF Types, Bounded
<1>2. ASSUME NEW what \in HowOften, Spend(what)
      PROVE  Bounded'
  <2>1. what # "tabs" /\ budget' = [budget EXCEPT ![what] = @ - 1]
    BY <1>2 DEF Spend, HowOften
  <2>2. DOMAIN budget' = DOMAIN budget /\ budget'["tabs"] = budget["tabs"]
    BY <1>1, <2>1
  <2> QED BY <1>1, <2>2 DEF Bounded
<1>3. budget' = budget => Bounded'
  BY <1>1 DEF Bounded
<1>4. {"submits", "resets", "uploads", "views", "closings", "drops", "losses", "failures",
       "outputs", "traces"} \subseteq HowOften
  BY DEF HowOften
<1>5. PageTypes
  BY DEF Types
<1>6. CASE Agent
  BY <1>2, <1>3, <1>4, <1>6
     DEF Agent, AgentSession, AgentTrace, TurnSucceeds, TurnFails, AgentWrites
<1>7. ASSUME NEW p \in Page, Connects(p) \/ Drops(p) \/ UserActs(p) \/ Receive(p) PROVE Bounded'
  <2>1. CASE Connects(p) \/ Drops(p) \/ Receive(p)
    BY <1>2, <1>3, <1>4, <2>1 DEF Connects, Connect, Drops, Drop, Receive
  <2>2. CASE UserActs(p)
    BY <1>2, <1>4, <2>2 DEF UserActs, NewChat, CloseViewer, SubmitTurn, UploadFiles, OpenViewer
  <2> QED BY <1>7, <2>1, <2>2
<1>8. ASSUME NEW p \in Page, NEW i \in DOMAIN calls[p], Handles(p, i) PROVE budget' = budget
  <2>1. CASE HandleChat(p, i) \/ HandleReset(p, i)
    BY <2>1 DEF HandleChat, HandleReset
  <2>2. CASE HandleFileContent(p, i) \/ HandleUpload(p, i) \/ WriteUpload(p, i) \/ FinishUpload(p, i)
    BY <2>2 DEF HandleFileContent, HandleUpload, WriteUpload, FinishUpload
  <2>3. CASE \E s \in {Uploads, File \ Uploads} : HandleFiles(p, i, s)
    BY <2>3 DEF HandleFiles
  <2> QED BY <1>8, <2>1, <2>2, <2>3 DEF Handles
<1>9. ASSUME NEW p \in Page, NEW i \in DOMAIN calls[p], GetsAnswer(p, i) PROVE Bounded'
  <2>1. CASE AnswerReset(p, i)
    BY <2>1, <1>3, <1>5, AnswerResetIs
  <2>2. CASE AnswerChat(p, i) \/ AnswerFiles(p, i) \/ AnswerUpload(p, i) \/ AnswerView(p, i)
    BY <2>2, <1>3 DEF AnswerChat, AnswerFiles, AnswerUpload, AnswerView
  <2>3. CASE Reject(p, i)
    BY <2>3, <1>2, <1>4 DEF Reject
  <2> QED BY <1>9, <2>1, <2>2, <2>3 DEF GetsAnswer
<1>10. Bounded
  BY DEF Types
<1> QED BY <1>3, <1>6, <1>7, <1>8, <1>9, <1>10, Steps

LEMMA PageTypesStep ==
  ASSUME Types, Next
  PROVE  PageTypes'
<1>1. PageTypes /\ StreamTypes /\ Bounded
  BY DEF Types
<1>2. ASSUME UNCHANGED <<calls, page>>, workspace' \in [File -> Nat] PROVE PageTypes'
  BY <1>1, <1>2 DEF PageTypes
<1>3. workspace' = workspace => workspace' \in [File -> Nat]
  BY <1>1 DEF PageTypes
<1>4. CASE Agent
  <2>1. ASSUME NEW f \in File, AgentWrites(f) PROVE calls' = calls /\ workspace' \in [File -> Nat]
    BY <1>1, <2>1 DEF AgentWrites, PageTypes
  <2>2. AgentSession \/ AgentTrace \/ TurnSucceeds \/ TurnFails
          => UNCHANGED <<calls, workspace>>
    BY DEF AgentSession, AgentTrace, TurnSucceeds, TurnFails
  <2> QED BY <1>2, <1>3, <1>4, <2>1, <2>2 DEF Agent
<1>5. ASSUME NEW p \in Page, Connects(p) \/ Drops(p) PROVE PageTypes'
  BY <1>2, <1>3, <1>5 DEF Connects, Connect, Drops, Drop
<1>6. ASSUME NEW p \in Page, UserActs(p) PROVE PageTypes'
  <2>1. CASE NewChat(p)
    BY <1>1, <2>1, NewChatIs DEF Paged
  <2>2. CASE CloseViewer(p)
    BY <1>1, <2>2, CloseViewerIs DEF Paged
  <2>3. CASE \E m \in Message : SubmitTurn(p, m)
    BY <1>1, <2>3, SubmitTurnIs DEF Paged
  <2>4. CASE \E l \in UploadLists : UploadFiles(p, l)
    BY <1>1, <2>4, UploadFilesIs DEF Paged
  <2>5. CASE \E f \in File : OpenViewer(p, f)
    BY <1>1, <2>5, OpenViewerIs DEF Paged
  <2> QED BY <1>6, <2>1, <2>2, <2>3, <2>4, <2>5 DEF UserActs
<1>7. ASSUME NEW p \in Page, Receive(p) PROVE PageTypes'
  BY <1>1, <1>7, ReceiveIs DEF Paged
<1>8. ASSUME NEW p \in Page, NEW i \in DOMAIN calls[p], Handles(p, i) PROVE PageTypes'
  <2>1. page' = page
    BY <1>8 DEF Handles
  <2>2. CASE HandleChat(p, i)
    BY <1>1, <2>1, <2>2, HandleChatIs DEF Handled
  <2>3. CASE HandleReset(p, i)
    BY <1>1, <2>1, <2>3, HandleResetIs DEF Handled
  <2>4. CASE HandleFileContent(p, i)
    BY <1>1, <2>1, <2>4, HandleFileContentIs DEF Handled
  <2>5. CASE HandleUpload(p, i)
    BY <1>1, <2>1, <2>5, HandleUploadIs DEF Handled
  <2>6. CASE WriteUpload(p, i)
    BY <1>1, <2>1, <2>6, WriteUploadIs DEF Handled
  <2>7. CASE FinishUpload(p, i)
    BY <1>1, <2>1, <2>7, FinishUploadIs DEF Handled
  <2>8. CASE \E s \in {Uploads, File \ Uploads} : HandleFiles(p, i, s)
    BY <1>1, <2>1, <2>8, HandleFilesIs DEF Handled, SectionRead
  <2> QED BY <1>8, <2>2, <2>3, <2>4, <2>5, <2>6, <2>7, <2>8 DEF Handles
<1>9. ASSUME NEW p \in Page, NEW i \in DOMAIN calls[p], GetsAnswer(p, i) PROVE PageTypes'
  <2>1. CASE AnswerChat(p, i)
    BY <1>1, <2>1, AnswerChatIs DEF Paged
  <2>2. CASE AnswerReset(p, i)
    BY <1>1, <2>2, AnswerResetIs DEF Paged
  <2>3. CASE AnswerFiles(p, i)
    BY <1>1, <2>3, AnswerFilesIs DEF Paged
  <2>4. CASE AnswerUpload(p, i)
    BY <1>1, <2>4, AnswerUploadIs DEF Paged
  <2>5. CASE AnswerView(p, i)
    BY <1>1, <2>5, AnswerViewIs DEF Paged
  <2>6. CASE Reject(p, i)
    BY <1>1, <2>6, RejectIs DEF Paged
  <2> QED BY <1>9, <2>1, <2>2, <2>3, <2>4, <2>5, <2>6 DEF GetsAnswer
<1> QED BY <1>1, <1>4, <1>5, <1>6, <1>7, <1>8, <1>9, Steps

(* Only what a page has no way to know changes. *)
LEMMA StreamsKept ==
  ASSUME StreamTypes, NEW p \in Page, NEW S \in SUBSET What,
         unheard' = [unheard EXCEPT ![p] = S], UNCHANGED <<stream, clients>>
  PROVE  StreamTypes'
BY DEF StreamTypes

LEMMA MarkedIs ==
  ASSUME StreamTypes, NEW p \in Page, NEW what \in SUBSET What, Marked(p, what),
         UNCHANGED <<stream, clients>>
  PROVE  StreamTypes' /\ unheard'[p] = unheard[p] \union what
         /\ \A q \in Page \ {p} : unheard'[q] = unheard[q]
<1>1. unheard[p] \union what \in SUBSET What /\ unheard' = [unheard EXCEPT ![p] = unheard[p] \union what]
  BY DEF StreamTypes, Marked
<1>2. unheard'[p] = unheard[p] \union what /\ \A q \in Page \ {p} : unheard'[q] = unheard[q]
  BY <1>1 DEF StreamTypes
<1> QED BY <1>1, <1>2, StreamsKept

LEMMA FetchesStreams ==
  ASSUME StreamTypes, NEW p \in Page, NEW gone, Fetches(p, gone), UNCHANGED <<stream, clients>>
  PROVE  StreamTypes'
<1>1. CASE unheard' = unheard
  BY <1>1 DEF StreamTypes
<1>2. CASE unheard' = [unheard EXCEPT ![p] = @ \union {"files"}]
  <2>1. {"files"} \in SUBSET What
    BY DEF What
  <2> QED BY <1>2, <2>1, MarkedIs DEF Marked
<1> QED BY <1>1, <1>2 DEF Fetches

LEMMA DropIs ==
  ASSUME StreamTypes, NEW p \in Page, Drop(p)
  PROVE  /\ StreamTypes'
         /\ stream'[p] = <<>> /\ unheard'[p] = unheard[p] \union Aspects(stream[p])
         /\ \A q \in Page \ {p} : stream'[q] = stream[q] /\ unheard'[q] = unheard[q]
<1>1. clients' = clients \ {p} /\ stream' = [stream EXCEPT ![p] = <<>>]
      /\ unheard' = [unheard EXCEPT ![p] = unheard[p] \union Aspects(stream[p])]
  BY DEF Drop, StreamTypes
<1>2. Aspects(stream[p]) \subseteq What
  BY AspectsAre DEF StreamTypes
<1>3. <<>> \in Seq(Frame)
  BY EmptySeq
<1>4. stream' \in [Page -> Seq(Frame)] /\ unheard' \in [Page -> SUBSET What]
  BY <1>1, <1>2, <1>3 DEF StreamTypes
<1>5. stream'[p] = <<>> /\ unheard'[p] = unheard[p] \union Aspects(stream[p])
      /\ \A q \in Page \ {p} : stream'[q] = stream[q] /\ unheard'[q] = unheard[q]
  BY <1>1 DEF StreamTypes
<1>6. \A q \in Page : q \notin clients' => stream'[q] = <<>>
  BY <1>1, <1>5 DEF StreamTypes
<1> QED BY <1>4, <1>5, <1>6 DEF StreamTypes

(* The agent's frames. *)
LEMMA AgentFrames ==
  ASSUME Types, Agent
  PROVE  \/ UNCHANGED <<clients, stream, unheard>>
         \/ /\ UNCHANGED <<clients, busy>>
            /\ Trace(turn.of) \in Frame /\ Broadcast(<<Trace(turn.of)>>)
         \/ /\ UNCHANGED clients /\ busy /\ busy' = FALSE
            /\ \E f \in {Reply(turn.of), Error(turn.of)} :
                 f \in Frame /\ Broadcast(<<f, Status("idle"), Workspace>>)
<1>1. busy => turn.of \in Nat \ {0}
  BY DEF Types, TurnTypes
<1>2. ASSUME AgentTrace
      PROVE  Trace(turn.of) \in Frame /\ Broadcast(<<Trace(turn.of)>>) /\ UNCHANGED <<clients, busy>>
  BY <1>1, <1>2, FramesAre DEF AgentTrace
<1>3. ASSUME TurnSucceeds
      PROVE  /\ UNCHANGED clients /\ busy /\ busy' = FALSE
             /\ Reply(turn.of) \in Frame /\ Broadcast(<<Reply(turn.of), Status("idle"), Workspace>>)
  BY <1>1, <1>3, FramesAre DEF TurnSucceeds, Finally
<1>4. ASSUME TurnFails
      PROVE  /\ UNCHANGED clients /\ busy /\ busy' = FALSE
             /\ Error(turn.of) \in Frame /\ Broadcast(<<Error(turn.of), Status("idle"), Workspace>>)
  BY <1>1, <1>4, FramesAre DEF TurnFails, Finally
<1>5. AgentSession => UNCHANGED <<clients, stream, unheard>>
  BY DEF AgentSession
<1>6. \A f \in File : AgentWrites(f) => UNCHANGED <<clients, stream, unheard>>
  BY DEF AgentWrites
<1> QED BY <1>2, <1>3, <1>4, <1>5, <1>6 DEF Agent

LEMMA EndingFrames ==
  ASSUME NEW f \in Frame
  PROVE  <<f, Status("idle"), Workspace>> \in Seq(Frame)
<1>1. Status("idle") \in Frame /\ Workspace \in Frame
  BY FramesAre
<1> QED BY <1>1, FrameLists

LEMMA StreamTypesStep ==
  ASSUME Types, Next
  PROVE  StreamTypes'
<1>1. PageTypes /\ StreamTypes /\ Bounded /\ clients \subseteq Page
  BY DEF Types, TurnTypes
<1>2. UNCHANGED <<clients, stream, unheard>> => StreamTypes'
  BY <1>1 DEF StreamTypes
<1>3. CASE Agent
  <2>1. ASSUME Trace(turn.of) \in Frame, Broadcast(<<Trace(turn.of)>>), UNCHANGED clients
        PROVE  StreamTypes'
    BY <1>1, <2>1, FrameLists, Broadcasting
  <2>2. ASSUME NEW f \in Frame, Broadcast(<<f, Status("idle"), Workspace>>), UNCHANGED clients
        PROVE  StreamTypes'
    BY <1>1, <2>2, EndingFrames, Broadcasting
  <2> QED BY <1>2, <1>3, <2>1, <2>2, AgentFrames
<1>4. ASSUME NEW p \in Page, Connects(p) PROVE StreamTypes'
  BY <1>1, <1>4 DEF Connects, Connect, StreamTypes
<1>5. ASSUME NEW p \in Page, Drops(p) PROVE StreamTypes'
  BY <1>1, <1>5, DropIs DEF Drops
<1>6. ASSUME NEW p \in Page, UserActs(p) PROVE StreamTypes'
  <2>1. CASE \E f \in File : OpenViewer(p, f)
    <3>1. PICK f \in File : OpenViewer(p, f)
      BY <2>1
    <3> DEFINE S == IF \E i \in DOMAIN calls[p] : calls[p][i].kind = "view" /\ calls[p][i].arg # f
                    THEN unheard[p] \union {"viewer"}
                    ELSE IF InFlight(p, "view") THEN unheard[p] ELSE unheard[p] \ {"viewer"}
    <3>2. unheard' = [unheard EXCEPT ![p] = S] /\ UNCHANGED <<stream, clients>>
      BY <3>1, Zenon DEF OpenViewer
    <3>3. S \in SUBSET What
      BY <1>1 DEF StreamTypes, What
    <3> HIDE DEF S
    <3> QED BY <1>1, <3>2, <3>3, StreamsKept
  <2>2. CASE NewChat(p) \/ CloseViewer(p) \/ (\E m \in Message : SubmitTurn(p, m))
             \/ \E l \in UploadLists : UploadFiles(p, l)
    BY <1>2, <2>2 DEF NewChat, CloseViewer, SubmitTurn, UploadFiles
  <2> QED BY <1>6, <2>1, <2>2 DEF UserActs
<1>7. ASSUME NEW p \in Page, Receive(p) PROVE StreamTypes'
  <2>1. /\ stream' = [stream EXCEPT ![p] = Tail(stream[p])] /\ clients' = clients
        /\ stream[p] \in Seq(Frame) /\ stream[p] # <<>>
        /\ unheard' = unheard \/ Fetches(p, 0)
    BY <1>1, <1>7, ReceiveIs
  <2>2. Tail(stream[p]) \in Seq(Frame)
    BY <2>1, HeadTailProperties
  <2>3. stream' \in [Page -> Seq(Frame)]
    BY <1>1, <2>1, <2>2 DEF StreamTypes
  <2>4. \A q \in Page : q \notin clients' => stream'[q] = <<>>
    <3> TAKE q \in Page
    <3>1. CASE q = p
      BY <1>1, <2>1, <3>1 DEF StreamTypes
    <3>2. CASE q # p
      BY <1>1, <2>1, <3>2 DEF StreamTypes
    <3> QED BY <3>1, <3>2
  <2>5. unheard' \in [Page -> SUBSET What]
    BY <1>1, <2>1 DEF Fetches, StreamTypes, What
  <2> QED BY <2>3, <2>4, <2>5 DEF StreamTypes
<1>8. ASSUME NEW p \in Page, NEW i \in DOMAIN calls[p], Handles(p, i) PROVE StreamTypes'
  <2>1. page' = page
    BY <1>8 DEF Handles
  <2>2. CASE HandleChat(p, i)
    <3>1. /\ UNCHANGED clients
          /\ UNCHANGED <<stream, unheard>> \/ Broadcast(<<User(turn.of + 1), Status("working")>>)
      BY <1>1, <2>1, <2>2, HandleChatIs DEF Refuse, StartTurn
    <3>2. turn.of + 1 \in Nat \ {0}
      BY DEF Types, TurnTypes
    <3>3. <<User(turn.of + 1), Status("working")>> \in Seq(Frame)
      BY <3>2, FramesAre, FrameLists
    <3> QED BY <1>1, <1>2, <3>1, <3>3, Broadcasting
  <2>3. CASE HandleReset(p, i)
    <3>1. /\ UNCHANGED clients
          /\ UNCHANGED <<stream, unheard>> \/ Broadcast(<<Reset>>)
      BY <1>1, <2>1, <2>3, HandleResetIs DEF Refuse
    <3> QED BY <1>1, <1>2, <3>1, StaticFrames, FrameLists, Broadcasting
  <2>4. CASE FinishUpload(p, i)
    <3>1. UNCHANGED clients /\ Broadcast(<<Workspace>>)
      BY <1>1, <2>1, <2>4, FinishUploadIs
    <3> QED BY <1>1, <3>1, StaticFrames, FrameLists, Broadcasting
  <2>5. CASE HandleFileContent(p, i) \/ HandleUpload(p, i) \/ WriteUpload(p, i)
    BY <1>2, <2>5 DEF HandleFileContent, HandleUpload, WriteUpload
  <2>6. CASE \E s \in {Uploads, File \ Uploads} : HandleFiles(p, i, s)
    BY <1>2, <2>6 DEF HandleFiles
  <2> QED BY <1>8, <2>2, <2>3, <2>4, <2>5, <2>6 DEF Handles
<1>9. ASSUME NEW p \in Page, NEW i \in DOMAIN calls[p], GetsAnswer(p, i) PROVE StreamTypes'
  <2>1. CASE AnswerChat(p, i) \/ AnswerView(p, i)
    BY <1>2, <2>1 DEF AnswerChat, AnswerView
  <2>2. CASE AnswerReset(p, i)
    <3>1. Wiped(p) \subseteq {"messages", "status"}
      BY DEF Wiped
    <3>2. \E what \in SUBSET What : Marked(p, what) /\ UNCHANGED <<stream, clients>>
      BY <1>1, <2>2, <3>1, AnswerResetIs DEF What
    <3> QED BY <1>1, <3>2, MarkedIs
  <2>3. CASE AnswerFiles(p, i)
    <3>1. \E what \in SUBSET What : Marked(p, what) /\ UNCHANGED <<stream, clients>>
      BY <1>1, <2>3, AnswerFilesIs DEF What
    <3> QED BY <1>1, <3>1, MarkedIs
  <2>4. CASE AnswerUpload(p, i)
    BY <1>1, <1>2, <2>4, AnswerUploadIs, FetchesStreams
  <2>5. CASE Reject(p, i)
    <3>1. \E what \in SUBSET What : Marked(p, what) /\ UNCHANGED <<stream, clients>>
      BY <1>1, <2>5, RejectIs DEF What
    <3> QED BY <1>1, <3>1, MarkedIs
  <2> QED BY <1>9, <2>1, <2>2, <2>3, <2>4, <2>5 DEF GetsAnswer
<1> QED BY <1>1, <1>3, <1>4, <1>5, <1>6, <1>7, <1>8, <1>9, Steps

LEMMA TypesStep ==
  ASSUME Types, [Next]_vars
  PROVE  Types'
<1>1. CASE Next
  BY <1>1, TurnTypesStep, StreamTypesStep, PageTypesStep, BoundedStep DEF Types
<1>2. CASE UNCHANGED vars
  BY <1>2 DEF vars, serverVars, Types, TurnTypes, StreamTypes, PageTypes, Bounded
<1> QED BY <1>1, <1>2

LEMMA AlwaysTypes == Spec => []Types
BY InitTypes, TypesStep, PTL DEF Spec

(* The sets of turns, files and frames are what they are meant to be, the  *)
(* stream of a page that is not connected is empty, and a page says it     *)
(* uploads exactly as long as one upload of its own is in flight, however  *)
(* many files it has still to send (main.js:85-103).                       *)
THEOREM TypesHold == Spec => []TypeOK
BY AlwaysTypes, TypesSuffice, PTL

-----------------------------------------------------------------------------
(* The session and the conversation.                                       *)

TurnsOf(messages, role) ==
  {m.of : m \in {messages[i] : i \in {j \in DOMAIN messages : messages[j].role = role}}}

LEMMA NoTurns == \A role : TurnsOf(<<>>, role) = {}
BY DEF TurnsOf

LEMMA OneMoreTurn ==
  ASSUME NEW messages \in Seq(Note), NEW m \in Note, NEW role
  PROVE  TurnsOf(Append(messages, m), role) =
           TurnsOf(messages, role) \union IF m.role = role THEN {m.of} ELSE {}
<1> DEFINE more == Append(messages, m)
           n == Len(messages)
<1>1. n \in Nat /\ DOMAIN messages = 1 .. n
  BY LenProperties
<1>2. DOMAIN more = 1 .. (n + 1) /\ more[n + 1] = m /\ \A k \in 1 .. n : more[k] = messages[k]
  <2>1. more \in Seq(Note) /\ Len(more) = n + 1 /\ more[n + 1] = m
        /\ \A k \in 1 .. n : more[k] = messages[k]
    BY AppendProperties
  <2> HIDE DEF more
  <2>2. DOMAIN more = 1 .. Len(more)
    BY <2>1, LenProperties
  <2> QED BY <2>1, <2>2
<1> HIDE DEF more, n
<1>3. \A k \in DOMAIN more : (k = n + 1 /\ more[k] = m) \/ (k \in DOMAIN messages /\ more[k] = messages[k])
  BY <1>1, <1>2
<1>4. \A k \in DOMAIN messages : k \in DOMAIN more /\ more[k] = messages[k]
  BY <1>1, <1>2
<1>5. n + 1 \in DOMAIN more /\ more[n + 1] = m
  BY <1>1, <1>2
<1>6. ASSUME NEW x \in TurnsOf(more, role)
      PROVE  x \in TurnsOf(messages, role) \union IF m.role = role THEN {m.of} ELSE {}
  <2>1. PICK k \in DOMAIN more : more[k].role = role /\ x = more[k].of
    BY DEF TurnsOf
  <2> QED BY <2>1, <1>3 DEF TurnsOf
<1>7. ASSUME NEW x \in TurnsOf(messages, role) PROVE x \in TurnsOf(more, role)
  <2>1. PICK k \in DOMAIN messages : messages[k].role = role /\ x = messages[k].of
    BY DEF TurnsOf
  <2> QED BY <2>1, <1>4 DEF TurnsOf
<1>8. m.role = role => m.of \in TurnsOf(more, role)
  BY <1>5 DEF TurnsOf
<1> QED BY <1>6, <1>7, <1>8 DEF more

(* While a turn runs, what it will have the session remember is of this    *)
(* conversation too, and holds every turn that was answered.               *)
SessionInv ==
  LET users == TurnsOf(transcript, "user")
      assistants == TurnsOf(transcript, "assistant")
  IN /\ sessionId \subseteq users /\ assistants \subseteq sessionId
     /\ busy => /\ turn.of \in users /\ turn.next \subseteq users
                /\ assistants \subseteq turn.next

LEMMA SessionStep ==
  ASSUME Types, SessionInv, [Next]_vars
  PROVE  SessionInv'
<1>1. transcript \in Seq(Note) /\ turn \in [of : Nat, next : SUBSET Nat]
  BY DEF Types, TurnTypes
<1> DEFINE U == TurnsOf(transcript, "user")
           A == TurnsOf(transcript, "assistant")
<1>2. /\ sessionId \subseteq U /\ A \subseteq sessionId
      /\ busy => turn.of \in U /\ turn.next \subseteq U /\ A \subseteq turn.next
  BY DEF SessionInv
<1>3. ASSUME NEW role \in Roles, NEW n \in Nat,
             transcript' = Append(transcript, [role |-> role, of |-> n])
      PROVE  /\ U' = U \union IF role = "user" THEN {n} ELSE {}
             /\ A' = A \union IF role = "assistant" THEN {n} ELSE {}
  <2> DEFINE m == [role |-> role, of |-> n]
  <2>1. m \in Note /\ m.role = role /\ m.of = n
    BY DEF Note
  <2> HIDE DEF m
  <2>2. \A r : TurnsOf(Append(transcript, m), r) =
                 TurnsOf(transcript, r) \union IF m.role = r THEN {m.of} ELSE {}
    BY <1>1, <2>1, OneMoreTurn
  <2>3. transcript' = Append(transcript, m)
    BY <1>3 DEF m
  <2> QED BY <2>1, <2>2, <2>3
<1>4. "user" \in Roles /\ "assistant" \in Roles /\ "error" \in Roles /\ turn.of \in Nat
  BY <1>1 DEF Roles
<1>5. transcript' = transcript => U' = U /\ A' = A
  OBVIOUS
<1>6. transcript' = <<>> => U' = {} /\ A' = {}
  BY NoTurns
<1> HIDE DEF U, A
<1>7. ASSUME /\ sessionId' \subseteq U' /\ A' \subseteq sessionId'
             /\ busy' => turn'.of \in U' /\ turn'.next \subseteq U' /\ A' \subseteq turn'.next
      PROVE  SessionInv'
  BY <1>7 DEF SessionInv, U, A
<1>8. CASE Begins
  <2>1. U' = U \union {turn.of + 1} /\ A' = A
    <3> DEFINE n == turn.of + 1
    <3>1. n \in Nat /\ transcript' = Append(transcript, [role |-> "user", of |-> n])
      BY <1>4, <1>8 DEF Begins
    <3> HIDE DEF n
    <3>2. U' = U \union {n} /\ A' = A
      BY <1>3, <1>4, <3>1
    <3> QED BY <3>2 DEF n
  <2>2. turn'.of = turn.of + 1 /\ turn'.next = sessionId /\ sessionId' = sessionId
    BY <1>8 DEF Begins
  <2> QED BY <1>2, <1>7, <2>1, <2>2
<1>9. CASE Forgets
  BY <1>2, <1>6, <1>7, <1>9 DEF Forgets
<1>10. CASE Names
  <2>1. turn'.of = turn.of /\ turn'.next = turn.next \union {turn.of}
        /\ sessionId' \in {turn'.next, sessionId} /\ busy /\ busy' = busy /\ U' = U /\ A' = A
    BY <1>1, <1>5, <1>10 DEF Names
  <2> QED BY <1>2, <1>7, <2>1
<1>11. CASE Succeeds
  <2>1. U' = U /\ A' = A \union {turn.of}
    BY <1>3, <1>4, <1>11 DEF Succeeds
  <2> QED BY <1>2, <1>7, <1>11, <2>1 DEF Succeeds
<1>12. CASE Fails
  <2>1. U' = U /\ A' = A
    BY <1>3, <1>4, <1>12 DEF Fails
  <2> QED BY <1>2, <1>7, <1>12, <2>1 DEF Fails
<1>13. CASE Nothing
  BY <1>2, <1>5, <1>7, <1>13 DEF Nothing
<1>14. CASE UNCHANGED vars
  <2>1. Nothing
    BY <1>14 DEF vars, serverVars, Nothing
  <2> QED BY <1>13, <2>1
<1> QED BY <1>8, <1>9, <1>10, <1>11, <1>12, <1>13, <1>14, ConversationSteps

LEMMA SessionSuffices ==
  ASSUME SessionInv
  PROVE  SessionIsTheConversation
BY DEF SessionInv, SessionIsTheConversation, TurnsOf

(* What the next turn resumes is of this conversation: a session never     *)
(* remembers a turn from before the last reset, and between turns it       *)
(* remembers every turn that was answered (server.mjs:106, 120-125).       *)
THEOREM SessionHolds == Spec => []SessionIsTheConversation
<1>1. Init => SessionInv
  BY NoTurns DEF Init, SessionInv
<1> QED BY <1>1, AlwaysTypes, SessionStep, SessionSuffices, PTL DEF Spec

-----------------------------------------------------------------------------
(* Frames on their way to a page: what they are about, and what of it a    *)
(* page learns again.                                                      *)

Among(frames, type) == \E i \in DOMAIN frames : frames[i].type = type

LEMMA AboutFrames ==
  ASSUME NEW frames \in Seq(Frame)
  PROVE  /\ "status" \in Aspects(frames) <=> Among(frames, "status") \/ Among(frames, "reset")
         /\ "status" \in Repairs(frames) <=> Among(frames, "status") \/ Among(frames, "reset")
         /\ "files" \in Aspects(frames) <=> Among(frames, "workspace")
         /\ "files" \in Repairs(frames) <=> Among(frames, "workspace")
         /\ "messages" \in Repairs(frames) <=> Among(frames, "reset")
         /\ "messages" \in Aspects(frames)
              <=> \E type \in {"user", "message", "error", "reset"} : Among(frames, type)
         /\ "viewer" \notin Aspects(frames) /\ "viewer" \notin Repairs(frames)
<1>1. ASSUME NEW i \in DOMAIN frames
      PROVE  /\ "status" \in Aspect(frames[i]) <=> frames[i].type \in {"status", "reset"}
             /\ "files" \in Aspect(frames[i]) <=> frames[i].type = "workspace"
             /\ "messages" \in Aspect(frames[i])
                  <=> frames[i].type \in {"user", "message", "error", "reset"}
             /\ "viewer" \notin Aspect(frames[i])
  <2>1. frames[i] \in Frame
    BY FramesDomain
  <2>2. frames[i].type \in {"user", "message", "error", "trace", "status", "reset", "workspace"}
    BY <2>1, FrameCases
  <2> QED BY <2>1, <2>2, AspectIs
<1>2. \A x : x \in Aspects(frames) <=> \E i \in DOMAIN frames : x \in Aspect(frames[i])
  BY DEF Aspects
<1>3. \A x : x \in Repairs(frames)
               <=> \E i \in DOMAIN frames : /\ frames[i].type \in {"status", "reset", "workspace"}
                                            /\ x \in Aspect(frames[i])
  BY DEF Repairs
<1>4. /\ "status" \in Aspects(frames) <=> Among(frames, "status") \/ Among(frames, "reset")
      /\ "files" \in Aspects(frames) <=> Among(frames, "workspace")
      /\ "messages" \in Aspects(frames)
           <=> \E type \in {"user", "message", "error", "reset"} : Among(frames, type)
      /\ "viewer" \notin Aspects(frames)
  BY <1>1, <1>2 DEF Among
<1>5. /\ "status" \in Repairs(frames) <=> Among(frames, "status") \/ Among(frames, "reset")
      /\ "files" \in Repairs(frames) <=> Among(frames, "workspace")
      /\ "messages" \in Repairs(frames) <=> Among(frames, "reset")
      /\ "viewer" \notin Repairs(frames)
  BY <1>1, <1>3 DEF Among
<1> QED BY <1>4, <1>5

LEMMA AmongMore ==
  ASSUME NEW frames \in Seq(Frame), NEW f \in Frame, NEW type
  PROVE  Among(Append(frames, f), type) <=> Among(frames, type) \/ f.type = type
<1> DEFINE more == Append(frames, f)
           n == Len(frames)
<1>1. n \in Nat /\ DOMAIN frames = 1 .. n
  BY LenProperties
<1>2. DOMAIN more = 1 .. (n + 1) /\ more[n + 1] = f /\ \A k \in 1 .. n : more[k] = frames[k]
  <2>1. more \in Seq(Frame) /\ Len(more) = n + 1 /\ more[n + 1] = f
        /\ \A k \in 1 .. n : more[k] = frames[k]
    BY AppendProperties
  <2> HIDE DEF more
  <2>2. DOMAIN more = 1 .. Len(more)
    BY <2>1, LenProperties
  <2> QED BY <2>1, <2>2
<1> HIDE DEF more, n
<1>3. \A k \in DOMAIN more : (k = n + 1 /\ more[k] = f) \/ (k \in DOMAIN frames /\ more[k] = frames[k])
  BY <1>1, <1>2
<1>4. \A k \in DOMAIN frames : k \in DOMAIN more /\ more[k] = frames[k]
  BY <1>1, <1>2
<1>5. n + 1 \in DOMAIN more /\ more[n + 1] = f
  BY <1>1, <1>2
<1>6. Among(more, type) <=> Among(frames, type) \/ f.type = type
  BY <1>3, <1>4, <1>5 DEF Among
<1> QED BY <1>6 DEF more

LEMMA AmongRest ==
  ASSUME NEW frames \in Seq(Frame), frames # <<>>, NEW type
  PROVE  Among(frames, type) <=> Among(Tail(frames), type) \/ Head(frames).type = type
<1> DEFINE rest == Tail(frames)
           n == Len(frames)
<1>1. n \in Nat /\ DOMAIN frames = 1 .. n /\ n # 0 /\ Head(frames) = frames[1]
  BY LenProperties, EmptySeq, HeadTailProperties
<1>2. DOMAIN rest = 1 .. (n - 1) /\ \A k \in 1 .. (n - 1) : rest[k] = frames[k + 1]
  <2>1. rest \in Seq(Frame) /\ Len(rest) = n - 1 /\ \A k \in 1 .. (n - 1) : rest[k] = frames[k + 1]
    BY HeadTailProperties
  <2> HIDE DEF rest
  <2>2. DOMAIN rest = 1 .. Len(rest)
    BY <2>1, LenProperties
  <2> QED BY <2>1, <2>2
<1> HIDE DEF rest, n
<1>3. \A k \in DOMAIN rest : k + 1 \in DOMAIN frames /\ rest[k] = frames[k + 1]
  BY <1>1, <1>2
<1>4. \A k \in DOMAIN frames : k = 1 \/ (k - 1 \in DOMAIN rest /\ rest[k - 1] = frames[k])
  BY <1>1, <1>2
<1>5. 1 \in DOMAIN frames
  BY <1>1
<1>6. Among(rest, type) \/ frames[1].type = type => Among(frames, type)
  BY <1>3, <1>5 DEF Among
<1>7. Among(frames, type) => Among(rest, type) \/ frames[1].type = type
  BY <1>4 DEF Among
<1> QED BY <1>1, <1>6, <1>7 DEF rest

LEMMA AmongConcat ==
  ASSUME NEW s \in Seq(Frame), NEW t \in Seq(Frame), NEW type
  PROVE  Among(s \o t, type) <=> Among(s, type) \/ Among(t, type)
<1> DEFINE r == s \o t
           m == Len(s)
           n == Len(t)
<1>1. m \in Nat /\ n \in Nat /\ DOMAIN s = 1 .. m /\ DOMAIN t = 1 .. n
  BY LenProperties
<1>2. DOMAIN r = 1 .. (m + n)
      /\ \A k \in 1 .. (m + n) : r[k] = IF k <= m THEN s[k] ELSE t[k - m]
  <2>1. r \in Seq(Frame) /\ Len(r) = m + n
        /\ \A k \in 1 .. (m + n) : r[k] = IF k <= m THEN s[k] ELSE t[k - m]
    BY ConcatProperties
  <2> HIDE DEF r
  <2>2. DOMAIN r = 1 .. Len(r)
    BY <2>1, LenProperties
  <2> QED BY <2>1, <2>2
<1> HIDE DEF r, m, n
<1>3. \A k \in DOMAIN r : (k \in DOMAIN s /\ r[k] = s[k]) \/ (k - m \in DOMAIN t /\ r[k] = t[k - m])
  BY <1>1, <1>2
<1>4. \A k \in DOMAIN s : k \in DOMAIN r /\ r[k] = s[k]
  BY <1>1, <1>2
<1>5. ASSUME NEW k \in DOMAIN t PROVE m + k \in DOMAIN r /\ r[m + k] = t[k]
  <2>1. m + k \in 1 .. (m + n) /\ ~(m + k <= m) /\ (m + k) - m = k
    BY <1>1
  <2> QED BY <2>1, <1>2
<1>6. Among(r, type) <=> Among(s, type) \/ Among(t, type)
  BY <1>3, <1>4, <1>5 DEF Among
<1> QED BY <1>6 DEF r

LEMMA AmongNone == \A type : ~Among(<<>>, type)
BY DEF Among

LEMMA AmongLists ==
  ASSUME NEW f, NEW g, NEW h, NEW type
  PROVE  /\ Among(<<f>>, type) <=> f.type = type
         /\ Among(<<f, g>>, type) <=> f.type = type \/ g.type = type
         /\ Among(<<f, g, h>>, type) <=> f.type = type \/ g.type = type \/ h.type = type
<1>1. DOMAIN <<f>> = 1 .. 1 /\ DOMAIN <<f, g>> = 1 .. 2 /\ DOMAIN <<f, g, h>> = 1 .. 3
  OBVIOUS
<1>2. Among(<<f>>, type) <=> f.type = type
  BY <1>1 DEF Among
<1>3. Among(<<f, g>>, type) <=> f.type = type \/ g.type = type
  BY <1>1 DEF Among
<1>4. Among(<<f, g, h>>, type) <=> f.type = type \/ g.type = type \/ h.type = type
  BY <1>1 DEF Among
<1> QED BY <1>2, <1>3, <1>4

(* Frames at the end are heard one after the other. *)
LEMMA ConcatLists ==
  ASSUME NEW frames \in Seq(Frame), NEW f \in Frame, NEW g \in Frame, NEW h \in Frame
  PROVE  /\ frames \o <<f>> = Append(frames, f)
         /\ frames \o <<f, g>> = Append(Append(frames, f), g)
         /\ frames \o <<f, g, h>> = Append(Append(Append(frames, f), g), h)
<1>1. \A s \in Seq(Frame), x \in Frame : Append(s, x) \in Seq(Frame) /\ Append(s, x) = s \o <<x>>
  <2> TAKE s \in Seq(Frame), x \in Frame
  <2> QED BY AppendProperties, AppendIsConcat
<1>2. <<f>> \in Seq(Frame) /\ <<g>> \in Seq(Frame) /\ <<h>> \in Seq(Frame)
      /\ <<f, g>> \in Seq(Frame)
  OBVIOUS
<1>3. <<f, g>> = <<f>> \o <<g>> /\ <<f, g, h>> = <<f, g>> \o <<h>>
  <2>1. Append(<<f>>, g) = <<f, g>>
    <3> DEFINE s == Append(<<f>>, g)
    <3>1. s \in Seq(Frame) /\ Len(s) = 2 /\ s[2] = g /\ s[1] = f
      <4>1. Len(<<f>>) = 1 /\ <<f>>[1] = f
        OBVIOUS
      <4> QED BY <1>2, <4>1, AppendProperties
    <3>2. Len(<<f, g>>) = 2 /\ <<f, g>>[1] = f /\ <<f, g>>[2] = g /\ <<f, g>> \in Seq(Frame)
      OBVIOUS
    <3> HIDE DEF s
    <3>3. \A i \in 1 .. Len(s) : s[i] = <<f, g>>[i]
      BY <3>1, <3>2
    <3>4. s = <<f, g>>
      BY <3>1, <3>2, <3>3, SeqEqual
    <3> QED BY <3>4 DEF s
  <2>2. Append(<<f, g>>, h) = <<f, g, h>>
    <3> DEFINE s == Append(<<f, g>>, h)
    <3>1. s \in Seq(Frame) /\ Len(s) = 3 /\ s[3] = h /\ s[2] = g /\ s[1] = f
      <4>1. Len(<<f, g>>) = 2 /\ <<f, g>>[1] = f /\ <<f, g>>[2] = g
        OBVIOUS
      <4> QED BY <1>2, <4>1, AppendProperties
    <3>2. /\ Len(<<f, g, h>>) = 3 /\ <<f, g, h>> \in Seq(Frame)
          /\ <<f, g, h>>[1] = f /\ <<f, g, h>>[2] = g /\ <<f, g, h>>[3] = h
      OBVIOUS
    <3> HIDE DEF s
    <3>3. \A i \in 1 .. Len(s) : s[i] = <<f, g, h>>[i]
      BY <3>1, <3>2
    <3>4. s = <<f, g, h>>
      BY <3>1, <3>2, <3>3, SeqEqual
    <3> QED BY <3>4 DEF s
  <2>3. Append(<<f>>, g) = <<f>> \o <<g>> /\ Append(<<f, g>>, h) = <<f, g>> \o <<h>>
    BY <1>1, <1>2
  <2> QED BY <2>1, <2>2, <2>3
<1>4. frames \o <<f, g>> = (frames \o <<f>>) \o <<g>>
  <2>1. (frames \o <<f>>) \o <<g>> = frames \o (<<f>> \o <<g>>)
    BY <1>2, ConcatAssociative
  <2> QED BY <1>3, <2>1, Zenon
<1>5. frames \o <<f, g, h>> = (frames \o <<f, g>>) \o <<h>>
  <2>1. (frames \o <<f, g>>) \o <<h>> = frames \o (<<f, g>> \o <<h>>)
    BY <1>2, ConcatAssociative
  <2> QED BY <1>3, <2>1, Zenon
<1>6. frames \o <<f>> = Append(frames, f)
  BY <1>1
<1>7. (frames \o <<f>>) \o <<g>> = Append(Append(frames, f), g)
  BY <1>1, <1>6
<1>8. (frames \o <<f, g>>) \o <<h>> = Append(Append(Append(frames, f), g), h)
  <2>1. Append(Append(frames, f), g) \in Seq(Frame)
    BY <1>1
  <2> QED BY <1>1, <1>4, <1>7, <2>1
<1> QED BY <1>4, <1>5, <1>6, <1>7, <1>8

(* What the frames said are about. *)
LEMMA FrameTypes ==
  ASSUME NEW n \in Nat \ {0}
  PROVE  /\ User(n).type = "user" /\ User(n).of = n
         /\ Reply(n).type = "message" /\ Reply(n).of = n
         /\ Error(n).type = "error" /\ Error(n).of = n
         /\ Trace(n).type = "trace"
         /\ Status("idle").type = "status" /\ Status("idle").state = "idle"
         /\ Status("working").type = "status" /\ Status("working").state = "working"
         /\ Reset.type = "reset" /\ Workspace.type = "workspace"
BY DEF User, Reply, Error, Trace, Status, Reset, Workspace

-----------------------------------------------------------------------------
(* The viewer.                                                             *)

(* Every answer about a file still to come is about the file the viewer    *)
(* names, and so is the text it holds.                                     *)
ViewerSound(q) ==
  "viewer" \notin unheard[q] =>
    /\ page[q].viewer.text # <<>> => page[q].viewer.text[1] = page[q].viewer.file
    /\ \A i \in DOMAIN calls[q] :
         calls[q][i].kind = "view" => calls[q][i].arg = page[q].viewer.file

ViewerInv == \A q \in Page : ViewerSound(q)

(* A step that opens no file in q's viewer. *)
ViewerStays(q) ==
  /\ "viewer" \notin unheard'[q] => "viewer" \notin unheard[q]
  /\ page'[q].viewer.file = page[q].viewer.file
  /\ \/ page'[q].viewer.text = page[q].viewer.text
     \/ \E i \in DOMAIN calls[q] : /\ calls[q][i].kind = "view"
                                   /\ page'[q].viewer.text[1] = calls[q][i].arg
  /\ \A i \in DOMAIN calls'[q] : calls'[q][i].kind = "view" =>
       \E j \in DOMAIN calls[q] : /\ calls[q][j].kind = "view"
                                  /\ calls[q][j].arg = calls'[q][i].arg

LEMMA ViewerStaysSound ==
  ASSUME NEW q, ViewerSound(q), ViewerStays(q)
  PROVE  ViewerSound(q)'
BY DEF ViewerSound, ViewerStays

LEMMA UntouchedViewer ==
  ASSUME NEW q, calls'[q] = calls[q], page'[q] = page[q],
         "viewer" \notin unheard'[q] => "viewer" \notin unheard[q]
  PROVE  ViewerStays(q)
BY DEF ViewerStays

LEMMA BroadcastViewer ==
  ASSUME StreamTypes, NEW frames \in Seq(Frame), Broadcast(frames), UNCHANGED clients, NEW q \in Page
  PROVE  "viewer" \notin unheard'[q] => "viewer" \notin unheard[q]
BY Broadcasting, AboutFrames

LEMMA PagedViewer ==
  ASSUME NEW p \in Page, NEW gone, NEW new, NEW t, Paged(p, gone, new, t),
         \A c \in new : c.kind # "view",
         t.viewer.file = page[p].viewer.file,
         \/ t.viewer.text = page[p].viewer.text
         \/ \E i \in DOMAIN calls[p] : calls[p][i].kind = "view" /\ t.viewer.text[1] = calls[p][i].arg,
         \A q \in Page : "viewer" \notin unheard'[q] => "viewer" \notin unheard[q],
         NEW q \in Page
  PROVE  ViewerStays(q)
<1>1. CASE q = p
  <2>1. page'[q] = t
    BY <1>1 DEF Paged, PageMove
  <2>2. \A i \in DOMAIN calls'[q] :
          calls'[q][i] \in new \/ \E j \in DOMAIN calls[q] : calls'[q][i] = calls[q][j]
    BY <1>1 DEF Paged, CallsMove, Changed
  <2>3. \A i \in DOMAIN calls'[q] : calls'[q][i].kind = "view" =>
          \E j \in DOMAIN calls[q] : /\ calls[q][j].kind = "view"
                                     /\ calls[q][j].arg = calls'[q][i].arg
    BY <2>2
  <2> QED BY <1>1, <2>1, <2>3 DEF ViewerStays
<1>2. CASE q # p
  BY <1>2, UntouchedViewer DEF Paged, PageMove, CallsMove
<1> QED BY <1>1, <1>2

LEMMA HandledViewer ==
  ASSUME NEW p \in Page, NEW i \in DOMAIN calls[p], NEW c, Handled(p, i, c),
         \A q \in Page : "viewer" \notin unheard'[q] => "viewer" \notin unheard[q],
         NEW q \in Page
  PROVE  ViewerStays(q)
<1>1. CASE q = p
  <2>1. \A k \in DOMAIN calls'[q] :
          calls'[q][k] = c \/ \E j \in DOMAIN calls[q] : calls'[q][k] = calls[q][j]
    BY <1>1 DEF Handled, CallsMove, Changed
  <2>2. c.kind = calls[q][i].kind /\ c.arg = calls[q][i].arg /\ i \in DOMAIN calls[q] /\ page' = page
    BY <1>1 DEF Handled
  <2>3. \A k \in DOMAIN calls'[q] : calls'[q][k].kind = "view" =>
          \E j \in DOMAIN calls[q] : /\ calls[q][j].kind = "view"
                                     /\ calls[q][j].arg = calls'[q][k].arg
    BY <2>1, <2>2
  <2> QED BY <2>2, <2>3 DEF ViewerStays
<1>2. CASE q # p
  BY <1>2, UntouchedViewer DEF Handled, CallsMove
<1> QED BY <1>1, <1>2

LEMMA OpenViewerSound ==
  ASSUME PageTypes, StreamTypes, NEW p \in Page, NEW f \in File, OpenViewer(p, f), ViewerSound(p)
  PROVE  ViewerSound(p)'
<1> DEFINE other == \E i \in DOMAIN calls[p] : calls[p][i].kind = "view" /\ calls[p][i].arg # f
           t == ViewerOpened(page[p], f)
<1>1. page[p] \in State
  BY DEF PageTypes
<1>2. t.viewer.file = f /\ t.viewer.text = <<>>
  BY <1>1, ViewerOpenedIs
<1>3. PICK c : Paged(p, 0, {c}, t) /\ c.kind = "view" /\ c.arg = f
  BY OpenViewerIs
<1> HIDE DEF t
<1>4. page'[p] = t
  BY <1>3 DEF Paged, PageMove
<1>5. \A i \in DOMAIN calls'[p] :
        calls'[p][i] = c \/ \E j \in DOMAIN calls[p] : calls'[p][i] = calls[p][j]
  BY <1>3 DEF Paged, CallsMove, Changed
<1>6. CASE other
  <2>1. unheard' = [unheard EXCEPT ![p] = @ \union {"viewer"}]
    BY <1>6, Zenon DEF OpenViewer
  <2>2. "viewer" \in unheard'[p]
    BY <2>1 DEF StreamTypes
  <2> QED BY <2>2 DEF ViewerSound
<1>7. CASE ~other
  <2>1. \A i \in DOMAIN calls'[p] : calls'[p][i].kind = "view" => calls'[p][i].arg = f
    BY <1>3, <1>5, <1>7
  <2> QED BY <1>2, <1>4, <2>1 DEF ViewerSound
<1> QED BY <1>6, <1>7

LEMMA ViewerStep ==
  ASSUME Types, ViewerInv, [Next]_vars
  PROVE  ViewerInv'
<1>1. PageTypes /\ StreamTypes /\ Bounded /\ turn.of \in Nat
  BY DEF Types, TurnTypes
<1> DEFINE Untold == \A q \in Page : "viewer" \notin unheard'[q] => "viewer" \notin unheard[q]
<1>2. SUFFICES ASSUME NEW q \in Page PROVE ViewerStays(q) \/ ViewerSound(q)'
  BY ViewerStaysSound DEF ViewerInv
<1>3. ViewerSound(q)
  BY DEF ViewerInv
<1>4. unheard' = unheard => Untold
  OBVIOUS
<1>5. ASSUME NEW frames \in Seq(Frame), Broadcast(frames), UNCHANGED clients PROVE Untold
  BY <1>1, <1>5, BroadcastViewer
<1>6. ASSUME NEW p \in Page, NEW what \in SUBSET What, Marked(p, what), UNCHANGED <<stream, clients>>
      PROVE  Untold
  <2>1. unheard'[p] = unheard[p] \union what /\ \A r \in Page \ {p} : unheard'[r] = unheard[r]
    BY <1>1, <1>6, MarkedIs
  <2> QED BY <2>1
<1>7. ASSUME NEW p \in Page, NEW gone, Fetches(p, gone), UNCHANGED <<stream, clients>> PROVE Untold
  <2>1. CASE unheard' = [unheard EXCEPT ![p] = @ \union {"files"}]
    BY <1>6, <1>7, <2>1 DEF Marked, What
  <2> QED BY <1>4, <1>7, <2>1 DEF Fetches
<1> HIDE DEF Untold
<1>8. UNCHANGED <<page, calls>> /\ Untold => ViewerStays(q)
  BY UntouchedViewer DEF Untold
<1>9. CASE Agent
  <2>1. UNCHANGED <<page, calls>>
    BY <1>9 DEF Agent, AgentSession, AgentTrace, TurnSucceeds, TurnFails, AgentWrites
  <2>2. Untold
    <3>1. ASSUME Trace(turn.of) \in Frame, Broadcast(<<Trace(turn.of)>>), UNCHANGED clients
          PROVE  Untold
      BY <1>5, <3>1, FrameLists
    <3>2. ASSUME NEW f \in Frame, Broadcast(<<f, Status("idle"), Workspace>>), UNCHANGED clients
          PROVE  Untold
      BY <1>5, <3>2, EndingFrames
    <3> QED BY <1>4, <1>9, <3>1, <3>2, AgentFrames
  <2> QED BY <1>8, <2>1, <2>2
<1>10. ASSUME NEW p \in Page, Connects(p) PROVE ViewerStays(q)
  BY <1>4, <1>8, <1>10 DEF Connects, Connect
<1>11. ASSUME NEW p \in Page, Drops(p) PROVE ViewerStays(q)
  <2>1. Untold
    BY <1>1, <1>11, DropIs DEF Drops, Untold
  <2> QED BY <1>8, <1>11, <2>1 DEF Drops, Drop
<1>12. ASSUME NEW p \in Page, UserActs(p) PROVE ViewerStays(q) \/ ViewerSound(q)'
  <2>1. page[p] \in State
    BY <1>1 DEF PageTypes
  <2>2. CASE NewChat(p)
    <3>1. unheard' = unheard /\ \E c : Paged(p, 0, {c}, page[p]) /\ c.kind = "reset"
      BY <1>1, <2>2, NewChatIs
    <3> QED BY <1>4, <3>1, PagedViewer DEF Untold
  <2>3. CASE CloseViewer(p)
    <3>1. unheard' = unheard /\ Paged(p, 0, {}, ViewerClosed(page[p]))
      BY <1>1, <2>3, CloseViewerIs
    <3> QED BY <1>4, <2>1, <3>1, ViewerClosedIs, PagedViewer DEF Untold
  <2>4. CASE \E m \in Message : SubmitTurn(p, m)
    <3>1. unheard' = unheard
          /\ \E c : Paged(p, 0, {c}, StatusChanged(page[p], "working")) /\ c.kind = "chat"
      BY <1>1, <2>4, SubmitTurnIs
    <3>2. StatusChanged(page[p], "working").viewer = page[p].viewer
      BY <2>1, StatusChangedIs
    <3> QED BY <1>4, <3>1, <3>2, PagedViewer DEF Untold
  <2>5. CASE \E l \in UploadLists : UploadFiles(p, l)
    <3>1. unheard' = unheard
          /\ \E c : Paged(p, 0, {c}, UploadStarted(page[p])) /\ c.kind = "upload"
      BY <1>1, <2>5, UploadFilesIs
    <3>2. UploadStarted(page[p]).viewer = page[p].viewer
      BY <2>1, UploadStartedIs
    <3> QED BY <1>4, <3>1, <3>2, PagedViewer DEF Untold
  <2>6. CASE \E f \in File : OpenViewer(p, f)
    <3>1. PICK f \in File : OpenViewer(p, f)
      BY <2>6
    <3>2. CASE q = p
      BY <1>1, <1>3, <3>1, <3>2, OpenViewerSound
    <3>3. CASE q # p
      <4>1. calls'[q] = calls[q] /\ page'[q] = page[q]
        BY <1>1, <3>1, <3>3, OpenViewerIs DEF Paged, PageMove, CallsMove
      <4>2. unheard'[q] = unheard[q]
        BY <1>1, <3>1, <3>3 DEF OpenViewer, StreamTypes
      <4> QED BY <4>1, <4>2, UntouchedViewer
    <3> QED BY <3>2, <3>3
  <2> QED BY <1>12, <2>2, <2>3, <2>4, <2>5, <2>6 DEF UserActs
<1>13. ASSUME NEW p \in Page, Receive(p) PROVE ViewerStays(q)
  <2>1. page[p] \in State /\ Head(stream[p]) \in Frame
    BY <1>1, <1>13, ReceiveIs DEF PageTypes
  <2> DEFINE t == HearConversation(page[p], Head(stream[p]))
  <2>2. t.viewer = page[p].viewer
    BY <2>1, HearIs
  <2>3. PICK new \in {{}, {FilesCall}} : Paged(p, 0, new, t)
    BY <1>1, <1>13, ReceiveIs
  <2>4. \A c \in new : c.kind # "view"
    BY FilesCallIs
  <2>5. Untold
    <3>1. clients' = clients /\ (unheard' = unheard \/ Fetches(p, 0))
      BY <1>1, <1>13, ReceiveIs
    <3>2. ASSUME unheard' = [unheard EXCEPT ![p] = @ \union {"files"}] PROVE Untold
      BY <1>1, <3>2 DEF Untold, StreamTypes
    <3> QED BY <1>4, <3>1, <3>2 DEF Fetches
  <2> HIDE DEF t
  <2> QED BY <2>2, <2>3, <2>4, <2>5, PagedViewer DEF Untold
<1>14. ASSUME NEW p \in Page, NEW i \in DOMAIN calls[p], Handles(p, i) PROVE ViewerStays(q)
  <2>1. page' = page
    BY <1>14 DEF Handles
  <2>2. ASSUME Untold, NEW c, Handled(p, i, c) PROVE ViewerStays(q)
    BY <2>2, HandledViewer DEF Untold
  <2>3. CASE HandleChat(p, i)
    <3>1. /\ UNCHANGED clients
          /\ unheard' = unheard \/ Broadcast(<<User(turn.of + 1), Status("working")>>)
          /\ \E c : Handled(p, i, c)
      BY <1>1, <2>1, <2>3, HandleChatIs DEF Refuse, StartTurn
    <3>2. turn.of + 1 \in Nat \ {0}
      BY <1>1
    <3>3. <<User(turn.of + 1), Status("working")>> \in Seq(Frame)
      BY <3>2, FramesAre, FrameLists
    <3> QED BY <1>4, <1>5, <2>2, <3>1, <3>3
  <2>4. CASE HandleReset(p, i)
    <3>1. /\ UNCHANGED clients
          /\ unheard' = unheard \/ Broadcast(<<Reset>>)
          /\ \E c : Handled(p, i, c)
      BY <1>1, <2>1, <2>4, HandleResetIs DEF Refuse
    <3>2. <<Reset>> \in Seq(Frame)
      BY StaticFrames, FrameLists
    <3> QED BY <1>4, <1>5, <2>2, <3>1, <3>2
  <2>5. CASE FinishUpload(p, i)
    <3>1. UNCHANGED clients /\ Broadcast(<<Workspace>>) /\ \E c : Handled(p, i, c)
      BY <1>1, <2>1, <2>5, FinishUploadIs
    <3>2. <<Workspace>> \in Seq(Frame)
      BY StaticFrames, FrameLists
    <3> QED BY <1>5, <2>2, <3>1, <3>2
  <2>6. CASE HandleFileContent(p, i)
    BY <1>1, <1>4, <2>1, <2>2, <2>6, HandleFileContentIs
  <2>7. CASE HandleUpload(p, i)
    BY <1>1, <1>4, <2>1, <2>2, <2>7, HandleUploadIs
  <2>8. CASE WriteUpload(p, i)
    BY <1>1, <1>4, <2>1, <2>2, <2>8, WriteUploadIs
  <2>9. CASE \E s \in {Uploads, File \ Uploads} : HandleFiles(p, i, s)
    BY <1>1, <1>4, <2>1, <2>2, <2>9, HandleFilesIs DEF SectionRead
  <2> QED BY <1>14, <2>3, <2>4, <2>5, <2>6, <2>7, <2>8, <2>9 DEF Handles
<1>15. ASSUME NEW p \in Page, NEW i \in DOMAIN calls[p], GetsAnswer(p, i) PROVE ViewerStays(q)
  <2>1. page[p] \in State
    BY <1>1 DEF PageTypes
  <2>2. ASSUME Untold, NEW gone, NEW new, NEW t, Paged(p, gone, new, t), \A c \in new : c.kind # "view",
               t.viewer.file = page[p].viewer.file,
               \/ t.viewer.text = page[p].viewer.text
               \/ \E j \in DOMAIN calls[p] :
                    calls[p][j].kind = "view" /\ t.viewer.text[1] = calls[p][j].arg
        PROVE  ViewerStays(q)
    BY <2>2, PagedViewer DEF Untold
  <2>3. CASE AnswerChat(p, i)
    <3>1. unheard' = unheard
          /\ \E t \in {page[p], AddMessage(page[p], "error", Local)} : Paged(p, i, {}, t)
      BY <1>1, <2>3, AnswerChatIs
    <3>2. AddMessage(page[p], "error", Local).viewer = page[p].viewer
      <4>1. "error" \in Roles /\ Local \in Nat
        BY DEF Roles, Local
      <4> QED BY <2>1, <4>1, AddMessageIs
    <3>3. PICK t \in {page[p], AddMessage(page[p], "error", Local)} : Paged(p, i, {}, t)
      BY <3>1
    <3>4. t.viewer = page[p].viewer
      BY <3>2
    <3> QED BY <1>4, <2>2, <3>1, <3>3, <3>4
  <2>4. CASE AnswerReset(p, i)
    <3>1. PICK new \in {{}, {FilesCall}}, ok \in BOOLEAN :
            /\ Paged(p, i, new, IF ok THEN ConversationReset(page[p]) ELSE page[p])
            /\ Marked(p, (IF ok THEN Wiped(p) ELSE {}) \union IF new = {} THEN {"files"} ELSE {})
      BY <1>1, <2>4, AnswerResetIs
    <3> DEFINE what == (IF ok THEN Wiped(p) ELSE {}) \union IF new = {} THEN {"files"} ELSE {}
               t == IF ok THEN ConversationReset(page[p]) ELSE page[p]
    <3>2. what \in SUBSET What
      BY DEF Wiped, What
    <3>3. UNCHANGED <<stream, clients>>
      BY <1>1, <2>4, AnswerResetIs
    <3>4. t.viewer = page[p].viewer
      BY <2>1, ConversationResetIs
    <3>5. Marked(p, what) /\ Paged(p, i, new, t)
      BY <3>1
    <3>6. \A c \in new : c.kind # "view"
      BY FilesCallIs
    <3> HIDE DEF what, t
    <3> QED BY <1>6, <2>2, <3>2, <3>3, <3>4, <3>5, <3>6
  <2>5. CASE AnswerFiles(p, i)
    <3>1. /\ calls[p][i] \in Listed
          /\ Paged(p, i, {}, FilesLoaded(page[p], calls[p][i].body))
          /\ UNCHANGED <<stream, clients>> /\ \E what \in SUBSET What : Marked(p, what)
      BY <1>1, <2>5, AnswerFilesIs DEF What
    <3>2. FilesLoaded(page[p], calls[p][i].body).viewer = page[p].viewer
      BY <2>1, <3>1, FilesLoadedIs DEF Listed
    <3> QED BY <1>6, <2>2, <3>1, <3>2
  <2>6. CASE AnswerUpload(p, i)
    <3>1a. PICK t \in {page[p], UploadEnded(page[p], TRUE), UploadEnded(page[p], FALSE)} :
             \E new :
               /\ Paged(p, i, new, t)
               /\ \A d \in new : d.kind # "view"
      BY <1>1, <2>6, AnswerUploadIs DEF Sent
    <3>1. PICK new :
            /\ Paged(p, i, new, t)
            /\ \A d \in new : d.kind # "view"
      BY <3>1a
    <3>2. t.viewer = page[p].viewer
      <4>1. TRUE \in BOOLEAN /\ FALSE \in BOOLEAN
        OBVIOUS
      <4>2. UploadEnded(page[p], TRUE).viewer = page[p].viewer
            /\ UploadEnded(page[p], FALSE).viewer = page[p].viewer
        BY <2>1, <4>1, UploadEndedIs
      <4> QED BY <4>2
    <3>3. UNCHANGED <<stream, clients>> /\ (unheard' = unheard \/ Fetches(p, i))
      BY <1>1, <2>6, AnswerUploadIs
    <3>4. Untold
      BY <1>4, <1>7, <3>3
    <3> QED BY <2>2, <3>1, <3>2, <3>4
  <2>7. CASE AnswerView(p, i)
    <3>1. unheard' = unheard /\ calls[p][i].kind = "view"
          /\ \/ Paged(p, i, {}, ViewerFailed(page[p]))
             \/ /\ calls[p][i].body \in File \X Nat /\ calls[p][i].body[1] = calls[p][i].arg
                /\ Paged(p, i, {}, ViewerLoaded(page[p], calls[p][i].body))
      BY <1>1, <2>7, AnswerViewIs
    <3>2. CASE Paged(p, i, {}, ViewerFailed(page[p]))
      BY <1>4, <2>1, <2>2, <3>1, <3>2, ViewerFailedIs
    <3>3. CASE /\ calls[p][i].body \in File \X Nat /\ calls[p][i].body[1] = calls[p][i].arg
               /\ Paged(p, i, {}, ViewerLoaded(page[p], calls[p][i].body))
      BY <1>4, <2>1, <2>2, <3>1, <3>3, ViewerLoadedIs
    <3> QED BY <3>1, <3>2, <3>3
  <2>8. CASE Reject(p, i)
    <3>1. PICK t \in State : /\ Paged(p, i, {}, t)
                             /\ t.viewer.file = page[p].viewer.file
                             /\ t.viewer.text = page[p].viewer.text
      BY <1>1, <2>8, RejectIs
    <3>2. UNCHANGED <<stream, clients>> /\ \E what \in SUBSET What : Marked(p, what)
      BY <1>1, <2>8, RejectIs DEF What
    <3> QED BY <1>6, <2>2, <3>1, <3>2
  <2> QED BY <1>15, <2>3, <2>4, <2>5, <2>6, <2>7, <2>8 DEF GetsAnswer
<1>16. CASE UNCHANGED vars
  BY <1>4, <1>8, <1>16 DEF vars, serverVars
<1> QED BY <1>1, <1>9, <1>10, <1>11, <1>12, <1>13, <1>14, <1>15, <1>16, Steps

LEMMA ViewerSuffices ==
  ASSUME ViewerInv
  PROVE  ViewerShowsItsFile
BY DEF ViewerInv, ViewerSound, ViewerShowsItsFile, ViewerBody

(* The text the open viewer shows is of the file it names, although no     *)
(* answer says which file it is about, as long as no file was opened while *)
(* the answer about another one was outstanding (main.js:108-123).         *)
THEOREM ViewerHolds == Spec => []ViewerShowsItsFile
<1>1. Init => ViewerInv
  <2>1. FilesCall.kind # "view"
    BY FilesCallIs
  <2>2. ASSUME Init, NEW q \in Page PROVE ViewerSound(q)
    <3>1. page[q] = InitialState /\ (calls[q] = <<FilesCall>> \/ calls[q] = <<>>)
      BY <2>2 DEF Init
    <3>2. page[q].viewer.text = <<>>
      BY <3>1 DEF InitialState, ClosedViewer
    <3>3. \A i \in DOMAIN calls[q] : calls[q][i].kind # "view"
      BY <2>1, <3>1
    <3> QED BY <3>2, <3>3 DEF ViewerSound
  <2> QED BY <2>2 DEF ViewerInv
<1> QED BY <1>1, AlwaysTypes, ViewerStep, ViewerSuffices, PTL DEF Spec

-----------------------------------------------------------------------------
(* The mirror of the workspace.                                            *)

Leq(a, b) == \A f \in File : a[f] <= b[f]

(* No list is ahead of the workspace, on the page or on its way to it. *)
MirrorBehind(q) ==
  /\ Leq(page[q].files, workspace)
  /\ \A i \in DOMAIN calls[q] : calls[q][i].kind = "files" => Leq(calls[q][i].body, workspace)

(* The page shows the file as it is, or a list is under way that does, or  *)
(* that has still to read the section the file is in.                      *)
FileKnown(q, f) ==
  \/ page[q].files[f] = workspace[f]
  \/ \E i \in DOMAIN calls[q] :
       /\ calls[q][i].kind = "files"
       /\ \/ calls[q][i].stage = "sent" /\ f \notin calls[q][i].listed
          \/ calls[q][i].body[f] = workspace[f]

Written == \E r \in Page : \E i \in DOMAIN calls[r] : calls[r][i].stage = "written"
ToBeTold(q) == busy \/ Among(stream[q], "workspace") \/ Written
MirrorTold(q) == "files" \notin unheard[q] => ToBeTold(q) \/ \A f \in File : FileKnown(q, f)

MirrorInv == \A q \in Page : MirrorBehind(q) /\ MirrorTold(q)

MirrorStays(q) ==
  /\ "files" \notin unheard'[q] => "files" \notin unheard[q]
  /\ ToBeTold(q) => ToBeTold(q)'
  /\ \A f \in File : FileKnown(q, f) => FileKnown(q, f)'

LEMMA MirrorStaysTold ==
  ASSUME NEW q, MirrorTold(q), MirrorStays(q)
  PROVE  MirrorTold(q)'
BY DEF MirrorTold, MirrorStays

LEMMA Ahead ==
  ASSUME NEW a \in [File -> Nat], workspace \in [File -> Nat], workspace' \in [File -> Nat],
         Leq(a, workspace), Leq(workspace, workspace')
  PROVE  Leq(a, workspace')
<1> SUFFICES ASSUME NEW f \in File PROVE a[f] <= workspace'[f]
  BY DEF Leq
<1>1. a[f] <= workspace[f] /\ workspace[f] <= workspace'[f]
  BY DEF Leq
<1>2. a[f] \in Nat /\ workspace[f] \in Nat /\ workspace'[f] \in Nat
  OBVIOUS
<1> QED BY <1>1, <1>2

LEMMA CallsStayBehind ==
  ASSUME PageTypes, NEW p \in Page, NEW gone, NEW new, CallsMove(p, gone, new),
         \A c \in new : c.kind = "files" => c.body \in [File -> Nat] /\ Leq(c.body, workspace'),
         workspace' \in [File -> Nat], Leq(workspace, workspace'),
         NEW q \in Page, MirrorBehind(q)
  PROVE  \A k \in DOMAIN calls'[q] :
           calls'[q][k].kind = "files" => Leq(calls'[q][k].body, workspace')
<1>1. workspace \in [File -> Nat] /\ calls[q] \in Seq(CallRec)
  BY DEF PageTypes
<1>2. ASSUME NEW j \in DOMAIN calls[q], calls[q][j].kind = "files"
      PROVE  Leq(calls[q][j].body, workspace')
  <2>1. calls[q][j] \in CallRec
    BY <1>1, CallsDomain
  <2>2. calls[q][j].body \in [File -> Nat]
    BY <1>2, <2>1, CallCases
  <2> QED BY <1>1, <1>2, <2>2, Ahead DEF MirrorBehind
<1>3. \A k \in DOMAIN calls'[q] :
        \/ calls'[q][k].kind = "files" => Leq(calls'[q][k].body, workspace')
        \/ \E j \in DOMAIN calls[q] : calls'[q][k] = calls[q][j]
  <2>1. CASE q = p
    BY <2>1 DEF CallsMove, Changed
  <2>2. CASE q # p
    BY <2>2 DEF CallsMove
  <2> QED BY <2>1, <2>2
<1> QED BY <1>2, <1>3

LEMMA CallsBehind ==
  ASSUME PageTypes, NEW p \in Page, NEW gone, NEW new, CallsMove(p, gone, new),
         \A c \in new : c.kind = "files" => c.body \in [File -> Nat] /\ Leq(c.body, workspace'),
         workspace' \in [File -> Nat], Leq(workspace, workspace'),
         NEW q \in Page, MirrorBehind(q), page'[q].files = page[q].files
  PROVE  MirrorBehind(q)'
<1>1. workspace \in [File -> Nat] /\ page[q].files \in [File -> Nat]
  BY DEF PageTypes, State
<1>2. Leq(page'[q].files, workspace')
  BY <1>1, Ahead DEF MirrorBehind
<1> QED BY <1>2, CallsStayBehind DEF MirrorBehind

LEMMA NoFilesBehind ==
  ASSUME NEW w \in [File -> Nat]
  PROVE  FilesCall.body \in [File -> Nat] /\ Leq(FilesCall.body, w)
BY DEF FilesCall, NoFiles, Leq

(* A call that is no upload just written goes or changes: what is written  *)
(* and not told stays so.                                                  *)
LEMMA WrittenStays ==
  ASSUME NEW p \in Page, NEW gone, NEW new, CallsMove(p, gone, new),
         gone \notin DOMAIN calls[p] \/ calls[p][gone].stage # "written",
         Written
  PROVE  Written'
<1>1. PICK r \in Page : \E i \in DOMAIN calls[r] : calls[r][i].stage = "written"
  BY DEF Written
<1>2. CASE r = p
  <2>1. PICK i \in DOMAIN calls[p] : calls[p][i].stage = "written"
    BY <1>1, <1>2
  <2>2. \E k \in DOMAIN calls'[p] : calls'[p][k] = calls[p][i]
    BY <2>1 DEF CallsMove, Changed
  <2> QED BY <2>1, <2>2 DEF Written
<1>3. CASE r # p
  BY <1>1, <1>3 DEF CallsMove, Written
<1> QED BY <1>2, <1>3

LEMMA KnownStays ==
  ASSUME NEW p \in Page, NEW gone, NEW new, CallsMove(p, gone, new),
         gone \notin DOMAIN calls[p] \/ calls[p][gone].kind # "files",
         workspace' = workspace, NEW q \in Page, page'[q].files = page[q].files,
         NEW f \in File, FileKnown(q, f)
  PROVE  FileKnown(q, f)'
<1>1. \A i \in DOMAIN calls[q] : calls[q][i].kind = "files" =>
        \E k \in DOMAIN calls'[q] : calls'[q][k] = calls[q][i]
  <2>1. CASE q = p
    BY <2>1 DEF CallsMove, Changed
  <2>2. CASE q # p
    BY <2>2 DEF CallsMove
  <2> QED BY <2>1, <2>2
<1> QED BY <1>1 DEF FileKnown

(* Page q forgets no nudge that is on its way to it. *)
Unnudged(q) ==
  /\ "files" \notin unheard'[q] => "files" \notin unheard[q]
  /\ Among(stream[q], "workspace") => Among(stream'[q], "workspace")

LEMMA CallsMirror ==
  ASSUME PageTypes, NEW p \in Page, NEW gone, NEW new, CallsMove(p, gone, new),
         gone \notin DOMAIN calls[p]
           \/ (calls[p][gone].kind # "files" /\ calls[p][gone].stage # "written"),
         \A c \in new : c.kind = "files" => c = FilesCall,
         workspace' = workspace, busy' = busy,
         NEW q \in Page, page'[q].files = page[q].files, Unnudged(q), MirrorBehind(q)
  PROVE  MirrorBehind(q)' /\ MirrorStays(q)
<1>1. workspace \in [File -> Nat] /\ Leq(workspace, workspace')
  BY DEF PageTypes, Leq
<1>2. MirrorBehind(q)'
  BY <1>1, CallsBehind, NoFilesBehind
<1>3. ToBeTold(q) => ToBeTold(q)'
  BY WrittenStays DEF ToBeTold, Unnudged
<1>4. \A f \in File : FileKnown(q, f) => FileKnown(q, f)'
  BY KnownStays
<1> QED BY <1>2, <1>3, <1>4 DEF MirrorStays, Unnudged

(* After a nudge to all pages there is a frame under way, or the page knows *)
(* nothing of it. *)
LEMMA Nudged ==
  ASSUME StreamTypes, NEW frames \in Seq(Frame), Broadcast(frames), UNCHANGED clients,
         Among(frames, "workspace"), NEW q \in Page
  PROVE  MirrorTold(q)'
<1>1. /\ q \in clients => stream'[q] = stream[q] \o frames
      /\ q \notin clients => unheard'[q] = unheard[q] \union Aspects(frames)
  BY Broadcasting
<1>2. CASE q \in clients
  <2>1. stream[q] \in Seq(Frame) /\ stream'[q] = stream[q] \o frames
    BY <1>1, <1>2 DEF StreamTypes
  <2>2. Among(stream'[q], "workspace")
    BY <2>1, AmongConcat
  <2> QED BY <2>2 DEF MirrorTold, ToBeTold
<1>3. CASE q \notin clients
  BY <1>1, <1>3, AboutFrames DEF MirrorTold
<1> QED BY <1>2, <1>3

(* A broadcast without a nudge leaves the mirror where it is. *)
LEMMA NotNudged ==
  ASSUME StreamTypes, NEW frames \in Seq(Frame), Broadcast(frames), UNCHANGED clients,
         ~Among(frames, "workspace"), NEW q \in Page
  PROVE  Unnudged(q)
<1>1. /\ q \in clients => /\ stream'[q] = stream[q] \o frames
                          /\ unheard'[q] = unheard[q] \ Repairs(frames)
      /\ q \notin clients => /\ stream'[q] = stream[q]
                             /\ unheard'[q] = unheard[q] \union Aspects(frames)
  BY Broadcasting
<1>2. CASE q \in clients
  <2>1. stream[q] \in Seq(Frame) /\ stream'[q] = stream[q] \o frames
    BY <1>1, <1>2 DEF StreamTypes
  <2>2. Among(stream[q], "workspace") => Among(stream'[q], "workspace")
    BY <2>1, AmongConcat
  <2> QED BY <1>1, <1>2, <2>2, AboutFrames DEF Unnudged
<1>3. CASE q \notin clients
  BY <1>1, <1>3 DEF Unnudged
<1> QED BY <1>2, <1>3

(* What a step has to do for the mirror of page q. *)
MirrorMoves(q) == MirrorBehind(q)' /\ (MirrorStays(q) \/ MirrorTold(q)')

LEMMA PagedMirror ==
  ASSUME PageTypes, NEW p \in Page, NEW gone, NEW new, NEW t, Paged(p, gone, new, t),
         t.files = page[p].files,
         gone \notin DOMAIN calls[p]
           \/ (calls[p][gone].kind # "files" /\ calls[p][gone].stage # "written"),
         \A c \in new : c.kind = "files" => c = FilesCall,
         workspace' = workspace, busy' = busy, NEW q \in Page, Unnudged(q), MirrorBehind(q)
  PROVE  MirrorMoves(q)
<1>1. \A r \in Page : page'[r].files = page[r].files
  BY DEF Paged, PageMove
<1>2. CallsMove(p, gone, new)
  BY DEF Paged
<1> QED BY <1>1, <1>2, CallsMirror DEF MirrorMoves

LEMMA HandledMirror ==
  ASSUME PageTypes, NEW p \in Page, NEW i \in DOMAIN calls[p], NEW c, Handled(p, i, c),
         calls[p][i].kind # "files", calls[p][i].stage # "written",
         workspace' = workspace, busy' = busy, NEW q \in Page, Unnudged(q), MirrorBehind(q)
  PROVE  MirrorMoves(q)
<1>1. \A r \in Page : page'[r].files = page[r].files
  BY DEF Handled
<1>2. CallsMove(p, i, {c}) /\ c.kind # "files"
  BY DEF Handled
<1> QED BY <1>1, <1>2, CallsMirror DEF MirrorMoves

LEMMA UntouchedMirror ==
  ASSUME PageTypes, UNCHANGED <<page, calls, workspace, busy>>,
         NEW q \in Page, Unnudged(q), MirrorBehind(q)
  PROVE  MirrorMoves(q)
<1>1. CallsMove(q, 0, {}) /\ 0 \notin DOMAIN calls[q]
  BY CallsKept, NothingGone
<1> QED BY <1>1, CallsMirror DEF MirrorMoves

LEMMA Grows ==
  ASSUME workspace \in [File -> Nat], NEW f \in File, workspace' = [workspace EXCEPT ![f] = @ + 1]
  PROVE  workspace' \in [File -> Nat] /\ Leq(workspace, workspace')
BY DEF Leq

LEMMA AgentMirror ==
  ASSUME Types, Agent, NEW q \in Page, MirrorBehind(q)
  PROVE  MirrorMoves(q)
<1>1. PageTypes /\ StreamTypes /\ page' = page /\ calls' = calls
  BY DEF Types, Agent, AgentSession, AgentTrace, TurnSucceeds, TurnFails, AgentWrites
<1>2. ASSUME UNCHANGED <<workspace, busy, stream, unheard>> PROVE MirrorMoves(q)
  BY <1>1, <1>2, UntouchedMirror DEF Unnudged
<1>3. ASSUME Trace(turn.of) \in Frame, Broadcast(<<Trace(turn.of)>>),
             UNCHANGED <<clients, workspace, busy>>
      PROVE  MirrorMoves(q)
  <2>1. <<Trace(turn.of)>> \in Seq(Frame)
    BY <1>3, FrameLists
  <2>2. ~Among(<<Trace(turn.of)>>, "workspace")
    <3>1. Trace(turn.of).type # "workspace"
      BY DEF Trace
    <3> QED BY <3>1, AmongLists
  <2>3. Unnudged(q)
    BY <1>1, <1>3, <2>1, <2>2, NotNudged
  <2> QED BY <1>1, <1>3, <2>3, UntouchedMirror
<1>4. ASSUME NEW f \in Frame, Broadcast(<<f, Status("idle"), Workspace>>),
             UNCHANGED <<clients, workspace>>
      PROVE  MirrorMoves(q)
  <2>1. <<f, Status("idle"), Workspace>> \in Seq(Frame)
    BY EndingFrames
  <2>2. Among(<<f, Status("idle"), Workspace>>, "workspace")
    <3>1. Workspace.type = "workspace"
      BY DEF Workspace
    <3> QED BY <3>1, AmongLists
  <2>3. MirrorTold(q)'
    BY <1>1, <1>4, <2>1, <2>2, Nudged
  <2> QED BY <1>1, <1>4, <2>3 DEF MirrorMoves, MirrorBehind
<1>5. ASSUME NEW f \in File, AgentWrites(f) PROVE MirrorMoves(q)
  <2>1. workspace' \in [File -> Nat] /\ Leq(workspace, workspace')
    BY <1>1, <1>5, Grows DEF AgentWrites, PageTypes
  <2>2. CallsMove(q, 0, {}) /\ page'[q].files = page[q].files
    BY <1>1, CallsKept
  <2>3. MirrorBehind(q)'
    BY <1>1, <2>1, <2>2, CallsBehind
  <2>4. MirrorTold(q)'
    BY <1>5 DEF AgentWrites, MirrorTold, ToBeTold
  <2> QED BY <2>3, <2>4 DEF MirrorMoves
<1>6. CASE AgentSession
  BY <1>2, <1>6 DEF AgentSession
<1>7. CASE AgentTrace
  <2>1. turn.of # 0 /\ turn.of \in Nat
    BY <1>7 DEF Types, TurnTypes, AgentTrace
  <2>2. Trace(turn.of) \in Frame
    BY <2>1, FramesAre
  <2> QED BY <1>3, <1>7, <2>2 DEF AgentTrace
<1>8. CASE TurnSucceeds \/ TurnFails
  <2>1. turn.of # 0 /\ turn.of \in Nat
    BY <1>8 DEF Types, TurnTypes, TurnSucceeds, TurnFails
  <2>2. Reply(turn.of) \in Frame /\ Error(turn.of) \in Frame
    BY <2>1, FramesAre
  <2> QED BY <1>4, <1>8, <2>2 DEF TurnSucceeds, TurnFails, Finally
<1> QED BY <1>5, <1>6, <1>7, <1>8 DEF Agent

LEMMA DropMirror ==
  ASSUME Types, NEW p \in Page, Drops(p), NEW q \in Page, MirrorBehind(q)
  PROVE  MirrorMoves(q)
<1>1. /\ PageTypes /\ StreamTypes /\ UNCHANGED <<page, calls, workspace, busy>>
      /\ Drop(p)
  BY DEF Types, Drops, Drop
<1>2. /\ unheard'[p] = unheard[p] \union Aspects(stream[p])
      /\ \A r \in Page \ {p} : stream'[r] = stream[r] /\ unheard'[r] = unheard[r]
  BY <1>1, DropIs
<1>3. MirrorBehind(q)'
  BY <1>1 DEF MirrorBehind
<1>4. CASE q = p /\ Among(stream[p], "workspace")
  <2>1. "files" \in Aspects(stream[p])
    BY <1>1, <1>4, AboutFrames DEF StreamTypes
  <2> QED BY <1>2, <1>3, <1>4, <2>1 DEF MirrorMoves, MirrorTold
<1>5. CASE q # p \/ ~Among(stream[p], "workspace")
  <2>1. "files" \notin unheard'[q] => "files" \notin unheard[q]
    BY <1>2
  <2>2. Among(stream[q], "workspace") => Among(stream'[q], "workspace")
    BY <1>2, <1>5
  <2>3. ToBeTold(q) => ToBeTold(q)'
    BY <1>1, <2>2 DEF ToBeTold, Written
  <2>4. \A f \in File : FileKnown(q, f) => FileKnown(q, f)'
    BY <1>1 DEF FileKnown
  <2> QED BY <1>3, <2>1, <2>3, <2>4 DEF MirrorMoves, MirrorStays
<1> QED BY <1>4, <1>5

LEMMA UserActsMirror ==
  ASSUME Types, NEW p \in Page, UserActs(p), NEW q \in Page, MirrorBehind(q)
  PROVE  MirrorMoves(q)
<1>1. PageTypes /\ StreamTypes /\ page[p] \in State /\ 0 \notin DOMAIN calls[p]
  BY NothingGone DEF Types, PageTypes
<1>2. ASSUME NEW new, NEW t, Paged(p, 0, new, t), t.files = page[p].files,
             \A c \in new : c.kind # "files",
             UNCHANGED <<workspace, busy, stream>>, Unnudged(q)
      PROVE  MirrorMoves(q)
  BY <1>1, <1>2, PagedMirror
<1>3. UNCHANGED <<stream, unheard>> => Unnudged(q)
  BY DEF Unnudged
<1>4. CASE NewChat(p)
  <2>1. UNCHANGED <<workspace, busy, stream, unheard>>
        /\ \E c : Paged(p, 0, {c}, page[p]) /\ c.kind = "reset"
    BY <1>1, <1>4, NewChatIs
  <2> QED BY <1>2, <1>3, <2>1
<1>5. CASE CloseViewer(p)
  <2>1. UNCHANGED <<workspace, busy, stream, unheard>> /\ Paged(p, 0, {}, ViewerClosed(page[p]))
    BY <1>1, <1>5, CloseViewerIs
  <2>2. ViewerClosed(page[p]).files = page[p].files
    BY <1>1, ViewerClosedIs
  <2> QED BY <1>2, <1>3, <2>1, <2>2
<1>6. CASE \E m \in Message : SubmitTurn(p, m)
  <2>1. UNCHANGED <<workspace, busy, stream, unheard>>
        /\ \E c : Paged(p, 0, {c}, StatusChanged(page[p], "working")) /\ c.kind = "chat"
    BY <1>1, <1>6, SubmitTurnIs
  <2>2. StatusChanged(page[p], "working").files = page[p].files
    BY <1>1, StatusChangedIs
  <2> QED BY <1>2, <1>3, <2>1, <2>2
<1>7. CASE \E l \in UploadLists : UploadFiles(p, l)
  <2>1. UNCHANGED <<workspace, busy, stream, unheard>>
        /\ \E c : Paged(p, 0, {c}, UploadStarted(page[p])) /\ c.kind = "upload"
    BY <1>1, <1>7, UploadFilesIs
  <2>2. UploadStarted(page[p]).files = page[p].files
    BY <1>1, UploadStartedIs
  <2> QED BY <1>2, <1>3, <2>1, <2>2
<1>8. CASE \E f \in File : OpenViewer(p, f)
  <2>1. PICK f \in File : OpenViewer(p, f)
    BY <1>8
  <2>2. UNCHANGED <<workspace, busy, stream>>
        /\ \E c : Paged(p, 0, {c}, ViewerOpened(page[p], f)) /\ c.kind = "view"
    BY <1>1, <2>1, OpenViewerIs
  <2>3. ViewerOpened(page[p], f).files = page[p].files
    BY <1>1, ViewerOpenedIs
  <2>4. Unnudged(q)
    <3>1. "files" \in unheard[q] => "files" \in unheard'[q]
      BY <1>1, <2>1 DEF OpenViewer, StreamTypes
    <3> QED BY <2>2, <3>1 DEF Unnudged
  <2> QED BY <1>2, <2>2, <2>3, <2>4
<1> QED BY <1>4, <1>5, <1>6, <1>7, <1>8 DEF UserActs

(* A page that fetches the list will know all of it, or knows that it does *)
(* not. *)
LEMMA FetchMirror ==
  ASSUME PageTypes, StreamTypes, NEW p \in Page, NEW gone, Fetches(p, gone),
         page'[p].files = page[p].files, workspace' = workspace, MirrorBehind(p)
  PROVE  MirrorMoves(p)
<1>1. workspace' \in [File -> Nat] /\ Leq(workspace, workspace')
  BY DEF PageTypes, Leq
<1>2. CASE CallsMove(p, gone, {FilesCall}) /\ UNCHANGED unheard
  <2>1. MirrorBehind(p)'
    BY <1>1, <1>2, CallsBehind, NoFilesBehind
  <2>2. PICK k \in DOMAIN calls'[p] : calls'[p][k] = FilesCall
    BY <1>2 DEF CallsMove, Changed
  <2>3. MirrorTold(p)'
    BY <2>2, FilesCallIs DEF MirrorTold, FileKnown
  <2> QED BY <2>1, <2>3 DEF MirrorMoves
<1>3. CASE CallsMove(p, gone, {}) /\ unheard' = [unheard EXCEPT ![p] = @ \union {"files"}]
  <2>1. MirrorBehind(p)'
    BY <1>1, <1>3, CallsBehind
  <2>2. "files" \in unheard'[p]
    BY <1>3 DEF StreamTypes
  <2> QED BY <2>1, <2>2 DEF MirrorMoves, MirrorTold
<1> QED BY <1>2, <1>3 DEF Fetches

LEMMA ReceiveMirror ==
  ASSUME Types, NEW p \in Page, Receive(p), NEW q \in Page, MirrorBehind(q)
  PROVE  MirrorMoves(q)
<1>1. PageTypes /\ StreamTypes /\ page[p] \in State /\ 0 \notin DOMAIN calls[p]
  BY NothingGone DEF Types, PageTypes
<1> DEFINE f == Head(stream[p])
           t == HearConversation(page[p], f)
<1>2. /\ stream[p] \in Seq(Frame) /\ stream[p] # <<>> /\ f \in Frame
      /\ stream' = [stream EXCEPT ![p] = Tail(stream[p])]
      /\ UNCHANGED <<workspace, busy>>
      /\ f.type # "workspace" => UNCHANGED <<calls, unheard>>
      /\ f.type = "workspace" => Fetches(p, 0)
  BY <1>1, ReceiveIs
<1>3. PICK new \in {{}, {FilesCall}} : Paged(p, 0, new, t)
  BY <1>1, ReceiveIs
<1>4. t.files = page[p].files
  BY <1>1, <1>2, HearIs
<1> HIDE DEF f, t
<1>5. ASSUME Unnudged(q) PROVE MirrorMoves(q)
  <2>1. \A c \in new : c.kind = "files" => c = FilesCall
    OBVIOUS
  <2> QED BY <1>1, <1>2, <1>3, <1>4, <1>5, <2>1, PagedMirror
<1>6. CASE q # p
  <2>1. stream'[q] = stream[q]
    BY <1>1, <1>2, <1>6 DEF StreamTypes
  <2>2. unheard'[q] = unheard[q]
    BY <1>1, <1>2, <1>6 DEF StreamTypes, Fetches
  <2> QED BY <1>5, <2>1, <2>2 DEF Unnudged
<1>7. CASE q = p /\ f.type = "workspace"
  <2>1. page'[p].files = page[p].files
    BY <1>3, <1>4 DEF Paged, PageMove
  <2> QED BY <1>1, <1>2, <1>7, <2>1, FetchMirror
<1>8. CASE q = p /\ f.type # "workspace"
  <2>1. stream'[p] = Tail(stream[p])
    BY <1>1, <1>2 DEF StreamTypes
  <2>2. Among(stream[p], "workspace") => Among(stream'[p], "workspace")
    BY <1>2, <1>8, <2>1, AmongRest DEF f
  <2> QED BY <1>2, <1>5, <1>8, <2>2 DEF Unnudged
<1> QED BY <1>6, <1>7, <1>8

(* A listing reads one more section. *)
LEMMA ListingMirror ==
  ASSUME PageTypes, NEW p \in Page, NEW i \in DOMAIN calls[p],
         NEW section \in {Uploads, File \ Uploads}, HandleFiles(p, i, section), page' = page,
         NEW q \in Page, MirrorBehind(q)
  PROVE  MirrorMoves(q)
<1> DEFINE old == calls[p][i]
<1>1. /\ old.kind = "files" /\ old \in Listing
      /\ UNCHANGED <<busy, workspace, stream, unheard>>
  BY HandleFilesIs
<1>2. PICK c : SectionRead(p, i, section, c)
  BY HandleFilesIs
<1>3. /\ workspace \in [File -> Nat] /\ workspace' = workspace
      /\ old.body \in [File -> Nat] /\ old.stage = "sent"
  BY <1>1 DEF PageTypes, Listing
<1>4. CallsMove(p, i, {c}) /\ c.kind = "files"
  BY <1>1, <1>2 DEF Handled, SectionRead
<1>5. Leq(workspace, workspace')
  BY <1>3 DEF Leq
<1>6. MirrorBehind(q)'
  <2>1. Leq(old.body, workspace) \/ q # p
    BY <1>1 DEF MirrorBehind
  <2>2. CASE q = p
    <3>1. c.body \in [File -> Nat] /\ Leq(c.body, workspace')
      BY <1>2, <1>3, <2>1, <2>2 DEF Leq, SectionRead
    <3> QED BY <1>3, <1>4, <1>5, <3>1, CallsBehind
  <2>3. CASE q # p
    BY <1>3, <1>4, <2>3 DEF MirrorBehind, CallsMove
  <2> QED BY <2>2, <2>3
<1>7. ToBeTold(q) => ToBeTold(q)'
  <2>1. old.stage # "written"
    BY <1>3
  <2>2. Written => Written'
    BY <1>4, <2>1, WrittenStays
  <2> QED BY <1>1, <2>2 DEF ToBeTold
<1>8. ASSUME NEW f \in File, FileKnown(q, f) PROVE FileKnown(q, f)'
  <2>1. CASE page[q].files[f] = workspace[f]
    BY <1>3, <2>1 DEF FileKnown
  <2>2. CASE q # p
    BY <1>3, <1>4, <1>8, <2>2 DEF FileKnown, CallsMove
  <2>3. ASSUME q = p, NEW j \in DOMAIN calls[p], calls[p][j].kind = "files",
               \/ calls[p][j].stage = "sent" /\ f \notin calls[p][j].listed
               \/ calls[p][j].body[f] = workspace[f]
        PROVE  FileKnown(q, f)'
    <3>1. CASE j # i
      <4>1. PICK k \in DOMAIN calls'[p] : calls'[p][k] = calls[p][j]
        BY <1>4, <3>1 DEF CallsMove, Changed
      <4> QED BY <1>3, <2>3, <4>1 DEF FileKnown
    <3>2. CASE j = i
      <4>1. PICK k \in DOMAIN calls'[p] : calls'[p][k] = c
        BY <1>4 DEF CallsMove, Changed
      <4>2. CASE f \in section \/ old.body[f] = workspace[f]
        <5>1. c.body[f] = workspace[f]
          BY <1>2, <4>2 DEF SectionRead
        <5> QED BY <1>3, <1>4, <2>3, <4>1, <5>1 DEF FileKnown
      <4>3. CASE f \notin section /\ f \notin old.listed
        <5>1. c \in Listing /\ f \notin c.listed
          BY <1>2, <4>3 DEF SectionRead
        <5>2. c.stage = "sent"
          BY <5>1 DEF Listing
        <5> QED BY <1>4, <2>3, <4>1, <5>1, <5>2 DEF FileKnown
      <4> QED BY <2>3, <3>2, <4>2, <4>3
    <3> QED BY <3>1, <3>2
  <2> QED BY <1>8, <2>1, <2>2, <2>3 DEF FileKnown
<1>9. "files" \notin unheard'[q] => "files" \notin unheard[q]
  BY <1>1
<1> QED BY <1>6, <1>7, <1>8, <1>9 DEF MirrorMoves, MirrorStays

LEMMA HandlesMirror ==
  ASSUME Types, NEW p \in Page, NEW i \in DOMAIN calls[p], Handles(p, i),
         NEW q \in Page, MirrorBehind(q)
  PROVE  MirrorMoves(q)
<1>1. PageTypes /\ StreamTypes /\ page' = page /\ turn.of \in Nat
  BY DEF Types, TurnTypes, Handles
<1>2. ASSUME NEW c, Handled(p, i, c), calls[p][i].kind # "files", calls[p][i].stage # "written",
             UNCHANGED <<workspace, busy>>, Unnudged(q)
      PROVE  MirrorMoves(q)
  BY <1>1, <1>2, HandledMirror
<1>3. UNCHANGED <<stream, unheard>> => Unnudged(q)
  BY DEF Unnudged
<1>4. ASSUME NEW c, Handled(p, i, c), c.kind # "files",
             workspace' \in [File -> Nat], Leq(workspace, workspace')
      PROVE  MirrorBehind(q)'
  <2>1. CallsMove(p, i, {c}) /\ page'[q].files = page[q].files
    BY <1>4 DEF Handled
  <2> QED BY <1>1, <1>4, <2>1, CallsBehind
<1>5. workspace \in [File -> Nat] /\ Leq(workspace, workspace)
  BY <1>1 DEF PageTypes, Leq
<1>6. CASE HandleChat(p, i)
  <2>1. PICK c : Handled(p, i, c)
    BY <1>1, <1>6, HandleChatIs
  <2>2. /\ calls[p][i].kind = "chat" /\ UNCHANGED workspace
        /\ busy' = TRUE
    BY <1>1, <1>6, HandleChatIs DEF Refuse, StartTurn, Types, TurnTypes
  <2>3. MirrorBehind(q)'
    BY <1>4, <1>5, <2>1, <2>2 DEF Handled
  <2> QED BY <2>2, <2>3 DEF MirrorMoves, MirrorTold, ToBeTold
<1>7. CASE HandleReset(p, i)
  <2>1. /\ calls[p][i].kind = "reset" /\ UNCHANGED <<clients, workspace, busy>>
        /\ UNCHANGED <<stream, unheard>> \/ Broadcast(<<Reset>>)
        /\ \E c : Handled(p, i, c)
    BY <1>1, <1>7, HandleResetIs DEF Refuse
  <2>2. calls[p][i].stage # "written"
    BY <1>7 DEF HandleReset, At
  <2>3. Broadcast(<<Reset>>) => Unnudged(q)
    <3>1. <<Reset>> \in Seq(Frame)
      BY StaticFrames, FrameLists
    <3>2. Reset.type # "workspace"
      BY DEF Reset
    <3>3. ~Among(<<Reset>>, "workspace")
      BY <3>2, AmongLists
    <3> QED BY <1>1, <2>1, <3>1, <3>3, NotNudged
  <2> QED BY <1>2, <1>3, <2>1, <2>2, <2>3
<1>8. CASE FinishUpload(p, i)
  <2>1. /\ calls[p][i].kind = "upload" /\ UNCHANGED <<clients, workspace>>
        /\ Broadcast(<<Workspace>>)
    BY <1>1, <1>8, FinishUploadIs
  <2>2. \E c : Handled(p, i, c)
    BY <1>1, <1>8, FinishUploadIs
  <2>3. MirrorBehind(q)'
    BY <1>4, <1>5, <2>1, <2>2 DEF Handled
  <2>4. Among(<<Workspace>>, "workspace") /\ <<Workspace>> \in Seq(Frame)
    <3>1. Workspace.type = "workspace"
      BY DEF Workspace
    <3> QED BY <3>1, AmongLists, StaticFrames, FrameLists
  <2>5. MirrorTold(q)'
    BY <1>1, <2>1, <2>4, Nudged
  <2> QED BY <2>3, <2>5 DEF MirrorMoves
<1>9. CASE HandleFileContent(p, i)
  <2>1. /\ calls[p][i].kind = "view" /\ UNCHANGED <<workspace, busy, stream, unheard>>
        /\ \E c : Handled(p, i, c)
    BY <1>1, <1>9, HandleFileContentIs
  <2>2. calls[p][i].stage # "written"
    BY <1>9 DEF HandleFileContent, At
  <2> QED BY <1>2, <1>3, <2>1, <2>2
<1>10. CASE HandleUpload(p, i)
  BY <1>1, <1>2, <1>3, <1>10, HandleUploadIs
<1>11. CASE WriteUpload(p, i)
  <2>1. PICK c : Handled(p, i, c) /\ c.stage = "written"
    BY <1>1, <1>11, WriteUploadIs
  <2>2. calls[p][i].kind = "upload" /\ \E f \in File : workspace' = [workspace EXCEPT ![f] = @ + 1]
    BY <1>1, <1>11, WriteUploadIs
  <2>3. workspace' \in [File -> Nat] /\ Leq(workspace, workspace')
    BY <1>5, <2>2, Grows
  <2>4. MirrorBehind(q)'
    BY <1>4, <2>1, <2>2, <2>3 DEF Handled
  <2>5. Written'
    BY <2>1 DEF Handled, CallsMove, Changed, Written
  <2> QED BY <2>4, <2>5 DEF MirrorMoves, MirrorTold, ToBeTold
<1>12. CASE \E s \in {Uploads, File \ Uploads} : HandleFiles(p, i, s)
  BY <1>1, <1>12, ListingMirror
<1> QED BY <1>6, <1>7, <1>8, <1>9, <1>10, <1>11, <1>12 DEF Handles

(* The list arrives: it is the newer one, or the page knows it is not. *)
LEMMA ListMirror ==
  ASSUME Types, NEW p \in Page, NEW i \in DOMAIN calls[p], AnswerFiles(p, i),
         NEW q \in Page, MirrorBehind(q)
  PROVE  MirrorMoves(q)
<1> DEFINE c == calls[p][i]
           t == FilesLoaded(page[p], c.body)
<1>1. PageTypes /\ StreamTypes /\ page[p] \in State
  BY DEF Types, PageTypes
<1>2. /\ c \in Listed /\ UNCHANGED <<busy, workspace, stream, clients>>
      /\ Paged(p, i, {}, t)
      /\ Marked(p, IF Older(c.body, page[p].files) THEN {"files"} ELSE {})
  BY <1>1, AnswerFilesIs
<1>3. c.kind = "files" /\ c.stage = "answered" /\ c.body \in [File -> Nat]
  BY <1>2 DEF Listed
<1>4. t.files = c.body
  BY <1>1, <1>3, FilesLoadedIs
<1> HIDE DEF t
<1>5. /\ page'[p].files = c.body /\ CallsMove(p, i, {})
      /\ \A r \in Page \ {p} : page'[r] = page[r] /\ calls'[r] = calls[r]
  BY <1>2, <1>4 DEF Paged, PageMove, CallsMove
<1>6. workspace' = workspace /\ workspace \in [File -> Nat] /\ Leq(workspace, workspace')
  BY <1>1, <1>2 DEF PageTypes, Leq
<1>7. ToBeTold(q) => ToBeTold(q)'
  <2>1. Written => Written'
    BY <1>3, <1>5, WrittenStays
  <2> QED BY <1>2, <2>1 DEF ToBeTold
<1>8. CASE q # p
  <2>1. MirrorBehind(q)'
    BY <1>5, <1>6, <1>8 DEF MirrorBehind
  <2>2. unheard'[q] = unheard[q]
    BY <1>1, <1>2, <1>8 DEF Marked, StreamTypes
  <2>3. \A f \in File : FileKnown(q, f) => FileKnown(q, f)'
    BY <1>5, <1>6, <1>8 DEF FileKnown
  <2> QED BY <1>7, <2>1, <2>2, <2>3 DEF MirrorMoves, MirrorStays
<1>9. CASE q = p
  <2>1. Leq(c.body, workspace)
    BY <1>3, <1>9 DEF MirrorBehind
  <2>2. \A k \in DOMAIN calls'[q] :
          calls'[q][k].kind = "files" => Leq(calls'[q][k].body, workspace')
    BY <1>1, <1>5, <1>6, CallsStayBehind
  <2>3. MirrorBehind(q)'
    BY <1>5, <1>6, <1>9, <2>1, <2>2 DEF MirrorBehind
  <2>4. CASE Older(c.body, page[p].files)
    <3>1. Marked(p, {"files"})
      BY <1>2, <2>4
    <3>2. "files" \in unheard'[p]
      BY <1>1, <3>1 DEF Marked, StreamTypes
    <3> QED BY <1>9, <2>3, <3>2 DEF MirrorMoves, MirrorTold
  <2>5. CASE ~Older(c.body, page[p].files)
    <3>1. Marked(p, {})
      BY <1>2, <2>5
    <3>2. unheard'[p] = unheard[p]
      BY <1>1, <3>1 DEF Marked, StreamTypes
    <3>3. ASSUME NEW f \in File, FileKnown(q, f) PROVE FileKnown(q, f)'
      <4>1. c.body[f] \in Nat /\ workspace[f] \in Nat /\ page[p].files[f] \in Nat
        BY <1>1, <1>3, <1>6 DEF State
      <4>2. CASE page[p].files[f] = workspace[f]
        <5>1. ~(c.body[f] < page[p].files[f]) /\ c.body[f] <= workspace[f]
          BY <2>1, <2>5 DEF Older, Leq
        <5>2. c.body[f] = workspace[f]
          BY <4>1, <4>2, <5>1
        <5> QED BY <1>5, <1>6, <1>9, <5>2 DEF FileKnown
      <4>3. ASSUME NEW j \in DOMAIN calls[p], calls[p][j].kind = "files",
                   \/ calls[p][j].stage = "sent" /\ f \notin calls[p][j].listed
                   \/ calls[p][j].body[f] = workspace[f]
            PROVE  FileKnown(q, f)'
        <5>1. CASE j = i
          BY <1>3, <1>5, <1>6, <1>9, <4>3, <5>1 DEF FileKnown
        <5>2. CASE j # i
          <6>1. PICK k \in DOMAIN calls'[p] : calls'[p][k] = calls[p][j]
            BY <1>5, <5>2 DEF CallsMove, Changed
          <6> QED BY <1>6, <1>9, <4>3, <6>1 DEF FileKnown
        <5> QED BY <5>1, <5>2
      <4> QED BY <1>9, <3>3, <4>2, <4>3 DEF FileKnown
    <3> QED BY <1>7, <1>9, <2>3, <3>2, <3>3 DEF MirrorMoves, MirrorStays
  <2> QED BY <2>4, <2>5
<1> QED BY <1>8, <1>9

LEMMA MarkedUnnudged ==
  ASSUME StreamTypes, NEW p \in Page, NEW what \in SUBSET What, Marked(p, what),
         UNCHANGED <<stream, clients>>, NEW q \in Page
  PROVE  Unnudged(q)
<1>1. unheard'[p] = unheard[p] \union what /\ \A r \in Page \ {p} : unheard'[r] = unheard[r]
  BY MarkedIs
<1> QED BY <1>1 DEF Unnudged

LEMMA AnswersMirror ==
  ASSUME Types, NEW p \in Page, NEW i \in DOMAIN calls[p], GetsAnswer(p, i),
         NEW q \in Page, MirrorBehind(q)
  PROVE  MirrorMoves(q)
<1>1. PageTypes /\ StreamTypes /\ page[p] \in State /\ calls[p][i] \in CallRec
  BY CallAt DEF Types
<1>2. ASSUME NEW new, NEW t, Paged(p, i, new, t), t.files = page[p].files,
             calls[p][i].kind # "files", calls[p][i].stage # "written",
             \A c \in new : c.kind = "files" => c = FilesCall,
             UNCHANGED <<workspace, busy>>, Unnudged(q)
      PROVE  MirrorMoves(q)
  BY <1>1, <1>2, PagedMirror
<1>3. UNCHANGED <<stream, unheard>> => Unnudged(q)
  BY DEF Unnudged
<1>4. calls[p][i].stage # "written"
  <2>1. CASE Reject(p, i)
    BY <1>1, <2>1, RejectIs
  <2> QED BY <2>1 DEF GetsAnswer, AnswerChat, AnswerReset, AnswerFiles, AnswerUpload, AnswerView, At
<1>5. CASE AnswerChat(p, i)
  <2>1. /\ calls[p][i].kind = "chat" /\ UNCHANGED <<workspace, busy, stream, unheard>>
        /\ \E t \in {page[p], AddMessage(page[p], "error", Local)} : Paged(p, i, {}, t)
    BY <1>1, <1>5, AnswerChatIs
  <2>2. AddMessage(page[p], "error", Local).files = page[p].files
    <3>1. "error" \in Roles /\ Local \in Nat
      BY DEF Roles, Local
    <3> QED BY <1>1, <3>1, AddMessageIs
  <2>3. PICK t \in {page[p], AddMessage(page[p], "error", Local)} : Paged(p, i, {}, t)
    BY <2>1
  <2>4. t.files = page[p].files
    BY <2>2
  <2> QED BY <1>2, <1>3, <1>4, <2>1, <2>3, <2>4
<1>6. CASE AnswerReset(p, i)
  <2>1. calls[p][i].kind = "reset" /\ UNCHANGED <<workspace, busy, stream, clients>>
    BY <1>1, <1>6, AnswerResetIs
  <2>2. PICK new \in {{}, {FilesCall}}, ok \in BOOLEAN :
          /\ Paged(p, i, new, IF ok THEN ConversationReset(page[p]) ELSE page[p])
          /\ Marked(p, (IF ok THEN Wiped(p) ELSE {}) \union IF new = {} THEN {"files"} ELSE {})
    BY <1>1, <1>6, AnswerResetIs
  <2> DEFINE what == (IF ok THEN Wiped(p) ELSE {}) \union IF new = {} THEN {"files"} ELSE {}
             t == IF ok THEN ConversationReset(page[p]) ELSE page[p]
  <2>3. what \in SUBSET What
    BY DEF Wiped, What
  <2>4. t.files = page[p].files
    BY <1>1, ConversationResetIs
  <2>5. Marked(p, what) /\ Paged(p, i, new, t)
    BY <2>2
  <2>6. \A c \in new : c.kind = "files" => c = FilesCall
    OBVIOUS
  <2> HIDE DEF what, t
  <2>7. Unnudged(q)
    BY <1>1, <2>1, <2>3, <2>5, MarkedUnnudged
  <2> QED BY <1>2, <1>4, <2>1, <2>4, <2>5, <2>6, <2>7
<1>7. CASE AnswerFiles(p, i)
  BY <1>7, ListMirror
<1>8. CASE AnswerUpload(p, i)
  <2>1a. PICK t \in {page[p], UploadEnded(page[p], TRUE), UploadEnded(page[p], FALSE)} :
           \E new :
             /\ Paged(p, i, new, t)
             /\ \A d \in new : Sent(d)
    BY <1>1, <1>8, AnswerUploadIs
  <2>1. PICK new :
          /\ Paged(p, i, new, t)
          /\ \A d \in new : Sent(d)
    BY <2>1a
  <2>21. \A d \in new : d.kind = "files" => d = FilesCall
    BY <2>1 DEF Sent
  <2>2. t.files = page[p].files
    <3>1. TRUE \in BOOLEAN /\ FALSE \in BOOLEAN
      OBVIOUS
    <3>2. UploadEnded(page[p], TRUE).files = page[p].files
          /\ UploadEnded(page[p], FALSE).files = page[p].files
      BY <1>1, <3>1, UploadEndedIs
    <3> QED BY <3>2
  <2>3. calls[p][i].kind = "upload" /\ UNCHANGED <<workspace, busy, stream, clients>>
        /\ (unheard' = unheard \/ Fetches(p, i))
    BY <1>1, <1>8, AnswerUploadIs
  <2>4. Unnudged(q)
    <3>1. ASSUME unheard' = [unheard EXCEPT ![p] = @ \union {"files"}] PROVE Unnudged(q)
      BY <1>1, <2>3, <3>1 DEF Unnudged, StreamTypes
    <3> QED BY <1>3, <2>3, <3>1 DEF Fetches
  <2> QED BY <1>2, <1>4, <2>1, <2>21, <2>2, <2>3, <2>4
<1>9. CASE AnswerView(p, i)
  <2>1. calls[p][i].kind = "view" /\ UNCHANGED <<workspace, busy, stream, unheard>>
        /\ \/ Paged(p, i, {}, ViewerFailed(page[p]))
           \/ /\ calls[p][i].body \in File \X Nat
              /\ Paged(p, i, {}, ViewerLoaded(page[p], calls[p][i].body))
    BY <1>1, <1>9, AnswerViewIs
  <2>2. CASE Paged(p, i, {}, ViewerFailed(page[p]))
    BY <1>1, <1>2, <1>3, <1>4, <2>1, <2>2, ViewerFailedIs
  <2>3. CASE /\ calls[p][i].body \in File \X Nat
             /\ Paged(p, i, {}, ViewerLoaded(page[p], calls[p][i].body))
    BY <1>1, <1>2, <1>3, <1>4, <2>1, <2>3, ViewerLoadedIs
  <2> QED BY <2>1, <2>2, <2>3
<1>10. CASE Reject(p, i)
  <2>1. UNCHANGED <<workspace, busy, stream, clients>>
    BY <1>1, <1>10, RejectIs
  <2>2. PICK t \in State : Paged(p, i, {}, t) /\ t.files = page[p].files
    BY <1>1, <1>10, RejectIs
  <2>3. PICK what \in SUBSET {"files", "status"} :
          Marked(p, what) /\ (calls[p][i].kind = "files" => "files" \in what)
    BY <1>1, <1>10, RejectIs
  <2>4. what \in SUBSET What
    BY DEF What
  <2>5. Unnudged(q)
    BY <1>1, <2>1, <2>3, <2>4, MarkedUnnudged
  <2>6. CASE calls[p][i].kind # "files"
    BY <1>2, <1>4, <2>1, <2>2, <2>5, <2>6
  <2>7. CASE calls[p][i].kind = "files"
    <3>1. CallsMove(p, i, {}) /\ page'[q].files = page[q].files
      BY <2>2 DEF Paged, PageMove
    <3>2. workspace' \in [File -> Nat] /\ Leq(workspace, workspace')
      BY <1>1, <2>1 DEF PageTypes, Leq
    <3>3. MirrorBehind(q)'
      BY <1>1, <3>1, <3>2, CallsBehind
    <3>4. CASE q = p
      <4>1. "files" \in unheard'[p]
        BY <1>1, <2>3, <2>7 DEF Marked, StreamTypes
      <4> QED BY <3>3, <3>4, <4>1 DEF MirrorMoves, MirrorTold
    <3>5. CASE q # p
      <4>1. calls'[q] = calls[q]
        BY <3>1, <3>5 DEF CallsMove
      <4>2. Written => Written'
        BY <1>4, <3>1, WrittenStays
      <4>3. \A f \in File : FileKnown(q, f) => FileKnown(q, f)'
        BY <2>1, <3>1, <4>1 DEF FileKnown
      <4> QED BY <2>1, <2>5, <3>3, <4>2, <4>3 DEF MirrorMoves, MirrorStays, ToBeTold, Unnudged
    <3> QED BY <3>4, <3>5
  <2> QED BY <2>6, <2>7
<1> QED BY <1>5, <1>6, <1>7, <1>8, <1>9, <1>10 DEF GetsAnswer

LEMMA MirrorStep ==
  ASSUME Types, MirrorInv, [Next]_vars
  PROVE  MirrorInv'
<1>1. PageTypes /\ Bounded
  BY DEF Types
<1>2. SUFFICES ASSUME NEW q \in Page PROVE MirrorMoves(q)
  BY MirrorStaysTold DEF MirrorInv, MirrorMoves
<1>3. MirrorBehind(q)
  BY DEF MirrorInv
<1>4. CASE Agent
  BY <1>3, <1>4, AgentMirror
<1>5. ASSUME NEW p \in Page, Connects(p) PROVE MirrorMoves(q)
  BY <1>1, <1>3, <1>5, UntouchedMirror DEF Connects, Connect, Unnudged
<1>6. ASSUME NEW p \in Page, Drops(p) PROVE MirrorMoves(q)
  BY <1>3, <1>6, DropMirror
<1>7. ASSUME NEW p \in Page, UserActs(p) PROVE MirrorMoves(q)
  BY <1>3, <1>7, UserActsMirror
<1>8. ASSUME NEW p \in Page, Receive(p) PROVE MirrorMoves(q)
  BY <1>3, <1>8, ReceiveMirror
<1>9. ASSUME NEW p \in Page, NEW i \in DOMAIN calls[p], Handles(p, i) PROVE MirrorMoves(q)
  BY <1>3, <1>9, HandlesMirror
<1>10. ASSUME NEW p \in Page, NEW i \in DOMAIN calls[p], GetsAnswer(p, i) PROVE MirrorMoves(q)
  BY <1>3, <1>10, AnswersMirror
<1>11. CASE UNCHANGED vars
  BY <1>1, <1>3, <1>11, UntouchedMirror DEF vars, serverVars, Unnudged
<1> QED BY <1>1, <1>4, <1>5, <1>6, <1>7, <1>8, <1>9, <1>10, <1>11, Steps

LEMMA MirrorSuffices ==
  ASSUME Types, MirrorInv
  PROVE  MirrorIsCurrent
<1>1. SUFFICES ASSUME NEW p \in Page, Quiet(p), "files" \notin unheard[p]
               PROVE  page[p].files = workspace
  BY DEF MirrorIsCurrent
<1>2. ~ToBeTold(p)
  BY <1>1 DEF Quiet, ToBeTold, Pending, Among, Written
<1>3. \A f \in File : page[p].files[f] = workspace[f]
  <2>1. MirrorTold(p)
    BY DEF MirrorInv
  <2>2. \A f \in File : FileKnown(p, f)
    BY <1>1, <1>2, <2>1 DEF MirrorTold
  <2>3. \A i \in DOMAIN calls[p] : calls[p][i].kind # "files"
    BY <1>1 DEF Quiet, InFlight
  <2> QED BY <2>2, <2>3 DEF FileKnown
<1>4. page[p].files \in [File -> Nat] /\ workspace \in [File -> Nat]
  BY DEF Types, PageTypes, State
<1> QED BY <1>3, <1>4

LEMMA InitMirror ==
  ASSUME Init
  PROVE  MirrorInv
<1>1. SUFFICES ASSUME NEW q \in Page PROVE MirrorBehind(q) /\ MirrorTold(q)
  BY DEF MirrorInv
<1>2. workspace \in [File -> Nat]
  BY DEF Init
<1>3. Leq(NoFiles, workspace) /\ page[q].files = NoFiles
  BY <1>2 DEF Init, Leq, NoFiles, InitialState
<1>4. calls[q] = <<FilesCall>> \/ (calls[q] = <<>> /\ "files" \in unheard[q])
  BY DEF Init
<1>5. \A i \in DOMAIN calls[q] : calls[q][i] = FilesCall
  BY <1>4
<1>6. MirrorBehind(q)
  BY <1>2, <1>3, <1>5, NoFilesBehind DEF MirrorBehind
<1>7. MirrorTold(q)
  <2>1. CASE calls[q] = <<FilesCall>>
    <3>1. 1 \in DOMAIN calls[q] /\ calls[q][1] = FilesCall
      BY <2>1
    <3> QED BY <3>1, FilesCallIs DEF MirrorTold, FileKnown
  <2> QED BY <1>4, <2>1 DEF MirrorTold
<1> QED BY <1>6, <1>7

(* A page with nothing under way shows the workspace as it is, unless it   *)
(* missed a nudge, a fetch failed, or two answers crossed: every change is *)
(* followed by a nudge, every nudge by a fetch, and no list is ahead of    *)
(* the workspace (server.mjs:115, 220, main.js:75-80).                     *)
THEOREM MirrorHolds == Spec => []MirrorIsCurrent
BY InitMirror, AlwaysTypes, MirrorStep, MirrorSuffices, PTL DEF Spec

-----------------------------------------------------------------------------
(* The status of a page.                                                   *)

(* What the frames on their way make of a state. *)
LEMMA HearsStates ==
  ASSUME NEW s \in State, NEW frames \in Seq(Frame)
  PROVE  HearAll(s, frames) \in State
<1> DEFINE R == (0 .. Len(frames)) \X State \X State
<1>1. Len(frames) \in Nat /\ \A k \in 1 .. Len(frames) : frames[k] \in Frame
  BY FramesDomain
<1>2. <<0, s, s>> \in R
  BY <1>1
<1>3. ASSUME NEW k \in 1 .. Len(frames), NEW a, NEW b, <<k - 1, a, b>> \in R
      PROVE  <<k, HearConversation(a, frames[k]), HearConversation(b, frames[k])>> \in R
  <2>1. a \in State /\ b \in State /\ k \in 0 .. Len(frames)
    BY <1>1, <1>3
  <2>2. HearConversation(a, frames[k]) \in State /\ HearConversation(b, frames[k]) \in State
    BY <1>1, <2>1, HearIs
  <2> QED BY <2>1, <2>2
<1> HIDE DEF R
<1>4. <<Len(frames), HearAll(s, frames), HearAll(s, frames)>> \in R
  BY <1>1, <1>2, <1>3, HearTogether
<1> QED BY <1>4 DEF R

(* A status or a reset on its way makes the state of the page now forgotten. *)
LEMMA StatusTogether ==
  ASSUME NEW s \in State, NEW t \in State, NEW frames \in Seq(Frame),
         s.status = t.status \/ Among(frames, "status") \/ Among(frames, "reset")
  PROVE  HearAll(s, frames).status = HearAll(t, frames).status
<1> DEFINE Settled(k) == s.status = t.status
                         \/ \E j \in 1 .. k : frames[j].type \in {"status", "reset"}
           R == {x \in (0 .. Len(frames)) \X State \X State :
                   Settled(x[1]) => x[2].status = x[3].status}
<1>1. /\ Len(frames) \in Nat /\ DOMAIN frames = 1 .. Len(frames)
      /\ \A k \in 1 .. Len(frames) : frames[k] \in Frame
  BY FramesDomain
<1>2. <<0, s, t>> \in R
  <2>1. Settled(0) => s.status = t.status
    OBVIOUS
  <2> QED BY <1>1, <2>1
<1>3. ASSUME NEW k \in 1 .. Len(frames), NEW a, NEW b, <<k - 1, a, b>> \in R
      PROVE  <<k, HearConversation(a, frames[k]), HearConversation(b, frames[k])>> \in R
  <2> DEFINE f == frames[k]
             a2 == HearConversation(a, f)
             b2 == HearConversation(b, f)
  <2>1. a \in State /\ b \in State /\ k \in 0 .. Len(frames)
        /\ (Settled(k - 1) => a.status = b.status)
    BY <1>1, <1>3
  <2>2. /\ a2 \in State /\ b2 \in State
        /\ a2.status = IF f.type = "status" THEN f.state
                       ELSE IF f.type = "reset" THEN "idle" ELSE a.status
        /\ b2.status = IF f.type = "status" THEN f.state
                       ELSE IF f.type = "reset" THEN "idle" ELSE b.status
    BY <1>1, <2>1, HearIs
  <2>3. Settled(k) => Settled(k - 1) \/ f.type \in {"status", "reset"}
    OBVIOUS
  <2> HIDE DEF Settled, f, a2, b2
  <2>4. Settled(k) => a2.status = b2.status
    BY <2>1, <2>2, <2>3
  <2>5. <<k, a2, b2>> \in R
    BY <2>1, <2>2, <2>4
  <2> QED BY <2>5 DEF a2, b2, f
<1> HIDE DEF R
<1>4. <<Len(frames), HearAll(s, frames), HearAll(t, frames)>> \in R
  BY <1>1, <1>2, <1>3, HearTogether
<1>5. Settled(Len(frames))
  BY <1>1 DEF Among
<1> QED BY <1>4, <1>5 DEF R

(* Without one, the status stays what it is. *)
LEMMA StatusAlone ==
  ASSUME NEW s \in State, NEW frames \in Seq(Frame),
         ~Among(frames, "status"), ~Among(frames, "reset")
  PROVE  HearAll(s, frames).status = s.status
<1> DEFINE R == {x \in (0 .. Len(frames)) \X State \X State : x[2].status = s.status}
<1>1. /\ Len(frames) \in Nat
      /\ \A k \in 1 .. Len(frames) :
           frames[k] \in Frame /\ frames[k].type \notin {"status", "reset"}
  BY FramesDomain DEF Among
<1>2. <<0, s, s>> \in R
  BY <1>1
<1>3. ASSUME NEW k \in 1 .. Len(frames), NEW a, NEW b, <<k - 1, a, b>> \in R
      PROVE  <<k, HearConversation(a, frames[k]), HearConversation(b, frames[k])>> \in R
  <2>1. a \in State /\ b \in State /\ k \in 0 .. Len(frames) /\ a.status = s.status
    BY <1>1, <1>3
  <2>2. /\ HearConversation(a, frames[k]) \in State /\ HearConversation(b, frames[k]) \in State
        /\ HearConversation(a, frames[k]).status = a.status
    BY <1>1, <2>1, HearIs
  <2> QED BY <2>1, <2>2
<1> HIDE DEF R
<1>4. <<Len(frames), HearAll(s, frames), HearAll(s, frames)>> \in R
  BY <1>1, <1>2, <1>3, HearTogether
<1> QED BY <1>4 DEF R

Later(q) == CaughtUp(q).status
ChatSent(q) == \E i \in DOMAIN calls[q] : calls[q][i].kind = "chat" /\ calls[q][i].stage = "sent"

(* A page that works although the server does not has sent a turn that was *)
(* not taken yet, and will hear of no status before it is.                 *)
StatusSound(q) ==
  "status" \notin unheard[q] =>
    /\ busy => Later(q) = "working"
    /\ Later(q) = "working" /\ ~busy => ~Among(stream[q], "status") /\ ChatSent(q)

StatusInv == \A q \in Page : StatusSound(q)

StatusStays(q) ==
  /\ "status" \notin unheard'[q] => "status" \notin unheard[q]
  /\ Later(q)' = Later(q) /\ busy' = busy
  /\ Among(stream'[q], "status") => Among(stream[q], "status")
  /\ ChatSent(q) => ChatSent(q)'

LEMMA StatusStaysSound ==
  ASSUME NEW q, StatusSound(q), StatusStays(q)
  PROVE  StatusSound(q)'
BY DEF StatusSound, StatusStays

LEMMA ChatStays ==
  ASSUME NEW p \in Page, NEW gone, NEW new, CallsMove(p, gone, new),
         gone \notin DOMAIN calls[p] \/ calls[p][gone].kind # "chat" \/ calls[p][gone].stage # "sent",
         NEW q \in Page, ChatSent(q)
  PROVE  ChatSent(q)'
<1>1. CASE q = p
  <2>1. PICK j \in DOMAIN calls[p] : calls[p][j].kind = "chat" /\ calls[p][j].stage = "sent"
    BY <1>1 DEF ChatSent
  <2>2. \E k \in DOMAIN calls'[p] : calls'[p][k] = calls[p][j]
    BY <2>1 DEF CallsMove, Changed
  <2> QED BY <1>1, <2>1, <2>2 DEF ChatSent
<1>2. CASE q # p
  BY <1>2 DEF CallsMove, ChatSent
<1> QED BY <1>1, <1>2

LEMMA LaterStays ==
  ASSUME NEW q \in Page, stream[q] \in Seq(Frame), page[q] \in State, page'[q] \in State,
         stream'[q] = stream[q],
         page'[q].status = page[q].status \/ Among(stream[q], "status") \/ Among(stream[q], "reset")
  PROVE  Later(q)' = Later(q)
BY StatusTogether DEF Later, CaughtUp

LEMMA PagedStatus ==
  ASSUME PageTypes, StreamTypes, NEW p \in Page, NEW gone, NEW new, NEW t, Paged(p, gone, new, t),
         t.status = page[p].status \/ Among(stream[p], "status") \/ Among(stream[p], "reset"),
         gone \notin DOMAIN calls[p] \/ calls[p][gone].kind # "chat" \/ calls[p][gone].stage # "sent",
         UNCHANGED <<busy, stream>>,
         NEW q \in Page, "status" \notin unheard'[q] => "status" \notin unheard[q]
  PROVE  StatusStays(q)
<1>1. CallsMove(p, gone, new) /\ page'[p] = t /\ \A r \in Page \ {p} : page'[r] = page[r]
  BY DEF Paged, PageMove
<1>2. stream[q] \in Seq(Frame) /\ page[q] \in State /\ page'[q] \in State
  BY DEF StreamTypes, PageTypes, Paged, PageMove
<1>3. page'[q].status = page[q].status \/ Among(stream[q], "status") \/ Among(stream[q], "reset")
  BY <1>1
<1>4. Later(q)' = Later(q)
  BY <1>2, <1>3, LaterStays
<1>5. ChatSent(q) => ChatSent(q)'
  BY <1>1, ChatStays
<1> QED BY <1>4, <1>5 DEF StatusStays

(* The status of page q is not told, and nothing that bears on it is said. *)
Unsaid(q) ==
  /\ "status" \notin unheard'[q] => "status" \notin unheard[q]
  /\ Later(q)' = Later(q)
  /\ Among(stream'[q], "status") => Among(stream[q], "status")

LEMMA HandledStatus ==
  ASSUME NEW p \in Page, NEW i \in DOMAIN calls[p], NEW c, Handled(p, i, c),
         calls[p][i].kind # "chat", busy' = busy, NEW q \in Page, Unsaid(q)
  PROVE  StatusStays(q)
<1>1. CallsMove(p, i, {c})
  BY DEF Handled
<1>2. ChatSent(q) => ChatSent(q)'
  BY <1>1, ChatStays
<1> QED BY <1>2 DEF StatusStays, Unsaid

LEMMA NothingSaid ==
  ASSUME UNCHANGED <<stream, unheard, page>>, NEW q \in Page
  PROVE  Unsaid(q)
BY DEF Unsaid, Later, CaughtUp

LEMMA NoStatusSaid ==
  ASSUME StreamTypes, PageTypes, NEW f \in Frame, f.type \notin {"status", "reset"},
         Broadcast(<<f>>), UNCHANGED <<clients, page>>, NEW q \in Page
  PROVE  Unsaid(q)
<1>1. <<f>> \in Seq(Frame) /\ ~Among(<<f>>, "status") /\ ~Among(<<f>>, "reset")
  BY FrameLists, AmongLists
<1>2. /\ q \in clients => /\ stream'[q] = stream[q] \o <<f>>
                          /\ unheard'[q] = unheard[q] \ Repairs(<<f>>)
      /\ q \notin clients => /\ stream'[q] = stream[q]
                             /\ unheard'[q] = unheard[q] \union Aspects(<<f>>)
  BY <1>1, Broadcasting
<1>3. stream[q] \in Seq(Frame) /\ page[q] \in State /\ page' = page
  BY DEF StreamTypes, PageTypes
<1>4. CASE q \in clients
  <2>1. stream'[q] = Append(stream[q], f)
    BY <1>2, <1>3, <1>4, ConcatLists
  <2>2. Among(stream'[q], "status") => Among(stream[q], "status")
    BY <1>3, <2>1, AmongMore
  <2>3. HearAll(page[q], stream[q]) \in State
    BY <1>3, HearsStates
  <2>4. HearAll(page[q], Append(stream[q], f)) = HearConversation(HearAll(page[q], stream[q]), f)
    BY <1>3, HearOneMore
  <2>5. HearConversation(HearAll(page[q], stream[q]), f).status = HearAll(page[q], stream[q]).status
    BY <2>3, HearIs
  <2>6. Later(q)' = Later(q)
    BY <1>3, <2>1, <2>4, <2>5 DEF Later, CaughtUp
  <2>7. "status" \notin Repairs(<<f>>)
    BY <1>1, AboutFrames
  <2> QED BY <1>2, <1>4, <2>2, <2>6, <2>7 DEF Unsaid
<1>5. CASE q \notin clients
  BY <1>2, <1>3, <1>5 DEF Unsaid, Later, CaughtUp
<1> QED BY <1>4, <1>5

(* After a status or a reset the pages that are connected will come to it, *)
(* and the others know that they know nothing.                             *)
LEMMA StatusSaid ==
  ASSUME StreamTypes, PageTypes, NEW frames \in Seq(Frame), Broadcast(frames),
         UNCHANGED <<clients, page>>, Among(frames, "status") \/ Among(frames, "reset"),
         busy' \in BOOLEAN, NEW q \in Page,
         q \in clients => HearAll(page[q], stream[q] \o frames).status
                            = IF busy' THEN "working" ELSE "idle"
  PROVE  StatusSound(q)'
<1>1. /\ q \in clients => stream'[q] = stream[q] \o frames
      /\ q \notin clients => unheard'[q] = unheard[q] \union Aspects(frames)
  BY Broadcasting
<1>2. CASE q \in clients
  BY <1>1, <1>2 DEF StatusSound, Later, CaughtUp
<1>3. CASE q \notin clients
  <2>1. "status" \in Aspects(frames)
    BY AboutFrames
  <2> QED BY <1>1, <1>3, <2>1 DEF StatusSound
<1> QED BY <1>2, <1>3

LEMMA HearsLists ==
  ASSUME NEW s \in State, NEW frames \in Seq(Frame), NEW f \in Frame, NEW g \in Frame, NEW h \in Frame
  PROVE  /\ HearAll(s, frames) \in State
         /\ HearConversation(HearAll(s, frames), f) \in State
         /\ HearConversation(HearConversation(HearAll(s, frames), f), g) \in State
         /\ HearAll(s, Append(frames, f)) = HearConversation(HearAll(s, frames), f)
         /\ HearAll(s, Append(Append(frames, f), g))
              = HearConversation(HearConversation(HearAll(s, frames), f), g)
         /\ HearAll(s, Append(Append(Append(frames, f), g), h))
              = HearConversation(HearConversation(HearConversation(HearAll(s, frames), f), g), h)
<1> DEFINE a == HearAll(s, frames)
           b == HearConversation(a, f)
           c == HearConversation(b, g)
           d == HearConversation(c, h)
<1>1. a \in State
  BY HearsStates
<1>2. b \in State
  BY <1>1, HearIs
<1>3. c \in State
  BY <1>2, HearIs
<1>4. Append(frames, f) \in Seq(Frame) /\ Append(Append(frames, f), g) \in Seq(Frame)
  OBVIOUS
<1>5. HearAll(s, Append(frames, f)) = b
  BY HearOneMore
<1>6. HearAll(s, Append(Append(frames, f), g)) = c
  BY <1>4, <1>5, HearOneMore
<1>7. HearAll(s, Append(Append(Append(frames, f), g), h)) = d
  BY <1>4, <1>6, HearOneMore
<1> QED BY <1>1, <1>2, <1>3, <1>5, <1>6, <1>7

LEMMA AgentStatus ==
  ASSUME Types, Agent, NEW q \in Page
  PROVE  StatusStays(q) \/ StatusSound(q)'
<1>1. PageTypes /\ StreamTypes /\ page' = page /\ calls' = calls
  BY DEF Types, Agent, AgentSession, AgentTrace, TurnSucceeds, TurnFails, AgentWrites
<1>2. busy' = busy /\ Unsaid(q) => StatusStays(q)
  BY <1>1 DEF StatusStays, Unsaid, ChatSent
<1>3. CASE UNCHANGED <<busy, stream, unheard>>
  BY <1>1, <1>2, <1>3, NothingSaid
<1>4. CASE AgentTrace
  <2>1. turn.of # 0 /\ turn.of \in Nat
    BY <1>4 DEF Types, TurnTypes, AgentTrace
  <2>2. Trace(turn.of) \in Frame /\ Trace(turn.of).type \notin {"status", "reset"}
    BY <2>1, FramesAre DEF Trace
  <2>3. Unsaid(q)
    BY <1>1, <1>4, <2>2, NoStatusSaid DEF AgentTrace
  <2> QED BY <1>2, <1>4, <2>3 DEF AgentTrace
<1>5. ASSUME NEW f \in Frame, Broadcast(<<f, Status("idle"), Workspace>>), busy' = FALSE,
             UNCHANGED clients
      PROVE  StatusSound(q)'
  <2> DEFINE frames == <<f, Status("idle"), Workspace>>
  <2>1. /\ Status("idle") \in Frame /\ Workspace \in Frame
        /\ Status("idle").type = "status" /\ Status("idle").state = "idle"
        /\ Workspace.type = "workspace"
    BY StaticFrames DEF Status, Frame, Workspace
  <2>2. frames \in Seq(Frame) /\ Among(frames, "status")
    BY <2>1, EndingFrames, AmongLists
  <2>3. stream[q] \in Seq(Frame) /\ page[q] \in State
    BY <1>1 DEF StreamTypes, PageTypes
  <2> DEFINE b == HearConversation(HearAll(page[q], stream[q]), f)
             c == HearConversation(b, Status("idle"))
  <2>4. b \in State /\ c \in State
        /\ HearAll(page[q], stream[q] \o frames) = HearConversation(c, Workspace)
    <3>1. stream[q] \o frames = Append(Append(Append(stream[q], f), Status("idle")), Workspace)
      <4>1. \A g, h \in Frame : stream[q] \o <<f, g, h>>
                               = Append(Append(Append(stream[q], f), g), h)
        <5> TAKE g, h \in Frame
        <5> QED BY <2>3, ConcatLists
      <4> QED BY <2>1, <4>1, Zenon
    <3> HIDE DEF frames
    <3> QED BY <2>1, <2>3, <3>1, HearsLists
  <2> HIDE DEF b
  <2>5. c.status = "idle"
    BY <2>1, <2>4, HearIs
  <2> HIDE DEF c
  <2>6. HearConversation(c, Workspace).status = "idle"
    BY <2>1, <2>4, <2>5, HearIs
  <2> HIDE DEF frames
  <2> QED BY <1>1, <1>5, <2>2, <2>4, <2>6, StatusSaid DEF frames
<1>6. CASE TurnSucceeds \/ TurnFails
  <2>1. turn.of # 0 /\ turn.of \in Nat
    BY <1>6 DEF Types, TurnTypes, TurnSucceeds, TurnFails
  <2>2. Reply(turn.of) \in Frame /\ Error(turn.of) \in Frame
    BY <2>1, FramesAre
  <2> QED BY <1>5, <1>6, <2>2 DEF TurnSucceeds, TurnFails, Finally
<1> QED BY <1>1, <1>3, <1>4, <1>6 DEF Agent, AgentSession, AgentWrites

LEMMA DropStatus ==
  ASSUME Types, NEW p \in Page, Drops(p), NEW q \in Page
  PROVE  StatusStays(q) \/ StatusSound(q)'
<1>1. PageTypes /\ StreamTypes /\ UNCHANGED <<page, calls, busy>> /\ Drop(p)
  BY DEF Types, Drops, Drop
<1>2. /\ stream'[p] = <<>> /\ unheard'[p] = unheard[p] \union Aspects(stream[p])
      /\ \A r \in Page \ {p} : stream'[r] = stream[r] /\ unheard'[r] = unheard[r]
  BY <1>1, DropIs
<1>3. ChatSent(q) => ChatSent(q)'
  BY <1>1 DEF ChatSent
<1>4. CASE q # p
  <2>1. Unsaid(q)
    BY <1>1, <1>2, <1>4 DEF Unsaid, Later, CaughtUp
  <2> QED BY <1>1, <1>3, <2>1 DEF Unsaid, StatusStays
<1>5. CASE q = p /\ (Among(stream[p], "status") \/ Among(stream[p], "reset"))
  <2>1. "status" \in Aspects(stream[p])
    BY <1>1, <1>5, AboutFrames DEF StreamTypes
  <2> QED BY <1>2, <1>5, <2>1 DEF StatusSound
<1>6. CASE q = p /\ ~Among(stream[p], "status") /\ ~Among(stream[p], "reset")
  <2>1. stream[p] \in Seq(Frame) /\ page[p] \in State
    BY <1>1 DEF StreamTypes, PageTypes
  <2>2. HearAll(page[p], stream[p]).status = page[p].status /\ HearAll(page[p], <<>>) = page[p]
    BY <1>6, <2>1, StatusAlone, HearNothing
  <2>3. Later(q)' = Later(q)
    BY <1>1, <1>2, <1>6, <2>2 DEF Later, CaughtUp
  <2>4. ~Among(<<>>, "status")
    BY AmongNone
  <2> QED BY <1>1, <1>2, <1>3, <1>6, <2>3, <2>4 DEF StatusStays
<1> QED BY <1>4, <1>5, <1>6

LEMMA ReceiveStatus ==
  ASSUME Types, NEW p \in Page, Receive(p), NEW q \in Page
  PROVE  StatusStays(q)
<1>1. PageTypes /\ StreamTypes /\ 0 \notin DOMAIN calls[p]
  BY NothingGone DEF Types
<1> DEFINE f == Head(stream[p])
           t == HearConversation(page[p], f)
<1>2. /\ stream[p] \in Seq(Frame) /\ stream[p] # <<>>
      /\ stream' = [stream EXCEPT ![p] = Tail(stream[p])]
      /\ busy' = busy
      /\ UNCHANGED unheard \/ Fetches(p, 0)
  BY <1>1, ReceiveIs
<1>3. PICK new \in {{}, {FilesCall}} : Paged(p, 0, new, t)
  BY <1>1, ReceiveIs
<1>4. ChatSent(q) => ChatSent(q)'
  BY <1>1, <1>3, ChatStays DEF Paged
<1>5. "status" \notin unheard'[q] => "status" \notin unheard[q]
  BY <1>1, <1>2 DEF StreamTypes, Fetches
<1>6. CASE q = p
  <2>1. stream'[p] = Tail(stream[p]) /\ page'[p] = t
    BY <1>1, <1>2, <1>3 DEF StreamTypes, Paged, PageMove
  <2>2. HearAll(page[p], stream[p]) = HearAll(t, Tail(stream[p]))
    BY <1>2, HearFirst
  <2>3. Among(stream'[p], "status") => Among(stream[p], "status")
    BY <1>2, <2>1, AmongRest
  <2>4. Later(q)' = Later(q)
    BY <1>6, <2>1, <2>2 DEF Later, CaughtUp
  <2> QED BY <1>2, <1>4, <1>5, <1>6, <2>3, <2>4 DEF StatusStays
<1>7. CASE q # p
  <2>1. stream'[q] = stream[q] /\ page'[q] = page[q]
    BY <1>1, <1>2, <1>3, <1>7 DEF StreamTypes, Paged, PageMove
  <2> QED BY <1>2, <1>4, <1>5, <2>1 DEF StatusStays, Later, CaughtUp
<1> QED BY <1>6, <1>7

(* A turn is sent by a page that was idle, or is to hear what it will be.  *)
LEMMA SubmitStatus ==
  ASSUME Types, NEW p \in Page, NEW m \in Message, SubmitTurn(p, m),
         NEW q \in Page, StatusSound(q)
  PROVE  StatusStays(q) \/ StatusSound(q)'
<1>1. PageTypes /\ StreamTypes /\ page[p] \in State /\ 0 \notin DOMAIN calls[p]
  BY NothingGone DEF Types, PageTypes
<1> DEFINE t == StatusChanged(page[p], "working")
<1>2. page[p].status # "working" /\ UNCHANGED <<busy, stream, unheard>>
  BY <1>1, SubmitTurnIs
<1>3. PICK c : Paged(p, 0, {c}, t) /\ c.kind = "chat" /\ c.stage = "sent"
  BY <1>1, SubmitTurnIs
<1>4. t.status = "working"
  BY <1>1, StatusChangedIs
<1> HIDE DEF t
<1>5. CASE q # p
  <2>1. calls'[q] = calls[q] /\ page'[q] = page[q]
    BY <1>3, <1>5 DEF Paged, PageMove, CallsMove
  <2> QED BY <1>2, <2>1 DEF StatusStays, Later, CaughtUp, ChatSent
<1>6. CASE q = p /\ (Among(stream[p], "status") \/ Among(stream[p], "reset"))
  BY <1>1, <1>2, <1>3, <1>6, PagedStatus
<1>7. CASE q = p /\ ~Among(stream[p], "status") /\ ~Among(stream[p], "reset")
  <2>1. stream[p] \in Seq(Frame) /\ page'[p] = t /\ t \in State
    BY <1>1, <1>3 DEF StreamTypes, Paged, PageMove
  <2>2. HearAll(page[p], stream[p]).status # "working" /\ HearAll(t, stream[p]).status = "working"
    BY <1>1, <1>2, <1>4, <1>7, <2>1, StatusAlone
  <2>3. "status" \notin unheard[q] => ~busy
    BY <1>7, <2>2 DEF StatusSound, Later, CaughtUp
  <2>4. ChatSent(q)'
    <3>1. \E k \in DOMAIN calls'[p] : calls'[p][k] = c
      BY <1>3 DEF Paged, CallsMove, Changed
    <3> QED BY <1>3, <1>7, <3>1 DEF ChatSent
  <2>5. Later(q)' = "working"
    BY <1>2, <1>7, <2>1, <2>2 DEF Later, CaughtUp
  <2> QED BY <1>2, <1>7, <2>3, <2>4, <2>5 DEF StatusSound
<1> QED BY <1>5, <1>6, <1>7

LEMMA UserActsStatus ==
  ASSUME Types, NEW p \in Page, UserActs(p), NEW q \in Page, StatusSound(q)
  PROVE  StatusStays(q) \/ StatusSound(q)'
<1>1. PageTypes /\ StreamTypes /\ page[p] \in State /\ 0 \notin DOMAIN calls[p]
  BY NothingGone DEF Types, PageTypes
<1>2. ASSUME NEW new, NEW t, Paged(p, 0, new, t), t.status = page[p].status,
             UNCHANGED <<busy, stream>>,
             "status" \notin unheard'[q] => "status" \notin unheard[q]
      PROVE  StatusStays(q)
  BY <1>1, <1>2, PagedStatus
<1>3. CASE NewChat(p)
  <2>1. UNCHANGED <<busy, stream, unheard>> /\ \E c : Paged(p, 0, {c}, page[p])
    BY <1>1, <1>3, NewChatIs
  <2> QED BY <1>2, <2>1
<1>4. CASE CloseViewer(p)
  <2>1. UNCHANGED <<busy, stream, unheard>> /\ Paged(p, 0, {}, ViewerClosed(page[p]))
    BY <1>1, <1>4, CloseViewerIs
  <2>2. ViewerClosed(page[p]).status = page[p].status
    BY <1>1, ViewerClosedIs
  <2> QED BY <1>2, <2>1, <2>2
<1>5. CASE \E m \in Message : SubmitTurn(p, m)
  BY <1>5, SubmitStatus
<1>6. CASE \E l \in UploadLists : UploadFiles(p, l)
  <2>1. UNCHANGED <<busy, stream, unheard>> /\ \E c : Paged(p, 0, {c}, UploadStarted(page[p]))
    BY <1>1, <1>6, UploadFilesIs
  <2>2. UploadStarted(page[p]).status = page[p].status
    BY <1>1, UploadStartedIs
  <2> QED BY <1>2, <2>1, <2>2
<1>7. CASE \E f \in File : OpenViewer(p, f)
  <2>1. PICK f \in File : OpenViewer(p, f)
    BY <1>7
  <2>2. UNCHANGED <<busy, stream>> /\ \E c : Paged(p, 0, {c}, ViewerOpened(page[p], f))
    BY <1>1, <2>1, OpenViewerIs
  <2>3. ViewerOpened(page[p], f).status = page[p].status
    BY <1>1, ViewerOpenedIs
  <2>4. "status" \notin unheard'[q] => "status" \notin unheard[q]
    BY <1>1, <2>1 DEF OpenViewer, StreamTypes
  <2> QED BY <1>2, <2>2, <2>3, <2>4
<1> QED BY <1>3, <1>4, <1>5, <1>6, <1>7 DEF UserActs

LEMMA HandlesStatus ==
  ASSUME Types, NEW p \in Page, NEW i \in DOMAIN calls[p], Handles(p, i),
         NEW q \in Page, StatusSound(q)
  PROVE  StatusStays(q) \/ StatusSound(q)'
<1>1. /\ PageTypes /\ StreamTypes /\ page' = page /\ turn.of \in Nat /\ busy \in BOOLEAN
      /\ stream[q] \in Seq(Frame) /\ page[q] \in State
  BY DEF Types, TurnTypes, Handles, PageTypes, StreamTypes
<1>2. ASSUME NEW c, Handled(p, i, c), calls[p][i].kind # "chat", busy' = busy, Unsaid(q)
      PROVE  StatusStays(q)
  BY <1>1, <1>2, HandledStatus
<1>3. UNCHANGED <<stream, unheard>> => Unsaid(q)
  BY <1>1, NothingSaid
<1>4. CASE HandleChat(p, i) /\ busy
  <2>1. UNCHANGED <<stream, unheard>> /\ busy' = busy
    BY <1>1, <1>4, HandleChatIs DEF Refuse
  <2>2. Unsaid(q)
    BY <1>3, <2>1
  <2> QED BY <1>4, <2>1, <2>2 DEF StatusSound, Unsaid
<1>5. CASE HandleChat(p, i) /\ ~busy
  <2> DEFINE f == User(turn.of + 1)
             g == Status("working")
  <2>1. busy' = TRUE /\ Broadcast(<<f, g>>) /\ UNCHANGED clients
    BY <1>1, <1>5, HandleChatIs DEF StartTurn
  <2>2. f \in Frame /\ g \in Frame /\ g.type = "status" /\ g.state = "working"
    <3>1. turn.of + 1 \in Nat \ {0}
      BY <1>1
    <3> QED BY <3>1, FramesAre DEF Status
  <2> HIDE DEF f, g
  <2>3. <<f, g>> \in Seq(Frame) /\ Among(<<f, g>>, "status")
    BY <2>2, FrameLists, AmongLists
  <2>4. stream[q] \o <<f, g>> = Append(Append(stream[q], f), g)
    BY <1>1, <2>2, ConcatLists
  <2> DEFINE b == HearConversation(HearAll(page[q], stream[q]), f)
  <2>5. b \in State
        /\ HearAll(page[q], Append(Append(stream[q], f), g)) = HearConversation(b, g)
    BY <1>1, <2>2, HearsLists
  <2> HIDE DEF b
  <2>6. HearConversation(b, g).status = "working"
    BY <2>2, <2>5, HearIs
  <2> QED BY <1>1, <2>1, <2>3, <2>4, <2>5, <2>6, StatusSaid
<1>6. CASE HandleReset(p, i)
  <2>1. /\ calls[p][i].kind = "reset" /\ UNCHANGED <<clients, busy>>
        /\ busy => UNCHANGED <<stream, unheard>>
        /\ ~busy => Broadcast(<<Reset>>)
        /\ \E c : Handled(p, i, c)
    BY <1>1, <1>6, HandleResetIs DEF Refuse
  <2>2. CASE busy
    BY <1>2, <1>3, <2>1, <2>2
  <2>3. CASE ~busy
    <3>1. Reset \in Frame /\ Reset.type = "reset"
      BY StaticFrames DEF Reset
    <3>2. <<Reset>> \in Seq(Frame) /\ Among(<<Reset>>, "reset")
      BY <3>1, FrameLists, AmongLists
    <3>3. stream[q] \o <<Reset>> = Append(stream[q], Reset)
      BY <1>1, <3>1, ConcatLists
    <3> DEFINE a == HearAll(page[q], stream[q])
    <3>4. a \in State /\ HearAll(page[q], Append(stream[q], Reset)) = HearConversation(a, Reset)
      BY <1>1, <3>1, HearsLists
    <3> HIDE DEF a
    <3>5. HearConversation(a, Reset).status = "idle"
      BY <3>1, <3>4, HearIs
    <3> QED BY <1>1, <2>1, <2>3, <3>2, <3>3, <3>4, <3>5, StatusSaid
  <2> QED BY <2>2, <2>3
<1>7. CASE FinishUpload(p, i)
  <2>1. /\ calls[p][i].kind = "upload" /\ UNCHANGED <<clients, busy>>
        /\ Broadcast(<<Workspace>>) /\ \E c : Handled(p, i, c)
    BY <1>1, <1>7, FinishUploadIs
  <2>2. Workspace \in Frame /\ Workspace.type \notin {"status", "reset"}
    BY StaticFrames DEF Workspace
  <2>3. Unsaid(q)
    BY <1>1, <2>1, <2>2, NoStatusSaid
  <2> QED BY <1>2, <2>1, <2>3
<1>8. CASE HandleFileContent(p, i)
  <2>1. calls[p][i].kind = "view" /\ UNCHANGED <<busy, stream, unheard>> /\ \E c : Handled(p, i, c)
    BY <1>1, <1>8, HandleFileContentIs
  <2> QED BY <1>2, <1>3, <2>1
<1>9. CASE HandleUpload(p, i)
  <2>1. calls[p][i].kind = "upload" /\ UNCHANGED <<busy, stream, unheard>> /\ \E c : Handled(p, i, c)
    BY <1>1, <1>9, HandleUploadIs
  <2> QED BY <1>2, <1>3, <2>1
<1>10. CASE WriteUpload(p, i)
  <2>1. calls[p][i].kind = "upload" /\ UNCHANGED <<busy, stream, unheard>> /\ \E c : Handled(p, i, c)
    BY <1>1, <1>10, WriteUploadIs
  <2> QED BY <1>2, <1>3, <2>1
<1>11. CASE \E s \in {Uploads, File \ Uploads} : HandleFiles(p, i, s)
  <2>1. PICK s \in {Uploads, File \ Uploads} : HandleFiles(p, i, s)
    BY <1>11
  <2>2. /\ calls[p][i].kind = "files" /\ UNCHANGED <<busy, stream, unheard>>
        /\ \E c : SectionRead(p, i, s, c)
    BY <1>1, <2>1, HandleFilesIs
  <2> QED BY <1>2, <1>3, <2>2 DEF SectionRead
<1> QED BY <1>4, <1>5, <1>6, <1>7, <1>8, <1>9, <1>10, <1>11 DEF Handles

LEMMA ResetAnswerStatus ==
  ASSUME Types, NEW p \in Page, NEW i \in DOMAIN calls[p], AnswerReset(p, i), NEW q \in Page
  PROVE  StatusStays(q) \/ StatusSound(q)'
<1>1. PageTypes /\ StreamTypes /\ page[p] \in State /\ stream[p] \in Seq(Frame)
  BY DEF Types, PageTypes, StreamTypes
<1>2. calls[p][i].kind = "reset" /\ UNCHANGED <<busy, stream, clients>>
  BY <1>1, AnswerResetIs
<1>3. PICK new \in {{}, {FilesCall}}, ok \in BOOLEAN :
        /\ Paged(p, i, new, IF ok THEN ConversationReset(page[p]) ELSE page[p])
        /\ Marked(p, (IF ok THEN Wiped(p) ELSE {}) \union IF new = {} THEN {"files"} ELSE {})
  BY <1>1, AnswerResetIs
<1> DEFINE what == (IF ok THEN Wiped(p) ELSE {}) \union IF new = {} THEN {"files"} ELSE {}
           t == IF ok THEN ConversationReset(page[p]) ELSE page[p]
<1>4. what \in SUBSET What
  BY DEF Wiped, What
<1>5. Paged(p, i, new, t) /\ Marked(p, what)
  BY <1>3
<1>6. t \in State /\ (ok => t.status = "idle") /\ (~ok => t = page[p])
  BY <1>1, ConversationResetIs
<1>7. ok /\ busy /\ ~Among(stream[p], "reset") /\ ~Among(stream[p], "status") => "status" \in what
  BY DEF Wiped, Pending, Among
<1> HIDE DEF what, t
<1>8. unheard'[p] = unheard[p] \union what /\ \A r \in Page \ {p} : unheard'[r] = unheard[r]
  BY <1>1, <1>2, <1>4, <1>5, MarkedIs
<1>9. page'[p] = t /\ CallsMove(p, i, new) /\ \A r \in Page \ {p} : page'[r] = page[r]
  BY <1>5 DEF Paged, PageMove
<1>10. CASE q # p
  <2>1. calls'[q] = calls[q] /\ page'[q] = page[q]
    BY <1>9, <1>10 DEF CallsMove
  <2> QED BY <1>2, <1>8, <1>10, <2>1 DEF StatusStays, Later, CaughtUp, ChatSent
<1>11. CASE q = p /\ (~ok \/ Among(stream[p], "status") \/ Among(stream[p], "reset"))
  <2>1. t.status = page[p].status \/ Among(stream[p], "status") \/ Among(stream[p], "reset")
    BY <1>6, <1>11
  <2>2. "status" \notin unheard'[q] => "status" \notin unheard[q]
    BY <1>8, <1>11
  <2> QED BY <1>1, <1>2, <1>5, <2>1, <2>2, PagedStatus
<1>12. CASE q = p /\ ok /\ ~Among(stream[p], "status") /\ ~Among(stream[p], "reset")
  <2>1. HearAll(t, stream[p]).status = "idle"
    BY <1>1, <1>6, <1>12, StatusAlone
  <2>2. Later(q)' = "idle"
    BY <1>2, <1>9, <1>12, <2>1 DEF Later, CaughtUp
  <2> QED BY <1>2, <1>7, <1>8, <1>12, <2>2 DEF StatusSound
<1> QED BY <1>10, <1>11, <1>12

(* A turn that is lost before the server took it leaves the page working,  *)
(* and the page knows that it does not know.                               *)
LEMMA RejectStatus ==
  ASSUME Types, NEW p \in Page, NEW i \in DOMAIN calls[p], Reject(p, i),
         NEW q \in Page, StatusSound(q)
  PROVE  StatusStays(q) \/ StatusSound(q)'
<1>1. PageTypes /\ StreamTypes
  BY DEF Types
<1>2. UNCHANGED <<busy, stream, clients>>
  BY <1>1, RejectIs
<1>3. PICK t \in State : Paged(p, i, {}, t) /\ t.status = page[p].status
  BY <1>1, RejectIs
<1>4. PICK what \in SUBSET {"files", "status"} :
        /\ Marked(p, what)
        /\ calls[p][i].kind = "chat" /\ calls[p][i].stage = "sent" /\ ~Pending(p, "status")
             => "status" \in what
  BY <1>1, RejectIs
<1>5. what \in SUBSET What
  BY DEF What
<1>6. unheard'[p] = unheard[p] \union what /\ \A r \in Page \ {p} : unheard'[r] = unheard[r]
  BY <1>1, <1>2, <1>4, <1>5, MarkedIs
<1>7. "status" \notin unheard'[q] => "status" \notin unheard[q]
  BY <1>6
<1>8. CASE calls[p][i].kind # "chat" \/ calls[p][i].stage # "sent"
  BY <1>1, <1>2, <1>3, <1>7, <1>8, PagedStatus
<1>9. CASE calls[p][i].kind = "chat" /\ calls[p][i].stage = "sent"
  <2>1. page'[p] = t /\ CallsMove(p, i, {}) /\ \A r \in Page \ {p} : page'[r] = page[r]
    BY <1>3 DEF Paged, PageMove
  <2>2. CASE q # p
    <3>1. calls'[q] = calls[q] /\ page'[q] = page[q]
      BY <2>1, <2>2 DEF CallsMove
    <3> QED BY <1>2, <1>7, <2>2, <3>1 DEF StatusStays, Later, CaughtUp, ChatSent
  <2>3. CASE q = p /\ ~Among(stream[p], "status")
    <3>1. "status" \in unheard'[p]
      BY <1>4, <1>6, <1>9, <2>3 DEF Pending, Among
    <3> QED BY <2>3, <3>1 DEF StatusSound
  <2>4. CASE q = p /\ Among(stream[p], "status")
    <3>1. Later(q)' = Later(q)
      <4>1. stream[q] \in Seq(Frame) /\ page[q] \in State /\ page'[q] \in State
            /\ stream'[q] = stream[q]
        BY <1>1, <1>2, <2>1, <2>4 DEF StreamTypes, PageTypes
      <4> QED BY <2>4, <4>1, LaterStays
    <3> QED BY <1>2, <1>7, <2>4, <3>1 DEF StatusSound
  <2> QED BY <2>2, <2>3, <2>4
<1> QED BY <1>8, <1>9

LEMMA AnswersStatus ==
  ASSUME Types, NEW p \in Page, NEW i \in DOMAIN calls[p], GetsAnswer(p, i),
         NEW q \in Page, StatusSound(q)
  PROVE  StatusStays(q) \/ StatusSound(q)'
<1>1. PageTypes /\ StreamTypes /\ page[p] \in State
  BY DEF Types, PageTypes
<1>2. ASSUME NEW new, NEW t, Paged(p, i, new, t), t.status = page[p].status,
             calls[p][i].kind # "chat" \/ calls[p][i].stage # "sent",
             UNCHANGED <<busy, stream>>,
             "status" \notin unheard'[q] => "status" \notin unheard[q]
      PROVE  StatusStays(q)
  BY <1>1, <1>2, PagedStatus
<1>3. CASE AnswerChat(p, i)
  <2>1. /\ calls[p][i].stage # "sent" /\ UNCHANGED <<busy, stream, unheard>>
        /\ \E t \in {page[p], AddMessage(page[p], "error", Local)} : Paged(p, i, {}, t)
    BY <1>1, <1>3, AnswerChatIs
  <2>2. AddMessage(page[p], "error", Local).status = page[p].status
    <3>1. "error" \in Roles /\ Local \in Nat
      BY DEF Roles, Local
    <3> QED BY <1>1, <3>1, AddMessageIs
  <2>3. PICK t \in {page[p], AddMessage(page[p], "error", Local)} : Paged(p, i, {}, t)
    BY <2>1
  <2>4. t.status = page[p].status
    BY <2>2
  <2> QED BY <1>2, <2>1, <2>3, <2>4
<1>4. CASE AnswerReset(p, i)
  BY <1>4, ResetAnswerStatus
<1>5. CASE AnswerFiles(p, i)
  <2>1. /\ calls[p][i] \in Listed /\ UNCHANGED <<busy, stream, clients>>
        /\ Paged(p, i, {}, FilesLoaded(page[p], calls[p][i].body))
        /\ \E what \in SUBSET {"files"} : Marked(p, what)
    BY <1>1, <1>5, AnswerFilesIs
  <2>2. FilesLoaded(page[p], calls[p][i].body).status = page[p].status
    BY <1>1, <2>1, FilesLoadedIs DEF Listed
  <2>3. "status" \notin unheard'[q] => "status" \notin unheard[q]
    BY <1>1, <2>1 DEF Marked, StreamTypes
  <2>4. calls[p][i].kind # "chat"
    BY <2>1 DEF Listed
  <2> QED BY <1>2, <2>1, <2>2, <2>3, <2>4
<1>6. CASE AnswerUpload(p, i)
  <2>1a. PICK t \in {page[p], UploadEnded(page[p], TRUE), UploadEnded(page[p], FALSE)} :
           \E new :
             /\ Paged(p, i, new, t)
             /\ \A d \in new : Sent(d)
    BY <1>1, <1>6, AnswerUploadIs
  <2>1. PICK new :
          /\ Paged(p, i, new, t)
          /\ \A d \in new : Sent(d)
    BY <2>1a
  <2>2. t.status = page[p].status
    <3>1. TRUE \in BOOLEAN /\ FALSE \in BOOLEAN
      OBVIOUS
    <3>2. UploadEnded(page[p], TRUE).status = page[p].status
          /\ UploadEnded(page[p], FALSE).status = page[p].status
      BY <1>1, <3>1, UploadEndedIs
    <3> QED BY <3>2
  <2>3. calls[p][i].kind = "upload" /\ UNCHANGED <<busy, stream, clients>>
        /\ (unheard' = unheard \/ Fetches(p, i))
    BY <1>1, <1>6, AnswerUploadIs
  <2>4. "status" \notin unheard'[q] => "status" \notin unheard[q]
    BY <1>1, <2>3 DEF Fetches, StreamTypes
  <2> QED BY <1>2, <2>1, <2>2, <2>3, <2>4
<1>7. CASE AnswerView(p, i)
  <2>1. calls[p][i].kind = "view" /\ UNCHANGED <<busy, stream, unheard>>
        /\ \/ Paged(p, i, {}, ViewerFailed(page[p]))
           \/ /\ calls[p][i].body \in File \X Nat
              /\ Paged(p, i, {}, ViewerLoaded(page[p], calls[p][i].body))
    BY <1>1, <1>7, AnswerViewIs
  <2>2. CASE Paged(p, i, {}, ViewerFailed(page[p]))
    BY <1>1, <1>2, <2>1, <2>2, ViewerFailedIs
  <2>3. CASE /\ calls[p][i].body \in File \X Nat
             /\ Paged(p, i, {}, ViewerLoaded(page[p], calls[p][i].body))
    BY <1>1, <1>2, <2>1, <2>3, ViewerLoadedIs
  <2> QED BY <2>1, <2>2, <2>3
<1>8. CASE Reject(p, i)
  BY <1>8, RejectStatus
<1> QED BY <1>3, <1>4, <1>5, <1>6, <1>7, <1>8 DEF GetsAnswer

LEMMA StatusStep ==
  ASSUME Types, StatusInv, [Next]_vars
  PROVE  StatusInv'
<1>1. SUFFICES ASSUME NEW q \in Page PROVE StatusStays(q) \/ StatusSound(q)'
  BY StatusStaysSound DEF StatusInv
<1>2. StatusSound(q) /\ Bounded
  BY DEF StatusInv, Types
<1>3. CASE Agent
  BY <1>3, AgentStatus
<1>4. ASSUME NEW p \in Page, Connects(p) PROVE StatusStays(q)
  BY <1>4 DEF Connects, Connect, StatusStays, Later, CaughtUp, ChatSent
<1>5. ASSUME NEW p \in Page, Drops(p) PROVE StatusStays(q) \/ StatusSound(q)'
  BY <1>5, DropStatus
<1>6. ASSUME NEW p \in Page, UserActs(p) PROVE StatusStays(q) \/ StatusSound(q)'
  BY <1>2, <1>6, UserActsStatus
<1>7. ASSUME NEW p \in Page, Receive(p) PROVE StatusStays(q)
  BY <1>7, ReceiveStatus
<1>8. ASSUME NEW p \in Page, NEW i \in DOMAIN calls[p], Handles(p, i)
      PROVE  StatusStays(q) \/ StatusSound(q)'
  BY <1>2, <1>8, HandlesStatus
<1>9. ASSUME NEW p \in Page, NEW i \in DOMAIN calls[p], GetsAnswer(p, i)
      PROVE  StatusStays(q) \/ StatusSound(q)'
  BY <1>2, <1>9, AnswersStatus
<1>10. CASE UNCHANGED vars
  BY <1>10 DEF vars, serverVars, StatusStays, Later, CaughtUp, ChatSent
<1> QED BY <1>2, <1>3, <1>4, <1>5, <1>6, <1>7, <1>8, <1>9, <1>10, Steps

LEMMA StatusSuffices ==
  ASSUME Types, StatusInv
  PROVE  StatusMirrorsBusy
<1>1. SUFFICES ASSUME NEW p \in Page, "status" \notin unheard[p], ~InFlight(p, "chat")
               PROVE  Later(p) = "working" <=> busy
  BY DEF StatusMirrorsBusy, Later
<1>2. StatusSound(p) /\ ~ChatSent(p)
  BY <1>1 DEF StatusInv, InFlight, ChatSent
<1> QED BY <1>1, <1>2 DEF StatusSound

LEMMA InitStatus ==
  ASSUME Init
  PROVE  StatusInv
<1>1. SUFFICES ASSUME NEW q \in Page PROVE StatusSound(q)
  BY DEF StatusInv
<1>2. HearAll(InitialState, <<>>) = InitialState /\ InitialState.status = "idle"
  BY HearNothing DEF InitialState
<1>3. Later(q) = "idle" /\ ~busy
  BY <1>2 DEF Init, Later, CaughtUp
<1> QED BY <1>3 DEF StatusSound

(* A page works as long as the server is busy and not longer, once it has  *)
(* no turn of its own to be answered, unless it missed the last status or  *)
(* its turn was lost before the server took it (main.js:50-62, 176).       *)
THEOREM StatusHolds == Spec => []StatusMirrorsBusy
BY InitStatus, AlwaysTypes, StatusStep, StatusSuffices, PTL DEF Spec

-----------------------------------------------------------------------------
(* The conversation a page shows.                                          *)

SaysFrames == {"user", "message", "error"}
Said(s) == Conversation(s.messages)

(* One more frame says the same of two states that say the same. *)
LEMMA SaidBy ==
  ASSUME NEW s \in State, NEW f \in Frame
  PROVE  Said(HearConversation(s, f)) =
           IF f.type \in SaysFrames THEN Append(Said(s), NoteOf(f))
           ELSE IF f.type = "reset" THEN <<>> ELSE Said(s)
<1> DEFINE t == HearConversation(s, f)
<1>1. /\ t.messages = IF f.type \in {"user", "message", "error"} THEN Append(s.messages, NoteOf(f))
                      ELSE IF f.type = "reset" THEN <<>> ELSE s.messages
      /\ f.type \in {"user", "message", "error"} => NoteOf(f) \in Note /\ NoteOf(f).of # Local
  BY HearIs
<1>2. s.messages \in Seq(Note)
  BY DEF State
<1> HIDE DEF t
<1>3. CASE f.type \in SaysFrames
  <2>1. NoteOf(f) \in Note /\ NoteOf(f).of # Local /\ t.messages = Append(s.messages, NoteOf(f))
    BY <1>1, <1>3 DEF SaysFrames
  <2>2. Conversation(Append(s.messages, NoteOf(f))) = Append(Conversation(s.messages), NoteOf(f))
    BY <1>2, <2>1, SayOneMore
  <2> QED BY <1>3, <2>1, <2>2 DEF Said, t
<1>4. CASE f.type \notin SaysFrames
  BY <1>1, <1>4, SayNothing DEF SaysFrames, Said, t
<1> QED BY <1>3, <1>4

(* A reset on its way makes the messages of now forgotten. *)
LEMMA SaidTogether ==
  ASSUME NEW s \in State, NEW t \in State, NEW frames \in Seq(Frame),
         Said(s) = Said(t) \/ Among(frames, "reset")
  PROVE  Said(HearAll(s, frames)) = Said(HearAll(t, frames))
<1> DEFINE Forgotten(k) == Said(s) = Said(t) \/ \E j \in 1 .. k : frames[j].type = "reset"
           R == {x \in (0 .. Len(frames)) \X State \X State :
                   Forgotten(x[1]) => Said(x[2]) = Said(x[3])}
<1>1. /\ Len(frames) \in Nat /\ DOMAIN frames = 1 .. Len(frames)
      /\ \A k \in 1 .. Len(frames) : frames[k] \in Frame
  BY FramesDomain
<1>2. <<0, s, t>> \in R
  <2>1. Forgotten(0) => Said(s) = Said(t)
    OBVIOUS
  <2> QED BY <1>1, <2>1
<1>3. ASSUME NEW k \in 1 .. Len(frames), NEW a, NEW b, <<k - 1, a, b>> \in R
      PROVE  <<k, HearConversation(a, frames[k]), HearConversation(b, frames[k])>> \in R
  <2> DEFINE f == frames[k]
             a2 == HearConversation(a, f)
             b2 == HearConversation(b, f)
  <2>1. a \in State /\ b \in State /\ k \in 0 .. Len(frames)
        /\ (Forgotten(k - 1) => Said(a) = Said(b))
    BY <1>1, <1>3
  <2>2. a2 \in State /\ b2 \in State
    BY <1>1, <2>1, HearIs
  <2>3. /\ Said(a2) = IF f.type \in SaysFrames THEN Append(Said(a), NoteOf(f))
                      ELSE IF f.type = "reset" THEN <<>> ELSE Said(a)
        /\ Said(b2) = IF f.type \in SaysFrames THEN Append(Said(b), NoteOf(f))
                      ELSE IF f.type = "reset" THEN <<>> ELSE Said(b)
    BY <1>1, <2>1, SaidBy
  <2>4. Forgotten(k) => Forgotten(k - 1) \/ f.type = "reset"
    OBVIOUS
  <2>5. f.type = "reset" => f.type \notin SaysFrames
    BY DEF SaysFrames
  <2> HIDE DEF Forgotten, f, a2, b2
  <2>6. Forgotten(k) => Said(a2) = Said(b2)
    BY <2>1, <2>3, <2>4, <2>5
  <2>7. <<k, a2, b2>> \in R
    BY <2>1, <2>2, <2>6
  <2> QED BY <2>7 DEF a2, b2, f
<1> HIDE DEF R
<1>4. <<Len(frames), HearAll(s, frames), HearAll(t, frames)>> \in R
  BY <1>1, <1>2, <1>3, HearTogether
<1>5. Forgotten(Len(frames))
  BY <1>1 DEF Among
<1> QED BY <1>4, <1>5 DEF R

(* Frames that say nothing leave it as it is. *)
LEMMA SaidAlone ==
  ASSUME NEW s \in State, NEW frames \in Seq(Frame),
         ~Among(frames, "reset"), \A type \in SaysFrames : ~Among(frames, type)
  PROVE  Said(HearAll(s, frames)) = Said(s)
<1> DEFINE R == {x \in (0 .. Len(frames)) \X State \X State : Said(x[2]) = Said(s)}
<1>1. /\ Len(frames) \in Nat
      /\ \A k \in 1 .. Len(frames) :
           frames[k] \in Frame /\ frames[k].type # "reset" /\ frames[k].type \notin SaysFrames
  BY FramesDomain DEF Among
<1>2. <<0, s, s>> \in R
  BY <1>1
<1>3. ASSUME NEW k \in 1 .. Len(frames), NEW a, NEW b, <<k - 1, a, b>> \in R
      PROVE  <<k, HearConversation(a, frames[k]), HearConversation(b, frames[k])>> \in R
  <2>1. a \in State /\ b \in State /\ k \in 0 .. Len(frames) /\ Said(a) = Said(s)
    BY <1>1, <1>3
  <2>2. HearConversation(a, frames[k]) \in State /\ HearConversation(b, frames[k]) \in State
    BY <1>1, <2>1, HearIs
  <2>3. Said(HearConversation(a, frames[k])) = Said(a)
    BY <1>1, <2>1, SaidBy
  <2> QED BY <2>1, <2>2, <2>3
<1> HIDE DEF R
<1>4. <<Len(frames), HearAll(s, frames), HearAll(s, frames)>> \in R
  BY <1>1, <1>2, <1>3, HearTogether
<1> QED BY <1>4 DEF R

SaidLater(q) == Said(CaughtUp(q))

SaidSound(q) == "messages" \notin unheard[q] => SaidLater(q) = transcript

(* Projection is inductive as it stands. *)
SaidInv == \A q \in Page : SaidSound(q)

SaidStays(q) ==
  /\ "messages" \notin unheard'[q] => "messages" \notin unheard[q]
  /\ SaidLater(q)' = SaidLater(q) /\ transcript' = transcript

LEMMA SaidStaysSound ==
  ASSUME NEW q, SaidSound(q), SaidStays(q)
  PROVE  SaidSound(q)'
BY DEF SaidSound, SaidStays

LEMMA PagedSaid ==
  ASSUME PageTypes, StreamTypes, NEW p \in Page, NEW gone, NEW new, NEW t, Paged(p, gone, new, t),
         Said(t) = Said(page[p]) \/ Among(stream[p], "reset"),
         UNCHANGED <<transcript, stream>>,
         NEW q \in Page, "messages" \notin unheard'[q] => "messages" \notin unheard[q]
  PROVE  SaidStays(q)
<1>1. page'[p] = t /\ \A r \in Page \ {p} : page'[r] = page[r]
  BY DEF Paged, PageMove
<1>2. stream[q] \in Seq(Frame) /\ page[q] \in State /\ page'[q] \in State
  BY DEF StreamTypes, PageTypes, Paged, PageMove
<1>3. Said(page[q]) = Said(page'[q]) \/ Among(stream[q], "reset")
  BY <1>1
<1>4. Said(HearAll(page[q], stream[q])) = Said(HearAll(page'[q], stream[q]))
  BY <1>2, <1>3, SaidTogether
<1> QED BY <1>4 DEF SaidStays, SaidLater, CaughtUp

LEMMA UntouchedSaid ==
  ASSUME UNCHANGED <<page, stream, unheard, transcript>>, NEW q \in Page
  PROVE  SaidStays(q)
BY DEF SaidStays, SaidLater, CaughtUp

(* One frame that is not about the conversation. *)
LEMMA NothingElseSaid ==
  ASSUME StreamTypes, PageTypes, NEW f \in Frame, f.type # "reset", f.type \notin SaysFrames,
         Broadcast(<<f>>), UNCHANGED <<clients, page, transcript>>, NEW q \in Page
  PROVE  SaidStays(q)
<1>1. <<f>> \in Seq(Frame) /\ ~Among(<<f>>, "reset") /\ \A type \in SaysFrames : ~Among(<<f>>, type)
  BY FrameLists, AmongLists
<1>2. /\ q \in clients => /\ stream'[q] = stream[q] \o <<f>>
                          /\ unheard'[q] = unheard[q] \ Repairs(<<f>>)
      /\ q \notin clients => /\ stream'[q] = stream[q]
                             /\ unheard'[q] = unheard[q] \union Aspects(<<f>>)
  BY <1>1, Broadcasting
<1>3. stream[q] \in Seq(Frame) /\ page[q] \in State /\ page' = page
  BY DEF StreamTypes, PageTypes
<1>4. CASE q \in clients
  <2>1. stream'[q] = Append(stream[q], f)
    BY <1>2, <1>3, <1>4, ConcatLists
  <2>2. HearAll(page[q], stream[q]) \in State
        /\ HearAll(page[q], Append(stream[q], f)) = HearConversation(HearAll(page[q], stream[q]), f)
    BY <1>3, HearsStates, HearOneMore
  <2>3. Said(HearConversation(HearAll(page[q], stream[q]), f)) = Said(HearAll(page[q], stream[q]))
    BY <2>2, SaidBy
  <2>4. SaidLater(q)' = SaidLater(q)
    BY <1>3, <2>1, <2>2, <2>3 DEF SaidLater, CaughtUp
  <2>5. "messages" \notin Repairs(<<f>>)
    BY <1>1, AboutFrames
  <2> QED BY <1>2, <1>4, <2>4, <2>5 DEF SaidStays
<1>5. CASE q \notin clients
  BY <1>2, <1>3, <1>5 DEF SaidStays, SaidLater, CaughtUp
<1> QED BY <1>4, <1>5

(* What is said to all pages is what is noted in the conversation. *)
LEMMA OneMoreSaid ==
  ASSUME StreamTypes, PageTypes, NEW f \in Frame, f.type \in SaysFrames,
         NEW frames \in Seq(Frame), Broadcast(frames), UNCHANGED <<clients, page>>,
         Among(frames, f.type), ~Among(frames, "reset"),
         transcript' = Append(transcript, NoteOf(f)),
         NEW q \in Page, SaidSound(q),
         Said(HearAll(page[q], stream[q] \o frames))
           = Append(Said(HearAll(page[q], stream[q])), NoteOf(f))
  PROVE  SaidSound(q)'
<1>1. /\ q \in clients => /\ stream'[q] = stream[q] \o frames
                          /\ unheard'[q] = unheard[q] \ Repairs(frames)
      /\ q \notin clients => unheard'[q] = unheard[q] \union Aspects(frames)
  BY Broadcasting
<1>2. CASE q \in clients
  <2>1. "messages" \notin Repairs(frames)
    BY AboutFrames
  <2>2. SaidLater(q)' = Append(SaidLater(q), NoteOf(f))
    BY <1>1, <1>2 DEF SaidLater, CaughtUp
  <2> QED BY <1>1, <1>2, <2>1, <2>2 DEF SaidSound
<1>3. CASE q \notin clients
  <2>1. "messages" \in Aspects(frames)
    BY AboutFrames DEF SaysFrames
  <2> QED BY <1>1, <1>3, <2>1 DEF SaidSound
<1> QED BY <1>2, <1>3

LEMMA AgentSaid ==
  ASSUME Types, Agent, NEW q \in Page, SaidSound(q)
  PROVE  SaidStays(q) \/ SaidSound(q)'
<1>1. PageTypes /\ StreamTypes /\ page' = page
  BY DEF Types, Agent
<1>2. stream[q] \in Seq(Frame) /\ page[q] \in State
  BY <1>1 DEF StreamTypes, PageTypes
<1>3. CASE UNCHANGED <<stream, unheard, transcript>>
  BY <1>1, <1>3, UntouchedSaid
<1>4. CASE AgentTrace
  <2>1. turn.of # 0 /\ turn.of \in Nat
    BY <1>4 DEF Types, TurnTypes, AgentTrace
  <2>2. Trace(turn.of) \in Frame /\ Trace(turn.of).type \notin SaysFrames
        /\ Trace(turn.of).type # "reset"
    BY <2>1, FramesAre DEF Trace, SaysFrames
  <2> QED BY <1>1, <1>4, <2>2, NothingElseSaid DEF AgentTrace
<1>5. ASSUME NEW f \in Frame, f.type \in SaysFrames, Broadcast(<<f, Status("idle"), Workspace>>),
             transcript' = Append(transcript, NoteOf(f)), UNCHANGED clients
      PROVE  SaidSound(q)'
  <2> DEFINE g == Status("idle")
             h == Workspace
  <2>1. g \in Frame /\ h \in Frame /\ g.type = "status" /\ h.type = "workspace"
    BY StaticFrames DEF Status, Frame, Workspace
  <2> HIDE DEF g, h
  <2>2. <<f, g, h>> \in Seq(Frame) /\ Among(<<f, g, h>>, f.type) /\ ~Among(<<f, g, h>>, "reset")
    BY <1>5, <2>1, FrameLists, AmongLists DEF SaysFrames
  <2>3. stream[q] \o <<f, g, h>> = Append(Append(Append(stream[q], f), g), h)
    BY <1>2, <1>5, <2>1, ConcatLists
  <2> DEFINE a == HearAll(page[q], stream[q])
             b == HearConversation(a, f)
             c == HearConversation(b, g)
  <2>4. a \in State /\ b \in State /\ c \in State
        /\ HearAll(page[q], Append(Append(Append(stream[q], f), g), h)) = HearConversation(c, h)
    BY <1>2, <1>5, <2>1, HearsLists
  <2> HIDE DEF c
  <2>5. Said(HearConversation(c, h)) = Said(c)
    BY <2>1, <2>4, SaidBy DEF SaysFrames
  <2> HIDE DEF b
  <2>6. Said(c) = Said(b)
    BY <2>1, <2>4, SaidBy DEF SaysFrames, c
  <2>7. Said(b) = Append(Said(a), NoteOf(f))
    BY <1>5, <2>4, SaidBy DEF b
  <2>8. Said(HearAll(page[q], stream[q] \o <<f, g, h>>)) = Append(Said(a), NoteOf(f))
    BY <2>3, <2>4, <2>5, <2>6, <2>7
  <2>9. Broadcast(<<f, g, h>>)
    BY <1>5 DEF g, h
  <2> DEFINE frames == <<f, g, h>>
  <2> HIDE DEF frames
  <2>10. frames \in Seq(Frame) /\ Among(frames, f.type) /\ ~Among(frames, "reset")
         /\ Broadcast(frames)
         /\ Said(HearAll(page[q], stream[q] \o frames)) = Append(Said(a), NoteOf(f))
    BY <2>2, <2>8, <2>9 DEF frames
  <2> QED BY <1>1, <1>5, <2>10, OneMoreSaid
<1>6. CASE TurnSucceeds \/ TurnFails
  <2>1. turn.of # 0 /\ turn.of \in Nat
    BY <1>6 DEF Types, TurnTypes, TurnSucceeds, TurnFails
  <2>2. Reply(turn.of) \in Frame /\ Error(turn.of) \in Frame
    BY <2>1, FramesAre
  <2>3. /\ Reply(turn.of).type \in SaysFrames /\ Error(turn.of).type \in SaysFrames
        /\ NoteOf(Reply(turn.of)) = [role |-> "assistant", of |-> turn.of]
        /\ NoteOf(Error(turn.of)) = [role |-> "error", of |-> turn.of]
    BY DEF Reply, Error, NoteOf, SaysFrames
  <2> QED BY <1>5, <1>6, <2>2, <2>3 DEF TurnSucceeds, TurnFails, Finally
<1> QED BY <1>1, <1>3, <1>4, <1>6 DEF Agent, AgentSession, AgentWrites

LEMMA DropSaid ==
  ASSUME Types, NEW p \in Page, Drops(p), NEW q \in Page
  PROVE  SaidStays(q) \/ SaidSound(q)'
<1>1. PageTypes /\ StreamTypes /\ UNCHANGED <<page, transcript>> /\ Drop(p)
  BY DEF Types, Drops, Drop
<1>2. /\ stream'[p] = <<>> /\ unheard'[p] = unheard[p] \union Aspects(stream[p])
      /\ \A r \in Page \ {p} : stream'[r] = stream[r] /\ unheard'[r] = unheard[r]
  BY <1>1, DropIs
<1>3. stream[p] \in Seq(Frame) /\ page[p] \in State
  BY <1>1 DEF StreamTypes, PageTypes
<1>4. CASE q # p
  BY <1>1, <1>2, <1>4 DEF SaidStays, SaidLater, CaughtUp
<1>5. CASE q = p /\ "messages" \in Aspects(stream[p])
  BY <1>2, <1>5 DEF SaidSound
<1>6. CASE q = p /\ "messages" \notin Aspects(stream[p])
  <2>1. ~Among(stream[p], "reset") /\ \A type \in SaysFrames : ~Among(stream[p], type)
    BY <1>3, <1>6, AboutFrames DEF SaysFrames
  <2>2. Said(HearAll(page[p], stream[p])) = Said(page[p]) /\ HearAll(page[p], <<>>) = page[p]
    BY <1>3, <2>1, SaidAlone, HearNothing
  <2>3. SaidLater(q)' = SaidLater(q)
    BY <1>1, <1>2, <1>6, <2>2 DEF SaidLater, CaughtUp
  <2> QED BY <1>1, <1>2, <1>6, <2>3 DEF SaidStays
<1> QED BY <1>4, <1>5, <1>6

LEMMA ReceiveSaid ==
  ASSUME Types, NEW p \in Page, Receive(p), NEW q \in Page
  PROVE  SaidStays(q)
<1>1. PageTypes /\ StreamTypes
  BY DEF Types
<1> DEFINE t == HearConversation(page[p], Head(stream[p]))
<1>2. /\ stream[p] \in Seq(Frame) /\ stream[p] # <<>>
      /\ stream' = [stream EXCEPT ![p] = Tail(stream[p])]
      /\ transcript' = transcript
      /\ UNCHANGED unheard \/ Fetches(p, 0)
  BY <1>1, ReceiveIs
<1>3. PICK new \in {{}, {FilesCall}} : Paged(p, 0, new, t)
  BY <1>1, ReceiveIs
<1>4. "messages" \notin unheard'[q] => "messages" \notin unheard[q]
  BY <1>1, <1>2 DEF StreamTypes, Fetches
<1>5. CASE q = p
  <2>1. stream'[p] = Tail(stream[p]) /\ page'[p] = t
    BY <1>1, <1>2, <1>3 DEF StreamTypes, Paged, PageMove
  <2>2. HearAll(page[p], stream[p]) = HearAll(t, Tail(stream[p]))
    BY <1>2, HearFirst
  <2> QED BY <1>2, <1>4, <1>5, <2>1, <2>2 DEF SaidStays, SaidLater, CaughtUp
<1>6. CASE q # p
  <2>1. stream'[q] = stream[q] /\ page'[q] = page[q]
    BY <1>1, <1>2, <1>3, <1>6 DEF StreamTypes, Paged, PageMove
  <2> QED BY <1>2, <1>4, <2>1 DEF SaidStays, SaidLater, CaughtUp
<1> QED BY <1>5, <1>6

LEMMA UserActsSaid ==
  ASSUME Types, NEW p \in Page, UserActs(p), NEW q \in Page
  PROVE  SaidStays(q)
<1>1. PageTypes /\ StreamTypes /\ page[p] \in State
  BY DEF Types, PageTypes
<1>2. ASSUME NEW new, NEW t, Paged(p, 0, new, t), t.messages = page[p].messages,
             UNCHANGED <<transcript, stream>>,
             "messages" \notin unheard'[q] => "messages" \notin unheard[q]
      PROVE  SaidStays(q)
  BY <1>1, <1>2, PagedSaid DEF Said
<1>3. CASE NewChat(p)
  <2>1. UNCHANGED <<transcript, stream, unheard>> /\ \E c : Paged(p, 0, {c}, page[p])
    BY <1>1, <1>3, NewChatIs
  <2> QED BY <1>2, <2>1
<1>4. CASE CloseViewer(p)
  <2>1. UNCHANGED <<transcript, stream, unheard>> /\ Paged(p, 0, {}, ViewerClosed(page[p]))
    BY <1>1, <1>4, CloseViewerIs
  <2>2. ViewerClosed(page[p]).messages = page[p].messages
    BY <1>1, ViewerClosedIs
  <2> QED BY <1>2, <2>1, <2>2
<1>5. CASE \E m \in Message : SubmitTurn(p, m)
  <2>1. UNCHANGED <<transcript, stream, unheard>>
        /\ \E c : Paged(p, 0, {c}, StatusChanged(page[p], "working"))
    BY <1>1, <1>5, SubmitTurnIs
  <2>2. StatusChanged(page[p], "working").messages = page[p].messages
    BY <1>1, StatusChangedIs
  <2> QED BY <1>2, <2>1, <2>2
<1>6. CASE \E l \in UploadLists : UploadFiles(p, l)
  <2>1. UNCHANGED <<transcript, stream, unheard>>
        /\ \E c : Paged(p, 0, {c}, UploadStarted(page[p]))
    BY <1>1, <1>6, UploadFilesIs
  <2>2. UploadStarted(page[p]).messages = page[p].messages
    BY <1>1, UploadStartedIs
  <2> QED BY <1>2, <2>1, <2>2
<1>7. CASE \E f \in File : OpenViewer(p, f)
  <2>1. PICK f \in File : OpenViewer(p, f)
    BY <1>7
  <2>2. UNCHANGED <<transcript, stream>> /\ \E c : Paged(p, 0, {c}, ViewerOpened(page[p], f))
    BY <1>1, <2>1, OpenViewerIs
  <2>3. ViewerOpened(page[p], f).messages = page[p].messages
    BY <1>1, ViewerOpenedIs
  <2>4. "messages" \notin unheard'[q] => "messages" \notin unheard[q]
    BY <1>1, <2>1 DEF OpenViewer, StreamTypes
  <2> QED BY <1>2, <2>2, <2>3, <2>4
<1> QED BY <1>3, <1>4, <1>5, <1>6, <1>7 DEF UserActs

LEMMA HandlesSaid ==
  ASSUME Types, NEW p \in Page, NEW i \in DOMAIN calls[p], Handles(p, i),
         NEW q \in Page, SaidSound(q)
  PROVE  SaidStays(q) \/ SaidSound(q)'
<1>1. /\ PageTypes /\ StreamTypes /\ page' = page /\ turn.of \in Nat
      /\ stream[q] \in Seq(Frame) /\ page[q] \in State
  BY DEF Types, TurnTypes, Handles, PageTypes, StreamTypes
<1>2. UNCHANGED <<stream, unheard, transcript>> => SaidStays(q)
  BY <1>1, UntouchedSaid
<1>3. CASE HandleChat(p, i) /\ busy
  BY <1>1, <1>2, <1>3, HandleChatIs DEF Refuse
<1>4. CASE HandleChat(p, i) /\ ~busy
  <2> DEFINE f == User(turn.of + 1)
             g == Status("working")
  <2>1. /\ Broadcast(<<f, g>>) /\ UNCHANGED clients
        /\ transcript' = Append(transcript, [role |-> "user", of |-> turn.of + 1])
    BY <1>1, <1>4, HandleChatIs DEF StartTurn
  <2>2. f \in Frame /\ g \in Frame /\ g.type = "status" /\ f.type = "user"
    <3>1. turn.of + 1 \in Nat \ {0}
      BY <1>1
    <3> QED BY <3>1, FramesAre DEF Status, User
  <2>3. NoteOf(f) = [role |-> "user", of |-> turn.of + 1]
    BY DEF User, NoteOf
  <2> HIDE DEF f, g
  <2>4. <<f, g>> \in Seq(Frame) /\ Among(<<f, g>>, "user") /\ ~Among(<<f, g>>, "reset")
    BY <2>2, FrameLists, AmongLists
  <2>5. stream[q] \o <<f, g>> = Append(Append(stream[q], f), g)
    BY <1>1, <2>2, ConcatLists
  <2> DEFINE a == HearAll(page[q], stream[q])
             b == HearConversation(a, f)
  <2>6. a \in State /\ b \in State
        /\ HearAll(page[q], Append(Append(stream[q], f), g)) = HearConversation(b, g)
    BY <1>1, <2>2, HearsLists
  <2> HIDE DEF b
  <2>7. Said(HearConversation(b, g)) = Said(b)
    BY <2>2, <2>6, SaidBy DEF SaysFrames
  <2>8. Said(b) = Append(Said(a), NoteOf(f))
    BY <2>2, <2>6, SaidBy DEF SaysFrames, b
  <2> DEFINE frames == <<f, g>>
  <2>9. Said(HearAll(page[q], stream[q] \o frames)) = Append(Said(a), NoteOf(f))
    BY <2>5, <2>6, <2>7, <2>8
  <2>10. frames \in Seq(Frame) /\ Among(frames, f.type) /\ ~Among(frames, "reset")
         /\ Broadcast(frames) /\ f.type \in SaysFrames
    BY <2>1, <2>2, <2>4 DEF SaysFrames
  <2> HIDE DEF frames
  <2> QED BY <1>1, <2>1, <2>2, <2>3, <2>9, <2>10, OneMoreSaid
<1>5. CASE HandleReset(p, i)
  <2>1. /\ UNCHANGED clients
        /\ busy => UNCHANGED <<stream, unheard, transcript>>
        /\ ~busy => Broadcast(<<Reset>>) /\ transcript' = <<>>
    BY <1>1, <1>5, HandleResetIs DEF Refuse
  <2>2. CASE ~busy
    <3>1. Reset \in Frame /\ Reset.type = "reset"
      BY StaticFrames DEF Reset
    <3>2. <<Reset>> \in Seq(Frame) /\ Among(<<Reset>>, "reset")
      BY <3>1, FrameLists, AmongLists
    <3>3. stream[q] \o <<Reset>> = Append(stream[q], Reset)
      BY <1>1, <3>1, ConcatLists
    <3> DEFINE a == HearAll(page[q], stream[q])
    <3>4. a \in State /\ HearAll(page[q], Append(stream[q], Reset)) = HearConversation(a, Reset)
      BY <1>1, <3>1, HearsLists
    <3> HIDE DEF a
    <3>5. Said(HearConversation(a, Reset)) = <<>>
      BY <3>1, <3>4, SaidBy DEF SaysFrames
    <3>6. /\ q \in clients => stream'[q] = stream[q] \o <<Reset>>
          /\ q \notin clients => unheard'[q] = unheard[q] \union Aspects(<<Reset>>)
      BY <1>1, <2>1, <2>2, <3>2, Broadcasting
    <3>7. CASE q \in clients
      BY <1>1, <2>1, <2>2, <3>3, <3>4, <3>5, <3>6, <3>7 DEF SaidSound, SaidLater, CaughtUp
    <3>8. CASE q \notin clients
      <4>1. "messages" \in Aspects(<<Reset>>)
        BY <3>2, AboutFrames
      <4> QED BY <3>6, <3>8, <4>1 DEF SaidSound
    <3> QED BY <3>7, <3>8
  <2> QED BY <1>2, <2>1, <2>2
<1>6. CASE FinishUpload(p, i)
  <2>1. UNCHANGED <<clients, transcript>> /\ Broadcast(<<Workspace>>)
    BY <1>1, <1>6, FinishUploadIs
  <2>2. Workspace \in Frame /\ Workspace.type \notin SaysFrames /\ Workspace.type # "reset"
    BY StaticFrames DEF Workspace, SaysFrames
  <2> QED BY <1>1, <2>1, <2>2, NothingElseSaid
<1>7. CASE HandleFileContent(p, i) \/ HandleUpload(p, i) \/ WriteUpload(p, i)
           \/ \E s \in {Uploads, File \ Uploads} : HandleFiles(p, i, s)
  BY <1>2, <1>7 DEF HandleFileContent, HandleUpload, WriteUpload, HandleFiles
<1> QED BY <1>3, <1>4, <1>5, <1>6, <1>7 DEF Handles

LEMMA ResetAnswerSaid ==
  ASSUME Types, NEW p \in Page, NEW i \in DOMAIN calls[p], AnswerReset(p, i), NEW q \in Page
  PROVE  SaidStays(q) \/ SaidSound(q)'
<1>1. PageTypes /\ StreamTypes /\ page[p] \in State
  BY DEF Types, PageTypes
<1>2. UNCHANGED <<transcript, stream, clients>>
  BY <1>1, AnswerResetIs
<1>3. PICK new \in {{}, {FilesCall}}, ok \in BOOLEAN :
        /\ Paged(p, i, new, IF ok THEN ConversationReset(page[p]) ELSE page[p])
        /\ Marked(p, (IF ok THEN Wiped(p) ELSE {}) \union IF new = {} THEN {"files"} ELSE {})
  BY <1>1, AnswerResetIs
<1> DEFINE what == (IF ok THEN Wiped(p) ELSE {}) \union IF new = {} THEN {"files"} ELSE {}
           t == IF ok THEN ConversationReset(page[p]) ELSE page[p]
<1>4. what \in SUBSET What
  BY DEF Wiped, What
<1>5. Paged(p, i, new, t) /\ Marked(p, what)
  BY <1>3
<1>6. (ok => Said(t) = <<>>) /\ (~ok => t = page[p])
  BY <1>1, ConversationResetIs, SayNothing DEF Said
<1>7. ok /\ ~Among(stream[p], "reset") /\ Said(page[p]) # <<>> => "messages" \in what
  BY DEF Wiped, Pending, Among, Said
<1> HIDE DEF what, t
<1>8. unheard'[p] = unheard[p] \union what /\ \A r \in Page \ {p} : unheard'[r] = unheard[r]
  BY <1>1, <1>2, <1>4, <1>5, MarkedIs
<1>9. "messages" \notin unheard'[q] => "messages" \notin unheard[q]
  BY <1>8
<1>10. page'[p] = t /\ \A r \in Page \ {p} : page'[r] = page[r]
  BY <1>5 DEF Paged, PageMove
<1>11. CASE q # p
  BY <1>2, <1>9, <1>10, <1>11 DEF SaidStays, SaidLater, CaughtUp
<1>12. CASE Said(t) = Said(page[p]) \/ Among(stream[p], "reset")
  BY <1>1, <1>2, <1>5, <1>9, <1>12, PagedSaid
<1>13. CASE q = p /\ Said(t) # Said(page[p]) /\ ~Among(stream[p], "reset")
  <2>1. "messages" \in unheard'[p]
    BY <1>6, <1>7, <1>8, <1>13
  <2> QED BY <1>13, <2>1 DEF SaidSound
<1> QED BY <1>11, <1>12, <1>13

LEMMA AnswersSaid ==
  ASSUME Types, NEW p \in Page, NEW i \in DOMAIN calls[p], GetsAnswer(p, i), NEW q \in Page
  PROVE  SaidStays(q) \/ SaidSound(q)'
<1>1. PageTypes /\ StreamTypes /\ page[p] \in State
  BY DEF Types, PageTypes
<1>2. ASSUME NEW new, NEW t, Paged(p, i, new, t), Said(t) = Said(page[p]),
             UNCHANGED <<transcript, stream>>,
             "messages" \notin unheard'[q] => "messages" \notin unheard[q]
      PROVE  SaidStays(q)
  BY <1>1, <1>2, PagedSaid
<1>3. CASE AnswerChat(p, i)
  <2>1. /\ UNCHANGED <<transcript, stream, unheard>>
        /\ \E t \in {page[p], AddMessage(page[p], "error", Local)} : Paged(p, i, {}, t)
    BY <1>1, <1>3, AnswerChatIs
  <2> DEFINE noted == AddMessage(page[p], "error", Local)
             note == [role |-> "error", of |-> Local]
  <2>2. noted.messages = Append(page[p].messages, note)
    <3>1. "error" \in Roles /\ Local \in Nat
      BY DEF Roles, Local
    <3> QED BY <1>1, <3>1, AddMessageIs
  <2>3. note \in Note /\ note.of = Local /\ page[p].messages \in Seq(Note)
    BY <1>1 DEF Note, Roles, Local, State
  <2> HIDE DEF note
  <2>4. Said(noted) = Said(page[p])
    BY <2>2, <2>3, SayOneMore DEF Said
  <2> HIDE DEF noted
  <2>5. PICK t \in {page[p], noted} : Paged(p, i, {}, t)
    BY <2>1 DEF noted
  <2>6. Said(t) = Said(page[p])
    BY <2>4
  <2> QED BY <1>2, <2>1, <2>5, <2>6
<1>4. CASE AnswerReset(p, i)
  BY <1>4, ResetAnswerSaid
<1>5. CASE AnswerFiles(p, i)
  <2>1. /\ calls[p][i] \in Listed /\ UNCHANGED <<transcript, stream, clients>>
        /\ Paged(p, i, {}, FilesLoaded(page[p], calls[p][i].body))
        /\ \E what \in SUBSET {"files"} : Marked(p, what)
    BY <1>1, <1>5, AnswerFilesIs
  <2>2. FilesLoaded(page[p], calls[p][i].body).messages = page[p].messages
    BY <1>1, <2>1, FilesLoadedIs DEF Listed
  <2>3. "messages" \notin unheard'[q] => "messages" \notin unheard[q]
    BY <1>1, <2>1 DEF Marked, StreamTypes
  <2> QED BY <1>2, <2>1, <2>2, <2>3 DEF Said
<1>6. CASE AnswerUpload(p, i)
  <2>1a. PICK t \in {page[p], UploadEnded(page[p], TRUE), UploadEnded(page[p], FALSE)} :
           \E new :
             /\ Paged(p, i, new, t)
             /\ \A d \in new : Sent(d)
    BY <1>1, <1>6, AnswerUploadIs
  <2>1. PICK new :
          /\ Paged(p, i, new, t)
          /\ \A d \in new : Sent(d)
    BY <2>1a
  <2>2. t.messages = page[p].messages
    <3>1. TRUE \in BOOLEAN /\ FALSE \in BOOLEAN
      OBVIOUS
    <3>2. UploadEnded(page[p], TRUE).messages = page[p].messages
          /\ UploadEnded(page[p], FALSE).messages = page[p].messages
      BY <1>1, <3>1, UploadEndedIs
    <3> QED BY <3>2
  <2>3. UNCHANGED <<transcript, stream, clients>> /\ (unheard' = unheard \/ Fetches(p, i))
    BY <1>1, <1>6, AnswerUploadIs
  <2>4. "messages" \notin unheard'[q] => "messages" \notin unheard[q]
    BY <1>1, <2>3 DEF Fetches, StreamTypes
  <2> QED BY <1>2, <2>1, <2>2, <2>3, <2>4 DEF Said
<1>7. CASE AnswerView(p, i)
  <2>1. UNCHANGED <<transcript, stream, unheard>>
        /\ \/ Paged(p, i, {}, ViewerFailed(page[p]))
           \/ /\ calls[p][i].body \in File \X Nat
              /\ Paged(p, i, {}, ViewerLoaded(page[p], calls[p][i].body))
    BY <1>1, <1>7, AnswerViewIs
  <2>2. CASE Paged(p, i, {}, ViewerFailed(page[p]))
    BY <1>1, <1>2, <2>1, <2>2, ViewerFailedIs DEF Said
  <2>3. CASE /\ calls[p][i].body \in File \X Nat
             /\ Paged(p, i, {}, ViewerLoaded(page[p], calls[p][i].body))
    BY <1>1, <1>2, <2>1, <2>3, ViewerLoadedIs DEF Said
  <2> QED BY <2>1, <2>2, <2>3
<1>8. CASE Reject(p, i)
  <2>1. UNCHANGED <<transcript, stream, clients>>
    BY <1>1, <1>8, RejectIs
  <2>2. PICK t \in State : Paged(p, i, {}, t) /\ t.messages = page[p].messages
    BY <1>1, <1>8, RejectIs
  <2>3. PICK what \in SUBSET {"files", "status"} : Marked(p, what)
    BY <1>1, <1>8, RejectIs
  <2>4. "messages" \notin unheard'[q] => "messages" \notin unheard[q]
    BY <1>1, <2>3 DEF Marked, StreamTypes
  <2> QED BY <1>2, <2>1, <2>2, <2>4 DEF Said
<1> QED BY <1>3, <1>4, <1>5, <1>6, <1>7, <1>8 DEF GetsAnswer

LEMMA SaidStep ==
  ASSUME Types, SaidInv, [Next]_vars
  PROVE  SaidInv'
<1>1. SUFFICES ASSUME NEW q \in Page PROVE SaidStays(q) \/ SaidSound(q)'
  BY SaidStaysSound DEF SaidInv
<1>2. SaidSound(q) /\ Bounded
  BY DEF SaidInv, Types
<1>3. CASE Agent
  BY <1>2, <1>3, AgentSaid
<1>4. ASSUME NEW p \in Page, Connects(p) PROVE SaidStays(q)
  BY <1>4, UntouchedSaid DEF Connects, Connect
<1>5. ASSUME NEW p \in Page, Drops(p) PROVE SaidStays(q) \/ SaidSound(q)'
  BY <1>5, DropSaid
<1>6. ASSUME NEW p \in Page, UserActs(p) PROVE SaidStays(q)
  BY <1>6, UserActsSaid
<1>7. ASSUME NEW p \in Page, Receive(p) PROVE SaidStays(q)
  BY <1>7, ReceiveSaid
<1>8. ASSUME NEW p \in Page, NEW i \in DOMAIN calls[p], Handles(p, i)
      PROVE  SaidStays(q) \/ SaidSound(q)'
  BY <1>2, <1>8, HandlesSaid
<1>9. ASSUME NEW p \in Page, NEW i \in DOMAIN calls[p], GetsAnswer(p, i)
      PROVE  SaidStays(q) \/ SaidSound(q)'
  BY <1>9, AnswersSaid
<1>10. CASE UNCHANGED vars
  BY <1>10, UntouchedSaid DEF vars, serverVars
<1> QED BY <1>2, <1>3, <1>4, <1>5, <1>6, <1>7, <1>8, <1>9, <1>10, Steps

LEMMA SaidSuffices ==
  ASSUME SaidInv
  PROVE  Projection
BY DEF SaidInv, SaidSound, SaidLater, Said, Projection

LEMMA InitSaid ==
  ASSUME Init
  PROVE  SaidInv
<1>1. SUFFICES ASSUME NEW q \in Page PROVE SaidSound(q)
  BY DEF SaidInv
<1>2. HearAll(InitialState, <<>>) = InitialState /\ InitialState.messages = <<>>
  BY HearNothing DEF InitialState
<1>3. SaidLater(q) = <<>> /\ transcript = <<>>
  BY <1>2, SayNothing DEF Init, SaidLater, CaughtUp, Said
<1> QED BY <1>3 DEF SaidSound

(* "The UI is a pure projection of the event stream": a page that missed   *)
(* no message since the last reset, and whose own reset was not answered   *)
(* after the turn that followed it, shows the conversation, all of it and  *)
(* in order, beside the notes it makes itself (server.mjs:5, main.js:67).  *)
THEOREM ProjectionHolds == Spec => []Projection
BY InitSaid, AlwaysTypes, SaidStep, SaidSuffices, PTL DEF Spec
=============================================================================
