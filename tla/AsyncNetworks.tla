---------------------------- MODULE AsyncNetworks ----------------------------
(***************************************************************************)
(* Networks some of whose functions answer later: an LLM function returns  *)
(* an APromise, and a cell may hold one.  A promise is described by what   *)
(* it will become: the calls it waits for, and the structure it settles to *)
(* once all of them are answered.  This is well defined because an LLM     *)
(* function keeps the answer to every list of arguments it was called      *)
(* with, failed calls included: the answer belongs to the call, not to     *)
(* the moment.                                                             *)
(*                                                                         *)
(* Sets are left out: no cell of these networks holds a MergeSet.          *)
(***************************************************************************)
EXTENDS Networks, Folds

CONSTANTS
  Async,      \* the propagators whose function is an LLM function
  Failures    \* the sets of calls that may fail together

Call(p, args) == [prop |-> p, args |-> args]

Setless == {Nothing, Contradiction} \cup Somethings \cup MergeObjects

(* What a function of such a network may be called with, see Opened. *)
Openable == Raw \cup {Nothing} \cup MergeObjects

ASSUME AsyncAssumption ==
  /\ Async \subseteq {p \in Prop : Kind[p] = "function"}
  /\ \A p \in Prop : As[p] # "MergeSet"
  /\ \A c \in Cell : Initial[c] \in Setless
  /\ \A in \in Inputs : \A c \in DOMAIN in : in[c] \in Setless
  /\ Value \cap MergeSets = {}

ASSUME AsyncFnAssumption ==
  \A p \in Prop :
    /\ Kind[p] = "function" =>
         \A t \in [1 .. Arity(p) -> Openable] : I(Fn(p, t)) \in Setless
    /\ Kind[p] = "switch" => \A v \in Openable : I(Fn(p, <<v>>)) \in Setless

(* Mutant: a failed call is answered with Nothing. *)
AnswerHidingFailures(call, failing) ==
  IF call \in failing THEN Nothing ELSE I(Fn(call.prop, call.args))

(* The structure a call is answered with: llmfn/error when it fails. *)
Answered(call, failing) ==
  IF call \in failing THEN Contradiction ELSE I(Fn(call.prop, call.args))

-----------------------------------------------------------------------------
(* Promises. *)

Promise(calls, i) == [tag |-> "promise", waits |-> calls, settles |-> i]
IsPromise(i)      == i.tag = "promise"
Waits(i)          == IF IsPromise(i) THEN i.waits ELSE {}
SettlesTo(i)      == IF IsPromise(i) THEN i.settles ELSE i

(* Mutant: the promises merged into one keep the first value. *)
MergedKeepingFirst(a, b, answered) ==
  IF ~ IsPromise(a) /\ ~ IsPromise(b) THEN {Merge(a, b)}
  ELSE IF a = Nothing THEN {b}
  ELSE IF b = Nothing THEN {Nothing}
  ELSE {Promise(Waits(a) \cup Waits(b), SettlesTo(a))}

(* What a.merge(b) can give, the calls in answered being answered.  A      *)
(* pending promise merged with Nothing gives Nothing, an arrived one the   *)
(* structure it settled to; a promise made of others arrives a little      *)
(* after the last of them, so both can happen once all are answered.       *)
Merged(a, b, answered) ==
  CASE IsPromise(a) /\ b = Nothing ->
         {Nothing} \cup (IF a.waits \subseteq answered THEN {a.settles} ELSE {})
    [] IsPromise(a) /\ b # Nothing ->
         {Promise(a.waits \cup Waits(b), Merge(a.settles, SettlesTo(b)))}
    [] ~ IsPromise(a) /\ IsPromise(b) ->
         CASE a.tag = "nothing" -> {b}
           [] a.tag \in {"something", "object"} -> {Promise(b.waits, Merge(b.settles, a))}
           [] OTHER -> {Contradiction}
    [] OTHER -> {Merge(a, b)}

(* Two promises are the same only if they are one object, and every merge  *)
(* with a promise makes a new one.                                         *)
Changed(before, after) == IsPromise(after) \/ after # before

-----------------------------------------------------------------------------
(* Applying a propagator to structures that may be promises.  bind opens   *)
(* its inputs one after the other.                                         *)

(* An input that ends the application, the function not called: nothing    *)
(* known, or a conflict, be it only when the promise arrives.              *)
Stops(i) == i = Nothing \/ SettlesTo(i) = Contradiction

(* What the function is called with.  The continuation of a promise opens  *)
(* a Something and hands on any other structure as it is.                  *)
Opened(i) ==
  LET v == SettlesTo(i)
  IN  IF v.tag = "something" THEN v.value
      ELSE IF v.tag = "object" /\ ~ IsPromise(i) THEN Content(v)
      ELSE v

Stopped(s) == \E i \in DOMAIN s : Stops(s[i])

(* The inputs bind looks at: up to the first that stops it. *)
Looked(s) == {i \in DOMAIN s : \A j \in 1 .. i - 1 : ~ Stops(s[j])}

Arguments(s) == [i \in DOMAIN s |-> Opened(s[i])]

(* The structure inside all the binds. *)
Innermost(p, s, failing) ==
  IF Stopped(s) THEN SettlesTo(s[CHOOSE i \in Looked(s) : Stops(s[i])])
  ELSE IF p \in Async
  THEN LET call == Call(p, Arguments(s))
       IN  Promise({call}, Answered(call, failing))
  ELSE I(Apply(p, Arguments(s)))

Pending(s) == UNION {Waits(s[i]) : i \in Looked(s)}

(* The structure propagator p offers its output cell.  The coercions look  *)
(* for a Something and let a promise pass as it is.                        *)
Offer(p, s, failing) ==
  LET inner == Innermost(p, s, failing)
      late  == \E i \in Looked(s) : IsPromise(s[i])
  IN  Coerce(As[p],
        IF late THEN Promise(Pending(s) \cup Waits(inner), SettlesTo(inner)) ELSE inner)

(* Mutant: a call behind a promise is never made. *)
OnlyImmediateCalls(p, s) ==
  IF p \in Async /\ ~ Stopped(s) /\ Pending(s) = {}
  THEN {[call |-> Call(p, Arguments(s)), after |-> {}]}
  ELSE {}

(* The call the application makes, and the calls whose answers it needs to *)
(* be made.                                                                *)
Calls(p, s) ==
  IF p \in Async /\ ~ Stopped(s)
  THEN {[call |-> Call(p, Arguments(s)), after |-> Pending(s)]}
  ELSE {}

-----------------------------------------------------------------------------
(* The network as it would be were its LLM functions ordinary ones, with   *)
(* the same answers.                                                       *)
SyncCompute(p, failing, content) ==
  Coerce(As[p],
         NaryUnpack([t \in [1 .. Arity(p) -> Raw] |->
                       IF p \in Async THEN Answered(Call(p, t), failing) ELSE Apply(p, t)],
                    [i \in 1 .. Arity(p) |-> content[From[p][i]]]))

Writers(c) == {p \in Prop : Kind[p] # "recursive" /\ To[p] = c}

(* All that the writers of c have to say, and what it started with. *)
AllSaid(c, start, failing, content) ==
  MapThenFoldSet(Merge, start[c],
                 LAMBDA p : SyncCompute(p, failing, content),
                 LAMBDA S : CHOOSE p \in S : TRUE,
                 Writers(c))
=============================================================================
