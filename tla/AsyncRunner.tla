----------------------------- MODULE AsyncRunner -----------------------------
(***************************************************************************)
(* invokeAsync on a network with LLM functions: the loop of asyncRun fires *)
(* one propagator after the other and goes on while calls are pending; the *)
(* answers arrive in any order, also after the loop has ended.  Only a     *)
(* recursive call waits, for its own arguments, and the loop with it.      *)
(***************************************************************************)
EXTENDS AsyncNetworks, Functions

CONSTANTS
  Readers,    \* per cell, the propagators it notifies, in the order declared
  Rankings    \* the orders rankPropagators may give

ASSUME ReadersAssumption ==
  /\ Readers \in [Cell -> Seq(Prop)]
  /\ \A c \in Cell : Range(Readers[c]) = Neighbors(c)

ASSUME RankingsAssumption ==
  \A r \in Rankings : r \in Seq(Prop) /\ Range(r) = Prop /\ IsInjective(r)

VARIABLES
  failing,    \* the calls that fail; never known before they are answered
  ranked,     \* the ranking of the network's propagators
  cells,
  seed,       \* what the cells held when the current pass began
  queue,
  made,       \* the calls made, each with the calls that had to come first
  answered,   \* the calls answered so far
  status

vars == <<failing, ranked, cells, seed, queue, made, answered, status>>

MadeCalls == {m.call : m \in made}

Promises ==
  [tag : {"promise"}, waits : SUBSET MadeCalls, settles : Setless]

TypeOK ==
  /\ failing \in Failures
  /\ ranked \in Rankings
  /\ cells \in [Cell -> Setless \cup Promises]
  /\ seed \in [Cell -> Setless]
  /\ queue \in Seq(Prop)
  /\ \A m \in made :
       /\ m.call.prop \in Async /\ m.call.args \in Seq(Openable)
       /\ m.after \subseteq MadeCalls
  /\ answered \subseteq MadeCalls
  /\ status \in {"running", "done", "exit"}

-----------------------------------------------------------------------------
Init ==
  /\ failing \in Failures
  /\ ranked \in Rankings
  /\ \E in \in Inputs : cells = Invoked(in)
  /\ seed = cells
  /\ queue = ranked
  /\ made = {}
  /\ answered = {}
  /\ status = "running"

Shift(p) ==
  /\ status = "running"
  /\ queue # <<>> /\ p = Head(queue)

InputsOf(p) == [i \in 1 .. Arity(p) |-> cells[From[p][i]]]

Activate(p) ==
  LET out    == To[p]
      before == cells[out]
      offer  == Offer(p, InputsOf(p), failing)
  IN  /\ Shift(p) /\ Kind[p] # "recursive"
      /\ made' = made \cup Calls(p, InputsOf(p))
      /\ \E after \in Merged(before, offer, answered) :
           /\ cells' = [cells EXCEPT ![out] = after]
           /\ \/ /\ after = Contradiction
                 /\ status' = "exit"
                 /\ queue' = Tail(queue)
              \/ /\ after # Contradiction /\ ~ Changed(before, after)
                 /\ queue' = Tail(queue)
                 /\ UNCHANGED status
              \/ /\ after # Contradiction /\ Changed(before, after)
                 /\ queue' = Tail(queue) \o Readers[out]
                 /\ UNCHANGED status
      /\ UNCHANGED <<failing, ranked, seed, answered>>

-----------------------------------------------------------------------------
(* A recursive call looks at its arguments one after the other: it awaits  *)
(* each that is a promise, and gives up at the first that is no value.     *)
Argument(p, i) == cells[From[p][i]]

Arrived(p, i) == Waits(Argument(p, i)) \subseteq answered

IsValue(p, i) == Arrived(p, i) /\ SettlesTo(Argument(p, i)).tag = "something"

Awaited == [c \in Cell |-> SettlesTo(cells[c])]

(* Mutant: the arguments are passed on as the cells hold them. *)
RecursePassingPromises(p) ==
  /\ Shift(p) /\ Kind[p] = "recursive"
  /\ \A i \in 1 .. Len(Signature) : IsValue(p, i)
  /\ cells' = Restarted(p, cells)
  /\ seed' = cells'
  /\ queue' = ranked
  /\ UNCHANGED <<failing, ranked, made, answered, status>>

Recurse(p) ==
  /\ Shift(p) /\ Kind[p] = "recursive"
  /\ \A i \in 1 .. Len(Signature) : IsValue(p, i)
  /\ cells' = Restarted(p, Awaited)
  /\ seed' = cells'
  /\ queue' = ranked
  /\ UNCHANGED <<failing, ranked, made, answered, status>>

GiveUp(p) ==
  /\ Shift(p) /\ Kind[p] = "recursive"
  /\ \E i \in 1 .. Len(Signature) :
       /\ \A j \in 1 .. i - 1 : IsValue(p, j)
       /\ Arrived(p, i) /\ ~ IsValue(p, i)
  /\ queue' = Tail(queue)
  /\ UNCHANGED <<failing, ranked, cells, seed, made, answered, status>>

Finish ==
  /\ status = "running" /\ queue = <<>>
  /\ status' = "done"
  /\ UNCHANGED <<failing, ranked, cells, seed, queue, made, answered>>

Step ==
  \/ \E p \in Prop : Activate(p)
  \/ \E p \in Prop : Recurse(p)
  \/ \E p \in Prop : GiveUp(p)
  \/ Finish

(* A call that has been made is answered, or fails, at any time. *)
Answer ==
  \E m \in made :
    /\ m.call \notin answered /\ m.after \subseteq answered
    /\ answered' = answered \cup {m.call}
    /\ UNCHANGED <<failing, ranked, cells, seed, queue, made, status>>

Next == Step \/ Answer

Spec == Init /\ [][Next]_vars

(* The loop runs on by itself.  A model call ends with an answer or an     *)
(* error, and the executor starts every call (module Executor).            *)
FairSpec == Spec /\ WF_vars(Step) /\ WF_vars(Answer)

-----------------------------------------------------------------------------
(* Downstream the network treats every result the same: when a run is done *)
(* every cell will hold what it would hold had all functions answered at   *)
(* once, whatever the order in which their answers arrive.                 *)
AsIfSynchronous ==
  status = "done" =>
    \A c \in Cell : SettlesTo(cells[c]) = AllSaid(c, seed, failing, Awaited)

(* A failure surfaces as a contradiction and not as a silent empty: no     *)
(* promise outlives the failure of a call it depends on with anything      *)
(* else, however many propagators and merges lie between.                  *)
FailuresSurface ==
  \A c \in Cell :
    Waits(cells[c]) \cap failing # {} => SettlesTo(cells[c]) = Contradiction

(* A propagator does nothing if any of its inputs has no information: no   *)
(* call is made with Nothing for an argument.                              *)
CallsHaveInformation ==
  \A m \in made : Nothing \notin Range(m.call.args)

(* A run ends, and what it left pending in the cells arrives. *)
Settles ==
  <>[](status # "running" /\ \A c \in Cell : Waits(cells[c]) \subseteq answered)

(* The network converges: a run ends. *)
Converges == <>(status # "running")
=============================================================================
