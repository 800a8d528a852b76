--------------------------- MODULE DelayedNetworks ---------------------------
(***************************************************************************)
(* A class of networks in which it makes no difference that some functions *)
(* answer later, and the invariant that shows it.  Outside the class the   *)
(* engine does treat a promise differently: a coercion lets it pass, a     *)
(* record it settles to is not opened, a Nothing merged into it replaces   *)
(* it, and a function behind it is called with whatever it settles to.     *)
(***************************************************************************)
EXTENDS AsyncRunner, FiniteSets

Plain == {Nothing, Contradiction} \cup Somethings

(* Functions over plain values; nothing is made a record or a set. *)
PlainAssumption ==
  /\ IsFiniteSet(Prop)
  /\ \A p \in Prop : As[p] = "none"
  /\ \A c \in Cell : Initial[c] \in Plain
  /\ \A in \in Inputs : \A c \in DOMAIN in : in[c] \in Plain
  /\ \A p \in Prop : Kind[p] # "recursive" =>
       \A t \in [1 .. Arity(p) -> Raw] : I(Apply(p, t)) \in Plain

(* A cell that holds something from the start, in every pass. *)
Given(c) ==
  /\ \A in \in Inputs : Invoked(in)[c] # Nothing
  /\ Mapped(c) \/ Initial[c] # Nothing

(* L holds every cell a promise may reach.  The functions that write such  *)
(* a cell always answer something and all read the same cells; and of the  *)
(* inputs of a propagator those after a cell of L are known from the start.*)
DelayedAssumption(L) ==
  \A p \in Prop : Kind[p] # "recursive" =>
    /\ p \in Async \/ (\E i \in 1 .. Arity(p) : From[p][i] \in L) => To[p] \in L
    /\ \A i, j \in 1 .. Arity(p) : i < j /\ From[p][i] \in L => Given(From[p][j])
    /\ To[p] \in L =>
         /\ \A t \in [1 .. Arity(p) -> Raw] : I(Apply(p, t)) # Nothing
         /\ \A q \in Writers(To[p]) : From[q] = From[p]

-----------------------------------------------------------------------------
(* What propagator p would say were its inputs all that will come of them. *)
Said(p) == SyncCompute(p, failing, Awaited)

(* A promise is only where the class allows it, and becomes something, as  *)
(* does all that is still to be said about its cell.                       *)
PromisesBecomeValues(L) ==
  \A c \in Cell : IsPromise(cells[c]) =>
    /\ c \in L /\ SettlesTo(cells[c]) # Nothing
    /\ \A q \in Writers(c) : Said(q) # Nothing

(* The cells only gain on what the pass began with, and never more than    *)
(* what their writers say.                                                 *)
BetweenSeedAndSaid ==
  \A c \in Cell :
    /\ seed[c] \in Plain /\ Awaited[c] \in Plain
    /\ Given(c) => seed[c] # Nothing
    /\ seed[c] \preceq Awaited[c]
    /\ Awaited[c] \preceq AllSaid(c, seed, failing, Awaited)

(* A propagator that is not queued has been heard. *)
HeardOrQueued ==
  status # "exit" =>
    \A p \in Prop : Kind[p] = "recursive" \/ p \in Range(queue) \/ Said(p) \preceq Awaited[To[p]]

DoneIsEmpty == status = "done" => queue = <<>>

NothingIsDelayed(L) ==
  PromisesBecomeValues(L) /\ BetweenSeedAndSaid /\ HeardOrQueued /\ DoneIsEmpty
=============================================================================
