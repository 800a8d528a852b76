------------------------------- MODULE Runners -------------------------------
(***************************************************************************)
(* The two runners, run and asyncRun: a work queue, first in first out,    *)
(* filled with the ranked propagators and extended with the readers of     *)
(* every cell that learns something.  run coalesces: a propagator sits in  *)
(* its queue at most once.  asyncRun does not.  Both call one propagator   *)
(* at a time; asyncRun awaits the answer, but nothing else touches the     *)
(* cells of its invocation meanwhile.                                      *)
(***************************************************************************)
EXTENDS Networks, Functions

CONSTANTS
  Readers,    \* per cell, the propagators it notifies, in the order declared
  Rankings    \* the orders rankPropagators may give

ASSUME ReadersAssumption ==
  /\ Readers \in [Cell -> Seq(Prop)]
  /\ \A c \in Cell : Range(Readers[c]) = Neighbors(c)

ASSUME RankingsAssumption ==
  \A r \in Rankings : r \in Seq(Prop) /\ Range(r) = Prop /\ IsInjective(r)

VARIABLES
  coalesce,   \* TRUE for run, FALSE for asyncRun
  ranked,     \* the ranking of the network's propagators
  cells,
  seed,       \* what the cells held when the current pass began
  queue,
  queued,     \* the names in the queue, kept by run only
  notify,     \* the propagators of the last message still to be enqueued
  status

vars == <<coalesce, ranked, cells, seed, queue, queued, notify, status>>

TypeOK ==
  /\ coalesce \in BOOLEAN
  /\ ranked \in Rankings
  /\ cells \in Structures
  /\ seed \in Structures
  /\ queue \in Seq(Prop)
  /\ queued \subseteq Prop
  /\ notify \in Seq(Prop)
  /\ status \in {"running", "done", "exit"}

-----------------------------------------------------------------------------
Names(q) == IF coalesce THEN Range(q) ELSE {}

Init ==
  /\ coalesce \in BOOLEAN
  /\ ranked \in Rankings
  /\ \E in \in Inputs : cells = Invoked(in)
  /\ seed = cells
  /\ queue = ranked
  /\ queued = Names(ranked)
  /\ notify = <<>>
  /\ status = "running"

(* Take the first name off the queue; only once the last message is dealt with. *)
Shift(p) ==
  /\ status = "running" /\ notify = <<>>
  /\ queue # <<>> /\ p = Head(queue)

(* Mutant: the name stays in the set beside the queue. *)
DroppedFromTheQueue(p) ==
  /\ queue' = Tail(queue)
  /\ UNCHANGED queued

Dropped(p) ==
  /\ queue' = Tail(queue)
  /\ queued' = queued \ {p}

(* Mutant: readers are notified whether or not the cell learned something. *)
ActivateAlwaysNotifying(p) ==
  /\ Shift(p) /\ Kind[p] # "recursive"
  /\ Dropped(p)
  /\ cells' = [cells EXCEPT ![To[p]] = Merge(cells[To[p]], Compute(p, cells))]
  /\ IF cells'[To[p]] = Contradiction
     THEN status' = "exit" /\ UNCHANGED notify
     ELSE notify' = Readers[To[p]] /\ UNCHANGED status
  /\ UNCHANGED <<coalesce, ranked, seed>>

(* rationalActivationStrategyI, and what the runner does with its message. *)
Activate(p) ==
  LET out   == To[p]
      after == Merge(cells[out], Compute(p, cells))
  IN  /\ Shift(p) /\ Kind[p] # "recursive"
      /\ Dropped(p)
      /\ cells' = [cells EXCEPT ![out] = after]
      /\ \/ /\ after = Contradiction
            /\ status' = "exit"
            /\ UNCHANGED notify
         \/ /\ after # Contradiction /\ after = cells[out]
            /\ UNCHANGED <<notify, status>>
         \/ /\ after # Contradiction /\ after # cells[out]
            /\ notify' = Readers[out]
            /\ UNCHANGED status
      /\ UNCHANGED <<coalesce, ranked, seed>>

(* One turn of the loop over the propagators of a message. *)
Enqueue ==
  /\ status = "running" /\ notify # <<>>
  /\ notify' = Tail(notify)
  /\ IF coalesce /\ Head(notify) \in queued
     THEN UNCHANGED <<queue, queued>>
     ELSE /\ queue' = Append(queue, Head(notify))
          /\ queued' = IF coalesce THEN queued \cup {Head(notify)} ELSE queued
  /\ UNCHANGED <<coalesce, ranked, cells, seed, status>>

(* Mutant: the queue goes on with what it held. *)
RecurseResuming(p) ==
  /\ Shift(p) /\ Kind[p] = "recursive"
  /\ Ready(p, cells)
  /\ Dropped(p)
  /\ cells' = Restarted(p, cells)
  /\ seed' = cells'
  /\ UNCHANGED <<coalesce, ranked, notify, status>>

(* The recursive call restarts the cells and replaces the whole queue. *)
Recurse(p) ==
  /\ Shift(p) /\ Kind[p] = "recursive"
  /\ Ready(p, cells)
  /\ cells' = Restarted(p, cells)
  /\ seed' = cells'
  /\ queue' = ranked
  /\ queued' = Names(ranked)
  /\ UNCHANGED <<coalesce, ranked, notify, status>>

Wait(p) ==
  /\ Shift(p) /\ Kind[p] = "recursive"
  /\ ~ Ready(p, cells)
  /\ Dropped(p)
  /\ UNCHANGED <<coalesce, ranked, cells, seed, notify, status>>

Finish ==
  /\ status = "running" /\ notify = <<>> /\ queue = <<>>
  /\ status' = "done"
  /\ UNCHANGED <<coalesce, ranked, cells, seed, queue, queued, notify>>

Next ==
  \/ \E p \in Prop : Activate(p)
  \/ \E p \in Prop : Recurse(p)
  \/ \E p \in Prop : Wait(p)
  \/ Enqueue
  \/ Finish

Spec == Init /\ [][Next]_vars

(* The loop of a runner never pauses by itself, and every promise it       *)
(* awaits is already settled.                                              *)
FairSpec == Spec /\ WF_vars(Next)

-----------------------------------------------------------------------------
Waiting == Range(queue) \cup Range(notify)

Abstract == INSTANCE Propagation WITH pending <- Waiting

(* Whatever the ranking, and with or without coalescing, a runner is one   *)
(* of the firing orders of the abstract propagation.                       *)
ImplementsPropagation == Abstract!Spec

(* The set that run keeps beside its queue always mirrors it, also across  *)
(* a restart, and no propagator sits in its queue twice: a stale name in   *)
(* the set would silently swallow a later schedule.                        *)
QueuedMirrorsQueue ==
  coalesce => queued = Range(queue) /\ IsInjective(queue)

(* Whenever the network's recursion is bounded, its runs end. *)
Terminates == <>(status # "running")
=============================================================================
