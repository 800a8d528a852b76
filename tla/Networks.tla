------------------------------ MODULE Networks ------------------------------
(***************************************************************************)
(* A compiled network: its cells, its propagators and what they compute.   *)
(* This is what NetworkRuntime builds from a data network once, before any *)
(* invocation; nothing here changes during a run.                          *)
(*                                                                         *)
(* A switch without a payload cell is its predicate applied to its only    *)
(* input, a plain function here.  A propagator reads as many cells as its  *)
(* function has parameters, as the type checker requires.                  *)
(***************************************************************************)
EXTENDS InfoStructures

CONSTANTS
  Cell,        \* names of the cells
  Prop,        \* names of the propagators
  Kind,        \* "function", "switch" or "recursive", per propagator
  From,        \* the sequence of its input cells
  To,          \* its output cell
  As,          \* its coercion
  Fn(_, _),    \* what its function returns on a tuple of plain contents
  Truthy,      \* the values that count as true
  Signature,   \* the sequence of the network's input cells
  Initial,     \* the initial structure of every cell
  Inputs       \* what callers may pass: partial functions from cells to structures

Arity(p) == Len(From[p])

ASSUME NetworkAssumption ==
  /\ Kind \in [Prop -> {"function", "switch", "recursive"}]
  /\ From \in [Prop -> Seq(Cell)]
  /\ To \in [Prop -> Cell]
  /\ As \in [Prop -> Coercion]
  /\ Signature \in Seq(Cell)
  /\ \A i, j \in 1 .. Len(Signature) : Signature[i] = Signature[j] => i = j
  /\ Initial \in [Cell -> Info]
  /\ \A in \in Inputs : DOMAIN in \subseteq Cell /\ \A c \in DOMAIN in : in[c] \in Info
  /\ \A p \in Prop : Kind[p] # "recursive" => Arity(p) \in 1 .. MaxArity
  /\ \A p \in Prop : Kind[p] = "switch" => Arity(p) = 2
  /\ \A p \in Prop : Kind[p] = "recursive" => Len(Signature) <= Arity(p)

ASSUME FnAssumption ==
  \A p \in Prop :
    /\ Kind[p] = "function" => \A t \in [1 .. Arity(p) -> Raw] : Fn(p, t) \in Result
    /\ Kind[p] = "switch" => \A v \in Raw : Fn(p, <<v>>) \in Result

-----------------------------------------------------------------------------
(* Objects, arrays and structures are true whatever they contain. *)
IsTruthy(r) == r \in Truthy \cup Record \cup Array \cup Info \cup {Error}

Apply(p, t) ==
  IF Kind[p] = "switch"
  THEN IF IsTruthy(Fn(p, <<t[1]>>)) THEN t[2] ELSE Null
  ELSE Fn(p, t)

(* The structure propagator p offers its output cell, given the cells. *)
Compute(p, content) ==
  Coerce(As[p],
         NaryUnpack([t \in [1 .. Arity(p) -> Raw] |-> Apply(p, t)],
                    [i \in 1 .. Arity(p) |-> content[From[p][i]]]))

(* Mutant: a propagator is recorded at its first input only. *)
NeighborsOfTheFirst(c) == {p \in Prop : From[p][1] = c}

Neighbors(c) == {p \in Prop : \E i \in 1 .. Arity(p) : From[p][i] = c}

(* The recursive call p is made once all its inputs are values. *)
Ready(p, content) ==
  \A i \in 1 .. Len(Signature) : content[From[p][i]].tag = "something"

Mapped(c) == \E i \in 1 .. Len(Signature) : Signature[i] = c

(* Mutant: a recursive call passes the plain contents of its inputs. *)
RestartedWithContents(p, content) ==
  [c \in Cell |->
     IF Mapped(c)
     THEN content[From[p][CHOOSE i \in 1 .. Len(Signature) : Signature[i] = c]].value
     ELSE Initial[c]]

(* The cells a recursive call starts from: its inputs, by position, and    *)
(* every other cell as the network declares it.                            *)
Restarted(p, content) ==
  [c \in Cell |->
     IF Mapped(c)
     THEN content[From[p][CHOOSE i \in 1 .. Len(Signature) : Signature[i] = c]]
     ELSE Initial[c]]

Invoked(in) == [c \in Cell |-> IF c \in DOMAIN in THEN in[c] ELSE Initial[c]]

Invocations == {Invoked(in) : in \in Inputs}

Structures == [Cell -> Info]
=============================================================================
