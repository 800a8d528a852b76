------------------------- MODULE NetworkPropagation -------------------------
(***************************************************************************)
(* The abstract propagation of module Propagation, of the structures and   *)
(* propagators of module Networks.                                         *)
(***************************************************************************)
EXTENDS Networks

VARIABLES cells, seed, pending, status

INSTANCE Propagation
=============================================================================
