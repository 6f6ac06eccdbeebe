----------------------------- MODULE MCNodePool -----------------------------
(***************************************************************************)
(* A parse of up to five live allocations, in blocks of two, of which up   *)
(* to three are made: empty statements make room for more than there are   *)
(* pointers.  A pointer is as good as another, and no property is one of   *)
(* liveness.                                                               *)
(***************************************************************************)
EXTENDS NodePool

Symmetry == Permutations(Ptrs)
=============================================================================
