------------------------------ MODULE Tracker ------------------------------
(***************************************************************************)
(* What pull.h promises: it collects pointers, forgets them, or frees each *)
(* of them as often as it was added.                                       *)
(***************************************************************************)
EXTENDS Integers, Bags

CONSTANT Ptrs

VARIABLES tracked,       \* a bag of pointers
          released       \* the bag of those the last operation freed

vars == << tracked, released >>

Init == tracked = EmptyBag /\ released = EmptyBag

Add(p) == tracked' = tracked (+) SetToBag({p}) /\ released' = EmptyBag

Clear == tracked' = EmptyBag /\ released' = EmptyBag

FreeObjects == released' = tracked /\ tracked' = EmptyBag

Next == (\E p \in Ptrs : Add(p)) \/ Clear \/ FreeObjects

Spec == Init /\ [][Next]_vars
=============================================================================
