-------------------------------- MODULE Pull --------------------------------
(***************************************************************************)
(* pull.c: the pointers to what the parser has allocated, in a chain of    *)
(* blocks of fixed capacity whose head is the one being filled.  A block   *)
(* is the sequence of its slots up to its size: nothing reads the others.  *)
(***************************************************************************)
EXTENDS Integers, Bags, SequencesExt

CONSTANTS Ptrs,
          BlockCapacity,   \* pull_BLOCK_CAPACITY
          MaxBlocks        \* a bound on the chain

ASSUME PullAssumption == BlockCapacity \in Nat \ {0} /\ MaxBlocks \in Nat

VARIABLES blocks,          \* the chain, its head first
          freed            \* what the last operation passed to free, in that order

pullVars == << blocks, freed >>

PullInit == blocks = << << >> >> /\ freed = << >>

\* A slip: a full head is noticed one pointer too late.
AddLate(p) ==
  LET filled == Append(Head(blocks), p)
  IN  /\ freed' = << >>
      /\ \/ Len(filled) > BlockCapacity /\ Len(blocks) < MaxBlocks
            /\ blocks' = << << >>, filled >> \o Tail(blocks)
         \/ Len(filled) <= BlockCapacity
            /\ blocks' = << filled >> \o Tail(blocks)

\* A slip: the new head is linked to the old one only.
AddUnlinked(p) ==
  LET filled == Append(Head(blocks), p)
  IN  /\ freed' = << >>
      /\ \/ Len(filled) = BlockCapacity /\ Len(blocks) < MaxBlocks
            /\ blocks' = << << >>, filled >>
         \/ Len(filled) # BlockCapacity
            /\ blocks' = << filled >> \o Tail(blocks)

\* The pointer is stored first; then a head that has become full gets a new one before it.
Add(p) ==
  LET filled == Append(Head(blocks), p)
  IN  /\ freed' = << >>
      /\ \/ Len(filled) = BlockCapacity /\ Len(blocks) < MaxBlocks
            /\ blocks' = << << >>, filled >> \o Tail(blocks)
         \/ Len(filled) # BlockCapacity
            /\ blocks' = << filled >> \o Tail(blocks)

\* The head is kept and emptied, the blocks behind it are released.
Clear == blocks' = << << >> >> /\ freed' = << >>

\* From the head on, every block from its first slot on; then the chain is cleared.
Contents == FlattenSeq(blocks)
FreeObjects == freed' = Contents /\ blocks' = << << >> >>

PullNext == (\E p \in Ptrs : Add(p)) \/ Clear \/ FreeObjects

PullSpec == PullInit /\ [][PullNext]_pullVars

(***************************************************************************)
(* Properties                                                              *)
(***************************************************************************)

\* A chain of blocks of pointers.
PullTypeOK == blocks \in Seq(Seq(Ptrs)) /\ freed \in Seq(Ptrs)

\* There is a head, with room for the slot that pull_add writes unasked, and the blocks
\* behind it are full.
HeadHasRoom ==
  /\ blocks # << >>
  /\ \A n \in DOMAIN blocks :
       IF n = 1 THEN Len(blocks[n]) < BlockCapacity ELSE Len(blocks[n]) = BlockCapacity

\* No pointer is lost or doubled where one block gives way to the next.
Abstract == INSTANCE Tracker WITH tracked <- ToBag(Contents), released <- ToBag(freed)
ImplementsTracker == Abstract!Spec
=============================================================================
