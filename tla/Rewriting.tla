----------------------------- MODULE Rewriting -----------------------------
(***************************************************************************)
(* What optimizer_optimize promises: a command list is rewritten, one      *)
(* window of consecutive commands at a time, by the passes of the table,   *)
(* until no pass accepts any window of it.  Nothing is said here of        *)
(* rounds, of NOPs or of the array the list is kept in.                    *)
(***************************************************************************)
EXTENDS Integers, Sequences

CONSTANTS
  Inputs,             \* the command lists the generator hands over
  Passes,             \* the passes of the table,
  FrameSize,          \* how many commands each of them looks at,
  Matches(_, _),      \* which windows it accepts,
  Rewritten(_, _)     \* and what it leaves of them

VARIABLES prog,      \* the command list
          halted     \* the optimizer has returned

vars == << prog, halted >>

Window(k, n)      == SubSeq(prog, k + 1, k + n)
Suffix(k)         == SubSeq(prog, k + 1, Len(prog))
AcceptedAt(p, k)  == k + FrameSize[p] <= Len(prog) /\ Matches(p, Window(k, FrameSize[p]))

Init == prog \in Inputs /\ halted = FALSE

Rewrite(p, k) ==
  /\ ~halted
  /\ AcceptedAt(p, k)
  /\ prog' = Window(0, k) \o Rewritten(p, Window(k, FrameSize[p])) \o Suffix(k + FrameSize[p])
  /\ UNCHANGED halted

Halt ==
  /\ ~halted
  /\ \A p \in Passes : \A k \in 0 .. Len(prog) : ~AcceptedAt(p, k)
  /\ halted' = TRUE
  /\ UNCHANGED prog

Next == (\E p \in Passes : \E k \in 0 .. Len(prog) : Rewrite(p, k)) \/ Halt

Spec == Init /\ [][Next]_vars /\ WF_vars(Next)
=============================================================================
