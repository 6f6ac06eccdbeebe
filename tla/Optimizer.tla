----------------------------- MODULE Optimizer -----------------------------
(***************************************************************************)
(* optimizer_optimize (optimizer.c:449): rounds over the opcode list, each *)
(* of which reads the list at i, lets the passes rewrite the window there, *)
(* and writes what is left of it back to the same array at pos, dropping   *)
(* the NOPs, until a round changes nothing.                                *)
(***************************************************************************)
EXTENDS Peephole

CONSTANT Inputs       \* the opcode lists generator_process can build

\* add_opcode appends commands one by one, none of them a NOP.
ASSUME InputsAssumption ==
  \A code \in Inputs :
    /\ code \in Seq({code[n] : n \in DOMAIN code})
    /\ \A n \in DOMAIN code : "type" \in DOMAIN code[n] /\ ~IsNop(code[n])

VARIABLES data,       \* list->data: the array, NOPs and stale tail included
          count,      \* list->count
          i,          \* index of the command being looked at, from 1
          pos,        \* how many commands of this round have been kept
          frame,      \* frame_size
          pass,       \* j: the next pass to try
          match,      \* a pass has matched at i
          changed,    \* a pass has matched in this round
          pc

vars == << data, count, i, pos, frame, pass, match, changed, pc >>

(***************************************************************************)
(* The window at i: up to max_frame_size commands, cut at the first NOP    *)
(* and at the end of the list.                                             *)
(***************************************************************************)

\* A slip: the end of the array for the end of the list.
InFrameOfArray(n) == i + n <= Len(data) /\ ~IsNop(data[i + n])

InFrame(n) == i + n <= count /\ ~IsNop(data[i + n])

FrameAtI ==
  CHOOSE n \in 0 .. MaxFrameSize :
    /\ \A m \in 0 .. n - 1 : InFrame(m)
    /\ n < MaxFrameSize => ~InFrame(n)

Window == SubSeq(data, i, i + frame - 1)

Applicable(p) == FrameSize[p] <= frame /\ Matches(p, Window)

-----------------------------------------------------------------------------

Init ==
  /\ data \in Inputs
  /\ count = Len(data)
  /\ i = 1 /\ pos = 0 /\ frame = 0 /\ pass = 1
  /\ match = FALSE /\ changed = TRUE
  /\ pc = "while"

StartRound ==
  /\ pc = "while" /\ changed
  /\ i' = 1 /\ pos' = 0 /\ changed' = FALSE /\ pc' = "scan"
  /\ UNCHANGED << data, count, frame, pass, match >>

Return ==
  /\ pc = "while" /\ ~changed
  /\ pc' = "done"
  /\ UNCHANGED << data, count, i, pos, frame, pass, match, changed >>

\* Write n commands read at i back at pos.
KeepCommands(n) ==
  /\ data' = [k \in DOMAIN data |-> IF k \in pos + 1 .. pos + n THEN data[i + k - pos - 1]
                                                                ELSE data[k]]
  /\ pos' = pos + n
  /\ i' = i + n

\* A slip: the line is read and not written back.
KeepTextDropped ==
  /\ pc = "scan" /\ i <= count /\ IsText(data[i])
  /\ i' = i + 1
  /\ UNCHANGED << data, count, pos, frame, pass, match, changed, pc >>

KeepText ==
  /\ pc = "scan" /\ i <= count /\ IsText(data[i])
  /\ KeepCommands(1)
  /\ UNCHANGED << count, frame, pass, match, changed, pc >>

\* A slip: a NOP is kept like any command.
SkipNopKept ==
  /\ pc = "scan" /\ i <= count /\ IsNop(data[i])
  /\ KeepCommands(1)
  /\ UNCHANGED << count, frame, pass, match, changed, pc >>

SkipNop ==
  /\ pc = "scan" /\ i <= count /\ IsNop(data[i])
  /\ i' = i + 1
  /\ UNCHANGED << data, count, pos, frame, pass, match, changed, pc >>

OpenFrame ==
  /\ pc = "scan" /\ i <= count /\ ~IsText(data[i]) /\ ~IsNop(data[i])
  /\ frame' = FrameAtI
  /\ pass' = 1 /\ match' = FALSE /\ pc' = "passes"
  /\ UNCHANGED << data, count, i, pos, changed >>

\* The next pass that matches rewrites the window in place; it shrinks the frame
\* the later passes are given to what it has left.
ApplyPass(p) ==
  /\ pc = "passes" /\ p >= pass
  /\ Applicable(p) /\ \A q \in pass .. p - 1 : ~Applicable(q)
  /\ LET left == Rewritten(p, Window)
     IN  /\ data' = [k \in DOMAIN data |->
                       IF k \in i .. i + Len(left) - 1 THEN left[k - i + 1]
                       ELSE IF k \in i + Len(left) .. i + FrameSize[p] - 1 THEN Nop
                       ELSE data[k]]
         /\ frame' = IF frame > Len(left) THEN Len(left) ELSE frame
  /\ match' = TRUE /\ pass' = p + 1
  /\ UNCHANGED << count, i, pos, changed, pc >>

NoMorePasses == pc = "passes" /\ \A q \in pass .. 13 : ~Applicable(q)

\* A slip: the round does not remember that a pass has matched.
KeepFrameUnmarked ==
  /\ NoMorePasses /\ match
  /\ KeepCommands(frame)
  /\ pc' = "scan"
  /\ UNCHANGED << count, frame, pass, match, changed >>

KeepFrame ==
  /\ NoMorePasses /\ match
  /\ KeepCommands(frame)
  /\ changed' = TRUE /\ pc' = "scan"
  /\ UNCHANGED << count, frame, pass, match >>

\* A slip: a command no pass has matched counts as a change.
KeepCommandMarked ==
  /\ NoMorePasses /\ ~match
  /\ KeepCommands(1)
  /\ changed' = TRUE /\ pc' = "scan"
  /\ UNCHANGED << count, frame, pass, match >>

KeepCommand ==
  /\ NoMorePasses /\ ~match
  /\ KeepCommands(1)
  /\ pc' = "scan"
  /\ UNCHANGED << count, frame, pass, match, changed >>

\* A slip: the list ends where reading has stopped.
EndRoundAtIndex ==
  /\ pc = "scan" /\ i > count
  /\ count' = i /\ pc' = "while"
  /\ UNCHANGED << data, i, pos, frame, pass, match, changed >>

EndRound ==
  /\ pc = "scan" /\ i > count
  /\ count' = pos /\ pc' = "while"
  /\ UNCHANGED << data, i, pos, frame, pass, match, changed >>

Next ==
  \/ StartRound \/ KeepText \/ SkipNop \/ OpenFrame
  \/ \E p \in Passes : ApplyPass(p)
  \/ KeepFrame \/ KeepCommand \/ EndRound \/ Return

\* A sequential function runs to its end.
Spec == Init /\ [][Next]_vars /\ WF_vars(Next)

(***************************************************************************)
(* Properties                                                              *)
(***************************************************************************)

\* Every variable stays in its type, list->count within the array it counts and the
\* two indices of the loop within the array or just past it.
TypeOK ==
  /\ count \in Nat /\ 1 .. count \subseteq DOMAIN data
  /\ i \in Nat \ {0} /\ pos \in Nat
  /\ frame \in 0 .. MaxFrameSize /\ pass \in 1 .. 14
  /\ match \in BOOLEAN /\ changed \in BOOLEAN
  /\ pc \in {"while", "scan", "passes", "done"}

\* The commands a pass is handed lie inside the list (optimizer.c:474 stops the frame
\* at list->count, behind which the commands of the last round still stand), and what
\* is kept is written where everything has been read already (optimizer.c:498).
WindowInBounds ==
  /\ pos < i
  /\ pc \in {"scan", "passes"} => i <= count + 1
  /\ pc = "passes" => i + frame <= count + 1 /\ (frame = 0 => match)

\* Those commands of s that are of a sort: all but the NOPs, or those of one type.  (A
\* function of s, so that TLC evaluates s once.)
IsOf(c, sort) == IF sort = "command" THEN ~IsNop(c) ELSE c.type = sort

Only(s, sort) ==
  [t \in {s} |->
     LET only[n \in 0 .. Len(t)] ==
           IF n = 0 THEN << >>
           ELSE IF IsOf(t[n], sort) THEN Append(only[n - 1], t[n]) ELSE only[n - 1]
     IN  only[Len(t)]][s]

\* The program as it stands: what the round has kept and what it has yet to read.
Live ==
  IF pc \in {"scan", "passes"}
  THEN SubSeq(data, 1, pos) \o Only(SubSeq(data, i, count), "command")
  ELSE SubSeq(data, 1, count)

\* Between two rounds the list holds no NOP: the next round would cut its windows there
\* and miss what the passes could do across it.
CompactBetweenRounds ==
  pc \in {"while", "done"} => \A n \in 1 .. count : ~IsNop(data[n])

\* No step loses, adds or reorders a line of text: the jump targets stay where they are
\* among each other, whatever the passes make of the commands between them.
LinesKept == [][Only(Live, "text")' = Only(Live, "text")]_vars

\* What every pass makes smaller: it removes a command, or makes an imul2 a shift.
Measure == 2 * Len(Live) + Len(Only(Live, "imul2"))

\* Only the passes change the program, and each application makes it smaller: two passes
\* cannot undo each other for ever.
PassesShrink ==
  [][IF \E p \in Passes : ApplyPass(p) THEN Measure' < Measure ELSE Live' = Live]_vars

\* optimizer_optimize returns.
Termination == <>(pc = "done")

\* The loop over rounds, frames and NOPs in one array is the abstract rewriting: every
\* window a pass is given is one of consecutive commands of the program, and when the
\* loop returns no pass of the table accepts any window of the result.
Abstract == INSTANCE Rewriting WITH prog <- Live, halted <- (pc = "done")
ImplementsRewriting == Abstract!Spec
=============================================================================
