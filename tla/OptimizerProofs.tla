-------------------------- MODULE OptimizerProofs --------------------------
(***************************************************************************)
(* The loop of optimizer_optimize stays inside its array, leaves no NOP in *)
(* it, and does nothing but rewrite the program with its passes until none *)
(* applies, for every list of commands the generator may hand over.        *)
(*                                                                         *)
(* TypeOK and WindowInBounds are inductive together.  CompactBetweenRounds *)
(* speaks of the rounds' ends only: NoNopKept says what holds within one,  *)
(* of the commands already written back and of those of the open frame.    *)
(* What the program is at a step is spread over two parts of one array:    *)
(* OthersKeepLive and ApplyPassRewrites say what each step makes of it,    *)
(* and the action properties and the refinement follow from these two.     *)
(* That no pass applies when the loop returns needs a memory of the last   *)
(* round, which is Quiet.                                                  *)
(***************************************************************************)
EXTENDS Optimizer, SequenceTheorems, WellFoundedInduction, TLAPS

\* Every cell of the array holds a command.
CellsAreCommands == \A n \in DOMAIN data : "type" \in DOMAIN data[n]

\* What has been written back in this round, and what is left of the open frame.
NoNopKept ==
  /\ pc \in {"scan", "passes"} => \A n \in 1 .. pos : ~IsNop(data[n])
  /\ pc = "passes" => \A n \in i .. i + frame - 1 : ~IsNop(data[n])

Bounds == TypeOK /\ WindowInBounds

Compact == CellsAreCommands /\ NoNopKept /\ CompactBetweenRounds

-----------------------------------------------------------------------------

\* No pass leaves more commands than the window it was given (optimizer.c:491 fills the
\* rest of it with NOPs).
LEMMA RewrittenFits ==
  ASSUME NEW p \in Passes, NEW w
  PROVE  Len(Rewritten(p, w)) \in 0 .. FrameSize[p]
<1>1. \A x, y : Len(<< >>) = 0 /\ Len(<<x>>) = 1 /\ Len(<<x, y>>) = 2
  OBVIOUS
<1>2. Len(PushPop2(w)) = 2 /\ Len(PushPop(w)) = 1 /\ Len(LeaLea(w)) = 1 /\ Len(LeaMov(w)) = 1
  BY <1>1 DEF PushPop2, PushPop, LeaLea, LeaMov
<1>3. Len(LeaDeref(w)) = 1 /\ Len(LeaMovRef(w)) = 1 /\ Len(Imul2(w)) = 1 /\ Len(Idiv(w)) = 1
  BY <1>1 DEF LeaDeref, LeaMovRef, Imul2, Idiv
<1>4. Len(AddSub(w)) \in 0 .. 1
  BY <1>1 DEF AddSub
<1>5. Len(Mov(w)) = 1
  BY <1>1 DEF Mov
<1>6. Len(CondJmp(w)) = 1
  BY <1>1 DEF CondJmp
<1>7. CASE p = 1
  <2>1. Rewritten(p, w) = PushPop2(w) /\ FrameSize[p] = 4
    BY <1>7 DEF Rewritten, FrameSize
  <2> QED
    BY <1>2, <2>1
<1>8. CASE p # 1
  <2>1. Rewritten(p, w) \in
          {<< >>, PushPop(w), LeaLea(w), LeaMov(w), LeaDeref(w), LeaMovRef(w),
           AddSub(w), Mov(w), Imul2(w), Idiv(w), CondJmp(w)}
    BY <1>8 DEF Rewritten, Passes
  <2>2. Len(Rewritten(p, w)) \in {0, 1}
    BY <1>1, <1>2, <1>3, <1>4, <1>5, <1>6, <2>1
  <2>3. FrameSize[p] \in 1 .. 4
    BY DEF FrameSize, Passes
  <2>4. \A m \in {0, 1}, n \in 1 .. 4 : m \in 0 .. n
    OBVIOUS
  <2> QED
    BY <2>2, <2>3, <2>4, Zenon
<1> QED
  BY <1>7, <1>8

IsCommand(c) == "type" \in DOMAIN c /\ ~IsNop(c)

LEMMA CmdIsCommand ==
  ASSUME NEW type, NEW ops, type # "nop"
  PROVE  IsCommand(Cmd(type, ops))
BY DEF IsCommand, Cmd, IsNop

LEMMA JumpIsNoNop ==
  ASSUME NEW w, CondJmpMatches(w)
  PROVE  \A n \in 1 .. Len(CondJmp(w)) : IsCommand(CondJmp(w)[n])
<1> DEFINE jump == JumpOf[w[1].type]
           type == IF w[3].type = "jz" THEN InvertInstruction[jump] ELSE jump
<1>1. jump \in {"je", "jne", "jle", "jl", "jge", "jg"}
  BY DEF CondJmpMatches, JumpOf
<1>2. type # "nop"
  BY <1>1 DEF InvertInstruction
<1>3. CondJmp(w) = << Cmd(type, w[3].ops) >>
  BY DEF CondJmp
<1> HIDE DEF type
<1> QED
  BY <1>2, <1>3, CmdIsCommand

\* What a pass writes are commands: it makes no NOP of its own.
LEMMA RewrittenIsCommands ==
  ASSUME NEW p \in Passes, NEW w, Matches(p, w), IsCommand(w[1])
  PROVE  \A n \in 1 .. Len(Rewritten(p, w)) : IsCommand(Rewritten(p, w)[n])
<1> DEFINE AreCommands(s) == \A n \in 1 .. Len(s) : IsCommand(s[n])
<1>1. AreCommands(<< >>)
  OBVIOUS
<1>2. ASSUME NEW c, IsCommand(c) PROVE AreCommands(<< c >>)
  BY <1>2
<1>3. AreCommands(PushPop2(w))
  <2>1. \A x, y : IsCommand(Cmd("mov", x)) /\ IsCommand(Cmd("mov", y))
    BY CmdIsCommand
  <2> QED
    BY <2>1 DEF PushPop2
<1>4. AreCommands(PushPop(w))
  BY <1>2, CmdIsCommand DEF PushPop
<1>5. AreCommands(LeaLea(w))
  BY <1>2 DEF LeaLea, IsCommand, IsNop
<1>6. AreCommands(LeaMov(w))
  BY <1>2 DEF LeaMov, IsCommand, IsNop
<1>7. LeaDerefMatches(w) => AreCommands(LeaDeref(w))
  BY <1>2, CmdIsCommand DEF LeaDeref, LeaDerefMatches, Is
<1>8. AreCommands(LeaMovRef(w))
  BY <1>2, CmdIsCommand DEF LeaMovRef
<1>9. AreCommands(AddSub(w))
  BY <1>1, <1>2, CmdIsCommand DEF AddSub
<1>10. AreCommands(Mov(w))
  <2>1. IsCommand([w[1] EXCEPT !.ops[1] = w[2].ops[1]])
    BY DEF IsCommand, IsNop
  <2> QED
    BY <1>2, <2>1, CmdIsCommand DEF Mov
<1>11. AreCommands(Imul2(w)) /\ AreCommands(Idiv(w))
  BY <1>2, CmdIsCommand DEF Imul2, Idiv
<1>12. CondJmpMatches(w) => AreCommands(CondJmp(w))
  BY JumpIsNoNop
<1> QED
  <2>1. (p = 6 => LeaDerefMatches(w)) /\ (p = 13 => CondJmpMatches(w))
    BY DEF Matches
  <2>2. \/ Rewritten(p, w) \in {<< >>, PushPop2(w), PushPop(w), LeaLea(w), LeaMov(w),
                              LeaMovRef(w), AddSub(w), Mov(w), Imul2(w), Idiv(w)}
        \/ p = 6 /\ Rewritten(p, w) = LeaDeref(w)
        \/ p = 13 /\ Rewritten(p, w) = CondJmp(w)
    BY DEF Rewritten, Passes
  <2>3. AreCommands(Rewritten(p, w))
    <3> HIDE DEF AreCommands
    <3> QED
      BY <1>1, <1>3, <1>4, <1>5, <1>6, <1>7, <1>8, <1>9, <1>10, <1>11, <1>12, <2>1, <2>2
  <2> QED
    BY <2>3

\* The frame that is opened at a command reaches at least over it and never over the end
\* of the list.
LEMMA FrameIsInList ==
  ASSUME Bounds, pc = "scan", i <= count, ~IsNop(data[i])
  PROVE  /\ FrameAtI \in 1 .. MaxFrameSize /\ i + FrameAtI <= count + 1
         /\ \A m \in 0 .. FrameAtI - 1 : InFrame(m)
         /\ FrameAtI < MaxFrameSize => ~InFrame(FrameAtI)
<1> DEFINE Reaches(n) == /\ \A m \in 0 .. n - 1 : InFrame(m)
                         /\ n < MaxFrameSize => ~InFrame(n)
<1>1. InFrame(0)
  BY DEF InFrame, Bounds, TypeOK
<1>2. \E n \in 0 .. MaxFrameSize : Reaches(n)
  <2>1. CASE ~InFrame(1)
    BY <1>1, <2>1 DEF MaxFrameSize
  <2>2. CASE InFrame(1) /\ ~InFrame(2)
    BY <1>1, <2>2 DEF MaxFrameSize
  <2>3. CASE InFrame(1) /\ InFrame(2) /\ ~InFrame(3)
    BY <1>1, <2>3 DEF MaxFrameSize
  <2>4. CASE InFrame(1) /\ InFrame(2) /\ InFrame(3)
    BY <1>1, <2>4 DEF MaxFrameSize
  <2> QED
    BY <2>1, <2>2, <2>3, <2>4
<1>3. FrameAtI \in 0 .. MaxFrameSize /\ Reaches(FrameAtI)
  BY <1>2 DEF FrameAtI
<1>4. FrameAtI # 0
  BY <1>1, <1>3 DEF MaxFrameSize
<1>5. InFrame(FrameAtI - 1)
  BY <1>3, <1>4 DEF MaxFrameSize
<1> QED
  BY <1>3, <1>4, <1>5 DEF InFrame, MaxFrameSize, Bounds, TypeOK

-----------------------------------------------------------------------------

LEMMA BoundsInit == Init => Bounds
<1> SUFFICES ASSUME Init PROVE Bounds
  OBVIOUS
<1>1. match \in BOOLEAN /\ changed \in BOOLEAN
  BY Zenon DEF Init
<1>2. count \in Nat /\ 1 .. count \subseteq DOMAIN data
  BY InputsAssumption DEF Init
<1> QED
  BY <1>1, <1>2 DEF Init, Bounds, TypeOK, WindowInBounds, MaxFrameSize

LEMMA BoundsNext == Bounds /\ [Next]_vars => Bounds'
<1> SUFFICES ASSUME Bounds, [Next]_vars PROVE Bounds'
  OBVIOUS
<1> USE DEF Bounds, TypeOK, WindowInBounds, MaxFrameSize
<1>1. CASE StartRound
  <2>1. changed' \in BOOLEAN
    BY <1>1, Zenon DEF StartRound
  <2> QED
    BY <1>1, <2>1 DEF StartRound
<1>2. CASE KeepText
  <2>1. DOMAIN data' = DOMAIN data
    BY <1>2 DEF KeepText, KeepCommands
  <2> QED
    BY <1>2, <2>1 DEF KeepText, KeepCommands
<1>3. CASE SkipNop
  BY <1>3 DEF SkipNop
<1>4. CASE OpenFrame
  <2>1. frame' \in 1 .. MaxFrameSize /\ i + frame' <= count + 1
    BY <1>4, FrameIsInList DEF OpenFrame
  <2>2. match' \in BOOLEAN
    BY <1>4, Zenon DEF OpenFrame
  <2> QED
    BY <1>4, <2>1, <2>2 DEF OpenFrame
<1>5. ASSUME NEW p \in Passes, ApplyPass(p) PROVE Bounds'
  <2> DEFINE left == Rewritten(p, Window)
  <2>1. DOMAIN data' = DOMAIN data
    BY <1>5 DEF ApplyPass
  <2>2. Len(left) \in Nat
    BY RewrittenFits DEF Passes, FrameSize
  <2>3. frame' \in 0 .. frame
    <3>1. frame' = IF frame > Len(left) THEN Len(left) ELSE frame
      BY <1>5 DEF ApplyPass
    <3> HIDE DEF left
    <3> QED
      BY <2>2, <3>1
  <2>4. match' \in BOOLEAN /\ match'
    BY <1>5, Zenon DEF ApplyPass
  <2>5. pass' \in 1 .. 14
    BY <1>5 DEF ApplyPass, Passes
  <2>6. UNCHANGED << count, i, pos, changed, pc >> /\ pc = "passes"
    BY <1>5 DEF ApplyPass
  <2>7. TypeOK'
    BY <2>1, <2>3, <2>4, <2>5, <2>6
  <2>8. pos' < i' /\ i' <= count' + 1 /\ i' + frame' <= count' + 1
    <3>1. \A m \in 0 .. frame : i + m <= count + 1
      BY <2>6
    <3> QED
      BY <2>3, <2>6, <3>1
  <2>9. WindowInBounds'
    BY <2>4, <2>8, Zenon
  <2> QED
    BY <2>7, <2>9
<1>6. CASE KeepFrame
  <2>1. DOMAIN data' = DOMAIN data
    BY <1>6 DEF KeepFrame, KeepCommands
  <2> QED
    BY <1>6, <2>1 DEF KeepFrame, KeepCommands, NoMorePasses
<1>7. CASE KeepCommand
  <2>1. DOMAIN data' = DOMAIN data
    BY <1>7 DEF KeepCommand, KeepCommands
  <2> QED
    BY <1>7, <2>1 DEF KeepCommand, KeepCommands, NoMorePasses
<1>8. CASE EndRound
  BY <1>8 DEF EndRound
<1>9. CASE Return
  BY <1>9 DEF Return
<1>10. CASE UNCHANGED vars
  BY <1>10 DEF vars
<1> QED
  BY <1>1, <1>2, <1>3, <1>4, <1>5, <1>6, <1>7, <1>8, <1>9, <1>10 DEF Next

-----------------------------------------------------------------------------

LEMMA CompactInit == Init => Compact
<1> SUFFICES ASSUME Init PROVE Compact
  OBVIOUS
<1>1. DOMAIN data = 1 .. Len(data) /\ \A n \in DOMAIN data : IsCommand(data[n])
  <2>1. PICK X : data \in Seq(X)
    BY InputsAssumption DEF Init
  <2>2. DOMAIN data = 1 .. Len(data)
    BY <2>1
  <2>3. \A n \in DOMAIN data : IsCommand(data[n])
    BY InputsAssumption DEF Init, IsCommand
  <2> QED
    BY <2>2, <2>3
<1> QED
  BY <1>1 DEF Init, IsCommand, Compact, CellsAreCommands, NoNopKept, CompactBetweenRounds

\* Writing n commands of the list, none a NOP, back behind those that are kept.
LEMMA KeptAreCommands ==
  ASSUME Bounds, CellsAreCommands, NoNopKept, pc \in {"scan", "passes"},
         NEW n \in Nat, KeepCommands(n), i + n <= count + 1,
         \A k \in i .. i + n - 1 : ~IsNop(data[k])
  PROVE  CellsAreCommands' /\ \A k \in 1 .. pos' : ~IsNop(data[k]')
<1> USE DEF Bounds, TypeOK, WindowInBounds, KeepCommands
<1>1. DOMAIN data' = DOMAIN data
  OBVIOUS
<1>2. ASSUME NEW k \in DOMAIN data, k \in pos + 1 .. pos + n
      PROVE  data[k]' = data[i + k - pos - 1] /\ i + k - pos - 1 \in i .. i + n - 1
  BY <1>2
<1>3. ASSUME NEW k \in DOMAIN data, k \notin pos + 1 .. pos + n
      PROVE  data[k]' = data[k]
  BY <1>3
<1>4. i .. i + n - 1 \subseteq DOMAIN data /\ 1 .. pos + n \subseteq DOMAIN data
  OBVIOUS
<1>5. CellsAreCommands'
  BY <1>1, <1>2, <1>3, <1>4 DEF CellsAreCommands
<1>6. ASSUME NEW k \in 1 .. pos' PROVE ~IsNop(data[k]')
  <2>1. k \in 1 .. pos + n /\ k \in DOMAIN data
    BY <1>4
  <2> QED
    BY <1>2, <1>3, <2>1 DEF NoNopKept
<1> QED
  BY <1>5, <1>6

LEMMA CompactNext == Bounds /\ Compact /\ [Next]_vars => Compact'
<1> SUFFICES ASSUME Bounds, Compact, [Next]_vars PROVE Compact'
  OBVIOUS
<1> USE DEF Compact, CellsAreCommands, NoNopKept, CompactBetweenRounds
<1>1. CASE StartRound
  BY <1>1 DEF StartRound
<1>2. CASE KeepText
  <2>1. \A k \in i .. i : ~IsNop(data[k])
    BY <1>2 DEF KeepText, IsText, IsNop, Bounds, TypeOK
  <2> QED
    BY <1>2, <2>1, KeptAreCommands DEF KeepText, Bounds, TypeOK
<1>3. CASE SkipNop
  BY <1>3 DEF SkipNop
<1>4. CASE OpenFrame
  <2>1. \A m \in 0 .. FrameAtI - 1 : InFrame(m)
    BY <1>4, FrameIsInList DEF OpenFrame
  <2>2. \A n \in i .. i + FrameAtI - 1 : ~IsNop(data[n])
    <3> SUFFICES ASSUME NEW n \in i .. i + FrameAtI - 1 PROVE ~IsNop(data[n])
      OBVIOUS
    <3>1. FrameAtI \in Nat
      BY <1>4, FrameIsInList DEF OpenFrame, MaxFrameSize
    <3>2. n - i \in 0 .. FrameAtI - 1 /\ i + (n - i) = n
      BY <3>1 DEF Bounds, TypeOK
    <3> QED
      BY <2>1, <3>2 DEF InFrame
  <2> QED
    BY <1>4, <2>2 DEF OpenFrame
<1>5. ASSUME NEW p \in Passes, ApplyPass(p) PROVE Compact'
  <2> DEFINE left == Rewritten(p, Window)
  <2>1. Len(left) \in Nat /\ frame \in Nat /\ FrameSize[p] \in 1 .. frame
    BY <1>5, RewrittenFits DEF ApplyPass, Applicable, Passes, FrameSize, Bounds, TypeOK, MaxFrameSize
  <2>2. IsCommand(Window[1])
    <3>1. Window[1] = data[i]
      BY <2>1 DEF Window, Bounds, TypeOK
    <3> QED
      BY <1>5, <2>1, <3>1 DEF ApplyPass, IsCommand, Bounds, TypeOK, WindowInBounds
  <2>3. \A n \in 1 .. Len(left) : IsCommand(left[n])
    BY <1>5, <2>2, RewrittenIsCommands DEF ApplyPass, Applicable
  <2>4. /\ data' = [k \in DOMAIN data |->
                      IF k \in i .. i + Len(left) - 1 THEN left[k - i + 1]
                      ELSE IF k \in i + Len(left) .. i + FrameSize[p] - 1 THEN Nop
                      ELSE data[k]]
        /\ frame' = IF frame > Len(left) THEN Len(left) ELSE frame
        /\ UNCHANGED << count, i, pos, pc >> /\ pc = "passes"
    BY <1>5 DEF ApplyPass
  <2> HIDE DEF left
  <2>5. DOMAIN data' = DOMAIN data
    BY <2>4
  <2>6. CellsAreCommands'
    <3> SUFFICES ASSUME NEW k \in DOMAIN data PROVE "type" \in DOMAIN data'[k]
      BY <2>5
    <3>1. CASE k \in i .. i + Len(left) - 1
      <4>1. k - i + 1 \in 1 .. Len(left)
        BY <2>1, <3>1 DEF Bounds, TypeOK
      <4> QED
        BY <2>3, <2>4, <3>1, <4>1 DEF IsCommand
    <3>2. CASE k \notin i .. i + Len(left) - 1
      BY <2>4, <3>2 DEF Nop
    <3> QED
      BY <3>1, <3>2
  <2>7. \A n \in 1 .. pos' : ~IsNop(data'[n])
    <3> SUFFICES ASSUME NEW n \in 1 .. pos PROVE ~IsNop(data'[n])
      BY <2>4
    <3>1. n < i /\ n \in DOMAIN data
      BY <2>4 DEF Bounds, TypeOK, WindowInBounds
    <3>2. data'[n] = data[n]
      BY <2>1, <2>4, <3>1 DEF Bounds, TypeOK
    <3> QED
      BY <2>4, <3>2
  <2>8. \A n \in i' .. i' + frame' - 1 : ~IsNop(data'[n])
    <3> SUFFICES ASSUME NEW n \in i .. i + frame' - 1 PROVE ~IsNop(data'[n])
      BY <2>4
    <3>1. frame' <= Len(left) /\ frame' <= frame /\ frame' \in Nat
      BY <2>1, <2>4
    <3>2. n \in DOMAIN data /\ n \in i .. i + Len(left) - 1 /\ n - i + 1 \in 1 .. Len(left)
      BY <2>1, <2>4, <3>1 DEF Bounds, TypeOK, WindowInBounds
    <3> QED
      BY <2>3, <2>4, <3>2 DEF IsCommand
  <2> QED
    BY <2>4, <2>6, <2>7, <2>8
<1>6. CASE KeepFrame
  <2>1. UNCHANGED << count, frame >> /\ pc = "passes" /\ pc' = "scan" /\ KeepCommands(frame)
    BY <1>6 DEF KeepFrame, NoMorePasses
  <2> QED
    BY <2>1, KeptAreCommands DEF Bounds, TypeOK, WindowInBounds
<1>7. CASE KeepCommand
  <2>1. UNCHANGED << count, frame >> /\ pc = "passes" /\ pc' = "scan" /\ KeepCommands(1) /\ ~match
    BY <1>7 DEF KeepCommand, NoMorePasses
  <2>2. frame >= 1
    BY <2>1 DEF Bounds, TypeOK, WindowInBounds
  <2> QED
    BY <2>1, <2>2, KeptAreCommands DEF Bounds, TypeOK, WindowInBounds
<1>8. CASE EndRound
  BY <1>8 DEF EndRound
<1>9. CASE Return
  BY <1>9 DEF Return
<1>10. CASE UNCHANGED vars
  BY <1>10 DEF vars
<1> QED
  BY <1>1, <1>2, <1>3, <1>4, <1>5, <1>6, <1>7, <1>8, <1>9, <1>10 DEF Next

\* Whatever the generator hands over, list->count stays within the array and the indices
\* of the loop within the list.
THEOREM TypeCorrect == Spec => []TypeOK
<1>1. Bounds => TypeOK
  BY DEF Bounds
<1> QED
  BY BoundsInit, BoundsNext, <1>1, PTL DEF Spec

\* No pass is handed a command from behind the end of the list, and no command is written
\* over one that has not been read yet (optimizer.c:474 and 498).
THEOREM WindowsStayInBounds == Spec => []WindowInBounds
<1>1. Bounds => WindowInBounds
  BY DEF Bounds
<1> QED
  BY BoundsInit, BoundsNext, <1>1, PTL DEF Spec

\* A round that has ended has dropped every NOP the passes have put into the list, those
\* of the window it was still looking at included.
THEOREM RoundsEndCompact == Spec => []CompactBetweenRounds
<1>1. Bounds /\ Compact => CompactBetweenRounds
  BY DEF Compact
<1> QED
  BY BoundsInit, BoundsNext, CompactInit, CompactNext, <1>1, PTL DEF Spec

-----------------------------------------------------------------------------
\* What is kept of a list: the lemmas about Only, by induction over sequences.

\* A set with 0 and the successor of each of its numbers has every number.
LEMMA EveryNumber ==
  ASSUME NEW S, 0 \in S, \A n \in Nat : n \in S => n + 1 \in S
  PROVE  Nat \subseteq S
<1> SUFFICES ASSUME Nat \ S # {} PROVE FALSE
  OBVIOUS
<1>1. PICK m \in Nat \ S : \A n \in Nat \ S : << n, m >> \notin OpToRel(<, Nat)
  BY NatLessThanWellFounded, WFMin, Zenon
<1>2. m - 1 \in Nat /\ m - 1 < m /\ m = (m - 1) + 1
  <2>1. m \in Nat /\ m # 0
    OBVIOUS
  <2> QED
    BY <2>1
<1>3. << m - 1, m >> \in OpToRel(<, Nat)
  BY <1>1, <1>2 DEF OpToRel
<1>4. m - 1 \in S
  BY <1>1, <1>2, <1>3, Zenon
<1> QED
  BY <1>1, <1>2, <1>4

\* f holds what Only keeps of the first commands of s.
Keeps(f, s, sort, n) ==
  f = [m \in 0 .. n |-> IF m = 0 THEN << >>
                        ELSE IF IsOf(s[m], sort) THEN Append(f[m - 1], s[m]) ELSE f[m - 1]]

\* The first value of such a function, and how one follows from the one before.
Continues(f, s, sort, n) ==
  /\ f[0] = << >>
  /\ \A m \in 0 .. n - 1 :
       f[m + 1] = IF IsOf(s[m + 1], sort) THEN Append(f[m], s[m + 1]) ELSE f[m]

LEMMA NextKept ==
  ASSUME NEW s, NEW sort, NEW n \in Nat, NEW f, Keeps(f, s, sort, n)
  PROVE  Continues(f, s, sort, n)
<1>1. \A m \in 0 .. n : f[m] = IF m = 0 THEN << >>
                        ELSE IF IsOf(s[m], sort) THEN Append(f[m - 1], s[m]) ELSE f[m - 1]
  BY DEF Keeps
<1>2. ASSUME NEW m \in 0 .. n - 1
      PROVE  f[m + 1] = IF IsOf(s[m + 1], sort) THEN Append(f[m], s[m + 1]) ELSE f[m]
  <2>1. PICK k : k = m + 1
    OBVIOUS
  <2>2. k \in 0 .. n /\ k # 0 /\ k - 1 = m
    BY <2>1
  <2>3. f[k] = IF IsOf(s[k], sort) THEN Append(f[k - 1], s[k]) ELSE f[k - 1]
    BY <1>1, <2>2
  <2> QED
    BY <2>1, <2>2, <2>3
<1> QED
  BY <1>1, <1>2 DEF Continues

\* There is one,
LEMMA KeptExists ==
  ASSUME NEW s, NEW sort, NEW n \in Nat
  PROVE  \E f : Keeps(f, s, sort, n)
<1> DEFINE R == {k \in Nat : \E f : Keeps(f, s, sort, k)}
           Step(f, k) == [m \in 0 .. k |->
                            IF m = 0 THEN << >>
                            ELSE IF IsOf(s[m], sort) THEN Append(f[m - 1], s[m]) ELSE f[m - 1]]
<1>1. 0 \in R
  <2>1. Keeps([m \in 0 .. 0 |-> << >>], s, sort, 0)
    BY DEF Keeps
  <2> QED
    BY <2>1
<1>2. ASSUME NEW k \in Nat, k \in R PROVE k + 1 \in R
  <2>1. PICK f : Keeps(f, s, sort, k)
    BY <1>2
  <2>2. \A m \in 0 .. k : f[m] = IF m = 0 THEN << >>
                          ELSE IF IsOf(s[m], sort) THEN Append(f[m - 1], s[m]) ELSE f[m - 1]
    BY <2>1 DEF Keeps
  <2>3. \A m \in 0 .. k : Step(f, k + 1)[m] = f[m]
    BY <2>2
  <2>4. \A m \in 0 .. k + 1 : m # 0 => m - 1 \in 0 .. k
    OBVIOUS
  <2>5. \A m \in 0 .. k + 1 : m # 0 => Step(f, k + 1)[m - 1] = f[m - 1]
    BY <2>3, <2>4
  <2>6. Keeps(Step(f, k + 1), s, sort, k + 1)
    BY <2>5 DEF Keeps
  <2> QED
    BY <2>6
<1>3. n \in R
  <2> HIDE DEF R
  <2> QED
    BY <1>1, <1>2, EveryNumber
<1> QED
  BY <1>3

\* and Only takes its last value.
LEMMA OnlyIsKept ==
  ASSUME NEW s, NEW sort, Len(s) \in Nat
  PROVE  \E f : Keeps(f, s, sort, Len(s)) /\ Only(s, sort) = f[Len(s)]
<1>1. PICK f : f = CHOOSE g : Keeps(g, s, sort, Len(s))
  OBVIOUS
<1>2. Keeps(f, s, sort, Len(s))
  BY <1>1, KeptExists
<1>3. Only(s, sort) = f[Len(s)]
  BY <1>1 DEF Only, Keeps
<1> QED
  BY <1>2, <1>3

\* Of nothing, nothing is kept;
LEMMA OnlyIsEmpty == ASSUME NEW sort PROVE Only(<< >>, sort) = << >>
<1>1. Len(<< >>) = 0 /\ 0 \in Nat
  OBVIOUS
<1>2. PICK f : Keeps(f, << >>, sort, 0) /\ Only(<< >>, sort) = f[0]
  BY <1>1, OnlyIsKept
<1> QED
  BY <1>2 DEF Keeps

\* and of one command more, that command if it is in S.
LEMMA OnlyAppend ==
  ASSUME NEW X, NEW s \in Seq(X), NEW x \in X, NEW sort
  PROVE  Only(Append(s, x), sort) =
           IF IsOf(x, sort) THEN Append(Only(s, sort), x) ELSE Only(s, sort)
<1> DEFINE t == Append(s, x)
<1>2. /\ Len(s) \in Nat /\ Len(t) = Len(s) + 1
      /\ t[Len(s) + 1] = x /\ \A m \in 1 .. Len(s) : t[m] = s[m]
  OBVIOUS
<1> HIDE DEF t
<1>3. PICK n : n = Len(s)
  OBVIOUS
<1>4. PICK f : Keeps(f, s, sort, n) /\ Only(s, sort) = f[n]
  BY <1>2, <1>3, OnlyIsKept
<1>5. PICK g : Keeps(g, t, sort, n + 1) /\ Only(t, sort) = g[n + 1]
  BY <1>2, <1>3, OnlyIsKept
<1>6. /\ f[0] = << >>
      /\ \A m \in 0 .. n - 1 :
           f[m + 1] = IF IsOf(s[m + 1], sort) THEN Append(f[m], s[m + 1]) ELSE f[m]
  <2>1. n \in Nat
    BY <1>2, <1>3
  <2>2. Continues(f, s, sort, n)
    BY <1>4, <2>1, NextKept
  <2> QED
    BY <2>2 DEF Continues
<1>7. /\ g[0] = << >>
      /\ \A m \in 0 .. n :
           g[m + 1] = IF IsOf(t[m + 1], sort) THEN Append(g[m], t[m + 1]) ELSE g[m]
  <2>1. n + 1 \in Nat /\ n = (n + 1) - 1
    BY <1>2, <1>3
  <2>2. Continues(g, t, sort, n + 1)
    BY <1>5, <2>1, NextKept
  <2> QED
    BY <2>1, <2>2 DEF Continues
<1> DEFINE R == {m \in Nat : m <= n => g[m] = f[m]}
<1>8. 0 \in R
  BY <1>6, <1>7
<1>9. ASSUME NEW m \in Nat, m \in R PROVE m + 1 \in R
  <2> SUFFICES ASSUME m + 1 <= n PROVE g[m + 1] = f[m + 1]
    OBVIOUS
  <2>1. g[m] = f[m] /\ t[m + 1] = s[m + 1] /\ m \in 0 .. n - 1 /\ m \in 0 .. n
    BY <1>2, <1>3, <1>9
  <2> QED
    BY <1>6, <1>7, <2>1
<1>10. Nat \subseteq R
  <2> HIDE DEF R
  <2> QED
    BY <1>8, <1>9, EveryNumber
<1>11. g[n] = f[n]
  BY <1>2, <1>3, <1>10
<1>12. n \in 0 .. n /\ t[n + 1] = x
  BY <1>2, <1>3
<1>13. g[n + 1] = IF IsOf(x, sort) THEN Append(f[n], x) ELSE f[n]
  BY <1>7, <1>11, <1>12
<1>14. Only(t, sort) = IF IsOf(x, sort) THEN Append(Only(s, sort), x) ELSE Only(s, sort)
  BY <1>4, <1>5, <1>13
<1> QED
  BY <1>14 DEF t

\* A set with the empty sequence, and with every sequence one longer than one of its, has
\* every sequence.
LEMMA EverySequence ==
  ASSUME NEW X, NEW Q, << >> \in Q, \A s \in Seq(X), x \in X : s \in Q => Append(s, x) \in Q
  PROVE  Seq(X) \subseteq Q
<1> DEFINE R == {n \in Nat : \A s \in Seq(X) : Len(s) = n => s \in Q}
<1>1. 0 \in R
  OBVIOUS
<1>2. ASSUME NEW n \in Nat, n \in R PROVE n + 1 \in R
  <2> SUFFICES ASSUME NEW s \in Seq(X), Len(s) = n + 1 PROVE s \in Q
    OBVIOUS
  <2> DEFINE u == SubSeq(s, 1, n)
  <2>1. u \in Seq(X) /\ Len(u) = n /\ s[n + 1] \in X /\ s = Append(u, s[n + 1])
    OBVIOUS
  <2> QED
    BY <1>2, <2>1
<1>3. Nat \subseteq R
  <2> HIDE DEF R
  <2> QED
    BY <1>1, <1>2, EveryNumber
<1> QED
  BY <1>3

\* What is kept of commands are commands.
LEMMA OnlyCommands == ASSUME NEW X, NEW sort PROVE \A s \in Seq(X) : Only(s, sort) \in Seq(X)
<1> DEFINE Q == {s \in Seq(X) : Only(s, sort) \in Seq(X)}
<1>1. << >> \in Q
  <2>1. Only(<< >>, sort) = << >> /\ << >> \in Seq(X)
    BY OnlyIsEmpty
  <2> QED
    BY <2>1
<1>2. ASSUME NEW s \in Seq(X), NEW x \in X, s \in Q PROVE Append(s, x) \in Q
  <2>1. Only(Append(s, x), sort) = IF IsOf(x, sort) THEN Append(Only(s, sort), x) ELSE Only(s, sort)
    BY OnlyAppend
  <2> QED
    BY <1>2, <2>1
<1>3. Seq(X) \subseteq Q
  <2> HIDE DEF Q
  <2> QED
    BY <1>1, <1>2, EverySequence
<1> QED
  BY <1>3

\* What is kept of one part and of another.
LEMMA OnlyOfBoth ==
  ASSUME NEW X, NEW a \in Seq(X), NEW sort
  PROVE  \A b \in Seq(X) : Only(a \o b, sort) = Only(a, sort) \o Only(b, sort)
<1> DEFINE Q == {b \in Seq(X) : Only(a \o b, sort) = Only(a, sort) \o Only(b, sort)}
<1>1. << >> \in Q
  <2>1. PICK v : v = Only(a, sort)
    OBVIOUS
  <2>2. v \in Seq(X) /\ a \o << >> = a /\ << >> \in Seq(X)
    BY <2>1, OnlyCommands
  <2>3. v \o << >> = v
    BY <2>2
  <2> QED
    BY <2>1, <2>2, <2>3, OnlyIsEmpty
<1>2. ASSUME NEW b \in Seq(X), NEW x \in X, b \in Q PROVE Append(b, x) \in Q
  <2>1. PICK u, v, w : u = a \o b /\ v = Only(a, sort) /\ w = Only(b, sort)
    OBVIOUS
  <2>2. u \in Seq(X) /\ v \in Seq(X) /\ w \in Seq(X) /\ Only(u, sort) = v \o w
    BY <1>2, <2>1, OnlyCommands
  <2>3. a \o Append(b, x) = Append(u, x)
    BY <2>1
  <2>4. Only(Append(u, x), sort) = IF IsOf(x, sort) THEN Append(v \o w, x) ELSE v \o w
    BY <2>2, OnlyAppend
  <2>5. Only(Append(b, x), sort) = IF IsOf(x, sort) THEN Append(w, x) ELSE w
    BY <2>1, OnlyAppend
  <2>6. v \o Append(w, x) = Append(v \o w, x)
    BY <2>2
  <2>7. Only(a \o Append(b, x), sort) = Only(a, sort) \o Only(Append(b, x), sort)
    <3>1. CASE IsOf(x, sort)
      BY <2>1, <2>3, <2>4, <2>5, <2>6, <3>1
    <3>2. CASE ~IsOf(x, sort)
      BY <2>1, <2>3, <2>4, <2>5, <3>2
    <3> QED
      BY <3>1, <3>2
  <2>8. Append(b, x) \in Seq(X)
    OBVIOUS
  <2> QED
    BY <2>7, <2>8
<1>3. Seq(X) \subseteq Q
  <2> HIDE DEF Q
  <2> QED
    BY <1>1, <1>2, EverySequence
<1> QED
  BY <1>3

\* All of them, or none, or as many as in another set that holds the same of them.
LEMMA OnlyAllOrNone ==
  ASSUME NEW X, NEW sort, NEW sort2
  PROVE  \A s \in Seq(X) :
           /\ (\A n \in DOMAIN s : IsOf(s[n], sort)) => Only(s, sort) = s
           /\ (\A n \in DOMAIN s : ~IsOf(s[n], sort)) => Only(s, sort) = << >>
           /\ (\A n \in DOMAIN s : IsOf(s[n], sort) <=> IsOf(s[n], sort2)) =>
                Only(s, sort) = Only(s, sort2)
<1> DEFINE All(s)  == \A n \in DOMAIN s : IsOf(s[n], sort)
           None(s) == \A n \in DOMAIN s : ~IsOf(s[n], sort)
           Same(s) == \A n \in DOMAIN s : IsOf(s[n], sort) <=> IsOf(s[n], sort2)
           Q == {s \in Seq(X) : /\ All(s) => Only(s, sort) = s
                                /\ None(s) => Only(s, sort) = << >>
                                /\ Same(s) => Only(s, sort) = Only(s, sort2)}
<1>1. << >> \in Q
  BY OnlyIsEmpty
<1>2. ASSUME NEW s \in Seq(X), NEW x \in X, s \in Q PROVE Append(s, x) \in Q
  <2> DEFINE t == Append(s, x)
  <2>1. /\ t \in Seq(X) /\ DOMAIN t = 1 .. Len(s) + 1 /\ t[Len(s) + 1] = x
        /\ DOMAIN s = 1 .. Len(s) /\ \A n \in 1 .. Len(s) : t[n] = s[n]
        /\ Len(s) \in Nat
    OBVIOUS
  <2>2. /\ Only(t, sort) = IF IsOf(x, sort) THEN Append(Only(s, sort), x) ELSE Only(s, sort)
        /\ Only(t, sort2) = IF IsOf(x, sort2) THEN Append(Only(s, sort2), x) ELSE Only(s, sort2)
    BY OnlyAppend
  <2> HIDE DEF t
  <2>3. All(t) => All(s) /\ IsOf(x, sort)
    BY <2>1
  <2>4. None(t) => None(s) /\ ~IsOf(x, sort)
    BY <2>1
  <2>5. Same(t) => Same(s) /\ (IsOf(x, sort) <=> IsOf(x, sort2))
    BY <2>1
  <2> HIDE DEF All, None, Same
  <2>6. All(t) => Only(t, sort) = t
    BY <1>2, <2>2, <2>3 DEF t
  <2>7. None(t) => Only(t, sort) = << >>
    BY <1>2, <2>2, <2>4
  <2>8. Same(t) => Only(t, sort) = Only(t, sort2)
    BY <1>2, <2>2, <2>5
  <2>9. t \in Q
    BY <2>1, <2>6, <2>7, <2>8
  <2> QED
    BY <2>9 DEF t
<1>3. Seq(X) \subseteq Q
  <2> HIDE DEF Q
  <2> QED
    BY <1>1, <1>2, EverySequence
<1> QED
  BY <1>3

-----------------------------------------------------------------------------
\* Stretches of the array, before and after a step of the loop.

\* A list of c commands of X in d, the jth of which is being looked at, n commands from it
\* on, and p of them kept.
InList(X, d, c, j, p, n) ==
  /\ d \in Seq(X) /\ c \in 0 .. Len(d)
  /\ j \in Nat /\ p \in Nat /\ n \in Nat
  /\ p < j /\ j + n <= c + 1

\* The array after KeepCommands(n), and after a pass has left "left" of n commands.
Moved(d, j, p, n) ==
  [k \in DOMAIN d |-> IF k \in p + 1 .. p + n THEN d[j + k - p - 1] ELSE d[k]]

Replaced(d, j, n, left) ==
  [k \in DOMAIN d |-> IF k \in j .. j + Len(left) - 1 THEN left[k - j + 1]
                      ELSE IF k \in j + Len(left) .. j + n - 1 THEN Nop
                      ELSE d[k]]

\* A stretch of a list, cut after its first n commands.
InTwo(X, d, c, j, n) ==
  /\ SubSeq(d, j, c) = SubSeq(d, j, j + n - 1) \o SubSeq(d, j + n, c)
  /\ SubSeq(d, j, c) \in Seq(X)
  /\ SubSeq(d, j, j + n - 1) \in Seq(X) /\ SubSeq(d, j + n, c) \in Seq(X)
  /\ Len(SubSeq(d, j, j + n - 1)) = n
  /\ \A k \in 1 .. n : SubSeq(d, j, j + n - 1)[k] = d[j + k - 1]

LEMMA Parts ==
  ASSUME NEW X, NEW d, NEW c, NEW j, NEW p, NEW n, InList(X, d, c, j, p, n)
  PROVE  InTwo(X, d, c, j, n)
<1> USE DEF InList
<1>1. Len(d) \in Nat /\ \A k \in 1 .. Len(d) : d[k] \in X
  OBVIOUS
<1>2. PICK k : k = j + n - 1
  OBVIOUS
<1>3. /\ j \in 1 .. Len(d) + 1 /\ k \in j - 1 .. Len(d) /\ c \in k .. Len(d) /\ k + 1 = j + n
      /\ j \in Int /\ k \in Int /\ c \in Int /\ k + 1 \in Int
  BY <1>1, <1>2
<1>4. SubSeq(d, j, k) \o SubSeq(d, k + 1, c) = SubSeq(d, j, c)
  BY <1>3, ConcatAdjacentSubSeq
<1>5. /\ SubSeq(d, j, k) \in Seq(X)
      /\ Len(SubSeq(d, j, k)) = IF j <= k THEN k - j + 1 ELSE 0
      /\ \A m \in 1 .. k - j + 1 : SubSeq(d, j, k)[m] = d[j + m - 1]
  BY <1>1, <1>3, SubSeqProperties
<1>6. SubSeq(d, k + 1, c) \in Seq(X)
  BY <1>1, <1>3, SubSeqProperties
<1>7. k - j + 1 = n
  BY <1>2
<1>8. Len(SubSeq(d, j, k)) = n
  BY <1>2, <1>5
<1> QED
  BY <1>2, <1>3, <1>4, <1>5, <1>6, <1>7, <1>8 DEF InTwo

MovedInTwo(X, d, c, j, p, n, e) ==
  /\ e \in Seq(X) /\ Len(e) = Len(d)
  /\ SubSeq(e, 1, p + n) = SubSeq(d, 1, p) \o SubSeq(d, j, j + n - 1)
  /\ SubSeq(e, j + n, c) = SubSeq(d, j + n, c)

\* What n commands of a list, written back in front of where they were read, leave of it.
LEMMA MovedParts ==
  ASSUME NEW X, NEW d, NEW c, NEW j, NEW p, NEW n, InList(X, d, c, j, p, n),
         NEW e, e = Moved(d, j, p, n)
  PROVE  MovedInTwo(X, d, c, j, p, n, e)
<1> USE DEF InList, Moved
<1>1. Len(d) \in Nat /\ DOMAIN d = 1 .. Len(d) /\ \A k \in 1 .. Len(d) : d[k] \in X
  OBVIOUS
<1>2. \A k \in 1 .. Len(d) : e[k] \in X
  BY <1>1
<1>3. e \in Seq(X) /\ Len(e) = Len(d)
  <2>1. e \in [1 .. Len(d) -> X]
    BY <1>1, <1>2
  <2> QED
    BY <1>1, <2>1
<1>4. SubSeq(e, 1, p + n) = SubSeq(d, 1, p) \o SubSeq(d, j, j + n - 1)
  <2> DEFINE a == SubSeq(d, 1, p)
             b == SubSeq(d, j, j + n - 1)
             l == SubSeq(e, 1, p + n)
  <2>1. a \in Seq(X) /\ Len(a) = p /\ \A k \in 1 .. p : a[k] = d[k]
    BY <1>1, SubSeqProperties
  <2>2. b \in Seq(X) /\ Len(b) = n /\ \A k \in 1 .. n : b[k] = d[j + k - 1]
    <3>1. InTwo(X, d, c, j, n)
      BY Parts
    <3> QED
      BY <3>1 DEF InTwo
  <2>3. l \in Seq(X) /\ Len(l) = p + n /\ \A k \in 1 .. p + n : l[k] = e[k]
    BY <1>1, <1>3, SubSeqProperties
  <2> HIDE DEF a, b, l
  <2>4. PICK u : u = a \o b
    OBVIOUS
  <2>5. /\ u \in Seq(X) /\ Len(u) = p + n
        /\ \A k \in 1 .. p + n : u[k] = IF k <= p THEN a[k] ELSE b[k - p]
    <3>1. /\ a \o b \in Seq(X)
          /\ Len(a \o b) = Len(a) + Len(b)
          /\ \A k \in 1 .. Len(a) + Len(b) :
               (a \o b)[k] = IF k <= Len(a) THEN a[k] ELSE b[k - Len(a)]
      BY <2>1, <2>2, ConcatProperties
    <3> QED
      BY <2>1, <2>2, <2>4, <3>1
  <2>6. ASSUME NEW k \in 1 .. p + n PROVE u[k] = l[k]
    <3>1. k \in DOMAIN d /\ l[k] = e[k]
      <4>1. k \in 1 .. Len(d)
        BY <1>1
      <4> QED
        BY <1>1, <2>3, <4>1
    <3>2. CASE k <= p
      <4>1. e[k] = d[k]
        BY <3>1, <3>2
      <4>2. u[k] = d[k]
        BY <2>1, <2>5, <3>2
      <4> QED
        BY <3>1, <4>1, <4>2
    <3>3. CASE k > p
      <4>1. k \in p + 1 .. p + n /\ k - p \in 1 .. n
        BY <3>3
      <4>2. l[k] = d[j + k - p - 1]
        BY <3>1, <4>1
      <4>3. b[k - p] = d[j + (k - p) - 1] /\ j + (k - p) - 1 = j + k - p - 1
        BY <2>2, <4>1
      <4>4. u[k] = b[k - p]
        BY <2>5, <3>3
      <4> QED
        BY <4>2, <4>3, <4>4
    <3> QED
      BY <3>2, <3>3
  <2>7. u = l
    BY <2>3, <2>5, <2>6, SeqEqual
  <2> QED
    BY <2>4, <2>7 DEF a, b, l
<1>5. SubSeq(e, j + n, c) = SubSeq(d, j + n, c)
  <2>1. \A k \in j + n .. c : e[k] = d[k] /\ d[k] \in X
    BY <1>1
  <2> QED
    BY <2>1
<1> QED
  BY <1>3, <1>4, <1>5 DEF MovedInTwo

ReplacedInThree(X, d, c, j, p, n, left, e) ==
  /\ e \in Seq(X) /\ Len(e) = Len(d)
  /\ SubSeq(e, 1, p) = SubSeq(d, 1, p)
  /\ SubSeq(e, j, j + Len(left) - 1) = left
  /\ \A k \in j + Len(left) .. j + n - 1 : e[k] = Nop
  /\ SubSeq(e, j + n, c) = SubSeq(d, j + n, c)

\* What is left of a list in which n commands are replaced, those that are missing by NOPs.
LEMMA ReplacedParts ==
  ASSUME NEW X, NEW d, NEW c, NEW j, NEW p, NEW n, InList(X, d, c, j, p, n),
         NEW left \in Seq(X), Len(left) <= n, Nop \in X,
         NEW e, e = Replaced(d, j, n, left)
  PROVE  ReplacedInThree(X, d, c, j, p, n, left, e)
<1> USE DEF InList, Replaced
<1>1. Len(d) \in Nat /\ DOMAIN d = 1 .. Len(d) /\ \A k \in 1 .. Len(d) : d[k] \in X
  OBVIOUS
<1>2. PICK m : m = Len(left)
  OBVIOUS
<1>3. m \in 0 .. n /\ \A k \in 1 .. m : left[k] \in X
  BY <1>2
<1>4. \A k \in j .. j + m - 1 : k \in 1 .. Len(d) /\ k - j + 1 \in 1 .. m /\ e[k] = left[k - j + 1]
  <2>1. \A k \in j .. j + m - 1 : k \in 1 .. Len(d) /\ k - j + 1 \in 1 .. m
    BY <1>1, <1>3
  <2> QED
    BY <1>1, <1>2, <2>1
<1>5. \A k \in j + m .. j + n - 1 : k \in 1 .. Len(d) /\ e[k] = Nop
  <2>1. \A k \in j + m .. j + n - 1 : k \in 1 .. Len(d) /\ k \notin j .. j + m - 1
    BY <1>1, <1>3
  <2> QED
    BY <1>1, <1>2, <2>1
<1>6. \A k \in 1 .. Len(d) : k \notin j .. j + n - 1 => e[k] = d[k]
  <2>1. \A k \in Nat : k \notin j .. j + n - 1 => /\ k \notin j .. j + m - 1
                                                   /\ k \notin j + m .. j + n - 1
    BY <1>3
  <2> QED
    BY <1>1, <1>2, <2>1
<1>7. e \in Seq(X) /\ Len(e) = Len(d)
  <2>1. \A k \in 1 .. Len(d) : e[k] \in X
    <3>1. \A k \in j .. j + n - 1 : k \in j .. j + m - 1 \/ k \in j + m .. j + n - 1
      BY <1>3
    <3> QED
      BY <1>1, <1>3, <1>4, <1>5, <1>6, <3>1
  <2>2. e \in [1 .. Len(d) -> X]
    BY <1>1, <2>1
  <2> QED
    BY <1>1, <2>2
<1>8. SubSeq(e, 1, p) = SubSeq(d, 1, p)
  <2>1. \A k \in 1 .. p : e[k] = d[k] /\ d[k] \in X
    BY <1>1, <1>6
  <2> QED
    BY <2>1
<1>9. SubSeq(e, j, j + m - 1) = left
  <2>1. PICK l : l = SubSeq(e, j, j + m - 1)
    OBVIOUS
  <2>2. \A k \in j .. j + m - 1 : e[k] \in X
    BY <1>1, <1>4, <1>3
  <2>3. l \in Seq(X) /\ Len(l) = m /\ \A k \in 1 .. m : l[k] = e[j + k - 1]
    BY <1>3, <2>1, <2>2, SubSeqProperties
  <2>4. \A k \in 1 .. m : e[j + k - 1] = left[k]
    <3> TAKE k \in 1 .. m
    <3>1. PICK h : h = j + k - 1
      OBVIOUS
    <3>2. h \in j .. j + m - 1 /\ h - j + 1 = k
      BY <1>3, <3>1
    <3> QED
      BY <1>4, <3>1, <3>2
  <2>5. l = left
    BY <1>2, <2>3, <2>4, SeqEqual
  <2> QED
    BY <2>1, <2>5
<1>10. SubSeq(e, j + n, c) = SubSeq(d, j + n, c)
  <2>1. \A k \in j + n .. c : e[k] = d[k] /\ d[k] \in X
    BY <1>1, <1>6
  <2> QED
    BY <2>1
<1> QED
  BY <1>2, <1>5, <1>7, <1>8, <1>9, <1>10 DEF ReplacedInThree

\* The program while a round is on: the first p commands of an array, and what comes from
\* its jth command on.
LiveOf(d, p, j, c) == SubSeq(d, 1, p) \o Only(SubSeq(d, j, c), "command")

NoNopIn(d, from, to) == \A k \in from .. to : ~IsNop(d[k])

Associate(s, t, u) == (s \o t) \o u = s \o (t \o u)

LEMMA Associative ==
  ASSUME NEW X, NEW s \in Seq(X), NEW t \in Seq(X), NEW u \in Seq(X)
  PROVE  Associate(s, t, u)
BY ConcatAssociative DEF Associate

LEMMA OnlyOfParts ==
  \A X : \A s, t \in Seq(X) : Only(s \o t, "command") = Only(s, "command") \o Only(t, "command")
BY OnlyOfBoth

\* Commands none of which is a NOP all stay.
LEMMA OnlyOfCommands ==
  ASSUME NEW X, NEW s \in Seq(X), \A k \in 1 .. Len(s) : ~IsNop(s[k])
  PROVE  Only(s, "command") = s
<1>1. \A k \in DOMAIN s : IsOf(s[k], "command")
  BY DEF IsOf
<1> QED
  BY <1>1, OnlyAllOrNone

\* NOPs do not.
LEMMA OnlyOfNops ==
  ASSUME NEW X, NEW s \in Seq(X), \A k \in 1 .. Len(s) : IsNop(s[k])
  PROVE  Only(s, "command") = << >>
<1>1. \A k \in DOMAIN s : ~IsOf(s[k], "command")
  BY DEF IsOf
<1> QED
  BY <1>1, OnlyAllOrNone

\* The commands that are read next, none of them a NOP, are the next of the program.
LiveInThree(X, d, c, j, p, n) ==
  /\ LiveOf(d, p, j, c) =
       (SubSeq(d, 1, p) \o SubSeq(d, j, j + n - 1)) \o Only(SubSeq(d, j + n, c), "command")
  /\ SubSeq(d, 1, p) \in Seq(X) /\ Len(SubSeq(d, 1, p)) = p
  /\ SubSeq(d, j, j + n - 1) \in Seq(X) /\ Len(SubSeq(d, j, j + n - 1)) = n
  /\ Only(SubSeq(d, j + n, c), "command") \in Seq(X)

LEMMA ReadOn ==
  ASSUME NEW X, NEW d, NEW c, NEW j, NEW p, NEW n, InList(X, d, c, j, p, n),
         NoNopIn(d, j, j + n - 1)
  PROVE  LiveInThree(X, d, c, j, p, n)
<1>1. PICK a, w, r : a = SubSeq(d, 1, p) /\ w = SubSeq(d, j, j + n - 1) /\ r = SubSeq(d, j + n, c)
  OBVIOUS
<1>2. /\ SubSeq(d, j, c) = w \o r /\ w \in Seq(X) /\ r \in Seq(X)
      /\ Len(w) = n /\ \A k \in 1 .. n : w[k] = d[j + k - 1]
  <2>1. InTwo(X, d, c, j, n)
    BY Parts
  <2> QED
    BY <1>1, <2>1 DEF InTwo
<1>3. a \in Seq(X) /\ Len(a) = p /\ n \in Nat /\ p \in Nat
  <2>1. \A k \in 1 .. p : d[k] \in X
    BY DEF InList
  <2> QED
    BY <1>1, <2>1, SubSeqProperties DEF InList
<1>4. \A k \in 1 .. n : ~IsNop(w[k])
  <2>1. \A k \in 1 .. n : j + k - 1 \in j .. j + n - 1
    BY DEF InList
  <2> QED
    BY <1>2, <2>1 DEF NoNopIn
<1>5. Only(w, "command") = w
  BY <1>2, <1>4, OnlyOfCommands
<1>6. Only(w \o r, "command") = w \o Only(r, "command")
  BY <1>2, <1>5, OnlyOfParts, Zenon
<1>7. PICK b : b = Only(r, "command")
  OBVIOUS
<1>8. b \in Seq(X)
  BY <1>2, <1>7, OnlyCommands
<1>9. Associate(a, w, b)
  BY <1>2, <1>3, <1>8, Associative
<1>10. LiveOf(d, p, j, c) = a \o (w \o b)
  BY <1>1, <1>2, <1>6, <1>7 DEF LiveOf
<1> QED
  BY <1>1, <1>3, <1>7, <1>8, <1>9, <1>10, <1>2 DEF Associate, LiveInThree

\* Writing them back behind those kept leaves the program what it is.
LEMMA KeepingIsSame ==
  ASSUME NEW X, NEW d, NEW c, NEW j, NEW p, NEW n, InList(X, d, c, j, p, n),
         NoNopIn(d, j, j + n - 1),
         NEW e, e = Moved(d, j, p, n)
  PROVE  e \in Seq(X) /\ LiveOf(e, p + n, j + n, c) = LiveOf(d, p, j, c)
<1>1. MovedInTwo(X, d, c, j, p, n, e)
  BY MovedParts
<1>2. LiveInThree(X, d, c, j, p, n)
  BY ReadOn
<1> QED
  BY <1>1, <1>2 DEF LiveOf, MovedInTwo, LiveInThree

\* Skipping a NOP does.
LEMMA SkippingIsSame ==
  ASSUME NEW X, NEW d, NEW c, NEW j, NEW p, InList(X, d, c, j, p, 1), IsNop(d[j])
  PROVE  LiveOf(d, p, j + 1, c) = LiveOf(d, p, j, c)
<1>1. PICK w, r : w = SubSeq(d, j, j + 1 - 1) /\ r = SubSeq(d, j + 1, c)
  OBVIOUS
<1>2. /\ SubSeq(d, j, c) = w \o r /\ w \in Seq(X) /\ r \in Seq(X)
      /\ Len(w) = 1 /\ \A k \in 1 .. 1 : w[k] = d[j + k - 1]
  <2>1. InTwo(X, d, c, j, 1)
    BY Parts
  <2> QED
    BY <1>1, <2>1 DEF InTwo
<1>3. \A k \in 1 .. Len(w) : IsNop(w[k])
  <2>1. j + 1 - 1 = j
    BY DEF InList
  <2> QED
    BY <1>2, <2>1
<1>4. Only(w, "command") = << >>
  BY <1>2, <1>3, OnlyOfNops
<1>5. Only(w \o r, "command") = << >> \o Only(r, "command")
  BY <1>2, <1>4, OnlyOfParts, Zenon
<1>6. PICK b : b = Only(r, "command")
  OBVIOUS
<1>7. b \in Seq(X)
  BY <1>2, <1>6, OnlyCommands
<1>8. << >> \o b = b
  BY <1>7
<1> QED
  BY <1>1, <1>2, <1>5, <1>6, <1>8 DEF LiveOf

RewritesLive(X, d, c, j, p, n, left, e) ==
  /\ e \in Seq(X)
  /\ LiveOf(e, p, j, c) = (SubSeq(d, 1, p) \o left) \o Only(SubSeq(d, j + n, c), "command")

\* Replacing n of them by others, none a NOP, replaces these commands of the program.
LEMMA ReplacingRewrites ==
  ASSUME NEW X, NEW d, NEW c, NEW j, NEW p, NEW n, InList(X, d, c, j, p, n),
         NEW left \in Seq(X), Len(left) <= n, Nop \in X,
         \A k \in 1 .. Len(left) : ~IsNop(left[k]),
         NEW e, e = Replaced(d, j, n, left)
  PROVE  RewritesLive(X, d, c, j, p, n, left, e)
<1>1. PICK m : m = Len(left)
  OBVIOUS
<1>2. m \in 0 .. n /\ n \in Nat /\ j \in Nat
  BY <1>1 DEF InList
<1>3. /\ e \in Seq(X) /\ Len(e) = Len(d)
      /\ SubSeq(e, 1, p) = SubSeq(d, 1, p)
      /\ SubSeq(e, j, j + m - 1) = left
      /\ \A k \in j + m .. j + n - 1 : e[k] = Nop
      /\ SubSeq(e, j + n, c) = SubSeq(d, j + n, c)
  <2>1. ReplacedInThree(X, d, c, j, p, n, left, e)
    BY ReplacedParts
  <2> QED
    BY <1>1, <2>1 DEF ReplacedInThree
<1>4. PICK a, r, z : /\ a = SubSeq(d, 1, p) /\ r = SubSeq(d, j + n, c)
                     /\ z = SubSeq(e, j + m, j + n - 1)
  OBVIOUS
<1>5. /\ z \in Seq(X) /\ r \in Seq(X) /\ Len(z) = n - m
      /\ SubSeq(e, j + m, c) = z \o r
      /\ \A k \in 1 .. n - m : z[k] = e[j + m + k - 1]
  <2>1. PICK h, q : h = j + m /\ q = n - m
    OBVIOUS
  <2>2. InList(X, e, c, h, p, q) /\ h + q = j + n
    BY <1>2, <1>3, <2>1 DEF InList
  <2>3. InTwo(X, e, c, h, q)
    BY <2>2, Parts
  <2>4. z = SubSeq(e, h, h + q - 1) /\ r = SubSeq(e, h + q, c)
    <3>1. h + q - 1 = j + n - 1 /\ h + q = j + n /\ h = j + m
      BY <1>2, <2>1
    <3> QED
      BY <1>3, <1>4, <3>1, Zenon
  <2> QED
    BY <2>1, <2>3, <2>4 DEF InTwo
<1>6. SubSeq(e, j, c) = left \o (z \o r)
  <2>1. InList(X, e, c, j, p, m)
    BY <1>2, <1>3 DEF InList
  <2>2. InTwo(X, e, c, j, m)
    BY <2>1, Parts
  <2> QED
    BY <1>3, <1>5, <2>2 DEF InTwo
<1>7. Only(left, "command") = left
  BY OnlyOfCommands
<1>8. Only(z, "command") = << >>
  <2>1. \A k \in 1 .. n - m : j + m + k - 1 \in j + m .. j + n - 1
    BY <1>2
  <2>2. \A k \in 1 .. Len(z) : z[k] = Nop
    BY <1>3, <1>5, <2>1
  <2>3. IsNop(Nop)
    BY DEF IsNop, Nop
  <2> QED
    BY <1>5, <2>2, <2>3, OnlyOfNops
<1>9. PICK b, t : b = Only(r, "command") /\ t = z \o r
  OBVIOUS
<1>10. b \in Seq(X) /\ t \in Seq(X)
  BY <1>5, <1>9, OnlyCommands
<1>11. Only(t, "command") = b
  <2>1. Only(t, "command") = << >> \o b
    BY <1>5, <1>8, <1>9, OnlyOfParts, Zenon
  <2> QED
    BY <1>10, <2>1
<1>12. Only(left \o t, "command") = left \o b
  BY <1>7, <1>10, <1>11, OnlyOfParts, Zenon
<1>13. a \in Seq(X)
  <2>1. \A k \in 1 .. p : d[k] \in X
    BY DEF InList
  <2> QED
    BY <1>4, <2>1, SubSeqProperties DEF InList
<1>14. Associate(a, left, b)
  BY <1>10, <1>13, Associative
<1>15. LiveOf(e, p, j, c) = a \o (left \o b)
  BY <1>3, <1>4, <1>6, <1>9, <1>12 DEF LiveOf
<1> QED
  BY <1>3, <1>4, <1>9, <1>14, <1>15 DEF Associate, RewritesLive

-----------------------------------------------------------------------------
\* What the passes read and what they write.

\* A pass looks at no command behind its window.
SameTo(k, u, w) == \A m \in 1 .. k : u[m] = w[m]

LEMMA WindowIsEnough ==
  ASSUME NEW p \in Passes, NEW u, NEW w, SameTo(FrameSize[p], u, w)
  PROVE  (Matches(p, u) <=> Matches(p, w)) /\ Rewritten(p, u) = Rewritten(p, w)
<1>1. /\ FrameSize[p] >= 1 => u[1] = w[1]
      /\ FrameSize[p] >= 2 => u[2] = w[2]
      /\ FrameSize[p] >= 3 => u[3] = w[3]
      /\ FrameSize[p] >= 4 => u[4] = w[4]
  BY DEF SameTo, FrameSize, Passes
<1> USE DEF Matches, Rewritten
<1>2. CASE p = 1
  <2>1. u[1] = w[1] /\ u[2] = w[2] /\ u[3] = w[3] /\ u[4] = w[4]
    BY <1>1, <1>2 DEF FrameSize
  <2> QED
    BY <1>2, <2>1 DEF PushPop2Matches, PushPop2
<1>3. CASE p \in {2, 4, 5, 6, 7, 8, 9, 12}
  <2>1. u[1] = w[1] /\ u[2] = w[2]
    BY <1>1, <1>3 DEF FrameSize
  <2>2. (p = 2 => PushPopMatches(u) = PushPopMatches(w)) /\ PushPop(u) = PushPop(w)
    BY <2>1 DEF PushPopMatches, PushPop
  <2>3. (LeaLeaMatches(u) <=> LeaLeaMatches(w)) /\ LeaLea(u) = LeaLea(w)
    BY <2>1 DEF LeaLeaMatches, LeaLea
  <2>4. (LeaMovMatches(u) <=> LeaMovMatches(w)) /\ LeaMov(u) = LeaMov(w)
    BY <2>1 DEF LeaMovMatches, LeaMov
  <2>5. (LeaDerefMatches(u) <=> LeaDerefMatches(w)) /\ LeaDeref(u) = LeaDeref(w)
    BY <2>1 DEF LeaDerefMatches, LeaDeref, ThroughLea, Through
  <2>6. (LeaMovRefMatches(u) <=> LeaMovRefMatches(w)) /\ LeaMovRef(u) = LeaMovRef(w)
    BY <2>1 DEF LeaMovRefMatches, LeaMovRef, ThroughLea, Through
  <2>7. (AddSubMatches(u) <=> AddSubMatches(w)) /\ AddSub(u) = AddSub(w)
    BY <2>1 DEF AddSubMatches, AddSub
  <2>8. (MovMatches(u) <=> MovMatches(w)) /\ Mov(u) = Mov(w)
    BY <2>1 DEF MovMatches, Mov, MovMovMatches, MovTestMatches, MovImulMatches
  <2>9. FstpFldMatches(u) <=> FstpFldMatches(w)
    BY <2>1 DEF FstpFldMatches
  <2> QED
    BY <1>3, <2>2, <2>3, <2>4, <2>5, <2>6, <2>7, <2>8, <2>9
<1>4. CASE p \in {3, 10}
  <2>1. u[1] = w[1]
    BY <1>1, <1>4 DEF FrameSize
  <2> QED
    BY <1>4, <2>1 DEF MovSelfMatches, Imul2Matches, Imul2
<1>5. CASE p \in {11, 13}
  <2>1. u[1] = w[1] /\ u[2] = w[2] /\ u[3] = w[3]
    BY <1>1, <1>5 DEF FrameSize
  <2>2. (IdivMatches(u) <=> IdivMatches(w)) /\ Idiv(u) = Idiv(w)
    BY <2>1 DEF IdivMatches, Idiv
  <2>3. (CondJmpMatches(u) <=> CondJmpMatches(w)) /\ CondJmp(u) = CondJmp(w)
    BY <2>1 DEF CondJmpMatches, CondJmp
  <2> QED
    BY <1>5, <2>2, <2>3
<1> QED
  BY <1>2, <1>3, <1>4, <1>5 DEF Passes

\* No pass accepts a window with a line of text in it,
LEMMA NoTextMatched ==
  ASSUME NEW p \in Passes, NEW w, Matches(p, w)
  PROVE  \A m \in 1 .. FrameSize[p] : ~IsText(w[m])
<1> USE DEF Is, IsText
<1>1. CASE p = 1
  <2>1. PushPop2Matches(w) /\ FrameSize[p] = 4
    BY <1>1 DEF Matches, FrameSize
  <2>2. w[1].type # "text" /\ w[2].type # "text" /\ w[3].type # "text" /\ w[4].type # "text"
    BY <2>1 DEF PushPop2Matches, PushPopPossible
  <2> QED
    BY <2>1, <2>2
<1>2. CASE p \in {2, 4, 5, 6, 7, 8, 9, 12}
  <2>1. FrameSize[p] = 2
    BY <1>2 DEF FrameSize
  <2>2. w[1].type # "text" /\ w[2].type # "text"
    BY <1>2 DEF Matches, PushPopMatches, PushPopPossible, LeaLeaMatches, LeaMovMatches,
                LeaDerefMatches, LeaMovRefMatches, AddSubMatches, MovMatches, MovMovMatches,
                MovTestMatches, MovImulMatches, FstpFldMatches
  <2> QED
    BY <2>1, <2>2
<1>3. CASE p \in {3, 10}
  <2>1. FrameSize[p] = 1 /\ w[1].type # "text"
    BY <1>3 DEF FrameSize, Matches, MovSelfMatches, Imul2Matches
  <2> QED
    BY <2>1
<1>4. CASE p \in {11, 13}
  <2>1. FrameSize[p] = 3
    BY <1>4 DEF FrameSize
  <2>2. w[1].type # "text" /\ w[2].type # "text" /\ w[3].type # "text"
    BY <1>4 DEF Matches, IdivMatches, CondJmpMatches, JumpOf
  <2> QED
    BY <2>1, <2>2
<1> QED
  BY <1>1, <1>2, <1>3, <1>4 DEF Passes

\* and none writes one.
LEMMA NoTextWritten ==
  ASSUME NEW p \in Passes, NEW w, Matches(p, w), "type" \in DOMAIN w[1]
  PROVE  \A n \in 1 .. Len(Rewritten(p, w)) : ~IsText(Rewritten(p, w)[n])
<1> DEFINE NoText(s) == \A n \in 1 .. Len(s) : ~IsText(s[n])
<1>1. NoText(<< >>)
  OBVIOUS
<1>2. ASSUME NEW c, ~IsText(c) PROVE NoText(<< c >>)
  BY <1>2
<1>3. ASSUME NEW type, NEW ops, type # "text" PROVE NoText(<< Cmd(type, ops) >>)
  BY <1>3 DEF Cmd, IsText
<1>4. NoText(PushPop2(w))
  <2>1. \A x, y : ~IsText(Cmd("mov", x)) /\ ~IsText(Cmd("mov", y))
    BY DEF Cmd, IsText
  <2> QED
    BY <2>1 DEF PushPop2
<1>5. NoText(PushPop(w)) /\ NoText(LeaMovRef(w)) /\ NoText(Imul2(w)) /\ NoText(Idiv(w))
  <2> HIDE DEF NoText
  <2> QED
    BY <1>3 DEF PushPop, LeaMovRef, Imul2, Idiv
<1>6. p \in {4, 5} => NoText(Rewritten(p, w))
  <2> SUFFICES ASSUME p \in {4, 5} PROVE NoText(Rewritten(p, w))
    OBVIOUS
  <2>1. w[1].type = "lea"
    BY DEF Matches, LeaLeaMatches, LeaMovMatches, Is
  <2>2. ~IsText([w[1] EXCEPT !.ops[2].offset = @ + w[2].ops[2].offset])
    BY <2>1 DEF IsText
  <2>3. ~IsText([w[1] EXCEPT !.ops[1] = w[2].ops[1]])
    BY <2>1 DEF IsText
  <2>4. Rewritten(p, w) \in {LeaLea(w), LeaMov(w)}
    BY DEF Rewritten
  <2> HIDE DEF NoText
  <2>5. NoText(LeaLea(w)) /\ NoText(LeaMov(w))
    BY <1>2, <2>2, <2>3 DEF LeaLea, LeaMov
  <2> QED
    BY <2>4, <2>5
<1>7. p = 6 => NoText(Rewritten(p, w))
  <2> SUFFICES ASSUME p = 6 PROVE NoText(Rewritten(p, w))
    OBVIOUS
  <2>1. w[2].type # "text" /\ Rewritten(p, w) = LeaDeref(w)
    BY DEF Matches, Rewritten, LeaDerefMatches, Is
  <2> HIDE DEF NoText
  <2> QED
    BY <1>3, <2>1 DEF LeaDeref
<1>8. NoText(AddSub(w))
  <2> HIDE DEF NoText
  <2> QED
    BY <1>1, <1>3 DEF AddSub
<1>9. p = 9 => NoText(Mov(w))
  <2> SUFFICES ASSUME p = 9 PROVE NoText(Mov(w))
    OBVIOUS
  <2>1. w[1].type = "mov"
    BY DEF Matches, MovMatches, Is
  <2>2. ~IsText([w[1] EXCEPT !.ops[1] = w[2].ops[1]])
    BY <2>1 DEF IsText
  <2> HIDE DEF NoText
  <2> QED
    BY <1>2, <1>3, <2>2 DEF Mov
<1>10. p = 13 => NoText(CondJmp(w))
  <2> SUFFICES ASSUME p = 13 PROVE NoText(CondJmp(w))
    OBVIOUS
  <2> DEFINE jump == JumpOf[w[1].type]
             type == IF w[3].type = "jz" THEN InvertInstruction[jump] ELSE jump
  <2>1. jump \in {"je", "jne", "jle", "jl", "jge", "jg"}
    BY DEF Matches, CondJmpMatches, JumpOf
  <2>2. type # "text"
    BY <2>1 DEF InvertInstruction
  <2>3. CondJmp(w) = << Cmd(type, w[3].ops) >>
    BY DEF CondJmp
  <2> HIDE DEF NoText, type
  <2> QED
    BY <1>3, <2>2, <2>3
<1>11. NoText(Rewritten(p, w))
  <2> HIDE DEF NoText
  <2>1. p \in 1 .. 13
    BY DEF Passes
  <2>2. CASE p \in {1, 2, 3, 7, 10, 11, 12}
    BY <1>1, <1>4, <1>5, <2>2 DEF Rewritten
  <2>3. CASE p \in {4, 5, 6}
    BY <1>6, <1>7, <2>3
  <2>4. CASE p \in {8, 9, 13}
    BY <1>8, <1>9, <1>10, <2>4 DEF Rewritten
  <2> QED
    BY <2>1, <2>2, <2>3, <2>4
<1> QED
  BY <1>11

\* No more commands are kept than there are.
LEMMA OnlyIsShorter ==
  ASSUME NEW X, NEW sort
  PROVE  \A s \in Seq(X) : Len(Only(s, sort)) \in 0 .. Len(s)
<1> DEFINE Q == {s \in Seq(X) : Len(Only(s, sort)) \in 0 .. Len(s)}
<1>1. << >> \in Q
  <2>1. Only(<< >>, sort) = << >> /\ << >> \in Seq(X)
    BY OnlyIsEmpty
  <2> QED
    BY <2>1
<1>2. ASSUME NEW s \in Seq(X), NEW x \in X, s \in Q PROVE Append(s, x) \in Q
  <2>1. PICK t, v : t = Append(s, x) /\ v = Only(s, sort)
    OBVIOUS
  <2>2. t \in Seq(X) /\ Len(t) = Len(s) + 1 /\ Len(s) \in Nat
    BY <2>1
  <2>3. v \in Seq(X) /\ Len(v) \in 0 .. Len(s)
    BY <1>2, <2>1, OnlyCommands
  <2>4. Only(t, sort) = IF IsOf(x, sort) THEN Append(v, x) ELSE v
    BY <2>1, OnlyAppend
  <2>5. Len(Append(v, x)) = Len(v) + 1
    BY <2>3
  <2>6. Len(Only(t, sort)) \in 0 .. Len(t)
    BY <2>2, <2>3, <2>4, <2>5
  <2> QED
    BY <2>1, <2>2, <2>6
<1>3. Seq(X) \subseteq Q
  <2> HIDE DEF Q
  <2> QED
    BY <1>1, <1>2, EverySequence
<1> QED
  BY <1>3

\* What a pass leaves is less than half as many commands again; only the tenth leaves as
\* many as it was given, and an imul2 less.
LEMMA PassShrinks ==
  ASSUME NEW X, NEW p \in Passes, NEW w \in Seq(X), Len(w) = FrameSize[p], Matches(p, w),
         NEW left \in Seq(X), left = Rewritten(p, w)
  PROVE  2 * Len(left) + Len(Only(left, "imul2")) < 2 * Len(w) + Len(Only(w, "imul2"))
<1>1. Len(Only(left, "imul2")) \in 0 .. Len(left) /\ Len(Only(w, "imul2")) \in 0 .. Len(w)
  BY OnlyIsShorter
<1>2. Len(left) \in Nat /\ Len(w) \in Nat
  OBVIOUS
<1>3. CASE p = 10
  <2>1. left = Imul2(w) /\ Len(w) = 1 /\ w[1].type = "imul2"
    BY <1>3 DEF Rewritten, FrameSize, Matches, Imul2Matches, Is
  <2>2. Len(left) = 1 /\ left[1].type = "shl"
    BY <2>1 DEF Imul2, Cmd
  <2>3. \A n \in DOMAIN left : ~IsOf(left[n], "imul2")
    BY <2>2 DEF IsOf
  <2>4. \A n \in DOMAIN w : IsOf(w[n], "imul2")
    BY <2>1 DEF IsOf
  <2>5. Only(left, "imul2") = << >> /\ Only(w, "imul2") = w
    BY <2>3, <2>4, OnlyAllOrNone
  <2>6. Len(<< >>) = 0
    OBVIOUS
  <2> QED
    BY <2>1, <2>2, <2>5, <2>6
<1>4. CASE p # 10
  <2>1. 3 * Len(left) < 2 * Len(w)
    <3>1. \A x, y : Len(<< >>) = 0 /\ Len(<<x>>) = 1 /\ Len(<<x, y>>) = 2
      OBVIOUS
    <3>2. CASE p = 1
      <4>1. left = PushPop2(w) /\ Len(w) = 4
        BY <3>2 DEF Rewritten, FrameSize
      <4> QED
        BY <3>1, <4>1 DEF PushPop2
    <3>3. CASE p \in {3, 12}
      <4>1. left = << >> /\ Len(w) >= 1
        BY <3>3 DEF Rewritten, FrameSize
      <4> QED
        BY <1>2, <3>1, <4>1
    <3>4. CASE p \notin {1, 3, 10, 12}
      <4>1. Len(w) >= 2
        BY <3>4 DEF FrameSize, Passes
      <4>2. left \in {PushPop(w), LeaLea(w), LeaMov(w), LeaDeref(w), LeaMovRef(w),
                      AddSub(w), Mov(w), Idiv(w), CondJmp(w)}
        BY <3>4 DEF Rewritten, Passes
      <4>3. Len(PushPop(w)) = 1 /\ Len(LeaLea(w)) = 1 /\ Len(LeaMov(w)) = 1
        BY <3>1 DEF PushPop, LeaLea, LeaMov
      <4>4. Len(LeaDeref(w)) = 1 /\ Len(LeaMovRef(w)) = 1 /\ Len(Idiv(w)) = 1
        BY <3>1 DEF LeaDeref, LeaMovRef, Idiv
      <4>5. Len(AddSub(w)) \in {0, 1}
        BY <3>1 DEF AddSub
      <4>6. Len(Mov(w)) = 1
        BY <3>1 DEF Mov
      <4>7. Len(CondJmp(w)) = 1
        BY <3>1 DEF CondJmp
      <4>8. Len(left) \in {0, 1}
        BY <4>2, <4>3, <4>4, <4>5, <4>6, <4>7
      <4>9. \A m \in {0, 1}, n \in Nat : n >= 2 => 3 * m < 2 * n
        OBVIOUS
      <4> QED
        BY <1>2, <4>1, <4>8, <4>9, Zenon
    <3> QED
      BY <1>4, <3>2, <3>3, <3>4
  <2> QED
    BY <1>1, <1>2, <2>1
<1> QED
  BY <1>3, <1>4

-----------------------------------------------------------------------------
\* The program through a step of the loop.

\* The array is a sequence of commands.
ArrayIsList == \E X : data \in Seq(X)

LEMMA ArrayInit == Init => ArrayIsList
  BY InputsAssumption DEF Init, ArrayIsList

\* The state of the loop, while a round is on.
LEMMA LoopIsInList ==
  ASSUME Bounds, NEW X, data \in Seq(X), NEW n \in Nat, i + n <= count + 1
  PROVE  InList(X, data, count, i, pos, n)
<1>1. count \in 0 .. Len(data)
  <2>1. DOMAIN data = 1 .. Len(data) /\ Len(data) \in Nat
    OBVIOUS
  <2>2. count \in Nat /\ 1 .. count \subseteq 1 .. Len(data)
    BY <2>1 DEF Bounds, TypeOK
  <2>3. count # 0 => count \in 1 .. count
    BY <2>2
  <2> QED
    BY <2>1, <2>2, <2>3
<1> QED
  BY <1>1 DEF InList, Bounds, TypeOK, WindowInBounds

LEMMA LiveWithin ==
  ASSUME pc \in {"scan", "passes"}
  PROVE  Live = LiveOf(data, pos, i, count)
BY DEF Live, LiveOf

LEMMA LiveWithinNext ==
  ASSUME pc' \in {"scan", "passes"}
  PROVE  Live' = LiveOf(data', pos', i', count')
BY DEF Live, LiveOf

\* Keeping commands that are not NOPs leaves the program what it is.
LEMMA KeepCommandsKeepsLive ==
  ASSUME Bounds, ArrayIsList, pc \in {"scan", "passes"}, pc' = "scan",
         NEW n \in Nat, KeepCommands(n), i + n <= count + 1, count' = count,
         NoNopIn(data, i, i + n - 1)
  PROVE  ArrayIsList' /\ Live' = Live
<1>1. PICK X : data \in Seq(X)
  BY DEF ArrayIsList
<1>2. InList(X, data, count, i, pos, n)
  BY <1>1, LoopIsInList
<1>3. data' = Moved(data, i, pos, n) /\ pos' = pos + n /\ i' = i + n
  BY DEF KeepCommands, Moved
<1>4. data' \in Seq(X) /\ LiveOf(data', pos + n, i + n, count) = LiveOf(data, pos, i, count)
  BY <1>2, <1>3, KeepingIsSame
<1>5. Live' = LiveOf(data', pos', i', count') /\ Live = LiveOf(data, pos, i, count)
  BY LiveWithin, LiveWithinNext
<1> QED
  BY <1>3, <1>4, <1>5 DEF ArrayIsList

\* No step but that of a pass changes the program.
LEMMA OthersKeepLive ==
  ASSUME Bounds, Compact, ArrayIsList, [Next]_vars, ~\E p \in Passes : ApplyPass(p)
  PROVE  ArrayIsList' /\ Live' = Live
<1>1. PICK X : data \in Seq(X)
  BY DEF ArrayIsList
<1>2. CASE StartRound
  <2>1. /\ pc = "while" /\ pc' = "scan" /\ pos' = 0 /\ i' = 1
        /\ UNCHANGED << data, count >>
    BY <1>2 DEF StartRound
  <2>2. PICK s : s = SubSeq(data, 1, count)
    OBVIOUS
  <2>3. s \in Seq(X) /\ \A k \in 1 .. Len(s) : ~IsNop(s[k])
    <3>1. count \in Nat /\ 1 .. count \subseteq DOMAIN data
      BY DEF Bounds, TypeOK
    <3>2. \A k \in 1 .. count : data[k] \in X
      BY <1>1, <3>1
    <3>3. s \in Seq(X) /\ Len(s) = count /\ \A k \in 1 .. count : s[k] = data[k]
      BY <2>2, <3>1, <3>2, SubSeqProperties
    <3> QED
      BY <2>1, <3>3 DEF Compact, CompactBetweenRounds
  <2>4. Only(s, "command") = s
    BY <2>3, OnlyOfCommands
  <2>5. SubSeq(data, 1, 0) = << >>
    BY SubSeqEmpty
  <2>6. Live = s /\ Live' = << >> \o s
    BY <2>1, <2>2, <2>4, <2>5 DEF Live
  <2>7. << >> \o s = s
    BY <2>3
  <2> QED
    BY <1>1, <2>1, <2>6, <2>7 DEF ArrayIsList
<1>3. CASE KeepText
  <2>1. NoNopIn(data, i, i + 1 - 1)
    <3>1. ~IsNop(data[i]) /\ i + 1 - 1 = i
      BY <1>3 DEF KeepText, IsText, IsNop, Bounds, TypeOK
    <3> QED
      BY <3>1 DEF NoNopIn, Bounds, TypeOK
  <2> QED
    BY <1>3, <2>1, KeepCommandsKeepsLive DEF KeepText, Bounds, TypeOK
<1>4. CASE SkipNop
  <2>1. i + 1 <= count + 1
    BY <1>4 DEF SkipNop, Bounds, TypeOK
  <2>2. InList(X, data, count, i, pos, 1)
    BY <1>1, <2>1, LoopIsInList
  <2>3. LiveOf(data, pos, i + 1, count) = LiveOf(data, pos, i, count)
    BY <1>4, <2>2, SkippingIsSame DEF SkipNop
  <2>4. Live' = LiveOf(data', pos', i', count') /\ Live = LiveOf(data, pos, i, count)
    BY <1>4, LiveWithin, LiveWithinNext DEF SkipNop
  <2> QED
    BY <1>1, <1>4, <2>3, <2>4 DEF SkipNop, ArrayIsList
<1>5. CASE OpenFrame
  BY <1>1, <1>5, LiveWithin, LiveWithinNext DEF OpenFrame, ArrayIsList
<1>6. CASE KeepFrame
  <2>1. UNCHANGED << count, frame >> /\ pc = "passes" /\ pc' = "scan" /\ KeepCommands(frame)
    BY <1>6 DEF KeepFrame, NoMorePasses
  <2>2. NoNopIn(data, i, i + frame - 1) /\ frame \in Nat /\ i + frame <= count + 1
    BY <2>1 DEF NoNopIn, Compact, NoNopKept, Bounds, TypeOK, WindowInBounds, MaxFrameSize
  <2> QED
    BY <2>1, <2>2, KeepCommandsKeepsLive
<1>7. CASE KeepCommand
  <2>1. UNCHANGED << count, frame >> /\ pc = "passes" /\ pc' = "scan" /\ KeepCommands(1) /\ ~match
    BY <1>7 DEF KeepCommand, NoMorePasses
  <2>2. NoNopIn(data, i, i + 1 - 1) /\ i + 1 <= count + 1
    BY <2>1 DEF NoNopIn, Compact, NoNopKept, Bounds, TypeOK, WindowInBounds, MaxFrameSize
  <2> QED
    BY <2>1, <2>2, KeepCommandsKeepsLive
<1>8. CASE EndRound
  <2>1. i = count + 1 /\ pc = "scan" /\ count' = pos /\ pc' = "while" /\ data' = data
    BY <1>8 DEF EndRound, Bounds, TypeOK, WindowInBounds
  <2>2. Only(SubSeq(data, i, count), "command") = << >>
    <3>1. SubSeq(data, i, count) = << >>
      BY <2>1, SubSeqEmpty DEF Bounds, TypeOK
    <3> QED
      BY <3>1, OnlyIsEmpty
  <2>3. PICK a : a = SubSeq(data, 1, pos)
    OBVIOUS
  <2>4. a \o << >> = a
    <3>1. InList(X, data, count, i, pos, 0)
      BY <1>1, <2>1, LoopIsInList DEF Bounds, TypeOK
    <3>2. \A k \in 1 .. pos : data[k] \in X
      BY <3>1 DEF InList
    <3>3. a \in Seq(X)
      BY <2>3, <3>2, SubSeqProperties DEF Bounds, TypeOK
    <3> QED
      BY <3>3
  <2>5. Live = a \o << >> /\ Live' = a
    BY <2>1, <2>2, <2>3 DEF Live
  <2> QED
    BY <1>1, <2>1, <2>4, <2>5 DEF ArrayIsList
<1>9. CASE Return
  BY <1>1, <1>9 DEF Return, Live, ArrayIsList
<1>10. CASE UNCHANGED vars
  BY <1>1, <1>10 DEF vars, Live, ArrayIsList
<1> QED
  BY <1>2, <1>3, <1>4, <1>5, <1>6, <1>7, <1>8, <1>9, <1>10 DEF Next

\* A program in which the window behind the first k commands is rewritten by pass p.
WindowIn(X, p, k, a, w, left, b, before, after) ==
  /\ a \in Seq(X) /\ w \in Seq(X) /\ left \in Seq(X) /\ b \in Seq(X)
  /\ before = (a \o w) \o b /\ after = (a \o left) \o b
  /\ Len(a) = k /\ Len(w) = FrameSize[p]
  /\ Matches(p, w) /\ left = Rewritten(p, w)
  /\ "type" \in DOMAIN w[1]

\* What a pass leaves is a sequence.
IsSequence(s) == \E X : s \in Seq(X)

LEMMA RewrittenIsSequence ==
  ASSUME NEW p \in Passes, NEW w
  PROVE  IsSequence(Rewritten(p, w))
<1>1. ASSUME NEW c, NEW d
      PROVE  IsSequence(<< >>) /\ IsSequence(<< c >>) /\ IsSequence(<< c, d >>)
  <2>1. << >> \in Seq({c}) /\ << c >> \in Seq({c}) /\ << c, d >> \in Seq({c, d})
    OBVIOUS
  <2> QED
    BY <2>1 DEF IsSequence
<1>2. IsSequence(PushPop2(w)) /\ IsSequence(PushPop(w)) /\ IsSequence(LeaLea(w))
  BY <1>1 DEF PushPop2, PushPop, LeaLea
<1>3. IsSequence(LeaMov(w)) /\ IsSequence(LeaDeref(w)) /\ IsSequence(LeaMovRef(w))
  BY <1>1 DEF LeaMov, LeaDeref, LeaMovRef
<1>4. IsSequence(AddSub(w)) /\ IsSequence(Mov(w)) /\ IsSequence(Imul2(w))
  BY <1>1 DEF AddSub, Mov, Imul2
<1>5. IsSequence(Idiv(w)) /\ IsSequence(CondJmp(w))
  BY <1>1 DEF Idiv, CondJmp
<1>6. Rewritten(p, w) \in {<< >>, PushPop2(w), PushPop(w), LeaLea(w), LeaMov(w), LeaDeref(w),
                          LeaMovRef(w), AddSub(w), Mov(w), Imul2(w), Idiv(w), CondJmp(w)}
  BY DEF Rewritten, Passes
<1> QED
  BY <1>1, <1>2, <1>3, <1>4, <1>5, <1>6

\* A step of a pass rewrites the window behind the commands that are kept.
LEMMA ApplyPassRewrites ==
  ASSUME Bounds, Compact, ArrayIsList, NEW p \in Passes, ApplyPass(p)
  PROVE  /\ ArrayIsList'
         /\ \E X, a, w, left, b : WindowIn(X, p, pos, a, w, left, b, Live, Live')
<1>1. PICK Y : data \in Seq(Y)
  BY DEF ArrayIsList
<1>2. PICK n, left : n = FrameSize[p] /\ left = Rewritten(p, Window)
  OBVIOUS
<1>3. /\ pc = "passes" /\ UNCHANGED << count, i, pos, pc >>
      /\ Applicable(p)
      /\ data' = Replaced(data, i, n, left)
  BY <1>2 DEF ApplyPass, Replaced
<1>4. n \in 1 .. 4 /\ frame \in Nat /\ n <= frame /\ i + frame <= count + 1 /\ i \in Nat
  BY <1>2, <1>3 DEF Applicable, FrameSize, Passes, Bounds, TypeOK, WindowInBounds, MaxFrameSize
<1>5. Len(left) \in 0 .. n
  BY <1>2, RewrittenFits
<1>6. Window[1] = data[i] /\ IsCommand(data[i])
  <2>1. Window[1] = data[i]
    BY <1>4 DEF Window, Bounds, TypeOK
  <2>2. i \in DOMAIN data /\ i \in i .. i + frame - 1
    BY <1>3, <1>4 DEF Bounds, TypeOK, WindowInBounds
  <2> QED
    BY <1>3, <2>1, <2>2 DEF IsCommand, Compact, CellsAreCommands, NoNopKept
<1>7. \A k \in 1 .. Len(left) : IsCommand(left[k])
  <2>1. Matches(p, Window) /\ IsCommand(Window[1])
    BY <1>3, <1>6 DEF Applicable
  <2> QED
    BY <1>2, <2>1, RewrittenIsCommands
<1>8. PICK X : data \in Seq(X) /\ left \in Seq(X) /\ Nop \in X
  <2>1. PICK Z : left \in Seq(Z)
    BY <1>2, RewrittenIsSequence DEF IsSequence
  <2>2. PICK U : U = Y \cup Z \cup {Nop}
    OBVIOUS
  <2>3. Y \subseteq U /\ Z \subseteq U /\ Nop \in U
    BY <2>2
  <2>4. data \in Seq(U) /\ left \in Seq(U)
    BY <1>1, <2>1, <2>3, SeqMonotonic
  <2> QED
    BY <2>3, <2>4
<1>9. InList(X, data, count, i, pos, n)
  <2>1. n \in Nat /\ i + n <= count + 1
    BY <1>4 DEF Bounds, TypeOK
  <2> QED
    BY <1>8, <2>1, LoopIsInList
<1>10. NoNopIn(data, i, i + n - 1)
  BY <1>3, <1>4 DEF NoNopIn, Compact, NoNopKept
<1>11. LiveInThree(X, data, count, i, pos, n)
  BY <1>9, <1>10, ReadOn
<1>12. \A k \in 1 .. Len(left) : ~IsNop(left[k])
  BY <1>7 DEF IsCommand
<1>13. /\ data' \in Seq(X)
       /\ LiveOf(data', pos, i, count) =
            (SubSeq(data, 1, pos) \o left) \o Only(SubSeq(data, i + n, count), "command")
  <2>1. Len(left) <= n
    BY <1>4, <1>5
  <2>2. RewritesLive(X, data, count, i, pos, n, left, data')
    BY <1>3, <1>8, <1>9, <1>12, <2>1, ReplacingRewrites
  <2> QED
    BY <2>2 DEF RewritesLive
<1>14. PICK a, w, b : /\ a = SubSeq(data, 1, pos)
                      /\ w = SubSeq(data, i, i + n - 1)
                      /\ b = Only(SubSeq(data, i + n, count), "command")
  OBVIOUS
<1>15. /\ Live = (a \o w) \o b /\ Live' = (a \o left) \o b
       /\ a \in Seq(X) /\ w \in Seq(X) /\ b \in Seq(X) /\ Len(a) = pos /\ Len(w) = n
  <2>1. Live = LiveOf(data, pos, i, count) /\ Live' = LiveOf(data', pos, i, count)
    BY <1>3, LiveWithin, LiveWithinNext
  <2> QED
    BY <1>11, <1>13, <1>14, <2>1 DEF LiveInThree
<1>16. \A m \in 1 .. n : w[m] = data[i + m - 1] /\ Window[m] = data[i + m - 1]
  <2>1. \A m \in 1 .. n : w[m] = data[i + m - 1]
    <3>1. InTwo(X, data, count, i, n)
      BY <1>9, Parts
    <3> QED
      BY <1>14, <3>1 DEF InTwo
  <2>2. \A m \in 1 .. n : Window[m] = data[i + m - 1]
    BY <1>4 DEF Window
  <2> QED
    BY <2>1, <2>2
<1>17. SameTo(FrameSize[p], w, Window)
  BY <1>2, <1>16 DEF SameTo
<1>18. Matches(p, w) /\ left = Rewritten(p, w)
  <2>1. Matches(p, Window)
    BY <1>3 DEF Applicable
  <2> QED
    BY <1>2, <1>17, <2>1, WindowIsEnough
<1>19. "type" \in DOMAIN w[1]
  <2>1. w[1] = data[i + 1 - 1] /\ i + 1 - 1 = i
    BY <1>4, <1>16
  <2> QED
    BY <1>6, <2>1 DEF IsCommand
<1>20. WindowIn(X, p, pos, a, w, left, b, Live, Live')
  BY <1>2, <1>8, <1>15, <1>18, <1>19 DEF WindowIn
<1> QED
  BY <1>13, <1>20 DEF ArrayIsList

-----------------------------------------------------------------------------
\* The action properties.

\* What is kept of three parts, and how much.
OnlyInThree(s, a, w, b, sort) ==
  /\ Only(s, sort) = (Only(a, sort) \o Only(w, sort)) \o Only(b, sort)
  /\ Len(Only(s, sort)) = Len(Only(a, sort)) + Len(Only(w, sort)) + Len(Only(b, sort))
  /\ Len(s) = Len(a) + Len(w) + Len(b)

OnlyInTwo(s, a, b, sort) == Only(s, sort) = Only(a, sort) \o Only(b, sort)

LEMMA OnlyOfTwo ==
  ASSUME NEW X, NEW a \in Seq(X), NEW b \in Seq(X), NEW sort, NEW s, s = a \o b
  PROVE  OnlyInTwo(s, a, b, sort)
<1>1. \A t \in Seq(X) : Only(a \o t, sort) = Only(a, sort) \o Only(t, sort)
  BY OnlyOfBoth
<1> QED
  BY <1>1 DEF OnlyInTwo

LEMMA OnlyOfThree ==
  ASSUME NEW X, NEW a \in Seq(X), NEW w \in Seq(X), NEW b \in Seq(X), NEW sort,
         NEW s, s = (a \o w) \o b
  PROVE  OnlyInThree(s, a, w, b, sort)
<1>1. PICK h : h = a \o w
  OBVIOUS
<1>2. h \in Seq(X) /\ Len(h) = Len(a) + Len(w) /\ Len(s) = Len(h) + Len(b)
  BY <1>1
<1>3. PICK u, v, z : u = Only(a, sort) /\ v = Only(w, sort) /\ z = Only(b, sort)
  OBVIOUS
<1>4. u \in Seq(X) /\ v \in Seq(X) /\ z \in Seq(X)
  BY <1>3, OnlyCommands
<1>5. OnlyInTwo(h, a, w, sort) /\ OnlyInTwo(s, h, b, sort)
  BY <1>1, <1>2, OnlyOfTwo
<1>6. Only(s, sort) = (u \o v) \o z
  BY <1>3, <1>5 DEF OnlyInTwo
<1>7. Len((u \o v) \o z) = Len(u) + Len(v) + Len(z)
  BY <1>4
<1>8. Len(s) = Len(a) + Len(w) + Len(b)
  BY <1>2
<1> QED
  BY <1>3, <1>6, <1>7, <1>8 DEF OnlyInThree

\* A rewriting keeps the lines of text, and makes the program smaller.
LEMMA RewritingKeepsLines ==
  ASSUME NEW X, NEW p \in Passes, NEW k, NEW a, NEW w, NEW left, NEW b, NEW before, NEW after,
         WindowIn(X, p, k, a, w, left, b, before, after)
  PROVE  Only(after, "text") = Only(before, "text")
<1> USE DEF WindowIn
<1>1. Only(w, "text") = << >>
  <2>1. \A n \in DOMAIN w : ~IsOf(w[n], "text")
    BY NoTextMatched DEF IsOf, IsText
  <2> QED
    BY <2>1, OnlyAllOrNone
<1>2. Only(left, "text") = << >>
  <2>1. \A n \in DOMAIN left : ~IsOf(left[n], "text")
    BY NoTextWritten DEF IsOf, IsText
  <2> QED
    BY <2>1, OnlyAllOrNone
<1>3. OnlyInThree(before, a, w, b, "text") /\ OnlyInThree(after, a, left, b, "text")
  BY OnlyOfThree
<1> QED
  BY <1>1, <1>2, <1>3 DEF OnlyInThree

SizeOf(s) == 2 * Len(s) + Len(Only(s, "imul2"))

LEMMA RewritingShrinks ==
  ASSUME NEW X, NEW p \in Passes, NEW k, NEW a, NEW w, NEW left, NEW b, NEW before, NEW after,
         WindowIn(X, p, k, a, w, left, b, before, after)
  PROVE  SizeOf(after) < SizeOf(before)
<1> USE DEF WindowIn
<1>1. SizeOf(left) < SizeOf(w)
  BY PassShrinks DEF SizeOf
<1>2. OnlyInThree(before, a, w, b, "imul2") /\ OnlyInThree(after, a, left, b, "imul2")
  BY OnlyOfThree
<1>3. /\ Len(a) \in Nat /\ Len(w) \in Nat /\ Len(left) \in Nat /\ Len(b) \in Nat
      /\ Len(Only(a, "imul2")) \in Nat /\ Len(Only(w, "imul2")) \in Nat
      /\ Len(Only(left, "imul2")) \in Nat /\ Len(Only(b, "imul2")) \in Nat
  BY OnlyIsShorter
<1>4. /\ Len(Only(before, "imul2")) =
              Len(Only(a, "imul2")) + Len(Only(w, "imul2")) + Len(Only(b, "imul2"))
      /\ Len(Only(after, "imul2")) =
              Len(Only(a, "imul2")) + Len(Only(left, "imul2")) + Len(Only(b, "imul2"))
      /\ Len(before) = Len(a) + Len(w) + Len(b)
      /\ Len(after) = Len(a) + Len(left) + Len(b)
  BY <1>2 DEF OnlyInThree
<1> HIDE DEF WindowIn
<1> QED
  BY <1>1, <1>3, <1>4 DEF SizeOf

\* Between the rounds and within them, the array holds the list.
ListInv == Bounds /\ Compact /\ ArrayIsList

LEMMA ListInvInit == Init => ListInv
  BY BoundsInit, CompactInit, ArrayInit DEF ListInv

LEMMA ListInvNext == ListInv /\ [Next]_vars => ListInv'
<1> SUFFICES ASSUME ListInv, [Next]_vars PROVE ListInv'
  OBVIOUS
<1>1. Bounds' /\ Compact'
  BY BoundsNext, CompactNext DEF ListInv
<1>2. ArrayIsList'
  <2>1. CASE \E p \in Passes : ApplyPass(p)
    BY <2>1, ApplyPassRewrites DEF ListInv
  <2>2. CASE ~\E p \in Passes : ApplyPass(p)
    BY <2>2, OthersKeepLive DEF ListInv
  <2> QED
    BY <2>1, <2>2
<1> QED
  BY <1>1, <1>2 DEF ListInv

LEMMA LinesKeptStep == ListInv /\ [Next]_vars => Only(Live, "text")' = Only(Live, "text")
<1> SUFFICES ASSUME ListInv, [Next]_vars PROVE Only(Live', "text") = Only(Live, "text")
  OBVIOUS
<1>1. ASSUME NEW p \in Passes, ApplyPass(p) PROVE Only(Live', "text") = Only(Live, "text")
  <2>1. PICK X, a, w, left, b : WindowIn(X, p, pos, a, w, left, b, Live, Live')
    BY <1>1, ApplyPassRewrites DEF ListInv
  <2> QED
    BY <2>1, RewritingKeepsLines
<1>2. CASE ~\E p \in Passes : ApplyPass(p)
  <2>1. Live' = Live
    BY <1>2, OthersKeepLive DEF ListInv
  <2> QED
    BY <2>1
<1> QED
  BY <1>1, <1>2

LEMMA ShrinksStep ==
  ListInv /\ [Next]_vars =>
    IF \E p \in Passes : ApplyPass(p) THEN Measure' < Measure ELSE Live' = Live
<1> SUFFICES ASSUME ListInv, [Next]_vars
             PROVE  IF \E p \in Passes : ApplyPass(p) THEN Measure' < Measure ELSE Live' = Live
  OBVIOUS
<1>1. ASSUME NEW p \in Passes, ApplyPass(p) PROVE Measure' < Measure
  <2>1. PICK X, a, w, left, b : WindowIn(X, p, pos, a, w, left, b, Live, Live')
    BY <1>1, ApplyPassRewrites DEF ListInv
  <2>2. SizeOf(Live') < SizeOf(Live)
    BY <2>1, RewritingShrinks
  <2> QED
    BY <2>2 DEF SizeOf, Measure
<1>2. CASE ~\E p \in Passes : ApplyPass(p)
  BY <1>2, OthersKeepLive DEF ListInv
<1> QED
  BY <1>1, <1>2

\* No step, of the loop or of a pass, loses, adds or reorders a line of text.
THEOREM LinesAreKept == Spec => LinesKept
<1>1. ListInv /\ [Next]_vars => [Only(Live, "text")' = Only(Live, "text")]_vars
  BY LinesKeptStep
<1> QED
  BY ListInvInit, ListInvNext, <1>1, PTL DEF Spec, LinesKept

\* Reading, keeping, dropping NOPs and going round leave the program as it is, and every
\* pass that is applied makes it smaller.
THEOREM OnlyPassesChange == Spec => PassesShrink
<1>1. ListInv /\ [Next]_vars =>
        [IF \E p \in Passes : ApplyPass(p) THEN Measure' < Measure ELSE Live' = Live]_vars
  BY ShrinksStep
<1> QED
  BY ListInvInit, ListInvNext, <1>1, PTL DEF Spec, PassesShrink

-----------------------------------------------------------------------------
\* The refinement.

\* No pass accepts a window of the list that begins before its kth command.
NoneBefore(d, c, k) ==
  \A h \in 1 .. k - 1 : \A p \in Passes :
    h + FrameSize[p] <= c + 1 => ~Matches(p, SubSeq(d, h, h + FrameSize[p] - 1))

FrameIsWhole ==
  /\ \A m \in 0 .. frame - 1 : InFrame(m)
  /\ frame < MaxFrameSize => ~InFrame(frame)

\* While nothing has changed in this round, everything read has been kept where it was and
\* no pass has accepted a window that begins with it; and a frame no pass has touched yet
\* is all the passes could be given.
Quiet ==
  /\ pc = "passes" /\ ~match => pass = 1 /\ FrameIsWhole
  /\ pc \in {"scan", "passes"} /\ ~changed /\ (pc = "passes" => ~match) =>
       pos = i - 1 /\ NoNopIn(data, 1, count) /\ NoneBefore(data, count, i)
  /\ pc \in {"while", "done"} /\ ~changed => NoneBefore(data, count, count + 1)

LEMMA QuietInit == Init => Quiet
  BY DEF Init, Quiet

\* Keeping the command that is being looked at where it is.
LEMMA KeptWhereItIs ==
  ASSUME Bounds, ArrayIsList, KeepCommands(1), pos = i - 1
  PROVE  data' = data /\ i' = i + 1 /\ pos' = i
<1>1. PICK X : data \in Seq(X)
  BY DEF ArrayIsList
<1>2. \A k \in DOMAIN data : (IF k \in pos + 1 .. pos + 1 THEN data[i + k - pos - 1] ELSE data[k])
                               = data[k]
  <2> TAKE k \in DOMAIN data
  <2>1. k \in Nat /\ i \in Nat /\ pos \in Nat
    BY <1>1 DEF Bounds, TypeOK
  <2>2. k \in pos + 1 .. pos + 1 => k = i /\ i + k - pos - 1 = k
    BY <2>1
  <2> QED
    BY <2>2
<1>3. data' = [k \in DOMAIN data |-> data[k]]
  BY <1>2 DEF KeepCommands
<1>4. [k \in DOMAIN data |-> data[k]] = data
  BY <1>1
<1>5. i' = i + 1 /\ pos' = i
  BY DEF KeepCommands, Bounds, TypeOK
<1> QED
  BY <1>3, <1>4, <1>5

\* One command more.
LEMMA NoneBeforeNext ==
  ASSUME NEW d, NEW c, NEW k \in Nat \ {0}, NoneBefore(d, c, k),
         \A p \in Passes :
           k + FrameSize[p] <= c + 1 => ~Matches(p, SubSeq(d, k, k + FrameSize[p] - 1))
  PROVE  NoneBefore(d, c, k + 1)
<1> SUFFICES ASSUME NEW h \in 1 .. k, NEW p \in Passes, h + FrameSize[p] <= c + 1
             PROVE  ~Matches(p, SubSeq(d, h, h + FrameSize[p] - 1))
  BY DEF NoneBefore
<1>1. CASE h = k
  BY <1>1
<1>2. CASE h # k
  <2>1. h \in 1 .. k - 1
    BY <1>2
  <2> QED
    BY <2>1 DEF NoneBefore
<1> QED
  BY <1>1, <1>2

LEMMA QuietNext == ListInv /\ Quiet /\ [Next]_vars => Quiet'
<1> SUFFICES ASSUME ListInv, Quiet, [Next]_vars PROVE Quiet'
  OBVIOUS
<1>1. PICK X : data \in Seq(X)
  BY DEF ListInv, ArrayIsList
<1>2. CASE StartRound
  <2>1. /\ pc = "while" /\ pc' = "scan" /\ pos' = 0 /\ i' = 1
        /\ UNCHANGED << data, count >>
    BY <1>2 DEF StartRound
  <2>2. NoNopIn(data, 1, count)
    BY <2>1 DEF NoNopIn, ListInv, Compact, CompactBetweenRounds
  <2>3. NoneBefore(data, count, 1)
    BY DEF NoneBefore
  <2> QED
    BY <2>1, <2>2, <2>3 DEF Quiet
<1>3. CASE KeepText
  <2>1. /\ pc = "scan" /\ pc' = "scan" /\ KeepCommands(1) /\ IsText(data[i])
        /\ UNCHANGED << count, changed >>
    BY <1>3 DEF KeepText
  <2> SUFFICES ASSUME ~changed
               PROVE  pos' = i' - 1 /\ NoNopIn(data', 1, count') /\ NoneBefore(data', count', i')
    BY <2>1 DEF Quiet
  <2>2. pos = i - 1 /\ NoNopIn(data, 1, count) /\ NoneBefore(data, count, i)
    BY <2>1 DEF Quiet
  <2>3. data' = data /\ i' = i + 1 /\ pos' = i
    BY <2>1, <2>2, KeptWhereItIs DEF ListInv
  <2>4. i \in Nat \ {0}
    BY DEF ListInv, Bounds, TypeOK
  <2>5. ASSUME NEW p \in Passes, i + FrameSize[p] <= count + 1
        PROVE  ~Matches(p, SubSeq(data, i, i + FrameSize[p] - 1))
    <3>1. FrameSize[p] \in 1 .. 4
      BY DEF FrameSize, Passes
    <3>2. SubSeq(data, i, i + FrameSize[p] - 1)[1] = data[i]
      BY <2>4, <3>1
    <3>3. 1 \in 1 .. FrameSize[p]
      BY <3>1
    <3>4. IsText(SubSeq(data, i, i + FrameSize[p] - 1)[1])
      BY <2>1, <3>2
    <3> QED
      BY <3>3, <3>4, NoTextMatched
  <2>6. NoneBefore(data, count, i + 1)
    BY <2>2, <2>4, <2>5, NoneBeforeNext
  <2> QED
    BY <2>1, <2>2, <2>3, <2>4, <2>6
<1>4. CASE SkipNop
  <2>1. pc = "scan" /\ pc' = "scan" /\ changed' = changed
    BY <1>4 DEF SkipNop
  <2>2. changed
    <3> SUFFICES ASSUME ~changed PROVE FALSE
      OBVIOUS
    <3>1. NoNopIn(data, 1, count)
      BY <2>1 DEF Quiet
    <3> QED
      BY <1>4, <3>1 DEF SkipNop, NoNopIn, ListInv, Bounds, TypeOK
  <2> QED
    BY <2>1, <2>2 DEF Quiet
<1>5. CASE OpenFrame
  <2>1. /\ pc = "scan" /\ pc' = "passes" /\ frame' = FrameAtI /\ pass' = 1
        /\ i <= count /\ ~IsNop(data[i])
        /\ UNCHANGED << data, count, i, pos, changed >>
    BY <1>5 DEF OpenFrame
  <2>2. FrameIsWhole'
    <3>1. /\ \A m \in 0 .. FrameAtI - 1 : InFrame(m)
          /\ FrameAtI < MaxFrameSize => ~InFrame(FrameAtI)
      BY <2>1, FrameIsInList DEF ListInv
    <3>2. \A m : InFrame(m)' <=> InFrame(m)
      BY <2>1 DEF InFrame
    <3> QED
      BY <2>1, <3>1 DEF FrameIsWhole, InFrame
  <2> QED
    BY <2>1, <2>2 DEF Quiet
<1>6. ASSUME NEW p \in Passes, ApplyPass(p) PROVE Quiet'
  <2>1. pc' = "passes" /\ match'
    BY <1>6 DEF ApplyPass
  <2> QED
    BY <2>1 DEF Quiet
<1>7. CASE KeepFrame
  <2>1. pc' = "scan" /\ changed'
    BY <1>7 DEF KeepFrame
  <2> QED
    BY <2>1 DEF Quiet
<1>8. CASE KeepCommand
  <2>1. /\ pc = "passes" /\ pc' = "scan" /\ KeepCommands(1) /\ ~match /\ NoMorePasses
        /\ UNCHANGED << count, changed >>
    BY <1>8 DEF KeepCommand, NoMorePasses
  <2> SUFFICES ASSUME ~changed
               PROVE  pos' = i' - 1 /\ NoNopIn(data', 1, count') /\ NoneBefore(data', count', i')
    BY <2>1 DEF Quiet
  <2>2. pos = i - 1 /\ NoNopIn(data, 1, count) /\ NoneBefore(data, count, i)
    BY <2>1 DEF Quiet
  <2>3. data' = data /\ i' = i + 1 /\ pos' = i
    BY <2>1, <2>2, KeptWhereItIs DEF ListInv
  <2>4. i \in Nat \ {0} /\ frame \in 0 .. 4 /\ count \in Nat /\ i + frame <= count + 1
    BY <2>1 DEF ListInv, Bounds, TypeOK, WindowInBounds, MaxFrameSize
  <2>5. pass = 1 /\ FrameIsWhole
    BY <2>1 DEF Quiet
  <2>6. ASSUME NEW p \in Passes, i + FrameSize[p] <= count + 1
        PROVE  ~Matches(p, SubSeq(data, i, i + FrameSize[p] - 1))
    <3>1. FrameSize[p] \in 1 .. 4
      BY DEF FrameSize, Passes
    <3>2. FrameSize[p] <= frame
      <4>1. CASE frame = 4
        BY <3>1, <4>1
      <4>2. CASE frame # 4
        <5>1. ~InFrame(frame)
          BY <2>4, <2>5, <4>2 DEF FrameIsWhole, MaxFrameSize
        <5>2. ~(i + frame <= count)
          BY <2>2, <2>4, <5>1 DEF InFrame, NoNopIn
        <5> QED
          BY <2>4, <2>6, <3>1, <5>2
      <4> QED
        BY <4>1, <4>2
    <3>3. ~Applicable(p)
      BY <2>1, <2>5 DEF NoMorePasses, Passes
    <3>4. ~Matches(p, Window)
      BY <3>2, <3>3 DEF Applicable
    <3>5. SameTo(FrameSize[p], SubSeq(data, i, i + FrameSize[p] - 1), Window)
      BY <2>4, <3>1, <3>2 DEF SameTo, Window
    <3> QED
      BY <3>4, <3>5, WindowIsEnough
  <2>7. NoneBefore(data, count, i + 1)
    BY <2>2, <2>4, <2>6, NoneBeforeNext
  <2> QED
    BY <2>1, <2>2, <2>3, <2>4, <2>7
<1>9. CASE EndRound
  <2>1. /\ i = count + 1 /\ pc = "scan" /\ pc' = "while" /\ count' = pos
        /\ UNCHANGED << data, changed >>
    BY <1>9 DEF EndRound, ListInv, Bounds, TypeOK, WindowInBounds
  <2> SUFFICES ASSUME ~changed PROVE NoneBefore(data, pos, pos + 1)
    BY <2>1 DEF Quiet
  <2>2. pos = i - 1 /\ NoneBefore(data, count, i)
    BY <2>1 DEF Quiet
  <2>3. pos = count
    BY <2>1, <2>2 DEF ListInv, Bounds, TypeOK
  <2> QED
    BY <2>1, <2>2, <2>3
<1>10. CASE Return
  BY <1>10 DEF Return, Quiet
<1>11. CASE UNCHANGED vars
  BY <1>11 DEF vars, Quiet, FrameIsWhole, InFrame
<1> QED
  BY <1>2, <1>3, <1>4, <1>5, <1>6, <1>7, <1>8, <1>9, <1>10, <1>11 DEF Next

\* The parts of a program that is rewritten, as the abstract optimizer names them.
WindowFound(p, k, a, w, b, s) ==
  /\ k + FrameSize[p] <= Len(s) /\ k \in 0 .. Len(s)
  /\ SubSeq(s, k + 1, k + FrameSize[p]) = w
  /\ SubSeq(s, 0 + 1, 0 + k) = a
  /\ SubSeq(s, k + FrameSize[p] + 1, Len(s)) = b

LEMMA WindowIsFound ==
  ASSUME NEW X, NEW p \in Passes, NEW k \in Nat, NEW a, NEW w, NEW left, NEW b, NEW s, NEW after,
         WindowIn(X, p, k, a, w, left, b, s, after)
  PROVE  WindowFound(p, k, a, w, b, s)
<1>1. PICK n, h : n = FrameSize[p] /\ h = a \o w
  OBVIOUS
<1>2. n \in 1 .. 4
  BY <1>1 DEF FrameSize, Passes
<1>3. /\ a \in Seq(X) /\ w \in Seq(X) /\ b \in Seq(X) /\ Len(a) = k /\ Len(w) = n
      /\ s = h \o b
  BY <1>1 DEF WindowIn
<1>4. /\ h \in Seq(X) /\ Len(h) = k + n
      /\ \A m \in 1 .. k + n : h[m] = IF m <= k THEN a[m] ELSE w[m - k]
  <2>1. /\ a \o w \in Seq(X) /\ Len(a \o w) = Len(a) + Len(w)
        /\ \A m \in 1 .. Len(a) + Len(w) : (a \o w)[m] = IF m <= Len(a) THEN a[m] ELSE w[m - Len(a)]
    BY <1>3, ConcatProperties
  <2> QED
    BY <1>1, <1>3, <2>1
<1>5. PICK l : l = Len(b)
  OBVIOUS
<1>6. /\ s \in Seq(X) /\ Len(s) = k + n + l /\ l \in Nat
      /\ \A m \in 1 .. k + n + l : s[m] = IF m <= k + n THEN h[m] ELSE b[m - (k + n)]
  <2>1. /\ h \o b \in Seq(X) /\ Len(h \o b) = Len(h) + Len(b)
        /\ \A m \in 1 .. Len(h) + Len(b) : (h \o b)[m] = IF m <= Len(h) THEN h[m] ELSE b[m - Len(h)]
    BY <1>3, <1>4, ConcatProperties
  <2> QED
    BY <1>3, <1>4, <1>5, <2>1
<1>7. SubSeq(s, 1, k) = a
  <2>1. PICK t : t = SubSeq(s, 1, k)
    OBVIOUS
  <2>2. \A m \in 1 .. k : s[m] = a[m] /\ s[m] \in X
    BY <1>2, <1>3, <1>4, <1>6
  <2>3. t \in Seq(X) /\ Len(t) = k /\ \A m \in 1 .. k : t[m] = s[m]
    BY <2>1, <2>2, SubSeqProperties
  <2>4. t = a
    BY <1>3, <2>2, <2>3, SeqEqual
  <2> QED
    BY <2>1, <2>4
<1>8. SubSeq(s, k + 1, k + n) = w
  <2>1. PICK t : t = SubSeq(s, k + 1, k + n)
    OBVIOUS
  <2>2. \A m \in k + 1 .. k + n : s[m] = w[m - k] /\ s[m] \in X
    BY <1>2, <1>3, <1>4, <1>6
  <2>3. t \in Seq(X) /\ Len(t) = n /\ \A m \in 1 .. n : t[m] = s[k + 1 + m - 1]
    BY <1>2, <2>1, <2>2, SubSeqProperties
  <2>4. \A m \in 1 .. n : t[m] = w[m]
    <3> TAKE m \in 1 .. n
    <3>1. PICK q : q = k + m
      OBVIOUS
    <3>2. q \in k + 1 .. k + n /\ q - k = m /\ k + 1 + m - 1 = q
      BY <1>2, <3>1
    <3> QED
      BY <2>2, <2>3, <3>2
  <2>5. t = w
    BY <1>3, <2>3, <2>4, SeqEqual
  <2> QED
    BY <2>1, <2>5
<1>9. SubSeq(s, k + n + 1, k + n + l) = b
  <2>1. PICK t, o : o = k + n /\ t = SubSeq(s, o + 1, o + l)
    OBVIOUS
  <2>2. o \in Nat /\ \A m \in o + 1 .. o + l : s[m] = b[m - o] /\ s[m] \in X
    BY <1>2, <1>3, <1>5, <1>6, <2>1
  <2>3. t \in Seq(X) /\ Len(t) = l /\ \A m \in 1 .. l : t[m] = s[o + 1 + m - 1]
    <3>1. PICK f, g : f = o + 1 /\ g = o + l
      OBVIOUS
    <3>2. f \in Int /\ g \in Int /\ \A m \in f .. g : s[m] \in X
      BY <1>6, <2>2, <3>1
    <3>3. /\ SubSeq(s, f, g) \in Seq(X)
          /\ Len(SubSeq(s, f, g)) = IF f <= g THEN g - f + 1 ELSE 0
          /\ \A m \in 1 .. g - f + 1 : SubSeq(s, f, g)[m] = s[f + m - 1]
      BY <3>2, SubSeqProperties
    <3>4. g - f + 1 = l /\ (f <= g <=> l # 0)
      BY <1>6, <2>2, <3>1
    <3> QED
      BY <2>1, <3>1, <3>3, <3>4
  <2>4. \A m \in 1 .. l : t[m] = b[m]
    <3> TAKE m \in 1 .. l
    <3>1. PICK q : q = o + m
      OBVIOUS
    <3>2. q \in o + 1 .. o + l /\ q - o = m /\ o + 1 + m - 1 = q
      BY <1>6, <2>2, <3>1
    <3> QED
      BY <2>2, <2>3, <3>2
  <2>5. t = b
    BY <1>3, <1>5, <2>3, <2>4, SeqEqual
  <2> QED
    BY <2>1, <2>5
<1>10. 0 + 1 = 1 /\ 0 + k = k /\ k + n <= k + n + l /\ k \in 0 .. k + n + l
  BY <1>2, <1>6
<1> QED
  BY <1>1, <1>6, <1>7, <1>8, <1>9, <1>10 DEF WindowFound

-----------------------------------------------------------------------------

LEMMA AbstractInit == Init => Abstract!Init
<1> SUFFICES ASSUME Init PROVE Abstract!Init
  OBVIOUS
<1>1. PICK X : data \in Seq(X)
  BY InputsAssumption DEF Init
<1>2. Live = SubSeq(data, 1, Len(data))
  BY DEF Init, Live
<1>3. Live = data
  BY <1>1, <1>2
<1> QED
  BY <1>3 DEF Init, Abstract!Init

\* The step of a pass is the rewriting of the window behind what is kept.
LEMMA PassIsRewrite ==
  ASSUME ListInv, NEW p \in Passes, ApplyPass(p)
  PROVE  Abstract!Next
<1>1. PICK X, a, w, left, b : WindowIn(X, p, pos, a, w, left, b, Live, Live')
  BY ApplyPassRewrites DEF ListInv
<1>2. pos \in Nat
  BY DEF ListInv, Bounds, TypeOK
<1>3. WindowFound(p, pos, a, w, b, Live)
  BY <1>1, <1>2, WindowIsFound
<1>4. pc = "passes" /\ pc' = pc
  BY DEF ApplyPass
<1>5. Matches(p, w) /\ left = Rewritten(p, w) /\ Live' = (a \o left) \o b
  BY <1>1 DEF WindowIn
<1>6. /\ Abstract!Window(pos, FrameSize[p]) = w
      /\ Abstract!Window(0, pos) = a
      /\ Abstract!Suffix(pos + FrameSize[p]) = b
  BY <1>3 DEF WindowFound, Abstract!Window, Abstract!Suffix
<1>7. Abstract!AcceptedAt(p, pos)
  BY <1>3, <1>5, <1>6 DEF WindowFound, Abstract!AcceptedAt
<1>8. Abstract!Rewrite(p, pos)
  BY <1>4, <1>5, <1>6, <1>7 DEF Abstract!Rewrite
<1>9. pos \in 0 .. Len(Live)
  BY <1>3 DEF WindowFound
<1> QED
  BY <1>8, <1>9 DEF Abstract!Next

\* When the loop returns no pass accepts any window.
LEMMA ReturnIsHalt ==
  ASSUME ListInv, Quiet, Return
  PROVE  Abstract!Next
<1>1. PICK X : data \in Seq(X)
  BY DEF ListInv, ArrayIsList
<1>2. /\ pc = "while" /\ ~changed /\ pc' = "done" /\ UNCHANGED << data, count >>
  BY DEF Return
<1>3. PICK s : s = SubSeq(data, 1, count)
  OBVIOUS
<1>4. s \in Seq(X) /\ count \in Nat /\ Len(s) = count /\ \A k \in 1 .. count : s[k] = data[k]
  <2>1. count \in Nat /\ 1 .. count \subseteq DOMAIN data
    BY DEF ListInv, Bounds, TypeOK
  <2>2. \A k \in 1 .. count : data[k] \in X
    BY <1>1, <2>1
  <2> QED
    BY <1>3, <2>1, <2>2, SubSeqProperties
<1>5. Live = s /\ Live' = s
  BY <1>2, <1>3 DEF Live
<1>6. NoneBefore(data, count, count + 1)
  BY <1>2 DEF Quiet
<1>7. ASSUME NEW p \in Passes, NEW k \in 0 .. Len(s), k + FrameSize[p] <= Len(s)
      PROVE  ~Matches(p, SubSeq(s, k + 1, k + FrameSize[p]))
  <2>1. PICK h, n : h = k + 1 /\ n = FrameSize[p]
    OBVIOUS
  <2>2. n \in 1 .. 4
    BY <2>1 DEF FrameSize, Passes
  <2>3. h \in 1 .. count /\ h + n <= count + 1 /\ h + n - 1 = k + n
    BY <1>4, <1>7, <2>1, <2>2
  <2>4. ~Matches(p, SubSeq(data, h, h + n - 1))
    BY <1>4, <1>6, <2>1, <2>2, <2>3 DEF NoneBefore
  <2>5. \A m \in 1 .. n : SubSeq(s, h, h + n - 1)[m] = SubSeq(data, h, h + n - 1)[m]
    <3>1. \A m \in 1 .. n : h + m - 1 \in 1 .. count
      BY <1>4, <2>2, <2>3
    <3>2. \A m \in 1 .. n : SubSeq(s, h, h + n - 1)[m] = s[h + m - 1]
      BY <1>4, <2>2, <2>3
    <3>3. \A m \in 1 .. n : SubSeq(data, h, h + n - 1)[m] = data[h + m - 1]
      BY <1>1, <1>4, <2>2, <2>3
    <3> QED
      BY <1>4, <3>1, <3>2, <3>3
  <2>6. SameTo(FrameSize[p], SubSeq(s, h, h + n - 1), SubSeq(data, h, h + n - 1))
    BY <2>1, <2>5 DEF SameTo
  <2>7. ~Matches(p, SubSeq(s, h, h + n - 1))
    BY <2>4, <2>6, WindowIsEnough
  <2> QED
    BY <2>1, <2>3, <2>7
<1>8. \A p \in Passes : \A k \in 0 .. Len(Live) : ~Abstract!AcceptedAt(p, k)
  BY <1>5, <1>7 DEF Abstract!AcceptedAt, Abstract!Window
<1>9. Abstract!Halt
  BY <1>2, <1>5, <1>8 DEF Abstract!Halt
<1> QED
  BY <1>9 DEF Abstract!Next

\* Every other step leaves the program as it is.
LEMMA AbstractStep == ListInv /\ Quiet /\ [Next]_vars => [Abstract!Next]_(Abstract!vars)
<1> SUFFICES ASSUME ListInv, Quiet, [Next]_vars PROVE [Abstract!Next]_(Abstract!vars)
  OBVIOUS
<1>1. CASE \E p \in Passes : ApplyPass(p)
  BY <1>1, PassIsRewrite
<1>2. CASE Return
  BY <1>2, ReturnIsHalt
<1>3. CASE ~(\E p \in Passes : ApplyPass(p)) /\ ~Return
  <2>1. Live' = Live
    BY <1>3, OthersKeepLive DEF ListInv
  <2>2. (pc = "done")' <=> (pc = "done")
    BY <1>3 DEF Next, StartRound, KeepText, SkipNop, OpenFrame, KeepFrame, KeepCommand,
                EndRound, NoMorePasses, vars
  <2> QED
    BY <2>1, <2>2 DEF Abstract!vars
<1> QED
  BY <1>1, <1>2, <1>3

\* The loop over rounds, frames and NOPs does what the abstract rewriting may do: a pass
\* rewrites one window of consecutive commands of the program, and the loop returns when
\* no pass accepts any window (optimizer.c:449).
THEOREM LoopIsRewriting == Spec => Abstract!Init /\ [][Abstract!Next]_(Abstract!vars)
<1>1. Init => ListInv /\ Quiet
  BY ListInvInit, QuietInit
<1>2. ListInv /\ Quiet /\ [Next]_vars => (ListInv /\ Quiet)'
  BY ListInvNext, QuietNext
<1> QED
  BY <1>1, <1>2, AbstractInit, AbstractStep, PTL DEF Spec
=============================================================================
