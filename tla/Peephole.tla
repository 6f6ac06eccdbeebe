------------------------------ MODULE Peephole ------------------------------
(***************************************************************************)
(* The peephole passes of optimizer.c.  A pass looks at a window w of      *)
(* consecutive commands.  "Matches" is its condition; "Rewritten" is what  *)
(* it leaves of the window: the commands after them are turned into NOPs   *)
(* by the caller, so the length of the rewritten window is the value the C *)
(* function returns (and -1 is "does not match").                          *)
(***************************************************************************)
EXTENDS Asm, Word

\* is_eq compares every field of an operand that its type gives a meaning to.
IsEq(op1, op2) == op1 = op2

Is(c, types) == c.type \in types

(***************************************************************************)
(* The windows each pass accepts                                           *)
(***************************************************************************)

PushPopPossible(a, b) ==
  /\ Is(a, {"push"}) /\ Is(b, {"pop"})
  /\ ~IsMem(a.ops[1]) \/ ~IsMem(b.ops[1])

PushPop2Matches(w) == PushPopPossible(w[1], w[4]) /\ PushPopPossible(w[2], w[3])

PushPopMatches(w) == PushPopPossible(w[1], w[2])

MovSelfMatches(w) ==
  Is(w[1], {"mov"}) /\ IsReg(w[1].ops[1]) /\ IsReg(w[1].ops[2]) /\ w[1].ops[1] = w[1].ops[2]

\* The code compares the base of the second lea with itself (optimizer.c:115).
LeaLeaMatches(w) ==
  /\ Is(w[1], {"lea"}) /\ Is(w[2], {"lea"})
  /\ w[1].ops[1] = w[2].ops[1]
  /\ IsEq(w[2].ops[2].base, w[2].ops[2].base)

LeaMovMatches(w) ==
  /\ Is(w[1], {"lea"}) /\ Is(w[2], {"mov"})
  /\ IsReg(w[1].ops[1]) /\ IsReg(w[2].ops[1])
  /\ IsEq(w[1].ops[1], w[2].ops[2])

\* The second command reaches memory through the register the lea has set.
ThroughLea(w) ==
  /\ IsReg(w[1].ops[1]) /\ IsMem(w[1].ops[2]) /\ IsMem(w[2].ops[1])
  /\ IsEq(w[2].ops[1].base, w[1].ops[1])

LeaDerefMatches(w) ==
  Is(w[1], {"lea"}) /\ Is(w[2], {"push", "inc", "dec"}) /\ ThroughLea(w)

LeaMovRefMatches(w) ==
  Is(w[1], {"lea"}) /\ Is(w[2], {"mov"}) /\ ThroughLea(w) /\ ~IsMem(w[2].ops[2])

AddSubMatches(w) ==
  /\ Is(w[1], {"add", "sub"}) /\ Is(w[2], {"add", "sub"})
  /\ IsEq(w[1].ops[1], w[2].ops[1])
  /\ IsConst(w[1].ops[2]) /\ IsConst(w[2].ops[2])

MovMovMatches(w) ==
  /\ Is(w[2], {"mov"})
  /\ ~IsMem(w[1].ops[1])
  /\ IsEq(w[1].ops[1], w[2].ops[2])
  /\ ~IsMem(w[1].ops[2]) \/ ~IsMem(w[2].ops[1])

MovTestMatches(w) ==
  /\ Is(w[2], {"test"})
  /\ IsReg(w[1].ops[1]) /\ IsReg(w[1].ops[2])
  /\ IsEq(w[1].ops[1], w[2].ops[2]) /\ IsEq(w[2].ops[1], w[2].ops[2])

MovImulMatches(w) ==
  /\ Is(w[2], {"imul"})
  /\ IsReg(w[1].ops[1]) /\ IsConst(w[1].ops[2])
  /\ IsEq(w[1].ops[1], w[2].ops[1])

MovMatches(w) ==
  Is(w[1], {"mov"}) /\ (MovMovMatches(w) \/ MovTestMatches(w) \/ MovImulMatches(w))

\* (v & (v - 1)) == 0 holds of zero and of the least word as well (optimizer.c:302).
IsPowerOf2(v) == v \in {0, MinWord} \cup {2 ^ p : p \in 0 .. WordBits - 2}

\* Halving while at least 2: zero for every v below 2.
IntLog2(v) ==
  IF v < 2 THEN 0 ELSE CHOOSE r \in 1 .. WordBits - 2 : 2 ^ r <= v /\ v < 2 ^ (r + 1)

Imul2Matches(w) ==
  Is(w[1], {"imul2"}) /\ IsConst(w[1].ops[2]) /\ IsPowerOf2(w[1].ops[2].value)

IdivMatches(w) ==
  /\ Is(w[1], {"mov"}) /\ Is(w[2], {"cdq"}) /\ Is(w[3], {"idiv"})
  /\ IsReg(w[1].ops[1]) /\ IsConst(w[1].ops[2])
  /\ IsPowerOf2(w[1].ops[2].value)
  /\ IsEq(w[1].ops[1], w[3].ops[1])

\* A slip: any store and load cancel out.
FstpFldAnywhere(w) == Is(w[1], {"fstp"}) /\ Is(w[2], {"fld"})

FstpFldMatches(w) ==
  Is(w[1], {"fstp"}) /\ Is(w[2], {"fld"}) /\ IsEq(w[1].ops[1], w[2].ops[1])

JumpOf == [sete |-> "je", setne |-> "jne", setle |-> "jle", setl |-> "jl",
           setge |-> "jge", setg |-> "jg"]

InvertInstruction == [je |-> "jne", jne |-> "je", jle |-> "jg", jl |-> "jge",
                      jge |-> "jl", jg |-> "jle"]

CondJmpMatches(w) ==
  /\ w[1].type \in DOMAIN JumpOf /\ Is(w[2], {"test"}) /\ Is(w[3], {"jnz", "jz"})
  /\ w[1].ops[1] = cl /\ w[2].ops[1] = ecx
  /\ IsEq(w[2].ops[1], w[2].ops[2])

(***************************************************************************)
(* What each pass leaves of a window it accepts                            *)
(***************************************************************************)

PushPop2(w) == << Cmd("mov", <<w[3].ops[1], w[2].ops[1]>>),
                  Cmd("mov", <<w[4].ops[1], w[1].ops[1]>>) >>

PushPop(w) == << Cmd("mov", <<w[2].ops[1], w[1].ops[1]>>) >>

LeaLea(w) == << [w[1] EXCEPT !.ops[2].offset = @ + w[2].ops[2].offset] >>

LeaMov(w) == << [w[1] EXCEPT !.ops[1] = w[2].ops[1]] >>

\* The operand the lea computed, accessed at the size and offset of the second command.
Through(w) == [w[1].ops[2] EXCEPT !.size = w[2].ops[1].size,
                                  !.offset = @ + w[2].ops[1].offset]

LeaDeref(w) == << Cmd(w[2].type, <<Through(w)>>) >>

LeaMovRef(w) == << Cmd("mov", <<Through(w), w[2].ops[2]>>) >>

CmdSign(c) == IF c.type = "add" THEN 1 ELSE -1

AddSub(w) ==
  LET value == CmdSign(w[1]) * w[1].ops[2].value + CmdSign(w[2]) * w[2].ops[2].value
      with(type, v) == << Cmd(type, <<w[1].ops[1], Const(v)>>) >>
  IN  IF value < 0 THEN with("sub", -value)
      ELSE IF value > 0 THEN with("add", value)
      ELSE << >>

Mov(w) ==
  CASE MovMovMatches(w)  -> << [w[1] EXCEPT !.ops[1] = w[2].ops[1]] >>
    [] MovTestMatches(w) -> << Cmd("test", <<w[1].ops[2], w[1].ops[2]>>) >>
    [] OTHER             -> << Cmd("imul2", <<eax, w[1].ops[2]>>) >>

\* A slip: the multiplication stays what it was.
Imul2Kept(w) == << w[1] >>

Imul2(w) == << Cmd("shl", <<w[1].ops[1], Const(IntLog2(w[1].ops[2].value))>>) >>

Idiv(w) == << Cmd("sar", <<eax, Const(IntLog2(w[1].ops[2].value))>>) >>

CondJmp(w) ==
  LET jump == JumpOf[w[1].type]
  IN  << Cmd(IF w[3].type = "jz" THEN InvertInstruction[jump] ELSE jump, w[3].ops) >>

(***************************************************************************)
(* The table of passes, in the order optimizer_optimize tries them         *)
(***************************************************************************)

FrameSize == << 4, 2, 1, 2, 2, 2, 2, 2, 2, 1, 3, 2, 3 >>

Passes == 1 .. 13

MaxFrameSize == 4

Matches(p, w) ==
  \/ p = 1  /\ PushPop2Matches(w)
  \/ p = 2  /\ PushPopMatches(w)
  \/ p = 3  /\ MovSelfMatches(w)
  \/ p = 4  /\ LeaLeaMatches(w)
  \/ p = 5  /\ LeaMovMatches(w)
  \/ p = 6  /\ LeaDerefMatches(w)
  \/ p = 7  /\ LeaMovRefMatches(w)
  \/ p = 8  /\ AddSubMatches(w)
  \/ p = 9  /\ MovMatches(w)
  \/ p = 10 /\ Imul2Matches(w)
  \/ p = 11 /\ IdivMatches(w)
  \/ p = 12 /\ FstpFldMatches(w)
  \/ p = 13 /\ CondJmpMatches(w)

Rewritten(p, w) ==
  CASE p = 1  -> PushPop2(w)
    [] p = 2  -> PushPop(w)
    [] p = 3  -> << >>
    [] p = 4  -> LeaLea(w)
    [] p = 5  -> LeaMov(w)
    [] p = 6  -> LeaDeref(w)
    [] p = 7  -> LeaMovRef(w)
    [] p = 8  -> AddSub(w)
    [] p = 9  -> Mov(w)
    [] p = 10 -> Imul2(w)
    [] p = 11 -> Idiv(w)
    [] p = 12 -> << >>
    [] p = 13 -> CondJmp(w)
=============================================================================
