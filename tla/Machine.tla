------------------------------ MODULE Machine ------------------------------
(***************************************************************************)
(* The part of an x86 processor, its FPU and the C library that the code   *)
(* emitted by generator.c runs on.  None of it is in this repository: the  *)
(* real code goes through fasm and runs on Windows.                        *)
(*                                                                         *)
(* Memory is a stack and a data section of 4-byte cells.  A double is kept *)
(* as its value in the low cell of eight bytes, 0 in the high one; doubles *)
(* are integers here, and NotANumber is what the FPU answers when an       *)
(* operand register is empty.                                              *)
(***************************************************************************)
EXTENDS Asm, Word, SequencesExt, Bitwise

CONSTANTS StackTop,      \* the first address above the stack
          DataBase,      \* the first address of the data section
          DataTop,       \* the first address above it
          Junk           \* what is found in memory and in registers nobody has set

ASSUME MachineAssumption ==
  /\ StackTop % 4 = 0 /\ DataBase % 4 = 0 /\ DataTop % 4 = 0
  /\ 0 < StackTop /\ StackTop <= DataBase /\ DataBase < DataTop /\ DataTop <= MaxWord
  /\ Junk \in Words

Addresses == {4 * n : n \in 0 .. (StackTop \div 4) - 1}
               \cup {4 * n : n \in (DataBase \div 4) .. (DataTop \div 4) - 1}

NotANumber == Modulus

(***************************************************************************)
(* Loading: where the assembler puts the labels                            *)
(***************************************************************************)

\* The cell of @main_esp comes first, then the data in the order they were emitted.
CellsOf(datum)  == 4 * ((datum.size + 3) \div 4)
AddressOf(data, n) ==
  FoldLeft(LAMBDA acc, d : acc + CellsOf(d), DataBase + 4, SubSeq(data, 1, n - 1))

\* An executable: the code, the address of every datum and of every label line.
Load(code, data) ==
  [code    |-> code,
   data    |-> data,
   address |-> [id \in {data[n].id : n \in DOMAIN data} |->
                  AddressOf(data, CHOOSE n \in DOMAIN data : data[n].id = id)],
   target  |-> [l \in {code[n].ops[1].label : n \in {k \in DOMAIN code :
                                                      IsText(code[k]) /\ code[k].ops # << >>}} |->
                  CHOOSE n \in DOMAIN code : code[n] = LabelLine(l)]]

LabelValue(x, l) ==
  IF l.id \in DOMAIN x.address THEN x.address[l.id]
  ELSE IF l = TextLabel("@main_esp") THEN DataBase ELSE 0

InitialMemory(x) ==
  LET set(mem, n) == [mem EXCEPT ![x.address[x.data[n].id]] = x.data[n].cell]
  IN  FoldLeft(set, [a \in Addresses |-> IF a < DataBase THEN Junk ELSE 0],
               [n \in DOMAIN x.data |-> n])

InitialRegisters == [r \in {"eax", "ebx", "ecx", "edx", "ebp"} |-> Junk] @@ [esp |-> StackTop]

\* The flags an instruction reads: zero, less (signed), below (unsigned and FPU).
Flags(z, l, b) == [z |-> z, l |-> l, b |-> b]

Start(x) ==
  [ip |-> x.target[TextLabel("main")], regs |-> InitialRegisters,
   flags |-> Flags(FALSE, FALSE, FALSE), mem |-> InitialMemory(x), fpu |-> << >>,
   out |-> << >>, status |-> "running"]

(***************************************************************************)
(* Operands                                                                *)
(***************************************************************************)

EffectiveAddress(x, m, op) ==
  Wrap((IF IsReg(op.base) THEN m.regs[op.base.reg] ELSE LabelValue(x, op.base.label)) + op.offset)

\* The cells a memory operand of an instruction that accesses memory touches.
CellsTouched(x, m, op) ==
  LET a == EffectiveAddress(x, m, op) IN IF op.size = "qword" THEN {a, a + 4} ELSE {a}

Value(x, m, op) ==
  CASE IsReg(op)   -> IF op = cl THEN m.regs["ecx"] % 256 ELSE m.regs[op.reg]
    [] IsConst(op) -> op.value
    [] IsMem(op)   -> m.mem[EffectiveAddress(x, m, op)]
    [] OTHER       -> LabelValue(x, op.label)

Put(x, m, op, v) ==
  CASE IsReg(op) /\ op = cl -> [m EXCEPT !.regs["ecx"] = (@ - (@ % 256)) + v]
    [] IsReg(op) /\ op # cl -> [m EXCEPT !.regs[op.reg] = v]
    [] IsMem(op)            -> [m EXCEPT !.mem[EffectiveAddress(x, m, op)] = v]

PutDouble(x, m, op, v) ==
  LET a == EffectiveAddress(x, m, op) IN [m EXCEPT !.mem[a] = v, !.mem[a + 4] = 0]

Unsigned(v) == v % Modulus

(***************************************************************************)
(* Arithmetic                                                              *)
(***************************************************************************)

ResultFlags(v) == Flags(v = 0, v < 0, FALSE)
CompareFlags(a, b) == Flags(a = b, a < b, Unsigned(a) < Unsigned(b))

AluResult(type, a, b) ==
  CASE type = "add" -> Wrap(a + b)
    [] type = "sub" -> Wrap(a - b)
    [] type = "and" -> Wrap(Unsigned(a) & Unsigned(b))
    [] type = "or"  -> Wrap(Unsigned(a) | Unsigned(b))
    [] type = "xor" -> Wrap(Unsigned(a) ^^ Unsigned(b))

Alu(x, m, c) ==
  LET a == Value(x, m, c.ops[1])
      b == Value(x, m, c.ops[2])
      v == AluResult(c.type, a, b)
  IN  [Put(x, m, c.ops[1], v) EXCEPT
         !.flags = IF c.type = "sub" THEN CompareFlags(a, b) ELSE ResultFlags(v)]

Compare(x, m, c) ==
  LET a == Value(x, m, c.ops[1])
      b == Value(x, m, c.ops[2])
  IN  [m EXCEPT !.flags = IF c.type = "cmp" THEN CompareFlags(a, b)
                          ELSE ResultFlags(AluResult("and", a, b))]

UnaryResult(type, a) ==
  CASE type = "inc" -> Wrap(a + 1)
    [] type = "dec" -> Wrap(a - 1)
    [] type = "neg" -> Wrap(-a)
    [] type = "not" -> -a - 1

UnaryAlu(x, m, c) ==
  LET v == UnaryResult(c.type, Value(x, m, c.ops[1]))
      done == Put(x, m, c.ops[1], v)
  IN  IF c.type = "not" THEN done ELSE [done EXCEPT !.flags = ResultFlags(v)]

\* The processor takes the count of a shift modulo 32.
ShiftResult(type, a, n) ==
  IF n >= WordBits THEN (IF type = "sar" /\ a < 0 THEN -1 ELSE 0)
  ELSE IF type = "sar" THEN a \div (2 ^ n)
  ELSE Wrap((Unsigned(a) % (2 ^ (WordBits - n))) * (2 ^ n))

ShiftStep(x, m, c) ==
  Put(x, m, c.ops[1], ShiftResult(c.type, Value(x, m, c.ops[1]), Value(x, m, c.ops[2]) % 32))

Multiply(x, m, c) ==
  IF c.type = "imul2"
  THEN Put(x, m, c.ops[1], Wrap(Value(x, m, c.ops[1]) * Value(x, m, c.ops[2])))
  ELSE LET product == m.regs["eax"] * Value(x, m, c.ops[1])
       IN  [m EXCEPT !.regs["eax"] = Wrap(product), !.regs["edx"] = product \div Modulus]

DivideStep(x, m, c) ==
  LET dividend == m.regs["edx"] * Modulus + Unsigned(m.regs["eax"])
      divisor  == Value(x, m, c.ops[1])
  IN  IF divisor = 0 THEN [m EXCEPT !.status = "fault"]
      ELSE IF Quot(dividend, divisor) \notin Words THEN [m EXCEPT !.status = "fault"]
      ELSE [m EXCEPT !.regs["eax"] = Quot(dividend, divisor),
                     !.regs["edx"] = Rem(dividend, divisor)]

SignExtend(m) == [m EXCEPT !.regs["edx"] = IF m.regs["eax"] < 0 THEN -1 ELSE 0]

Condition(type, f) ==
  CASE type \in {"je", "jz", "sete", "setz"}     -> f.z
    [] type \in {"jne", "jnz", "setne", "setnz"} -> ~f.z
    [] type \in {"jl", "setl"}   -> f.l
    [] type \in {"jge", "setge"} -> ~f.l
    [] type \in {"jle", "setle"} -> f.l \/ f.z
    [] type \in {"jg", "setg"}   -> ~f.l /\ ~f.z
    [] type = "setb"  -> f.b
    [] type = "setae" -> ~f.b
    [] type = "setbe" -> f.b \/ f.z
    [] type = "seta"  -> ~f.b /\ ~f.z

(***************************************************************************)
(* The floating point unit: its register stack, st0 first                  *)
(***************************************************************************)

StackReg(m, n) == IF n <= Len(m.fpu) THEN m.fpu[n] ELSE NotANumber
PopFpu(m) == [m EXCEPT !.fpu = IF @ = << >> THEN @ ELSE Tail(@)]
PushFpu(m, v) ==
  [m EXCEPT !.fpu = IF Len(@) = 8 THEN << NotANumber >> \o SubSeq(@, 1, 7) ELSE << v >> \o @]

FpuResult(type, a, b) ==
  IF NotANumber \in {a, b} THEN NotANumber
  ELSE CASE type = "faddp" -> a + b
         [] type = "fsubp" -> a - b
         [] type = "fmulp" -> a * b
         [] type = "fdivp" -> IF b = 0 THEN NotANumber ELSE Quot(a, b)

Arithmetic2(m, type) ==
  LET v == FpuResult(type, StackReg(m, 2), StackReg(m, 1))
  IN  PushFpu(PopFpu(PopFpu(m)), v)

FpuCompare(m) ==
  LET a == StackReg(m, 1)
      b == StackReg(m, 2)
      f == IF NotANumber \in {a, b} THEN Flags(TRUE, FALSE, TRUE) ELSE Flags(a = b, FALSE, a < b)
  IN  PopFpu([m EXCEPT !.flags = f])

Truncate(v) == IF v \in Words THEN v ELSE MinWord

FpuStep(x, m, c) ==
  CASE c.type = "fld"    -> PushFpu(m, Value(x, m, c.ops[1]))
    [] c.type = "fldz"   -> PushFpu(m, 0)
    [] c.type = "fld1"   -> PushFpu(m, 1)
    [] c.type = "fild"   -> PushFpu(m, Value(x, m, c.ops[1]))
    [] c.type = "fst"    -> PutDouble(x, m, c.ops[1], StackReg(m, 1))
    [] c.type = "fstp"   -> PopFpu(PutDouble(x, m, c.ops[1], StackReg(m, 1)))
    [] c.type = "fisttp" -> PopFpu(Put(x, m, c.ops[1], Truncate(StackReg(m, 1))))
    [] c.type = "fchs"   -> PushFpu(PopFpu(m), FpuResult("fsubp", 0, StackReg(m, 1)))
    [] c.type = "fcomip" -> FpuCompare(m)
    [] c.type = "ffreep" -> PopFpu(m)
    [] OTHER             -> Arithmetic2(m, c.type)

FpuTypes == {"fld", "fldz", "fld1", "fild", "fst", "fstp", "fisttp", "fchs", "fcomip", "ffreep",
             "faddp", "fsubp", "fmulp", "fdivp"}

(***************************************************************************)
(* The stack, calls and the library                                        *)
(***************************************************************************)

Top(m) == m.mem[m.regs["esp"]]

PushStep(x, m, v) ==
  [m EXCEPT !.regs["esp"] = @ - 4, !.mem[m.regs["esp"] - 4] = v]

PopStep(x, m, op) == Put(x, [m EXCEPT !.regs["esp"] = @ + 4], op, Top(m))

\* printf takes one value from the stack for each conversion of its format; like
\* any function of the library it may leave anything in eax, ecx and edx.
Formats(x, address) ==
  LET n == {k \in DOMAIN x.data : x.address[x.data[k].id] = address}
  IN  IF n = {} THEN << >> ELSE x.data[CHOOSE k \in n : TRUE].format

Printed(x, m) ==
  LET formats   == Formats(x, Top(m))
      sizeOf(c) == IF c = "double" THEN 8 ELSE 4
      argument(n) == FoldLeft(LAMBDA acc, c : acc + sizeOf(c), m.regs["esp"] + 4,
                              SubSeq(formats, 1, n - 1))
  IN  [n \in DOMAIN formats |-> m.mem[argument(n)]]

CallExternal(x, m, name) ==
  IF name = "printf"
  THEN [m EXCEPT !.out = @ \o Printed(x, m), !.regs["eax"] = Junk,
                 !.regs["ecx"] = Junk, !.regs["edx"] = Junk]
  ELSE [m EXCEPT !.status = "exited"]

CallStep(x, m, c) ==
  IF IsMem(c.ops[1]) THEN CallExternal(x, m, c.ops[1].base.label.name)
  ELSE [PushStep(x, m, m.ip) EXCEPT !.ip = x.target[c.ops[1].label]]

(***************************************************************************)
(* One instruction                                                         *)
(***************************************************************************)

AluTypes   == {"add", "sub", "and", "or", "xor"}
ShiftTypes == {"sal", "shl", "sar"}
JumpTypes  == {"je", "jne", "jz", "jnz", "jl", "jle", "jg", "jge"}
SetTypes   == {"sete", "setne", "setz", "setnz", "setl", "setle", "setg", "setge",
               "seta", "setae", "setb", "setbe"}

\* m is the state with ip already past the instruction.
Effect(x, m, c) ==
  CASE c.type = "text" -> m
    [] c.type = "mov"  -> Put(x, m, c.ops[1], Value(x, m, c.ops[2]))
    [] c.type = "lea"  -> Put(x, m, c.ops[1], EffectiveAddress(x, m, c.ops[2]))
    [] c.type = "push" -> PushStep(x, m, Value(x, m, c.ops[1]))
    [] c.type = "pop"  -> PopStep(x, m, c.ops[1])
    [] c.type \in AluTypes                     -> Alu(x, m, c)
    [] c.type \in {"cmp", "test"}              -> Compare(x, m, c)
    [] c.type \in {"inc", "dec", "neg", "not"} -> UnaryAlu(x, m, c)
    [] c.type \in ShiftTypes                   -> ShiftStep(x, m, c)
    [] c.type \in {"imul", "imul2"}            -> Multiply(x, m, c)
    [] c.type = "cdq"  -> SignExtend(m)
    [] c.type = "idiv" -> DivideStep(x, m, c)
    [] c.type \in SetTypes  -> Put(x, m, c.ops[1], IF Condition(c.type, m.flags) THEN 1 ELSE 0)
    [] c.type \in JumpTypes -> IF Condition(c.type, m.flags)
                               THEN [m EXCEPT !.ip = x.target[c.ops[1].label]] ELSE m
    [] c.type = "jmp"  -> [m EXCEPT !.ip = x.target[c.ops[1].label]]
    [] c.type = "call" -> CallStep(x, m, c)
    [] c.type = "ret"  -> [m EXCEPT !.ip = Top(m), !.regs["esp"] = @ + 4]
    [] c.type \in FpuTypes -> FpuStep(x, m, c)

\* The memory an instruction touches has to be there.
Touched(x, m, c) ==
  UNION {IF IsMem(c.ops[n]) /\ c.type \notin {"lea", "call"} THEN CellsTouched(x, m, c.ops[n])
         ELSE {} : n \in DOMAIN c.ops}
  \cup (IF c.type \in {"push", "call"} THEN {m.regs["esp"] - 4} ELSE {})
  \cup (IF c.type \in {"pop", "ret"} THEN {m.regs["esp"]} ELSE {})

Step(x, m) ==
  IF m.ip \notin DOMAIN x.code THEN [m EXCEPT !.status = "fault"]
  ELSE LET c == x.code[m.ip]
       IN  IF Touched(x, m, c) \subseteq Addresses
           THEN Effect(x, [m EXCEPT !.ip = @ + 1], c)
           ELSE [m EXCEPT !.status = "fault"]

\* The state 2^n instructions later.
RECURSIVE Ahead(_, _, _)
Ahead(x, m, n) ==
  IF m.status # "running" THEN m
  ELSE IF n = 0 THEN Step(x, m)
  ELSE Ahead(x, Ahead(x, m, n - 1), n - 1)

\* What a whole run of at most 2^fuel instructions prints and how it ends.
Run(x, fuel) ==
  LET m == Ahead(x, Start(x), fuel) IN [status |-> m.status, out |-> m.out]
=============================================================================
