----------------------------- MODULE Generator -----------------------------
(***************************************************************************)
(* generator.c: the opcode list the compiler emits for a typed tree.       *)
(*                                                                         *)
(* Every C function here appends to the list, may draw labels from the     *)
(* global counter and may append to the data list; its translation takes   *)
(* the code state cs before it and returns the one after it.  The value of *)
(* an expression goes through the machine stack: generate_expr(e, ret)     *)
(* pushes it when ret is set and leaves the stack as it was otherwise.     *)
(***************************************************************************)
EXTENDS Asm, TypedTree

(***************************************************************************)
(* The code state                                                          *)
(***************************************************************************)

EmptyCode == [code |-> << >>, data |-> << >>, label |-> 0, globals |-> << >>, return |-> 0]

Emit(cs, cmds) == [cs EXCEPT !.code = @ \o cmds]
EmitIf(cond, cs, cmds) == IF cond THEN Emit(cs, cmds) ELSE cs

\* gen_label n times: the labels are cs.label + 1 .. cs.label + n.
GenLabels(n, cs) == [cs EXCEPT !.label = @ + n]

\* A datum with a new label: a zeroed global, a double constant, a format string.
EmitData(cs, size, cell, format) ==
  [cs EXCEPT !.label = @ + 1,
             !.data  = Append(@, [id |-> cs.label + 1, size |-> size,
                                  cell |-> cell, format |-> format])]

Command(op, operands) == << Cmd(op, operands) >>
Lab(id)               == Label(NumLabel(id))

Push(op)    == Command("push", <<op>>)
Pop(op)     == Command("pop", <<op>>)
MovCmd(a, b) == Command("mov", <<a, b>>)
LeaCmd(a, b) == Command("lea", <<a, b>>)
JumpTo(jump, id) == Command(jump, << Lab(id) >>)
Line(id)    == << LabelLine(NumLabel(id)) >>

AddEsp(n) == Command("add", <<esp, Const(n)>>)
SubEsp(n) == Command("sub", <<esp, Const(n)>>)
TopOfStack == Qword(Deref(esp))

PushValue(op, type_sym, ret, cs) ==
  IF ~ret THEN cs
  ELSE IF ResolveAlias(type_sym) = sym_double
  THEN Emit(cs, SubEsp(8) \o Command("fld", <<Qword(op)>>) \o Command("fstp", <<TopOfStack>>))
  ELSE Emit(cs, Push(Dword(op)))

IsInt(type) == IsCompatibleTypes(type, sym_int)

-----------------------------------------------------------------------------

RECURSIVE GenerateExpr(_, _, _)

(***************************************************************************)
(* Lvalues: the memory operand, and the code state after the commands that *)
(* compute its base register.  A global gets its label at its first use.   *)
(***************************************************************************)

GlobalLabel(symbol, cs) ==
  IF symbol.name \in DOMAIN cs.globals THEN cs
  ELSE [EmitData(cs, symbol.size, 0, << >>) EXCEPT
          !.globals = [n \in DOMAIN cs.globals \cup {symbol.name} |->
                         IF n = symbol.name THEN cs.label + 1 ELSE cs.globals[n]]]

\* deref(constant(0)) after a comment; memory asserts that its base is no constant.
NoLvalue(cs) == [op |-> Deref(Const(0)), cs |-> Emit(cs, << Comment >>)]

VariableLvalue(symbol, cs) ==
  LET named == GlobalLabel(symbol, cs)
  IN  CASE symbol.kind = "parameter" ->
             [op |-> Mem(ebp, symbol.offset + 8), cs |-> cs]
        [] symbol.kind = "variable" ->
             [op |-> Mem(ebp, symbol.offset - symbol.size), cs |-> cs]
        [] symbol.kind = "global_variable" ->
             [op |-> Deref(Lab(named.globals[symbol.name])), cs |-> named]
        [] symbol.kind = "function" -> NoLvalue(cs)

RECURSIVE Lvalue(_, _)
Lvalue(e, cs) ==
  CASE e.type = "variable" -> VariableLvalue(e.symbol, cs)
    [] e.type = "dereference" ->
         [op |-> Deref(eax), cs |-> Emit(GenerateExpr(e.ops[1], TRUE, cs), Pop(eax))]
    [] e.type = "member" ->
         LET object == Lvalue(e.ops[1], cs)
         IN  [op |-> Mem(eax, e.field.offset), cs |-> Emit(object.cs, LeaCmd(eax, object.op))]
    [] OTHER -> NoLvalue(cs)

LeaLvalue(e, cs) == LET place == Lvalue(e, cs) IN Emit(place.cs, LeaCmd(eax, place.op))

GenerateLvalue(e, cs) == Emit(LeaLvalue(e, cs), Push(eax))

(***************************************************************************)
(* Integer operators                                                       *)
(***************************************************************************)

\* ecx is 1 if the flags, after the test, satisfy set.
TestInto(test, set) ==
  Command("xor", <<ecx, ecx>>) \o test \o Command(set, <<cl>>) \o MovCmd(eax, ecx)

IncCmd(type, op) == Command(IF type \in {"prefix_inc", "postfix_inc"} THEN "inc" ELSE "dec", <<op>>)

\* The operand is evaluated once for its value and again for its address.
GenerateIntInc(e, ret, cs) ==
  LET address == Emit(GenerateLvalue(e.ops[1], cs), Pop(ebx))
      inc     == IncCmd(e.type, Deref(ebx))
      value   == IF ret THEN MovCmd(eax, Deref(ebx)) ELSE << >>
  IN  Emit(address, IF e.type \in {"prefix_inc", "prefix_dec"} THEN inc \o value ELSE value \o inc)

GenerateUnaryInt(e, ret, cs) ==
  LET operand == Emit(GenerateExpr(e.ops[1], TRUE, cs), Pop(eax))
      result  ==
        CASE e.type = "logical_negation" ->
               Emit(operand, TestInto(Command("test", <<eax, eax>>), "setz"))
          [] e.type = "complement" -> Emit(operand, Command("not", <<eax>>))
          [] e.type = "negation"   -> Emit(operand, Command("neg", <<eax>>))
          [] e.type = "identity"   -> operand
          [] e.type \in Incs       -> GenerateIntInc(e, ret, operand)
  IN  EmitIf(ret, result, Push(eax))

SetOf == [eq |-> "sete", ne |-> "setne", le |-> "setle", lt |-> "setl", ge |-> "setge", gt |-> "setg"]

IntCmp(set) == TestInto(Command("cmp", <<eax, ebx>>), set)

\* Both operands are values already; only the second test is skipped.
IntLogicalOp(jump, id) ==
  TestInto(Command("test", <<eax, eax>>) \o JumpTo(jump, id)
             \o Command("test", <<ebx, ebx>>) \o Line(id), "setnz")

Shift(shift)   == MovCmd(ecx, ebx) \o Command(shift, <<eax, cl>>)
Divide         == Command("cdq", << >>) \o Command("idiv", <<ebx>>)
AluOf          == [add |-> "add", sub |-> "sub", bit_xor |-> "xor", bit_or |-> "or", bit_and |-> "and"]

IntOp(type, id) ==
  CASE type \in DOMAIN AluOf -> Command(AluOf[type], <<eax, ebx>>)
    [] type = "mul"    -> Command("imul", <<ebx>>)
    [] type = "lshift" -> Shift("sal")
    [] type = "rshift" -> Shift("sar")
    [] type = "div"    -> Divide
    [] type = "mod"    -> Divide \o MovCmd(eax, edx)
    [] type \in DOMAIN SetOf -> IntCmp(SetOf[type])
    [] type = "and"    -> IntLogicalOp("jz", id)
    [] type = "or"     -> IntLogicalOp("jnz", id)
    [] OTHER           -> << Comment >>

GenerateBinaryInt(e, ret, cs) ==
  LET operands == GenerateExpr(e.ops[2], TRUE, GenerateExpr(e.ops[1], TRUE, cs))
      labels   == IF e.type \in {"and", "or"} THEN GenLabels(1, operands) ELSE operands
      result   == Emit(labels, Pop(ebx) \o Pop(eax) \o IntOp(e.type, labels.label))
  IN  EmitIf(ret, result, Push(eax))

(***************************************************************************)
(* Double operators                                                        *)
(***************************************************************************)

Fpu(op)   == Command(op, << >>)
Fld(op)   == Command("fld", <<Qword(op)>>)
Fst(op)   == Command("fst", <<Qword(op)>>)
Fstp(op)  == Command("fstp", <<Qword(op)>>)
FreeSt0   == Command("ffreep", <<Reg("st0")>>)
CompareSt1 == Command("fcomip", <<Reg("st1")>>)

\* What is popped of the two operands: their place is used for the result.
OperandBytes(ret)     == IF ret THEN 8 ELSE 16

GenerateUnaryDouble(e, ret, cs) ==
  LET operand == GenerateExpr(e.ops[1], ret, cs)
      address == Emit(GenerateLvalue(e.ops[1], cs), Pop(eax) \o Fld(Deref(eax)))
      step    == Fpu("fld1") \o Fpu(IF e.type \in {"prefix_inc", "postfix_inc"} THEN "faddp" ELSE "fsubp")
  IN  CASE e.type = "logical_negation" ->
             Emit(operand, Fld(Deref(esp)) \o Fpu("fldz") \o Command("xor", <<ecx, ecx>>)
                             \o CompareSt1 \o Command("sete", <<cl>>) \o FreeSt0
                             \o IF ret THEN MovCmd(Mem(esp, 4), ecx) \o AddEsp(4) ELSE AddEsp(8))
        [] e.type = "negation" ->
             Emit(operand, IF ret THEN Fld(Deref(esp)) \o Fpu("fchs") \o Fstp(Deref(esp))
                                  ELSE AddEsp(8))
        [] e.type = "identity" -> EmitIf(~ret, operand, AddEsp(8))
        [] e.type \in {"prefix_inc", "prefix_dec"} ->
             Emit(address, step \o IF ret THEN Fst(Deref(eax)) \o SubEsp(8) \o Fstp(Deref(esp))
                                          ELSE Fstp(Deref(eax)))
        [] e.type \in {"postfix_inc", "postfix_dec"} ->
             Emit(address, (IF ret THEN SubEsp(8) \o Fst(Deref(esp)) ELSE << >>)
                             \o step \o Fstp(Deref(eax)))
        [] OTHER -> Emit(cs, << Comment >>)

DoubleOf == [add |-> "faddp", sub |-> "fsubp", mul |-> "fmulp", div |-> "fdivp"]
\* st0 is the second operand: the conditions are those of b against a.
DoubleSetOf == [eq |-> "sete", ne |-> "setne", le |-> "setae", lt |-> "seta", ge |-> "setbe", gt |-> "setb"]

\* A slip: the second operand stays on the FPU's stack.
DoubleCmpUnpopped(set) ==
  AddEsp(8) \o Command("xor", <<ecx, ecx>>) \o CompareSt1 \o Command(set, <<cl>>) \o Push(ecx)

DoubleCmp(set) ==
  AddEsp(8) \o Command("xor", <<ecx, ecx>>) \o CompareSt1 \o Command(set, <<cl>>)
            \o Push(ecx) \o FreeSt0

GenerateBinaryDouble(e, ret, cs) ==
  LET first    == Emit(GenerateExpr(e.ops[1], TRUE, cs), Fld(Deref(esp)))
      operands == Emit(GenerateExpr(e.ops[2], TRUE, first),
                       Fld(Deref(esp)) \o AddEsp(OperandBytes(ret)))
      compute  == IF e.type \in DOMAIN DoubleOf THEN Fpu(DoubleOf[e.type]) ELSE << Comment >>
  IN  IF e.type \in DOMAIN DoubleSetOf
      THEN Emit(operands, DoubleCmp(DoubleSetOf[e.type]))
      ELSE Emit(operands, compute \o (IF ret THEN Fstp(Deref(esp)) ELSE << >>) \o FreeSt0)

(***************************************************************************)
(* Statements                                                              *)
(***************************************************************************)

\* A slip: the condition is read and not popped.
JumpIfZeroUnpopped(id) ==
  MovCmd(eax, Deref(esp)) \o Command("test", <<eax, eax>>) \o JumpTo("jz", id)

JumpIfZero(id)    == Pop(eax) \o Command("test", <<eax, eax>>) \o JumpTo("jz", id)
JumpIfNotZero(id) == Pop(eax) \o Command("test", <<eax, eax>>) \o JumpTo("jnz", id)

\* "if" and "?:" differ in whether the branches leave a value.
GenerateBranches(e, ret, cs) ==
  LET l1        == cs.label + 1
      l2        == cs.label + 2
      condition == Emit(GenerateExpr(e.ops[1], TRUE, GenLabels(2, cs)), JumpIfZero(l1))
      positive  == Emit(GenerateExpr(e.ops[2], ret, condition), JumpTo("jmp", l2) \o Line(l1))
  IN  Emit(GenerateExpr(e.ops[3], ret, positive), Line(l2))

GenerateWhile(e, cs) ==
  LET l1        == cs.label + 1
      l2        == cs.label + 2
      start     == Emit(GenLabels(2, cs), Line(l1))
      condition == Emit(GenerateExpr(e.ops[1], TRUE, start), JumpIfZero(l2))
  IN  Emit(GenerateExpr(e.ops[2], FALSE, condition), JumpTo("jmp", l1) \o Line(l2))

GenerateDoWhile(e, cs) ==
  LET l1   == cs.label + 1
      body == GenerateExpr(e.ops[1], FALSE, Emit(GenLabels(1, cs), Line(l1)))
  IN  Emit(GenerateExpr(e.ops[2], TRUE, body), JumpIfNotZero(l1))

\* An empty condition is a NOP node, which pushes nothing for the pop to take.
GenerateFor(e, cs) ==
  LET l1        == cs.label + 1
      l2        == cs.label + 2
      start     == Emit(GenerateExpr(e.ops[1], FALSE, GenLabels(2, cs)), Line(l1))
      condition == Emit(GenerateExpr(e.ops[2], TRUE, start), JumpIfZero(l2))
      body      == GenerateExpr(e.ops[4], FALSE, condition)
  IN  Emit(GenerateExpr(e.ops[3], FALSE, body), JumpTo("jmp", l1) \o Line(l2))

\* The type tested is the symbol of the expression itself: returning a variable of
\* type double falls through to the bare jump.
GenerateReturn(e, cs) ==
  LET jump == JumpTo("jmp", cs.return)
  IN  IF IsInt(e.type_sym)
      THEN Emit(GenerateExpr(e.ops[1], TRUE, cs), Pop(eax) \o jump)
      ELSE IF e.type_sym = sym_double
      THEN Emit(GenerateExpr(e.ops[1], TRUE, cs), Fld(Deref(esp)) \o AddEsp(8) \o jump)
      ELSE Emit(cs, jump)

GenerateStatement(e, cs) ==
  CASE e.type = "if"       -> GenerateBranches(e, FALSE, cs)
    [] e.type = "while"    -> GenerateWhile(e, cs)
    [] e.type = "do_while" -> GenerateDoWhile(e, cs)
    [] e.type = "for"      -> GenerateFor(e, cs)
    [] e.type = "return"   -> GenerateReturn(e, cs)
    [] OTHER               -> Emit(cs, << Comment >>)

(***************************************************************************)
(* Expressions                                                             *)
(***************************************************************************)

Reversed(ops) == [n \in DOMAIN ops |-> ops[Len(ops) + 1 - n]]

\* What the caller removes from the stack: the sizes of the arguments' own symbols,
\* which for a parameter or a pointer that "&" makes are zero.
ArgumentBytes(e) == FoldLeft(LAMBDA acc, arg : acc + arg.type_sym.size, 0, e.ops)

GenerateCall(e, ret, cs) ==
  LET pushed == FoldInOrder(LAMBDA acc, arg : GenerateExpr(arg, TRUE, acc), cs, Reversed(e.ops))
      name   == Label(TextLabel(e.func.name))
      called == Emit(pushed, Command("call", << IF e.func.extern THEN Deref(name) ELSE name >>)
                               \o AddEsp(ArgumentBytes(e)))
  IN  IF IsInt(e.type_sym) \/ e.type_sym.kind = "pointer" THEN EmitIf(ret, called, Push(eax))
      ELSE IF e.type_sym = sym_double
      THEN Emit(called, IF ret THEN SubEsp(8) \o Fstp(Deref(esp)) ELSE FreeSt0)
      ELSE called

\* The right operand is a double: it stays on the FPU stack while the address of the
\* left one is computed.
GenerateDoubleAssign(e, ret, cs) ==
  LET value   == Emit(GenerateExpr(e.ops[2], TRUE, cs), Fld(Deref(esp)))
      address == Emit(GenerateLvalue(e.ops[1], value), Pop(eax))
  IN  Emit(address, (IF ret THEN Fst(Deref(esp)) ELSE AddEsp(8)) \o Fstp(Deref(eax)))

GenerateAssign(e, ret, cs) ==
  IF TypeOf(e.ops[1]) = sym_double THEN GenerateDoubleAssign(e, ret, cs)
  ELSE LET operands == GenerateExpr(e.ops[2], TRUE, GenerateLvalue(e.ops[1], cs))
       IN  EmitIf(ret, Emit(operands, Pop(ebx) \o Pop(eax) \o MovCmd(Deref(eax), ebx)), Push(ebx))

GenerateCast(e, ret, cs) ==
  LET to      == TypeOf(e)
      from    == TypeOf(e.ops[1])
      wordly(t) == IsInt(t) \/ IsPtrType(t)
      operand == GenerateExpr(e.ops[1], ret, cs)
  IN  IF ret /\ wordly(from) /\ to = sym_double
      THEN Emit(operand, Command("fild", <<Deref(esp)>>) \o SubEsp(4) \o Fstp(Deref(esp)))
      ELSE IF ret /\ from = sym_double /\ wordly(to)
      THEN Emit(operand, Fld(Deref(esp)) \o Command("fisttp", <<Mem(esp, 4)>>) \o AddEsp(4))
      ELSE operand

GeneratePointerAdd(e, ret, cs) ==
  LET operands == GenerateExpr(e.ops[2], TRUE, GenerateExpr(e.ops[1], TRUE, cs))
      scaled   == Pop(eax) \o MovCmd(ebx, Const(TypeOf(e.ops[1]).base.size)) \o Command("imul", <<ebx>>)
      sum      == Emit(operands, scaled \o Pop(ebx) \o Command("add", <<eax, ebx>>))
  IN  EmitIf(ret, sum, Push(eax))

GenerateAtom(e, ret, cs) ==
  CASE e.type = "int" -> EmitIf(ret, cs, Push(Const(e.value)))
    [] e.type = "string" ->
         LET named == EmitData(cs, 4, 0, e.format)
         IN  EmitIf(ret, named, Push(Lab(named.label)))
    [] e.type = "double" ->
         LET named == EmitData(cs, 8, e.value, << >>)
         IN  PushValue(Deref(Lab(named.label)), e.type_sym, ret, named)
    [] e.type = "variable" ->
         LET place == Lvalue(e, cs) IN PushValue(place.op, e.type_sym, ret, place.cs)

Unaries  == {"identity", "negation", "complement", "logical_negation"} \cup Incs
Binaries == IntOnly \cup Comparisons \cup {"add", "sub", "mul", "div", "comma"}

\* The operators, by the type of their (first) operand: of any other type a unary
\* operator emits nothing and a binary one is taken for an unknown statement.
GenerateOperator(e, ret, cs) ==
  LET type == TypeOf(e.ops[1])
      word == IsInt(type) \/ type.kind = "pointer"
  IN  CASE e.type = "add" /\ IsPtrType(type)          -> GeneratePointerAdd(e, ret, cs)
        [] e.type \in Unaries  /\ type = sym_double   -> GenerateUnaryDouble(e, ret, cs)
        [] e.type \in Binaries /\ type = sym_double   -> GenerateBinaryDouble(e, ret, cs)
        [] e.type \in Unaries  /\ word                -> GenerateUnaryInt(e, ret, cs)
        [] e.type \in Binaries \ {"add"} /\ word      -> GenerateBinaryInt(e, ret, cs)
        [] e.type = "add" /\ IsInt(type)              -> GenerateBinaryInt(e, ret, cs)
        [] e.type \in Unaries /\ type # sym_double /\ ~word -> cs
        [] OTHER                                      -> GenerateStatement(e, cs)

GenerateExpr(e, ret, cs) ==
  CASE e.type = "nop"  -> cs
    [] e.type = "list" -> FoldInOrder(LAMBDA acc, item : GenerateExpr(item, FALSE, acc), cs, e.ops)
    [] e.type = "call" -> GenerateCall(e, ret, cs)
    [] e.type \in {"int", "string", "double", "variable"} -> GenerateAtom(e, ret, cs)
    [] e.type = "member" -> PushValue(Deref(eax), e.type_sym, ret, LeaLvalue(e, cs))
    [] e.type = "ternary" -> GenerateBranches(e, ret, cs)
    [] e.type = "assign"  -> GenerateAssign(e, ret, cs)
    [] e.type = "cast"    -> GenerateCast(e, ret, cs)
    [] e.type = "reference" -> EmitIf(ret, LeaLvalue(e.ops[1], cs), Push(eax))
    [] e.type = "dereference" ->
         PushValue(Deref(eax), e.type_sym, ret, Emit(GenerateExpr(e.ops[1], TRUE, cs), Pop(eax)))
    [] e.type \in Unaries \cup Binaries -> GenerateOperator(e, ret, cs)
    [] OTHER -> GenerateStatement(e, cs)

(***************************************************************************)
(* Functions                                                               *)
(***************************************************************************)

MainEsp == Deref(Label(TextLabel("@main_esp")))
CallExtern(name) == Command("call", << Deref(Label(TextLabel(name))) >>)
StackCorruptionCheck(id) ==
  Command("cmp", <<esp, MainEsp>>) \o JumpTo("je", id)
    \o Push(Label(TextLabel("@stack_corruption_msg"))) \o CallExtern("printf") \o AddEsp(4)
    \o Line(id)

\* A function definition: its symbol, the size of its locals and its body.
GenerateFunction(f, cs) ==
  LET isMain  == f.symbol.name = "main"
      frame(cmds) == IF f.locals_size # 0 THEN cmds ELSE << >>
      entry   == [Emit(GenLabels(1, cs),
                       << LabelLine(TextLabel(f.symbol.name)) >>
                         \o (IF isMain THEN MovCmd(MainEsp, esp) ELSE << >>)
                         \o Push(ebp) \o MovCmd(ebp, esp) \o frame(SubEsp(f.locals_size)))
                  EXCEPT !.return = cs.label + 1]
      body    == GenerateExpr(f.body, FALSE, entry)
      exit    == Emit(body, frame(AddEsp(f.locals_size)) \o Line(body.return)
                              \o MovCmd(esp, ebp) \o Pop(ebp))
  IN  IF f.symbol.extern THEN cs
      ELSE IF isMain
      THEN Emit(GenLabels(1, exit),
                StackCorruptionCheck(exit.label + 1) \o Push(Const(0)) \o CallExtern("ExitProcess"))
      ELSE Emit(exit, Command("ret", << >>))

GeneratorProcess(functions) ==
  FoldInOrder(LAMBDA cs, f : GenerateFunction(f, cs), EmptyCode, functions)
=============================================================================
