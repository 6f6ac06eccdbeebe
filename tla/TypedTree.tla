----------------------------- MODULE TypedTree -----------------------------
(***************************************************************************)
(* The typed syntax tree that the parser hands to the generator, and the   *)
(* type rules that build it (parser.c): symbols, compatibility, the        *)
(* implicit conversions, and one constructor per kind of expression, which *)
(* returns the node the parser would build or Rejected where it reports an *)
(* error.  Aliases are taken as resolved when a symbol is declared, enum   *)
(* constants and function pointers are left out.                           *)
(***************************************************************************)
EXTENDS Integers, Sequences, SequencesExt

\* FoldLeft that has TLC evaluate each state before the step from it: the singleton
\* keeps the evaluation of a long list of statements from nesting.
FoldInOrder(step(_, _), base, seq) ==
  FoldLeft(LAMBDA acc, x : CHOOSE next \in {step(s, x) : s \in {acc}} : TRUE, base, seq)

(***************************************************************************)
(* Symbols: types, variables and functions                                 *)
(***************************************************************************)

Scalar(name, size) == [kind |-> "scalar", name |-> name, size |-> size]

sym_void   == Scalar("void", 0)
sym_int    == Scalar("int", 4)
sym_double == Scalar("double", 8)
sym_char   == Scalar("char", 1)

Pointer(base, size) == [kind |-> "pointer", base |-> base, size |-> size]
Array(base, n)      == [kind |-> "array", base |-> base, size |-> n * base.size]

sym_char_ptr == Pointer(sym_char, sym_int.size)

\* A declared variable: the frame offset is that of parse_declaration (locals,
\* not positive) or of the call that laid the parameters out (parameters).
Variable(kind, name, base, offset) ==
  [kind |-> kind, name |-> name, base |-> base, offset |-> offset,
   size |-> IF kind = "parameter" THEN 0 ELSE base.size]

Global(name, base)        == Variable("global_variable", name, base, 0)
Local(name, base, offset) == Variable("variable", name, base, offset)
Param(name, base, offset) == Variable("parameter", name, base, offset)
Field(name, base, offset) == Variable("field", name, base, offset)

Function(name, base, params, extern) ==
  [kind |-> "function", name |-> name, base |-> base, params |-> params,
   variadic |-> extern, extern |-> extern, size |-> 0]

sym_printf ==
  Function("printf", sym_void, << [kind |-> "variable", base |-> sym_char_ptr] >>, TRUE)

IsVarSymbol(s) == s.kind \in {"variable", "global_variable", "field", "parameter"}

ResolveAlias(s) == IF IsVarSymbol(s) THEN s.base ELSE s

IsPtrType(s)    == s.kind \in {"pointer", "array"}
IsStructType(s) == s.kind = "struct"

SizeBefore(bases, n) == FoldLeft(LAMBDA acc, b : acc + b.size, 0, SubSeq(bases, 1, n - 1))

\* The fields of a struct follow one another; its size is their sum.
Struct(names, bases) ==
  [kind   |-> "struct",
   fields |-> [n \in DOMAIN names |-> Field(names[n], bases[n], SizeBefore(bases, n))],
   size   |-> SizeBefore(bases, Len(bases) + 1)]

RECURSIVE IsCompatibleTypes(_, _)
IsCompatibleTypes(s1, s2) ==
  LET t1 == ResolveAlias(s1)
      t2 == ResolveAlias(s2)
  IN  \/ t1.kind = "scalar" /\ t2.kind = "scalar" /\ t1.name = t2.name
      \/ IsPtrType(t1) /\ IsPtrType(t2) /\ IsCompatibleTypes(t1.base, t2.base)
      \/ /\ IsStructType(t1) /\ IsStructType(t2) /\ Len(t1.fields) = Len(t2.fields)
         /\ \A n \in DOMAIN t1.fields : IsCompatibleTypes(t1.fields[n], t2.fields[n])

(***************************************************************************)
(* Nodes                                                                   *)
(***************************************************************************)

Node(type, ops, type_sym) == [type |-> type, ops |-> ops, type_sym |-> type_sym]

Rejected    == Node("error", << >>, sym_void)
NopNode     == Node("nop", << >>, sym_void)
IsRejected(e) == e.type = "error"

\* A value the parser only stores: an int or double constant, a format string.
IntConst(v)    == [type |-> "int", ops |-> << >>, type_sym |-> sym_int, value |-> v]
DoubleConst(v) == [type |-> "double", ops |-> << >>, type_sym |-> sym_double, value |-> v]
StringConst(s) == [type |-> "string", ops |-> << >>, type_sym |-> sym_char_ptr, format |-> s]

TypeOf(e) == ResolveAlias(e.type_sym)

\* Naming a variable; an array decays to a pointer to its elements, whose symbol
\* is allocated without a size.
VarRef(symbol) ==
  LET var  == [type |-> "variable", ops |-> << >>, type_sym |-> symbol, symbol |-> symbol]
      type == ResolveAlias(symbol)
  IN  IF type.kind = "array" THEN Node("reference", <<var>>, Pointer(type.base, 0)) ELSE var

IsLvalue(e) == e.type \in {"variable", "dereference", "member"}

(***************************************************************************)
(* Conversions                                                             *)
(***************************************************************************)

Arithmetic == {"int", "char", "double"}

\* arith_common_type: the wider of two arithmetic types, if both are.
IsArithmetic(t) == t.kind = "scalar" /\ t.name \in Arithmetic
HasCommonType(t1, t2) == IsArithmetic(t1) /\ IsArithmetic(t2)
ArithCommonType(t1, t2) ==
  IF sym_double \in {t1, t2} THEN sym_double
  ELSE IF sym_int \in {t1, t2} THEN sym_int ELSE sym_char

ImplicitCastTo(type, e) == IF IsCompatibleTypes(TypeOf(e), type) THEN e ELSE Node("cast", <<e>>, type)

(***************************************************************************)
(* set_binary_expr_type                                                    *)
(***************************************************************************)

IntOnly     == {"bit_or", "bit_and", "bit_xor", "lshift", "rshift", "mod"}
Comparisons == {"lt", "le", "gt", "ge", "eq", "ne", "or", "and"}

PointerPlus(p, n) ==
  IF TypeOf(n) \in {sym_int, sym_char}
  THEN Node("add", <<p, ImplicitCastTo(sym_int, n)>>, TypeOf(p))
  ELSE Rejected

ArithmeticExpr(type, a, b) ==
  LET common   == ArithCommonType(TypeOf(a), TypeOf(b))
      operands == IF type \in {"or", "and"} THEN sym_int ELSE common
      result   == IF type \in Comparisons THEN sym_int ELSE common
  IN  IF \/ ~HasCommonType(TypeOf(a), TypeOf(b)) /\ type \notin {"or", "and"}
         \/ result = sym_double /\ type \in IntOnly
      THEN Rejected
      ELSE Node(type, <<ImplicitCastTo(operands, a), ImplicitCastTo(operands, b)>>, result)

Binary(type, a, b) ==
  IF IsRejected(a) \/ IsRejected(b) THEN Rejected
  ELSE IF type = "comma" THEN Node(type, <<a, b>>, b.type_sym)
  ELSE IF type \in {"sub", "eq", "ne"} /\ IsPtrType(TypeOf(a)) /\ IsPtrType(TypeOf(b))
       THEN IF IsCompatibleTypes(TypeOf(a), TypeOf(b)) THEN Node(type, <<a, b>>, sym_int)
                                                       ELSE Rejected
  ELSE IF type = "add" /\ IsPtrType(TypeOf(b)) THEN PointerPlus(b, a)
  ELSE IF type = "add" /\ IsPtrType(TypeOf(a)) THEN PointerPlus(a, b)
  ELSE ArithmeticExpr(type, a, b)

(***************************************************************************)
(* Unary, postfix, conditional and assignment expressions                  *)
(***************************************************************************)

Incs == {"prefix_inc", "prefix_dec", "postfix_inc", "postfix_dec"}

IncExpr(type, a) ==
  IF IsLvalue(a) /\ IsArithmetic(TypeOf(a)) THEN Node(type, <<a>>, TypeOf(a)) ELSE Rejected

\* "&": the pointer symbol is allocated without a size.
Unary(type, a) ==
  CASE IsRejected(a) -> Rejected
    [] type = "logical_negation" ->
         IF IsArithmetic(TypeOf(a)) THEN Node(type, <<a>>, sym_int) ELSE Rejected
    [] type \in {"negation", "identity"} ->
         IF IsArithmetic(TypeOf(a)) THEN Node(type, <<a>>, TypeOf(a)) ELSE Rejected
    [] type = "dereference" ->
         IF IsPtrType(TypeOf(a)) THEN Node(type, <<a>>, TypeOf(a).base) ELSE Rejected
    [] type = "reference" ->
         IF IsLvalue(a) THEN Node(type, <<a>>, Pointer(TypeOf(a), 0)) ELSE Rejected
    [] type = "complement" -> Node(type, <<a>>, TypeOf(a))
    [] type \in Incs -> IncExpr(type, a)

\* a[b]: whichever operand is the pointer comes first.
Subscript(a, b) ==
  LET p == IF IsPtrType(TypeOf(b)) THEN b ELSE a
      n == IF IsPtrType(TypeOf(b)) THEN a ELSE b
  IN  IF IsPtrType(TypeOf(p)) /\ TypeOf(n) \in {sym_int, sym_char}
      THEN Node("dereference",
                << Node("add", <<p, ImplicitCastTo(sym_int, n)>>, TypeOf(p)) >>, TypeOf(p).base)
      ELSE Rejected

Member(a, name) ==
  LET obj == TypeOf(a)
  IN  IF IsStructType(obj) /\ \E n \in DOMAIN obj.fields : obj.fields[n].name = name
      THEN LET f == CHOOSE f \in Range(obj.fields) : f.name = name
           IN  [type |-> "member", ops |-> <<a>>, type_sym |-> f.base, field |-> f]
      ELSE Rejected

MemberByPtr(a, name) ==
  IF IsPtrType(TypeOf(a)) THEN Member(Node("dereference", <<a>>, TypeOf(a).base), name)
                          ELSE Rejected

Cast(type, a) == Node("cast", <<a>>, type)

\* parse_cond_expr asks for the common type of the branches' own symbols, so a
\* branch that just names a variable is rejected.
Ternary(c, a, b) ==
  IF HasCommonType(a.type_sym, b.type_sym)
  THEN LET common == ArithCommonType(a.type_sym, b.type_sym)
       IN  Node("ternary", <<c, ImplicitCastTo(common, a), ImplicitCastTo(common, b)>>, common)
  ELSE Rejected

Assign(a, b) ==
  IF IsRejected(b) \/ ~IsLvalue(a) THEN Rejected
  ELSE Node("assign", <<a, ImplicitCastTo(TypeOf(a), b)>>, a.type_sym)

\* a op= b is a = a op b, with the one tree of a in both places.
CompoundAssign(type, a, b) ==
  IF IsRejected(b) \/ ~IsLvalue(a) THEN Rejected
  ELSE LET value == Binary(type, a, ImplicitCastTo(TypeOf(a), b))
       IN  IF IsRejected(value) THEN Rejected ELSE Node("assign", <<a, value>>, a.type_sym)

\* The arguments a function declares parameters for are converted to their types;
\* a variadic function takes the others as they are.
Call(f, args) ==
  IF \/ Len(args) < Len(f.params)
     \/ Len(args) > Len(f.params) /\ ~f.variadic
     \/ \E n \in DOMAIN args : IsRejected(args[n])
  THEN Rejected
  ELSE [type |-> "call", type_sym |-> f.base, func |-> f,
        ops |-> [n \in DOMAIN args |->
                   IF n <= Len(f.params) THEN ImplicitCastTo(f.params[n].base, args[n])
                                         ELSE args[n]]]

(***************************************************************************)
(* Frames                                                                  *)
(***************************************************************************)

\* parse_declaration: the offset of a local is minus what was declared before it.
Locals(names, bases) ==
  [n \in DOMAIN names |-> Local(names[n], bases[n], -SizeBefore(bases, n))]

\* A call lays out the parameters of the function by the sizes of their types.
Params(names, bases) ==
  [n \in DOMAIN names |-> Param(names[n], bases[n], SizeBefore(bases, n))]

FunctionDefinition(symbol, locals, body) ==
  [symbol |-> symbol, locals |-> locals, body |-> body,
   locals_size |-> FoldLeft(LAMBDA acc, l : acc + l.size, 0, locals)]

(***************************************************************************)
(* Statements                                                              *)
(***************************************************************************)

\* A compound statement leaves out its empty statements.
List(ops) == Node("list", SelectSeq(ops, LAMBDA s : s.type # "nop"), sym_void)

If(cond, positive, negative) == Node("if", <<cond, positive, negative>>, sym_void)
While(cond, body)            == Node("while", <<cond, body>>, sym_void)
DoWhile(body, cond)          == Node("do_while", <<body, cond>>, sym_void)
For(init, cond, step, body)  == Node("for", <<init, cond, step, body>>, sym_void)

Return(e)                    == Node("return", <<e>>, e.type_sym)

RECURSIVE WellTyped(_)
WellTyped(e) == ~IsRejected(e) /\ \A n \in DOMAIN e.ops : WellTyped(e.ops[n])
=============================================================================
