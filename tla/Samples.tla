------------------------------ MODULE Samples ------------------------------
(***************************************************************************)
(* The programs the models are checked on, built by the constructors of    *)
(* the parser, one family per part of the language.  An ill-typed          *)
(* candidate is dropped, as the parser would drop it.                      *)
(***************************************************************************)
EXTENDS TypedTree

Program(globals, functions) == [globals |-> globals, functions |-> functions]
Accepted(programs) ==
  {p \in programs : \A n \in DOMAIN p.functions : WellTyped(p.functions[n].body)}

Printf(e)       == Call(sym_printf, << StringConst(<<"int">>), e >>)
PrintfDouble(e) == Call(sym_printf, << StringConst(<<"double">>), e >>)

MainSymbol      == Function("main", sym_void, << >>, FALSE)
MainFunction(locals, body) == FunctionDefinition(MainSymbol, locals, List(body))

\* A negative constant is a negated one to the lexer.
Minus(v) == Unary("negation", IntConst(v))

(***************************************************************************)
(* Integer expressions and statements over int a, b, c                     *)
(***************************************************************************)

IntLocals == Locals(<<"a", "b", "c">>, <<sym_int, sym_int, sym_int>>)
a == VarRef(IntLocals[1])
b == VarRef(IntLocals[2])
c == VarRef(IntLocals[3])

IntMain(body) ==
  Program(<< >>, << MainFunction(IntLocals,
            << Assign(a, IntConst(7)), Assign(b, Minus(3)), Assign(c, IntConst(1)) >> \o body) >>)

ShowInts == << Call(sym_printf, << StringConst(<<"int", "int", "int">>), a, b, c >>) >>

Arithmetical == {"add", "sub", "mul", "bit_and", "bit_or", "bit_xor"}
Relational   == {"eq", "ne", "lt", "le", "gt", "ge"}
Logical      == {"and", "or"}

Binaries2(types, xs, ys) == {Binary(t, x, y) : t \in types, x \in xs, y \in ys}
Unaries1(xs) ==
  {Unary(t, x) : t \in {"negation", "identity", "complement", "logical_negation"}, x \in xs}

\* One operator over names and constants, and two operators nested either way.
SmallValues == {a, b, IntConst(2), IntConst(5)}
Simple ==
  Binaries2(Arithmetical \cup Relational \cup Logical, SmallValues, SmallValues)
    \cup Binaries2({"div", "mod"}, {a, b}, SmallValues)
    \cup Binaries2({"lshift", "rshift"}, {a, b}, {c, IntConst(2)})
    \cup Unaries1(SmallValues)

Inner == Binaries2({"add", "mul", "mod", "lt"}, {a, b}, {b, IntConst(5)}) \cup Unaries1({a})

Nested ==
  Binaries2(Arithmetical \cup {"le", "and"}, Inner, {b, IntConst(8)})
    \cup Binaries2({"sub", "mul", "bit_or", "gt", "or"}, {a, IntConst(3)}, Inner)
    \cup Binaries2({"div", "mod"}, Inner, {b, IntConst(5)})
    \cup Binaries2({"lshift", "rshift"}, Inner, {c, IntConst(2)})

Expressions == {IntMain(<< Printf(e) >>) : e \in Simple \cup Nested}

\* Statements that change the variables; a value that an assignment or a prefix
\* increment leaves is used where it is a variable's or another expression's.
Vals == {IntConst(2), b, Binary("add", a, b), Unary("postfix_dec", b), Assign(b, a),
         Unary("dereference", Unary("reference", b))}
Updates ==
  {Assign(l, v) : l \in {a, c}, v \in Vals}
    \cup {CompoundAssign(t, l, v) : t \in {"add", "sub", "mul"}, l \in {a, c}, v \in Vals}
    \cup {CompoundAssign(t, a, b) : t \in {"div", "mod", "bit_and", "bit_or", "bit_xor"}}
    \cup {CompoundAssign(t, a, IntConst(2)) : t \in {"lshift", "rshift"}}
    \cup {Unary(t, a) : t \in Incs}

Statements == {IntMain(<< s >> \o ShowInts) : s \in Updates}

(***************************************************************************)
(* Control flow                                                            *)
(***************************************************************************)

Conditions == {Binary("lt", a, IntConst(9)), Binary("and", Binary("lt", a, IntConst(9)), Binary("ge", b, Minus(5))),
               Unary("logical_negation", Binary("gt", a, IntConst(9))), Binary("sub", IntConst(10), a)}
Bump == Unary("postfix_inc", a)
Leave == Return(NopNode)

ControlFlow ==
  {IntMain(<< s >> \o ShowInts) :
     s \in {If(e, Bump, NopNode) : e \in Conditions}
          \cup {If(e, List(<< Bump, Leave >>), Printf(b)) : e \in Conditions \cup {IntConst(0)}}
          \cup {While(e, List(<< Bump, Printf(c) >>)) : e \in Conditions}
          \cup {DoWhile(List(<< Bump, CompoundAssign("add", c, a) >>), e) : e \in Conditions}
          \cup {For(Assign(c, IntConst(0)), e, Bump, CompoundAssign("add", c, a)) : e \in Conditions}
          \cup {For(Assign(c, IntConst(0)), Binary("lt", c, IntConst(3)), Unary("prefix_inc", c),
                    If(e, While(e, Bump), List(<< Printf(a), Leave >>))) : e \in Conditions}
          \cup {Assign(c, Ternary(e, Binary("add", a, b), IntConst(4))) : e \in Conditions}}

(***************************************************************************)
(* Pointers, arrays and structs                                            *)
(***************************************************************************)

Pair == Struct(<<"x", "y">>, <<sym_int, sym_int>>)
DataLocals == Locals(<<"a", "p", "t", "s">>, <<sym_int, Pointer(sym_int, 4), Array(sym_int, 3), Pair>>)
p == VarRef(DataLocals[2])
t == VarRef(DataLocals[3])
s == VarRef(DataLocals[4])
g == VarRef(Global("g", sym_int))

Deref1(e)   == Unary("dereference", e)
AddressOf1(e) == Unary("reference", e)

DataMain(body) ==
  Program(<< Global("g", sym_int) >>,
          << MainFunction(DataLocals, << Assign(a, IntConst(1)) >> \o body) >>)

\* Objects of every kind of lvalue, and the ways to reach one of them again.
Objects == {<<a, AddressOf1(a)>>, <<g, AddressOf1(g)>>,
            <<Subscript(t, a), t>>, <<Subscript(t, IntConst(1)), Binary("add", t, a)>>,
            <<Member(s, "x"), AddressOf1(Member(s, "x"))>>,
            <<Member(s, "y"), AddressOf1(Member(s, "y"))>>}

Aliasing ==
  {DataMain(<< Assign(o[1], IntConst(5)), Assign(p, o[2]), Assign(Deref1(p), v),
               Printf(o[1]), Printf(Deref1(p)) >>) :
     o \in Objects \ {<<Subscript(t, a), t>>}, v \in {IntConst(9), Binary("add", Deref1(p), a)}}
    \cup {DataMain(<< Assign(Subscript(t, IntConst(0)), IntConst(4)), Assign(p, t),
                      Assign(Subscript(p, a), Binary("add", Deref1(t), IntConst(3))),
                      Unary(inc, Subscript(t, a)),
                      Printf(Deref1(Binary("add", p, a))), Printf(Subscript(t, IntConst(0))) >>) :
            inc \in Incs}
    \cup {DataMain(<< Assign(Member(s, "x"), IntConst(3)),
                      Assign(Member(s, "y"), Binary("add", Member(s, "x"), a)),
                      CompoundAssign("mul", Member(s, "y"), Member(s, "x")),
                      Printf(Member(s, "x")), Printf(Member(s, "y")) >>)}

(***************************************************************************)
(* Doubles                                                                 *)
(***************************************************************************)

DoubleLocals == Locals(<<"a", "d", "e">>, <<sym_int, sym_double, sym_double>>)
d == VarRef(DoubleLocals[2])
e == VarRef(DoubleLocals[3])

DoubleMain(body) ==
  Program(<< >>, << MainFunction(DoubleLocals,
            << Assign(a, IntConst(2)), Assign(d, DoubleConst(6)), Assign(e, Minus(2)) >> \o body
              \o << Printf(a), PrintfDouble(d), PrintfDouble(e) >>) >>)

DoubleValues == {d, e, IntConst(3), a}
DoubleOps    == {"add", "sub", "mul", "div"}
DoubleExprs ==
  Binaries2(DoubleOps, {d, e}, DoubleValues) \cup Binaries2(DoubleOps, {IntConst(3), a}, {d, e})
    \cup {Binary(o, Binary("sub", d, a), e) : o \in DoubleOps}
    \cup {Unary("negation", d), Unary("identity", e)}
    \cup {Unary(o, e) : o \in Incs}

Doubles ==
  {DoubleMain(<< Assign(d, x) >>) : x \in DoubleExprs}
    \cup {DoubleMain(<< Assign(a, x) >>) : x \in DoubleExprs \cup Binaries2(Relational, {d, e}, {d, e})}
    \cup {DoubleMain(<< Unary(o, d) >>) : o \in Incs}
    \cup {DoubleMain(<< CompoundAssign(o, d, x) >>) : o \in DoubleOps, x \in {a, e}}
    \cup {DoubleMain(<< If(Binary(o, d, e), Assign(a, IntConst(1)), Assign(e, Cast(sym_double, a))) >>) : o \in Relational}
    \cup {DoubleMain(<< Assign(a, Unary("logical_negation", d)) >>), DoubleMain(<< Assign(d, Assign(e, d)) >>)}

(***************************************************************************)
(* Functions                                                               *)
(***************************************************************************)

n == VarRef(Params(<<"n">>, <<sym_int>>)[1])
Factorial(base) == Function("fact", base, Params(<<"n">>, <<sym_int>>), FALSE)

\* int fact(int n) { if (n < 2) return 1; return n * fact(n - 1); }
FactorialBody(f) ==
  List(<< If(Binary("lt", n, IntConst(2)), Return(IntConst(1)), NopNode),
          Return(Binary("mul", n, Call(f, << Binary("sub", n, IntConst(1)) >>))) >>)

Recursive ==
  {Program(<< >>, << FunctionDefinition(Factorial(sym_int), << >>, FactorialBody(Factorial(sym_int))),
                     MainFunction(IntLocals, << Printf(Call(Factorial(sym_int), << IntConst(k) >>)) >>) >>) :
     k \in 0 .. 4}

TwoParams(kind) == Params(<<"x", "y">>, <<kind, kind>>)
TwoArgs(kind)   == Function("f", kind, TwoParams(kind), FALSE)
Sub2(kind) ==
  LET x == VarRef(TwoParams(kind)[1])
      y == VarRef(TwoParams(kind)[2])
  IN  FunctionDefinition(TwoArgs(kind), Locals(<<"z">>, <<kind>>),
        List(<< Assign(VarRef(Local("z", kind, 0)), Binary("sub", x, y)),
                Assign(g, Binary("add", g, IntConst(1))),
                Return(Binary("mul", VarRef(Local("z", kind, 0)), IntConst(2))) >>))

Arguments == {a, b, IntConst(4), Binary("add", a, c)}
Calls ==
  {Program(<< Global("g", sym_int) >>,
           << Sub2(sym_int),
              MainFunction(IntLocals,
                << Assign(a, IntConst(7)), Assign(b, Minus(3)), Assign(c, IntConst(1)),
                   Assign(b, Binary("add", c, Call(TwoArgs(sym_int), << x, y >>))),
                   Call(TwoArgs(sym_int), << y, x >>), Printf(b), Printf(g) >>) >>) :
     x \in Arguments, y \in Arguments}
    \cup {Program(<< Global("g", sym_int) >>,
           << Sub2(sym_double),
              MainFunction(DoubleLocals,
                << Assign(a, IntConst(2)), Assign(d, DoubleConst(6)), Assign(e, Minus(2)),
                   Assign(e, Call(TwoArgs(sym_double), << x, y >>)),
                   Call(TwoArgs(sym_double), << y, x >>), PrintfDouble(e), Printf(g) >>) >>) :
     x \in {d, e, a}, y \in {d, e, a}}
=============================================================================
