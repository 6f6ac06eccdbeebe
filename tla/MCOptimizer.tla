---------------------------- MODULE MCOptimizer ----------------------------
(***************************************************************************)
(* The optimizer on the lists the generator builds for sample programs.    *)
(***************************************************************************)
EXTENDS Optimizer

Gen     == INSTANCE Generator
Samples == INSTANCE Samples

\* One statement is enough for a pass; the second makes the commands of two statements
\* meet in a window.
Snippets ==
  LET a == Samples!a
      b == Samples!b
      int(v) == Gen!IntConst(v)
      sum == Gen!Binary("add", a, b)
      statements ==
        {Gen!Assign(a, e) : e \in {sum, Gen!Unary("negation", b), Gen!Assign(b, int(2)),
                                   Gen!Binary("mul", sum, int(4)), Gen!Binary("mul", sum, int(5)),
                                   Gen!Binary("div", sum, int(4)), Gen!Binary("and", a, b),
                                   Gen!Unary("dereference", Gen!Unary("reference", b))}}
        \cup {Gen!Unary(t, a) : t \in {"prefix_inc", "postfix_dec", "reference"}}
        \cup {Samples!Printf(sum), Gen!CompoundAssign("add", a, int(3)),
              Gen!While(Gen!Binary("lt", a, b), Samples!Bump),
              Gen!If(Gen!Unary("logical_negation", a), Samples!Leave, Gen!Assign(a, b))}
  IN  {Samples!Program(<< >>, << Samples!MainFunction(Samples!IntLocals, body) >>) :
         body \in {<< s >> : s \in statements}
                  \cup {<< s, Gen!Assign(b, int(2)) >> : s \in statements}}

DoubleSnippets ==
  {Samples!Program(<< >>, << Samples!MainFunction(Samples!DoubleLocals, << s >>) >>) :
     s \in {Gen!Assign(Samples!d, Gen!Binary("mul", Samples!d, Samples!e)),
            Gen!Assign(Samples!d, Gen!Assign(Samples!e, Samples!d)),
            Gen!Unary("prefix_inc", Samples!d)}}

\* Arrays, structs and calls, where addresses are computed from addresses.
DataSnippets ==
  {Samples!Program(<< >>, << Samples!MainFunction(Samples!DataLocals, << s >>) >>) :
     s \in {Gen!Assign(Gen!Subscript(Samples!t, Samples!a), Gen!Member(Samples!s, "y")),
            Gen!CompoundAssign("add", Gen!Member(Samples!s, "y"), Gen!Subscript(Samples!t, Samples!a)),
            Gen!Assign(Samples!p, Gen!Unary("reference", Gen!Member(Samples!s, "x")))}}

MCInputs ==
  {Gen!GeneratorProcess(program.functions).code :
     program \in Samples!Accepted(Snippets \cup DoubleSnippets \cup DataSnippets
                                   \cup {CHOOSE f \in Samples!Recursive : TRUE})}
=============================================================================
