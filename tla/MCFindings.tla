----------------------------- MODULE MCFindings -----------------------------
(***************************************************************************)
(* Programs the compiler gets wrong, and what the source says of them.     *)
(***************************************************************************)
EXTENDS Compiler

Samples == INSTANCE Samples
a       == Samples!a
b       == Samples!b

\* &a; b = 2;
TwoLeas == {Samples!IntMain(<< Unary("reference", a), Assign(b, IntConst(2)) >>)}

\* printf("%d", (a + b) % 2);
RemainderOfTwo == {Samples!IntMain(<< Samples!Printf(Binary("mod", Binary("add", a, b), IntConst(2))) >>)}

\* optimizer.c:104 merges "lea reg1, [reg2 + imm1]" with "lea reg1, [reg1 + imm2]": a second
\* lea that starts from the register the first one sets.
SecondLeaContinuesFirst ==
  [][Optimizer!ApplyPass(4) =>
       LET w == Optimizer!Window IN w[2].ops[2].base = w[1].ops[1]]_vars
=============================================================================
