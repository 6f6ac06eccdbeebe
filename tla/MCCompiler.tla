----------------------------- MODULE MCCompiler -----------------------------
(***************************************************************************)
(* The compiler on all the families of sample programs.                    *)
(***************************************************************************)
EXTENDS Compiler

Samples == INSTANCE Samples

MCPrograms ==
  Samples!Accepted(Samples!Expressions \cup Samples!Statements \cup Samples!ControlFlow
                     \cup Samples!Aliasing \cup Samples!Doubles
                     \cup Samples!Calls \cup Samples!Recursive)
=============================================================================
