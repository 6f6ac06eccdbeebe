------------------------------ MODULE MCLexer -------------------------------
(***************************************************************************)
(* The lexer on every short file over a few characters that belong         *)
(* together: numbers, strings, comments, operators, names.  The blocks of  *)
(* the stream are of three characters and the int of eight bits.           *)
(***************************************************************************)
EXTENDS Lexer

UpTo(n, cs) == UNION {[1 .. k -> cs] : k \in 0 .. n}

\* A file of one more kind is the prefix of every file of the set.
After(prefix, files) == {prefix \o f : f \in files}

MCFiles ==
  UNION { UpTo(4, {"0", "1", "8", "a", "x", "e", ".", "-"}),
          After(<< "-" >>, UpTo(4, {"0", "1", "8", "x", "e", "."})),
          After(<< "-", "9", "9" >>, UpTo(3, {"9", ".", "e", "+", " "})),
          UpTo(4, {"\"", "\\", "x", "1", "n", " ", "\n", "'"}),
          After(<< "\"" >>, UpTo(4, {"\"", "\\", "n", " "})),
          After(<< "'", "\\" >>, UpTo(4, {"1", "7", "f", "x", "'"})),
          UpTo(3, {"/", "*", "\n", "a"}),
          After(<< "/", "*" >>, UpTo(5, {"/", "*", "\n", "a"})),
          UpTo(3, {"<", ">", "=", ".", "-", ":", "%", "+", "&"}),
          UpTo(4, {"<", "=", ".", "-"}),
          UpTo(4, {"i", "f", "_", "1", " ", "\n"}),
          UpTo(2, {"(", ")", "[", "]", "{", "}", ",", "~", "?", ";", "!", "^", "|", "=",
                   "*", "/", "$"}) }

MCKeywords == << "i", "f" >> :> "IF"

MCCode ==
  ("\"" :> 34) @@ ("'" :> 39) @@ ("\\" :> 92) @@ ("?" :> 63) @@ (" " :> 32) @@
  ("0" :> 48) @@ ("1" :> 49) @@ ("7" :> 55) @@ ("f" :> 102) @@ ("n" :> 110) @@ ("x" :> 120)
=============================================================================
