--------------------------- MODULE MCExpressions ---------------------------
(***************************************************************************)
(* Token strings: operands joined by operators of all levels, and all      *)
(* short strings, right or wrong, of a few tokens.                         *)
(***************************************************************************)
EXTENDS Expressions

Joins == {",", "=", "+=", "?", ":", "||", "&&", "|", "^", "&", "==", "<=", ">>", "-", "%"}

Chains ==
  {<< "ident", j[1], "ident", j[2], "int", j[3], "ident" >> : j \in [1 .. 3 -> Joins]}

Strings(tokens, n) == UNION {[1 .. k -> tokens] : k \in 1 .. n}

MCTexts ==
  Chains \cup Strings({"ident", "(", ")", ",", "*"}, 7) \cup Strings({"ident", "[", "]", "++", "."}, 6)
         \cup Strings({"ident", "?", ":", "=", "-"}, 7)
=============================================================================
