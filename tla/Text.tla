-------------------------------- MODULE Text --------------------------------
(***************************************************************************)
(* What buffer.h promises: a text that grows at its end and can be emptied.*)
(***************************************************************************)
EXTENDS Sequences

CONSTANTS Chars,
          Strings        \* what may be appended at once

VARIABLE text

Init == text = << >>

AppendChar(c)  == text' = Append(text, c)
AppendText(cs) == text' = text \o cs
Reset          == text' = << >>

Next == (\E c \in Chars : AppendChar(c)) \/ (\E cs \in Strings : AppendText(cs)) \/ Reset

Spec == Init /\ [][Next]_text
=============================================================================
