------------------------------ MODULE Lexemes -------------------------------
(***************************************************************************)
(* The characters of a program text and what its tokens look like: the     *)
(* classes of characters lexer.c tests for, and, as a reference for the    *)
(* lexer, which sequences of characters are one token and what they mean.  *)
(* A character is a string of length one.                                  *)
(***************************************************************************)
EXTENDS Word, Sequences, SequencesExt

CONSTANTS Code,          \* of a character: a number, 0 to 255
          Keywords       \* a function from names to types of token

Decimal == << "0", "1", "2", "3", "4", "5", "6", "7", "8", "9" >>
LowHex  == << "a", "b", "c", "d", "e", "f" >>
HighHex == << "A", "B", "C", "D", "E", "F" >>

Letters == { "a", "b", "c", "d", "e", "f", "g", "h", "i", "j", "k", "l", "m",
             "n", "o", "p", "q", "r", "s", "t", "u", "v", "w", "x", "y", "z",
             "A", "B", "C", "D", "E", "F", "G", "H", "I", "J", "K", "L", "M",
             "N", "O", "P", "Q", "R", "S", "T", "U", "V", "W", "X", "Y", "Z" }

IsDigit(c)    == \E k \in 1 .. 10 : c = Decimal[k]
IsOctdigit(c) == \E k \in 1 .. 8 : c = Decimal[k]
IsHexdigit(c) == IsDigit(c) \/ (\E k \in 1 .. 6 : c \in {LowHex[k], HighHex[k]})

IsDigitEx(c, base) ==
  CASE base = 10 -> IsDigit(c) [] base = 8 -> IsOctdigit(c) [] base = 16 -> IsHexdigit(c)

IsAlpha(c)      == c \in Letters
IsIdentStart(c) == IsAlpha(c) \/ c = "_"
IsIdent(c)      == IsIdentStart(c) \/ IsDigit(c)
IsNewline(c)    == c \in {"\n", "\r"}
IsWhitespace(c) == IsNewline(c) \/ c \in {"\t", " "}

DigitValue(c) ==
  IF IsDigit(c) THEN (CHOOSE k \in 1 .. 10 : c = Decimal[k]) - 1
  ELSE (CHOOSE k \in 1 .. 6 : c \in {LowHex[k], HighHex[k]}) + 9

----------------------------------------------------------------------------
(* Which texts are one token *)

All(s, Class(_)) == \A k \in DOMAIN s : Class(s[k])
Tail2(s) == SubSeq(s, 3, Len(s))

IsName(s) == s # << >> /\ IsIdentStart(s[1]) /\ All(s, IsIdent)

IsDecimal(s) == s # << >> /\ All(s, IsDigit) /\ (Len(s) > 1 => s[1] # "0")
IsOctal(s)   == Len(s) > 1 /\ s[1] = "0" /\ All(s, IsOctdigit)
IsHex(s)     == Len(s) > 2 /\ s[1] = "0" /\ s[2] \in {"x", "X"} /\ All(Tail2(s), IsHexdigit)

IsPower(s) ==
  /\ Len(s) > 1 /\ s[1] \in {"e", "E"}
  /\ LET digits == IF s[2] \in {"+", "-"} THEN Tail2(s) ELSE Tail(s)
     IN digits # << >> /\ All(digits, IsDigit)

\* A whole part that does not begin with a needless 0, a fraction and a power of ten, of
\* which the whole part or a digit of the fraction, and the point or the power, are there.
IsFloat(s) ==
  \E i \in 0 .. Len(s) : \E j \in i .. Len(s) :
     LET whole    == SubSeq(s, 1, i)
         fraction == SubSeq(s, i + 1, j)
         power    == SubSeq(s, j + 1, Len(s))
     IN /\ whole = << >> \/ IsDecimal(whole)
        /\ fraction = << >> \/ (fraction[1] = "." /\ All(Tail(fraction), IsDigit))
        /\ power = << >> \/ IsPower(power)
        /\ whole # << >> \/ Len(fraction) > 1
        /\ fraction # << >> \/ power # << >>

\* tokens.def has no spellings: these are the ones of C, two-character substitutes included.
SpelledByOne == {
  << "LPAREN", "(" >>, << "RPAREN", ")" >>, << "LBRACKET", "[" >>, << "RBRACKET", "]" >>,
  << "LBRACE", "{" >>, << "RBRACE", "}" >>, << "COMMA", "," >>, << "TILDE", "~" >>,
  << "QUESTION", "?" >>, << "SEMICOLON", ";" >>, << "COLON", ":" >>, << "DOT", "." >>,
  << "ADD_OP", "+" >>, << "SUB_OP", "-" >>, << "STAR", "*" >>, << "DIV_OP", "/" >>,
  << "MOD_OP", "%" >>, << "AMP", "&" >>, << "BIT_OR_OP", "|" >>, << "BIT_XOR_OP", "^" >>,
  << "NEG_OP", "!" >>, << "LT_OP", "<" >>, << "GT_OP", ">" >>, << "ASSIGN", "=" >> }

SpelledByTwo == {
  << "LBRACKET", "<", ":" >>, << "RBRACKET", ":", ">" >>, << "LBRACE", "<", "%" >>,
  << "RBRACE", "%", ">" >>, << "REF_OP", "-", ">" >>, << "INC_OP", "+", "+" >>,
  << "DEC_OP", "-", "-" >>, << "LSHIFT_OP", "<", "<" >>, << "RSHIFT_OP", ">", ">" >>,
  << "LE_OP", "<", "=" >>, << "GE_OP", ">", "=" >>, << "EQUAL_OP", "=", "=" >>,
  << "NOT_EQUAL_OP", "!", "=" >>, << "AND_OP", "&", "&" >>, << "OR_OP", "|", "|" >>,
  << "MUL_ASSIGN", "*", "=" >>, << "DIV_ASSIGN", "/", "=" >>, << "MOD_ASSIGN", "%", "=" >>,
  << "ADD_ASSIGN", "+", "=" >>, << "SUB_ASSIGN", "-", "=" >>, << "BIT_AND_ASSIGN", "&", "=" >>,
  << "BIT_OR_ASSIGN", "|", "=" >>, << "BIT_XOR_ASSIGN", "^", "=" >> }

SpelledByThree == {
  << "ELLIPSIS", ".", ".", "." >>, << "LSHIFT_ASSIGN", "<", "<", "=" >>,
  << "RSHIFT_ASSIGN", ">", ">", "=" >> }

Punctuators == SpelledByOne \cup SpelledByTwo \cup SpelledByThree

IsLexeme(s, type) ==
  CASE type = "INT_CONST"   -> IsDecimal(s) \/ IsOctal(s) \/ IsHex(s)
    [] type = "FLOAT_CONST" -> IsFloat(s)
    [] type = "IDENT"       -> IsName(s) /\ s \notin DOMAIN Keywords
    [] OTHER -> \/ << type >> \o s \in Punctuators
                \/ s \in DOMAIN Keywords /\ Keywords[s] = type

IsToken(s) ==
  \/ IsName(s) \/ IsDecimal(s) \/ IsOctal(s) \/ IsHex(s) \/ IsFloat(s)
  \/ \E p \in Punctuators : Tail(p) = s

----------------------------------------------------------------------------
(* What they mean *)

\* An integer constant, as C would read it in a type without bounds.
ValueIn(s, base) ==
  LET value[k \in 0 .. Len(s)] ==
        IF k = 0 THEN 0 ELSE value[k - 1] * base + DigitValue(s[k])
  IN value[Len(s)]

IntValue(s) ==
  IF IsHex(s) THEN ValueIn(Tail2(s), 16) ELSE ValueIn(s, IF IsOctal(s) THEN 8 ELSE 10)

\* The character after the \ of an escape sequence.
Escapes ==
  LET controls == [a |-> 7, b |-> 8, f |-> 12, n |-> 10, r |-> 13, t |-> 9, v |-> 11]
  IN [c \in {"'", "\"", "\\", "?"} \cup DOMAIN controls |->
        IF c \in DOMAIN controls THEN controls[c] ELSE Code[c]]

\* The digits s goes on with at k, up to a number of them.
Fits(s, k, base, n) == k + n - 1 <= Len(s) /\ \A i \in k .. k + n - 1 : IsDigitEx(s[i], base)

Run(s, k, base, limit) ==
  SubSeq(s, k, k + Max({n \in 0 .. limit : Fits(s, k, base, n)}) - 1)

\* The code of the character or the escape sequence at k, and where the next one is.  An
\* escape sequence is as long as it can be: three octal digits, two of base 16.
Piece(s, k) ==
  LET hex == Run(s, k + 2, 16, 2)
      oct == Run(s, k + 1, 8, 3)
  IN IF s[k] # "\\"      THEN [code |-> Code[s[k]], next |-> k + 1]
     ELSE IF s[k + 1] = "x" THEN [code |-> ValueIn(hex, 16), next |-> k + 2 + Len(hex)]
     ELSE IF oct # << >>    THEN [code |-> ValueIn(oct, 8), next |-> k + 1 + Len(oct)]
     ELSE [code |-> Escapes[s[k + 1]], next |-> k + 2]

\* The codes of the text of one or more quoted strings, with the space between them.  A
\* quote leads from one side of itself to the other.
Across(side) == IF side = "inside" THEN "outside" ELSE "inside"

Meaning(s, quote) ==
  LET codes[k \in 1 .. Len(s) + 1] ==
        [side \in {"inside", "outside"} |->
           IF k > Len(s) THEN << >>
           ELSE IF s[k] = quote THEN codes[k + 1][Across(side)]
           ELSE IF side = "outside" THEN codes[k + 1]["outside"]
           ELSE << Piece(s, k).code >> \o codes[Piece(s, k).next]["inside"]]
  IN codes[1]["outside"]
=============================================================================
