-------------------------------- MODULE Lexer -------------------------------
(***************************************************************************)
(* lexer.c: lexer_next_token called again and again, as cmd_lex and        *)
(* next_token of the parser do, until it returns 0.                        *)
(*                                                                         *)
(* "mode" says where in the functions of lexer.c the lexer is; a loop over *)
(* characters is an action repeated, what is read without a loop is one.   *)
(* buffer holds the characters of a number, a name or a comment, and the   *)
(* codes of a string.  "tokens" is the history of what was returned.       *)
(***************************************************************************)
EXTENDS CharStream, Lexemes

CONSTANTS Files, MaxIdent,   \* 200
          FirstTypes         \* the type found in the struct token of the first call

ASSUME FilesAssumption == \A f \in Files : f \in Seq({f[k] : k \in DOMAIN f})

\* The character 0 is none of those lexer.c asks for.
ASSUME NulAssumption ==
  Nul \notin Letters \cup Range(Decimal) \cup
          {"\n", "\r", "\t", " ", "_", "\"", "'", "\\", "?", "/", "(", ")", "[", "]", "{", "}",
           ",", "~", ";", "*", "!", "=", "^", "+", "|", "&", ":", "%", "<", ">", "-", "."}

\* The keywords of tokens.def have types of their own.
ASSUME KeywordsAssumption ==
  {"COMMENT", "IDENT", "INT_CONST", "FLOAT_CONST", "STRING_CONST", "ERROR"} \cap Range(Keywords) = {}

VARIABLES mode, token, quote, buffer, base, result, digits, tokens

vars == << file, in, mode, token, quote, buffer, base, result, digits, tokens >>

Init ==
  /\ file \in Files
  /\ in = GetChar(GetChar(Opened))
  /\ mode = "start"
  /\ \E type \in FirstTypes : token = [type |-> type, line |-> 0, column |-> 0]
  /\ quote = Nul /\ buffer = << >> /\ base = 10 /\ result = 0 /\ digits = 0
  /\ tokens = << >>

cur == in.cur_char

\* A slip: the column is not set back.
OnNextLine(s) == IF s.cur_char = "\n" THEN [s EXCEPT !.line = s.line + 1] ELSE s

\* skip_ws, at one character.
OverSpace(s) == IF s.cur_char = "\n" THEN [s EXCEPT !.line = s.line + 1, !.column = 0] ELSE s

\* A slip: the caller is not told.
FailOn(s) ==
  /\ mode' = "start" /\ in' = s /\ token' = [token EXCEPT !.type = "ERROR"]
  /\ UNCHANGED << file, quote, buffer, base, result, digits, tokens >>

\* lexer_error, and the return of 0 that ends the reading.
Fail(s) ==
  /\ mode' = "failed" /\ in' = s /\ token' = [token EXCEPT !.type = "ERROR"]
  /\ UNCHANGED << file, quote, buffer, base, result, digits, tokens >>

\* A slip: the text is not cut off before the character ahead.
WholeText(s) == s.text_buffer

\* get_token_text: without the last character, the one ahead of the token.
TokenText(s) == SubSeq(s.text_buffer, 1, Len(s.text_buffer) - 1)

\* lexer_next_token returns the token, and is called again.
Emit(type, value, s) ==
  /\ token' = [token EXCEPT !.type = type]
  /\ tokens' = Append(tokens,
       [type |-> type, value |-> value, line |-> token.line, column |-> token.column,
        text |-> TokenText(s), from |-> s.start])
  /\ mode' = "start" /\ in' = s
  /\ UNCHANGED << file, quote, buffer, base, result, digits >>

Goto(m, s) == mode' = m /\ in' = s

\* A loop takes one more character into the buffer.
Keep(c) ==
  /\ in' = GetChar(in) /\ buffer' = Append(buffer, c)
  /\ UNCHANGED << file, mode, token, quote, base, result, digits, tokens >>

----------------------------------------------------------------------------
(* lexer_next_token *)

SkipWs ==
  /\ mode \in {"start", "after_string"} /\ IsWhitespace(cur)
  /\ in' = GetChar(OverSpace(in))
  /\ UNCHANGED << file, mode, token, quote, buffer, base, result, digits, tokens >>

Starts(c, next) ==
  CASE IsDigit(c)                 -> "scalar"
    [] IsIdentStart(c)            -> "ident"
    [] c \in {"\"", "'"}          -> "string"
    [] c = "." /\ IsDigit(next)   -> "float"
    [] c = Nul                    -> "end"
    [] c = "/" /\ next = "/"      -> "line_comment"
    [] c = "/" /\ next = "*"      -> "comment"
    [] OTHER                      -> "punctuator"

\* The text starts at the character the lexer is at.  The two kinds of comment skip their
\* opening characters.
BeginToken ==
  /\ mode = "start" /\ ~ IsWhitespace(cur)
  /\ LET s == [in EXCEPT !.text_buffer = << cur >>, !.start = in.taken - 1]
         m == Starts(cur, in.next_char)
     IN Goto(m, IF m \in {"line_comment", "comment"} THEN GetChar(GetChar(s)) ELSE s)
  /\ token' = [token EXCEPT !.line = in.line, !.column = in.column]
  /\ quote' = cur /\ buffer' = << >>
  /\ UNCHANGED << file, base, result, digits, tokens >>

EndOfStream ==
  /\ mode = "end" /\ Goto("done", in)
  /\ token' = [token EXCEPT !.type = "EOS"]
  /\ UNCHANGED << file, quote, buffer, base, result, digits, tokens >>

----------------------------------------------------------------------------
(* get_scalar, get_float_part *)

BeginScalar ==
  /\ mode = "scalar"
  /\ LET b == IF cur # "0" THEN 10
              ELSE IF in.next_char \in {"x", "X"} THEN 16
              ELSE IF IsDigit(in.next_char) THEN 8 ELSE 10
         s == CASE b = 16 -> GetChar(GetChar(in)) [] b = 8 -> GetChar(in) [] b = 10 -> in
     IN IF IsDigitEx(s.cur_char, b)
        THEN /\ Goto("digits", s) /\ base' = b /\ result' = 0
             /\ UNCHANGED << file, token, quote, buffer, digits, tokens >>
        ELSE Fail(s)

\* A slip: the sum is kept without wrapping.
AddDigitUnwrapped ==
  /\ mode = "digits" /\ IsDigitEx(cur, base)
  /\ result' = result * base + DigitValue(cur)
  /\ in' = GetChar(in) /\ buffer' = Append(buffer, cur)
  /\ UNCHANGED << file, mode, token, quote, base, digits, tokens >>

AddDigit ==
  /\ mode = "digits" /\ IsDigitEx(cur, base)
  /\ result' = Wrap(result * base + DigitValue(cur))
  /\ in' = GetChar(in) /\ buffer' = Append(buffer, cur)
  /\ UNCHANGED << file, mode, token, quote, base, digits, tokens >>

EndDigits ==
  /\ mode = "digits" /\ ~ IsDigitEx(cur, base)
  /\ IF base = 8 /\ IsDigit(cur) THEN Fail(in)
     ELSE IF base = 10 /\ cur \in {".", "e", "E"}
     THEN Goto("float", in) /\ UNCHANGED << file, token, quote, buffer, base, result, digits, tokens >>
     ELSE /\ Goto("suffix", in) /\ buffer' = << >>
          /\ UNCHANGED << file, token, quote, base, result, digits, tokens >>

TakeSuffix == mode = "suffix" /\ IsAlpha(cur) /\ Keep(cur)

EndSuffix ==
  /\ mode = "suffix" /\ ~ IsAlpha(cur)
  /\ IF buffer # << >> THEN Fail(in) ELSE Emit("INT_CONST", result, in)

Point ==
  /\ mode = "float"
  /\ IF cur # "." THEN Goto("exponent", in) /\ UNCHANGED buffer
     ELSE LET s == GetChar(in)
          IN /\ buffer' = Append(buffer, ".")
             /\ Goto(IF IsDigit(s.cur_char) \/ Len(buffer') = 1 THEN "fraction" ELSE "exponent", s)
  /\ UNCHANGED << file, token, quote, base, result, digits, tokens >>

\* read_dec_number, whose caller has made sure of the first digit where it calls it for a
\* fraction.
TakeDigit == mode \in {"fraction", "power"} /\ IsDigit(cur) /\ Keep(cur)

\* The type tells whether read_dec_number failed; nobody has set it for this token.
EndNumber ==
  /\ mode \in {"fraction", "power"} /\ ~ IsDigit(cur)
  /\ IF token.type = "ERROR" THEN Fail(in)
     ELSE /\ Goto(IF mode = "fraction" THEN "exponent" ELSE "float_end", in)
          /\ UNCHANGED << file, token, quote, buffer, base, result, digits, tokens >>

\* A slip: a digit is asked for before the sign.
ExponentUnsigned ==
  /\ mode = "exponent"
  /\ IF cur \notin {"e", "E"}
     THEN Goto("float_end", in) /\ UNCHANGED << file, token, quote, buffer, base, result, digits, tokens >>
     ELSE LET s == GetChar(in)
          IN IF ~ IsDigit(s.cur_char) THEN Fail(s)
             ELSE /\ Goto("power", s) /\ buffer' = Append(buffer, "e")
                  /\ UNCHANGED << file, token, quote, base, result, digits, tokens >>

Exponent ==
  /\ mode = "exponent"
  /\ IF cur \notin {"e", "E"}
     THEN Goto("float_end", in) /\ UNCHANGED << file, token, quote, buffer, base, result, digits, tokens >>
     ELSE LET s == GetChar(in)
              signed == s.cur_char \in {"+", "-"}
              t == IF signed THEN GetChar(s) ELSE s
          IN IF ~ IsDigit(t.cur_char) THEN Fail(t)
             ELSE /\ Goto("power", t)
                  /\ buffer' = buffer \o << "e" >> \o IF signed THEN << s.cur_char >> ELSE << >>
                  /\ UNCHANGED << file, token, quote, base, result, digits, tokens >>

\* The value is what sscanf makes of the buffer.
EndFloat == mode = "float_end" /\ Emit("FLOAT_CONST", buffer, in)

----------------------------------------------------------------------------
(* get_ident, get_line_comment, get_multiline_comment *)

TakeIdent == mode = "ident" /\ IsIdent(cur) /\ Keep(cur)

EndIdent ==
  /\ mode = "ident" /\ ~ IsIdent(cur)
  /\ IF Len(buffer) > MaxIdent THEN Fail(in)
     ELSE IF buffer \in DOMAIN Keywords THEN Emit(Keywords[buffer], << >>, in)
     ELSE Emit("IDENT", buffer, in)

TakeLineComment == mode = "line_comment" /\ cur # Nul /\ ~ IsNewline(cur) /\ Keep(cur)

EndLineComment ==
  mode = "line_comment" /\ (cur = Nul \/ IsNewline(cur)) /\ Emit("COMMENT", buffer, in)

AtCommentEnd == cur = "*" /\ in.next_char = "/"

\* A slip: the end of the file is not looked for, and the reading goes on behind it.
TakeCommentOn ==
  /\ mode = "comment" /\ ~ AtCommentEnd
  /\ in' = GetChar(in)
  /\ UNCHANGED << file, mode, token, quote, buffer, base, result, digits, tokens >>

\* Lines are counted here, and the column runs on.
TakeComment ==
  /\ mode = "comment" /\ cur # Nul /\ ~ AtCommentEnd
  /\ in' = GetChar(IF cur = "\n" THEN [in EXCEPT !.line = in.line + 1] ELSE in)
  /\ buffer' = Append(buffer, cur)
  /\ UNCHANGED << file, mode, token, quote, base, result, digits, tokens >>

EndComment ==
  /\ mode = "comment" /\ (cur = Nul \/ AtCommentEnd)
  /\ IF cur # "*" THEN Fail(in) ELSE Emit("COMMENT", buffer, GetChar(GetChar(in)))

----------------------------------------------------------------------------
(* get_string, get_single_string *)

OpenString ==
  /\ mode = "string" /\ cur = quote
  /\ Goto("chars", GetChar(in)) /\ token' = [token EXCEPT !.type = "STRING_CONST"]
  /\ UNCHANGED << file, quote, buffer, base, result, digits, tokens >>

TakeChar ==
  mode = "chars" /\ cur \notin {quote, "\\", Nul} /\ ~ IsNewline(cur) /\ Keep(Code[cur])

CloseString ==
  /\ mode = "chars" /\ (cur \in {quote, Nul} \/ IsNewline(cur))
  /\ IF cur # quote THEN Fail(in)
     ELSE /\ Goto("after_string", GetChar(in))
          /\ UNCHANGED << file, token, quote, buffer, base, result, digits, tokens >>

Escaped(code, s) ==
  /\ Goto("chars", s) /\ buffer' = Append(buffer, code)
  /\ UNCHANGED << file, token, quote, base, result, digits, tokens >>

Backslash ==
  /\ mode = "chars" /\ cur = "\\" /\ Goto("escape", GetChar(in))
  /\ UNCHANGED << file, token, quote, buffer, base, result, digits, tokens >>

SimpleEscape ==
  /\ mode = "escape" /\ cur \in DOMAIN Escapes
  /\ Escaped(Escapes[cur], GetChar(in))

BeginHex ==
  /\ mode = "escape" /\ cur = "x" /\ Goto("hex", GetChar(in))
  /\ UNCHANGED << file, token, quote, buffer, base, result, digits, tokens >>

HexEscape ==
  /\ mode = "hex"
  /\ IF ~ IsHexdigit(cur) THEN Fail(in)
     ELSE IF IsHexdigit(in.next_char)
     THEN Escaped(DigitValue(cur) * 16 + DigitValue(in.next_char), GetChar(GetChar(in)))
     ELSE Escaped(DigitValue(cur), GetChar(in))

BeginOctal ==
  /\ mode = "escape" /\ cur \notin DOMAIN Escapes \cup {"x"}
  /\ IF ~ IsOctdigit(cur) THEN Fail(in)
     ELSE /\ Goto("octal", in) /\ result' = 0 /\ digits' = 0
          /\ UNCHANGED << file, token, quote, buffer, base, tokens >>

\* A slip: the digits are summed up in base ten.
AddOctalInTens ==
  /\ mode = "octal" /\ digits < 3 /\ IsOctdigit(cur)
  /\ result' = result * 10 + DigitValue(cur) /\ digits' = digits + 1 /\ in' = GetChar(in)
  /\ UNCHANGED << file, mode, token, quote, buffer, base, tokens >>

AddOctal ==
  /\ mode = "octal" /\ digits < 3 /\ IsOctdigit(cur)
  /\ result' = result * 8 + DigitValue(cur) /\ digits' = digits + 1 /\ in' = GetChar(in)
  /\ UNCHANGED << file, mode, token, quote, buffer, base, tokens >>

OctalEscape ==
  /\ mode = "octal" /\ (digits = 3 \/ ~ IsOctdigit(cur))
  /\ IF result > 255 THEN Fail(in) ELSE Escaped(result, in)

\* Behind the space after a string the next one goes on with it.
NextString ==
  /\ mode = "after_string" /\ ~ IsWhitespace(cur)
  /\ Goto("string", in)
  /\ UNCHANGED << file, token, quote, buffer, base, result, digits, tokens >>

\* The character of a constant is a signed char.
SignedChar(code) == IF code > 127 THEN code - 256 ELSE code

EndString ==
  /\ mode = "string" /\ cur # quote
  /\ IF quote = "\"" THEN Emit("STRING_CONST", buffer, in)
     ELSE IF Len(buffer) # 1 THEN Fail(in)
     ELSE Emit("INT_CONST", SignedChar(buffer[1]), in)

----------------------------------------------------------------------------
(* get_punctuator_type: the type, and the stream behind the token *)

OneWay(s, t) == [type |-> t, at |-> GetChar(s)]

TwoWay(s, t1, t2) == IF s.next_char = "=" THEN OneWay(GetChar(s), t2) ELSE OneWay(s, t1)

ThreeWay(s, t1, t2, t3) ==
  IF s.next_char = s.cur_char THEN OneWay(GetChar(s), t3) ELSE TwoWay(s, t1, t2)

Singles ==
  [c \in {"(", ")", "[", "]", "{", "}", ",", "~", "?", ";"} |->
     CASE c = "(" -> "LPAREN"   [] c = ")" -> "RPAREN"   [] c = "[" -> "LBRACKET"
       [] c = "]" -> "RBRACKET" [] c = "{" -> "LBRACE"   [] c = "}" -> "RBRACE"
       [] c = "," -> "COMMA"    [] c = "~" -> "TILDE"    [] c = "?" -> "QUESTION"
       [] c = ";" -> "SEMICOLON"]

Doubles ==
  [c \in {"/", "*", "!", "=", "^"} |->
     CASE c = "/" -> << "DIV_OP", "DIV_ASSIGN" >>   [] c = "*" -> << "STAR", "MUL_ASSIGN" >>
       [] c = "!" -> << "NEG_OP", "NOT_EQUAL_OP" >> [] c = "=" -> << "ASSIGN", "EQUAL_OP" >>
       [] c = "^" -> << "BIT_XOR_OP", "BIT_XOR_ASSIGN" >>]

Triples ==
  [c \in {"+", "|", "&"} |->
     CASE c = "+" -> << "ADD_OP", "ADD_ASSIGN", "INC_OP" >>
       [] c = "|" -> << "BIT_OR_OP", "BIT_OR_ASSIGN", "OR_OP" >>
       [] c = "&" -> << "AMP", "BIT_AND_ASSIGN", "AND_OP" >>]

\* A slip: of two points both are taken.
DotsTaken(s) ==
  LET t == GetChar(s) IN
  IF s.next_char # "." THEN OneWay(s, "DOT")
  ELSE IF t.next_char = "." THEN OneWay(GetChar(t), "ELLIPSIS")
  ELSE OneWay(t, "DOT")

\* Of two points the second is left to the next token.
Dots(s) ==
  LET t == GetChar(s) IN
  IF s.next_char # "." THEN OneWay(s, "DOT")
  ELSE IF t.next_char = "." THEN OneWay(GetChar(t), "ELLIPSIS")
  ELSE [type |-> "DOT", at |-> t]

Punctuator(s) ==
  LET c == s.cur_char
      n == s.next_char
  IN CASE c \in DOMAIN Singles -> OneWay(s, Singles[c])
       [] c \in DOMAIN Doubles -> TwoWay(s, Doubles[c][1], Doubles[c][2])
       [] c \in DOMAIN Triples -> ThreeWay(s, Triples[c][1], Triples[c][2], Triples[c][3])
       [] c = ":" -> IF n = ">" THEN OneWay(GetChar(s), "RBRACKET") ELSE OneWay(s, "COLON")
       [] c = "%" -> IF n = ">" THEN OneWay(GetChar(s), "RBRACE")
                     ELSE TwoWay(s, "MOD_OP", "MOD_ASSIGN")
       [] c = "<" -> IF n = "<" THEN TwoWay(GetChar(s), "LSHIFT_OP", "LSHIFT_ASSIGN")
                     ELSE IF n = ":" THEN OneWay(GetChar(s), "LBRACKET")
                     ELSE IF n = "%" THEN OneWay(GetChar(s), "LBRACE")
                     ELSE TwoWay(s, "LT_OP", "LE_OP")
       [] c = ">" -> IF n = ">" THEN TwoWay(GetChar(s), "RSHIFT_OP", "RSHIFT_ASSIGN")
                     ELSE TwoWay(s, "GT_OP", "GE_OP")
       [] c = "-" -> IF n = ">" THEN OneWay(GetChar(s), "REF_OP")
                     ELSE ThreeWay(s, "SUB_OP", "SUB_ASSIGN", "DEC_OP")
       [] c = "." -> Dots(s)
       [] OTHER   -> [type |-> "ERROR", at |-> s]

TakePunctuator ==
  /\ mode = "punctuator"
  /\ LET p == Punctuator(in) IN
     IF p.type = "ERROR" THEN Fail(p.at) ELSE Emit(p.type, << >>, p.at)

----------------------------------------------------------------------------
Next ==
  \/ SkipWs \/ BeginToken \/ EndOfStream
  \/ BeginScalar \/ AddDigit \/ EndDigits \/ TakeSuffix \/ EndSuffix
  \/ Point \/ TakeDigit \/ EndNumber \/ Exponent \/ EndFloat
  \/ TakeIdent \/ EndIdent
  \/ TakeLineComment \/ EndLineComment \/ TakeComment \/ EndComment
  \/ OpenString \/ TakeChar \/ CloseString \/ NextString \/ EndString
  \/ Backslash \/ SimpleEscape \/ BeginHex \/ HexEscape
  \/ BeginOctal \/ AddOctal \/ OctalEscape
  \/ TakePunctuator

\* The lexer has nothing to wait for: it goes on until it returns 0.
Spec == Init /\ [][Next]_vars /\ WF_vars(Next)

----------------------------------------------------------------------------
(* Properties *)

Modes == {"start", "scalar", "digits", "suffix", "float", "fraction", "exponent", "power",
          "float_end", "ident", "line_comment", "comment", "string", "chars", "after_string",
          "escape", "hex", "octal", "punctuator", "end", "done", "failed"}

\* The values the lexer's variables take.
TypeOK ==
  /\ mode \in Modes /\ base \in {8, 10, 16} /\ digits \in 0 .. 3
  /\ mode \in {"digits", "suffix"} => result \in Words
  /\ in.line \in Nat \ {0} /\ in.column \in Int /\ in.taken \in Nat

\* The block, the two characters the lexer decides by and the text it collects are those
\* of the file at the place it is at, wherever the blocks of the stream end.
WindowOnFile == BlockOnFile(in) /\ WindowOn(in)

\* get_char is not called once the 0 behind the last character is cur_char: the loops over
\* characters all end there.
NotPastEnd == in.taken <= Len(file) + 2

EndOf(tok) == tok.from + Len(tok.text)
EndBefore(i) == IF i = 1 THEN 1 ELSE EndOf(tokens[i - 1])

\* The text of a token is the file where the token was found; no character of the file is
\* in two tokens, and only white space is in none.
TokensCoverFile ==
  /\ \A i \in DOMAIN tokens :
        /\ tokens[i].text = Span(tokens[i].from, EndOf(tokens[i]))
        /\ EndBefore(i) <= tokens[i].from
        /\ \A k \in EndBefore(i) .. tokens[i].from - 1 : IsWhitespace(At(k))
  /\ mode = "done" =>
        \A k \in EndBefore(Len(tokens) + 1) .. Len(file) : IsWhitespace(At(k))

InComment(k) ==
  \E i \in DOMAIN tokens :
     tokens[i].type = "COMMENT" /\ tokens[i].from <= k /\ k < EndOf(tokens[i])

\* An error in a token is reported at the token's line, and at its place in that line
\* counted from the last line break that is not inside a comment.
PositionsAreTrue ==
  \A i \in DOMAIN tokens :
     LET breaks == {k \in 1 .. tokens[i].from - 1 : At(k) = "\n"}
         seen   == {k \in breaks : ~ InComment(k)} \cup {0}
     IN /\ tokens[i].line = 1 + Cardinality(breaks)
        /\ tokens[i].column = tokens[i].from - Max(seen)

Delimited == {"COMMENT", "STRING_CONST"}
IsQuoted(tok) == tok.type = "STRING_CONST" \/ tok.text[1] = "'"

\* A token that is not a string or a comment is one of the language, of the type that is
\* returned, and no longer token begins where it does: a float is not two numbers, >>= is
\* one operator, two points are two.  Said of the token returned last.
MaximalMunch ==
  mode = "start" /\ tokens # << >> =>
     LET tok == Last(tokens) IN
     tok.type \notin Delimited /\ ~ IsQuoted(tok) =>
        /\ IsLexeme(tok.text, tok.type)
        /\ \A k \in EndOf(tok) + 1 .. Len(file) + 1 : ~ IsToken(Span(tok.from, k))

\* What is handed to the parser is what the text means: an integer constant of any base,
\* wrapped to an int, and the characters of a string after its escape sequences, those of
\* adjacent strings in one.  Said of the token returned last.
ValuesAreRead ==
  mode = "start" /\ tokens # << >> =>
     LET tok == Last(tokens) IN
     IF IsQuoted(tok)
     THEN LET codes == Meaning(tok.text, tok.text[1]) IN
          tok.value = IF tok.type = "STRING_CONST" THEN codes ELSE SignedChar(codes[1])
     ELSE tok.type = "INT_CONST" => tok.value = Wrap(IntValue(tok.text))

\* How far the longest token from a place in the file goes.
LongestFrom(n) ==
  Max({k \in n .. Len(file) : IsToken(Span(n, k + 1))} \cup {n - 1})

MalformedNumber ==
  LET n == in.start
      c == At(LongestFrom(n) + 1)
  IN IsAlpha(c) \/ IsDigit(c)

BeginsNumber == IsDigit(At(in.start)) \/ (At(in.start) = "." /\ IsDigit(At(in.start + 1)))

\* A number is refused only where a letter or a digit is behind the longest number that
\* can be read there.  The first token is left out: see FloatConstantsAreTokens.
NumbersRefusedRightly ==
  mode = "failed" /\ BeginsNumber /\ (tokens # << >> \/ token.type \notin FirstTypes)
     => MalformedNumber

\* The first token too.
FloatConstantsAreTokens == mode = "failed" /\ BeginsNumber => MalformedNumber

\* Reading a file comes to an end, at the end of the file or with an error.
Termination == <>(mode \in {"done", "failed"})
=============================================================================
