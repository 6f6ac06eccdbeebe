---------------------------- MODULE LexerProofs -----------------------------
(***************************************************************************)
(* What the lexer makes of every file, for every size of the stream's      *)
(* blocks: the invariants WindowOnFile, NotPastEnd, TokensCoverFile,       *)
(* PositionsAreTrue, TypeOK, MaximalMunch, NumbersRefusedRightly and       *)
(* ValuesAreRead of Lexer.  The first part shows that the lexer sees its   *)
(* file; the rest stands on it and goes on in this order:                  *)
(*   Moded       what mode the lexer can be in over what characters, and   *)
(*               that it is not behind the end of the file;                *)
(*   Covered     the tokens, the one that is being read and white space    *)
(*               cover the file as far as it has been read;                *)
(*   Positioned  the line and the column are those of the place;           *)
(*   Summed      a number that is being added up is in range;              *)
(*   Munching    what has been read of a token is as much of it as its     *)
(*               mode stands for, and no token can go on where it ends;    *)
(*   Valued      what has been summed up and collected is the value of as  *)
(*               much as has been read.                                    *)
(* Of the many steps of the lexer, only four kinds have to be told apart   *)
(* for the first four (StepKinds): one that goes on over characters of a   *)
(* line, one that returns a token, one that gives up, and the few that may *)
(* go over a line break.  Munching takes every step by itself; it stands   *)
(* on what the texts of the reference are by the places of the file: which *)
(* of them begin at a place, and how far they can go.                      *)
(* Valued stands on what the value of a text is when a character is added  *)
(* to it, which takes an induction over the numbers (NumbersFollow).       *)
(***************************************************************************)
EXTENDS Lexer, FiniteSetTheorems, SequenceTheorems, WellFoundedInduction, TLAPS

IsFile == file \in Seq({file[k] : k \in DOMAIN file})

\* The stream is where WindowOnFile says it is, and its fields have their types.
InStep(s) == s \in Streams /\ BlockOnFile(s) /\ WindowOn(s)

\* fread returns the characters behind those it has returned, some unless none are left.
LEMMA BlockFollows ==
  ASSUME IsFile, NEW n \in 0 .. Len(file)
  PROVE  /\ Block(n) \in Seq(Symbols)
         /\ n + Len(Block(n)) \in n .. Len(file)
         /\ Block(n) = << >> => n = Len(file)
         /\ \A k \in DOMAIN Block(n) : Block(n)[k] = file[n + k]
<1> DEFINE m == IF n + StreamSize < Len(file) THEN n + StreamSize ELSE Len(file)
<1>1. Len(file) \in Nat /\ m \in n .. Len(file) /\ (m = n => n = Len(file))
  BY StreamAssumption DEF IsFile
<1>2. file \in Seq(Symbols)
  BY DEF IsFile, Symbols
<1>3. Block(n) = SubSeq(file, n + 1, m)
  BY DEF Block
<1>4. /\ SubSeq(file, n + 1, m) \in Seq(Symbols)
      /\ Len(SubSeq(file, n + 1, m)) = m - n
      /\ \A k \in 1 .. m - n : SubSeq(file, n + 1, m)[k] = file[n + k]
  BY <1>1, <1>2
<1>5. DOMAIN Block(n) = 1 .. m - n
  BY <1>1, <1>3, <1>4
<1>6. Block(n) \in Seq(Symbols) /\ Len(Block(n)) = m - n
  BY <1>3, <1>4
<1>7. Block(n) = << >> => m = n
  BY <1>1, <1>6
<1>8. \A k \in DOMAIN Block(n) : Block(n)[k] = file[n + k]
  BY <1>3, <1>4, <1>5
<1> HIDE DEF m
<1> QED
  BY <1>1, <1>6, <1>7, <1>8

\* The text grows by the character the lexer comes to.
LEMMA SpanGrows ==
  ASSUME NEW a \in Nat, NEW b \in Nat, a <= b
  PROVE  Append(Span(a, b), At(b)) = Span(a, b + 1)
  BY DEF Span

\* What the updates of the record do to its fields.
LEMMA ReadStreamFields ==
  ASSUME NEW s \in Streams, NEW b \in Seq(Symbols), b = Block(s.offset),
         s.offset + Len(b) \in Nat, NEW t, t = ReadStream(s)
  PROVE  /\ t \in Streams /\ t.stream_buffer = b
         /\ t.offset = s.offset + Len(b) /\ t.stream_buffer_pos = 0
         /\ t.taken = s.taken /\ t.start = s.start /\ t.cur_char = s.cur_char
         /\ t.next_char = s.next_char /\ t.text_buffer = s.text_buffer
<1> DEFINE S == Seq(Symbols)
<1>1. Streams = [offset : Nat, stream_buffer : S, stream_buffer_pos : Nat,
                 cur_char : Symbols, next_char : Symbols, text_buffer : S,
                 line : Nat, column : Int, taken : Nat, start : Nat]
  BY DEF Streams
<1>2. b \in S /\ 0 \in Nat
  OBVIOUS
<1>3. t = [s EXCEPT !.stream_buffer = b, !.offset = s.offset + Len(b), !.stream_buffer_pos = 0]
  BY DEF ReadStream
<1> HIDE DEF S
<1>4. t \in Streams
  BY <1>1, <1>2, <1>3
<1> QED
  BY <1>1, <1>2, <1>3, <1>4

LEMMA ShiftedFields ==
  ASSUME NEW s \in Streams, NEW t, t = Shifted(s)
  PROVE  /\ t \in Streams /\ t.cur_char = s.next_char /\ t.taken = s.taken + 1
         /\ t.text_buffer = Append(s.text_buffer, s.next_char)
         /\ t.stream_buffer = s.stream_buffer /\ t.stream_buffer_pos = s.stream_buffer_pos
         /\ t.offset = s.offset /\ t.start = s.start /\ t.next_char = s.next_char
<1> DEFINE S == Seq(Symbols)
<1>1. Streams = [offset : Nat, stream_buffer : S, stream_buffer_pos : Nat,
                 cur_char : Symbols, next_char : Symbols, text_buffer : S,
                 line : Nat, column : Int, taken : Nat, start : Nat]
  BY DEF Streams
<1>2. s.next_char \in Symbols /\ s.column + 1 \in Int /\ s.taken + 1 \in Nat
  BY DEF Streams
<1>3. PICK x : x = Append(s.text_buffer, s.next_char)
  OBVIOUS
<1>4. x \in S
  BY <1>2, <1>3 DEF Streams
<1>5. t = [s EXCEPT !.cur_char = s.next_char, !.text_buffer = x,
                    !.column = s.column + 1, !.taken = s.taken + 1]
  BY <1>3 DEF Shifted
<1> HIDE DEF S
<1>6. t \in Streams
  BY <1>1, <1>2, <1>4, <1>5
<1> QED
  BY <1>1, <1>3, <1>5, <1>6

LEMMA PeekedFields ==
  ASSUME NEW s \in Streams, NEW c \in Symbols, c = s.stream_buffer[s.stream_buffer_pos + 1],
         NEW t, t = Peeked(s)
  PROVE  /\ t \in Streams /\ t.next_char = c
         /\ t.stream_buffer_pos = s.stream_buffer_pos + 1
         /\ t.stream_buffer = s.stream_buffer /\ t.offset = s.offset
         /\ t.start = s.start /\ t.cur_char = s.cur_char /\ t.taken = s.taken
         /\ t.text_buffer = s.text_buffer
<1> DEFINE S == Seq(Symbols)
<1>1. Streams = [offset : Nat, stream_buffer : S, stream_buffer_pos : Nat,
                 cur_char : Symbols, next_char : Symbols, text_buffer : S,
                 line : Nat, column : Int, taken : Nat, start : Nat]
  BY DEF Streams
<1>2. s.stream_buffer_pos + 1 \in Nat
  BY DEF Streams
<1>3. t = [s EXCEPT !.next_char = c, !.stream_buffer_pos = s.stream_buffer_pos + 1]
  BY DEF Peeked
<1> HIDE DEF S
<1>4. t \in Streams
  BY <1>1, <1>2, <1>3
<1> QED
  BY <1>1, <1>2, <1>3, <1>4

\* Filling the block keeps it the one in front of next_char, if next_char is the last
\* character of the block before it, or the file has just been opened.
LEMMA ReadStreamFollows ==
  ASSUME IsFile, NEW s, s \in Streams, s.offset \in 0 .. Len(file), s.taken = s.offset
  PROVE  /\ ReadStream(s) \in Streams /\ BlockOnFile(ReadStream(s))
         /\ WindowOn(s) => WindowOn(ReadStream(s))
         /\ ReadStream(s).taken = s.taken
<1>p. PICK b, t : b = Block(s.offset) /\ t = ReadStream(s)
  OBVIOUS
<1>1. /\ b \in Seq(Symbols) /\ s.offset + Len(b) \in s.offset .. Len(file)
      /\ b = << >> => s.offset = Len(file)
      /\ \A k \in DOMAIN b : b[k] = file[s.offset + k]
  BY <1>p, BlockFollows
<1>2. Len(b) \in Nat /\ s.offset \in Nat /\ (Len(b) = 0 => b = << >>)
  BY <1>1
<1>3. /\ t \in Streams /\ t.stream_buffer = b /\ t.stream_buffer_pos = 0
      /\ t.offset = s.offset + Len(b) /\ t.taken = s.taken /\ t.start = s.start
      /\ t.cur_char = s.cur_char /\ t.next_char = s.next_char
      /\ t.text_buffer = s.text_buffer
  <2>1. s.offset + Len(b) \in Nat /\ b \in Seq(Symbols)
    BY <1>1, <1>2
  <2> QED
    BY <1>p, <2>1, ReadStreamFields
<1>4. BlockOnFile(t)
  <2>1. \A k \in DOMAIN b : b[k] = file[t.offset - Len(b) + k]
    BY <1>1, <1>2, <1>3
  <2>2. Len(b) > 0 => 0 \in 0 .. Len(b) - 1 /\ t.taken = t.offset - Len(b) + 0
    BY <1>2, <1>3
  <2>3. Len(b) = 0 => b = << >> /\ t.offset = Len(file) /\ t.taken >= Len(file)
    BY <1>1, <1>2, <1>3
  <2> QED
    BY <1>1, <1>2, <1>3, <2>1, <2>2, <2>3 DEF BlockOnFile
<1>5. WindowOn(s) => WindowOn(t)
  BY <1>3 DEF WindowOn
<1> QED
  BY <1>p, <1>3, <1>4, <1>5

\* One call of get_char.
LEMMA GetCharInStep ==
  ASSUME IsFile, NEW s, InStep(s)
  PROVE  InStep(GetChar(s)) /\ GetChar(s).taken = s.taken + 1
<1>p. PICK t : t = Shifted(s)
  OBVIOUS
<1>1. s \in Streams /\ BlockOnFile(s) /\ WindowOn(s) /\ Len(file) \in Nat
  BY DEF InStep, IsFile
<1>2. /\ t \in Streams /\ t.cur_char = s.next_char /\ t.taken = s.taken + 1
      /\ t.text_buffer = Append(s.text_buffer, s.next_char) /\ t.start = s.start
      /\ t.stream_buffer = s.stream_buffer /\ t.stream_buffer_pos = s.stream_buffer_pos
      /\ t.offset = s.offset /\ t.next_char = s.next_char
  BY <1>p, <1>1, ShiftedFields
<1>3. /\ t.cur_char = At(t.taken - 1) /\ t.start \in 0 .. t.taken
      /\ t.text_buffer = Span(t.start, t.taken)
  <2>1. s.taken \in Nat /\ s.start \in Nat /\ s.start <= s.taken
    BY <1>1 DEF Streams, WindowOn
  <2>2. Append(Span(s.start, s.taken), At(s.taken)) = Span(s.start, s.taken + 1)
    BY <2>1, SpanGrows
  <2> QED
    BY <1>1, <1>2, <2>1, <2>2 DEF WindowOn
<1>4. CASE s.stream_buffer_pos >= Len(s.stream_buffer)
  <2> DEFINE v == [t EXCEPT !.next_char = Nul]
  <2>1. GetChar(s) = v
    BY <1>p, <1>2, <1>4 DEF GetChar
  <2>2. s.stream_buffer = << >> /\ s.stream_buffer_pos = 0 /\ s.offset = Len(file)
        /\ s.taken >= Len(file)
    BY <1>1, <1>4 DEF BlockOnFile, Streams
  <2>3. v \in Streams /\ v.next_char = Nul
        /\ v.cur_char = t.cur_char /\ v.taken = t.taken /\ v.start = t.start
        /\ v.text_buffer = t.text_buffer /\ v.stream_buffer = t.stream_buffer
        /\ v.stream_buffer_pos = t.stream_buffer_pos /\ v.offset = t.offset
    BY <1>2 DEF Streams, Symbols
  <2> HIDE DEF v
  <2>4. WindowOn(v)
    <3>1. At(v.taken) = Nul
      BY <1>1, <1>2, <2>2, <2>3 DEF At, Streams
    <3> QED
      BY <1>3, <2>3, <3>1 DEF WindowOn
  <2>5. BlockOnFile(v)
    <3>1. /\ v.stream_buffer = << >> /\ v.stream_buffer_pos = 0 /\ v.offset = Len(file)
          /\ v.taken >= Len(file)
      <4>1. v.taken = s.taken + 1 /\ s.taken \in Nat
        BY <1>1, <1>2, <2>3 DEF Streams
      <4> QED
        BY <1>1, <1>2, <2>2, <2>3, <4>1
    <3> QED
      BY <1>1, <3>1 DEF BlockOnFile
  <2> QED
    BY <1>2, <2>1, <2>3, <2>4, <2>5 DEF InStep
<1>5. CASE s.stream_buffer_pos < Len(s.stream_buffer)
  <2>p. PICK u : u = Peeked(t)
    OBVIOUS
  <2>1. /\ s.stream_buffer_pos \in 0 .. Len(s.stream_buffer) - 1
        /\ s.taken = s.offset - Len(s.stream_buffer) + s.stream_buffer_pos
        /\ s.offset \in 0 .. Len(file) /\ Len(s.stream_buffer) \in Nat
        /\ Len(s.stream_buffer) <= s.offset /\ Len(file) \in Nat
    BY <1>1, <1>5 DEF BlockOnFile, Streams
  <2>b. \A k \in DOMAIN s.stream_buffer :
          s.stream_buffer[k] = file[s.offset - Len(s.stream_buffer) + k]
    BY <1>1 DEF BlockOnFile
  <2>2. /\ s.stream_buffer_pos + 1 \in DOMAIN s.stream_buffer
        /\ s.stream_buffer[s.stream_buffer_pos + 1] = file[s.taken + 1]
        /\ s.stream_buffer[s.stream_buffer_pos + 1] \in Symbols
        /\ s.taken + 1 \in 1 .. Len(file)
    <3>1. s.stream_buffer \in Seq(Symbols)
      BY <1>1 DEF Streams
    <3>2. s.stream_buffer_pos + 1 \in DOMAIN s.stream_buffer
      BY <2>1, <3>1
    <3>3. s.stream_buffer[s.stream_buffer_pos + 1] \in Symbols
      BY <3>1, <3>2
    <3>4. s.stream_buffer[s.stream_buffer_pos + 1]
            = file[s.offset - Len(s.stream_buffer) + (s.stream_buffer_pos + 1)]
      BY <2>b, <3>2
    <3>5. s.offset - Len(s.stream_buffer) + (s.stream_buffer_pos + 1) = s.taken + 1
          /\ s.taken + 1 \in 1 .. Len(file)
      BY <2>1
    <3> QED
      BY <3>2, <3>3, <3>4, <3>5
  <2>3. /\ u \in Streams /\ u.next_char = file[s.taken + 1]
        /\ u.stream_buffer_pos = s.stream_buffer_pos + 1
        /\ u.cur_char = t.cur_char /\ u.taken = t.taken /\ u.start = t.start
        /\ u.text_buffer = t.text_buffer /\ u.stream_buffer = t.stream_buffer
        /\ u.offset = t.offset
    <3>1. PICK c : c = t.stream_buffer[t.stream_buffer_pos + 1]
      OBVIOUS
    <3>2. c \in Symbols /\ c = file[s.taken + 1]
      BY <1>2, <2>2, <3>1
    <3>3. /\ u \in Streams /\ u.next_char = c
          /\ u.stream_buffer_pos = t.stream_buffer_pos + 1
          /\ u.stream_buffer = t.stream_buffer /\ u.offset = t.offset
          /\ u.start = t.start /\ u.cur_char = t.cur_char /\ u.taken = t.taken
          /\ u.text_buffer = t.text_buffer
      <4>1. t \in Streams
        BY <1>2
      <4> QED
        BY <2>p, <3>1, <3>2, <4>1, PeekedFields
    <3> QED
      BY <1>2, <3>2, <3>3
  <2>4. WindowOn(u)
    BY <1>2, <1>3, <2>2, <2>3 DEF WindowOn, At
  <2>5. CASE s.stream_buffer_pos + 1 = Len(s.stream_buffer)
    <3>1. GetChar(s) = ReadStream(u)
      BY <1>p, <1>2, <1>5, <2>p, <2>1, <2>5 DEF GetChar
    <3>2. u.taken = u.offset /\ u.offset \in 0 .. Len(file)
      BY <1>2, <2>1, <2>3, <2>5
    <3> QED
      BY <1>2, <2>3, <2>4, <3>1, <3>2, ReadStreamFollows DEF InStep
  <2>6. CASE s.stream_buffer_pos + 1 # Len(s.stream_buffer)
    <3>1. GetChar(s) = u
      BY <1>p, <1>2, <1>5, <2>p, <2>1, <2>6 DEF GetChar
    <3>2. /\ u.stream_buffer = s.stream_buffer /\ u.offset = s.offset
          /\ u.taken = s.taken + 1 /\ u.stream_buffer_pos = s.stream_buffer_pos + 1
      BY <1>2, <2>3
    <3>3. /\ s.stream_buffer_pos + 1 \in 0 .. Len(s.stream_buffer) - 1
          /\ s.taken + 1 = s.offset - Len(s.stream_buffer) + (s.stream_buffer_pos + 1)
      BY <2>1, <2>6
    <3>4. BlockOnFile(u)
      BY <2>1, <2>b, <3>2, <3>3 DEF BlockOnFile
    <3> QED
      BY <1>2, <2>3, <2>4, <3>1, <3>4 DEF InStep
  <2> QED
    BY <2>5, <2>6
<1> QED
  BY <1>1, <1>4, <1>5 DEF Streams

\* Once opened, before any call of get_char.
LEMMA OpenedInStep ==
  ASSUME IsFile
  PROVE  InStep(Opened)
<1>1. PICK s : s = [offset |-> 0, stream_buffer |-> << >>, stream_buffer_pos |-> 0,
                    cur_char |-> Nul, next_char |-> Nul, text_buffer |-> << >>,
                    line |-> 1, column |-> -1, taken |-> 0, start |-> 0]
  OBVIOUS
<1>2. s \in Streams /\ s.offset = 0 /\ s.taken = 0
  BY <1>1 DEF Streams, Symbols
<1>3. Len(file) \in Nat
  BY DEF IsFile
<1>4. WindowOn(s)
  <2>1. At(-1) = Nul /\ At(0) = Nul
    BY <1>3 DEF At
  <2>2. Span(0, 0) = << >>
    BY DEF Span
  <2> QED
    BY <1>1, <2>1, <2>2 DEF WindowOn
<1>5. Opened = ReadStream(s)
  BY <1>1 DEF Opened
<1> QED
  BY <1>2, <1>3, <1>4, <1>5, ReadStreamFollows DEF InStep

\* A line more, another column.
LEMMA LineInStep ==
  ASSUME NEW s, InStep(s), NEW l \in Nat, NEW k \in Int
  PROVE  InStep([s EXCEPT !.line = l, !.column = k]) /\ InStep([s EXCEPT !.line = l])
  BY DEF InStep, WindowOn, BlockOnFile, Streams

\* The text is begun anew.
LEMMA ResetInStep ==
  ASSUME NEW s, InStep(s), s.taken > 0
  PROVE  InStep([s EXCEPT !.text_buffer = << s.cur_char >>, !.start = s.taken - 1])
<1> DEFINE S == Seq(Symbols)
<1>1. Streams = [offset : Nat, stream_buffer : S, stream_buffer_pos : Nat,
                 cur_char : Symbols, next_char : Symbols, text_buffer : S,
                 line : Nat, column : Int, taken : Nat, start : Nat]
  BY DEF Streams
<1>2. s \in Streams /\ s.taken \in Nat /\ s.taken - 1 \in Nat
      /\ s.cur_char = At(s.taken - 1) /\ << s.cur_char >> \in S
  BY DEF InStep, WindowOn, Streams
<1>3. Span(s.taken - 1, s.taken) = << s.cur_char >>
  BY <1>2 DEF Span
<1>4. PICK x, t : x = << s.cur_char >> /\ t = [s EXCEPT !.text_buffer = x, !.start = s.taken - 1]
  OBVIOUS
<1>5. x \in S
  BY <1>2, <1>4
<1> HIDE DEF S
<1>6. t \in Streams
  BY <1>1, <1>2, <1>4, <1>5
<1>7. /\ t.text_buffer = x /\ t.start = s.taken - 1 /\ t.taken = s.taken
      /\ t.cur_char = s.cur_char /\ t.next_char = s.next_char
      /\ t.stream_buffer = s.stream_buffer /\ t.stream_buffer_pos = s.stream_buffer_pos
      /\ t.offset = s.offset
  BY <1>1, <1>2, <1>4
<1>8. WindowOn(s) /\ BlockOnFile(s)
  BY DEF InStep
<1>9. WindowOn(t) /\ BlockOnFile(t)
  BY <1>2, <1>3, <1>4, <1>7, <1>8 DEF WindowOn, BlockOnFile
<1> QED
  BY <1>4, <1>6, <1>9 DEF InStep

----------------------------------------------------------------------------
(* The lexer *)

\* Some character has been taken: cur_char has a place in the file.
Reading(s) == InStep(s) /\ s.taken > 0

LEMMA Reads ==
  ASSUME IsFile, NEW s, Reading(s)
  PROVE  /\ Reading(GetChar(s))
         /\ Reading(OverSpace(s))
         /\ Reading([s EXCEPT !.line = s.line + 1])
         /\ Reading([s EXCEPT !.text_buffer = << s.cur_char >>, !.start = s.taken - 1])
<1>1. InStep(s) /\ s.taken > 0 /\ s \in Streams /\ s.taken \in Nat /\ s.line + 1 \in Nat
  BY DEF Reading, InStep, Streams
<1>2. Reading(GetChar(s))
  BY <1>1, GetCharInStep DEF Reading
<1>3. /\ InStep([s EXCEPT !.line = s.line + 1, !.column = 0])
      /\ InStep([s EXCEPT !.line = s.line + 1])
  <2>1. PICK l, k : l = s.line + 1 /\ k = 0
    OBVIOUS
  <2>2. l \in Nat /\ k \in Int
    BY <1>1, <2>1
  <2>3. InStep([s EXCEPT !.line = l, !.column = k]) /\ InStep([s EXCEPT !.line = l])
    BY <1>1, <2>2, LineInStep
  <2> QED
    BY <2>1, <2>3
<1>4. /\ [s EXCEPT !.line = s.line + 1, !.column = 0].taken = s.taken
      /\ [s EXCEPT !.line = s.line + 1].taken = s.taken
      /\ [s EXCEPT !.text_buffer = << s.cur_char >>, !.start = s.taken - 1].taken = s.taken
  BY <1>1 DEF Streams
<1>5. Reading([s EXCEPT !.line = s.line + 1]) /\ Reading(OverSpace(s))
  BY <1>1, <1>3, <1>4 DEF Reading, OverSpace
<1>6. Reading([s EXCEPT !.text_buffer = << s.cur_char >>, !.start = s.taken - 1])
  BY <1>1, <1>4, ResetInStep DEF Reading
<1> QED
  BY <1>2, <1>5, <1>6

LEMMA PunctuatorReads ==
  ASSUME IsFile, NEW s, Reading(s)
  PROVE  Reading(Punctuator(s).at)
<1>1. \A r, t : Reading(r) => Reading(OneWay(r, t).at)
  BY Reads DEF OneWay
<1>2. \A r, t, u : Reading(r) => Reading(TwoWay(r, t, u).at)
  BY <1>1, Reads DEF TwoWay
<1>3. \A r, t, u, v : Reading(r) => Reading(ThreeWay(r, t, u, v).at)
  BY <1>1, <1>2, Reads DEF ThreeWay
<1>4. Reading(GetChar(s))
  BY Reads
<1>5. Reading(Dots(s).at)
  BY <1>1, <1>4, Reads DEF Dots
<1>6. Reading([type |-> "ERROR", at |-> s].at)
  OBVIOUS
<1> QED
  BY <1>1, <1>2, <1>3, <1>4, <1>5, <1>6 DEF Punctuator

\* The inductive invariant.
Follows == IsFile /\ Reading(in)

\* A place the lexer can be at is one in the next state too, the file being the same.
LEMMA ReadingPrime ==
  ASSUME UNCHANGED file, NEW s, Reading(s), in' = s
  PROVE  Reading(in)'
  BY DEF Reading, InStep, Streams, Symbols, BlockOnFile, WindowOn, Span, At

\* The file is a sequence of characters, and the lexer is where it has counted to.
THEOREM LexerFollowsFile == Spec => []Follows
<1>1. Init => Follows
  <2> SUFFICES ASSUME Init PROVE Follows
    OBVIOUS
  <2>1. IsFile
    BY FilesAssumption DEF Init, IsFile
  <2>2. InStep(Opened) /\ Opened.taken = 0
    <3>1. InStep(Opened)
      BY <2>1, OpenedInStep
    <3> QED
      BY <3>1 DEF Opened, ReadStream
  <2>3. InStep(GetChar(Opened)) /\ GetChar(Opened).taken = 1
    BY <2>1, <2>2, GetCharInStep
  <2> QED
    BY <2>1, <2>3, GetCharInStep DEF Init, Follows, Reading
<1>2. Follows /\ [Next]_vars => Follows'
  <2> SUFFICES ASSUME Follows, [Next]_vars PROVE Follows'
    OBVIOUS
  <2>1. IsFile /\ Reading(in)
    BY DEF Follows
  <2>2. ASSUME NEW s, Reading(s), UNCHANGED file, in' = s PROVE Follows'
    BY <2>1, <2>2, ReadingPrime DEF Follows, IsFile
  <2>3. Reading(GetChar(in))
    BY <2>1, Reads
  <2>4. Reading(GetChar(GetChar(in)))
    BY <2>1, <2>3, Reads
  <2>5. Reading(OverSpace(in)) /\ Reading(GetChar(OverSpace(in)))
    BY <2>1, Reads
  <2>6. CASE SkipWs
    BY <2>2, <2>5, <2>6 DEF SkipWs
  <2>7. CASE BeginToken
    <3>1. PICK s : /\ s = [in EXCEPT !.text_buffer = << cur >>, !.start = in.taken - 1]
                   /\ in' \in {s, GetChar(GetChar(s))}
      BY <2>7 DEF BeginToken, Goto
    <3>2. Reading(s) /\ Reading(GetChar(GetChar(s)))
      BY <2>1, <3>1, Reads DEF cur
    <3> QED
      BY <2>2, <2>7, <3>1, <3>2 DEF BeginToken
  <2>8. CASE EndOfStream \/ EndDigits \/ EndSuffix \/ EndNumber \/ EndFloat \/ EndIdent
              \/ EndLineComment \/ NextString \/ EndString \/ BeginOctal \/ OctalEscape
    <3>1. UNCHANGED << file, in >>
      BY <2>8 DEF EndOfStream, EndDigits, EndSuffix, EndNumber, EndFloat, EndIdent,
                  EndLineComment, NextString, EndString, BeginOctal, OctalEscape,
                  Goto, Fail, Emit, Escaped
    <3> QED
      BY <2>1, <2>2, <3>1
  <2>9. CASE AddDigit \/ TakeSuffix \/ TakeDigit \/ TakeIdent \/ TakeLineComment \/ OpenString
              \/ TakeChar \/ Backslash \/ SimpleEscape \/ BeginHex \/ AddOctal
    <3>1. UNCHANGED file /\ in' = GetChar(in)
      BY <2>9 DEF AddDigit, TakeSuffix, TakeDigit, TakeIdent, TakeLineComment, OpenString,
                  TakeChar, Backslash, SimpleEscape, BeginHex, AddOctal, Goto, Keep, Escaped
    <3> QED
      BY <2>2, <2>3, <3>1
  <2>10. CASE CloseString \/ HexEscape \/ EndComment \/ BeginScalar \/ Point
    <3>1. UNCHANGED file /\ in' \in {in, GetChar(in), GetChar(GetChar(in))}
      BY <2>10 DEF CloseString, HexEscape, EndComment, BeginScalar, Point, Goto, Fail, Emit, Escaped
    <3> QED
      BY <2>1, <2>2, <2>3, <2>4, <3>1
  <2>11. CASE Exponent
    <3>1. UNCHANGED file /\ in' \in {in, GetChar(in), GetChar(GetChar(in))}
      BY <2>11 DEF Exponent, Goto, Fail
    <3> QED
      BY <2>1, <2>2, <2>3, <2>4, <3>1
  <2>12. CASE TakeComment
    <3>1. Reading([in EXCEPT !.line = in.line + 1])
      BY <2>1, Reads
    <3>2. Reading(GetChar([in EXCEPT !.line = in.line + 1]))
      BY <2>1, <3>1, Reads
    <3> QED
      BY <2>2, <2>3, <2>12, <3>2 DEF TakeComment
  <2>13. CASE TakePunctuator
    <3>1. UNCHANGED file /\ in' = Punctuator(in).at
      BY <2>13 DEF TakePunctuator, Fail, Emit
    <3> QED
      BY <2>1, <2>2, <3>1, PunctuatorReads
  <2>14. CASE UNCHANGED vars
    BY <2>1, <2>2, <2>14 DEF vars
  <2> QED
    BY <2>6, <2>7, <2>8, <2>9, <2>10, <2>11, <2>12, <2>13, <2>14 DEF Next
<1> QED
  BY <1>1, <1>2, PTL DEF Spec

\* WindowOnFile: the two characters the lexer decides by and the text of its token are
\* those of the file at the place it is at, for every file and every size of a block.
THEOREM WindowStaysOnFile == Spec => []WindowOnFile
<1>1. Follows => WindowOnFile
  BY DEF Follows, Reading, InStep, WindowOnFile
<1> QED
  BY <1>1, LexerFollowsFile, PTL

-----------------------------------------------------------------------------

\* A character that is neither a line break nor the end of the file.
Plain(c) == c \notin {Nul, "\n"}

\* The characters that lexer.c asks for by name and takes, other than white space.
Marks == {"_", "\"", "'", "\\", "?", "/", "(", ")", "[", "]", "{", "}", ",", "~", ";", "*",
          "!", "=", "^", "+", "|", "&", ":", "%", "<", ">", "-", "."}

\* None of them is a line break or the character 0,
LEMMA MarksArePlain == \A c \in Marks : Plain(c)
  BY NulAssumption DEF Marks, Plain

\* nor is a letter,
LEMMA LettersArePlain == \A c : IsAlpha(c) => Plain(c)
  BY NulAssumption DEF IsAlpha, Letters, Plain

\* a digit,
LEMMA DigitsArePlain == \A c : IsDigit(c) => Plain(c)
<1>1. \A k \in 1 .. 10 : k \in DOMAIN Decimal /\ Decimal[k] # "\n"
  BY DEF Decimal
<1>2. \A k \in 1 .. 10 : Decimal[k] # Nul
  BY <1>1, NulAssumption DEF Range
<1> QED
  BY <1>1, <1>2 DEF IsDigit, Plain

\* a hexadecimal digit,
LEMMA HexdigitsArePlain == \A c : IsHexdigit(c) => Plain(c)
<1>1. \A k \in 1 .. 6 : LowHex[k] \in Letters /\ HighHex[k] \in Letters
  BY DEF LowHex, HighHex, Letters
<1> QED
  BY <1>1, DigitsArePlain, LettersArePlain DEF IsHexdigit, IsAlpha

\* an octal digit
LEMMA OctdigitsArePlain == \A c : IsOctdigit(c) => Plain(c)
  BY DigitsArePlain DEF IsOctdigit, IsDigit

\* or a character that a backslash gives a meaning to.
LEMMA EscapesArePlain == \A c \in DOMAIN Escapes : Plain(c)
<1>1. DOMAIN Escapes = {"'", "\"", "\\", "?", "a", "b", "f", "n", "r", "t", "v"}
  BY DEF Escapes
<1> QED
  BY <1>1, NulAssumption DEF Letters, Plain

----------------------------------------------------------------------------
(* Going over characters of a line *)

\* get_char counts one more column, and leaves the line and the start of the text alone.
LEMMA GetCharKeeps ==
  ASSUME NEW s \in Streams, NEW t, t = GetChar(s)
  PROVE  t.start = s.start /\ t.line = s.line /\ t.column = s.column + 1
<1> DEFINE D == {"offset", "stream_buffer", "stream_buffer_pos", "cur_char", "next_char",
                 "text_buffer", "line", "column", "taken", "start"}
           Kept(u) == /\ DOMAIN u = D /\ u.start = s.start /\ u.line = s.line
                      /\ u.column = s.column + 1
<1>1. Kept(Shifted(s))
  <2>1. DOMAIN s = D
    BY DEF Streams
  <2> QED
    BY <2>1 DEF Shifted
<1>2. ASSUME NEW u, Kept(u) PROVE Kept(Peeked(u))
  BY <1>2 DEF Peeked
<1>3. ASSUME NEW u, Kept(u) PROVE Kept(ReadStream(u))
  BY <1>3 DEF ReadStream
<1>4. ASSUME NEW u, Kept(u) PROVE Kept([u EXCEPT !.next_char = Nul])
  BY <1>4
<1>5. GetChar(s) \in {[Shifted(s) EXCEPT !.next_char = Nul], ReadStream(Peeked(Shifted(s))),
                      Peeked(Shifted(s))}
  BY DEF GetChar
<1> HIDE DEF Kept
<1>6. Kept(t)
  BY <1>1, <1>2, <1>3, <1>4, <1>5
<1> QED
  BY <1>6 DEF Kept

\* The stream s has gone on to t, over characters that are neither a line break nor the
\* end of the file.
Along(s, t) ==
  /\ Reading(t) /\ t.taken \in s.taken .. Len(file) + 2
  /\ t.start = s.start /\ t.line = s.line /\ t.column - t.taken = s.column - s.taken
  /\ \A k \in s.taken .. t.taken - 1 : At(k - 1) # "\n"

\* The fields of a stream that reads the file, and what is in its window.
LEMMA ReadingTypes ==
  ASSUME NEW s, Reading(s)
  PROVE  /\ s \in Streams /\ s.taken \in Nat \ {0} /\ s.column \in Int /\ s.line \in Nat
         /\ s.start \in 0 .. s.taken
         /\ s.cur_char = At(s.taken - 1) /\ s.next_char = At(s.taken)
         /\ s.text_buffer = Span(s.start, s.taken)
  BY DEF Reading, InStep, Streams, WindowOn

\* The path from a place to itself,
LEMMA AlongItself ==
  ASSUME IsFile, NEW s, Reading(s), s.taken <= Len(file) + 2
  PROVE  Along(s, s)
<1>1. Len(file) \in Nat
  BY DEF IsFile
<1> QED
  BY <1>1, ReadingTypes DEF Along

\* and on over a plain character.
LEMMA AlongGetChar ==
  ASSUME IsFile, NEW s, Reading(s), NEW t, Along(s, t), Plain(t.cur_char)
  PROVE  Along(s, GetChar(t)) /\ GetChar(t).cur_char = t.next_char
<1>1. Reading(t) /\ Len(file) \in Nat
  BY DEF Along, IsFile
<1>2. PICK u : u = GetChar(t)
  OBVIOUS
<1>3. Reading(u) /\ u.taken = t.taken + 1
  BY <1>1, <1>2, Reads, GetCharInStep DEF Reading
<1>4. u.start = t.start /\ u.line = t.line /\ u.column = t.column + 1
  BY <1>1, <1>2, ReadingTypes, GetCharKeeps
<1>5. /\ t.taken \in Nat \ {0} /\ t.column \in Int /\ s.taken \in Nat \ {0} /\ s.column \in Int
      /\ t.cur_char = At(t.taken - 1) /\ t.next_char = At(t.taken)
      /\ u.cur_char = At(u.taken - 1)
  BY <1>1, <1>3, ReadingTypes
<1>6. u.taken \in s.taken .. Len(file) + 2
  <2>1. t.taken - 1 <= Len(file)
    BY <1>1, <1>5 DEF Plain, At
  <2> QED
    BY <1>1, <1>3, <1>5, <2>1 DEF Along
<1>7. \A k \in s.taken .. u.taken - 1 : At(k - 1) # "\n"
  <2> SUFFICES ASSUME NEW k \in s.taken .. u.taken - 1 PROVE At(k - 1) # "\n"
    OBVIOUS
  <2>1. CASE k = t.taken
    BY <1>5, <2>1 DEF Plain
  <2>2. CASE k # t.taken
    <3>1. k \in s.taken .. t.taken - 1
      BY <1>3, <1>5, <2>2
    <3> QED
      BY <3>1 DEF Along
  <2> QED
    BY <2>1, <2>2
<1>8. u.column - u.taken = s.column - s.taken
  BY <1>3, <1>4, <1>5 DEF Along
<1> QED
  BY <1>2, <1>3, <1>4, <1>5, <1>6, <1>7, <1>8 DEF Along

----------------------------------------------------------------------------
(* What the steps do to the place the lexer is at *)

Quotes       == {"\"", "'"}
QuotingModes == {"string", "chars", "after_string", "escape", "hex", "octal"}
CommentModes == {"line_comment", "comment"}
InnerModes   == Modes \ {"start", "end", "done", "failed"}

\* What is known of the lexer's variables in a mode, and how far it has read.
Moded ==
  /\ mode \in Modes /\ base \in {8, 10, 16} /\ DOMAIN token = {"type", "line", "column"}
  /\ mode \in QuotingModes => quote \in Quotes
  /\ mode = "punctuator" => Plain(in.cur_char)
  /\ mode \in {"end", "done"} => in.cur_char = Nul /\ in.start = in.taken - 1
  /\ in.taken \in 2 .. Len(file) + 2

\* The step goes on in a token, on its line,
Continues ==
  /\ mode \in InnerModes /\ mode' \in InnerModes /\ mode' # "punctuator"
  /\ mode \in CommentModes <=> mode' \in CommentModes
  /\ mode' \in QuotingModes => quote' \in Quotes
  /\ base' \in {8, 10, 16}
  /\ Along(in, in') /\ UNCHANGED << file, tokens >>
  /\ DOMAIN token' = DOMAIN token /\ token'.line = token.line /\ token'.column = token.column

\* or returns it,
Returns(type, value, s) ==
  /\ mode \in InnerModes /\ (type = "COMMENT" <=> mode \in CommentModes)
  /\ Along(in, s) /\ Emit(type, value, s)

\* or gives up.
GivesUp(s) == mode \in InnerModes /\ Along(in, s) /\ Fail(s)

StepKinds ==
  \/ SkipWs \/ BeginToken \/ EndOfStream \/ TakeComment
  \/ Continues
  \/ \E type, value, s : Returns(type, value, s)
  \/ \E s : GivesUp(s)

\* Over the current character, and over the next one, if they are plain.
LEMMA AlongTwo ==
  ASSUME IsFile, NEW s, Reading(s), s.taken <= Len(file) + 2
  PROVE  /\ Along(s, s)
         /\ Plain(s.cur_char) => Along(s, GetChar(s)) /\ GetChar(s).cur_char = s.next_char
         /\ Plain(s.cur_char) /\ Plain(s.next_char) => Along(s, GetChar(GetChar(s)))
<1>1. Along(s, s)
  BY AlongItself
<1>2. ASSUME Plain(s.cur_char)
      PROVE  Along(s, GetChar(s)) /\ GetChar(s).cur_char = s.next_char
  BY <1>1, <1>2, AlongGetChar
<1>3. ASSUME Plain(s.cur_char), Plain(s.next_char)
      PROVE  Along(s, GetChar(GetChar(s)))
  <2>1. Along(s, GetChar(s)) /\ Plain(GetChar(s).cur_char)
    BY <1>2, <1>3
  <2> QED
    BY <2>1, AlongGetChar
<1> QED
  BY <1>1, <1>2, <1>3

\* A punctuator is read over its characters.
LEMMA AlongPunctuator ==
  ASSUME IsFile, NEW s, Reading(s), s.taken <= Len(file) + 2, Plain(s.cur_char)
  PROVE  Along(s, Punctuator(s).at)
<1> DEFINE Goes(r) == Along(s, r) /\ Plain(r.cur_char)
<1>1. Goes(s)
  BY AlongTwo
<1>2. \A r : Goes(r) => Along(s, GetChar(r)) /\ GetChar(r).cur_char = r.next_char
  BY AlongGetChar
<1> HIDE DEF Goes
<1>3. \A r : Goes(r) /\ Plain(r.next_char) => Goes(GetChar(r))
  BY <1>2 DEF Goes
<1>4. \A r, t : Goes(r) => Along(s, OneWay(r, t).at)
  BY <1>2 DEF OneWay
<1>5. Plain("=") /\ Plain(">") /\ Plain("<") /\ Plain(":") /\ Plain("%") /\ Plain(".")
  BY MarksArePlain DEF Marks
<1>6. \A r, t, u : Goes(r) => Along(s, TwoWay(r, t, u).at)
  BY <1>3, <1>4, <1>5 DEF TwoWay
<1>7. \A r, t, u, v : Goes(r) => Along(s, ThreeWay(r, t, u, v).at)
  BY <1>3, <1>4, <1>6 DEF ThreeWay, Goes
<1>8. Along(s, Dots(s).at)
  <2>1. CASE s.next_char # "."
    BY <1>1, <1>4, <2>1 DEF Dots
  <2>2. CASE s.next_char = "."
    <3>1. Goes(GetChar(s))
      BY <1>1, <1>3, <1>5, <2>2
    <3>2. GetChar(s).next_char = "." => Goes(GetChar(GetChar(s)))
      BY <1>3, <1>5, <3>1
    <3>3. Along(s, [type |-> "DOT", at |-> GetChar(s)].at)
      BY <3>1 DEF Goes
    <3> QED
      BY <1>4, <2>2, <3>1, <3>2, <3>3 DEF Dots
  <2> QED
    BY <2>1, <2>2
<1>9. Along(s, [type |-> "ERROR", at |-> s].at)
  BY <1>1 DEF Goes
<1>10. Plain(s.next_char) => Goes(GetChar(s))
  BY <1>1, <1>3
<1> QED
  BY <1>1, <1>4, <1>5, <1>6, <1>7, <1>8, <1>9, <1>10 DEF Punctuator

\* No punctuator is taken for a comment.
LEMMA PunctuatorIsNoComment ==
  ASSUME NEW s
  PROVE  Punctuator(s).type # "COMMENT"
<1>1. \A r, t : OneWay(r, t).type = t
  BY DEF OneWay
<1>2. \A r, t, u : TwoWay(r, t, u).type \in {t, u}
  BY <1>1 DEF TwoWay
<1>3. \A r, t, u, v : ThreeWay(r, t, u, v).type \in {t, u, v}
  BY <1>1, <1>2 DEF ThreeWay
<1>4. Dots(s).type # "COMMENT"
  BY <1>1 DEF Dots
<1>5. \A c \in DOMAIN Singles : Singles[c] # "COMMENT"
  BY DEF Singles
<1>6. \A c \in DOMAIN Doubles : Doubles[c][1] # "COMMENT" /\ Doubles[c][2] # "COMMENT"
  BY DEF Doubles
<1>7. \A c \in DOMAIN Triples :
        Triples[c][1] # "COMMENT" /\ Triples[c][2] # "COMMENT" /\ Triples[c][3] # "COMMENT"
  BY DEF Triples
<1> QED
  BY <1>1, <1>2, <1>3, <1>4, <1>5, <1>6, <1>7 DEF Punctuator

\* Every step is of one of the kinds.
LEMMA StepsAreOfAKind ==
  ASSUME Follows, Moded, Next
  PROVE  StepKinds
<1>1. IsFile /\ Reading(in) /\ in.taken <= Len(file) + 2 /\ Len(file) \in Nat
  BY DEF Follows, Moded, IsFile
<1>2. /\ Along(in, in)
      /\ Plain(in.cur_char) => Along(in, GetChar(in)) /\ GetChar(in).cur_char = in.next_char
      /\ Plain(in.cur_char) /\ Plain(in.next_char) => Along(in, GetChar(GetChar(in)))
  BY <1>1, AlongTwo
<1>3. /\ \A c : IsDigit(c) \/ IsAlpha(c) \/ IsHexdigit(c) \/ IsOctdigit(c) => Plain(c)
      /\ \A c : IsDigitEx(c, base) => Plain(c)
      /\ \A c \in Marks \cup DOMAIN Escapes : Plain(c)
      /\ \A c \in {"0", "x", "X", "e", "E", "+", "-", "."} : Plain(c)
  <2>1. \A c \in {"0", "x", "X", "e", "E"} : Plain(c)
    <3>1. IsDigit("0") /\ \A c \in {"x", "X", "e", "E"} : IsAlpha(c)
      BY DEF IsDigit, Decimal, IsAlpha, Letters
    <3> QED
      BY <3>1, LettersArePlain, DigitsArePlain
  <2>2. \A c : IsDigitEx(c, base) => Plain(c)
    BY DigitsArePlain, HexdigitsArePlain, OctdigitsArePlain DEF IsDigitEx, Moded
  <2> QED
    BY <2>1, <2>2, LettersArePlain, DigitsArePlain, HexdigitsArePlain, OctdigitsArePlain,
       MarksArePlain, EscapesArePlain DEF Marks
<1>4. \A c : (IsIdent(c) => Plain(c)) /\ (IsNewline(c) <=> c \in {"\n", "\r"})
  BY <1>3 DEF IsIdent, IsIdentStart, IsNewline, Marks
<1>5. CASE AddDigit \/ TakeSuffix \/ TakeDigit \/ TakeIdent \/ TakeLineComment \/ AddOctal
  <2>1. Plain(in.cur_char)
    BY <1>3, <1>4, <1>5 DEF AddDigit, TakeSuffix, TakeDigit, TakeIdent, TakeLineComment,
                            AddOctal, cur, Plain
  <2>2. in' = GetChar(in) /\ UNCHANGED << file, mode, token, quote, base, tokens >>
    BY <1>5 DEF AddDigit, TakeSuffix, TakeDigit, TakeIdent, TakeLineComment, AddOctal, Keep
  <2>3. mode \in InnerModes /\ mode # "punctuator"
    BY <1>5 DEF AddDigit, TakeSuffix, TakeDigit, TakeIdent, TakeLineComment, AddOctal,
                InnerModes, Modes
  <2> QED
    BY <1>2, <2>1, <2>2, <2>3 DEF StepKinds, Continues, Moded
<1>6. CASE TakeChar \/ OpenString \/ Backslash \/ SimpleEscape \/ BeginHex
  <2>1. mode \in QuotingModes /\ quote \in Quotes
    BY <1>6 DEF TakeChar, OpenString, Backslash, SimpleEscape, BeginHex, QuotingModes, Moded
  <2>2. Plain(in.cur_char)
    BY <1>3, <1>6, <2>1 DEF TakeChar, OpenString, Backslash, SimpleEscape, BeginHex, cur, Plain,
                            Marks, Quotes, IsNewline
  <2>3. /\ in' = GetChar(in) /\ UNCHANGED << file, quote, base, tokens >>
        /\ token' \in {token, [token EXCEPT !.type = "STRING_CONST"]}
        /\ mode' \in {"chars", "escape", "hex"}
    BY <1>6 DEF TakeChar, OpenString, Backslash, SimpleEscape, BeginHex, Keep, Goto, Escaped
  <2>4. DOMAIN token' = DOMAIN token /\ token'.line = token.line /\ token'.column = token.column
    BY <2>3 DEF Moded
  <2>5. /\ mode \in InnerModes /\ mode' \in InnerModes /\ mode' # "punctuator"
        /\ mode \notin CommentModes /\ mode' \notin CommentModes
    BY <2>1, <2>3 DEF QuotingModes, InnerModes, Modes, CommentModes
  <2> QED
    BY <1>2, <2>1, <2>2, <2>3, <2>4, <2>5 DEF StepKinds, Continues, Moded
<1>7. CASE CloseString \/ NextString \/ BeginOctal \/ HexEscape \/ OctalEscape
  <2>1. mode \in QuotingModes /\ quote \in Quotes /\ mode \in InnerModes /\ mode \notin CommentModes
    BY <1>7 DEF CloseString, NextString, BeginOctal, HexEscape, OctalEscape, QuotingModes, Moded,
                InnerModes, Modes, CommentModes
  <2>2. \/ \E s \in {in, GetChar(in), GetChar(GetChar(in))} :
             /\ in' = s /\ Along(in, s) /\ UNCHANGED << file, token, quote, base, tokens >>
             /\ mode' \in {"after_string", "string", "octal", "chars"}
        \/ Fail(in)
    <3>1. CASE CloseString
      BY <1>2, <1>3, <2>1, <3>1 DEF CloseString, Goto, cur, Quotes, Marks
    <3>2. CASE NextString
      BY <1>2, <3>2 DEF NextString, Goto
    <3>3. CASE BeginOctal
      BY <1>2, <3>3 DEF BeginOctal, Goto
    <3>4. CASE HexEscape
      BY <1>2, <1>3, <3>4 DEF HexEscape, Goto, cur, Escaped
    <3>5. CASE OctalEscape
      BY <1>2, <3>5 DEF OctalEscape, Goto, Escaped
    <3> QED
      BY <1>7, <3>1, <3>2, <3>3, <3>4, <3>5
  <2>3. {"after_string", "string", "octal", "chars"}
           \subseteq InnerModes \ (CommentModes \cup {"punctuator"})
    BY DEF InnerModes, Modes, CommentModes
  <2> QED
    BY <1>2, <2>1, <2>2, <2>3 DEF StepKinds, Continues, GivesUp, Moded
<1>8. CASE BeginScalar \/ EndDigits \/ Point \/ EndNumber \/ Exponent
  <2>1. mode \in InnerModes /\ mode \notin CommentModes
    BY <1>8 DEF BeginScalar, EndDigits, Point, EndNumber, Exponent, InnerModes, Modes, CommentModes
  <2>2. \E s \in {in, GetChar(in), GetChar(GetChar(in))} :
           /\ Along(in, s)
           /\ \/ /\ in' = s /\ UNCHANGED << file, token, quote, tokens >> /\ base' \in {8, 10, 16}
                 /\ mode' \in {"digits", "suffix", "float", "fraction", "exponent",
                               "float_end", "power"}
              \/ Fail(s)
    <3>1. CASE BeginScalar
      <4>1. PICK b, s : /\ b = IF cur # "0" THEN 10
                               ELSE IF in.next_char \in {"x", "X"} THEN 16
                               ELSE IF IsDigit(in.next_char) THEN 8 ELSE 10
                        /\ s = CASE b = 16 -> GetChar(GetChar(in)) [] b = 8 -> GetChar(in)
                                 [] b = 10 -> in
        OBVIOUS
      <4>2. b \in {8, 10, 16} /\ Along(in, s) /\ s \in {in, GetChar(in), GetChar(GetChar(in))}
        BY <1>2, <1>3, <4>1 DEF cur
      <4>3. \/ Goto("digits", s) /\ base' = b /\ UNCHANGED << file, token, quote, tokens >>
            \/ Fail(s)
        BY <3>1, <4>1 DEF BeginScalar
      <4> QED
        BY <4>2, <4>3 DEF Goto
    <3>2. CASE EndDigits
      BY <1>2, <3>2 DEF EndDigits, Goto, Moded
    <3>3. CASE Point
      BY <1>2, <1>3, <3>3 DEF Point, Goto, cur, Moded
    <3>4. CASE EndNumber
      BY <1>2, <3>4 DEF EndNumber, Goto, Moded
    <3>5. CASE Exponent
      <4>1. PICK s, t : /\ s = GetChar(in)
                        /\ t = IF s.cur_char \in {"+", "-"} THEN GetChar(s) ELSE s
        OBVIOUS
      <4>2. CASE cur \notin {"e", "E"}
        BY <1>2, <3>5, <4>2 DEF Exponent, Goto, Moded
      <4>3. CASE cur \in {"e", "E"}
        <5>1. Along(in, t) /\ t \in {in, GetChar(in), GetChar(GetChar(in))}
          BY <1>2, <1>3, <4>1, <4>3 DEF cur
        <5>2. \/ Goto("power", t) /\ UNCHANGED << file, token, quote, base, tokens >>
              \/ Fail(t)
          BY <3>5, <4>1, <4>3 DEF Exponent
        <5> QED
          BY <5>1, <5>2 DEF Goto, Moded
      <4> QED
        BY <4>2, <4>3
    <3> QED
      BY <1>8, <3>1, <3>2, <3>3, <3>4, <3>5
  <2>3. /\ {"digits", "suffix", "float", "fraction", "exponent", "float_end", "power"}
             \subseteq InnerModes \ (CommentModes \cup {"punctuator"})
        /\ mode' \in {"digits", "suffix", "float", "fraction", "exponent", "float_end",
                      "power"}
             => mode' \notin QuotingModes
    BY DEF InnerModes, Modes, CommentModes, QuotingModes
  <2> QED
    BY <2>1, <2>2, <2>3 DEF StepKinds, Continues, GivesUp, Moded
<1>9. CASE EndSuffix \/ EndFloat \/ EndIdent \/ EndString \/ TakePunctuator
  <2>1. mode \in InnerModes /\ mode \notin CommentModes
    BY <1>9 DEF EndSuffix, EndFloat, EndIdent, EndString, TakePunctuator, InnerModes, Modes,
                CommentModes
  <2>2. \A buf \in DOMAIN Keywords : Keywords[buf] # "COMMENT"
    BY KeywordsAssumption DEF Range
  <2>3. CASE EndSuffix \/ EndFloat \/ EndIdent \/ EndString
    <3>1. (\E type, value : type # "COMMENT" /\ Emit(type, value, in)) \/ Fail(in)
      BY <2>2, <2>3 DEF EndSuffix, EndFloat, EndIdent, EndString
    <3> QED
      BY <1>2, <2>1, <3>1 DEF StepKinds, Returns, GivesUp
  <2>4. CASE TakePunctuator
    <3>1. Along(in, Punctuator(in).at) /\ Punctuator(in).type # "COMMENT"
      BY <1>1, <2>4, AlongPunctuator, PunctuatorIsNoComment DEF TakePunctuator, Moded
    <3>2. Emit(Punctuator(in).type, << >>, Punctuator(in).at) \/ Fail(Punctuator(in).at)
      BY <2>4 DEF TakePunctuator
    <3> QED
      BY <2>1, <3>1, <3>2 DEF StepKinds, Returns, GivesUp
  <2> QED
    BY <1>9, <2>3, <2>4
<1>10. CASE EndLineComment \/ EndComment
  <2>1. mode \in InnerModes /\ mode \in CommentModes
    BY <1>10 DEF EndLineComment, EndComment, InnerModes, Modes, CommentModes
  <2>2. \/ \E value, s : Along(in, s) /\ Emit("COMMENT", value, s)
        \/ Fail(in)
    <3>1. CASE EndLineComment
      BY <1>2, <3>1 DEF EndLineComment
    <3>2. CASE EndComment
      <4>1. cur = "*" => Along(in, GetChar(GetChar(in)))
        BY <1>2, <1>3, <3>2, NulAssumption DEF EndComment, AtCommentEnd, cur, Marks
      <4> QED
        BY <1>2, <3>2, <4>1 DEF EndComment
    <3> QED
      BY <1>10, <3>1, <3>2
  <2> QED
    BY <1>2, <2>1, <2>2 DEF StepKinds, Returns, GivesUp
<1> QED
  BY <1>5, <1>6, <1>7, <1>8, <1>9, <1>10 DEF Next, StepKinds

\* A token begins at the character the lexer is at, with the lexer's line and column.
LEMMA TokenBegins ==
  ASSUME Follows, Moded, BeginToken
  PROVE  \E s : /\ Along(s, in') /\ s.start = in.taken - 1 /\ s.taken = in.taken
                /\ s.line = in.line /\ s.column = in.column
                /\ s.cur_char = in.cur_char /\ s.next_char = in.next_char
                /\ mode' = Starts(in.cur_char, in.next_char)
                /\ mode' \notin CommentModes => in' = s
                /\ quote' = in.cur_char /\ UNCHANGED << file, base, tokens >>
                /\ DOMAIN token' = DOMAIN token
                /\ token'.line = in.line /\ token'.column = in.column
<1> DEFINE s == [in EXCEPT !.text_buffer = << in.cur_char >>, !.start = in.taken - 1]
<1>1. IsFile /\ Reading(in) /\ in.taken <= Len(file) + 2 /\ in \in Streams
  BY ReadingTypes DEF Follows, Moded
<1>2. Reading(s)
  BY <1>1, Reads
<1>3. /\ s.start = in.taken - 1 /\ s.taken = in.taken /\ s.line = in.line /\ s.column = in.column
      /\ s.cur_char = in.cur_char /\ s.next_char = in.next_char
  BY <1>1 DEF Streams
<1>4. PICK m : m = Starts(in.cur_char, in.next_char)
  OBVIOUS
<1>5. /\ mode' = m
      /\ in' = IF m \in {"line_comment", "comment"} THEN GetChar(GetChar(s)) ELSE s
      /\ quote' = in.cur_char /\ UNCHANGED << file, base, tokens >>
      /\ token' = [token EXCEPT !.line = in.line, !.column = in.column]
  BY <1>4 DEF BeginToken, Goto, cur
<1> HIDE DEF s
<1>6. Along(s, s) /\ (Plain(s.cur_char) /\ Plain(s.next_char) => Along(s, GetChar(GetChar(s))))
  BY <1>1, <1>2, <1>3, AlongTwo
<1>7. m \in {"line_comment", "comment"} => Plain(s.cur_char) /\ Plain(s.next_char)
  BY <1>3, <1>4, MarksArePlain DEF Starts, Marks
<1>8. DOMAIN token' = DOMAIN token /\ token'.line = in.line /\ token'.column = in.column
  BY <1>5 DEF Moded
<1> QED
  BY <1>3, <1>4, <1>5, <1>6, <1>7, <1>8 DEF CommentModes

\* White space is gone over, and a line break in it is counted.
LEMMA SpaceIsSkipped ==
  ASSUME Follows, Moded, SkipWs
  PROVE  /\ UNCHANGED << file, mode, token, quote, base, tokens >>
         /\ Reading(in') /\ in'.taken = in.taken + 1 /\ in'.taken <= Len(file) + 2
         /\ in'.start = in.start
         /\ in'.line = IF in.cur_char = "\n" THEN in.line + 1 ELSE in.line
         /\ in'.column = IF in.cur_char = "\n" THEN 1 ELSE in.column + 1
<1>1. IsFile /\ Reading(in) /\ in.taken <= Len(file) + 2 /\ in \in Streams /\ Len(file) \in Nat
  BY ReadingTypes DEF Follows, Moded, IsFile
<1>2. PICK s : s = OverSpace(in)
  OBVIOUS
<1>3. /\ s.start = in.start /\ s.taken = in.taken
      /\ s.line = IF in.cur_char = "\n" THEN in.line + 1 ELSE in.line
      /\ s.column = IF in.cur_char = "\n" THEN 0 ELSE in.column
  BY <1>1, <1>2 DEF OverSpace, Streams
<1>4. Reading(s)
  BY <1>1, <1>2, Reads
<1>5. in' = GetChar(s) /\ UNCHANGED << file, mode, token, quote, base, tokens >>
  BY <1>2 DEF SkipWs
<1>6. Reading(in') /\ in'.taken = in.taken + 1
  BY <1>1, <1>3, <1>4, <1>5, Reads, GetCharInStep DEF Reading
<1>7. in'.start = s.start /\ in'.line = s.line /\ in'.column = s.column + 1
  BY <1>4, <1>5, ReadingTypes, GetCharKeeps
<1>8. in.taken - 1 <= Len(file)
  <2>1. in.cur_char # Nul
    BY NulAssumption DEF SkipWs, IsWhitespace, IsNewline, cur
  <2> QED
    BY <1>1, <2>1, ReadingTypes DEF At
<1> QED
  BY <1>1, <1>3, <1>5, <1>6, <1>7, <1>8, ReadingTypes

\* A character of a comment is gone over, and a line break counted, but not in the column.
LEMMA CommentGoesOn ==
  ASSUME Follows, Moded, TakeComment
  PROVE  /\ UNCHANGED << file, mode, token, quote, base, tokens >> /\ mode = "comment"
         /\ Reading(in') /\ in'.taken = in.taken + 1 /\ in'.taken <= Len(file) + 2
         /\ in'.start = in.start /\ in'.column = in.column + 1
         /\ in'.line = IF in.cur_char = "\n" THEN in.line + 1 ELSE in.line
<1>1. IsFile /\ Reading(in) /\ in.taken <= Len(file) + 2 /\ in \in Streams /\ Len(file) \in Nat
  BY ReadingTypes DEF Follows, Moded, IsFile
<1>2. PICK s : s = IF in.cur_char = "\n" THEN [in EXCEPT !.line = in.line + 1] ELSE in
  OBVIOUS
<1>3. /\ s.start = in.start /\ s.taken = in.taken /\ s.column = in.column
      /\ s.line = IF in.cur_char = "\n" THEN in.line + 1 ELSE in.line
  BY <1>1, <1>2 DEF Streams
<1>4. Reading(s)
  BY <1>1, <1>2, Reads
<1>5. /\ in' = GetChar(s) /\ UNCHANGED << file, mode, token, quote, base, tokens >>
      /\ mode = "comment"
  BY <1>2 DEF TakeComment, cur
<1>6. Reading(in') /\ in'.taken = in.taken + 1
  BY <1>1, <1>3, <1>4, <1>5, Reads, GetCharInStep DEF Reading
<1>7. in'.start = s.start /\ in'.line = s.line /\ in'.column = s.column + 1
  BY <1>4, <1>5, ReadingTypes, GetCharKeeps
<1>8. in.taken - 1 <= Len(file)
  BY <1>1, ReadingTypes DEF At, TakeComment, cur
<1> QED
  BY <1>1, <1>3, <1>5, <1>6, <1>7, <1>8, ReadingTypes

\* The modes of the lexer, and that it does not read on behind the end of the file.
THEOREM LexerKnowsItsMode == Spec => []Moded
<1>1. Init => Moded
  <2> SUFFICES ASSUME Init PROVE Moded
    OBVIOUS
  <2>1. IsFile
    BY FilesAssumption DEF Init, IsFile
  <2>2. InStep(Opened) /\ Opened.taken = 0
    <3>1. InStep(Opened)
      BY <2>1, OpenedInStep
    <3> QED
      BY <3>1 DEF Opened, ReadStream
  <2>3. in.taken = 2 /\ Len(file) \in Nat
    BY <2>1, <2>2, GetCharInStep DEF Init, IsFile
  <2> QED
    BY <2>3 DEF Init, Moded, Modes, QuotingModes
<1>2. Follows /\ Moded /\ [Next]_vars => Moded'
  <2> SUFFICES ASSUME Follows, Moded, [Next]_vars PROVE Moded'
    OBVIOUS
  <2>1. in.taken \in Nat /\ Len(file) \in Nat /\ in.taken >= 2 /\ in.taken <= Len(file) + 2
    BY DEF Follows, IsFile, Moded
  <2>2. CASE SkipWs
    <3>1. mode \notin {"punctuator", "end", "done"}
      BY <2>2 DEF SkipWs
    <3> QED
      BY <2>1, <2>2, <3>1, SpaceIsSkipped DEF Moded
  <2>3. CASE BeginToken
    <3>1. PICK s : /\ Along(s, in') /\ s.start = in.taken - 1 /\ s.taken = in.taken
                   /\ s.cur_char = in.cur_char
                   /\ mode' = Starts(in.cur_char, in.next_char)
                   /\ mode' \notin CommentModes => in' = s
                   /\ quote' = in.cur_char /\ UNCHANGED << file, base, tokens >>
                   /\ DOMAIN token' = DOMAIN token
      BY <2>3, TokenBegins
    <3>2. in'.taken \in 2 .. Len(file) + 2
      BY <2>1, <3>1 DEF Along
    <3>3. /\ mode' \in Modes /\ (mode' \in QuotingModes => in.cur_char \in Quotes)
          /\ mode' = "punctuator" => in.cur_char # Nul
          /\ mode' \in {"end", "done"} => in.cur_char = Nul
      BY <3>1 DEF Starts, Modes, QuotingModes, Quotes
    <3>4. in.cur_char # "\n"
      BY <2>3 DEF BeginToken, IsWhitespace, IsNewline, cur
    <3>5. mode' \in {"punctuator", "end", "done"} => in' = s
      BY <3>1 DEF CommentModes
    <3> QED
      BY <3>1, <3>2, <3>3, <3>4, <3>5 DEF Moded, Plain
  <2>4. CASE EndOfStream
    BY <2>1, <2>4 DEF EndOfStream, Goto, Moded, Modes, QuotingModes
  <2>5. CASE TakeComment
    BY <2>1, <2>5, CommentGoesOn DEF Moded
  <2>6. CASE Continues
    <3>1. in'.taken \in 2 .. Len(file) + 2
      BY <2>1, <2>6 DEF Continues, Along
    <3> QED
      BY <2>6, <3>1 DEF Continues, Moded, InnerModes
  <2>7. ASSUME NEW type, NEW value, NEW s, Returns(type, value, s) PROVE Moded'
    <3>1. in'.taken \in 2 .. Len(file) + 2
      BY <2>1, <2>7 DEF Returns, Emit, Along
    <3> QED
      BY <2>7, <3>1 DEF Returns, Emit, Moded, Modes, QuotingModes
  <2>8. ASSUME NEW s, GivesUp(s) PROVE Moded'
    <3>1. in'.taken \in 2 .. Len(file) + 2
      BY <2>1, <2>8 DEF GivesUp, Fail, Along
    <3> QED
      BY <2>8, <3>1 DEF GivesUp, Fail, Moded, Modes, QuotingModes
  <2>9. CASE UNCHANGED vars
    BY <2>9 DEF vars, Moded
  <2> QED
    BY <2>2, <2>3, <2>4, <2>5, <2>6, <2>7, <2>8, <2>9, StepsAreOfAKind DEF StepKinds
<1> QED
  BY <1>1, <1>2, LexerFollowsFile, PTL DEF Spec

\* NotPastEnd: get_char is called no more once the 0 behind the last character is
\* cur_char, whatever is in the file.
THEOREM LexerStopsAtEnd == Spec => []NotPastEnd
<1>1. Moded => NotPastEnd
  BY DEF Moded, NotPastEnd
<1> QED
  BY <1>1, LexerKnowsItsMode, PTL

----------------------------------------------------------------------------
(* The tokens and the characters of the file *)

\* The place in the file up to which it is known what its characters belong to: the start
\* of the token the lexer is in, or the place it is at.
Frontier == IF mode = "start" THEN in.taken - 1 ELSE in.start

AreTokens == tokens \in Seq({tokens[i] : i \in DOMAIN tokens})

\* The token is the text of the file at its place, and there is only white space between
\* the token before it and it.
Covers(i) ==
  /\ tokens[i].from \in Nat /\ EndOf(tokens[i]) \in Nat /\ tokens[i].from <= EndOf(tokens[i])
  /\ tokens[i].text = Span(tokens[i].from, EndOf(tokens[i]))
  /\ EndBefore(i) <= tokens[i].from
  /\ \A k \in EndBefore(i) .. tokens[i].from - 1 : IsWhitespace(At(k))

\* Behind the last token there is only white space up to the front.
FrontIsCovered ==
  /\ Frontier \in Nat /\ Frontier <= in.taken - 1
  /\ EndBefore(Len(tokens) + 1) <= Frontier
  /\ \A k \in EndBefore(Len(tokens) + 1) .. Frontier - 1 : IsWhitespace(At(k))

\* The tokens are one behind the other: said of any two of them, since it does not take
\* the tokens between them to see it.
InOrder ==
  /\ \A i, j \in DOMAIN tokens : i < j => EndOf(tokens[i]) <= tokens[j].from
  /\ \A i \in DOMAIN tokens : EndOf(tokens[i]) <= EndBefore(Len(tokens) + 1)

Covered ==
  /\ file \in Files /\ AreTokens /\ InOrder
  /\ \A i \in DOMAIN tokens : Covers(i)
  /\ mode # "failed" => FrontIsCovered

\* A step that returns no token and begins none leaves what is covered.
LEMMA CoveredStays ==
  ASSUME Covered, UNCHANGED << file, tokens >>,
         \/ mode' = "failed"
         \/ mode # "failed" /\ Frontier' = Frontier /\ Frontier' <= in'.taken - 1
  PROVE  Covered'
<1>1. \A i : EndBefore(i)' = EndBefore(i)
  BY DEF EndBefore, EndOf
<1>2. \A k : At(k)' = At(k)
  BY DEF At
<1>3. \A from, to : Span(from, to)' = Span(from, to)
  BY <1>2 DEF Span
<1>4. \A i \in DOMAIN tokens' : Covers(i)'
  BY <1>1, <1>2, <1>3 DEF Covered, Covers, EndOf
<1>5. InOrder' /\ AreTokens' /\ (file \in Files)'
  BY <1>1 DEF Covered, InOrder, AreTokens, EndOf
<1>6. mode' # "failed" => FrontIsCovered'
  BY <1>1, <1>2 DEF Covered, FrontIsCovered
<1> QED
  BY <1>4, <1>5, <1>6 DEF Covered

\* The text of a token that is returned is the file from the start of the token to the
\* place the lexer has come to.
LEMMA TokenTextIsSpan ==
  ASSUME NEW s, Reading(s), s.start < s.taken
  PROVE  /\ TokenText(s) = Span(s.start, s.taken - 1)
         /\ Len(TokenText(s)) = s.taken - 1 - s.start
<1>1. /\ s.taken \in Nat \ {0} /\ s.start \in Nat /\ s.text_buffer = Span(s.start, s.taken)
      /\ s.text_buffer \in Seq(Symbols)
  BY ReadingTypes DEF Streams
<1>2. PICK n : n = s.taken - s.start
  OBVIOUS
<1>3. n \in Nat \ {0} /\ s.text_buffer = [k \in 1 .. n |-> At(s.start + k - 1)]
  BY <1>1, <1>2 DEF Span
<1>4. Len(s.text_buffer) = n
  BY <1>1, <1>3
<1>5. TokenText(s) = [k \in 1 .. n - 1 |-> At(s.start + k - 1)]
  <2>1. SubSeq(s.text_buffer, 1, n - 1) = [k \in 1 .. n - 1 |-> s.text_buffer[k]]
    BY <1>1, <1>3, <1>4
  <2> QED
    BY <1>3, <1>4, <2>1 DEF TokenText
<1>6. Len(TokenText(s)) = n - 1
  BY <1>3, <1>5
<1> QED
  BY <1>1, <1>2, <1>5, <1>6 DEF Span

\* What Append makes of the tokens.
LEMMA OneTokenMore ==
  ASSUME AreTokens, NEW tok, tokens' = Append(tokens, tok), NEW n, n = Len(tokens)
  PROVE  /\ AreTokens' /\ n \in Nat /\ DOMAIN tokens = 1 .. n
         /\ Len(tokens') = n + 1 /\ DOMAIN tokens' = 1 .. n + 1
         /\ \A i \in 1 .. n : tokens'[i] = tokens[i]
         /\ tokens'[n + 1] = tok
         /\ \A i \in 1 .. n + 1 : EndBefore(i)' = EndBefore(i)
         /\ EndBefore(n + 2)' = EndOf(tok)
<1> DEFINE S == {tokens[i] : i \in DOMAIN tokens} \cup {tok}
<1>1. tokens \in Seq(S) /\ tok \in S
  <2>1. tokens \in Seq({tokens[i] : i \in DOMAIN tokens})
    BY DEF AreTokens
  <2> QED
    BY <2>1
<1> HIDE DEF S
<1>2. /\ tokens' \in Seq(S) /\ Len(tokens) \in Nat /\ DOMAIN tokens = 1 .. Len(tokens)
      /\ Len(tokens') = Len(tokens) + 1 /\ DOMAIN tokens' = 1 .. Len(tokens) + 1
      /\ \A i \in 1 .. Len(tokens) : tokens'[i] = tokens[i]
      /\ tokens'[Len(tokens) + 1] = tok
  BY <1>1
<1>3. AreTokens'
  BY <1>2 DEF AreTokens
<1>4. \A i \in 1 .. Len(tokens) + 1 : EndBefore(i)' = EndBefore(i)
  <2> SUFFICES ASSUME NEW i \in 1 .. Len(tokens) + 1 PROVE EndBefore(i)' = EndBefore(i)
    OBVIOUS
  <2>1. i # 1 => i - 1 \in 1 .. Len(tokens)
    BY <1>2
  <2>2. i # 1 => tokens'[i - 1] = tokens[i - 1]
    BY <1>2, <2>1
  <2> QED
    BY <2>2 DEF EndBefore, EndOf
<1>5. EndBefore(n + 2)' = EndOf(tok)
  <2>1. (n + 2) - 1 = n + 1 /\ n + 2 # 1
    BY <1>2
  <2>2. EndBefore(n + 2)' = EndOf(tokens'[n + 1])
    BY <2>1 DEF EndBefore, EndOf
  <2> QED
    BY <1>2, <2>2
<1> QED
  BY <1>2, <1>3, <1>4, <1>5

\* A token that is returned covers its text, and nothing is between it and the place.
LEMMA ReturnCovers ==
  ASSUME Follows, Moded, Covered, NEW type, NEW value, NEW s, Returns(type, value, s)
  PROVE  Covered'
<1>1. /\ mode \in InnerModes /\ Along(in, s) /\ in' = s /\ mode' = "start" /\ UNCHANGED file
      /\ Reading(s) /\ s.start = in.start /\ s.taken \in Nat /\ s.taken >= in.taken
      /\ in.taken \in Nat
  <2>1. in.taken \in Nat
    BY ReadingTypes DEF Follows
  <2>2. mode \in InnerModes /\ Along(in, s) /\ in' = s /\ mode' = "start" /\ UNCHANGED file
    BY DEF Returns, Emit
  <2>3. Reading(s) /\ s.start = in.start /\ s.taken \in in.taken .. Len(file) + 2
    BY <2>2 DEF Along
  <2> QED
    BY <2>1, <2>2, <2>3, ReadingTypes
<1>2. FrontIsCovered /\ Frontier = in.start /\ in.start \in Nat /\ in.start <= in.taken - 1
  BY <1>1 DEF Covered, FrontIsCovered, Frontier, InnerModes
<1>3. PICK n, tok :
        /\ n = Len(tokens)
        /\ tok = [type |-> type, value |-> value, line |-> token.line, column |-> token.column,
                  text |-> TokenText(s), from |-> s.start]
  OBVIOUS
<1>4. tokens' = Append(tokens, tok)
  BY <1>3 DEF Returns, Emit
<1>5. /\ AreTokens' /\ n \in Nat /\ DOMAIN tokens = 1 .. n
      /\ Len(tokens') = n + 1 /\ DOMAIN tokens' = 1 .. n + 1
      /\ \A i \in 1 .. n : tokens'[i] = tokens[i]
      /\ tokens'[n + 1] = tok
      /\ \A i \in 1 .. n + 1 : EndBefore(i)' = EndBefore(i)
      /\ EndBefore(n + 2)' = EndOf(tok)
  BY <1>3, <1>4, OneTokenMore DEF Covered
<1>6. /\ tok.from = in.start /\ EndOf(tok) = s.taken - 1
      /\ tok.text = Span(tok.from, EndOf(tok))
  <2>1. tok.from = s.start /\ tok.text = TokenText(s)
    BY <1>3
  <2>2. TokenText(s) = Span(s.start, s.taken - 1) /\ Len(TokenText(s)) = s.taken - 1 - s.start
    BY <1>1, <1>2, TokenTextIsSpan
  <2>3. EndOf(tok) = s.taken - 1
    BY <1>1, <1>2, <2>1, <2>2 DEF EndOf
  <2> QED
    BY <1>1, <2>1, <2>2, <2>3
<1>7. (\A k : At(k)' = At(k)) /\ (\A from, to : Span(from, to)' = Span(from, to))
  BY <1>1 DEF At, Span
<1>8. \A i \in DOMAIN tokens' : Covers(i)'
  <2> SUFFICES ASSUME NEW i \in 1 .. n + 1 PROVE Covers(i)'
    BY <1>5
  <2>1. CASE i # n + 1
    <3>1. i \in 1 .. n /\ tokens'[i] = tokens[i] /\ EndBefore(i)' = EndBefore(i) /\ Covers(i)
      BY <1>5, <2>1 DEF Covered
    <3> QED
      BY <1>7, <3>1 DEF Covers, EndOf
  <2>2. CASE i = n + 1
    <3>1. EndBefore(n + 1)' = EndBefore(n + 1) /\ tokens'[n + 1] = tok
      BY <1>5
    <3>2. tok.from \in Nat /\ EndOf(tok) \in Nat /\ tok.from <= EndOf(tok)
      BY <1>1, <1>2, <1>6
    <3>3. /\ EndBefore(n + 1) <= tok.from
          /\ \A k \in EndBefore(n + 1) .. tok.from - 1 : IsWhitespace(At(k))
      BY <1>2, <1>3, <1>6 DEF FrontIsCovered
    <3> QED
      BY <1>6, <1>7, <2>2, <3>1, <3>2, <3>3 DEF Covers, EndOf
  <2> QED
    BY <2>1, <2>2
<1>9. /\ \A i \in 1 .. n : EndOf(tokens[i]) \in Nat /\ EndOf(tokens[i]) <= EndBefore(n + 1)
      /\ \A i, j \in 1 .. n : i < j => EndOf(tokens[i]) <= tokens[j].from
      /\ EndBefore(n + 1) <= tok.from /\ tok.from <= EndOf(tok)
      /\ EndBefore(n + 1) \in Nat /\ tok.from \in Nat /\ EndOf(tok) \in Nat
  <2>1. EndBefore(n + 1) \in Nat
    BY <1>3, <1>5 DEF Covered, Covers, EndBefore
  <2>2. \A i \in 1 .. n : EndOf(tokens[i]) \in Nat
    BY <1>5 DEF Covered, Covers
  <2>3. /\ \A i \in 1 .. n : EndOf(tokens[i]) <= EndBefore(n + 1)
        /\ \A i, j \in 1 .. n : i < j => EndOf(tokens[i]) <= tokens[j].from
    BY <1>3, <1>5 DEF Covered, InOrder
  <2>4. EndBefore(n + 1) <= tok.from
    BY <1>2, <1>3, <1>6 DEF FrontIsCovered
  <2>5. tok.from \in Nat /\ EndOf(tok) \in Nat /\ tok.from <= EndOf(tok)
    BY <1>1, <1>2, <1>6
  <2> QED
    BY <2>1, <2>2, <2>3, <2>4, <2>5
<1>10. InOrder'
  <2>1. ASSUME NEW i \in 1 .. n + 1, NEW j \in 1 .. n + 1, i < j
        PROVE  EndOf(tokens'[i]) <= tokens'[j].from
    <3>1. i \in 1 .. n /\ tokens'[i] = tokens[i]
      BY <1>5, <2>1
    <3>2. CASE j \in 1 .. n
      BY <1>5, <1>9, <2>1, <3>1, <3>2
    <3>3. CASE j = n + 1
      <4>1. tokens'[j].from = tok.from
        BY <1>5, <3>3
      <4> QED
        BY <1>9, <3>1, <4>1
    <3> QED
      BY <1>5, <3>2, <3>3
  <2>2. ASSUME NEW i \in 1 .. n + 1
        PROVE  EndOf(tokens'[i]) <= EndOf(tok)
    <3>1. CASE i \in 1 .. n
      BY <1>5, <1>9, <3>1
    <3>2. CASE i = n + 1
      BY <1>5, <1>9, <3>2
    <3> QED
      BY <1>5, <3>1, <3>2
  <2>3. (Len(tokens) + 1)' = n + 2
    BY <1>5
  <2>4. EndBefore(Len(tokens) + 1)' = EndOf(tok)
    BY <1>5, <2>3 DEF EndBefore, EndOf
  <2> QED
    BY <1>5, <2>1, <2>2, <2>4 DEF InOrder, EndOf
<1>11. FrontIsCovered'
  <2>1. Frontier' = s.taken - 1
    BY <1>1 DEF Frontier
  <2>2. (Len(tokens) + 1)' = n + 2
    BY <1>5
  <2>3. EndBefore(Len(tokens) + 1)' = s.taken - 1
    BY <1>5, <1>6, <2>2 DEF EndBefore, EndOf
  <2>4. s.taken - 1 \in Nat
    BY <1>1, <1>2
  <2> QED
    BY <1>1, <2>1, <2>3, <2>4 DEF FrontIsCovered
<1> QED
  BY <1>1, <1>5, <1>8, <1>10, <1>11 DEF Covered

\* The tokens cover the file as far as it has been read.
THEOREM LexerCoversFile == Spec => []Covered
<1>1. Init => Covered
  <2> SUFFICES ASSUME Init PROVE Covered
    OBVIOUS
  <2>1. IsFile /\ file \in Files /\ tokens = << >> /\ mode = "start"
    BY FilesAssumption DEF Init, IsFile
  <2>2. InStep(Opened) /\ Opened.taken = 0
    <3>1. InStep(Opened)
      BY <2>1, OpenedInStep
    <3> QED
      BY <3>1 DEF Opened, ReadStream
  <2>3. in.taken = 2
    BY <2>1, <2>2, GetCharInStep DEF Init
  <2>4. AreTokens /\ DOMAIN tokens = {} /\ Len(tokens) = 0
    BY <2>1 DEF AreTokens
  <2>5. FrontIsCovered
    BY <2>1, <2>3, <2>4 DEF FrontIsCovered, Frontier, EndBefore
  <2> QED
    BY <2>1, <2>4, <2>5 DEF Covered, InOrder
<1>2. Follows /\ Moded /\ Moded' /\ Covered /\ [Next]_vars => Covered'
  <2> SUFFICES ASSUME Follows, Moded, Moded', Covered, [Next]_vars PROVE Covered'
    OBVIOUS
  <2>1. in.taken \in Nat /\ in.taken >= 2 /\ in.start \in Nat
    BY ReadingTypes DEF Follows, Moded
  <2>2. mode # "failed" => Frontier \in Nat /\ Frontier <= in.taken - 1
    BY DEF Covered, FrontIsCovered
  <2>3. CASE SkipWs
    <3>1. /\ UNCHANGED << file, mode, tokens >> /\ in'.taken = in.taken + 1
          /\ in'.start = in.start
      BY <2>3, SpaceIsSkipped
    <3>2. CASE mode # "start"
      <4>1. mode # "failed"
        BY <2>3 DEF SkipWs
      <4> QED
        BY <2>1, <2>2, <3>1, <3>2, <4>1, CoveredStays DEF Frontier
    <3>3. CASE mode = "start"
      <4>1. Frontier = in.taken - 1 /\ Frontier' = in.taken
        BY <2>1, <3>1, <3>3 DEF Frontier
      <4>2. IsWhitespace(At(in.taken - 1))
        BY <2>3, ReadingTypes DEF Follows, SkipWs, cur
      <4>3. PICK e : e = EndBefore(Len(tokens) + 1)
        OBVIOUS
      <4>4. /\ e <= in.taken - 1 /\ e \in Int
            /\ \A k \in e .. in.taken - 2 : IsWhitespace(At(k))
        <5>1. e \in Int
          BY <4>3 DEF Covered, AreTokens, Covers, EndBefore
        <5>2. /\ e <= Frontier
              /\ \A k \in e .. Frontier - 1 : IsWhitespace(At(k))
          BY <3>3, <4>3 DEF Covered, FrontIsCovered
        <5> QED
          BY <2>1, <4>1, <5>1, <5>2
      <4>5. /\ e <= in.taken
            /\ \A k \in e .. in.taken - 1 : IsWhitespace(At(k))
        BY <2>1, <4>2, <4>4
      <4>6. \A k : At(k)' = At(k)
        BY <3>1 DEF At
      <4>7. EndBefore(Len(tokens) + 1)' = e /\ UNCHANGED tokens
        BY <3>1, <4>3 DEF EndBefore, EndOf
      <4>8. FrontIsCovered'
        BY <2>1, <3>1, <4>1, <4>5, <4>6, <4>7 DEF FrontIsCovered
      <4>9. \A i : EndBefore(i)' = EndBefore(i)
        BY <3>1 DEF EndBefore, EndOf
      <4>10. \A from, to : Span(from, to)' = Span(from, to)
        BY <4>6 DEF Span
      <4>11. \A i \in DOMAIN tokens' : Covers(i)'
        BY <3>1, <4>6, <4>9, <4>10 DEF Covered, Covers, EndOf
      <4>12. InOrder' /\ AreTokens' /\ (file \in Files)'
        BY <3>1, <4>9 DEF Covered, InOrder, AreTokens, EndOf
      <4> QED
        BY <4>8, <4>11, <4>12 DEF Covered
    <3> QED
      BY <3>2, <3>3
  <2>4. CASE BeginToken
    <3>1. PICK s : /\ Along(s, in') /\ s.start = in.taken - 1 /\ s.taken = in.taken
                   /\ mode' = Starts(in.cur_char, in.next_char)
                   /\ UNCHANGED << file, tokens >>
      BY <2>4, TokenBegins
    <3>2. mode = "start" /\ mode' # "start"
      BY <2>4, <3>1 DEF BeginToken, Starts
    <3>3. in'.start = in.taken - 1 /\ in'.taken >= in.taken /\ in'.taken \in Nat
      BY <2>1, <3>1 DEF Along, Moded
    <3> QED
      BY <2>1, <2>2, <3>1, <3>2, <3>3, CoveredStays DEF Frontier
  <2>5. CASE EndOfStream
    BY <2>1, <2>2, <2>5, CoveredStays DEF EndOfStream, Goto, Frontier
  <2>6. CASE TakeComment
    <3>1. /\ UNCHANGED << file, mode, tokens >> /\ in'.taken = in.taken + 1
          /\ in'.start = in.start /\ mode = "comment"
      BY <2>6, CommentGoesOn
    <3> QED
      BY <2>1, <2>2, <3>1, CoveredStays DEF Frontier
  <2>7. CASE Continues
    <3>1. /\ mode \notin {"start", "failed"} /\ mode' # "start" /\ UNCHANGED << file, tokens >>
          /\ in'.start = in.start /\ in'.taken >= in.taken /\ in'.taken \in Nat
      BY <2>1, <2>7 DEF Continues, InnerModes, Along, Moded
    <3> QED
      BY <2>1, <2>2, <3>1, CoveredStays DEF Frontier
  <2>8. ASSUME NEW type, NEW value, NEW s, Returns(type, value, s) PROVE Covered'
    BY <2>8, ReturnCovers
  <2>9. ASSUME NEW s, GivesUp(s) PROVE Covered'
    BY <2>9, CoveredStays DEF GivesUp, Fail
  <2>10. CASE UNCHANGED vars
    BY <2>1, <2>2, <2>10, CoveredStays DEF vars, Frontier
  <2> QED
    BY <2>3, <2>4, <2>5, <2>6, <2>7, <2>8, <2>9, <2>10, StepsAreOfAKind DEF StepKinds
<1> QED
  BY <1>1, <1>2, LexerFollowsFile, LexerKnowsItsMode, PTL DEF Spec

\* TokensCoverFile: every character of the file is in one token or is white space outside
\* all of them, for every file; when the end has been reached, if no character of the
\* file is the character 0, at which the lexer takes it to end.
THEOREM TokensAreTheFile ==
  ASSUME \A f \in Files : Nul \notin Range(f)
  PROVE  Spec => []TokensCoverFile
<1>1. Follows /\ Moded /\ Covered => TokensCoverFile
  <2> SUFFICES ASSUME Follows, Moded, Covered PROVE TokensCoverFile
    OBVIOUS
  <2>1. ASSUME mode = "done",
               NEW k \in EndBefore(Len(tokens) + 1) .. Len(file)
        PROVE  IsWhitespace(At(k))
    <3>1. /\ in.taken \in Nat /\ in.taken >= 2 /\ Len(file) \in Nat
          /\ At(in.taken - 1) = Nul /\ in.start = in.taken - 1
      BY <2>1, ReadingTypes DEF Follows, Moded, IsFile
    <3>2. \A j \in 1 .. Len(file) : file[j] # Nul
      BY DEF Covered, Range, Follows, IsFile
    <3>3. Frontier > Len(file)
      BY <2>1, <3>1, <3>2 DEF At, Frontier
    <3>4. EndBefore(Len(tokens) + 1) \in Int
      BY DEF Covered, AreTokens, Covers, EndBefore
    <3>5. k \in EndBefore(Len(tokens) + 1) .. Frontier - 1
      BY <2>1, <3>1, <3>3, <3>4 DEF Frontier
    <3> QED
      BY <2>1, <3>5 DEF Covered, FrontIsCovered
  <2>2. \A i \in DOMAIN tokens :
           /\ tokens[i].text = Span(tokens[i].from, EndOf(tokens[i]))
           /\ EndBefore(i) <= tokens[i].from
           /\ \A k \in EndBefore(i) .. tokens[i].from - 1 : IsWhitespace(At(k))
    BY DEF Covered, Covers
  <2> QED
    BY <2>1, <2>2 DEF TokensCoverFile
<1> QED
  BY <1>1, LexerFollowsFile, LexerKnowsItsMode, LexerCoversFile, PTL

----------------------------------------------------------------------------
(* Lines and columns *)

\* The line breaks of a file before the place n, those of them that are not at one of the
\* places C, with a 0 for the beginning of the file, and what the line l and the column c
\* of the place n are.
Breaks(f, n) == {k \in 1 .. n - 1 : k <= Len(f) /\ f[k] = "\n"}
Seen(f, n, C) == (Breaks(f, n) \ C) \cup {0}

IsLast(m, S) == m \in S /\ \A x \in S : x <= m

AtPlace(f, l, c, n, C) ==
  /\ l = 1 + Cardinality(Breaks(f, n))
  /\ c \in Int /\ IsLast(n - c, Seen(f, n, C))

NoBreaks(f, a, b) == \A k \in a .. b - 1 : ~ (1 <= k /\ k <= Len(f) /\ f[k] = "\n")

\* C and D hold the same of the places before n.
Agree(n, C, D) == \A k \in 1 .. n - 1 : k \in C <=> k \in D

\* A line break is a character of the file.
LEMMA BreakAt ==
  ASSUME NEW k, Len(file) \in Nat
  PROVE  At(k) = "\n" <=> k \in 1 .. Len(file) /\ file[k] = "\n"
<1>1. Nul # "\n"
  BY NulAssumption
<1> QED
  BY <1>1 DEF At

\* The last of a set of places is what Max gives.
LEMMA LastIsMax ==
  ASSUME NEW S \in SUBSET Int, NEW m, IsLast(m, S)
  PROVE  Max(S) = m
<1>1. m \in S /\ \A y \in S : m >= y
  BY DEF IsLast
<1>2. \A x \in S : (\A y \in S : x >= y) => x = m
  BY <1>1
<1> QED
  BY <1>1, <1>2 DEF Max

\* The breaks before a place are finitely many.
LEMMA BreaksAreFinite ==
  ASSUME NEW f, NEW n \in Nat
  PROVE  IsFiniteSet(Breaks(f, n)) /\ n \notin Breaks(f, n) /\ Breaks(f, n) \subseteq 1 .. n - 1
<1>1. Breaks(f, n) \in SUBSET (1 .. n - 1)
  BY DEF Breaks
<1>2. IsFiniteSet(1 .. n - 1)
  BY FS_Interval
<1> QED
  BY <1>1, <1>2, FS_Subset

\* A break at a place is before the next place.
LEMMA BreaksGrow ==
  ASSUME NEW f, Len(f) \in Nat, NEW n \in Nat \ {0}
  PROVE  Breaks(f, n + 1) = IF n <= Len(f) /\ f[n] = "\n"
                            THEN Breaks(f, n) \cup {n} ELSE Breaks(f, n)
  BY DEF Breaks

\* Over characters that are no breaks, a line goes on.
LEMMA LineGoesOn ==
  ASSUME NEW f, NEW a \in Nat, NEW b \in Nat, a <= b, NEW C, NEW D, NEW l, NEW c, NEW d,
         AtPlace(f, l, c, a, C), NoBreaks(f, a, b), Agree(a, C, D), d = c + (b - a)
  PROVE  AtPlace(f, l, d, b, D)
<1>1. Breaks(f, b) = Breaks(f, a)
  BY DEF Breaks, NoBreaks
<1>2. Seen(f, b, D) = Seen(f, a, C)
  BY <1>1 DEF Seen, Breaks, Agree
<1>3. d \in Int /\ b - d = a - c
  BY DEF AtPlace
<1> QED
  BY <1>1, <1>2, <1>3 DEF AtPlace

\* Over a break that counts, a new line begins,
LEMMA LineEnds ==
  ASSUME NEW f, Len(f) \in Nat, NEW n \in Nat \ {0}, n <= Len(f), f[n] = "\n",
         NEW C, n \notin C, NEW l, NEW c, AtPlace(f, l, c, n, C)
  PROVE  AtPlace(f, l + 1, 1, n + 1, C)
<1>1. Breaks(f, n + 1) = Breaks(f, n) \cup {n}
  BY BreaksGrow
<1>2. Cardinality(Breaks(f, n + 1)) = Cardinality(Breaks(f, n)) + 1
      /\ Cardinality(Breaks(f, n)) \in Nat
  BY <1>1, BreaksAreFinite, FS_AddElement, FS_CardinalityType
<1>3. IsLast(n, Seen(f, n + 1, C))
  BY <1>1, BreaksAreFinite DEF IsLast, Seen
<1> QED
  BY <1>2, <1>3 DEF AtPlace

\* over one that is in a comment, another line, but no other column.
LEMMA LineEndsInComment ==
  ASSUME NEW f, Len(f) \in Nat, NEW n \in Nat \ {0}, n <= Len(f), f[n] = "\n",
         NEW C, NEW D, n \in D, Agree(n, C, D),
         NEW l, NEW c, AtPlace(f, l, c, n, C)
  PROVE  AtPlace(f, l + 1, c + 1, n + 1, D)
<1>1. Breaks(f, n + 1) = Breaks(f, n) \cup {n}
  BY BreaksGrow
<1>2. Cardinality(Breaks(f, n + 1)) = Cardinality(Breaks(f, n)) + 1
      /\ Cardinality(Breaks(f, n)) \in Nat
  BY <1>1, BreaksAreFinite, FS_AddElement, FS_CardinalityType
<1>3. Seen(f, n + 1, D) = Seen(f, n, C)
  BY <1>1, BreaksAreFinite DEF Seen, Agree
<1>4. c + 1 \in Int /\ (n + 1) - (c + 1) = n - c
  BY DEF AtPlace
<1> QED
  BY <1>2, <1>3, <1>4 DEF AtPlace

\* The places in the comments that have been returned, and in the one the lexer is in.
Comments == {k \in Nat : InComment(k)}
Current  == IF mode \in CommentModes THEN in.start .. in.taken - 2 ELSE {}

\* The lexer's line and column are those of the place it is at, and those that are noted
\* for a token are those of its start, where the comments before it are complete.
Positioned ==
  /\ \A i \in DOMAIN tokens :
        AtPlace(file, tokens[i].line, tokens[i].column, tokens[i].from, Comments)
  /\ mode # "failed" => AtPlace(file, in.line, in.column, in.taken - 1, Comments \cup Current)
  /\ mode \in InnerModes => AtPlace(file, token.line, token.column, in.start, Comments)

\* Whether a place before the tokens' end is in a comment is settled.
LEMMA CommentsEnd ==
  ASSUME Follows, Covered, mode # "failed", NEW k \in Nat, k >= Frontier
  PROVE  k \notin Comments
<1>1. PICK e : e = EndBefore(Len(tokens) + 1)
  OBVIOUS
<1>2. \A i \in DOMAIN tokens : EndOf(tokens[i]) \in Nat /\ EndOf(tokens[i]) <= e
  BY <1>1 DEF Covered, Covers, InOrder
<1>3. e <= Frontier /\ Frontier \in Nat
  BY <1>1 DEF Covered, FrontIsCovered
<1>4. e \in Int
  BY <1>1 DEF Covered, AreTokens, Covers, EndBefore
<1> QED
  BY <1>2, <1>3, <1>4 DEF Comments, InComment

\* A step that returns no token leaves the tokens as they are.
LEMMA PositionedStays ==
  ASSUME Positioned, UNCHANGED << file, tokens >>,
         mode' # "failed" =>
           AtPlace(file, in'.line, in'.column, in'.taken - 1, Comments \cup Current'),
         mode' \in InnerModes => AtPlace(file, token'.line, token'.column, in'.start, Comments)
  PROVE  Positioned'
<1>1. Comments' = Comments
  BY DEF Comments, InComment, EndOf
<1> QED
  BY <1>1 DEF Positioned

\* Going along a line, the line and the column stay those of the place.
LEMMA AlongTheLine ==
  ASSUME Follows, NEW s, NEW t, Along(s, t), s.taken \in Nat, s.taken >= 2, s.column \in Int,
         NEW C, NEW D, \A k \in 1 .. s.taken - 2 : k \in C <=> k \in D,
         AtPlace(file, s.line, s.column, s.taken - 1, C)
  PROVE  AtPlace(file, t.line, t.column, t.taken - 1, D)
<1>1. /\ t.taken \in Nat /\ t.taken >= s.taken /\ t.line = s.line /\ t.column \in Int
      /\ t.column - t.taken = s.column - s.taken
      /\ \A k \in s.taken .. t.taken - 1 : At(k - 1) # "\n"
  BY ReadingTypes DEF Along
<1>2. PICK a, b, c, d, l : /\ a = s.taken - 1 /\ b = t.taken - 1
                           /\ c = s.column /\ d = t.column /\ l = s.line
  OBVIOUS
<1>3. a \in Nat /\ b \in Nat /\ a <= b /\ d = c + (b - a)
  BY <1>1, <1>2
<1>4. NoBreaks(file, a, b)
  <2> SUFFICES ASSUME NEW k \in a .. b - 1, 1 <= k, k <= Len(file) PROVE file[k] # "\n"
    BY DEF NoBreaks
  <2>1. k + 1 \in s.taken .. t.taken - 1 /\ (k + 1) - 1 = k
    BY <1>1, <1>2
  <2>2. At(k) # "\n"
    BY <1>1, <2>1
  <2> QED
    BY <1>3, <2>2 DEF At
<1>5. Agree(a, C, D)
  BY <1>2 DEF Agree
<1>6. AtPlace(file, l, c, a, C)
  BY <1>2
<1>7. AtPlace(file, l, d, b, D)
  BY <1>3, <1>4, <1>5, <1>6, LineGoesOn
<1> QED
  BY <1>1, <1>2, <1>7

\* A token that is returned has the place it begins at, and settles what is comment.
LEMMA ReturnKeepsPositions ==
  ASSUME Follows, Moded, Covered, Positioned, NEW type, NEW value, NEW s, Returns(type, value, s)
  PROVE  Positioned'
<1>1. /\ mode \in InnerModes /\ Along(in, s) /\ in' = s /\ mode' = "start" /\ UNCHANGED file
      /\ s.start = in.start /\ Reading(s) /\ (type = "COMMENT" <=> mode \in CommentModes)
  BY DEF Returns, Emit, Along
<1>2. /\ in.taken \in Nat /\ in.taken >= 2 /\ in.column \in Int /\ s.taken \in Nat
      /\ s.taken >= in.taken
  BY <1>1, ReadingTypes DEF Follows, Moded, Along
<1>3. /\ FrontIsCovered /\ Frontier = in.start /\ in.start \in Nat /\ in.start <= in.taken - 1
      /\ mode # "failed"
  BY <1>1 DEF Covered, FrontIsCovered, Frontier, InnerModes
<1>4. PICK n, tok :
        /\ n = Len(tokens)
        /\ tok = [type |-> type, value |-> value, line |-> token.line, column |-> token.column,
                  text |-> TokenText(s), from |-> s.start]
  OBVIOUS
<1>5. /\ DOMAIN tokens = 1 .. n /\ DOMAIN tokens' = 1 .. n + 1 /\ n \in Nat
      /\ \A i \in 1 .. n : tokens'[i] = tokens[i]
      /\ tokens'[n + 1] = tok
  <2>1. tokens' = Append(tokens, tok)
    BY <1>4 DEF Returns, Emit
  <2> QED
    BY <1>4, <2>1, OneTokenMore DEF Covered
<1>6. tok.from = in.start /\ EndOf(tok) = s.taken - 1 /\ tok.type = type
  <2>1. tok.from = s.start /\ tok.text = TokenText(s) /\ tok.type = type
    BY <1>4
  <2>2. Len(TokenText(s)) = s.taken - 1 - s.start
    BY <1>1, <1>2, <1>3, TokenTextIsSpan
  <2> QED
    BY <1>1, <1>2, <1>3, <2>1, <2>2 DEF EndOf
<1>7. \A k \in Nat : k \in Comments' <=>
         k \in Comments \/ (mode \in CommentModes /\ in.start <= k /\ k < s.taken - 1)
  <2> SUFFICES ASSUME NEW k \in Nat
               PROVE  InComment(k)' <=>
                        InComment(k) \/ (mode \in CommentModes /\ in.start <= k /\ k < s.taken - 1)
    BY DEF Comments
  <2> DEFINE Holds(t) == t.type = "COMMENT" /\ t.from <= k /\ k < EndOf(t)
  <2>1. InComment(k) <=> \E i \in 1 .. n : Holds(tokens[i])
    BY <1>5 DEF InComment
  <2>2. InComment(k)' <=> \E i \in 1 .. n + 1 : Holds(tokens'[i])
    BY <1>5 DEF InComment, EndOf
  <2>3. Holds(tok) <=> (mode \in CommentModes /\ in.start <= k /\ k < s.taken - 1)
    BY <1>1, <1>6
  <2>4. \A i \in 1 .. n : Holds(tokens'[i]) <=> Holds(tokens[i])
    BY <1>5
  <2>5. Holds(tokens'[n + 1]) <=> Holds(tok)
    BY <1>5
  <2>6. 1 .. n + 1 = 1 .. n \cup {n + 1}
    BY <1>5
  <2> HIDE DEF Holds
  <2> QED
    BY <2>1, <2>2, <2>3, <2>4, <2>5, <2>6
<1>8. \A k \in 1 .. in.start - 1 : k \in Comments <=> k \in Comments'
  BY <1>3, <1>7
<1>9. AtPlace(file, tok.line, tok.column, tok.from, Comments')
  <2>1. AtPlace(file, token.line, token.column, in.start, Comments)
    BY <1>1 DEF Positioned
  <2>2. PICK l, c, a, D : l = token.line /\ c = token.column /\ a = in.start /\ D = Comments'
    OBVIOUS
  <2>3. AtPlace(file, l, c, a, D)
    <3>1. Seen(file, a, D) = Seen(file, a, Comments)
      BY <1>3, <1>8, <2>2 DEF Seen, Breaks
    <3> QED
      BY <2>1, <2>2, <3>1 DEF AtPlace
  <2>4. tok.line = l /\ tok.column = c /\ tok.from = a
    BY <1>4, <1>6, <2>2
  <2> QED
    BY <2>2, <2>3, <2>4
<1>10. \A i \in 1 .. n : AtPlace(file, tokens[i].line, tokens[i].column, tokens[i].from, Comments')
  <2> SUFFICES ASSUME NEW i \in 1 .. n
               PROVE  AtPlace(file, tokens[i].line, tokens[i].column, tokens[i].from, Comments')
    OBVIOUS
  <2>1. AtPlace(file, tokens[i].line, tokens[i].column, tokens[i].from, Comments)
    BY <1>5 DEF Positioned
  <2>2. tokens[i].from \in Nat /\ tokens[i].from <= in.start
    <3>1. tokens[i].from \in Nat /\ EndOf(tokens[i]) \in Nat /\ tokens[i].from <= EndOf(tokens[i])
      BY <1>5 DEF Covered, Covers
    <3>2. PICK e : e = EndBefore(Len(tokens) + 1)
      OBVIOUS
    <3>3. EndOf(tokens[i]) <= e /\ e <= in.start
      BY <1>3, <1>5, <3>2 DEF Covered, InOrder, FrontIsCovered
    <3>4. e \in Int
      BY <3>2 DEF Covered, AreTokens, Covers, EndBefore
    <3> QED
      BY <1>3, <3>1, <3>3, <3>4
  <2>3. \A k \in 1 .. tokens[i].from - 1 : k \in Comments <=> k \in Comments'
    BY <1>3, <1>8, <2>2
  <2>4. Seen(file, tokens[i].from, Comments') = Seen(file, tokens[i].from, Comments)
    BY <2>3 DEF Seen, Breaks
  <2> QED
    BY <2>1, <2>4 DEF AtPlace
<1>11. \A i \in 1 .. n + 1 :
         AtPlace(file, tokens'[i].line, tokens'[i].column, tokens'[i].from, Comments')
  <2> SUFFICES ASSUME NEW i \in 1 .. n + 1
               PROVE  AtPlace(file, tokens'[i].line, tokens'[i].column, tokens'[i].from, Comments')
    OBVIOUS
  <2>1. CASE i \in 1 .. n
    BY <1>5, <1>10, <2>1
  <2>2. CASE i = n + 1
    BY <1>5, <1>9, <2>2
  <2> QED
    BY <1>5, <2>1, <2>2
<1>12. AtPlace(file, s.line, s.column, s.taken - 1, Comments' \cup Current')
  <2>1. AtPlace(file, in.line, in.column, in.taken - 1, Comments \cup Current)
    BY <1>3 DEF Positioned
  <2>2. Current' = {}
    BY <1>1 DEF Current, CommentModes
  <2>3. PICK C, D : C = Comments \cup Current /\ D = Comments' \cup Current'
    OBVIOUS
  <2>4. \A k \in 1 .. in.taken - 2 : k \in C <=> k \in D
    <3> SUFFICES ASSUME NEW k \in 1 .. in.taken - 2 PROVE k \in C <=> k \in D
      OBVIOUS
    <3>1. k \in D <=> k \in Comments \/ (mode \in CommentModes /\ in.start <= k /\ k < s.taken - 1)
      BY <1>7, <2>2, <2>3
    <3>2. k < s.taken - 1
      BY <1>2
    <3>3. k \in Current <=> mode \in CommentModes /\ in.start <= k
      BY <1>2, <1>3 DEF Current
    <3> QED
      BY <2>3, <3>1, <3>2, <3>3
  <2> QED
    BY <1>1, <1>2, <2>1, <2>3, <2>4, AlongTheLine
<1>13. mode' \notin InnerModes
  BY <1>1 DEF InnerModes
<1> QED
  BY <1>1, <1>5, <1>11, <1>12, <1>13 DEF Positioned

\* White space leaves the lexer at the right line and column,
LEMMA SkippingKeepsPositions ==
  ASSUME Follows, Moded, Covered, Positioned, SkipWs
  PROVE  Positioned'
<1>1. /\ UNCHANGED << file, mode, token, tokens >>
      /\ in'.taken = in.taken + 1 /\ in'.start = in.start
      /\ in'.line = IF in.cur_char = "\n" THEN in.line + 1 ELSE in.line
      /\ in'.column = IF in.cur_char = "\n" THEN 1 ELSE in.column + 1
  BY SpaceIsSkipped
<1>2. /\ mode \notin CommentModes /\ mode # "failed"
  BY DEF SkipWs, CommentModes
<1>3. /\ in.taken \in Nat /\ in.taken >= 2 /\ in.column \in Int /\ Len(file) \in Nat
      /\ in.cur_char = At(in.taken - 1)
  BY ReadingTypes DEF Follows, Moded, IsFile
<1>4. PICK n, C, l, c : /\ n = in.taken - 1 /\ C = Comments \cup Current
                        /\ l = in.line /\ c = in.column
  OBVIOUS
<1>5. n \in Nat \ {0} /\ c \in Int /\ AtPlace(file, l, c, n, C)
  BY <1>2, <1>3, <1>4 DEF Positioned
<1>6. in.cur_char = "\n" <=> n <= Len(file) /\ file[n] = "\n"
  BY <1>3, <1>4, <1>5, BreakAt
<1>7. AtPlace(file, in'.line, in'.column, n + 1, C)
  <2>1. CASE in.cur_char = "\n"
    <3>1. n \notin C
      BY <1>2, <1>3, <1>4, <1>5, CommentsEnd DEF Current, Covered, FrontIsCovered
    <3>2. AtPlace(file, l + 1, 1, n + 1, C)
      BY <1>3, <1>5, <1>6, <2>1, <3>1, LineEnds
    <3> QED
      BY <1>1, <1>4, <2>1, <3>2
  <2>2. CASE in.cur_char # "\n"
    <3>1. PICK b, d : b = n + 1 /\ d = c + 1
      OBVIOUS
    <3>2. b \in Nat /\ n \in Nat /\ n <= b /\ d = c + (b - n)
      BY <1>5, <3>1
    <3>3. NoBreaks(file, n, b)
      BY <1>5, <1>6, <2>2, <3>1 DEF NoBreaks
    <3>4. Agree(n, C, C)
      BY DEF Agree
    <3>5. AtPlace(file, l, c, n, C)
      BY <1>5
    <3>6. AtPlace(file, l, d, b, C)
      BY <3>2, <3>3, <3>4, <3>5, LineGoesOn
    <3> QED
      BY <1>1, <1>4, <2>2, <3>1, <3>6
  <2> QED
    BY <2>1, <2>2
<1>8. C = Comments \cup Current'
  BY <1>1, <1>2, <1>4 DEF Current
<1>9. in'.taken - 1 = n + 1
  BY <1>1, <1>3, <1>4
<1> QED
  BY <1>1, <1>7, <1>8, <1>9, PositionedStays DEF Positioned

\* a comment at the right line, its breaks not counted in the column;
LEMMA CommentKeepsPositions ==
  ASSUME Follows, Moded, Covered, Positioned, TakeComment
  PROVE  Positioned'
<1>1. /\ UNCHANGED << file, mode, token, tokens >> /\ mode = "comment"
      /\ in'.taken = in.taken + 1 /\ in'.start = in.start /\ in'.column = in.column + 1
      /\ in'.line = IF in.cur_char = "\n" THEN in.line + 1 ELSE in.line
  BY CommentGoesOn
<1>2. /\ in.taken \in Nat /\ in.taken >= 2 /\ in.column \in Int /\ Len(file) \in Nat
      /\ in.cur_char = At(in.taken - 1)
  BY ReadingTypes DEF Follows, Moded, IsFile
<1>3. in.start \in Nat /\ in.start <= in.taken - 1
  BY <1>1 DEF Covered, FrontIsCovered, Frontier
<1>4. PICK n, C, D, l, c : /\ n = in.taken - 1 /\ C = Comments \cup Current
                           /\ D = Comments \cup Current' /\ l = in.line /\ c = in.column
  OBVIOUS
<1>5. n \in Nat \ {0} /\ c \in Int /\ AtPlace(file, l, c, n, C)
  BY <1>1, <1>2, <1>4 DEF Positioned
<1>6. in.cur_char = "\n" <=> n <= Len(file) /\ file[n] = "\n"
  BY <1>2, <1>4, <1>5, BreakAt
<1>7. Current = in.start .. n - 1 /\ Current' = in.start .. n
  BY <1>1, <1>2, <1>4 DEF Current, CommentModes
<1>8. n \in D /\ Agree(n, C, D)
  BY <1>3, <1>4, <1>5, <1>7 DEF Agree
<1>9. AtPlace(file, in'.line, in'.column, n + 1, D)
  <2>1. CASE in.cur_char = "\n"
    <3>1. AtPlace(file, l + 1, c + 1, n + 1, D)
      BY <1>2, <1>5, <1>6, <1>8, <2>1, LineEndsInComment
    <3> QED
      BY <1>1, <1>4, <2>1, <3>1
  <2>2. CASE in.cur_char # "\n"
    <3>1. PICK b, d : b = n + 1 /\ d = c + 1
      OBVIOUS
    <3>2. b \in Nat /\ n \in Nat /\ n <= b /\ d = c + (b - n)
      BY <1>5, <3>1
    <3>3. NoBreaks(file, n, b)
      BY <1>5, <1>6, <2>2, <3>1 DEF NoBreaks
    <3>4. Agree(n, C, D)
      BY <1>8
    <3>5. AtPlace(file, l, c, n, C)
      BY <1>5
    <3>6. AtPlace(file, l, d, b, D)
      BY <3>2, <3>3, <3>4, <3>5, LineGoesOn
    <3> QED
      BY <1>1, <1>4, <2>2, <3>1, <3>6
  <2> QED
    BY <2>1, <2>2
<1>10. in'.taken - 1 = n + 1
  BY <1>1, <1>2, <1>4
<1> QED
  BY <1>1, <1>4, <1>9, <1>10, PositionedStays DEF Positioned

\* a token begins at the place the lexer is at,
LEMMA BeginningKeepsPositions ==
  ASSUME Follows, Moded, Covered, Positioned, BeginToken
  PROVE  Positioned'
<1>1. PICK s : /\ Along(s, in') /\ s.start = in.taken - 1 /\ s.taken = in.taken
               /\ s.line = in.line /\ s.column = in.column
               /\ UNCHANGED << file, tokens >>
               /\ token'.line = in.line /\ token'.column = in.column
  BY TokenBegins
<1>2. mode = "start"
  BY DEF BeginToken
<1>3. in.taken \in Nat /\ in.taken >= 2 /\ in.column \in Int
  BY ReadingTypes DEF Follows, Moded
<1>4. AtPlace(file, in.line, in.column, in.taken - 1, Comments)
  <2>1. Current = {}
    BY <1>2 DEF Current, CommentModes
  <2>2. Comments \cup Current = Comments
    BY <2>1
  <2> QED
    BY <1>2, <2>2 DEF Positioned
<1>5. in'.start = in.taken - 1
  BY <1>1 DEF Along
<1>6. AtPlace(file, in'.line, in'.column, in'.taken - 1, Comments \cup Current')
  <2>1. PICK C, D : C = Comments /\ D = Comments \cup Current'
    OBVIOUS
  <2>2. \A k \in 1 .. s.taken - 2 : k \in C <=> k \in D
    BY <1>1, <1>3, <1>5, <2>1 DEF Current
  <2> QED
    BY <1>1, <1>3, <1>4, <2>1, <2>2, AlongTheLine
<1>7. AtPlace(file, token'.line, token'.column, in'.start, Comments)
  BY <1>1, <1>4, <1>5
<1> QED
  BY <1>1, <1>6, <1>7, PositionedStays

\* and goes on along the line.
LEMMA ContinuingKeepsPositions ==
  ASSUME Follows, Moded, Covered, Positioned, Continues
  PROVE  Positioned'
<1>1. /\ mode \in InnerModes /\ mode' \in InnerModes /\ Along(in, in')
      /\ mode \in CommentModes <=> mode' \in CommentModes
      /\ UNCHANGED << file, tokens >> /\ in'.start = in.start
      /\ token'.line = token.line /\ token'.column = token.column
  BY DEF Continues, Along
<1>2. /\ in.taken \in Nat /\ in.taken >= 2 /\ in.column \in Int /\ in'.taken \in Nat
      /\ in'.taken >= in.taken /\ in.start \in Nat
  BY <1>1, ReadingTypes DEF Follows, Moded, Along
<1>3. PICK C, D : C = Comments \cup Current /\ D = Comments \cup Current'
  OBVIOUS
<1>4. \A k \in 1 .. in.taken - 2 : k \in C <=> k \in D
  BY <1>1, <1>2, <1>3 DEF Current
<1>5. AtPlace(file, in.line, in.column, in.taken - 1, C)
  BY <1>1, <1>3 DEF Positioned, InnerModes
<1>6. AtPlace(file, in'.line, in'.column, in'.taken - 1, D)
  BY <1>1, <1>2, <1>4, <1>5, AlongTheLine
<1> QED
  BY <1>1, <1>3, <1>6, PositionedStays DEF Positioned

\* The lines and the columns are those of the file.
THEOREM LexerKnowsItsPlace == Spec => []Positioned
<1>1. Init => Positioned
  <2> SUFFICES ASSUME Init PROVE Positioned
    OBVIOUS
  <2>1. IsFile /\ tokens = << >> /\ mode = "start"
    BY FilesAssumption DEF Init, IsFile
  <2>2. InStep(Opened) /\ Opened.taken = 0 /\ Opened.line = 1 /\ Opened.column = -1
    <3>1. InStep(Opened)
      BY <2>1, OpenedInStep
    <3> QED
      BY <3>1 DEF Opened, ReadStream
  <2>3. in.taken = 2 /\ in.line = 1 /\ in.column = 1
    <3>1. PICK s, t : s = GetChar(Opened) /\ t = GetChar(s)
      OBVIOUS
    <3>2. InStep(s) /\ s.taken = 1 /\ s.line = 1 /\ s.column = 0
      BY <2>1, <2>2, <3>1, GetCharInStep, GetCharKeeps DEF InStep
    <3>3. InStep(t) /\ t.taken = 2 /\ t.line = 1 /\ t.column = 1
      BY <2>1, <3>1, <3>2, GetCharInStep, GetCharKeeps DEF InStep
    <3> QED
      BY <3>1, <3>3 DEF Init
  <2>4. \A C : AtPlace(file, 1, 1, 1, C)
    <3>1. Breaks(file, 1) = {}
      BY DEF Breaks
    <3> QED
      BY <3>1, FS_EmptySet DEF AtPlace, Seen, IsLast
  <2>5. in.taken - 1 = 1 /\ DOMAIN tokens = {}
    BY <2>1, <2>3
  <2> QED
    BY <2>1, <2>3, <2>4, <2>5 DEF Positioned, InnerModes
<1>2. Follows /\ Moded /\ Covered /\ Positioned /\ [Next]_vars => Positioned'
  <2> SUFFICES ASSUME Follows, Moded, Covered, Positioned, [Next]_vars PROVE Positioned'
    OBVIOUS
  <2>1. CASE EndOfStream
    <3>1. /\ mode = "end" /\ mode' = "done" /\ UNCHANGED << file, tokens, in >>
      BY <2>1 DEF EndOfStream, Goto
    <3>2. Current' = Current /\ mode' \notin InnerModes
      BY <3>1 DEF Current, CommentModes, InnerModes
    <3> QED
      BY <3>1, <3>2, PositionedStays DEF Positioned
  <2>2. ASSUME NEW s, GivesUp(s) PROVE Positioned'
    BY <2>2, PositionedStays DEF GivesUp, Fail, InnerModes
  <2>3. CASE UNCHANGED vars
    <3>1. Current' = Current
      BY <2>3 DEF vars, Current
    <3> QED
      BY <2>3, <3>1, PositionedStays DEF vars, Positioned
  <2>4. ASSUME NEW type, NEW value, NEW s, Returns(type, value, s) PROVE Positioned'
    BY <2>4, ReturnKeepsPositions
  <2> QED
    BY <2>1, <2>2, <2>3, <2>4, SkippingKeepsPositions, CommentKeepsPositions,
       BeginningKeepsPositions, ContinuingKeepsPositions, StepsAreOfAKind DEF StepKinds
<1> QED
  BY <1>1, <1>2, LexerFollowsFile, LexerKnowsItsMode, LexerCoversFile, PTL DEF Spec

\* PositionsAreTrue: a token has the line it is on, and the column in it, counted from the
\* last break that is not in a comment, for every file.
THEOREM LexerPositionsAreTrue == Spec => []PositionsAreTrue
<1>1. Follows /\ Covered /\ Positioned => PositionsAreTrue
  <2> SUFFICES ASSUME Follows, Covered, Positioned, NEW i \in DOMAIN tokens,
                      NEW breaks, breaks = {k \in 1 .. tokens[i].from - 1 : At(k) = "\n"},
                      NEW seen, seen = {k \in breaks : ~ InComment(k)} \cup {0}
               PROVE  /\ tokens[i].line = 1 + Cardinality(breaks)
                      /\ tokens[i].column = tokens[i].from - Max(seen)
    BY DEF PositionsAreTrue
  <2>1. PICK n, c : n = tokens[i].from /\ c = tokens[i].column
    OBVIOUS
  <2>2. /\ n \in Nat /\ c \in Int /\ Len(file) \in Nat
        /\ tokens[i].line = 1 + Cardinality(Breaks(file, n))
        /\ IsLast(n - c, Seen(file, n, Comments))
    BY <2>1 DEF Positioned, AtPlace, Covered, Covers, Follows, IsFile
  <2>3. breaks = Breaks(file, n)
    BY <2>1, <2>2, BreakAt DEF Breaks
  <2>4. seen = Seen(file, n, Comments)
    BY <2>3 DEF Seen, Comments, Breaks
  <2>5. seen \in SUBSET Int
    BY <2>3 DEF Breaks
  <2>6. Max(seen) = n - c
    BY <2>2, <2>4, <2>5, LastIsMax
  <2> QED
    <3>1. c = n - Max(seen)
      BY <2>2, <2>6
    <3> QED
      BY <2>1, <2>2, <2>3, <3>1
<1> QED
  BY <1>1, LexerFollowsFile, LexerCoversFile, LexerKnowsItsPlace, PTL

----------------------------------------------------------------------------
(* The values of the lexer's variables *)

\* The prover does not know powers: a set has as many subsets with one more element as
\* without.
LEMMA PowerDoubles ==
  ASSUME NEW n \in Nat
  PROVE  2 ^ n \in Nat \ {0} /\ 2 ^ (n + 1) = 2 * 2 ^ n
<1> DEFINE S == 1 .. n
           P == SUBSET S
           Q == {A \cup {n + 1} : A \in P}
           f == [A \in P |-> A \cup {n + 1}]
<1>1. IsFiniteSet(S) /\ Cardinality(S) = n
  BY FS_Interval
<1>2. IsFiniteSet(P) /\ Cardinality(P) = 2 ^ n
  BY <1>1, FS_SUBSET
<1>3. IsFiniteSet(1 .. n + 1) /\ Cardinality(1 .. n + 1) = n + 1
  BY FS_Interval
<1>4. Cardinality(SUBSET (1 .. n + 1)) = 2 ^ (n + 1)
  BY <1>3, FS_SUBSET
<1>5. n + 1 \notin S
  OBVIOUS
<1>6. f \in Bijection(P, Q)
  <2>1. f \in [P -> Q] /\ \A B \in Q : \E A \in P : f[A] = B
    OBVIOUS
  <2>2. \A A, B \in P : f[A] = f[B] => A = B
    <3> SUFFICES ASSUME NEW A \in P, NEW B \in P, A \cup {n + 1} = B \cup {n + 1}
                 PROVE  A = B
      OBVIOUS
    <3>1. n + 1 \notin A /\ n + 1 \notin B
      BY <1>5
    <3> QED
      BY <3>1
  <2> QED
    BY <2>1, <2>2 DEF Bijection, Injection, Surjection, IsInjective
<1>7. IsFiniteSet(Q) /\ Cardinality(Q) = Cardinality(P)
  BY <1>2, <1>6, FS_Bijection DEF ExistsBijection
<1>8. P \cap Q = {}
  BY <1>5
<1>9. SUBSET (1 .. n + 1) = P \cup Q
  <2>1. 1 .. n + 1 = S \cup {n + 1}
    OBVIOUS
  <2>2. ASSUME NEW B \in SUBSET (S \cup {n + 1}) PROVE B \in P \cup Q
    <3>1. CASE n + 1 \in B
      <4>1. B = (B \ {n + 1}) \cup {n + 1} /\ B \ {n + 1} \in P
        BY <3>1
      <4> QED
        BY <4>1
    <3>2. CASE n + 1 \notin B
      BY <3>2
    <3> QED
      BY <3>1, <3>2
  <2>3. P \cup Q \subseteq SUBSET (S \cup {n + 1})
    OBVIOUS
  <2> QED
    BY <2>1, <2>2, <2>3
<1> HIDE DEF S, P, Q, f
<1>10. Cardinality(P \cup Q) = Cardinality(P) + Cardinality(Q) - Cardinality(P \cap Q)
  BY <1>2, <1>7, FS_Union
<1>11. Cardinality(P \cap Q) = 0
  BY <1>8, FS_EmptySet
<1>12. Cardinality(P) \in Nat /\ Cardinality(P) # 0
  <2>1. {} \in P
    BY DEF P
  <2> QED
    BY <1>2, <2>1, FS_CardinalityType, FS_EmptySet
<1>13. PICK a, b : a = 2 ^ n /\ b = 2 ^ (n + 1)
  OBVIOUS
<1>14. a = Cardinality(P) /\ b = Cardinality(P \cup Q)
  BY <1>2, <1>4, <1>9, <1>13
<1>15. a \in Nat \ {0} /\ b = a + a - 0
  BY <1>7, <1>10, <1>11, <1>12, <1>14
<1>16. b = 2 * a
  BY <1>15
<1> QED
  BY <1>13, <1>15, <1>16

\* The word a result wraps to is one.
LEMMA WrapIsWord ==
  ASSUME NEW v \in Int
  PROVE  Wrap(v) \in Words /\ Words \subseteq Int /\ 0 \in Words
<1>1. PICK h, m : h = 2 ^ (WordBits - 1) /\ m = 2 ^ WordBits
  OBVIOUS
<1>2. h \in Nat \ {0} /\ m = 2 * h
  <2>1. WordBits - 1 \in Nat /\ (WordBits - 1) + 1 = WordBits
    BY WordBitsAssumption
  <2> QED
    BY <1>1, <2>1, PowerDoubles
<1>3. Modulus = m /\ MaxWord = h - 1 /\ MinWord = -h
  BY <1>1 DEF Modulus, MaxWord, MinWord
<1>4. v % m \in 0 .. m - 1
  BY <1>2
<1> QED
  BY <1>2, <1>3, <1>4 DEF Wrap, Words

\* What the two variables hold that only numbers and escape sequences use.
Summed == digits \in 0 .. 3 /\ (mode \in {"digits", "suffix"} => result \in Words)

\* The value of a digit is a number.
LEMMA DigitValueIsInt ==
  ASSUME NEW c, IsDigit(c) \/ IsHexdigit(c)
  PROVE  DigitValue(c) \in Int
<1>1. CASE IsDigit(c)
  <2>1. PICK m : m = CHOOSE k \in 1 .. 10 : c = Decimal[k]
    OBVIOUS
  <2>2. m \in 1 .. 10
    BY <1>1, <2>1 DEF IsDigit
  <2>3. DigitValue(c) = m - 1
    BY <1>1, <2>1 DEF DigitValue
  <2> QED
    BY <2>2, <2>3
<1>2. CASE ~ IsDigit(c)
  <2>1. PICK m : m = CHOOSE k \in 1 .. 6 : c \in {LowHex[k], HighHex[k]}
    OBVIOUS
  <2>2. m \in 1 .. 6
    BY <1>2, <2>1 DEF IsHexdigit
  <2>3. DigitValue(c) = m + 9
    BY <1>2, <2>1 DEF DigitValue
  <2> QED
    BY <2>2, <2>3
<1> QED
  BY <1>1, <1>2

\* A sum begins with 0, and only a step in it changes it.
LEMMA SumStays ==
  ASSUME Moded, Summed, Next
  PROVE  Summed'
<1>1. 0 \in Words /\ Words \subseteq Int /\ \A v \in Int : Wrap(v) \in Words
  BY WrapIsWord
<1>2. CASE BeginScalar
  BY <1>1, <1>2 DEF BeginScalar, Goto, Fail, Summed
<1>3. CASE AddDigit
  <2>b. base \in {8, 10, 16}
    BY DEF Moded
  <2>1. base \in Int /\ result \in Int
    <3>1. result \in Words
      BY <1>3 DEF AddDigit, Summed
    <3>2. result \in Int
      BY <1>1, <3>1, Zenon
    <3> QED
      BY <2>b, <3>2
  <2>2. DigitValue(cur) \in Int
    <3>1. IsDigitEx(cur, base)
      BY <1>3 DEF AddDigit
    <3>2. IsDigit(cur) \/ IsHexdigit(cur) \/ IsOctdigit(cur)
      BY <2>b, <3>1 DEF IsDigitEx
    <3>3. IsOctdigit(cur) => IsDigit(cur)
      BY DEF IsOctdigit, IsDigit
    <3> QED
      BY <3>2, <3>3, DigitValueIsInt
  <2>3. result * base + DigitValue(cur) \in Int
    BY <2>1, <2>2
  <2> QED
    BY <1>1, <1>3, <2>3 DEF AddDigit, Summed
<1>4. CASE EndDigits
  BY <1>4 DEF EndDigits, Goto, Fail, Summed
<1>5. CASE BeginOctal \/ AddOctal
  BY <1>5 DEF BeginOctal, AddOctal, Goto, Fail, Summed
<1>6. CASE SkipWs \/ TakeSuffix \/ TakeDigit \/ TakeIdent \/ TakeLineComment \/ TakeComment
           \/ TakeChar
  BY <1>6 DEF SkipWs, TakeSuffix, TakeDigit, TakeIdent, TakeLineComment, TakeComment, TakeChar,
              Keep, Summed
<1>7. CASE BeginToken
  BY <1>7 DEF BeginToken, Starts, Goto, Summed
<1>8. CASE EndOfStream \/ OpenString \/ CloseString \/ NextString \/ Backslash \/ BeginHex
  BY <1>8 DEF EndOfStream, OpenString, CloseString, NextString, Backslash, BeginHex, Goto,
              Fail, Summed
<1>9. CASE Point \/ EndNumber
  BY <1>9 DEF Point, EndNumber, Goto, Fail, Summed
<1>10. CASE Exponent
  BY <1>10 DEF Exponent, Goto, Fail, Summed
<1>11. CASE SimpleEscape \/ HexEscape \/ OctalEscape
  BY <1>11 DEF SimpleEscape, HexEscape, OctalEscape, Escaped, Goto, Fail, Summed
<1>12. CASE EndSuffix \/ EndFloat \/ EndIdent \/ EndLineComment \/ EndComment \/ EndString
            \/ TakePunctuator
  BY <1>12 DEF EndSuffix, EndFloat, EndIdent, EndLineComment, EndComment, EndString, TakePunctuator,
               Emit, Fail, Summed
<1> QED
  BY <1>2, <1>3, <1>4, <1>5, <1>6, <1>7, <1>8, <1>9, <1>10, <1>11, <1>12 DEF Next

\* TypeOK: the sums are words, of one of the three bases, and the line counts from 1.
THEOREM LexerTypesHold == Spec => []TypeOK
<1> DEFINE LineCounts == in.line \in Nat \ {0}
<1>1. Init => Summed /\ LineCounts
  <2> SUFFICES ASSUME Init PROVE Summed /\ LineCounts
    OBVIOUS
  <2>1. IsFile
    BY FilesAssumption DEF Init, IsFile
  <2>2. InStep(Opened) /\ Opened.line = 1
    <3>1. InStep(Opened)
      BY <2>1, OpenedInStep
    <3> QED
      BY <3>1 DEF Opened, ReadStream
  <2>3. PICK s : s = GetChar(Opened)
    OBVIOUS
  <2>4. InStep(s) /\ s.line = 1
    BY <2>1, <2>2, <2>3, GetCharInStep, GetCharKeeps DEF InStep
  <2>5. GetChar(s).line = 1
    BY <2>4, GetCharKeeps DEF InStep
  <2> QED
    BY <2>3, <2>5 DEF Init, Summed
<1>2. Follows /\ Moded /\ Summed /\ LineCounts /\ [Next]_vars => Summed' /\ LineCounts'
  <2> SUFFICES ASSUME Follows, Moded, Summed, LineCounts, [Next]_vars PROVE Summed' /\ LineCounts'
    OBVIOUS
  <2>1. CASE UNCHANGED vars
    BY <2>1 DEF vars, Summed
  <2>2. CASE Next
    <3>1. in'.line \in {in.line, in.line + 1}
      <4>1. CASE SkipWs
        BY <4>1, SpaceIsSkipped
      <4>2. CASE TakeComment
        BY <4>2, CommentGoesOn
      <4>3. CASE BeginToken
        BY <4>3, TokenBegins DEF Along
      <4>4. CASE EndOfStream
        BY <4>4 DEF EndOfStream, Goto
      <4>5. CASE Continues \/ (\E type, value, s : Returns(type, value, s)) \/ (\E s : GivesUp(s))
        BY <4>5 DEF Continues, Returns, GivesUp, Emit, Fail, Along
      <4> QED
        BY <2>2, <4>1, <4>2, <4>3, <4>4, <4>5, StepsAreOfAKind DEF StepKinds
    <3> QED
      BY <2>2, <3>1, SumStays
  <2> QED
    BY <2>1, <2>2
<1>3. Follows /\ Moded /\ Summed /\ LineCounts => TypeOK
  BY ReadingTypes DEF Follows, Moded, Summed, TypeOK
<1> QED
  BY <1>1, <1>2, <1>3, LexerFollowsFile, LexerKnowsItsMode, PTL DEF Spec

----------------------------------------------------------------------------
(* Characters *)

\* The characters numbers, names and operators are told apart by.
LEMMA DigitsAre ==
  ASSUME NEW c
  PROVE  /\ IsDigit(c) <=> c \in {"0", "1", "2", "3", "4", "5", "6", "7", "8", "9"}
         /\ IsOctdigit(c) <=> c \in {"0", "1", "2", "3", "4", "5", "6", "7"}
<1>1. \A k \in 1 .. 10 : \/ k = 1 \/ k = 2 \/ k = 3 \/ k = 4 \/ k = 5
                         \/ k = 6 \/ k = 7 \/ k = 8 \/ k = 9 \/ k = 10
  OBVIOUS
<1>2. /\ Decimal[1] = "0" /\ Decimal[2] = "1" /\ Decimal[3] = "2" /\ Decimal[4] = "3"
      /\ Decimal[5] = "4" /\ Decimal[6] = "5" /\ Decimal[7] = "6" /\ Decimal[8] = "7"
      /\ Decimal[9] = "8" /\ Decimal[10] = "9"
  BY DEF Decimal
<1>3. /\ 1 \in 1 .. 8 /\ 2 \in 1 .. 8 /\ 3 \in 1 .. 8 /\ 4 \in 1 .. 8 /\ 5 \in 1 .. 8
      /\ 6 \in 1 .. 8 /\ 7 \in 1 .. 8 /\ 8 \in 1 .. 8 /\ 9 \notin 1 .. 8 /\ 10 \notin 1 .. 8
      /\ \A k \in 1 .. 8 : k \in 1 .. 10
      /\ 1 \in 1 .. 10 /\ 2 \in 1 .. 10 /\ 3 \in 1 .. 10 /\ 4 \in 1 .. 10 /\ 5 \in 1 .. 10
      /\ 6 \in 1 .. 10 /\ 7 \in 1 .. 10 /\ 8 \in 1 .. 10 /\ 9 \in 1 .. 10 /\ 10 \in 1 .. 10
  OBVIOUS
<1>4. IsDigit(c) <=> c \in {"0", "1", "2", "3", "4", "5", "6", "7", "8", "9"}
  BY <1>1, <1>2, <1>3 DEF IsDigit
<1>5. IsOctdigit(c) <=> c \in {"0", "1", "2", "3", "4", "5", "6", "7"}
  BY <1>1, <1>2, <1>3 DEF IsOctdigit
<1> QED
  BY <1>4, <1>5

\* A character that no name and no number holds but at the places it has in a float.
Joints == {".", "e", "E", "x", "X", "+", "-"}

LEMMA CharactersDiffer ==
  ASSUME NEW c
  PROVE  /\ IsOctdigit(c) => IsDigit(c)
         /\ IsDigit(c) => /\ IsHexdigit(c) /\ c \notin Joints /\ ~ IsIdentStart(c) /\ IsIdent(c)
                          /\ ~ IsAlpha(c)
         /\ IsIdentStart(c) => c \notin {".", "+", "-"} /\ IsIdent(c)
         /\ IsIdent(c) => c \notin {".", "+", "-"}
         /\ IsHexdigit(c) => c \notin {".", "x", "X", "+", "-"}
         /\ c \in {"e", "E", "x", "X"} => IsAlpha(c)
         /\ IsDigit("0") /\ IsOctdigit("0")
         /\ IsDigit(c) \/ IsIdent(c) \/ IsHexdigit(c) => c # Nul
<1>1. /\ \A d \in {"0", "1", "2", "3", "4", "5", "6", "7", "8", "9"} :
            d \notin Joints /\ d \notin Letters /\ d # "_"
      /\ \A d \in Letters : d \notin {".", "+", "-"}
      /\ \A d \in {"e", "E", "x", "X"} : d \in Letters
  BY DEF Joints, Letters
<1>2. \A k \in 1 .. 6 : LowHex[k] \notin {".", "x", "X", "+", "-"}
                        /\ HighHex[k] \notin {".", "x", "X", "+", "-"}
  BY DEF LowHex, HighHex
<1>3. IsHexdigit(c) => c \notin {".", "x", "X", "+", "-"}
  BY <1>1, <1>2, DigitsAre DEF IsHexdigit, Joints
<1>4. IsOctdigit(c) => IsDigit(c)
  BY DigitsAre
<1>5. IsDigit("0") /\ IsOctdigit("0")
  BY DigitsAre
<1>6. IsDigit(c) => /\ IsHexdigit(c) /\ c \notin Joints /\ ~ IsIdentStart(c) /\ IsIdent(c)
                    /\ ~ IsAlpha(c)
  <2> SUFFICES ASSUME IsDigit(c)
               PROVE  c \notin Joints /\ c \notin Letters /\ c # "_"
    BY DEF IsIdentStart, IsIdent, IsAlpha, IsHexdigit
  <2>1. c \in {"0", "1", "2", "3", "4", "5", "6", "7", "8", "9"}
    BY DigitsAre
  <2> QED
    BY <1>1, <2>1
<1>7. IsIdentStart(c) => c \notin {".", "+", "-"} /\ IsIdent(c)
  BY <1>1 DEF IsIdentStart, IsIdent, IsAlpha
<1>8. IsIdent(c) => c \notin {".", "+", "-"}
  BY <1>6, <1>7 DEF IsIdent, Joints
<1>9. IsDigit(c) \/ IsIdent(c) \/ IsHexdigit(c) => c # Nul
  BY DigitsArePlain, LettersArePlain, HexdigitsArePlain, MarksArePlain
     DEF IsIdent, IsIdentStart, Plain, Marks
<1> QED
  BY <1>1, <1>3, <1>4, <1>5, <1>6, <1>7, <1>8, <1>9 DEF IsAlpha

----------------------------------------------------------------------------
(* What is in the file from one place to before another *)

DigitsIn(a, b) == \A k \in a .. b - 1 : IsDigit(At(k))

NameAt(n, z)    == n < z /\ IsIdentStart(At(n)) /\ \A k \in n .. z - 1 : IsIdent(At(k))
DecimalAt(n, z) == n < z /\ DigitsIn(n, z) /\ (n + 1 < z => At(n) # "0")
OctalAt(n, z)   == n + 1 < z /\ At(n) = "0" /\ \A k \in n .. z - 1 : IsOctdigit(At(k))
HexAt(n, z)     == /\ n + 2 < z /\ At(n) = "0" /\ At(n + 1) \in {"x", "X"}
                   /\ \A k \in n + 2 .. z - 1 : IsHexdigit(At(k))

\* Where the digits of a power are that begins at b.
PowerFrom(b) == IF At(b + 1) \in {"+", "-"} THEN b + 2 ELSE b + 1

PowerAt(b, z) == At(b) \in {"e", "E"} /\ PowerFrom(b) < z /\ DigitsIn(PowerFrom(b), z)

\* A whole part up to a, and a fraction up to b.
MantissaAt(n, a, b) ==
  /\ DigitsIn(n, a) /\ (n + 1 < a => At(n) # "0")
  /\ a = b \/ (At(a) = "." /\ DigitsIn(a + 1, b))
  /\ n < a \/ a + 1 < b

FloatAt(n, a, b, z) ==
  /\ n <= a /\ a <= b /\ b <= z
  /\ MantissaAt(n, a, b) /\ (b = z \/ PowerAt(b, z)) /\ (a < b \/ b < z)

\* Spans, and what is cut off from them.
LEMMA SpanIs ==
  ASSUME NEW n \in Nat, NEW z \in Nat, n <= z
  PROVE  /\ Len(Span(n, z)) = z - n /\ DOMAIN Span(n, z) = 1 .. z - n
         /\ \A k \in 1 .. z - n : Span(n, z)[k] = At(n + k - 1)
         /\ Span(n, z) = << >> <=> n = z
         /\ Span(n, z) \in Seq({At(k) : k \in Int})
<1> DEFINE S == {At(k) : k \in Int}
<1>1. \A k \in 1 .. z - n : At(n + k - 1) \in S
  OBVIOUS
<1> HIDE DEF S
<1>2. Span(n, z) \in Seq(S)
  BY <1>1 DEF Span
<1>3. Len(Span(n, z)) = z - n /\ DOMAIN Span(n, z) = 1 .. z - n
  BY DEF Span
<1>4. \A k \in 1 .. z - n : Span(n, z)[k] = At(n + k - 1)
  BY DEF Span
<1>5. Span(n, z) = << >> <=> n = z
  BY <1>2, <1>3
<1> QED
  BY <1>2, <1>3, <1>4, <1>5 DEF S

LEMMA SpanCut ==
  ASSUME NEW n \in Nat, NEW z \in Nat, n <= z, NEW i \in 1 .. z - n + 1, NEW j \in i - 1 .. z - n
  PROVE  SubSeq(Span(n, z), i, j) = Span(n + i - 1, n + j)
<1>1. Len(Span(n, z)) = z - n /\ Span(n, z) \in Seq({At(k) : k \in Int})
      /\ \A k \in 1 .. z - n : Span(n, z)[k] = At(n + k - 1)
  BY SpanIs
<1> DEFINE s == Span(n, z)
<1>2. SubSeq(s, i, j) = [k \in 1 .. j - i + 1 |-> s[i + k - 1]]
  BY <1>1
<1>3. \A k \in 1 .. j - i + 1 : s[i + k - 1] = At((n + i - 1) + k - 1)
  <2> SUFFICES ASSUME NEW k \in 1 .. j - i + 1 PROVE s[i + k - 1] = At((n + i - 1) + k - 1)
    OBVIOUS
  <2>1. i + k - 1 \in 1 .. z - n /\ n + (i + k - 1) - 1 = (n + i - 1) + k - 1
    OBVIOUS
  <2> QED
    BY <1>1, <2>1
<1>4. (n + j) - (n + i - 1) = j - i + 1
  OBVIOUS
<1> HIDE DEF s
<1> QED
  BY <1>2, <1>3, <1>4 DEF Span, s

LEMMA SpanTail ==
  ASSUME NEW n \in Nat, NEW z \in Nat, n < z
  PROVE  Tail(Span(n, z)) = Span(n + 1, z)
<1>0. n <= z
  OBVIOUS
<1>1. Len(Span(n, z)) = z - n /\ Span(n, z) \in Seq({At(k) : k \in Int})
  BY <1>0, SpanIs
<1>2. Tail(Span(n, z)) = SubSeq(Span(n, z), 2, z - n)
  BY <1>1
<1>3. 2 \in 1 .. z - n + 1 /\ z - n \in 2 - 1 .. z - n /\ n + 2 - 1 = n + 1 /\ n + (z - n) = z
  OBVIOUS
<1>4. SubSeq(Span(n, z), 2, z - n) = Span(n + 2 - 1, n + (z - n))
  BY <1>0, <1>3, SpanCut
<1> QED
  BY <1>2, <1>3, <1>4

\* All characters of a span.
LEMMA SpanAll ==
  ASSUME NEW n \in Nat, NEW z \in Nat, n <= z
  PROVE  /\ All(Span(n, z), IsDigit) <=> DigitsIn(n, z)
         /\ All(Span(n, z), IsOctdigit) <=> \A k \in n .. z - 1 : IsOctdigit(At(k))
         /\ All(Span(n, z), IsHexdigit) <=> \A k \in n .. z - 1 : IsHexdigit(At(k))
         /\ All(Span(n, z), IsIdent) <=> \A k \in n .. z - 1 : IsIdent(At(k))
<1>1. DOMAIN Span(n, z) = 1 .. z - n /\ \A k \in 1 .. z - n : Span(n, z)[k] = At(n + k - 1)
  BY SpanIs
<1>2. /\ \A k \in n .. z - 1 : k - n + 1 \in 1 .. z - n /\ n + (k - n + 1) - 1 = k
      /\ \A k \in 1 .. z - n : n + k - 1 \in n .. z - 1
  OBVIOUS
<1>3. \A k \in n .. z - 1 : Span(n, z)[k - n + 1] = At(k)
  BY <1>1, <1>2
<1>4. All(Span(n, z), IsDigit) <=> DigitsIn(n, z)
  BY <1>1, <1>2, <1>3 DEF All, DigitsIn
<1>5. All(Span(n, z), IsOctdigit) <=> \A k \in n .. z - 1 : IsOctdigit(At(k))
  BY <1>1, <1>2, <1>3 DEF All
<1>6. All(Span(n, z), IsHexdigit) <=> \A k \in n .. z - 1 : IsHexdigit(At(k))
  BY <1>1, <1>2, <1>3 DEF All
<1>7. All(Span(n, z), IsIdent) <=> \A k \in n .. z - 1 : IsIdent(At(k))
  BY <1>1, <1>2, <1>3 DEF All
<1> QED
  BY <1>4, <1>5, <1>6, <1>7

----------------------------------------------------------------------------
(* The tokens of the reference, by the places of the file *)

LEMMA SpanNumbers ==
  ASSUME NEW n \in Nat, NEW z \in Nat, n <= z
  PROVE  /\ IsName(Span(n, z)) <=> NameAt(n, z)
         /\ IsDecimal(Span(n, z)) <=> DecimalAt(n, z)
         /\ IsOctal(Span(n, z)) <=> OctalAt(n, z)
         /\ IsHex(Span(n, z)) <=> HexAt(n, z)
<1> DEFINE s == Span(n, z)
<1>1. /\ Len(s) = z - n /\ \A k \in 1 .. z - n : s[k] = At(n + k - 1)
      /\ s = << >> <=> n = z
  BY SpanIs
<1>2. n < z => s[1] = At(n)
  <2>1. n < z => 1 \in 1 .. z - n /\ n + 1 - 1 = n
    OBVIOUS
  <2> QED
    BY <1>1, <2>1
<1>3. n + 1 < z => s[2] = At(n + 1)
  <2>1. n + 1 < z => 2 \in 1 .. z - n /\ n + 2 - 1 = n + 1
    OBVIOUS
  <2> QED
    BY <1>1, <2>1
<1>4. n + 2 < z => Tail2(s) = Span(n + 2, z)
  <2> SUFFICES ASSUME n + 2 < z PROVE SubSeq(s, 3, z - n) = Span(n + 2, z)
    BY <1>1 DEF Tail2
  <2>1. 3 \in 1 .. z - n + 1 /\ z - n \in 3 - 1 .. z - n /\ n + 3 - 1 = n + 2 /\ n + (z - n) = z
    OBVIOUS
  <2>2. SubSeq(s, 3, z - n) = Span(n + 3 - 1, n + (z - n))
    BY <2>1, SpanCut
  <2> QED
    BY <2>1, <2>2
<1>5. /\ All(s, IsDigit) <=> DigitsIn(n, z)
      /\ All(s, IsOctdigit) <=> \A k \in n .. z - 1 : IsOctdigit(At(k))
      /\ All(s, IsIdent) <=> \A k \in n .. z - 1 : IsIdent(At(k))
  BY SpanAll
<1>6. n + 2 < z => (All(Tail2(s), IsHexdigit) <=> \A k \in n + 2 .. z - 1 : IsHexdigit(At(k)))
  <2> SUFFICES ASSUME n + 2 < z
               PROVE  All(Span(n + 2, z), IsHexdigit)
                        <=> \A k \in n + 2 .. z - 1 : IsHexdigit(At(k))
    BY <1>4
  <2>1. n + 2 \in Nat /\ n + 2 <= z
    OBVIOUS
  <2> QED
    BY <2>1, SpanAll
<1> HIDE DEF s
<1>7. (Len(s) > 1 <=> n + 1 < z) /\ (Len(s) > 2 <=> n + 2 < z) /\ (s # << >> <=> n < z)
      /\ (n + 1 < z => s[1] = At(n)) /\ (n + 2 < z => s[1] = At(n) /\ s[2] = At(n + 1))
  BY <1>1, <1>2, <1>3
<1>8. IsName(s) <=> NameAt(n, z)
  BY <1>2, <1>5, <1>7 DEF IsName, NameAt
<1>9. IsDecimal(s) <=> DecimalAt(n, z)
  BY <1>2, <1>5, <1>7 DEF IsDecimal, DecimalAt
<1>10. IsOctal(s) <=> OctalAt(n, z)
  BY <1>5, <1>7, Zenon DEF IsOctal, OctalAt
<1>11. IsHex(s) <=> HexAt(n, z)
  BY <1>6, <1>7, Zenon DEF IsHex, HexAt
<1> QED
  BY <1>8, <1>9, <1>10, <1>11 DEF s

LEMMA SpanPower ==
  ASSUME NEW b \in Nat, NEW z \in Nat, b <= z
  PROVE  IsPower(Span(b, z)) <=> PowerAt(b, z)
<1> DEFINE s == Span(b, z)
<1>1. Len(s) = z - b /\ \A k \in 1 .. z - b : s[k] = At(b + k - 1)
  BY SpanIs
<1>2. CASE b + 1 < z
  <2>1. s[1] = At(b) /\ s[2] = At(b + 1)
    <3>1. 1 \in 1 .. z - b /\ 2 \in 1 .. z - b /\ b + 1 - 1 = b /\ b + 2 - 1 = b + 1
      BY <1>2
    <3> QED
      BY <1>1, <3>1
  <2>2. Tail(s) = Span(b + 1, z)
    BY <1>2, SpanTail
  <2>3. Tail2(s) = Span(b + 2, z)
    <3>1. 3 \in 1 .. z - b + 1 /\ z - b \in 3 - 1 .. z - b /\ b + 3 - 1 = b + 2 /\ b + (z - b) = z
      BY <1>2
    <3>2. SubSeq(s, 3, z - b) = Span(b + 3 - 1, b + (z - b))
      BY <3>1, SpanCut
    <3> QED
      BY <1>1, <3>1, <3>2 DEF Tail2
  <2> HIDE DEF s
  <2>4. PICK d : d = PowerFrom(b)
    OBVIOUS
  <2>5. (IF s[2] \in {"+", "-"} THEN Tail2(s) ELSE Tail(s)) = Span(d, z) /\ d \in Nat /\ d <= z
    <3>1. CASE At(b + 1) \in {"+", "-"}
      <4>1. d = b + 2
        BY <2>4, <3>1 DEF PowerFrom
      <4>2. (IF s[2] \in {"+", "-"} THEN Tail2(s) ELSE Tail(s)) = Tail2(s)
        BY <2>1, <3>1
      <4> QED
        BY <1>2, <2>3, <4>1, <4>2
    <3>2. CASE At(b + 1) \notin {"+", "-"}
      <4>1. d = b + 1
        BY <2>4, <3>2 DEF PowerFrom
      <4>2. (IF s[2] \in {"+", "-"} THEN Tail2(s) ELSE Tail(s)) = Tail(s)
        BY <2>1, <3>2
      <4>3. d \in Nat /\ d <= z
        BY <1>2, <4>1
      <4> QED
        BY <2>2, <4>1, <4>2, <4>3, Zenon
    <3> QED
      BY <3>1, <3>2
  <2>6. (Span(d, z) = << >> <=> d = z) /\ (All(Span(d, z), IsDigit) <=> DigitsIn(d, z))
    BY <2>5, SpanIs, SpanAll
  <2>7. IsPower(s) <=> s[1] \in {"e", "E"} /\ Span(d, z) # << >> /\ All(Span(d, z), IsDigit)
    <3>1. Len(s) > 1
      BY <1>1, <1>2 DEF s
    <3> DEFINE rest == IF s[2] \in {"+", "-"} THEN Tail2(s) ELSE Tail(s)
    <3>2. IsPower(s) <=> /\ Len(s) > 1 /\ s[1] \in {"e", "E"}
                         /\ rest # << >> /\ All(rest, IsDigit)
      BY DEF IsPower
    <3>3. rest = Span(d, z)
      BY <2>5
    <3> HIDE DEF rest
    <3> QED
      BY <3>1, <3>2, <3>3, Zenon
  <2>8. Span(d, z) # << >> <=> PowerFrom(b) < z
    BY <2>4, <2>5, <2>6
  <2> QED
    BY <2>1, <2>4, <2>6, <2>7, <2>8, Zenon DEF PowerAt, s
<1>3. CASE ~ (b + 1 < z)
  <2>1. ~ (Len(s) > 1) /\ ~ (PowerFrom(b) < z)
    BY <1>1, <1>3 DEF PowerFrom
  <2> QED
    BY <2>1 DEF IsPower, PowerAt
<1> QED
  BY <1>2, <1>3

\* One of the ways to take a text for a float.
FloatForm(s, i, j) ==
  LET whole    == SubSeq(s, 1, i)
      fraction == SubSeq(s, i + 1, j)
      power    == SubSeq(s, j + 1, Len(s))
  IN /\ whole = << >> \/ IsDecimal(whole)
     /\ fraction = << >> \/ (fraction[1] = "." /\ All(Tail(fraction), IsDigit))
     /\ power = << >> \/ IsPower(power)
     /\ whole # << >> \/ Len(fraction) > 1
     /\ fraction # << >> \/ power # << >>

LEMMA SpanFloatForm ==
  ASSUME NEW n \in Nat, NEW z \in Nat, NEW i \in Nat, NEW j \in Nat, i <= j, j <= z - n
  PROVE  FloatForm(Span(n, z), i, j) <=> FloatAt(n, n + i, n + j, z)
<1>1. n <= z /\ n + i \in Nat /\ n + j \in Nat /\ n <= n + i /\ n + i <= n + j /\ n + j <= z
  OBVIOUS
<1> DEFINE s == Span(n, z)
           a == n + i
           b == n + j
<1>2. SubSeq(s, 1, i) = Span(n, a)
  <2>1. 1 \in 1 .. z - n + 1 /\ i \in 1 - 1 .. z - n /\ n + 1 - 1 = n
    OBVIOUS
  <2>2. SubSeq(s, 1, i) = Span(n + 1 - 1, n + i)
    BY <1>1, <2>1, SpanCut
  <2> QED
    BY <2>1, <2>2
<1>3. SubSeq(s, i + 1, j) = Span(a, b)
  <2>1. i + 1 \in 1 .. z - n + 1 /\ j \in (i + 1) - 1 .. z - n /\ n + (i + 1) - 1 = a
    OBVIOUS
  <2>2. SubSeq(s, i + 1, j) = Span(n + (i + 1) - 1, n + j)
    BY <1>1, <2>1, SpanCut
  <2> QED
    BY <2>1, <2>2
<1>4. SubSeq(s, j + 1, Len(s)) = Span(b, z)
  <2>1. j + 1 \in 1 .. z - n + 1 /\ z - n \in (j + 1) - 1 .. z - n /\ n + (j + 1) - 1 = b
        /\ n + (z - n) = z
    OBVIOUS
  <2>2. SubSeq(s, j + 1, z - n) = Span(n + (j + 1) - 1, n + (z - n))
    BY <1>1, <2>1, SpanCut
  <2>3. Len(s) = z - n
    BY <1>1, SpanIs
  <2> QED
    BY <2>1, <2>2, <2>3
<1>5. a \in Nat /\ b \in Nat /\ n <= a /\ a <= b /\ b <= z
  BY <1>1
<1> HIDE DEF s, a, b
<1>6. (Span(n, a) = << >> <=> n = a) /\ (Span(a, b) = << >> <=> a = b)
      /\ (Span(b, z) = << >> <=> b = z) /\ Len(Span(a, b)) = b - a
  BY <1>5, SpanIs
<1>7. /\ IsDecimal(Span(n, a)) <=> DecimalAt(n, a)
      /\ IsPower(Span(b, z)) <=> PowerAt(b, z)
  BY <1>5, SpanNumbers, SpanPower
<1>8. a < b => Span(a, b)[1] = At(a)
  <2> SUFFICES ASSUME a < b PROVE Span(a, b)[1] = At(a)
    OBVIOUS
  <2>1. 1 \in 1 .. b - a /\ a + 1 - 1 = a
    BY <1>5
  <2> QED
    <3>1. \A k \in 1 .. b - a : Span(a, b)[k] = At(a + k - 1)
      BY <1>5, SpanIs
    <3> QED
      BY <2>1, <3>1
<1>9. a < b => (All(Tail(Span(a, b)), IsDigit) <=> DigitsIn(a + 1, b))
  <2> SUFFICES ASSUME a < b PROVE All(Tail(Span(a, b)), IsDigit) <=> DigitsIn(a + 1, b)
    OBVIOUS
  <2>1. Tail(Span(a, b)) = Span(a + 1, b)
    BY <1>5, SpanTail
  <2>2. a + 1 \in Nat /\ a + 1 <= b
    BY <1>5
  <2> QED
    BY <1>5, <2>1, <2>2, SpanAll
<1>10. n = a \/ DecimalAt(n, a) <=> DigitsIn(n, a) /\ (n + 1 < a => At(n) # "0")
  BY <1>5 DEF DecimalAt, DigitsIn
<1>11. FloatForm(s, i, j)
         <=> /\ n = a \/ DecimalAt(n, a)
             /\ a = b \/ (At(a) = "." /\ DigitsIn(a + 1, b))
             /\ b = z \/ PowerAt(b, z)
             /\ n # a \/ b - a > 1
             /\ a # b \/ b # z
  <2>1. n # a \/ Len(Span(a, b)) > 1 <=> n # a \/ b - a > 1
    BY <1>6
  <2>2. Span(a, b) = << >> \/ (Span(a, b)[1] = "." /\ All(Tail(Span(a, b)), IsDigit))
          <=> a = b \/ (At(a) = "." /\ DigitsIn(a + 1, b))
    BY <1>5, <1>6, <1>8, <1>9
  <2>3. FloatForm(s, i, j)
         <=> /\ Span(n, a) = << >> \/ IsDecimal(Span(n, a))
             /\ Span(a, b) = << >> \/ (Span(a, b)[1] = "." /\ All(Tail(Span(a, b)), IsDigit))
             /\ Span(b, z) = << >> \/ IsPower(Span(b, z))
             /\ Span(n, a) # << >> \/ Len(Span(a, b)) > 1
             /\ Span(a, b) # << >> \/ Span(b, z) # << >>
    BY <1>2, <1>3, <1>4, Zenon DEF FloatForm
  <2> QED
    BY <1>6, <1>7, <2>1, <2>2, <2>3, Zenon
<1>12. (n # a <=> n < a) /\ (b - a > 1 <=> a + 1 < b) /\ (a # b <=> a < b) /\ (b # z <=> b < z)
  BY <1>5
<1>13. FloatForm(s, i, j) <=> FloatAt(n, a, b, z)
  BY <1>5, <1>10, <1>11, <1>12 DEF FloatAt, MantissaAt
<1> QED
  BY <1>13 DEF s, a, b

LEMMA SpanFloat ==
  ASSUME NEW n \in Nat, NEW z \in Nat, n <= z
  PROVE  IsFloat(Span(n, z)) <=> \E a \in n .. z : \E b \in a .. z : FloatAt(n, a, b, z)
<1>1. IsFloat(Span(n, z))
        <=> \E i \in 0 .. Len(Span(n, z)) : \E j \in i .. Len(Span(n, z)) : FloatForm(Span(n, z), i, j)
  BY DEF IsFloat, FloatForm
<1>2. Len(Span(n, z)) = z - n
  BY SpanIs
<1>3. ASSUME NEW i \in 0 .. z - n, NEW j \in i .. z - n
      PROVE  /\ FloatForm(Span(n, z), i, j) <=> FloatAt(n, n + i, n + j, z)
             /\ n + i \in n .. z /\ n + j \in n + i .. z
  <2>1. i \in Nat /\ j \in Nat /\ i <= j /\ j <= z - n
    OBVIOUS
  <2>2. FloatForm(Span(n, z), i, j) <=> FloatAt(n, n + i, n + j, z)
    BY <2>1, SpanFloatForm
  <2> QED
    BY <2>1, <2>2
<1>4. ASSUME NEW a \in n .. z, NEW b \in a .. z
      PROVE  a - n \in 0 .. z - n /\ b - n \in a - n .. z - n /\ n + (a - n) = a /\ n + (b - n) = b
  OBVIOUS
<1>5. ASSUME IsFloat(Span(n, z)) PROVE \E a \in n .. z : \E b \in a .. z : FloatAt(n, a, b, z)
  BY <1>1, <1>2, <1>3, <1>5
<1>6. ASSUME NEW a \in n .. z, NEW b \in a .. z, FloatAt(n, a, b, z) PROVE IsFloat(Span(n, z))
  <2>1. FloatForm(Span(n, z), a - n, b - n)
    BY <1>3, <1>4, <1>6
  <2> QED
    BY <1>1, <1>2, <1>4, <2>1
<1> QED
  BY <1>5, <1>6

----------------------------------------------------------------------------
(* Operators *)

\* The spellings of operators of two and three characters.
Pairs == {
  << "<", ":" >>, << ":", ">" >>, << "<", "%" >>, << "%", ">" >>, << "-", ">" >>, << "+", "+" >>,
  << "-", "-" >>, << "<", "<" >>, << ">", ">" >>, << "<", "=" >>, << ">", "=" >>, << "=", "=" >>,
  << "!", "=" >>, << "&", "&" >>, << "|", "|" >>, << "*", "=" >>, << "/", "=" >>, << "%", "=" >>,
  << "+", "=" >>, << "-", "=" >>, << "&", "=" >>, << "|", "=" >>, << "^", "=" >> }
Threes == { << ".", ".", "." >>, << "<", "<", "=" >>, << ">", ">", "=" >> }
Leads ==
  {"{", "}", ",", ";"} \cup {"(", ")", "[", "]", "~", "?", ":", ".", "-", "+", "*", "/", "%", "&",
                            "|", "^", "!", "<", ">", "="}

\* s is the spelling of an operator.
Spelt(s) == \E p \in Punctuators : Tail(p) = s

LEMMA SpellingsAre ==
  ASSUME NEW s, Spelt(s)
  PROVE  \/ \E c \in Leads : s = << c >>
         \/ \E c, d : s = << c, d >> /\ << c, d >> \in Pairs
         \/ \E c, d, f : s = << c, d, f >> /\ << c, d, f >> \in Threes
<1>1. \A p \in SpelledByOne : \E t : \E c \in Leads : p = << t, c >>
  BY DEF SpelledByOne, Leads
<1>2. \A p \in SpelledByTwo : \E t, c, d : p = << t, c, d >> /\ << c, d >> \in Pairs
  BY DEF SpelledByTwo, Pairs
<1>3. \A p \in SpelledByThree : \E t, c, d, f : p = << t, c, d, f >> /\ << c, d, f >> \in Threes
  BY DEF SpelledByThree, Threes
<1>4. \A t, c, d, f : /\ Tail(<< t, c >>) = << c >> /\ Tail(<< t, c, d >>) = << c, d >>
                     /\ Tail(<< t, c, d, f >>) = << c, d, f >>
  OBVIOUS
<1>5. PICK p \in SpelledByOne \cup SpelledByTwo \cup SpelledByThree : Tail(p) = s
  BY Zenon DEF Spelt, Punctuators
<1>6. CASE p \in SpelledByOne
  <2>1. PICK t, c : c \in Leads /\ p = << t, c >>
    BY <1>1, <1>6, Zenon
  <2>2. s = << c >>
    BY <1>4, <1>5, <2>1, Zenon
  <2> QED
    BY <2>1, <2>2, Zenon
<1>7. CASE p \in SpelledByTwo
  <2>1. PICK t, c, d : p = << t, c, d >> /\ << c, d >> \in Pairs
    BY <1>2, <1>7, Zenon
  <2>2. s = << c, d >>
    BY <1>4, <1>5, <2>1, Zenon
  <2> QED
    BY <2>1, <2>2, Zenon
<1>8. CASE p \in SpelledByThree
  <2>1. PICK t, c, d, f : p = << t, c, d, f >> /\ << c, d, f >> \in Threes
    BY <1>3, <1>8, Zenon
  <2>2. s = << c, d, f >>
    <3>1. Tail(<< t, c, d, f >>) = << c, d, f >>
      OBVIOUS
    <3> QED
      BY <1>5, <2>1, <3>1, Zenon
  <2> QED
    BY <2>1, <2>2, Zenon
<1> QED
  BY <1>5, <1>6, <1>7, <1>8, Zenon

LEMMA SpanPunctuator ==
  ASSUME NEW n \in Nat, NEW z \in Nat, n <= z, Spelt(Span(n, z))
  PROVE  \/ z = n + 1 /\ At(n) \in Leads
         \/ z = n + 2 /\ << At(n), At(n + 1) >> \in Pairs
         \/ z = n + 3 /\ << At(n), At(n + 1), At(n + 2) >> \in Threes
<1>1. PICK s : s = Span(n, z)
  OBVIOUS
<1>2. Len(s) = z - n /\ \A k \in 1 .. z - n : s[k] = At(n + k - 1)
  BY <1>1, SpanIs
<1>3. ASSUME NEW c \in Leads, s = << c >> PROVE z = n + 1 /\ At(n) \in Leads
  <2>1. Len(s) = 1 /\ s[1] = c
    BY <1>3
  <2>2. z = n + 1 /\ 1 \in 1 .. z - n /\ n + 1 - 1 = n
    <3>1. z - n = 1
      BY <1>2, <2>1, Zenon
    <3> QED
      BY <3>1
  <2> QED
    BY <1>2, <2>1, <2>2
<1>4. ASSUME NEW c, NEW d, s = << c, d >>, << c, d >> \in Pairs
      PROVE  z = n + 2 /\ << At(n), At(n + 1) >> \in Pairs
  <2>1. Len(s) = 2 /\ s[1] = c /\ s[2] = d
    BY <1>4
  <2>2. z = n + 2 /\ 1 \in 1 .. z - n /\ n + 1 - 1 = n /\ 2 \in 1 .. z - n /\ n + 2 - 1 = n + 1
    <3>1. z - n = 2
      BY <1>2, <2>1, Zenon
    <3> QED
      BY <3>1
  <2>3. At(n) = c /\ At(n + 1) = d
    BY <1>2, <2>1, <2>2
  <2> QED
    BY <1>4, <2>2, <2>3
<1>5. ASSUME NEW c, NEW d, NEW f, s = << c, d, f >>, << c, d, f >> \in Threes
      PROVE  z = n + 3 /\ << At(n), At(n + 1), At(n + 2) >> \in Threes
  <2>1. Len(s) = 3 /\ s[1] = c /\ s[2] = d /\ s[3] = f
    BY <1>5
  <2>2. /\ z = n + 3 /\ 1 \in 1 .. z - n /\ n + 1 - 1 = n /\ 2 \in 1 .. z - n
        /\ n + 2 - 1 = n + 1 /\ 3 \in 1 .. z - n /\ n + 3 - 1 = n + 2
    <3>1. z - n = 3
      BY <1>2, <2>1, Zenon
    <3> QED
      BY <3>1
  <2>3. At(n) = c /\ At(n + 1) = d /\ At(n + 2) = f
    BY <1>2, <2>1, <2>2
  <2> QED
    BY <1>5, <2>2, <2>3
<1> QED
  BY <1>1, <1>3, <1>4, <1>5, SpellingsAre

\* No name and no number begins like an operator, but for the point.
LEMMA LeadsDiffer ==
  /\ \A c \in Leads : ~ IsIdentStart(c) /\ ~ IsDigit(c)
  /\ \A c, d : << c, d >> \in Pairs => c \in Leads \ {"."} /\ ~ IsDigit(d)
  /\ \A c, d, f : << c, d, f >> \in Threes => c \in Leads /\ ~ IsDigit(d) /\ (c = "." => f = ".")
<1>1. \A c \in Leads : ~ IsDigit(c)
  <2>1. \A c \in Leads : c \notin {"0", "1", "2", "3", "4", "5", "6", "7", "8", "9"}
    BY Zenon DEF Leads
  <2> QED
    BY <2>1, DigitsAre, Zenon
<1>2. \A c \in Leads : c \notin Letters
  <2>1. \A c \in {"{", "}", ",", ";"} : c \notin Letters
    BY Zenon DEF Letters
  <2>2. \A c \in {"(", ")", "[", "]", "~", "?", ":"} : c \notin Letters
    BY SMT DEF Letters
  <2>3. \A c \in {".", "-", "+", "*", "/", "%"} : c \notin Letters
    BY SMT DEF Letters
  <2>4. \A c \in {"&", "|", "^", "!", "<", ">", "="} : c \notin Letters
    BY SMT DEF Letters
  <2> QED
    BY <2>1, <2>2, <2>3, <2>4, Zenon DEF Leads
<1>5. \A c \in Leads : c # "_"
  BY Zenon DEF Leads
<1>3. \A c, d : << c, d >> \in Pairs => c \in Leads \ {"."} /\ d \in Leads
  BY DEF Pairs, Leads
<1>4. \A c, d, f : << c, d, f >> \in Threes => c \in Leads /\ d \in Leads /\ (c = "." => f = ".")
  BY DEF Threes, Leads
<1> QED
  BY <1>1, <1>2, <1>3, <1>4, <1>5 DEF IsIdentStart, IsAlpha

----------------------------------------------------------------------------
(* How far a token can go *)

\* The tokens of the reference.
LEMMA SpanToken ==
  ASSUME NEW n \in Nat, NEW z \in Nat, n <= z
  PROVE  IsToken(Span(n, z)) <=> \/ NameAt(n, z) \/ DecimalAt(n, z) \/ OctalAt(n, z) \/ HexAt(n, z)
                                 \/ \E a \in n .. z : \E b \in a .. z : FloatAt(n, a, b, z)
                                 \/ Spelt(Span(n, z))
  BY SpanNumbers, SpanFloat DEF IsToken, Spelt

\* Behind e no token ends that begins at n.
NoLonger(n, e) == \A k \in Nat : e < k => ~ IsToken(Span(n, k))

\* What begins with a digit, or with a point and a digit, is a number.
LEMMA NumbersOnly ==
  ASSUME NEW n \in Nat, NEW k \in Nat, n + 1 < k, IsToken(Span(n, k)),
         IsDigit(At(n)) \/ (At(n) = "." /\ IsDigit(At(n + 1)))
  PROVE  \/ DecimalAt(n, k) \/ OctalAt(n, k) \/ HexAt(n, k)
         \/ \E a \in n .. k : \E b \in a .. k : FloatAt(n, a, b, k)
<1>1. ~ NameAt(n, k)
  BY CharactersDiffer DEF NameAt, Joints
<1>2. ASSUME Spelt(Span(n, k)) PROVE FALSE
  <2>1. \/ << At(n), At(n + 1) >> \in Pairs
        \/ << At(n), At(n + 1), At(n + 2) >> \in Threes
    BY <1>2, SpanPunctuator
  <2> QED
    BY <2>1, LeadsDiffer
<1> QED
  BY <1>1, <1>2, SpanToken

\* The whole part of a float is as long as there are digits,
LEMMA WholeEnds ==
  ASSUME NEW n \in Nat, NEW e \in Nat, NEW k \in Nat, n <= e, e < k,
         DigitsIn(n, e), ~ IsDigit(At(e)),
         NEW a \in n .. k, NEW b \in a .. k, FloatAt(n, a, b, k)
  PROVE  a = e
<1>1. ASSUME a < e PROVE FALSE
  <2>1. IsDigit(At(a))
    BY <1>1 DEF DigitsIn
  <2>2. a = b \/ At(a) = "."
    BY DEF FloatAt, MantissaAt
  <2>3. a = b => At(a) \in {"e", "E"}
    BY <1>1 DEF FloatAt, PowerAt
  <2> QED
    BY <2>1, <2>2, <2>3, CharactersDiffer DEF Joints
<1>2. ASSUME e < a PROVE FALSE
  BY <1>2 DEF FloatAt, MantissaAt, DigitsIn
<1> QED
  BY <1>1, <1>2

\* and so is its fraction.
LEMMA FractionEnds ==
  ASSUME NEW n \in Nat, NEW a \in Nat, NEW e \in Nat, NEW k \in Nat, a < e, e < k,
         At(a) = ".", DigitsIn(a + 1, e), ~ IsDigit(At(e)),
         NEW b \in a .. k, FloatAt(n, a, b, k)
  PROVE  b = e
<1>1. a < b
  <2>1. a = b => At(a) \in {"e", "E"}
    BY DEF FloatAt, PowerAt
  <2> QED
    BY <2>1
<1>2. ASSUME b < e PROVE FALSE
  <2>1. IsDigit(At(b))
    BY <1>1, <1>2 DEF DigitsIn
  <2>2. At(b) \in {"e", "E"}
    BY <1>2 DEF FloatAt, PowerAt
  <2> QED
    BY <2>1, <2>2, CharactersDiffer DEF Joints
<1>3. ASSUME e < b PROVE FALSE
  BY <1>1, <1>3 DEF FloatAt, MantissaAt, DigitsIn
<1> QED
  BY <1>2, <1>3

\* Tokens that are as long as they can be: a name,
LEMMA NameIsLongest ==
  ASSUME NEW n \in Nat, NEW e \in Nat, NameAt(n, e), ~ IsIdent(At(e))
  PROVE  NoLonger(n, e)
<1> SUFFICES ASSUME NEW k \in Nat, e < k, IsToken(Span(n, k)) PROVE FALSE
  BY DEF NoLonger
<1>1. n < e /\ IsIdentStart(At(n)) /\ e \in n .. k - 1 /\ n <= k
  BY DEF NameAt
<1>2. ~ IsDigit(At(n)) /\ At(n) # "." /\ At(n) # "0"
  BY <1>1, CharactersDiffer
<1>3. ~ NameAt(n, k)
  BY <1>1 DEF NameAt
<1>4. ~ DecimalAt(n, k) /\ ~ OctalAt(n, k) /\ ~ HexAt(n, k)
  BY <1>1, <1>2 DEF DecimalAt, DigitsIn, OctalAt, HexAt
<1>5. ASSUME NEW a \in n .. k, NEW b \in a .. k, FloatAt(n, a, b, k) PROVE FALSE
  BY <1>1, <1>2, <1>5 DEF FloatAt, MantissaAt, DigitsIn
<1>6. ASSUME Spelt(Span(n, k)) PROVE FALSE
  BY <1>1, <1>6, SpanPunctuator, LeadsDiffer
<1> QED
  BY <1>1, <1>3, <1>4, <1>5, <1>6, SpanToken

\* an integer of base ten,
LEMMA DecimalIsLongest ==
  ASSUME NEW n \in Nat, NEW e \in Nat, DecimalAt(n, e), ~ IsDigit(At(e)), At(e) # ".",
         At(n) = "0" /\ At(n + 1) \in {"x", "X"} => ~ IsHexdigit(At(n + 2)),
         \A z \in Nat : ~ PowerAt(e, z)
  PROVE  NoLonger(n, e)
<1> SUFFICES ASSUME NEW k \in Nat, e < k, IsToken(Span(n, k)) PROVE FALSE
  BY DEF NoLonger
<1>1. n < e /\ IsDigit(At(n)) /\ DigitsIn(n, e) /\ e \in n .. k - 1 /\ n + 1 < k
  BY DEF DecimalAt, DigitsIn
<1>2. ~ DecimalAt(n, k)
  BY <1>1 DEF DecimalAt, DigitsIn
<1>3. ~ OctalAt(n, k)
  BY <1>1, CharactersDiffer DEF OctalAt
<1>4. ~ HexAt(n, k)
  BY <1>1 DEF HexAt
<1>5. ASSUME NEW a \in n .. k, NEW b \in a .. k, FloatAt(n, a, b, k) PROVE FALSE
  <2>1. a = e
    BY <1>1, <1>5, WholeEnds
  <2>2. a = b
    BY <1>5, <2>1 DEF FloatAt, MantissaAt
  <2> QED
    BY <1>5, <2>1, <2>2 DEF FloatAt
<1> QED
  BY <1>1, <1>2, <1>3, <1>4, <1>5, NumbersOnly

\* a 0 with a digit behind it that no number of base eight has,
LEMMA ZeroIsLongest ==
  ASSUME NEW n \in Nat, NEW e \in Nat, At(n) = "0", IsDigit(At(n + 1)), ~ IsOctdigit(At(e)),
         n < e, \A k \in n .. e - 1 : IsOctdigit(At(k))
  PROVE  NoLonger(n, e)
<1> SUFFICES ASSUME NEW k \in Nat, e < k, IsToken(Span(n, k)) PROVE FALSE
  BY DEF NoLonger
<1>1. IsDigit(At(n)) /\ e \in n .. k - 1 /\ n + 1 < k
  BY CharactersDiffer
<1>2. ~ DecimalAt(n, k) /\ ~ OctalAt(n, k)
  BY <1>1 DEF DecimalAt, OctalAt
<1>3. ~ HexAt(n, k)
  BY CharactersDiffer DEF HexAt, Joints
<1>4. ASSUME NEW a \in n .. k, NEW b \in a .. k, FloatAt(n, a, b, k) PROVE FALSE
  <2>1. ~ (n + 1 < a)
    BY <1>4 DEF FloatAt, MantissaAt
  <2>2. At(a) \in {"0", At(n + 1)} /\ IsDigit(At(a)) /\ a < k
    <3>1. a = n \/ a = n + 1
      BY <2>1
    <3> QED
      BY <1>1, <3>1
  <2>3. a = b \/ At(a) = "."
    BY <1>4 DEF FloatAt, MantissaAt
  <2>4. a = b => At(a) \in {"e", "E"}
    BY <1>4, <2>2 DEF FloatAt, PowerAt
  <2> QED
    BY <2>2, <2>3, <2>4, CharactersDiffer DEF Joints
<1> QED
  BY <1>1, <1>2, <1>3, <1>4, NumbersOnly

\* one of base 16,
LEMMA HexIsLongest ==
  ASSUME NEW n \in Nat, NEW e \in Nat, HexAt(n, e), ~ IsHexdigit(At(e))
  PROVE  NoLonger(n, e)
<1> SUFFICES ASSUME NEW k \in Nat, e < k, IsToken(Span(n, k)) PROVE FALSE
  BY DEF NoLonger
<1>1. /\ At(n) = "0" /\ At(n + 1) \in {"x", "X"} /\ ~ IsDigit(At(n + 1)) /\ IsDigit(At(n))
      /\ e \in n + 2 .. k - 1 /\ n + 1 \in n .. k - 1 /\ n + 1 < k
  BY CharactersDiffer DEF HexAt, Joints
<1>2. ~ DecimalAt(n, k) /\ ~ OctalAt(n, k)
  BY <1>1, CharactersDiffer DEF DecimalAt, DigitsIn, OctalAt
<1>3. ~ HexAt(n, k)
  BY <1>1 DEF HexAt
<1>4. ASSUME NEW a \in n .. k, NEW b \in a .. k, FloatAt(n, a, b, k) PROVE FALSE
  <2>1. DigitsIn(n, n + 1)
    BY <1>1 DEF DigitsIn
  <2>2. a = n + 1
    <3>1. n + 1 \in Nat /\ n <= n + 1
      OBVIOUS
    <3> QED
      BY <1>1, <1>4, <2>1, <3>1, WholeEnds
  <2>3. a = b \/ At(a) = "."
    BY <1>4 DEF FloatAt, MantissaAt
  <2>4. a = b => At(a) \in {"e", "E"}
    BY <1>1, <1>4, <2>2 DEF FloatAt, PowerAt
  <2> QED
    BY <1>1, <2>2, <2>3, <2>4
<1> QED
  BY <1>1, <1>2, <1>3, <1>4, NumbersOnly

\* a fraction,
LEMMA FractionIsLongest ==
  ASSUME NEW n \in Nat, NEW a \in Nat, NEW e \in Nat, n <= a, a < e, MantissaAt(n, a, e),
         ~ IsDigit(At(e)), \A z \in Nat : ~ PowerAt(e, z)
  PROVE  NoLonger(n, e)
<1> SUFFICES ASSUME NEW k \in Nat, e < k, IsToken(Span(n, k)) PROVE FALSE
  BY DEF NoLonger
<1>1. /\ DigitsIn(n, a) /\ At(a) = "." /\ DigitsIn(a + 1, e) /\ ~ IsDigit(At(a))
      /\ n < a \/ a + 1 < e
      /\ a \in n .. k - 1 /\ n + 1 < k /\ a < k
  BY CharactersDiffer DEF MantissaAt, Joints
<1>2. IsDigit(At(n)) \/ (At(n) = "." /\ IsDigit(At(n + 1)))
  BY <1>1 DEF DigitsIn
<1>3. ~ DecimalAt(n, k) /\ ~ OctalAt(n, k)
  BY <1>1, CharactersDiffer DEF DecimalAt, DigitsIn, OctalAt
<1>4. ~ HexAt(n, k)
  <2>1. a = n \/ a = n + 1 \/ a \in n + 2 .. k - 1
    BY <1>1
  <2> QED
    BY <1>1, <2>1, CharactersDiffer DEF HexAt
<1>5. ASSUME NEW c \in n .. k, NEW b \in c .. k, FloatAt(n, c, b, k) PROVE FALSE
  <2>1. c = a
    BY <1>1, <1>5, WholeEnds
  <2>2. b = e
    BY <1>1, <1>5, <2>1, FractionEnds
  <2> QED
    BY <1>5, <2>2 DEF FloatAt
<1> QED
  BY <1>1, <1>2, <1>3, <1>4, <1>5, NumbersOnly

\* and a power of ten.
LEMMA PowerIsLongest ==
  ASSUME NEW n \in Nat, NEW a \in Nat, NEW b \in Nat, NEW e \in Nat, n <= a, a <= b, b < e,
         MantissaAt(n, a, b), PowerAt(b, e), ~ IsDigit(At(e))
  PROVE  NoLonger(n, e)
<1> SUFFICES ASSUME NEW k \in Nat, e < k, IsToken(Span(n, k)) PROVE FALSE
  BY DEF NoLonger
<1>1. /\ DigitsIn(n, a) /\ ~ IsDigit(At(b)) /\ At(b) \in {"e", "E"}
      /\ b \in n .. k - 1 /\ n + 1 < k /\ b < k /\ a < k
      /\ n < a \/ a + 1 < b
      /\ a = b \/ (At(a) = "." /\ DigitsIn(a + 1, b) /\ a < b)
      /\ ~ IsDigit(At(a))
  BY CharactersDiffer DEF MantissaAt, PowerAt, Joints
<1>2. IsDigit(At(n)) \/ (At(n) = "." /\ IsDigit(At(n + 1)))
  BY <1>1 DEF DigitsIn
<1>3. ~ DecimalAt(n, k) /\ ~ OctalAt(n, k)
  BY <1>1, CharactersDiffer DEF DecimalAt, DigitsIn, OctalAt
<1>4. ~ HexAt(n, k)
  <2>1. ASSUME HexAt(n, k) PROVE FALSE
    <3>1. At(n) = "0" /\ At(n + 1) \in {"x", "X"} /\ ~ IsDigit(At(n + 1))
      BY <2>1, CharactersDiffer DEF HexAt, Joints
    <3>2. a = n \/ a = n + 1 \/ IsDigit(At(n + 1))
      BY DEF MantissaAt, DigitsIn
    <3>3. a # n
      BY <1>1, <3>1
    <3>4. a = n + 1
      BY <3>1, <3>2, <3>3
    <3> QED
      BY <1>1, <3>1, <3>4
  <2> QED
    BY <2>1
<1>5. ASSUME NEW c \in n .. k, NEW d \in c .. k, FloatAt(n, c, d, k) PROVE FALSE
  <2>1. c = a
    BY <1>1, <1>5, WholeEnds
  <2>2. CASE a = b
    <3>1. d = a
      BY <1>1, <1>5, <2>1, <2>2 DEF FloatAt, MantissaAt
    <3> QED
      BY <1>1, <1>5, <2>2, <3>1 DEF FloatAt, PowerAt, PowerFrom, DigitsIn
  <2>3. CASE a < b
    <3>1. d = b
      BY <1>1, <1>5, <2>1, <2>3, FractionEnds
    <3> QED
      BY <1>1, <1>5, <3>1 DEF FloatAt, PowerAt, PowerFrom, DigitsIn
  <2> QED
    BY <2>2, <2>3
<1> QED
  BY <1>1, <1>2, <1>3, <1>4, <1>5, NumbersOnly

----------------------------------------------------------------------------
(* What the lexer knows of the token it is in: it began at n, and e is the place of cur_char *)

\* In digits of base b, of which buf holds those of base ten,
DigitsKnown(n, e, b, buf) ==
  \/ /\ b = 10 /\ n <= e /\ IsDigit(At(n)) /\ DigitsIn(n, e) /\ buf = Span(n, e)
     /\ At(n) = "0" => ~ IsDigit(At(n + 1)) /\ At(n + 1) \notin {"x", "X"}
  \/ /\ b = 8 /\ n + 1 <= e /\ At(n) = "0" /\ IsOctdigit(At(n + 1))
     /\ \A k \in n .. e - 1 : IsOctdigit(At(k))
  \/ /\ b = 16 /\ n + 2 <= e /\ At(n) = "0" /\ At(n + 1) \in {"x", "X"} /\ IsHexdigit(At(n + 2))
     /\ \A k \in n + 2 .. e - 1 : IsHexdigit(At(k))

\* behind the integer, in letters that buf holds,
IntegerAt(n, f) == DecimalAt(n, f) \/ OctalAt(n, f) \/ HexAt(n, f)

SuffixKnown(n, e, buf) ==
  \E f \in n + 1 .. e : /\ IntegerAt(n, f) /\ NoLonger(n, f)
                        /\ buf = Span(f, e) /\ (f < e => IsAlpha(At(f)))

\* before the point of a float, or its power if it has no point,
FloatKnown(n, e, buf) ==
  /\ n <= e /\ buf = Span(n, e)
  /\ \/ n = e /\ At(n) = "." /\ IsDigit(At(n + 1))
     \/ DecimalAt(n, e) /\ At(e) \in {".", "e", "E"}

\* in its fraction, behind that, in its power, and at its end,
FractionKnown(n, e) ==
  \E a \in n .. e - 1 :
    /\ At(a) = "." /\ DigitsIn(a + 1, e) /\ (n = a \/ DecimalAt(n, a))
    /\ a + 1 = e => IsDigit(At(e))

ExponentKnown(n, e) ==
  \/ DecimalAt(n, e) /\ At(e) \in {"e", "E"}
  \/ \E a \in n .. e - 1 : MantissaAt(n, a, e) /\ ~ IsDigit(At(e))

PowerKnown(n, e) ==
  \E a \in n .. e - 1 : \E b \in a .. e - 1 :
    /\ MantissaAt(n, a, b) /\ At(b) \in {"e", "E"}
    /\ PowerFrom(b) <= e /\ DigitsIn(PowerFrom(b), e)
    /\ PowerFrom(b) = e => IsDigit(At(e))

FloatDone(n, e) ==
  (\E a \in n .. e : \E b \in a .. e : FloatAt(n, a, b, e)) /\ NoLonger(n, e)

\* and in a name.
NameKnown(n, e, buf) ==
  n <= e /\ IsIdentStart(At(n)) /\ (\A k \in n .. e - 1 : IsIdent(At(k))) /\ buf = Span(n, e)

\* The longest token that begins at n ends at a letter or a digit.
Refused(n) ==
  \E f \in Nat : /\ n < f /\ IsToken(Span(n, f)) /\ NoLonger(n, f)
                 /\ IsAlpha(At(f)) \/ IsDigit(At(f))

\* Nothing is in the span of a place to itself.
LEMMA SpanEmpty == \A n : Span(n, n) = << >> \/ n \notin Int
  BY DEF Span

\* The digits of the three bases.
LEMMA DigitsOf ==
  ASSUME NEW c
  PROVE  /\ IsDigitEx(c, 10) <=> IsDigit(c)
         /\ IsDigitEx(c, 8) <=> IsOctdigit(c)
         /\ IsDigitEx(c, 16) <=> IsHexdigit(c)
  BY DEF IsDigitEx

\* Digits begin: a number is decimal, octal or hexadecimal, or refused.
LEMMA DigitsBegin ==
  ASSUME NEW n \in Nat, IsDigit(At(n)), NEW b, NEW p,
         b = IF At(n) # "0" THEN 10
             ELSE IF At(n + 1) \in {"x", "X"} THEN 16
             ELSE IF IsDigit(At(n + 1)) THEN 8 ELSE 10,
         p = IF b = 16 THEN n + 2 ELSE IF b = 8 THEN n + 1 ELSE n
  PROVE  IF IsDigitEx(At(p), b) THEN DigitsKnown(n, p, b, << >>) ELSE Refused(n)
<1>1. n < n + 1 /\ n + 1 \in Nat /\ DigitsIn(n, n + 1) /\ n <= n + 1
  BY DEF DigitsIn
<1>2. DecimalAt(n, n + 1)
  BY <1>1 DEF DecimalAt
<1>3. IsToken(Span(n, n + 1))
  BY <1>1, <1>2, SpanToken
<1>4. CASE b = 10
  <2>0. p = n
    BY <1>4
  <2>1. IsDigitEx(At(p), b) /\ p = n
    BY <1>4, <2>0, DigitsOf, Zenon
  <2>2. At(n) = "0" => ~ IsDigit(At(n + 1)) /\ At(n + 1) \notin {"x", "X"}
    BY <1>4
  <2>3. << >> = Span(n, n)
    BY SpanEmpty
  <2> QED
    BY <1>4, <2>1, <2>2, <2>3 DEF DigitsKnown, DigitsIn
<1>5. CASE b = 8
  <2>0. p = n + 1 /\ At(n) = "0" /\ IsDigit(At(n + 1))
    BY <1>5
  <2>1. /\ p = n + 1 /\ At(n) = "0" /\ IsDigit(At(n + 1))
        /\ IsDigitEx(At(p), b) <=> IsOctdigit(At(n + 1))
    BY <1>5, <2>0, DigitsOf, Zenon
  <2>2. \A k \in n .. (n + 1) - 1 : IsOctdigit(At(k))
    BY <2>1, CharactersDiffer
  <2>3. ASSUME ~ IsOctdigit(At(n + 1)) PROVE Refused(n)
    <3>1. NoLonger(n, n + 1)
      BY <1>1, <2>1, <2>2, <2>3, ZeroIsLongest
    <3> QED
      BY <1>1, <1>3, <2>1, <3>1 DEF Refused
  <2> QED
    BY <1>1, <1>5, <2>1, <2>2, <2>3 DEF DigitsKnown
<1>6. CASE b = 16
  <2>0. p = n + 2 /\ At(n) = "0" /\ At(n + 1) \in {"x", "X"}
    BY <1>6
  <2>1. /\ p = n + 2 /\ At(n) = "0" /\ At(n + 1) \in {"x", "X"}
        /\ IsDigitEx(At(p), b) <=> IsHexdigit(At(n + 2))
    BY <1>6, <2>0, DigitsOf, Zenon
  <2>2. ASSUME ~ IsHexdigit(At(n + 2)) PROVE Refused(n)
    <3>1. ~ IsDigit(At(n + 1)) /\ At(n + 1) # "." /\ IsAlpha(At(n + 1))
          /\ At(n + 1) \notin {"e", "E"}
      BY <2>1, CharactersDiffer DEF Joints
    <3>2. NoLonger(n, n + 1)
      BY <1>1, <1>2, <2>1, <2>2, <3>1, DecimalIsLongest DEF PowerAt
    <3> QED
      BY <1>1, <1>3, <3>1, <3>2 DEF Refused
  <2> QED
    BY <1>6, <2>1, <2>2 DEF DigitsKnown
<1> QED
  BY <1>4, <1>5, <1>6

\* One digit more.
LEMMA DigitsGo ==
  ASSUME NEW n \in Nat, NEW e \in Nat, NEW b, NEW buf, DigitsKnown(n, e, b, buf),
         IsDigitEx(At(e), b)
  PROVE  DigitsKnown(n, e + 1, b, Append(buf, At(e)))
<1>1. CASE b = 10
  <2>1. n <= e /\ buf = Span(n, e) /\ DigitsIn(n, e) /\ IsDigit(At(e))
    BY <1>1 DEF DigitsKnown, IsDigitEx
  <2>2. Append(buf, At(e)) = Span(n, e + 1)
    BY <2>1, SpanGrows
  <2>3. DigitsIn(n, e + 1)
    BY <2>1 DEF DigitsIn
  <2> QED
    BY <1>1, <2>1, <2>2, <2>3 DEF DigitsKnown
<1>2. CASE b = 8
  BY <1>2 DEF DigitsKnown, IsDigitEx
<1>3. CASE b = 16
  BY <1>3 DEF DigitsKnown, IsDigitEx
<1> QED
  BY <1>1, <1>2, <1>3 DEF DigitsKnown

\* The digits end: the number may have been refused, go on as a float, or is done but for
\* letters behind it.
LEMMA DigitsEnd ==
  ASSUME NEW n \in Nat, NEW e \in Nat, NEW b, NEW buf, DigitsKnown(n, e, b, buf),
         ~ IsDigitEx(At(e), b)
  PROVE  IF b = 8 /\ IsDigit(At(e)) THEN Refused(n)
         ELSE IF b = 10 /\ At(e) \in {".", "e", "E"} THEN FloatKnown(n, e, buf)
         ELSE SuffixKnown(n, e, << >>)
<1>1. Span(e, e) = << >>
  BY SpanEmpty
<1>2. CASE b = 10
  <2>1. n <= e /\ buf = Span(n, e) /\ DigitsIn(n, e) /\ ~ IsDigit(At(e)) /\ IsDigit(At(n))
        /\ (At(n) = "0" => ~ IsDigit(At(n + 1)) /\ At(n + 1) \notin {"x", "X"})
    BY <1>2 DEF DigitsKnown, IsDigitEx
  <2>2. n < e
    BY <2>1
  <2>3. n + 1 < e => IsDigit(At(n + 1))
    BY <2>1 DEF DigitsIn
  <2>4. DecimalAt(n, e)
    BY <2>1, <2>2, <2>3 DEF DecimalAt
  <2>5. ASSUME At(e) \notin {".", "e", "E"} PROVE SuffixKnown(n, e, << >>)
    <3>1. NoLonger(n, e)
      BY <2>1, <2>4, <2>5, DecimalIsLongest DEF PowerAt
    <3> QED
      BY <1>1, <2>2, <2>4, <3>1 DEF SuffixKnown, IntegerAt
  <2> QED
    BY <1>2, <2>1, <2>4, <2>5 DEF FloatKnown
<1>3. CASE b = 8
  <2>1. /\ n + 1 <= e /\ At(n) = "0" /\ IsOctdigit(At(n + 1)) /\ ~ IsOctdigit(At(e))
        /\ \A k \in n .. e - 1 : IsOctdigit(At(k))
    BY <1>3 DEF DigitsKnown, IsDigitEx
  <2>2. n + 1 < e /\ IsDigit(At(n + 1))
    BY <2>1, CharactersDiffer
  <2>3. OctalAt(n, e)
    BY <2>1, <2>2 DEF OctalAt
  <2>4. NoLonger(n, e)
    BY <2>1, <2>2, ZeroIsLongest
  <2>5. n <= e /\ n < e
    BY <2>2
  <2>6. IsToken(Span(n, e))
    BY <2>3, <2>5, SpanToken
  <2> QED
    BY <1>1, <1>3, <2>3, <2>4, <2>5, <2>6 DEF Refused, SuffixKnown, IntegerAt
<1>4. CASE b = 16
  <2>1. /\ n + 2 <= e /\ At(n) = "0" /\ At(n + 1) \in {"x", "X"} /\ IsHexdigit(At(n + 2))
        /\ ~ IsHexdigit(At(e)) /\ \A k \in n + 2 .. e - 1 : IsHexdigit(At(k))
    BY <1>4 DEF DigitsKnown, IsDigitEx
  <2>2. n + 2 < e
    BY <2>1
  <2>3. HexAt(n, e)
    BY <2>1, <2>2 DEF HexAt
  <2>4. NoLonger(n, e)
    BY <2>1, <2>3, HexIsLongest
  <2> QED
    BY <1>1, <1>4, <2>2, <2>3, <2>4 DEF SuffixKnown, IntegerAt
<1> QED
  BY <1>2, <1>3, <1>4 DEF DigitsKnown

\* One letter more,
LEMMA SuffixGoes ==
  ASSUME NEW n \in Nat, NEW e \in Nat, NEW buf, SuffixKnown(n, e, buf), IsAlpha(At(e))
  PROVE  SuffixKnown(n, e + 1, Append(buf, At(e)))
<1>1. PICK f \in n + 1 .. e : /\ IntegerAt(n, f) /\ NoLonger(n, f)
                              /\ buf = Span(f, e) /\ (f < e => IsAlpha(At(f)))
  BY DEF SuffixKnown
<1>2. f \in Nat /\ f <= e
  BY <1>1
<1>3. Append(buf, At(e)) = Span(f, e + 1)
  BY <1>1, <1>2, SpanGrows
<1>4. f \in n + 1 .. e + 1 /\ (f < e + 1 => IsAlpha(At(f)))
  BY <1>1
<1> QED
  BY <1>1, <1>3, <1>4 DEF SuffixKnown

\* and no more.
LEMMA SuffixEnds ==
  ASSUME NEW n \in Nat, NEW e \in Nat, NEW buf, SuffixKnown(n, e, buf)
  PROVE  IF buf # << >> THEN Refused(n) ELSE n < e /\ IntegerAt(n, e) /\ NoLonger(n, e)
<1>1. PICK f \in n + 1 .. e : /\ IntegerAt(n, f) /\ NoLonger(n, f)
                              /\ buf = Span(f, e) /\ (f < e => IsAlpha(At(f)))
  BY DEF SuffixKnown
<1>2. f \in Nat /\ f <= e /\ n <= f /\ n < f
  BY <1>1
<1>3. buf = << >> <=> f = e
  BY <1>1, <1>2, SpanIs
<1>4. IsToken(Span(n, f))
  BY <1>1, <1>2, SpanToken DEF IntegerAt
<1> QED
  BY <1>1, <1>2, <1>3, <1>4 DEF Refused

\* A float goes on behind its whole part with a fraction, or with a power if it has one,
LEMMA PointGoes ==
  ASSUME NEW n \in Nat, NEW e \in Nat, NEW buf, FloatKnown(n, e, buf)
  PROVE  IF At(e) # "." THEN ExponentKnown(n, e)
         ELSE IF IsDigit(At(e + 1)) \/ Len(Append(buf, ".")) = 1 THEN FractionKnown(n, e + 1)
         ELSE ExponentKnown(n, e + 1)
<1>1. n <= e /\ buf = Span(n, e) /\ Len(Append(buf, ".")) = e - n + 1
  <2>1. n <= e /\ buf = Span(n, e)
    BY DEF FloatKnown
  <2>2. Len(buf) = e - n /\ buf \in Seq({At(k) : k \in Int})
    BY <2>1, SpanIs
  <2>3. Len(Append(buf, ".")) = Len(buf) + 1
    BY <2>2
  <2> QED
    BY <2>1, <2>2, <2>3
<1>2. \/ n = e /\ At(n) = "." /\ IsDigit(At(n + 1))
      \/ DecimalAt(n, e) /\ At(e) \in {".", "e", "E"}
  BY DEF FloatKnown
<1>3. CASE At(e) # "."
  BY <1>2, <1>3 DEF ExponentKnown
<1>4. CASE At(e) = "." /\ (IsDigit(At(e + 1)) \/ Len(Append(buf, ".")) = 1)
  <2>1. e \in n .. (e + 1) - 1 /\ DigitsIn(e + 1, e + 1)
    BY <1>1 DEF DigitsIn
  <2>2. n = e \/ DecimalAt(n, e)
    BY <1>2
  <2>3. IsDigit(At(e + 1))
    BY <1>1, <1>2, <1>4 DEF DecimalAt
  <2> QED
    BY <1>4, <2>1, <2>2, <2>3 DEF FractionKnown
<1>5. CASE At(e) = "." /\ ~ (IsDigit(At(e + 1)) \/ Len(Append(buf, ".")) = 1)
  <2>1. n # e /\ DecimalAt(n, e)
    BY <1>1, <1>2, <1>5
  <2>2. MantissaAt(n, e, e + 1)
    BY <1>5, <2>1 DEF MantissaAt, DecimalAt, DigitsIn
  <2>3. e \in n .. (e + 1) - 1
    BY <1>1
  <2> QED
    BY <1>5, <2>2, <2>3 DEF ExponentKnown
<1> QED
  BY <1>3, <1>4, <1>5

\* in its fraction,
LEMMA FractionGoes ==
  ASSUME NEW n \in Nat, NEW e \in Nat, FractionKnown(n, e), IsDigit(At(e))
  PROVE  FractionKnown(n, e + 1)
<1>1. PICK a \in n .. e - 1 : /\ At(a) = "." /\ DigitsIn(a + 1, e) /\ (n = a \/ DecimalAt(n, a))
                              /\ a + 1 = e => IsDigit(At(e))
  BY DEF FractionKnown
<1>2. a \in n .. (e + 1) - 1 /\ DigitsIn(a + 1, e + 1) /\ a + 1 # e + 1
  BY <1>1 DEF DigitsIn
<1> QED
  BY <1>1, <1>2 DEF FractionKnown

\* behind it,
LEMMA FractionStops ==
  ASSUME NEW n \in Nat, NEW e \in Nat, FractionKnown(n, e), ~ IsDigit(At(e))
  PROVE  ExponentKnown(n, e)
<1>1. PICK a \in n .. e - 1 : /\ At(a) = "." /\ DigitsIn(a + 1, e) /\ (n = a \/ DecimalAt(n, a))
                              /\ a + 1 = e => IsDigit(At(e))
  BY DEF FractionKnown
<1>2. a + 1 < e
  BY <1>1
<1>3. DigitsIn(n, a) /\ (n + 1 < a => At(n) # "0")
  BY <1>1 DEF DecimalAt, DigitsIn
<1>4. MantissaAt(n, a, e)
  BY <1>1, <1>2, <1>3 DEF MantissaAt
<1> QED
  BY <1>1, <1>4 DEF ExponentKnown

\* with a power: it must have digits,
LEMMA ExponentGoes ==
  ASSUME NEW n \in Nat, NEW e \in Nat, ExponentKnown(n, e)
  PROVE  IF At(e) \notin {"e", "E"} THEN FloatDone(n, e)
         ELSE IF ~ IsDigit(At(PowerFrom(e))) THEN Refused(n)
         ELSE PowerKnown(n, PowerFrom(e))
<1>1. PICK a \in n .. e : /\ MantissaAt(n, a, e) /\ ~ IsDigit(At(e))
                          /\ \/ a = e /\ DecimalAt(n, e) /\ At(e) \in {"e", "E"}
                             \/ a < e
  <2>1. CASE DecimalAt(n, e) /\ At(e) \in {"e", "E"}
    <3>1. MantissaAt(n, e, e) /\ e \in n .. e
      BY <2>1 DEF MantissaAt, DecimalAt
    <3>2. ~ IsDigit(At(e))
      BY <2>1, CharactersDiffer DEF Joints
    <3> QED
      BY <2>1, <3>1, <3>2
  <2>2. CASE \E a \in n .. e - 1 : MantissaAt(n, a, e) /\ ~ IsDigit(At(e))
    BY <2>2
  <2> QED
    BY <2>1, <2>2 DEF ExponentKnown
<1>2. a \in Nat /\ n <= a /\ a <= e /\ n <= e /\ n < e
  BY <1>1 DEF DecimalAt
<1>3. ASSUME \A z \in Nat : ~ PowerAt(e, z)
      PROVE  NoLonger(n, e)
  <2>1. CASE a = e
    <3>1. DecimalAt(n, e) /\ At(e) \in {"e", "E"}
      BY <1>1, <2>1
    <3>2. At(e) # "." /\ At(e) \notin {"x", "X"}
      BY <3>1
    <3>3. At(n) = "0" /\ At(n + 1) \in {"x", "X"} => ~ IsHexdigit(At(n + 2))
      <4>1. n + 1 < e => IsDigit(At(n + 1))
        BY <1>2, <3>1 DEF DecimalAt, DigitsIn
      <4>2. IsDigit(At(n + 1)) => At(n + 1) \notin {"x", "X"}
        BY CharactersDiffer DEF Joints
      <4>3. n + 1 < e \/ n + 1 = e
        BY <1>2
      <4> QED
        BY <3>2, <4>1, <4>2, <4>3
    <3> QED
      BY <1>1, <1>3, <3>1, <3>2, <3>3, DecimalIsLongest
  <2>2. CASE a < e
    BY <1>1, <1>2, <1>3, <2>2, FractionIsLongest
  <2> QED
    BY <1>2, <2>1, <2>2
<1>4. CASE At(e) \notin {"e", "E"}
  <2>1. NoLonger(n, e)
    BY <1>3, <1>4 DEF PowerAt
  <2>2. FloatAt(n, a, e, e)
    BY <1>1, <1>2, <1>4 DEF FloatAt
  <2>3. a \in n .. e /\ e \in a .. e
    BY <1>2
  <2> QED
    BY <1>4, <2>1, <2>2, <2>3 DEF FloatDone
<1>5. CASE At(e) \in {"e", "E"} /\ ~ IsDigit(At(PowerFrom(e)))
  <2>1. PowerFrom(e) \in Nat
    BY DEF PowerFrom
  <2>2. \A z \in Nat : ~ PowerAt(e, z)
    BY <1>5, <2>1 DEF PowerAt, DigitsIn
  <2>3. NoLonger(n, e)
    BY <1>3, <2>2
  <2>4. DecimalAt(n, e) \/ FloatAt(n, a, e, e)
    BY <1>1, <1>2 DEF FloatAt
  <2>5. a \in n .. e /\ e \in a .. e
    BY <1>2
  <2>6. IsToken(Span(n, e))
    BY <1>2, <2>4, <2>5, SpanToken
  <2>7. IsAlpha(At(e))
    BY <1>5, CharactersDiffer
  <2> QED
    BY <1>2, <1>5, <2>3, <2>6, <2>7 DEF Refused
<1>6. CASE At(e) \in {"e", "E"} /\ IsDigit(At(PowerFrom(e)))
  <2>1. PICK d : d = PowerFrom(e)
    OBVIOUS
  <2>2. d \in Nat /\ e < d
    BY <2>1 DEF PowerFrom
  <2>3. a \in n .. d - 1 /\ e \in a .. d - 1 /\ DigitsIn(d, d) /\ d <= d
    BY <1>2, <2>2 DEF DigitsIn
  <2>4. PowerKnown(n, d)
    BY <1>1, <1>6, <2>1, <2>3 DEF PowerKnown
  <2> QED
    BY <1>6, <2>1, <2>4
<1> QED
  BY <1>4, <1>5, <1>6

\* and is done at their end.
LEMMA PowerGoes ==
  ASSUME NEW n \in Nat, NEW e \in Nat, PowerKnown(n, e), IsDigit(At(e))
  PROVE  PowerKnown(n, e + 1)
<1>1. PICK a \in n .. e - 1 : \E b \in a .. e - 1 :
        /\ MantissaAt(n, a, b) /\ At(b) \in {"e", "E"}
        /\ PowerFrom(b) <= e /\ DigitsIn(PowerFrom(b), e)
  BY DEF PowerKnown
<1>2. PICK b \in a .. e - 1 :
        /\ MantissaAt(n, a, b) /\ At(b) \in {"e", "E"}
        /\ PowerFrom(b) <= e /\ DigitsIn(PowerFrom(b), e)
  BY <1>1
<1>3. PICK d : d = PowerFrom(b)
  OBVIOUS
<1>4. d \in Nat
  BY <1>3 DEF PowerFrom
<1>5. d <= e + 1 /\ DigitsIn(d, e + 1) /\ d # e + 1
  BY <1>2, <1>3, <1>4 DEF DigitsIn
<1>6. a \in n .. (e + 1) - 1 /\ b \in a .. (e + 1) - 1
  OBVIOUS
<1> QED
  BY <1>2, <1>3, <1>5, <1>6 DEF PowerKnown

LEMMA PowerStops ==
  ASSUME NEW n \in Nat, NEW e \in Nat, PowerKnown(n, e), ~ IsDigit(At(e))
  PROVE  FloatDone(n, e)
<1>1. PICK a \in n .. e - 1 : \E b \in a .. e - 1 :
        /\ MantissaAt(n, a, b) /\ At(b) \in {"e", "E"}
        /\ PowerFrom(b) <= e /\ DigitsIn(PowerFrom(b), e)
        /\ PowerFrom(b) = e => IsDigit(At(e))
  BY DEF PowerKnown
<1>2. PICK b \in a .. e - 1 :
        /\ MantissaAt(n, a, b) /\ At(b) \in {"e", "E"}
        /\ PowerFrom(b) <= e /\ DigitsIn(PowerFrom(b), e)
        /\ PowerFrom(b) = e => IsDigit(At(e))
  BY <1>1
<1>3. a \in Nat /\ b \in Nat /\ n <= a /\ a <= b /\ b < e /\ b <= e /\ PowerFrom(b) \in Nat
  BY DEF PowerFrom
<1>4. PowerFrom(b) < e
  BY <1>2, <1>3
<1>5. PowerAt(b, e)
  BY <1>2, <1>4 DEF PowerAt
<1>6. NoLonger(n, e)
  BY <1>2, <1>3, <1>5, PowerIsLongest
<1>7. FloatAt(n, a, b, e)
  BY <1>2, <1>3, <1>5 DEF FloatAt
<1>8. a \in n .. e /\ b \in a .. e
  BY <1>3
<1> QED
  BY <1>6, <1>7, <1>8 DEF FloatDone

\* A name goes on, and is done where it does not.
LEMMA NameGoes ==
  ASSUME NEW n \in Nat, NEW e \in Nat, NEW buf, NameKnown(n, e, buf), IsIdent(At(e))
  PROVE  NameKnown(n, e + 1, Append(buf, At(e)))
<1>1. n <= e /\ IsIdentStart(At(n)) /\ (\A k \in n .. e - 1 : IsIdent(At(k))) /\ buf = Span(n, e)
  BY DEF NameKnown
<1>2. Append(buf, At(e)) = Span(n, e + 1)
  BY <1>1, SpanGrows
<1>3. n <= e + 1 /\ \A k \in n .. (e + 1) - 1 : IsIdent(At(k))
  BY <1>1
<1> QED
  BY <1>1, <1>2, <1>3 DEF NameKnown

LEMMA NameStops ==
  ASSUME NEW n \in Nat, NEW e \in Nat, NEW buf, NameKnown(n, e, buf), ~ IsIdent(At(e))
  PROVE  NameAt(n, e) /\ NoLonger(n, e) /\ buf = Span(n, e)
<1>1. n <= e /\ IsIdentStart(At(n)) /\ (\A k \in n .. e - 1 : IsIdent(At(k))) /\ buf = Span(n, e)
  BY DEF NameKnown
<1>2. n < e
  BY <1>1, CharactersDiffer
<1>3. NameAt(n, e)
  BY <1>1, <1>2 DEF NameAt
<1> QED
  BY <1>1, <1>3, NameIsLongest

----------------------------------------------------------------------------
(* Operators are read as far as they go *)

\* Texts of one to three characters, with a type in front of them.
LEMMA ShortSpans ==
  ASSUME NEW n \in Nat
  PROVE  /\ Span(n, n + 1) = << At(n) >> /\ Span(n, n + 2) = << At(n), At(n + 1) >>
         /\ Span(n, n + 3) = << At(n), At(n + 1), At(n + 2) >>
  BY DEF Span

LEMMA TypeInFront ==
  /\ \A t, c : << t >> \o << c >> = << t, c >>
  /\ \A t, c, d : << t >> \o << c, d >> = << t, c, d >>
  /\ \A t, c, d, f : << t >> \o << c, d, f >> = << t, c, d, f >>
<1>1. ASSUME NEW t, NEW c PROVE << t >> \o << c >> = << t, c >>
  <2> DEFINE S == {t, c}
  <2>1. << t >> \in Seq(S) /\ << c >> \in Seq(S) /\ << t, c >> \in Seq(S)
    OBVIOUS
  <2> HIDE DEF S
  <2>2. << t >> \o << c >> \in Seq(S) /\ Len(<< t >> \o << c >>) = 2
        /\ (<< t >> \o << c >>)[1] = t /\ (<< t >> \o << c >>)[2] = c
    BY <2>1
  <2>3. \A i \in 1 .. 2 : (<< t >> \o << c >>)[i] = << t, c >>[i]
    BY <2>2
  <2> QED
    BY <2>1, <2>2, <2>3, SeqEqual
<1>2. ASSUME NEW t, NEW c, NEW d PROVE << t >> \o << c, d >> = << t, c, d >>
  <2> DEFINE S == {t, c, d}
  <2>1. << t >> \in Seq(S) /\ << c, d >> \in Seq(S) /\ << t, c, d >> \in Seq(S)
    OBVIOUS
  <2> HIDE DEF S
  <2>2. /\ << t >> \o << c, d >> \in Seq(S) /\ Len(<< t >> \o << c, d >>) = 3
        /\ (<< t >> \o << c, d >>)[1] = t /\ (<< t >> \o << c, d >>)[2] = c
        /\ (<< t >> \o << c, d >>)[3] = d
    BY <2>1
  <2>3. \A i \in 1 .. 3 : (<< t >> \o << c, d >>)[i] = << t, c, d >>[i]
    BY <2>2
  <2> QED
    BY <2>1, <2>2, <2>3, SeqEqual
<1>3. ASSUME NEW t, NEW c, NEW d, NEW f PROVE << t >> \o << c, d, f >> = << t, c, d, f >>
  <2> DEFINE S == {t, c, d, f}
  <2>1. << t >> \in Seq(S) /\ << c, d, f >> \in Seq(S) /\ << t, c, d, f >> \in Seq(S)
    OBVIOUS
  <2> HIDE DEF S
  <2>2. /\ << t >> \o << c, d, f >> \in Seq(S) /\ Len(<< t >> \o << c, d, f >>) = 4
        /\ (<< t >> \o << c, d, f >>)[1] = t /\ (<< t >> \o << c, d, f >>)[2] = c
        /\ (<< t >> \o << c, d, f >>)[3] = d /\ (<< t >> \o << c, d, f >>)[4] = f
    BY <2>1
  <2>3. \A i \in 1 .. 4 : (<< t >> \o << c, d, f >>)[i] = << t, c, d, f >>[i]
    BY <2>2
  <2> QED
    BY <2>1, <2>2, <2>3, SeqEqual
<1> QED
  BY <1>1, <1>2, <1>3

\* The operators of two and three characters, by their characters.
LEMMA PairsAre ==
  /\ \A c, d : << c, d >> \in Pairs
       <=> \/ c = "<" /\ d \in {":", "%", "<", "="}
           \/ c = ":" /\ d = ">"
           \/ c \in {"%", ">"} /\ d \in {">", "="}
           \/ c = "-" /\ d \in {">", "-", "="}
           \/ c \in {"=", "!", "*", "/", "^"} /\ d = "="
           \/ c \in {"+", "&", "|"} /\ d \in {c, "="}
  /\ \A c, d, f : << c, d, f >> \in Threes
       <=> (c = "." /\ d = "." /\ f = ".") \/ (c \in {"<", ">"} /\ d = c /\ f = "=")
<1>1. \A c, d : << c, d >> \in Pairs
       <=> \/ c = "<" /\ d \in {":", "%", "<", "="}
           \/ c = ":" /\ d = ">"
           \/ c \in {"%", ">"} /\ d \in {">", "="}
           \/ c = "-" /\ d \in {">", "-", "="}
           \/ c \in {"=", "!", "*", "/", "^"} /\ d = "="
           \/ c \in {"+", "&", "|"} /\ d \in {c, "="}
  BY DEF Pairs
<1>2. \A c, d, f : << c, d, f >> \in Threes
       <=> (c = "." /\ d = "." /\ f = ".") \/ (c \in {"<", ">"} /\ d = c /\ f = "=")
  BY DEF Threes
<1> QED
  BY <1>1, <1>2

\* The tables of get_punctuator_type agree with the spellings.
LEMMA SinglesAreSpelt ==
  \A c \in DOMAIN Singles :
     << Singles[c], c >> \in SpelledByOne /\ \A d, f : << c, d >> \notin Pairs /\ << c, d, f >> \notin Threes
<1>1. \A c : c \in DOMAIN Singles <=> \/ c = "(" \/ c = ")" \/ c = "[" \/ c = "]" \/ c = "{"
                                      \/ c = "}" \/ c = "," \/ c = "~" \/ c = "?" \/ c = ";"
  BY Zenon DEF Singles
<1>2. /\ Singles["("] = "LPAREN" /\ Singles[")"] = "RPAREN" /\ Singles["["] = "LBRACKET"
      /\ Singles["]"] = "RBRACKET" /\ Singles["~"] = "TILDE" /\ Singles["?"] = "QUESTION"
  BY DEF Singles
<1>3. Singles["{"] = "LBRACE"
  BY DEF Singles
<1>4. Singles["}"] = "RBRACE"
  BY DEF Singles
<1>5. Singles[","] = "COMMA"
  BY DEF Singles
<1>6. Singles[";"] = "SEMICOLON"
  BY Zenon DEF Singles
<1>7. \A c \in DOMAIN Singles : << Singles[c], c >> \in SpelledByOne
  BY <1>1, <1>2, <1>3, <1>4, <1>5, <1>6, Zenon DEF SpelledByOne
<1>8. \A c \in DOMAIN Singles : \A d, f : << c, d >> \notin Pairs /\ << c, d, f >> \notin Threes
  BY DEF Singles, Pairs, Threes
<1> QED
  BY <1>7, <1>8

LEMMA DoublesAreSpelt ==
  \A c \in DOMAIN Doubles :
     /\ << Doubles[c][1], c >> \in SpelledByOne /\ << Doubles[c][2], c, "=" >> \in SpelledByTwo
     /\ c \in {"=", "!", "*", "/", "^"}
<1>1. \A c \in DOMAIN Doubles : << Doubles[c][1], c >> \in SpelledByOne
  BY DEF Doubles, SpelledByOne
<1>2. \A c \in DOMAIN Doubles : << Doubles[c][2], c, "=" >> \in SpelledByTwo
  BY DEF Doubles, SpelledByTwo
<1>3. DOMAIN Doubles = {"/", "*", "!", "=", "^"}
  BY DEF Doubles
<1> QED
  BY <1>1, <1>2, <1>3

LEMMA TriplesAreSpelt ==
  \A c \in DOMAIN Triples :
     /\ << Triples[c][1], c >> \in SpelledByOne /\ << Triples[c][2], c, "=" >> \in SpelledByTwo
     /\ << Triples[c][3], c, c >> \in SpelledByTwo /\ c \in {"+", "&", "|"}
<1>1. \A c \in DOMAIN Triples : << Triples[c][1], c >> \in SpelledByOne
  BY DEF Triples, SpelledByOne
<1>2. \A c \in DOMAIN Triples : << Triples[c][2], c, "=" >> \in SpelledByTwo
  BY DEF Triples, SpelledByTwo
<1>3. \A c \in DOMAIN Triples : << Triples[c][3], c, c >> \in SpelledByTwo
  BY DEF Triples, SpelledByTwo
<1>4. DOMAIN Triples = {"+", "|", "&"}
  BY DEF Triples
<1> QED
  BY <1>1, <1>2, <1>3, <1>4

\* What get_punctuator_type decides by the character it is at.
Decides(s, u, c, d, p) ==
  \/ c \in DOMAIN Singles /\ p = OneWay(s, Singles[c])
  \/ c \in DOMAIN Doubles /\ p = TwoWay(s, Doubles[c][1], Doubles[c][2])
  \/ c \in DOMAIN Triples /\ p = ThreeWay(s, Triples[c][1], Triples[c][2], Triples[c][3])
  \/ c = ":" /\ p = (IF d = ">" THEN OneWay(u, "RBRACKET") ELSE OneWay(s, "COLON"))
  \/ c = "%" /\ p = (IF d = ">" THEN OneWay(u, "RBRACE")
                     ELSE TwoWay(s, "MOD_OP", "MOD_ASSIGN"))
  \/ c = "<" /\ p = (IF d = "<" THEN TwoWay(u, "LSHIFT_OP", "LSHIFT_ASSIGN")
                     ELSE IF d = ":" THEN OneWay(u, "LBRACKET")
                     ELSE IF d = "%" THEN OneWay(u, "LBRACE")
                     ELSE TwoWay(s, "LT_OP", "LE_OP"))
  \/ c = ">" /\ p = (IF d = ">" THEN TwoWay(u, "RSHIFT_OP", "RSHIFT_ASSIGN")
                     ELSE TwoWay(s, "GT_OP", "GE_OP"))
  \/ c = "-" /\ p = (IF d = ">" THEN OneWay(u, "REF_OP")
                     ELSE ThreeWay(s, "SUB_OP", "SUB_ASSIGN", "DEC_OP"))
  \/ c = "." /\ p = Dots(s)
  \/ p = [type |-> "ERROR", at |-> s]

LEMMA PunctuatorDecides ==
  ASSUME NEW s
  PROVE  Decides(s, GetChar(s), s.cur_char, s.next_char, Punctuator(s))
  BY DEF Punctuator, Decides

\* The stream has gone on from s to t over m characters.
Ahead(s, t, m) == Reading(t) /\ t.start = s.start /\ t.taken = s.taken + m

LEMMA AheadGoes ==
  ASSUME IsFile, NEW s, Reading(s)
  PROVE  /\ Ahead(s, s, 0) /\ Ahead(s, GetChar(s), 1) /\ Ahead(s, GetChar(GetChar(s)), 2)
         /\ Ahead(s, GetChar(GetChar(GetChar(s))), 3)
         /\ s.cur_char = At(s.taken - 1) /\ s.next_char = At(s.taken)
         /\ GetChar(s).cur_char = At(s.taken) /\ GetChar(s).next_char = At(s.taken + 1)
         /\ GetChar(GetChar(s)).cur_char = At(s.taken + 1)
<1>1. ASSUME NEW r, Reading(r)
      PROVE  /\ Reading(GetChar(r)) /\ GetChar(r).start = r.start /\ GetChar(r).taken = r.taken + 1
             /\ r.taken \in Nat
  <2>1. InStep(r) /\ r \in Streams
    BY <1>1, ReadingTypes DEF Reading
  <2>2. PICK t : t = GetChar(r)
    OBVIOUS
  <2>3. t.start = r.start
    BY <2>1, <2>2, GetCharKeeps
  <2> QED
    BY <1>1, <2>1, <2>2, <2>3, Reads, GetCharInStep, ReadingTypes
<1> DEFINE u == GetChar(s)
           v == GetChar(u)
           w == GetChar(v)
<1>2. Reading(u) /\ u.start = s.start /\ u.taken = s.taken + 1 /\ s.taken \in Nat
  BY <1>1
<1>3. Reading(v) /\ v.start = s.start /\ v.taken = (s.taken + 1) + 1
  BY <1>1, <1>2
<1>4. Reading(w) /\ w.start = s.start /\ w.taken = ((s.taken + 1) + 1) + 1
  BY <1>1, <1>3
<1> HIDE DEF u, v, w
<1>5. /\ s.cur_char = At(s.taken - 1) /\ s.next_char = At(s.taken)
      /\ u.cur_char = At(u.taken - 1) /\ u.next_char = At(u.taken) /\ v.cur_char = At(v.taken - 1)
  BY <1>2, <1>3, ReadingTypes
<1>6. u.taken - 1 = s.taken /\ v.taken - 1 = s.taken + 1 /\ v.taken = s.taken + 2
      /\ w.taken = s.taken + 3 /\ s.taken = s.taken + 0
  BY <1>2, <1>3, <1>4
<1>7. u.cur_char = At(s.taken) /\ u.next_char = At(s.taken + 1) /\ v.cur_char = At(s.taken + 1)
  BY <1>2, <1>5, <1>6
<1> QED
  BY <1>2, <1>3, <1>4, <1>5, <1>6, <1>7 DEF Ahead, u, v, w

\* The operator is the longest there is over the next three characters.
Munches(s, c, d, f, p) ==
  \/ /\ Ahead(s, p.at, 1) /\ << p.type, c >> \in SpelledByOne
     /\ << c, d >> \notin Pairs /\ << c, d, f >> \notin Threes
  \/ /\ Ahead(s, p.at, 2) /\ << p.type, c, d >> \in SpelledByTwo
     /\ << c, d, f >> \notin Threes
  \/ Ahead(s, p.at, 3) /\ << p.type, c, d, f >> \in SpelledByThree

LEMMA PunctuatorMunches ==
  ASSUME IsFile, NEW s, Reading(s), NEW p, p = Punctuator(s), p.type # "ERROR",
         NEW c, c = At(s.taken - 1), NEW d, d = At(s.taken), NEW f, f = At(s.taken + 1)
  PROVE  Munches(s, c, d, f, p)
<1>1. PICK u, v : u = GetChar(s) /\ v = GetChar(u)
  OBVIOUS
<1>2. /\ Ahead(s, u, 1) /\ Ahead(s, v, 2) /\ Ahead(s, GetChar(v), 3)
      /\ s.cur_char = c /\ s.next_char = d /\ u.cur_char = d /\ u.next_char = f
  BY <1>1, AheadGoes
<1>3. ASSUME NEW t, << t, c >> \in SpelledByOne, << c, d >> \notin Pairs, << c, d, f >> \notin Threes,
             NEW x, x.type = t, x.at = u
      PROVE  Munches(s, c, d, f, x)
  BY <1>2, <1>3, Zenon DEF Munches
<1>4. ASSUME NEW t, << t, c, d >> \in SpelledByTwo, << c, d, f >> \notin Threes,
             NEW x, x.type = t, x.at = v
      PROVE  Munches(s, c, d, f, x)
  BY <1>2, <1>4, Zenon DEF Munches
<1>5. ASSUME NEW t, << t, c, d, f >> \in SpelledByThree, NEW x, x.type = t, x.at = GetChar(v)
      PROVE  Munches(s, c, d, f, x)
  BY <1>2, <1>5, Zenon DEF Munches
<1>6. \A r, t : OneWay(r, t).type = t /\ OneWay(r, t).at = GetChar(r)
  BY DEF OneWay
<1>7. ASSUME NEW t, << t, c >> \in SpelledByOne, << c, d >> \notin Pairs, << c, d, f >> \notin Threes
      PROVE  Munches(s, c, d, f, OneWay(s, t))
  BY <1>1, <1>3, <1>6, <1>7, Zenon
<1>8. ASSUME NEW t, << t, c, d >> \in SpelledByTwo, << c, d, f >> \notin Threes
      PROVE  Munches(s, c, d, f, OneWay(u, t))
  BY <1>1, <1>4, <1>6, <1>8, Zenon
<1>9. ASSUME NEW t, << t, c, d, f >> \in SpelledByThree
      PROVE  Munches(s, c, d, f, OneWay(v, t))
  BY <1>5, <1>6, <1>9, Zenon
<1>10. \A t1, t2 : TwoWay(s, t1, t2) = IF d = "=" THEN OneWay(u, t2) ELSE OneWay(s, t1)
  BY <1>1, <1>2 DEF TwoWay
<1>11. \A t1, t2 : TwoWay(u, t1, t2) = IF f = "=" THEN OneWay(v, t2) ELSE OneWay(u, t1)
  BY <1>1, <1>2 DEF TwoWay
<1>12. \A t1, t2, t3 : ThreeWay(s, t1, t2, t3)
                          = IF d = c THEN OneWay(u, t3) ELSE TwoWay(s, t1, t2)
  BY <1>1, <1>2 DEF ThreeWay
<1>13. Dots(s) = IF d # "." THEN OneWay(s, "DOT")
                 ELSE IF f = "." THEN OneWay(v, "ELLIPSIS") ELSE [type |-> "DOT", at |-> u]
  BY <1>1, <1>2 DEF Dots
<1>14. CASE c \in DOMAIN Singles /\ p = OneWay(s, Singles[c])
  BY <1>7, <1>14, SinglesAreSpelt, Zenon
<1>15. CASE c \in DOMAIN Doubles /\ p = TwoWay(s, Doubles[c][1], Doubles[c][2])
  <2>1. << Doubles[c][1], c >> \in SpelledByOne /\ << Doubles[c][2], c, "=" >> \in SpelledByTwo
    BY <1>15, DoublesAreSpelt
  <2>2. (<< c, d >> \in Pairs <=> d = "=") /\ << c, d, f >> \notin Threes
    <3>1. c \in {"=", "!", "*", "/", "^"}
      BY <1>15, DoublesAreSpelt
    <3>2. \A x \in {"=", "!", "*", "/", "^"} : \A y, z :
             (<< x, y >> \in Pairs <=> y = "=") /\ << x, y, z >> \notin Threes
      BY PairsAre
    <3> QED
      BY <3>1, <3>2, Zenon
  <2> QED
    BY <1>7, <1>8, <1>10, <1>15, <2>1, <2>2, Zenon
<1>16. CASE c \in DOMAIN Triples /\ p = ThreeWay(s, Triples[c][1], Triples[c][2], Triples[c][3])
  <2>1. /\ << Triples[c][1], c >> \in SpelledByOne /\ << Triples[c][2], c, "=" >> \in SpelledByTwo
        /\ << Triples[c][3], c, c >> \in SpelledByTwo
    BY <1>16, TriplesAreSpelt
  <2>2. (<< c, d >> \in Pairs <=> d = c \/ d = "=") /\ << c, d, f >> \notin Threes
    <3>1. c \in {"+", "&", "|"}
      BY <1>16, TriplesAreSpelt
    <3>2. \A x \in {"+", "&", "|"} : \A y, z :
             (<< x, y >> \in Pairs <=> y = x \/ y = "=") /\ << x, y, z >> \notin Threes
      BY PairsAre
    <3> QED
      BY <3>1, <3>2, Zenon
  <2>3. CASE d = c
    BY <1>8, <1>12, <1>16, <2>1, <2>2, <2>3, Zenon
  <2>4. CASE d # c /\ d = "="
    <3>1. p = OneWay(u, Triples[c][2])
      <4>1. p = TwoWay(s, Triples[c][1], Triples[c][2])
        BY <1>12, <1>16, <2>4, Zenon
      <4> QED
        BY <1>10, <2>4, <4>1, Zenon
    <3>2. << Triples[c][2], c, d >> \in SpelledByTwo
      BY <2>1, <2>4, Zenon
    <3> QED
      BY <1>8, <2>2, <3>1, <3>2, Zenon
  <2>5. CASE d # c /\ d # "="
    <3>1. p = OneWay(s, Triples[c][1])
      <4>1. p = TwoWay(s, Triples[c][1], Triples[c][2])
        BY <1>12, <1>16, <2>5, Zenon
      <4> QED
        BY <1>10, <2>5, <4>1, Zenon
    <3> QED
      BY <1>7, <2>1, <2>2, <2>5, <3>1, Zenon
  <2> QED
    BY <2>3, <2>4, <2>5
<1>17. CASE c = ":" /\ p = (IF d = ">" THEN OneWay(u, "RBRACKET") ELSE OneWay(s, "COLON"))
  <2>1. << "COLON", ":" >> \in SpelledByOne /\ << "RBRACKET", ":", ">" >> \in SpelledByTwo
    BY DEF SpelledByOne, SpelledByTwo
  <2>2. (<< c, d >> \in Pairs <=> d = ">") /\ << c, d, f >> \notin Threes
    BY <1>17, PairsAre
  <2> QED
    BY <1>7, <1>8, <1>17, <2>1, <2>2, Zenon
<1>18. CASE c = "%" /\ p = (IF d = ">" THEN OneWay(u, "RBRACE")
                            ELSE TwoWay(s, "MOD_OP", "MOD_ASSIGN"))
  <2>1. /\ << "MOD_OP", "%" >> \in SpelledByOne /\ << "RBRACE", "%", ">" >> \in SpelledByTwo
        /\ << "MOD_ASSIGN", "%", "=" >> \in SpelledByTwo
    BY DEF SpelledByOne, SpelledByTwo
  <2>2. (<< c, d >> \in Pairs <=> d = ">" \/ d = "=") /\ << c, d, f >> \notin Threes
    BY <1>18, PairsAre
  <2> QED
    BY <1>7, <1>8, <1>10, <1>18, <2>1, <2>2, Zenon
<1>19. CASE c = "<" /\ p = (IF d = "<" THEN TwoWay(u, "LSHIFT_OP", "LSHIFT_ASSIGN")
                            ELSE IF d = ":" THEN OneWay(u, "LBRACKET")
                            ELSE IF d = "%" THEN OneWay(u, "LBRACE")
                            ELSE TwoWay(s, "LT_OP", "LE_OP"))
  <2>1. /\ << "LT_OP", "<" >> \in SpelledByOne /\ << "LSHIFT_OP", "<", "<" >> \in SpelledByTwo
        /\ << "LBRACKET", "<", ":" >> \in SpelledByTwo /\ << "LBRACE", "<", "%" >> \in SpelledByTwo
        /\ << "LE_OP", "<", "=" >> \in SpelledByTwo
        /\ << "LSHIFT_ASSIGN", "<", "<", "=" >> \in SpelledByThree
    BY DEF SpelledByOne, SpelledByTwo, SpelledByThree
  <2>2. /\ << c, d >> \in Pairs <=> d = "<" \/ d = ":" \/ d = "%" \/ d = "="
        /\ << c, d, f >> \in Threes <=> d = "<" /\ f = "="
    BY <1>19, PairsAre
  <2>3. CASE d = "<"
    BY <1>8, <1>9, <1>11, <1>19, <2>1, <2>2, <2>3, Zenon
  <2>4. CASE d # "<"
    BY <1>7, <1>8, <1>10, <1>19, <2>1, <2>2, <2>4, Zenon
  <2> QED
    BY <2>3, <2>4
<1>20. CASE c = ">" /\ p = (IF d = ">" THEN TwoWay(u, "RSHIFT_OP", "RSHIFT_ASSIGN")
                            ELSE TwoWay(s, "GT_OP", "GE_OP"))
  <2>1. /\ << "GT_OP", ">" >> \in SpelledByOne /\ << "RSHIFT_OP", ">", ">" >> \in SpelledByTwo
        /\ << "GE_OP", ">", "=" >> \in SpelledByTwo
        /\ << "RSHIFT_ASSIGN", ">", ">", "=" >> \in SpelledByThree
    BY DEF SpelledByOne, SpelledByTwo, SpelledByThree
  <2>2. /\ << c, d >> \in Pairs <=> d = ">" \/ d = "="
        /\ << c, d, f >> \in Threes <=> d = ">" /\ f = "="
    BY <1>20, PairsAre
  <2>3. CASE d = ">"
    BY <1>8, <1>9, <1>11, <1>20, <2>1, <2>2, <2>3, Zenon
  <2>4. CASE d # ">"
    BY <1>7, <1>8, <1>10, <1>20, <2>1, <2>2, <2>4, Zenon
  <2> QED
    BY <2>3, <2>4
<1>21. CASE c = "-" /\ p = (IF d = ">" THEN OneWay(u, "REF_OP")
                            ELSE ThreeWay(s, "SUB_OP", "SUB_ASSIGN", "DEC_OP"))
  <2>1. /\ << "SUB_OP", "-" >> \in SpelledByOne /\ << "REF_OP", "-", ">" >> \in SpelledByTwo
        /\ << "SUB_ASSIGN", "-", "=" >> \in SpelledByTwo /\ << "DEC_OP", "-", "-" >> \in SpelledByTwo
    BY DEF SpelledByOne, SpelledByTwo
  <2>2. (<< c, d >> \in Pairs <=> d = ">" \/ d = "-" \/ d = "=") /\ << c, d, f >> \notin Threes
    BY <1>21, PairsAre
  <2>3. CASE d = ">"
    BY <1>8, <1>21, <2>1, <2>2, <2>3, Zenon
  <2>4. CASE d # ">" /\ d = "-"
    BY <1>8, <1>12, <1>21, <2>1, <2>2, <2>4, Zenon
  <2>5. CASE d # ">" /\ d # "-" /\ d = "="
    BY <1>8, <1>10, <1>12, <1>21, <2>1, <2>2, <2>5, Zenon
  <2>6. CASE d # ">" /\ d # "-" /\ d # "="
    BY <1>7, <1>10, <1>12, <1>21, <2>1, <2>2, <2>6, Zenon
  <2> QED
    BY <2>3, <2>4, <2>5, <2>6
<1>22. CASE c = "." /\ p = Dots(s)
  <2>1. << "DOT", "." >> \in SpelledByOne /\ << "ELLIPSIS", ".", ".", "." >> \in SpelledByThree
    BY DEF SpelledByOne, SpelledByThree
  <2>2. << c, d >> \notin Pairs /\ (<< c, d, f >> \in Threes <=> d = "." /\ f = ".")
    BY <1>22, PairsAre
  <2>3. [type |-> "DOT", at |-> u].type = "DOT" /\ [type |-> "DOT", at |-> u].at = u
    OBVIOUS
  <2>4. CASE d # "."
    BY <1>7, <1>13, <1>22, <2>1, <2>2, <2>4, Zenon
  <2>5. CASE d = "." /\ f = "."
    BY <1>9, <1>13, <1>22, <2>1, <2>5, Zenon
  <2>6. CASE d = "." /\ f # "."
    BY <1>3, <1>13, <1>22, <2>1, <2>2, <2>3, <2>6, Zenon
  <2> QED
    BY <2>4, <2>5, <2>6
<1>23. p # [type |-> "ERROR", at |-> s]
  OBVIOUS
<1>24. Decides(s, u, c, d, p)
  BY <1>1, <1>2, PunctuatorDecides, Zenon
<1> QED
  BY <1>14, <1>15, <1>16, <1>17, <1>18, <1>19, <1>20, <1>21, <1>22, <1>23, <1>24, Zenon
     DEF Decides

\* What begins neither a name nor a number has no token of the reference but an operator.
LEMMA OperatorsOnly ==
  ASSUME NEW n \in Nat, NEW k \in Nat, n < k, IsToken(Span(n, k)),
         ~ IsDigit(At(n)), ~ IsIdentStart(At(n)), ~ (At(n) = "." /\ IsDigit(At(n + 1)))
  PROVE  \/ k = n + 1
         \/ k = n + 2 /\ << At(n), At(n + 1) >> \in Pairs
         \/ k = n + 3 /\ << At(n), At(n + 1), At(n + 2) >> \in Threes
<1>1. n <= k /\ n \in n .. k - 1
  OBVIOUS
<1>2. ~ NameAt(n, k) /\ ~ DecimalAt(n, k)
  BY <1>1 DEF NameAt, DecimalAt, DigitsIn
<1>3. ~ OctalAt(n, k) /\ ~ HexAt(n, k)
  BY CharactersDiffer DEF OctalAt, HexAt
<1>4. ASSUME NEW a \in n .. k, NEW b \in a .. k, FloatAt(n, a, b, k) PROVE FALSE
  <2>1. ~ (n < a)
    BY <1>4 DEF FloatAt, MantissaAt, DigitsIn
  <2>2. a = n /\ n + 1 < b
    BY <1>4, <2>1 DEF FloatAt, MantissaAt
  <2>3. At(n) = "." /\ n + 1 \in a + 1 .. b - 1
    BY <1>4, <2>2 DEF FloatAt, MantissaAt
  <2> QED
    BY <1>4, <2>2, <2>3 DEF FloatAt, MantissaAt, DigitsIn
<1>5. Spelt(Span(n, k))
  BY <1>1, <1>2, <1>3, <1>4, SpanToken
<1> QED
  BY <1>1, <1>5, SpanPunctuator

\* An operator that is taken is the longest.
LEMMA OperatorIsLongest ==
  ASSUME IsFile, NEW s, Reading(s), NEW n \in Nat, s.start = n, s.taken = n + 1,
         ~ IsDigit(At(n)), ~ IsIdentStart(At(n)), ~ (At(n) = "." /\ IsDigit(At(n + 1))),
         NEW p, p = Punctuator(s), p.type # "ERROR"
  PROVE  \E e \in Nat : /\ n < e /\ Reading(p.at) /\ p.at.start = n /\ p.at.taken = e + 1
                        /\ IsLexeme(Span(n, e), p.type) /\ NoLonger(n, e)
<1>1. PICK c, d, f : c = At(n) /\ d = At(n + 1) /\ f = At(n + 2)
  OBVIOUS
<1>2. Munches(s, c, d, f, p)
  <2>1. s.taken - 1 = n /\ s.taken = n + 1 /\ s.taken + 1 = n + 2
    OBVIOUS
  <2>2. c = At(s.taken - 1) /\ d = At(s.taken) /\ f = At(s.taken + 1)
    BY <1>1, <2>1
  <2> QED
    BY <2>2, PunctuatorMunches
<1>3. \A k \in Nat : n < k /\ IsToken(Span(n, k))
        => k = n + 1 \/ (k = n + 2 /\ << c, d >> \in Pairs) \/ (k = n + 3 /\ << c, d, f >> \in Threes)
  BY <1>1, OperatorsOnly
<1>4. ASSUME NEW m \in 1 .. 3, Ahead(s, p.at, m), << p.type >> \o Span(n, n + m) \in Punctuators,
             p.type \notin {"INT_CONST", "FLOAT_CONST", "IDENT"},
             NoLonger(n, n + m)
      PROVE  \E e \in Nat : /\ n < e /\ Reading(p.at) /\ p.at.start = n /\ p.at.taken = e + 1
                            /\ IsLexeme(Span(n, e), p.type) /\ NoLonger(n, e)
  <2>1. IsLexeme(Span(n, n + m), p.type)
    BY <1>4, Zenon DEF IsLexeme
  <2>2. n + m \in Nat /\ n < n + m /\ p.at.taken = (n + m) + 1 /\ p.at.start = n /\ Reading(p.at)
    BY <1>4 DEF Ahead
  <2> QED
    BY <1>4, <2>1, <2>2
<1>5. /\ Span(n, n + 1) = << c >> /\ Span(n, n + 2) = << c, d >> /\ Span(n, n + 3) = << c, d, f >>
  BY <1>1, ShortSpans
<1>6. CASE /\ Ahead(s, p.at, 1) /\ << p.type, c >> \in SpelledByOne
           /\ << c, d >> \notin Pairs /\ << c, d, f >> \notin Threes
  <2>1. << p.type >> \o Span(n, n + 1) \in Punctuators
    BY <1>5, <1>6, TypeInFront, Zenon DEF Punctuators
  <2>2. NoLonger(n, n + 1)
    BY <1>3, <1>6 DEF NoLonger
  <2>3. \A t, x : << t, x >> \in SpelledByOne => t \notin {"INT_CONST", "FLOAT_CONST", "IDENT"}
    BY DEF SpelledByOne
  <2>4. 1 \in 1 .. 3
    OBVIOUS
  <2> QED
    BY <1>4, <1>6, <2>1, <2>2, <2>3, <2>4, Zenon
<1>7. CASE /\ Ahead(s, p.at, 2) /\ << p.type, c, d >> \in SpelledByTwo
           /\ << c, d, f >> \notin Threes
  <2>1. << p.type >> \o Span(n, n + 2) \in Punctuators
    <3>1. << p.type >> \o << c, d >> = << p.type, c, d >>
      BY TypeInFront, Zenon
    <3> QED
      BY <1>5, <1>7, <3>1, Zenon DEF Punctuators
  <2>2. NoLonger(n, n + 2)
    BY <1>3, <1>7 DEF NoLonger
  <2>3. \A t, x, y : << t, x, y >> \in SpelledByTwo => t \notin {"INT_CONST", "FLOAT_CONST", "IDENT"}
    BY DEF SpelledByTwo
  <2>4. 2 \in 1 .. 3
    OBVIOUS
  <2> QED
    BY <1>4, <1>7, <2>1, <2>2, <2>3, <2>4, Zenon
<1>8. CASE Ahead(s, p.at, 3) /\ << p.type, c, d, f >> \in SpelledByThree
  <2>1. << p.type >> \o Span(n, n + 3) \in Punctuators
    <3>1. << p.type >> \o << c, d, f >> = << p.type, c, d, f >>
      <4>1. \A x, y, z, w : << x >> \o << y, z, w >> = << x, y, z, w >>
        BY TypeInFront, Zenon
      <4>2. PICK t : t = p.type
        OBVIOUS
      <4>3. << t >> \o << c, d, f >> = << t, c, d, f >>
        BY <4>1, SMT
      <4> QED
        BY <4>2, <4>3, Zenon
    <3> QED
      BY <1>5, <1>8, <3>1, Zenon DEF Punctuators
  <2>2. NoLonger(n, n + 3)
    BY <1>3 DEF NoLonger
  <2>3. \A t, x, y, z : << t, x, y, z >> \in SpelledByThree
                           => t \notin {"INT_CONST", "FLOAT_CONST", "IDENT"}
    BY DEF SpelledByThree
  <2>4. 3 \in 1 .. 3
    OBVIOUS
  <2> QED
    BY <1>4, <1>8, <2>1, <2>2, <2>3, <2>4, Zenon
<1> QED
  BY <1>2, <1>6, <1>7, <1>8, Zenon DEF Munches

----------------------------------------------------------------------------
(* What is known of the token in each mode *)

\* The token began at n, e is the place of cur_char, and q, b and buf are quote, base and
\* buffer.
Known(m, n, e, q, b, buf) ==
  /\ m = "scalar"     => n = e /\ IsDigit(At(n)) /\ buf = << >>
  /\ m = "digits"     => DigitsKnown(n, e, b, buf)
  /\ m = "suffix"     => SuffixKnown(n, e, buf)
  /\ m = "float"      => FloatKnown(n, e, buf)
  /\ m = "fraction"   => FractionKnown(n, e)
  /\ m = "exponent"   => ExponentKnown(n, e)
  /\ m = "power"      => PowerKnown(n, e)
  /\ m = "float_end"  => FloatDone(n, e)
  /\ m = "ident"      => NameKnown(n, e, buf)
  /\ m = "punctuator" => /\ n = e /\ ~ IsDigit(At(n)) /\ ~ IsIdentStart(At(n))
                         /\ ~ (At(n) = "." /\ IsDigit(At(n + 1)))
  /\ m \in QuotingModes => At(n) = q
  /\ m \in CommentModes => At(n) = "/"

NumberAt(n) == IsDigit(At(n)) \/ (At(n) = "." /\ IsDigit(At(n + 1)))

\* The only ERROR that is not the lexer's own is the one found in the first token.
FirstFailed == tokens = << >> /\ "ERROR" \in FirstTypes

\* What MaximalMunch says of a token.
Munched(tok) ==
  tok.type \notin Delimited /\ ~ IsQuoted(tok) =>
     /\ IsLexeme(tok.text, tok.type)
     /\ \A k \in EndOf(tok) + 1 .. Len(file) + 1 : ~ IsToken(Span(tok.from, k))

\* The inductive invariant.
Munching ==
  /\ Known(mode, in.start, in.taken - 1, quote, base, buffer)
  /\ mode = "failed" /\ NumberAt(in.start) => Refused(in.start) \/ FirstFailed
  /\ IF mode = "failed" THEN token.type = "ERROR" ELSE token.type = "ERROR" => FirstFailed
  /\ tokens # << >> => Munched(Last(tokens))

LEMMA KnownModes ==
  ASSUME NEW n, NEW e, NEW q, NEW b, NEW buf
  PROVE  /\ Known("scalar", n, e, q, b, buf) <=> n = e /\ IsDigit(At(n)) /\ buf = << >>
         /\ Known("digits", n, e, q, b, buf) <=> DigitsKnown(n, e, b, buf)
         /\ Known("suffix", n, e, q, b, buf) <=> SuffixKnown(n, e, buf)
         /\ Known("float", n, e, q, b, buf) <=> FloatKnown(n, e, buf)
         /\ Known("fraction", n, e, q, b, buf) <=> FractionKnown(n, e)
         /\ Known("exponent", n, e, q, b, buf) <=> ExponentKnown(n, e)
         /\ Known("power", n, e, q, b, buf) <=> PowerKnown(n, e)
         /\ Known("float_end", n, e, q, b, buf) <=> FloatDone(n, e)
         /\ Known("ident", n, e, q, b, buf) <=> NameKnown(n, e, buf)
         /\ Known("punctuator", n, e, q, b, buf)
              <=> /\ n = e /\ ~ IsDigit(At(n)) /\ ~ IsIdentStart(At(n))
                  /\ ~ (At(n) = "." /\ IsDigit(At(n + 1)))
         /\ \A m \in QuotingModes : Known(m, n, e, q, b, buf) <=> At(n) = q
         /\ \A m \in CommentModes : Known(m, n, e, q, b, buf) <=> At(n) = "/"
         /\ \A m \in {"start", "end", "done", "failed"} : Known(m, n, e, q, b, buf)
  BY DEF Known, QuotingModes, CommentModes

\* It stays known, since the file is the same.
LEMMA KnownStays ==
  ASSUME UNCHANGED file
  PROVE  /\ \A k : At(k)' = At(k)
         /\ \A a, b : Span(a, b)' = Span(a, b)
         /\ \A n : Refused(n)' <=> Refused(n)
         /\ \A m, n, e, q, b, buf : Known(m, n, e, q, b, buf)' <=> Known(m, n, e, q, b, buf)
<1>1. \A k : At(k)' = At(k)
  BY DEF At
<1>2. \A a, b : Span(a, b)' = Span(a, b)
  BY <1>1 DEF Span
<1>3. \A n, e : NoLonger(n, e)' <=> NoLonger(n, e)
  BY <1>2 DEF NoLonger
<1>4. \A a, b : DigitsIn(a, b)' <=> DigitsIn(a, b)
  BY <1>1 DEF DigitsIn
<1>5. \A n, e : DecimalAt(n, e)' <=> DecimalAt(n, e)
  BY <1>1, <1>4 DEF DecimalAt
<1>6. \A n, e : OctalAt(n, e)' <=> OctalAt(n, e)
  BY <1>1 DEF OctalAt
<1>7. \A n, e : HexAt(n, e)' <=> HexAt(n, e)
  BY <1>1 DEF HexAt
<1>8. \A b : PowerFrom(b)' = PowerFrom(b)
  BY <1>1 DEF PowerFrom
<1>9. \A b, z : PowerAt(b, z)' <=> PowerAt(b, z)
  BY <1>1, <1>4, <1>8 DEF PowerAt
<1>10. \A n, a, b : MantissaAt(n, a, b)' <=> MantissaAt(n, a, b)
  BY <1>1, <1>4 DEF MantissaAt
<1>11. \A n, a, b, z : FloatAt(n, a, b, z)' <=> FloatAt(n, a, b, z)
  BY <1>9, <1>10 DEF FloatAt
<1>12. \A n, e, b, buf : DigitsKnown(n, e, b, buf)' <=> DigitsKnown(n, e, b, buf)
  BY <1>1, <1>2, <1>4 DEF DigitsKnown
<1>13. \A n, e, buf : SuffixKnown(n, e, buf)' <=> SuffixKnown(n, e, buf)
  BY <1>1, <1>2, <1>3, <1>5, <1>6, <1>7 DEF SuffixKnown, IntegerAt
<1>14. \A n, e, buf : FloatKnown(n, e, buf)' <=> FloatKnown(n, e, buf)
  BY <1>1, <1>2, <1>5 DEF FloatKnown
<1>15. \A n, e : FractionKnown(n, e)' <=> FractionKnown(n, e)
  BY <1>1, <1>4, <1>5 DEF FractionKnown
<1>16. \A n, e : ExponentKnown(n, e)' <=> ExponentKnown(n, e)
  BY <1>1, <1>5, <1>10 DEF ExponentKnown
<1>17. \A n, e : PowerKnown(n, e)' <=> PowerKnown(n, e)
  BY <1>1, <1>4, <1>8, <1>10 DEF PowerKnown
<1>18. \A n, e : FloatDone(n, e)' <=> FloatDone(n, e)
  BY <1>3, <1>11 DEF FloatDone
<1>19. \A n, e, buf : NameKnown(n, e, buf)' <=> NameKnown(n, e, buf)
  BY <1>1, <1>2 DEF NameKnown
<1>20. \A n : Refused(n)' <=> Refused(n)
  BY <1>1, <1>2, <1>3 DEF Refused
<1>21. \A m, n, e, q, b, buf : Known(m, n, e, q, b, buf)' <=> Known(m, n, e, q, b, buf)
  BY <1>1, <1>12, <1>13, <1>14, <1>15, <1>16, <1>17, <1>18, <1>19 DEF Known
<1> QED
  BY <1>1, <1>2, <1>20, <1>21

----------------------------------------------------------------------------
(* The three ways a step can end *)

\* The lexer goes on.
LEMMA GoingOn ==
  ASSUME Munching, UNCHANGED << file, tokens >>, mode # "failed", mode' # "failed",
         Known(mode', in'.start, in'.taken - 1, quote', base', buffer'),
         token'.type = token.type \/ token'.type # "ERROR"
  PROVE  Munching'
<1>1. PICK m, n, e, q, b, buf : /\ m = mode' /\ n = in'.start /\ e = in'.taken - 1
                               /\ q = quote' /\ b = base' /\ buf = buffer'
  OBVIOUS
<1>2. Known(m, n, e, q, b, buf)
  BY <1>1
<1>3. Known(m, n, e, q, b, buf)'
  BY <1>2, KnownStays, Zenon
<1>4. Known(mode, in.start, in.taken - 1, quote, base, buffer)'
  BY <1>1, <1>3
<1>5. FirstFailed' = FirstFailed
  BY DEF FirstFailed
<1>6. (IF mode = "failed" THEN token.type = "ERROR" ELSE token.type = "ERROR" => FirstFailed)'
  BY <1>5 DEF Munching
<1>7. (tokens # << >> => Munched(Last(tokens)))'
  <2>1. PICK tok : tok = Last(tokens)
    OBVIOUS
  <2>2. Munched(tok)' <=> Munched(tok)
    BY KnownStays DEF Munched, EndOf
  <2>3. Last(tokens)' = tok
    BY <2>1 DEF Last
  <2> QED
    BY <2>1, <2>2, <2>3 DEF Munching
<1> QED
  BY <1>4, <1>6, <1>7 DEF Munching

\* It gives up.
LEMMA GivingUp ==
  ASSUME Munching, Moded, NEW s, Fail(s), s.start = in.start,
         NumberAt(in.start) => Refused(in.start) \/ FirstFailed
  PROVE  Munching'
<1>1. /\ mode' = "failed" /\ in' = s /\ token'.type = "ERROR"
      /\ UNCHANGED << file, quote, buffer, base, tokens >>
  BY DEF Fail, Moded
<1>2. PICK n, e, q, b, buf : /\ n = in'.start /\ e = in'.taken - 1
                             /\ q = quote' /\ b = base' /\ buf = buffer'
  OBVIOUS
<1>3. Known("failed", n, e, q, b, buf)'
  BY <1>1, KnownStays, KnownModes
<1>4. Known(mode, in.start, in.taken - 1, quote, base, buffer)'
  BY <1>1, <1>2, <1>3
<1>5. (NumberAt(in.start) => Refused(in.start) \/ FirstFailed)'
  <2>1. n = in.start
    BY <1>1, <1>2
  <2>2. (Refused(n)' <=> Refused(n)) /\ (NumberAt(n)' <=> NumberAt(n))
    BY <1>1, KnownStays DEF NumberAt
  <2>3. FirstFailed' = FirstFailed
    BY <1>1 DEF FirstFailed
  <2>4. NumberAt(n)' => Refused(n)' \/ FirstFailed'
    BY <2>1, <2>2, <2>3
  <2> QED
    BY <1>2, <2>4
<1>6. (tokens # << >> => Munched(Last(tokens)))'
  <2>1. PICK tok : tok = Last(tokens)
    OBVIOUS
  <2>2. Munched(tok)' <=> Munched(tok)
    BY <1>1, KnownStays DEF Munched, EndOf
  <2>3. Last(tokens)' = tok
    BY <1>1, <2>1 DEF Last
  <2> QED
    BY <1>1, <2>1, <2>2, <2>3 DEF Munching
<1> QED
  BY <1>1, <1>4, <1>5, <1>6 DEF Munching

\* It returns a token: a comment or a string, a character, or the longest of the language.
LEMMA Returning ==
  ASSUME Moded, Covered, NEW type, NEW value, NEW s, Emit(type, value, s), Reading(s),
         NEW n \in Nat, NEW e \in Nat, n <= e, s.start = n, s.taken = e + 1, type # "ERROR",
         \/ type \in Delimited
         \/ n < e /\ At(n) = "'"
         \/ IsLexeme(Span(n, e), type) /\ NoLonger(n, e)
  PROVE  Munching'
<1>1. /\ mode' = "start" /\ in' = s /\ token'.type = type
      /\ UNCHANGED << file, quote, buffer, base >>
  BY DEF Emit, Moded
<1>2. PICK tok : tok = [type |-> type, value |-> value, line |-> token.line,
                        column |-> token.column, text |-> TokenText(s), from |-> s.start]
  OBVIOUS
<1>3. tok.type = type /\ tok.text = TokenText(s) /\ tok.from = n
  BY <1>2
<1>4. tok.text = Span(n, e) /\ EndOf(tok) = e
  <2>1. s.start < s.taken /\ s.taken - 1 = e /\ n + (s.taken - 1 - s.start) = e
    OBVIOUS
  <2>2. TokenText(s) = Span(s.start, s.taken - 1) /\ Len(TokenText(s)) = s.taken - 1 - s.start
    BY <2>1, TokenTextIsSpan
  <2> QED
    BY <1>3, <2>1, <2>2 DEF EndOf
<1>5. tokens' = Append(tokens, tok) /\ AreTokens
  BY <1>2 DEF Emit, Covered
<1>6. PICK l : l = Len(tokens)
  OBVIOUS
<1>7. l \in Nat /\ Len(tokens') = l + 1 /\ tokens'[l + 1] = tok
  BY <1>5, <1>6, OneTokenMore
<1>8. Last(tokens)' = tok
  BY <1>7 DEF Last
<1>9. Munched(tok)
  <2>1. CASE type \in Delimited
    BY <1>3, <2>1 DEF Munched
  <2>2. CASE n < e /\ At(n) = "'"
    <3>1. 1 \in 1 .. e - n /\ n + 1 - 1 = n
      BY <2>2
    <3>2. tok.text[1] = "'"
      <4>1. \A k \in 1 .. e - n : Span(n, e)[k] = At(n + k - 1)
        BY SpanIs
      <4> QED
        BY <1>4, <2>2, <3>1, <4>1
    <3> QED
      BY <3>2 DEF Munched, IsQuoted
  <2>3. CASE IsLexeme(Span(n, e), type) /\ NoLonger(n, e)
    <3>1. \A k \in e + 1 .. Len(file) + 1 : ~ IsToken(Span(n, k))
      BY <2>3 DEF NoLonger
    <3> QED
      BY <1>3, <1>4, <2>3, <3>1 DEF Munched
  <2> QED
    BY <2>1, <2>2, <2>3
<1>10. Munched(tok)' <=> Munched(tok)
  BY <1>1, KnownStays DEF Munched, EndOf
<1>11. Known(mode, in.start, in.taken - 1, quote, base, buffer)'
  <2>1. PICK q, b, buf : q = quote' /\ b = base' /\ buf = buffer'
    OBVIOUS
  <2>2. Known("start", n, e, q, b, buf)
    BY KnownModes
  <2>3. Known("start", n, e, q, b, buf)'
    BY <1>1, <2>2, KnownStays
  <2>4. in'.start = n /\ in'.taken - 1 = e
    BY <1>1
  <2> QED
    BY <1>1, <2>1, <2>3, <2>4
<1> QED
  BY <1>1, <1>8, <1>9, <1>10, <1>11 DEF Munching

----------------------------------------------------------------------------
(* The steps *)

\* The token begins at n, and the lexer is at e.
LEMMA Place ==
  ASSUME Follows, Moded, NEW n, n = in.start, NEW e, e = in.taken - 1
  PROVE  /\ n \in Nat /\ e \in Nat /\ in.taken = e + 1 /\ Reading(in)
         /\ cur = At(e) /\ in.next_char = At(e + 1)
         /\ GetChar(in).start = n /\ GetChar(in).taken - 1 = e + 1
         /\ GetChar(in).cur_char = At(e + 1) /\ Reading(GetChar(in))
         /\ GetChar(GetChar(in)).start = n /\ GetChar(GetChar(in)).taken - 1 = e + 2
         /\ GetChar(GetChar(in)).cur_char = At(e + 2) /\ Reading(GetChar(GetChar(in)))
<1>1. IsFile /\ Reading(in) /\ in.taken \in Nat \ {0} /\ in.start \in Nat
  BY ReadingTypes DEF Follows
<1>2. e \in Nat /\ in.taken = e + 1 /\ in.taken - 1 = e /\ in.taken + 1 = e + 2
  BY <1>1
<1>3. /\ Ahead(in, GetChar(in), 1) /\ Ahead(in, GetChar(GetChar(in)), 2)
      /\ in.cur_char = At(e) /\ in.next_char = At(e + 1)
      /\ GetChar(in).cur_char = At(e + 1) /\ GetChar(GetChar(in)).cur_char = At(e + 2)
  BY <1>1, <1>2, AheadGoes
<1>4. (e + 1 + 1) - 1 = e + 1 /\ (e + 1 + 2) - 1 = e + 2
  BY <1>2
<1> QED
  BY <1>1, <1>2, <1>3, <1>4 DEF Ahead, cur

\* A token that has begun does not begin behind the place.
LEMMA PlaceInOrder ==
  ASSUME Covered, mode \notin {"start", "failed"}
  PROVE  in.start <= in.taken - 1
  BY DEF Covered, FrontIsCovered, Frontier

\* What a token starts with.
LEMMA StartsAre ==
  ASSUME NEW c, NEW d
  PROVE  \/ Starts(c, d) = "scalar" /\ IsDigit(c)
         \/ Starts(c, d) = "ident" /\ IsIdentStart(c)
         \/ Starts(c, d) = "string"
         \/ Starts(c, d) = "float" /\ c = "." /\ IsDigit(d)
         \/ Starts(c, d) = "end"
         \/ Starts(c, d) \in CommentModes /\ c = "/"
         \/ /\ Starts(c, d) = "punctuator" /\ ~ IsDigit(c) /\ ~ IsIdentStart(c)
            /\ ~ (c = "." /\ IsDigit(d))
<1>1. PICK m : m = Starts(c, d)
  OBVIOUS
<1>2. m \in {"scalar", "ident", "string", "float", "end", "line_comment", "comment", "punctuator"}
  BY <1>1 DEF Starts
<1>3. m = "scalar" => IsDigit(c)
  BY <1>1 DEF Starts
<1>4. m = "ident" => IsIdentStart(c)
  BY <1>1 DEF Starts
<1>5. m = "float" => c = "." /\ IsDigit(d)
  BY <1>1 DEF Starts
<1>6. m \in {"line_comment", "comment"} => c = "/"
  BY <1>1 DEF Starts
<1>7. m = "punctuator" => ~ IsDigit(c) /\ ~ IsIdentStart(c) /\ ~ (c = "." /\ IsDigit(d))
  BY <1>1 DEF Starts
<1> QED
  BY <1>1, <1>2, <1>3, <1>4, <1>5, <1>6, <1>7 DEF CommentModes

\* The steps between tokens,
LEMMA BetweenTokens ==
  ASSUME Follows, Moded, Covered, Munching, SkipWs \/ BeginToken \/ EndOfStream
  PROVE  Munching'
<1>1. PICK n, e : n = in.start /\ e = in.taken - 1
  OBVIOUS
<1>2. /\ n \in Nat /\ e \in Nat /\ in.taken = e + 1
      /\ cur = At(e) /\ in.next_char = At(e + 1)
  BY <1>1, Place
<1>3. CASE SkipWs
  <2>1. /\ UNCHANGED << file, mode, token, quote, base, tokens >> /\ in'.start = n
    BY <1>1, <1>3, SpaceIsSkipped
  <2>2. mode \in {"start", "after_string"}
    BY <1>3 DEF SkipWs
  <2>3. PICK k, buf : k = in'.taken - 1 /\ buf = buffer'
    OBVIOUS
  <2>4. Known(mode, n, k, quote, base, buf)
    <3>1. CASE mode = "start"
      BY <3>1, KnownModes
    <3>2. CASE mode = "after_string"
      <4>1. mode \in QuotingModes
        BY <3>2 DEF QuotingModes
      <4>2. Known(mode, n, e, quote, base, buffer)
        BY <1>1 DEF Munching
      <4>3. At(n) = quote
        BY <4>1, <4>2, Zenon DEF Known
      <4> QED
        BY <4>1, <4>3, KnownModes
    <3> QED
      BY <2>2, <3>1, <3>2
  <2> QED
    BY <2>1, <2>2, <2>3, <2>4, GoingOn
<1>4. CASE BeginToken
  <2>1. PICK s : /\ Along(s, in') /\ s.start = e /\ s.taken = in.taken
                 /\ mode' = Starts(At(e), At(e + 1))
                 /\ mode' \notin CommentModes => in' = s
                 /\ quote' = At(e) /\ UNCHANGED << file, base, tokens >>
    BY <1>1, <1>2, <1>4, TokenBegins DEF cur
  <2>2. mode = "start" /\ buffer' = << >> /\ token'.type = token.type
    BY <1>4 DEF BeginToken, Moded
  <2>3. in'.start = e
    BY <2>1 DEF Along
  <2>4. PICK m, k, q : m = mode' /\ k = in'.taken - 1 /\ q = quote'
    OBVIOUS
  <2>5. m \notin CommentModes => k = e
    BY <1>1, <2>1, <2>4
  <2>6. Known(m, e, k, q, base, << >>) /\ m # "failed"
    <3>1. CASE m = "scalar" /\ IsDigit(At(e))
      BY <2>5, <3>1, KnownModes DEF CommentModes
    <3>2. CASE m = "ident" /\ IsIdentStart(At(e))
      <4>1. NameKnown(e, e, << >>)
        BY <1>2, <3>2, SpanEmpty DEF NameKnown
      <4> QED
        BY <2>5, <3>2, <4>1, KnownModes DEF CommentModes
    <3>3. CASE m = "string"
      BY <2>1, <2>4, <3>3, KnownModes DEF QuotingModes
    <3>4. CASE m = "float" /\ At(e) = "." /\ IsDigit(At(e + 1))
      <4>1. FloatKnown(e, e, << >>)
        BY <1>2, <3>4, SpanEmpty DEF FloatKnown
      <4> QED
        BY <2>5, <3>4, <4>1, KnownModes DEF CommentModes
    <3>5. CASE m = "end"
      BY <3>5, KnownModes
    <3>6. CASE m \in CommentModes /\ At(e) = "/"
      <4>1. m # "failed"
        BY <3>6 DEF CommentModes
      <4> QED
        BY <3>6, <4>1, KnownModes
    <3>7. CASE /\ m = "punctuator" /\ ~ IsDigit(At(e)) /\ ~ IsIdentStart(At(e))
               /\ ~ (At(e) = "." /\ IsDigit(At(e + 1)))
      BY <2>5, <3>7, KnownModes DEF CommentModes
    <3> QED
      BY <2>1, <2>4, <3>1, <3>2, <3>3, <3>4, <3>5, <3>6, <3>7, StartsAre
  <2> QED
    BY <2>1, <2>2, <2>3, <2>4, <2>6, GoingOn
<1>5. CASE EndOfStream
  <2>1. /\ mode = "end" /\ mode' = "done" /\ in' = in /\ token'.type = "EOS"
        /\ UNCHANGED << file, quote, buffer, base, tokens >>
    BY <1>5 DEF EndOfStream, Goto, Moded
  <2>2. Known(mode', in'.start, in'.taken - 1, quote', base', buffer')
    BY <2>1, KnownModes
  <2> QED
    BY <2>1, <2>2, GoingOn
<1> QED
  BY <1>3, <1>4, <1>5

\* in an integer constant,
LEMMA InInteger ==
  ASSUME Follows, Moded, Covered, Munching,
         BeginScalar \/ AddDigit \/ EndDigits \/ TakeSuffix \/ EndSuffix
  PROVE  Munching'
<1>1. PICK n, e : n = in.start /\ e = in.taken - 1
  OBVIOUS
<1>2. /\ n \in Nat /\ e \in Nat /\ in.taken = e + 1 /\ Reading(in)
      /\ cur = At(e) /\ in.next_char = At(e + 1)
      /\ GetChar(in).start = n /\ GetChar(in).taken - 1 = e + 1
      /\ GetChar(in).cur_char = At(e + 1)
      /\ GetChar(GetChar(in)).start = n /\ GetChar(GetChar(in)).taken - 1 = e + 2
      /\ GetChar(GetChar(in)).cur_char = At(e + 2)
  BY <1>1, Place
<1>3. Known(mode, n, e, quote, base, buffer)
  BY <1>1 DEF Munching
<1>4. CASE BeginScalar
  <2>1. mode = "scalar" /\ n = e /\ IsDigit(At(n)) /\ buffer = << >>
    BY <1>3, <1>4, KnownModes DEF BeginScalar
  <2>2. PICK b : b = IF At(n) # "0" THEN 10
                     ELSE IF At(n + 1) \in {"x", "X"} THEN 16
                     ELSE IF IsDigit(At(n + 1)) THEN 8 ELSE 10
    OBVIOUS
  <2>3. PICK p : p = IF b = 16 THEN n + 2 ELSE IF b = 8 THEN n + 1 ELSE n
    OBVIOUS
  <2>4. PICK s : s = CASE b = 16 -> GetChar(GetChar(in)) [] b = 8 -> GetChar(in) [] b = 10 -> in
    OBVIOUS
  <2>5. s.start = n /\ s.taken - 1 = p /\ s.cur_char = At(p)
    <3>1. b = 16 \/ b = 8 \/ b = 10
      BY <2>2
    <3>2. CASE b = 16
      BY <1>2, <2>1, <2>3, <2>4, <3>2
    <3>3. CASE b = 8
      BY <1>2, <2>1, <2>3, <2>4, <3>3
    <3>4. CASE b = 10
      <4>1. s = in /\ p = n
        BY <2>3, <2>4, <3>4
      <4> QED
        BY <1>1, <1>2, <2>1, <4>1 DEF cur
    <3> QED
      BY <3>1, <3>2, <3>3, <3>4
  <2>6. IF IsDigitEx(At(p), b) THEN DigitsKnown(n, p, b, << >>) ELSE Refused(n)
    BY <1>2, <2>1, <2>2, <2>3, DigitsBegin
  <2>7. IF IsDigitEx(At(p), b)
        THEN /\ Goto("digits", s) /\ base' = b
             /\ UNCHANGED << file, token, quote, buffer, tokens >>
        ELSE Fail(s)
    <3>1. b = IF cur # "0" THEN 10
              ELSE IF in.next_char \in {"x", "X"} THEN 16
              ELSE IF IsDigit(in.next_char) THEN 8 ELSE 10
      BY <1>2, <2>1, <2>2
    <3> QED
      BY <1>4, <2>4, <2>5, <3>1 DEF BeginScalar
  <2>8. CASE IsDigitEx(At(p), b)
    <3>1. Known("digits", n, p, quote, b, << >>)
      BY <2>6, <2>8, KnownModes
    <3>2. /\ mode' = "digits" /\ in' = s /\ base' = b
          /\ UNCHANGED << file, token, quote, buffer, tokens >>
      BY <2>7, <2>8 DEF Goto
    <3>3. Known(mode', in'.start, in'.taken - 1, quote', base', buffer')
      BY <2>1, <2>5, <3>1, <3>2
    <3> QED
      BY <2>1, <3>2, <3>3, GoingOn
  <2>9. CASE ~ IsDigitEx(At(p), b)
    BY <1>1, <2>5, <2>6, <2>7, <2>9, GivingUp
  <2> QED
    BY <2>8, <2>9
<1>5. CASE AddDigit
  <2>1. /\ mode = "digits" /\ IsDigitEx(At(e), base) /\ in' = GetChar(in)
        /\ buffer' = Append(buffer, At(e)) /\ UNCHANGED << file, mode, token, quote, base, tokens >>
    BY <1>2, <1>5 DEF AddDigit
  <2>2. DigitsKnown(n, e, base, buffer)
    BY <1>3, <2>1, KnownModes
  <2>3. DigitsKnown(n, e + 1, base, Append(buffer, At(e)))
    BY <1>2, <2>1, <2>2, DigitsGo
  <2>4. Known("digits", n, e + 1, quote, base, Append(buffer, At(e)))
    BY <2>3, KnownModes
  <2>5. Known(mode', in'.start, in'.taken - 1, quote', base', buffer')
    BY <1>2, <2>1, <2>4
  <2> QED
    BY <2>1, <2>5, GoingOn
<1>6. CASE EndDigits
  <2>1. mode = "digits" /\ ~ IsDigitEx(At(e), base)
    BY <1>2, <1>6 DEF EndDigits
  <2>2. DigitsKnown(n, e, base, buffer)
    BY <1>3, <2>1, KnownModes
  <2>3. IF base = 8 /\ IsDigit(At(e)) THEN Refused(n)
        ELSE IF base = 10 /\ At(e) \in {".", "e", "E"} THEN FloatKnown(n, e, buffer)
        ELSE SuffixKnown(n, e, << >>)
    BY <1>2, <2>1, <2>2, DigitsEnd
  <2>4. IF base = 8 /\ IsDigit(At(e)) THEN Fail(in)
        ELSE IF base = 10 /\ At(e) \in {".", "e", "E"}
        THEN Goto("float", in) /\ UNCHANGED << file, token, quote, buffer, base, tokens >>
        ELSE Goto("suffix", in) /\ buffer' = << >> /\ UNCHANGED << file, token, quote, base, tokens >>
    BY <1>2, <1>6 DEF EndDigits
  <2>5. CASE base = 8 /\ IsDigit(At(e))
    BY <1>1, <2>3, <2>4, <2>5, GivingUp
  <2>6. CASE ~ (base = 8 /\ IsDigit(At(e))) /\ base = 10 /\ At(e) \in {".", "e", "E"}
    <3>1. /\ mode' = "float" /\ in' = in /\ UNCHANGED << file, token, quote, buffer, base, tokens >>
      BY <2>4, <2>6 DEF Goto
    <3>2. Known("float", n, e, quote, base, buffer)
      BY <2>3, <2>6, KnownModes
    <3>3. Known(mode', in'.start, in'.taken - 1, quote', base', buffer')
      BY <1>1, <3>1, <3>2
    <3> QED
      BY <2>1, <3>1, <3>3, GoingOn
  <2>7. CASE ~ (base = 8 /\ IsDigit(At(e))) /\ ~ (base = 10 /\ At(e) \in {".", "e", "E"})
    <3>1. /\ mode' = "suffix" /\ in' = in /\ buffer' = << >>
          /\ UNCHANGED << file, token, quote, base, tokens >>
      BY <2>4, <2>7 DEF Goto
    <3>2. Known("suffix", n, e, quote, base, << >>)
      BY <2>3, <2>7, KnownModes
    <3>3. Known(mode', in'.start, in'.taken - 1, quote', base', buffer')
      BY <1>1, <3>1, <3>2
    <3> QED
      BY <2>1, <3>1, <3>3, GoingOn
  <2> QED
    BY <2>5, <2>6, <2>7
<1>7. CASE TakeSuffix
  <2>1. /\ mode = "suffix" /\ IsAlpha(At(e)) /\ in' = GetChar(in)
        /\ buffer' = Append(buffer, At(e)) /\ UNCHANGED << file, mode, token, quote, base, tokens >>
    BY <1>2, <1>7 DEF TakeSuffix, Keep
  <2>2. SuffixKnown(n, e, buffer)
    BY <1>3, <2>1, KnownModes
  <2>3. SuffixKnown(n, e + 1, Append(buffer, At(e)))
    BY <1>2, <2>1, <2>2, SuffixGoes
  <2>4. Known("suffix", n, e + 1, quote, base, Append(buffer, At(e)))
    BY <2>3, KnownModes
  <2>5. Known(mode', in'.start, in'.taken - 1, quote', base', buffer')
    BY <1>2, <2>1, <2>4
  <2> QED
    BY <2>1, <2>5, GoingOn
<1>8. CASE EndSuffix
  <2>1. mode = "suffix" /\ (IF buffer # << >> THEN Fail(in) ELSE Emit("INT_CONST", result, in))
    BY <1>8 DEF EndSuffix
  <2>2. SuffixKnown(n, e, buffer)
    BY <1>3, <2>1, KnownModes
  <2>3. IF buffer # << >> THEN Refused(n) ELSE n < e /\ IntegerAt(n, e) /\ NoLonger(n, e)
    BY <1>2, <2>2, SuffixEnds
  <2>4. CASE buffer # << >>
    BY <1>1, <2>1, <2>3, <2>4, GivingUp
  <2>5. CASE buffer = << >>
    <3>1. n <= e
      BY <1>2, <2>3, <2>5
    <3>2. IsDecimal(Span(n, e)) \/ IsOctal(Span(n, e)) \/ IsHex(Span(n, e))
      BY <1>2, <2>3, <2>5, <3>1, SpanNumbers DEF IntegerAt
    <3>3. IsLexeme(Span(n, e), "INT_CONST")
      BY <3>2 DEF IsLexeme
    <3> QED
      BY <1>1, <1>2, <2>1, <2>3, <2>5, <3>1, <3>3, Returning
  <2> QED
    BY <2>4, <2>5
<1> QED
  BY <1>4, <1>5, <1>6, <1>7, <1>8

\* in a float,
LEMMA InFloat ==
  ASSUME Follows, Moded, Covered, Munching,
         Point \/ TakeDigit \/ EndNumber \/ Exponent \/ EndFloat
  PROVE  Munching'
<1>1. PICK n, e : n = in.start /\ e = in.taken - 1
  OBVIOUS
<1>2. /\ n \in Nat /\ e \in Nat /\ in.taken = e + 1 /\ Reading(in)
      /\ cur = At(e) /\ in.next_char = At(e + 1)
      /\ GetChar(in).start = n /\ GetChar(in).taken - 1 = e + 1
      /\ GetChar(in).cur_char = At(e + 1)
      /\ GetChar(GetChar(in)).start = n /\ GetChar(GetChar(in)).taken - 1 = e + 2
      /\ GetChar(GetChar(in)).cur_char = At(e + 2)
  BY <1>1, Place
<1>3. Known(mode, n, e, quote, base, buffer)
  BY <1>1 DEF Munching
<1>4. CASE Point
  <2>1. mode = "float" /\ UNCHANGED << file, token, quote, base, tokens >>
    BY <1>4 DEF Point
  <2>2. FloatKnown(n, e, buffer)
    BY <1>3, <2>1, KnownModes
  <2>3. IF At(e) # "." THEN ExponentKnown(n, e)
        ELSE IF IsDigit(At(e + 1)) \/ Len(Append(buffer, ".")) = 1 THEN FractionKnown(n, e + 1)
        ELSE ExponentKnown(n, e + 1)
    BY <1>2, <2>2, PointGoes
  <2>4. PICK buf : buf = buffer'
    OBVIOUS
  <2>5. CASE At(e) # "."
    <3>1. mode' = "exponent" /\ in' = in
      BY <1>2, <1>4, <2>5 DEF Point, Goto
    <3>2. Known("exponent", n, e, quote, base, buf)
      BY <2>3, <2>5, KnownModes
    <3>3. Known(mode', in'.start, in'.taken - 1, quote', base', buffer')
      BY <1>1, <2>1, <2>4, <3>1, <3>2
    <3> QED
      BY <2>1, <3>1, <3>3, GoingOn
  <2>6. CASE At(e) = "."
    <3>1. /\ buffer' = Append(buffer, ".") /\ in' = GetChar(in)
          /\ mode' = IF IsDigit(At(e + 1)) \/ Len(buffer') = 1 THEN "fraction" ELSE "exponent"
      BY <1>2, <1>4, <2>6 DEF Point, Goto
    <3>2. PICK m : m = mode'
      OBVIOUS
    <3>3. Known(m, n, e + 1, quote, base, buf) /\ m # "failed"
      <4>1. CASE IsDigit(At(e + 1)) \/ Len(Append(buffer, ".")) = 1
        BY <2>3, <2>6, <3>1, <3>2, <4>1, KnownModes
      <4>2. CASE ~ (IsDigit(At(e + 1)) \/ Len(Append(buffer, ".")) = 1)
        BY <2>3, <2>6, <3>1, <3>2, <4>2, KnownModes
      <4> QED
        BY <4>1, <4>2
    <3>4. Known(mode', in'.start, in'.taken - 1, quote', base', buffer')
      BY <1>2, <2>1, <2>4, <3>1, <3>2, <3>3
    <3> QED
      BY <2>1, <3>2, <3>3, <3>4, GoingOn
  <2> QED
    BY <2>5, <2>6
<1>5. CASE TakeDigit
  <2>1. /\ mode \in {"fraction", "power"} /\ IsDigit(At(e)) /\ in' = GetChar(in)
        /\ UNCHANGED << file, mode, token, quote, base, tokens >>
    BY <1>2, <1>5 DEF TakeDigit, Keep
  <2>2. PICK buf : buf = buffer'
    OBVIOUS
  <2>3. Known(mode, n, e + 1, quote, base, buf) /\ mode # "failed"
    <3>1. CASE mode = "fraction"
      <4>1. FractionKnown(n, e)
        BY <1>3, <3>1, KnownModes
      <4>2. FractionKnown(n, e + 1)
        BY <1>2, <2>1, <4>1, FractionGoes
      <4> QED
        BY <3>1, <4>2, KnownModes
    <3>2. CASE mode = "power"
      <4>1. PowerKnown(n, e)
        BY <1>3, <3>2, KnownModes
      <4>2. PowerKnown(n, e + 1)
        BY <1>2, <2>1, <4>1, PowerGoes
      <4> QED
        BY <3>2, <4>2, KnownModes
    <3> QED
      BY <2>1, <3>1, <3>2
  <2>4. Known(mode', in'.start, in'.taken - 1, quote', base', buffer')
    BY <1>2, <2>1, <2>2, <2>3
  <2> QED
    BY <2>1, <2>3, <2>4, GoingOn
<1>6. CASE EndNumber
  <2>1. /\ mode \in {"fraction", "power"} /\ ~ IsDigit(At(e)) /\ mode # "failed"
        /\ IF token.type = "ERROR" THEN Fail(in)
           ELSE /\ Goto(IF mode = "fraction" THEN "exponent" ELSE "float_end", in)
                /\ UNCHANGED << file, token, quote, buffer, base, tokens >>
    BY <1>2, <1>6 DEF EndNumber
  <2>2. CASE token.type = "ERROR"
    <3>1. FirstFailed
      BY <2>1, <2>2 DEF Munching
    <3> QED
      BY <2>1, <2>2, <3>1, GivingUp
  <2>3. CASE token.type # "ERROR" /\ mode = "fraction"
    <3>1. /\ mode' = "exponent" /\ in' = in /\ UNCHANGED << file, token, quote, buffer, base, tokens >>
      BY <2>1, <2>3 DEF Goto
    <3>2. FractionKnown(n, e)
      BY <1>3, <2>3, KnownModes
    <3>3. ExponentKnown(n, e)
      BY <1>2, <2>1, <3>2, FractionStops
    <3>4. Known("exponent", n, e, quote, base, buffer)
      BY <3>3, KnownModes
    <3>5. Known(mode', in'.start, in'.taken - 1, quote', base', buffer')
      BY <1>1, <3>1, <3>4
    <3> QED
      BY <2>1, <3>1, <3>5, GoingOn
  <2>4. CASE token.type # "ERROR" /\ mode = "power"
    <3>1. /\ mode' = "float_end" /\ in' = in /\ UNCHANGED << file, token, quote, buffer, base, tokens >>
      BY <2>1, <2>4 DEF Goto
    <3>2. PowerKnown(n, e)
      BY <1>3, <2>4, KnownModes
    <3>3. FloatDone(n, e)
      BY <1>2, <2>1, <3>2, PowerStops
    <3>4. Known("float_end", n, e, quote, base, buffer)
      BY <3>3, KnownModes
    <3>5. Known(mode', in'.start, in'.taken - 1, quote', base', buffer')
      BY <1>1, <3>1, <3>4
    <3> QED
      BY <2>1, <3>1, <3>5, GoingOn
  <2> QED
    BY <2>1, <2>2, <2>3, <2>4
<1>7. CASE Exponent
  <2>1. mode = "exponent"
    BY <1>7 DEF Exponent
  <2>2. ExponentKnown(n, e)
    BY <1>3, <2>1, KnownModes
  <2>3. IF At(e) \notin {"e", "E"} THEN FloatDone(n, e)
        ELSE IF ~ IsDigit(At(PowerFrom(e))) THEN Refused(n)
        ELSE PowerKnown(n, PowerFrom(e))
    BY <1>2, <2>2, ExponentGoes
  <2>4. CASE At(e) \notin {"e", "E"}
    <3>1. /\ mode' = "float_end" /\ in' = in /\ UNCHANGED << file, token, quote, buffer, base, tokens >>
      BY <1>2, <1>7, <2>4 DEF Exponent, Goto
    <3>2. Known("float_end", n, e, quote, base, buffer)
      BY <2>3, <2>4, KnownModes
    <3>3. Known(mode', in'.start, in'.taken - 1, quote', base', buffer')
      BY <1>1, <3>1, <3>2
    <3> QED
      BY <2>1, <3>1, <3>3, GoingOn
  <2>5. CASE At(e) \in {"e", "E"}
    <3>1. PICK t : t = IF At(e + 1) \in {"+", "-"} THEN GetChar(GetChar(in)) ELSE GetChar(in)
      OBVIOUS
    <3>2. PICK d : d = PowerFrom(e)
      OBVIOUS
    <3>3. t.start = n /\ t.taken - 1 = d /\ t.cur_char = At(d)
      <4>1. CASE At(e + 1) \in {"+", "-"}
        <5>1. t = GetChar(GetChar(in)) /\ d = e + 2
          BY <3>1, <3>2, <4>1 DEF PowerFrom
        <5> QED
          BY <1>2, <5>1
      <4>2. CASE At(e + 1) \notin {"+", "-"}
        <5>1. t = GetChar(in) /\ d = e + 1
          BY <3>1, <3>2, <4>2 DEF PowerFrom
        <5> QED
          BY <1>2, <5>1
      <4> QED
        BY <4>1, <4>2
    <3>4. IF ~ IsDigit(At(d)) THEN Fail(t)
          ELSE mode' = "power" /\ in' = t /\ UNCHANGED << file, token, quote, base, tokens >>
      BY <1>2, <1>7, <2>5, <3>1, <3>3 DEF Exponent, Goto
    <3>5. CASE ~ IsDigit(At(d))
      <4>1. Refused(n)
        BY <2>3, <2>5, <3>2, <3>5
      <4> QED
        BY <1>1, <3>3, <3>4, <3>5, <4>1, GivingUp
    <3>6. CASE IsDigit(At(d))
      <4>1. PICK buf : buf = buffer'
        OBVIOUS
      <4>2. PowerKnown(n, d)
        BY <2>3, <2>5, <3>2, <3>6
      <4>3. Known("power", n, d, quote, base, buf)
        BY <4>2, KnownModes
      <4>4. mode' = "power" /\ in' = t /\ UNCHANGED << file, token, quote, base, tokens >>
        BY <3>4, <3>6
      <4>5. Known(mode', in'.start, in'.taken - 1, quote', base', buffer')
        BY <3>3, <4>1, <4>3, <4>4
      <4> QED
        BY <2>1, <4>4, <4>5, GoingOn
    <3> QED
      BY <3>5, <3>6
  <2> QED
    BY <2>4, <2>5
<1>8. CASE EndFloat
  <2>1. mode = "float_end" /\ Emit("FLOAT_CONST", buffer, in)
    BY <1>8 DEF EndFloat
  <2>2. FloatDone(n, e)
    BY <1>3, <2>1, KnownModes
  <2>3. n <= e
    BY <1>2, <2>2 DEF FloatDone
  <2>4. IsFloat(Span(n, e)) /\ NoLonger(n, e)
    BY <1>2, <2>2, <2>3, SpanFloat DEF FloatDone
  <2>5. IsLexeme(Span(n, e), "FLOAT_CONST")
    BY <2>4 DEF IsLexeme
  <2> QED
    BY <1>1, <1>2, <2>1, <2>3, <2>4, <2>5, Returning
<1> QED
  BY <1>4, <1>5, <1>6, <1>7, <1>8

\* in a name,
LEMMA InName ==
  ASSUME Follows, Moded, Covered, Munching, TakeIdent \/ EndIdent
  PROVE  Munching'
<1>1. PICK n, e : n = in.start /\ e = in.taken - 1
  OBVIOUS
<1>2. /\ n \in Nat /\ e \in Nat /\ in.taken = e + 1 /\ Reading(in) /\ cur = At(e)
      /\ GetChar(in).start = n /\ GetChar(in).taken - 1 = e + 1
  BY <1>1, Place
<1>3. mode = "ident" /\ mode # "failed" /\ NameKnown(n, e, buffer)
  <2>1. Known(mode, n, e, quote, base, buffer)
    BY <1>1 DEF Munching
  <2>2. mode = "ident"
    BY DEF TakeIdent, EndIdent
  <2> QED
    BY <2>1, <2>2, KnownModes
<1>4. CASE TakeIdent
  <2>1. /\ IsIdent(At(e)) /\ in' = GetChar(in) /\ buffer' = Append(buffer, At(e))
        /\ UNCHANGED << file, mode, token, quote, base, tokens >>
    BY <1>2, <1>4 DEF TakeIdent, Keep
  <2>2. NameKnown(n, e + 1, Append(buffer, At(e)))
    BY <1>2, <1>3, <2>1, NameGoes
  <2>3. Known("ident", n, e + 1, quote, base, Append(buffer, At(e)))
    BY <2>2, KnownModes
  <2>4. Known(mode', in'.start, in'.taken - 1, quote', base', buffer')
    BY <1>2, <1>3, <2>1, <2>3
  <2> QED
    BY <1>3, <2>1, <2>4, GoingOn
<1>5. CASE EndIdent
  <2>1. /\ ~ IsIdent(At(e))
        /\ IF Len(buffer) > MaxIdent THEN Fail(in)
           ELSE IF buffer \in DOMAIN Keywords THEN Emit(Keywords[buffer], << >>, in)
           ELSE Emit("IDENT", buffer, in)
    BY <1>2, <1>5 DEF EndIdent
  <2>2. NameAt(n, e) /\ NoLonger(n, e) /\ buffer = Span(n, e)
    BY <1>2, <1>3, <2>1, NameStops
  <2>3. n <= e /\ IsIdentStart(At(n))
    BY <1>2, <2>2 DEF NameAt
  <2>4. CASE Fail(in)
    <3>1. ~ NumberAt(n)
      BY <2>3, CharactersDiffer DEF NumberAt
    <3> QED
      BY <1>1, <2>4, <3>1, GivingUp
  <2>5. CASE buffer \in DOMAIN Keywords /\ Emit(Keywords[buffer], << >>, in)
    <3>1. PICK type : type = Keywords[buffer]
      OBVIOUS
    <3>2. type \notin {"COMMENT", "IDENT", "INT_CONST", "FLOAT_CONST", "STRING_CONST", "ERROR"}
      BY <2>5, <3>1, KeywordsAssumption DEF Range
    <3>3. IsLexeme(Span(n, e), type)
      BY <2>2, <2>5, <3>1, <3>2, Zenon DEF IsLexeme
    <3>4. type # "ERROR"
      BY <3>2
    <3>5. Emit(type, << >>, in)
      BY <2>5, <3>1
    <3> QED
      BY <1>1, <1>2, <2>2, <2>3, <3>3, <3>4, <3>5, Returning
  <2>6. CASE buffer \notin DOMAIN Keywords /\ Emit("IDENT", buffer, in)
    <3>1. IsName(Span(n, e))
      BY <1>2, <2>2, <2>3, SpanNumbers
    <3>2. IsLexeme(Span(n, e), "IDENT")
      BY <2>2, <2>6, <3>1 DEF IsLexeme
    <3> QED
      BY <1>1, <1>2, <2>2, <2>3, <2>6, <3>2, Returning
  <2> QED
    BY <2>1, <2>4, <2>5, <2>6
<1> QED
  BY <1>4, <1>5

\* What begins with a quote or a slash is no number.
LEMMA NoNumberThere ==
  ASSUME NEW n, At(n) \in Quotes \cup {"/"}
  PROVE  ~ NumberAt(n)
<1>1. At(n) \notin {"0", "1", "2", "3", "4", "5", "6", "7", "8", "9"} /\ At(n) # "."
  BY DEF Quotes
<1> QED
  BY <1>1 DEF NumberAt, IsDigit, Decimal

\* in a comment,
LEMMA InComments ==
  ASSUME Follows, Moded, Covered, Munching,
         TakeLineComment \/ EndLineComment \/ TakeComment \/ EndComment
  PROVE  Munching'
<1>1. PICK n, e : n = in.start /\ e = in.taken - 1
  OBVIOUS
<1>2. /\ n \in Nat /\ e \in Nat /\ in.taken = e + 1 /\ Reading(in)
      /\ GetChar(in).start = n /\ GetChar(in).taken - 1 = e + 1
      /\ GetChar(GetChar(in)).start = n /\ GetChar(GetChar(in)).taken - 1 = e + 2
      /\ Reading(GetChar(GetChar(in)))
  BY <1>1, Place
<1>3. mode \in CommentModes
  BY DEF TakeLineComment, EndLineComment, TakeComment, EndComment, CommentModes
<1>4. At(n) = "/" /\ mode \notin {"start", "failed"}
  <2>1. Known(mode, n, e, quote, base, buffer)
    BY <1>1 DEF Munching
  <2> QED
    BY <1>3, <2>1, Zenon DEF Known, CommentModes
<1>5. n <= e
  BY <1>1, <1>4, PlaceInOrder
<1>6. PICK k, buf : k = in'.taken - 1 /\ buf = buffer'
  OBVIOUS
<1>7. Known(mode, n, k, quote, base, buf)
  BY <1>3, <1>4, KnownModes
<1>8. CASE TakeLineComment \/ TakeComment
  <2>1. UNCHANGED << file, mode, token, quote, base, tokens >> /\ in'.start = n
    BY <1>1, <1>2, <1>8, CommentGoesOn DEF TakeLineComment, Keep
  <2>2. Known(mode', in'.start, in'.taken - 1, quote', base', buffer')
    BY <1>6, <1>7, <2>1
  <2> QED
    BY <1>4, <2>1, <2>2, GoingOn
<1>9. CASE EndLineComment
  <2>1. Emit("COMMENT", buffer, in)
    BY <1>9 DEF EndLineComment
  <2> QED
    BY <1>1, <1>2, <1>5, <2>1, Returning DEF Delimited
<1>10. CASE EndComment
  <2>1. CASE Fail(in)
    BY <1>1, <1>4, <2>1, NoNumberThere, GivingUp
  <2>2. CASE Emit("COMMENT", buffer, GetChar(GetChar(in)))
    <3>1. PICK s : s = GetChar(GetChar(in))
      OBVIOUS
    <3>2. /\ Emit("COMMENT", buffer, s) /\ Reading(s) /\ s.start = n /\ s.taken - 1 = e + 2
          /\ s.taken \in Nat
      BY <1>2, <2>2, <3>1, ReadingTypes
    <3>3. e + 2 \in Nat /\ n <= e + 2 /\ s.taken = e + 2 + 1
      BY <1>2, <1>5, <3>2
    <3> QED
      BY <1>2, <3>2, <3>3, Returning DEF Delimited
  <2> QED
    BY <1>10, <2>1, <2>2 DEF EndComment
<1> QED
  BY <1>8, <1>9, <1>10

\* A step that goes on in a string.
StaysInString ==
  /\ mode' \in QuotingModes /\ in'.start = in.start
  /\ UNCHANGED << file, quote, tokens >>
  /\ token'.type = token.type \/ token'.type # "ERROR"

\* in a string.
LEMMA InString ==
  ASSUME Follows, Moded, Covered, Munching,
         \/ OpenString \/ TakeChar \/ CloseString \/ NextString \/ EndString
         \/ Backslash \/ SimpleEscape \/ BeginHex \/ HexEscape
         \/ BeginOctal \/ AddOctal \/ OctalEscape
  PROVE  Munching'
<1>1. PICK n, e : n = in.start /\ e = in.taken - 1
  OBVIOUS
<1>2. /\ n \in Nat /\ e \in Nat /\ in.taken = e + 1 /\ Reading(in) /\ cur = At(e)
      /\ GetChar(in).start = n /\ GetChar(GetChar(in)).start = n
  BY <1>1, Place
<1>3. mode \in QuotingModes
  BY DEF OpenString, TakeChar, CloseString, NextString, EndString, Backslash, SimpleEscape,
         BeginHex, HexEscape, BeginOctal, AddOctal, OctalEscape, QuotingModes
<1>4. At(n) = quote /\ mode \notin {"start", "failed"} /\ quote \in Quotes
  <2>1. Known(mode, n, e, quote, base, buffer)
    BY <1>1 DEF Munching
  <2>2. At(n) = quote
    BY <1>3, <2>1, Zenon DEF Known
  <2> QED
    BY <1>3, <2>2 DEF QuotingModes, Moded
<1>5. n <= e
  BY <1>1, <1>4, PlaceInOrder
<1>6. ASSUME StaysInString PROVE Munching'
  <2>1. PICK m, k, b, buf : m = mode' /\ k = in'.taken - 1 /\ b = base' /\ buf = buffer'
    OBVIOUS
  <2>2. m \in QuotingModes /\ m # "failed"
    BY <1>6, <2>1 DEF StaysInString, QuotingModes
  <2>3. Known(m, n, k, quote, b, buf)
    BY <1>4, <2>2, KnownModes
  <2>4. /\ in'.start = n /\ UNCHANGED << file, quote, tokens >>
        /\ token'.type = token.type \/ token'.type # "ERROR"
    BY <1>1, <1>6 DEF StaysInString
  <2>5. Known(mode', in'.start, in'.taken - 1, quote', base', buffer')
    BY <2>1, <2>3, <2>4
  <2> QED
    BY <1>4, <2>1, <2>2, <2>4, <2>5, GoingOn
<1>7. ASSUME Fail(in) PROVE Munching'
  <2>1. ~ NumberAt(in.start)
    BY <1>1, <1>4, NoNumberThere
  <2> QED
    BY <1>7, <2>1, GivingUp
<1>8. ASSUME NEW code, NEW s \in {in, GetChar(in), GetChar(GetChar(in))}, Escaped(code, s)
      PROVE  StaysInString
  <2>1. s.start = in.start
    BY <1>1, <1>2, <1>8
  <2> QED
    BY <1>8, <2>1 DEF Escaped, Goto, StaysInString, QuotingModes
<1>9. CASE OpenString
  <2>1. token'.type = "STRING_CONST"
    BY <1>9 DEF OpenString, Moded
  <2> QED
    BY <1>1, <1>2, <1>6, <1>9, <2>1 DEF OpenString, Goto, StaysInString, QuotingModes
<1>10. CASE TakeChar
  BY <1>1, <1>2, <1>3, <1>6, <1>10 DEF TakeChar, Keep, StaysInString
<1>11. CASE CloseString
  <2>1. CASE cur # quote
    BY <1>7, <1>11, <2>1 DEF CloseString
  <2>2. CASE cur = quote
    BY <1>1, <1>2, <1>6, <1>11, <2>2 DEF CloseString, Goto, StaysInString, QuotingModes
  <2> QED
    BY <2>1, <2>2
<1>12. CASE NextString
  BY <1>6, <1>12 DEF NextString, Goto, StaysInString, QuotingModes
<1>13. CASE EndString
  <2>1. cur # quote
    BY <1>13 DEF EndString
  <2>2. CASE Emit("STRING_CONST", buffer, in)
    BY <1>1, <1>2, <1>5, <2>2, Returning DEF Delimited
  <2>3. CASE quote # "\"" /\ Emit("INT_CONST", SignedChar(buffer[1]), in)
    <3>1. n < e
      <4>1. n # e
        BY <1>2, <1>4, <2>1
      <4> QED
        BY <1>2, <1>5, <4>1
    <3>2. At(n) = "'"
      BY <1>4, <2>3 DEF Quotes
    <3>3. in.start = n /\ "INT_CONST" # "ERROR"
      BY <1>1
    <3>4. PICK value : value = SignedChar(buffer[1])
      OBVIOUS
    <3>5. Emit("INT_CONST", value, in)
      BY <2>3, <3>4
    <3> QED
      BY <1>2, <1>5, <3>1, <3>2, <3>3, <3>5, Returning
  <2> QED
    BY <1>7, <1>13, <2>2, <2>3 DEF EndString
<1>14. CASE Backslash
  BY <1>1, <1>2, <1>6, <1>14 DEF Backslash, Goto, StaysInString, QuotingModes
<1>15. CASE SimpleEscape
  <2>1. PICK code : code = Escapes[cur]
    OBVIOUS
  <2>2. Escaped(code, GetChar(in))
    BY <1>15, <2>1 DEF SimpleEscape
  <2> QED
    BY <1>6, <1>8, <2>2
<1>16. CASE BeginHex
  BY <1>1, <1>2, <1>6, <1>16 DEF BeginHex, Goto, StaysInString, QuotingModes
<1>17. CASE HexEscape
  <2>1. PICK one, two : one = DigitValue(cur) /\ two = one * 16 + DigitValue(in.next_char)
    OBVIOUS
  <2>2. Fail(in) \/ Escaped(two, GetChar(GetChar(in))) \/ Escaped(one, GetChar(in))
    BY <1>17, <2>1 DEF HexEscape
  <2> QED
    BY <1>6, <1>7, <1>8, <2>2
<1>18. CASE BeginOctal
  <2>1. CASE ~ IsOctdigit(cur)
    BY <1>7, <1>18, <2>1 DEF BeginOctal
  <2>2. CASE IsOctdigit(cur)
    BY <1>6, <1>18, <2>2 DEF BeginOctal, Goto, StaysInString, QuotingModes
  <2> QED
    BY <2>1, <2>2
<1>19. CASE AddOctal
  BY <1>1, <1>2, <1>3, <1>6, <1>19 DEF AddOctal, StaysInString
<1>20. CASE OctalEscape
  <2>1. Fail(in) \/ Escaped(result, in)
    BY <1>20 DEF OctalEscape
  <2> QED
    BY <1>6, <1>7, <1>8, <2>1
<1> QED
  BY <1>9, <1>10, <1>11, <1>12, <1>13, <1>14, <1>15, <1>16, <1>17, <1>18, <1>19, <1>20

\* and at a punctuator.
LEMMA AtPunctuator ==
  ASSUME Follows, Moded, Covered, Munching, TakePunctuator
  PROVE  Munching'
<1>1. PICK n, e : n = in.start /\ e = in.taken - 1
  OBVIOUS
<1>2. n \in Nat /\ e \in Nat /\ in.taken = e + 1 /\ Reading(in) /\ IsFile
  BY <1>1, Place DEF Follows
<1>3. PICK p : p = Punctuator(in)
  OBVIOUS
<1>4. IF p.type = "ERROR" THEN Fail(p.at) ELSE Emit(p.type, << >>, p.at)
  BY <1>3 DEF TakePunctuator
<1>5. /\ n = e /\ ~ IsDigit(At(n)) /\ ~ IsIdentStart(At(n))
      /\ ~ (At(n) = "." /\ IsDigit(At(n + 1)))
  <2>1. Known(mode, n, e, quote, base, buffer)
    BY <1>1 DEF Munching
  <2>2. mode = "punctuator"
    BY DEF TakePunctuator
  <2> QED
    BY <2>1, <2>2, KnownModes
<1>6. CASE p.type = "ERROR"
  <2>1. p.at.start = n
    <3>1. in.taken <= Len(file) + 2 /\ Plain(in.cur_char)
      BY <1>2 DEF Moded, IsFile, TakePunctuator
    <3>2. Along(in, p.at)
      BY <1>2, <1>3, <3>1, AlongPunctuator
    <3> QED
      BY <1>1, <3>2 DEF Along
  <2>2. ~ NumberAt(n)
    BY <1>5 DEF NumberAt
  <2> QED
    BY <1>1, <1>4, <1>6, <2>1, <2>2, GivingUp
<1>7. CASE p.type # "ERROR"
  <2>1. PICK z \in Nat : /\ n < z /\ Reading(p.at) /\ p.at.start = n /\ p.at.taken = z + 1
                         /\ IsLexeme(Span(n, z), p.type) /\ NoLonger(n, z)
    BY <1>1, <1>2, <1>3, <1>5, <1>7, OperatorIsLongest
  <2>2. PICK type, s : type = p.type /\ s = p.at
    OBVIOUS
  <2>3. Emit(type, << >>, s) /\ type # "ERROR"
    BY <1>4, <1>7, <2>2
  <2>4. n <= z
    BY <1>2, <2>1
  <2> QED
    BY <1>2, <2>1, <2>2, <2>3, <2>4, Returning
<1> QED
  BY <1>6, <1>7

----------------------------------------------------------------------------
(* What the lexer returns *)

\* The longest token so far, of the type that the mode stands for, in every state.
THEOREM LexerMunches == Spec => []Munching
<1>1. Init => Munching
  <2> SUFFICES ASSUME Init PROVE Munching
    OBVIOUS
  <2>1. mode = "start" /\ tokens = << >> /\ token.type \in FirstTypes
    BY DEF Init
  <2>2. Known(mode, in.start, in.taken - 1, quote, base, buffer)
    BY <2>1, KnownModes
  <2> QED
    BY <2>1, <2>2 DEF Munching, FirstFailed
<1>2. Follows /\ Moded /\ Covered /\ Munching /\ [Next]_vars => Munching'
  <2> SUFFICES ASSUME Follows, Moded, Covered, Munching, [Next]_vars PROVE Munching'
    OBVIOUS
  <2>1. CASE UNCHANGED vars
    <3>1. PICK m, n, e, q, b, buf : /\ m = mode /\ n = in.start /\ e = in.taken - 1
                                   /\ q = quote /\ b = base /\ buf = buffer
      OBVIOUS
    <3>2. UNCHANGED << file, in, mode, token, quote, buffer, base, tokens >>
      BY <2>1 DEF vars
    <3>3. Known(m, n, e, q, b, buf)' <=> Known(m, n, e, q, b, buf)
      BY <3>2, KnownStays
    <3>4. (Refused(n)' <=> Refused(n)) /\ (NumberAt(n)' <=> NumberAt(n))
      BY <3>2, KnownStays DEF NumberAt
    <3>5. PICK tok : tok = Last(tokens)
      OBVIOUS
    <3>6. Munched(tok)' <=> Munched(tok)
      BY <3>2, KnownStays DEF Munched, EndOf
    <3>7. Last(tokens)' = tok
      BY <3>2, <3>5 DEF Last
    <3>8. FirstFailed' = FirstFailed
      BY <3>2 DEF FirstFailed
    <3> QED
      BY <3>1, <3>2, <3>3, <3>4, <3>5, <3>6, <3>7, <3>8 DEF Munching
  <2>2. CASE Next
    BY <2>2, BetweenTokens, InInteger, InFloat, InName, InComments, InString, AtPunctuator DEF Next
  <2> QED
    BY <2>1, <2>2
<1> QED
  BY <1>1, <1>2, LexerFollowsFile, LexerKnowsItsMode, LexerCoversFile, PTL DEF Spec

\* MaximalMunch: a token is one of the language, of the type that is returned, and no
\* longer token of the language begins where it does.
THEOREM LexerMunchesMaximally == Spec => []MaximalMunch
<1>1. Munching => MaximalMunch
  BY DEF Munching, Munched, MaximalMunch
<1> QED
  BY <1>1, LexerMunches, PTL

\* The longest token is found where no longer one is.
LEMMA LongestIs ==
  ASSUME IsFile, NEW n \in Nat, NEW f \in Nat, n < f, f <= Len(file), IsToken(Span(n, f)),
         NoLonger(n, f)
  PROVE  LongestFrom(n) = f - 1
<1>1. Len(file) \in Nat
  BY DEF IsFile
<1>2. PICK S : S = {k \in n .. Len(file) : IsToken(Span(n, k + 1))} \cup {n - 1}
  OBVIOUS
<1>3. S \in SUBSET Int
  BY <1>1, <1>2
<1>4. IsLast(f - 1, S)
  <2>1. f - 1 \in S
    <3>1. f - 1 \in n .. Len(file) /\ f - 1 + 1 = f
      BY <1>1
    <3> QED
      BY <1>2, <3>1
  <2>2. ASSUME NEW x \in S PROVE x <= f - 1
    <3>1. CASE x = n - 1
      BY <3>1
    <3>2. CASE x \in n .. Len(file) /\ IsToken(Span(n, x + 1))
      <4>1. x \in Int /\ x + 1 \in Nat
        BY <1>1, <3>2
      <4>2. ~ (f < x + 1)
        BY <3>2, <4>1 DEF NoLonger
      <4> QED
        BY <4>1, <4>2
    <3> QED
      BY <1>2, <3>1, <3>2
  <2> QED
    BY <2>1, <2>2 DEF IsLast
<1> QED
  BY <1>2, <1>3, <1>4, LastIsMax DEF LongestFrom

\* NumbersRefusedRightly: a number is refused only where a letter or a digit is behind the
\* longest number that can be read there.
THEOREM RefusalsAreRight == Spec => []NumbersRefusedRightly
<1>1. Follows /\ Munching => NumbersRefusedRightly
  <2> SUFFICES ASSUME Follows, Munching, mode = "failed", BeginsNumber,
                      tokens # << >> \/ token.type \notin FirstTypes
               PROVE  MalformedNumber
    BY DEF NumbersRefusedRightly
  <2>1. PICK n : n = in.start
    OBVIOUS
  <2>2. IsFile /\ n \in Nat /\ Len(file) \in Nat
    BY <2>1, ReadingTypes DEF Follows, IsFile
  <2>3. Refused(n)
    <3>1. NumberAt(n)
      BY <2>1 DEF BeginsNumber, NumberAt
    <3>2. ~ FirstFailed
      BY DEF Munching, FirstFailed
    <3> QED
      BY <2>1, <3>1, <3>2 DEF Munching
  <2>4. PICK f \in Nat : /\ n < f /\ IsToken(Span(n, f)) /\ NoLonger(n, f)
                         /\ IsAlpha(At(f)) \/ IsDigit(At(f))
    BY <2>3 DEF Refused
  <2>5. f <= Len(file)
    <3>1. At(f) # Nul
      BY <2>4, CharactersDiffer DEF IsIdent, IsIdentStart
    <3> QED
      BY <2>2, <3>1 DEF At
  <2>6. LongestFrom(n) = f - 1
    BY <2>2, <2>4, <2>5, LongestIs
  <2>7. f - 1 + 1 = f
    OBVIOUS
  <2> QED
    BY <2>1, <2>4, <2>6, <2>7 DEF MalformedNumber
<1> QED
  BY <1>1, LexerFollowsFile, LexerMunches, PTL

----------------------------------------------------------------------------
(* The value of digits *)

\* The numbers, if 0 and the one behind each of them belong to S.
LEMMA NumbersFollow ==
  ASSUME NEW S, 0 \in S, \A n \in Nat : n \in S => n + 1 \in S
  PROVE  Nat \subseteq S
<1> SUFFICES ASSUME Nat \ S # {} PROVE FALSE
  OBVIOUS
<1>1. PICK m \in Nat \ S : \A n \in Nat \ S : << n, m >> \notin OpToRel(<, Nat)
  BY NatLessThanWellFounded, WFMin, Zenon
<1>2. m # 0
  OBVIOUS
<1>3. m - 1 \in Nat /\ m - 1 < m /\ m = (m - 1) + 1
  BY <1>2
<1>4. << m - 1, m >> \in OpToRel(<, Nat)
  BY <1>1, <1>3 DEF OpToRel
<1>5. m - 1 \in S
  BY <1>1, <1>3, <1>4, Zenon
<1> QED
  BY <1>1, <1>3, <1>5

\* f holds the values of what s begins with, up to the length n, as ValueIn defines them.
ValuesTo(f, s, b, n) ==
  f = [k \in 0 .. n |-> IF k = 0 THEN 0 ELSE f[k - 1] * b + DigitValue(s[k])]

LEMMA ValuesExist ==
  ASSUME NEW s, NEW b, NEW n \in Nat
  PROVE  \E f : ValuesTo(f, s, b, n)
<1> DEFINE N == {m \in Nat : \E f : ValuesTo(f, s, b, m)}
<1>1. 0 \in N
  <2>1. PICK f : f = [k \in 0 .. 0 |-> 0]
    OBVIOUS
  <2>2. ValuesTo(f, s, b, 0)
    BY <2>1 DEF ValuesTo
  <2> QED
    BY <2>2
<1>2. ASSUME NEW m \in Nat, m \in N PROVE m + 1 \in N
  <2>1. PICK f : ValuesTo(f, s, b, m)
    BY <1>2
  <2>2. PICK g : g = [k \in 0 .. m + 1 |->
                       IF k = m + 1 THEN f[m] * b + DigitValue(s[m + 1]) ELSE f[k]]
    OBVIOUS
  <2>3. ASSUME NEW k \in 0 .. m + 1
        PROVE  g[k] = IF k = 0 THEN 0 ELSE g[k - 1] * b + DigitValue(s[k])
    <3>1. CASE k = m + 1
      <4>1. k # 0 /\ k - 1 = m /\ m \in 0 .. m + 1 /\ m # m + 1
        BY <3>1
      <4>2. g[k - 1] = f[m]
        BY <2>2, <4>1
      <4> QED
        BY <2>2, <3>1, <4>1, <4>2
    <3>2. CASE k # m + 1 /\ k # 0
      <4>1. k \in 0 .. m /\ k - 1 \in 0 .. m + 1 /\ k - 1 # m + 1
        BY <3>2
      <4>2. f[k] = f[k - 1] * b + DigitValue(s[k])
        BY <2>1, <3>2, <4>1 DEF ValuesTo
      <4>3. g[k] = f[k] /\ g[k - 1] = f[k - 1]
        BY <2>2, <3>2, <4>1
      <4> QED
        BY <3>2, <4>2, <4>3
    <3>3. CASE k = 0
      <4>1. 0 \in 0 .. m /\ f[0] = 0 /\ 0 # m + 1
        BY <2>1 DEF ValuesTo
      <4> QED
        BY <2>2, <3>3, <4>1
    <3> QED
      BY <3>1, <3>2, <3>3
  <2>4. ValuesTo(g, s, b, m + 1)
    BY <2>2, <2>3 DEF ValuesTo
  <2> QED
    BY <2>4
<1> HIDE DEF N
<1>3. n \in N
  BY <1>1, <1>2, NumbersFollow
<1> QED
  BY <1>3 DEF N

\* They are those of every text that begins so.
LEMMA ValuesAgree ==
  ASSUME NEW s, NEW t, NEW b, NEW n \in Nat, NEW z \in Nat, n <= z, \A k \in 1 .. n : s[k] = t[k],
         NEW f, ValuesTo(f, s, b, n), NEW g, ValuesTo(g, t, b, z)
  PROVE  f[n] = g[n]
<1> DEFINE N == {m \in Nat : m <= n => f[m] = g[m]}
<1>1. 0 \in N
  <2>1. f[0] = 0 /\ g[0] = 0
    BY DEF ValuesTo
  <2> QED
    BY <2>1
<1>2. ASSUME NEW m \in Nat, m \in N PROVE m + 1 \in N
  <2> SUFFICES ASSUME m + 1 <= n PROVE f[m + 1] = g[m + 1]
    OBVIOUS
  <2>1. m + 1 \in 0 .. n /\ m + 1 \in 0 .. z /\ m + 1 # 0 /\ (m + 1) - 1 = m /\ m + 1 \in 1 .. n
    OBVIOUS
  <2>2. f[m + 1] = f[m] * b + DigitValue(s[m + 1]) /\ g[m + 1] = g[m] * b + DigitValue(t[m + 1])
    BY <2>1 DEF ValuesTo
  <2>3. f[m] = g[m] /\ s[m + 1] = t[m + 1]
    BY <1>2, <2>1
  <2> QED
    BY <2>2, <2>3
<1> HIDE DEF N
<1>3. n \in N
  BY <1>1, <1>2, NumbersFollow
<1> QED
  BY <1>3 DEF N

\* t is what s begins with, up to the length n.
Begins(t, s, n) == Len(t) = n /\ \A k \in 1 .. n : t[k] = s[k]

LEMMA ValueIsLast ==
  ASSUME NEW s, NEW b, NEW z \in Nat, NEW n \in Nat, n <= z, NEW t, Begins(t, s, n),
         NEW f, ValuesTo(f, s, b, z)
  PROVE  ValueIn(t, b) = f[n]
<1>1. ValueIn(t, b) = (CHOOSE g : ValuesTo(g, t, b, Len(t)))[Len(t)]
  BY DEF ValueIn, ValuesTo
<1>2. PICK g : g = CHOOSE h : ValuesTo(h, t, b, n)
  OBVIOUS
<1>3. ValuesTo(g, t, b, n)
  BY <1>2, ValuesExist
<1>4. g[n] = f[n]
  BY <1>3, ValuesAgree DEF Begins
<1> QED
  BY <1>1, <1>2, <1>4 DEF Begins

\* The value of a text and of a text with a digit more.
LEMMA ValueGoes ==
  ASSUME NEW s, Len(s) \in Nat \ {0}, NEW b, NEW t, Len(t) = Len(s) - 1,
         \A k \in 1 .. Len(t) : t[k] = s[k]
  PROVE  ValueIn(s, b) = ValueIn(t, b) * b + DigitValue(s[Len(s)])
<1>1. PICK n : n = Len(s)
  OBVIOUS
<1>2. n \in Nat /\ n - 1 \in Nat /\ n # 0 /\ n <= n /\ n - 1 <= n /\ n \in 0 .. n
  BY <1>1
<1>3. PICK f : ValuesTo(f, s, b, n)
  BY <1>2, ValuesExist
<1>4. ValueIn(s, b) = f[n]
  <2>1. Begins(s, s, n)
    BY <1>1 DEF Begins
  <2> QED
    BY <1>2, <1>3, <2>1, ValueIsLast
<1>5. ValueIn(t, b) = f[n - 1]
  <2>1. Begins(t, s, n - 1)
    BY <1>1, <1>2 DEF Begins
  <2> QED
    BY <1>2, <1>3, <2>1, ValueIsLast
<1>6. f[n] = f[n - 1] * b + DigitValue(s[n])
  BY <1>2, <1>3 DEF ValuesTo
<1> QED
  BY <1>1, <1>4, <1>5, <1>6

LEMMA ValueOfNone ==
  ASSUME NEW s, Len(s) = 0, NEW b
  PROVE  ValueIn(s, b) = 0
<1>1. PICK f : ValuesTo(f, s, b, 0)
  BY ValuesExist
<1>2. ValueIn(s, b) = f[0]
  <2>1. 0 <= 0 /\ Begins(s, s, 0)
    BY DEF Begins
  <2> QED
    BY <1>1, <2>1, ValueIsLast
<1> QED
  BY <1>1, <1>2 DEF ValuesTo

----------------------------------------------------------------------------
(* Wrapping *)

LEMMA MultipleIsFar ==
  ASSUME NEW m \in Nat \ {0}, NEW k \in Int, NEW p, p = m * k, -m < p, p < m
  PROVE  k = 0
<1>1. CASE k >= 1
  <2>1. PICK j \in Nat : j = k - 1
    BY <1>1
  <2>2. m * j >= 0 /\ m * k = m * j + m
    BY <2>1
  <2> QED
    BY <2>2
<1>2. CASE k <= -1
  <2>1. PICK j \in Nat : j = -1 - k
    BY <1>2
  <2>2. m * j >= 0 /\ m * k = -(m * j) - m
    BY <2>1
  <2> QED
    BY <2>2
<1> QED
  BY <1>1, <1>2

\* What is left of a division does not change with multiples of the divisor.
LEMMA RemainderStays ==
  ASSUME NEW m \in Nat \ {0}, NEW x \in Int, NEW y \in Int, NEW j \in Int, y = x + m * j
  PROVE  y % m = x % m
<1>1. PICK r, s, u, v : r = x % m /\ s = y % m /\ u = x \div m /\ v = y \div m
  OBVIOUS
<1>2. r \in 0 .. m - 1 /\ s \in 0 .. m - 1 /\ u \in Int /\ v \in Int
  BY <1>1
<1>3. x = m * u + r /\ y = m * v + s
  BY <1>1
<1>4. PICK k \in Int : k = (u + j) - v
  BY <1>2
<1>5. m * k = (m * u + m * j) - m * v
  BY <1>2, <1>4
<1>6. m * k = s - r
  BY <1>2, <1>3, <1>5
<1>7. -m < s - r /\ s - r < m
  BY <1>2
<1>8. k = 0
  BY <1>6, <1>7, MultipleIsFar
<1> QED
  BY <1>1, <1>2, <1>6, <1>8

\* It makes no difference whether a sum is wrapped on the way.
LEMMA WrapsOnTheWay ==
  ASSUME NEW x \in Int, NEW b \in Int, NEW d \in Int
  PROVE  Wrap(Wrap(x) * b + d) = Wrap(x * b + d)
<1>1. PICK m : m = Modulus
  OBVIOUS
<1>2. m \in Nat \ {0}
  BY <1>1, PowerDoubles, WordBitsAssumption DEF Modulus
<1>3. PICK u, r : u = x \div m /\ r = x % m
  OBVIOUS
<1>4. u \in Int /\ r \in Int /\ x = m * u + r
  BY <1>2, <1>3
<1>5. PICK w : w = Wrap(x)
  OBVIOUS
<1>6. w = r \/ w = r - m
  BY <1>1, <1>3, <1>5 DEF Wrap
<1>7. PICK q \in Int : w = x - m * q
  <2>1. CASE w = r
    BY <1>2, <1>4, <2>1
  <2>2. CASE w = r - m
    <3>1. u + 1 \in Int /\ m * (u + 1) = m * u + m
      BY <1>2, <1>4
    <3> QED
      BY <1>2, <1>4, <2>2, <3>1
  <2> QED
    BY <1>6, <2>1, <2>2
<1>8. PICK y, z : y = x * b + d /\ z = w * b + d
  OBVIOUS
<1>9. PICK j \in Int : j = -(q * b)
  OBVIOUS
<1>10. z = y + m * j /\ y \in Int /\ z \in Int
  <2>1. w * b = x * b - (m * q) * b
    BY <1>2, <1>7
  <2>2. (m * q) * b = m * (q * b)
    BY <1>2
  <2>3. m * j = -(m * (q * b))
    BY <1>2, <1>9
  <2>4. x * b \in Int /\ w \in Int /\ w * b \in Int /\ m * j \in Int
    BY <1>2, <1>7
  <2>5. PICK a, c, e : a = x * b /\ c = w * b /\ e = m * j
    OBVIOUS
  <2>6. a \in Int /\ c \in Int /\ e \in Int /\ c = a + e
    BY <2>1, <2>2, <2>3, <2>4, <2>5
  <2>7. y = a + d /\ z = c + d
    BY <1>8, <2>5
  <2>8. z = y + e /\ y \in Int /\ z \in Int
    BY <2>6, <2>7
  <2> QED
    BY <2>5, <2>8
<1>11. z % m = y % m
  BY <1>2, <1>10, RemainderStays
<1>12. Wrap(z) = Wrap(y)
  BY <1>1, <1>11 DEF Wrap
<1> QED
  BY <1>5, <1>8, <1>12

LEMMA ZeroIsAWord == Wrap(0) = 0
<1>1. PICK h, m : h = 2 ^ (WordBits - 1) /\ m = 2 ^ WordBits
  OBVIOUS
<1>2. h \in Nat \ {0} /\ m = 2 * h
  <2>1. WordBits - 1 \in Nat /\ (WordBits - 1) + 1 = WordBits
    BY WordBitsAssumption
  <2> QED
    BY <1>1, <2>1, PowerDoubles
<1>3. 0 % m = 0
  BY <1>2
<1> QED
  BY <1>1, <1>2, <1>3 DEF Wrap, Modulus, MaxWord

----------------------------------------------------------------------------
(* Escape sequences, by the places of the file *)

LEMMA SpanAt ==
  ASSUME NEW n \in Nat, NEW z \in Nat, NEW p \in Nat, n <= p, p < z, NEW k, k = p - n + 1
  PROVE  Span(n, z)[k] = At(p)
<1>1. k \in 1 .. z - n /\ n + k - 1 = p
  OBVIOUS
<1> QED
  BY <1>1 DEF Span

\* Of at most limit digits that can be read at p, before z, m are there.
Runs(p, b, limit, z, m) ==
  /\ m \in 0 .. limit /\ p + m <= z /\ \A i \in p .. p + m - 1 : IsDigitEx(At(i), b)
  /\ m = limit \/ p + m = z \/ ~ IsDigitEx(At(p + m), b)

LEMMA RunExists ==
  ASSUME NEW p \in Nat, NEW z \in Nat, p <= z, NEW b, NEW limit \in Nat
  PROVE  \E m : Runs(p, b, limit, z, m)
<1> DEFINE N == {l \in Nat : \E m : Runs(p, b, l, z, m)}
<1>1. 0 \in N
  <2>1. Runs(p, b, 0, z, 0)
    BY DEF Runs
  <2> QED
    BY <2>1
<1>2. ASSUME NEW l \in Nat, l \in N PROVE l + 1 \in N
  <2>1. PICK m : Runs(p, b, l, z, m)
    BY <1>2
  <2>2. m \in 0 .. l /\ p + m <= z /\ \A i \in p .. p + m - 1 : IsDigitEx(At(i), b)
    BY <2>1 DEF Runs
  <2>3. CASE p + m = z \/ ~ IsDigitEx(At(p + m), b)
    <3>1. Runs(p, b, l + 1, z, m)
      BY <2>2, <2>3 DEF Runs
    <3> QED
      BY <3>1
  <2>4. CASE p + m # z /\ IsDigitEx(At(p + m), b)
    <3>1. m = l
      BY <2>1, <2>4 DEF Runs
    <3>2. \A i \in p .. p + (m + 1) - 1 : IsDigitEx(At(i), b)
      <4> SUFFICES ASSUME NEW i \in p .. p + (m + 1) - 1 PROVE IsDigitEx(At(i), b)
        OBVIOUS
      <4>1. i = p + m \/ i \in p .. p + m - 1
        BY <2>2
      <4> QED
        BY <2>2, <2>4, <4>1
    <3>3. Runs(p, b, l + 1, z, m + 1)
      BY <2>2, <2>4, <3>1, <3>2 DEF Runs
    <3> QED
      BY <3>3
  <2> QED
    BY <2>3, <2>4
<1> HIDE DEF N
<1>3. limit \in N
  BY <1>1, <1>2, NumbersFollow
<1> QED
  BY <1>3 DEF N

\* They are the run that Run finds.
LEMMA RunIs ==
  ASSUME NEW n \in Nat, NEW z \in Nat, NEW p \in Nat, n <= p, p <= z, NEW b, NEW limit \in Nat,
         NEW m, Runs(p, b, limit, z, m), NEW k, k = p - n + 1
  PROVE  Run(Span(n, z), k, b, limit) = Span(p, p + m)
<1>1. /\ m \in 0 .. limit /\ m \in Nat /\ p + m <= z
      /\ \A i \in p .. p + m - 1 : IsDigitEx(At(i), b)
      /\ m = limit \/ p + m = z \/ ~ IsDigitEx(At(p + m), b)
  BY DEF Runs
<1>2. PICK s : s = Span(n, z)
  OBVIOUS
<1>3. Len(s) = z - n /\ \A i \in 1 .. z - n : s[i] = At(n + i - 1)
  <2>1. n <= z
    OBVIOUS
  <2>2. Len(Span(n, z)) = z - n
    BY <2>1, SpanIs
  <2>3. \A i \in 1 .. z - n : Span(n, z)[i] = At(n + i - 1)
    BY <2>1, SpanIs
  <2> QED
    BY <1>2, <2>2, <2>3
<1>4. k \in Nat \ {0} /\ n + k - 1 = p /\ k + m - 1 <= z - n /\ n + (k + m - 1) = p + m
  BY <1>1
<1>5. PICK F : F = {x \in 0 .. limit : Fits(s, k, b, x)}
  OBVIOUS
<1>6. IsLast(m, F)
  <2>1. Fits(s, k, b, m)
    <3>1. ASSUME NEW i \in k .. k + m - 1 PROVE IsDigitEx(s[i], b)
      <4>1. i \in 1 .. z - n /\ n + i - 1 \in p .. p + m - 1
        BY <1>1, <1>4
      <4> QED
        BY <1>1, <1>3, <4>1
    <3> QED
      BY <1>3, <1>4, <3>1 DEF Fits
  <2>2. ASSUME NEW x \in F, m < x PROVE FALSE
    <3>1. x \in 0 .. limit /\ k + x - 1 <= z - n /\ \A i \in k .. k + x - 1 : IsDigitEx(s[i], b)
      BY <1>3, <1>5 DEF Fits
    <3>2. m # limit /\ p + m # z /\ k + m \in k .. k + x - 1 /\ k + m \in 1 .. z - n
          /\ n + (k + m) - 1 = p + m
      BY <1>1, <1>4, <2>2, <3>1
    <3>3. s[k + m] = At(p + m)
      BY <1>3, <3>2
    <3> QED
      BY <1>1, <3>1, <3>2, <3>3
  <2>3. \A x \in F : x \in Nat
    BY <1>5
  <2>4. \A x \in F : x <= m
    BY <1>1, <2>2, <2>3
  <2> QED
    BY <1>1, <1>5, <2>1, <2>4 DEF IsLast
<1>7. Max(F) = m
  <2>1. F \in SUBSET Int
    BY <1>5
  <2> QED
    BY <1>6, <2>1, LastIsMax
<1>8. Run(s, k, b, limit) = SubSeq(s, k, k + m - 1)
  BY <1>5, <1>7 DEF Run
<1>9. SubSeq(s, k, k + m - 1) = Span(n + k - 1, n + (k + m - 1))
  <2>1. n <= z /\ k \in 1 .. z - n + 1 /\ k + m - 1 \in k - 1 .. z - n
    BY <1>1, <1>4
  <2> QED
    BY <1>2, <2>1, SpanCut
<1> QED
  BY <1>2, <1>4, <1>8, <1>9

\* A text whose last character is not a backslash.
EndsWell(n, z) == n < z /\ At(z - 1) # "\\"

\* A piece of a string at p: a character,
LEMMA PieceIsChar ==
  ASSUME NEW n \in Nat, NEW z \in Nat, NEW p \in Nat, n <= p, p < z, At(p) # "\\",
         NEW k, k = p - n + 1
  PROVE  Piece(Span(n, z), k) = [code |-> Code[At(p)], next |-> k + 1]
<1>1. Span(n, z)[k] = At(p)
  BY SpanAt
<1> QED
  BY <1>1 DEF Piece

\* or an escape sequence.
LEMMA PieceIsEscape ==
  ASSUME NEW n \in Nat, NEW z \in Nat, EndsWell(n, z), NEW p \in Nat, n <= p, p < z, At(p) = "\\",
         NEW k, k = p - n + 1
  PROVE  /\ p + 1 < z
         /\ \A m : At(p + 1) = "x" /\ Runs(p + 2, 16, 2, z, m)
              => Piece(Span(n, z), k)
                   = [code |-> ValueIn(Span(p + 2, p + 2 + m), 16), next |-> k + 2 + m]
         /\ \A m : At(p + 1) # "x" /\ Runs(p + 1, 8, 3, z, m) /\ m # 0
              => Piece(Span(n, z), k)
                   = [code |-> ValueIn(Span(p + 1, p + 1 + m), 8), next |-> k + 1 + m]
         /\ At(p + 1) # "x" /\ Runs(p + 1, 8, 3, z, 0)
              => Piece(Span(n, z), k) = [code |-> Escapes[At(p + 1)], next |-> k + 2]
<1>1. p + 1 < z /\ p # z - 1
  BY DEF EndsWell
<1>2. PICK s : s = Span(n, z)
  OBVIOUS
<1>3. s[k] = "\\" /\ s[k + 1] = At(p + 1)
  <2>1. p + 1 \in Nat /\ n <= p + 1 /\ p + 1 < z /\ k + 1 = (p + 1) - n + 1
    BY <1>1
  <2> QED
    BY <1>2, <2>1, SpanAt
<1>4. ASSUME NEW q \in Nat, p < q, q <= z, NEW m \in Nat, q + m <= z
      PROVE  Len(Span(q, q + m)) = m /\ (Span(q, q + m) = << >> <=> m = 0)
  <2>1. PICK r \in Nat : r = q + m
    OBVIOUS
  <2>2. q <= r /\ r - q = m /\ (q = r <=> m = 0)
    BY <2>1
  <2>3. Len(Span(q, r)) = r - q
    BY <2>2, SpanIs
  <2>4. Span(q, r) = << >> <=> q = r
    BY <2>2, SpanIs
  <2> QED
    BY <2>1, <2>2, <2>3, <2>4
<1>5. ASSUME NEW m, At(p + 1) = "x", Runs(p + 2, 16, 2, z, m)
      PROVE  Piece(s, k) = [code |-> ValueIn(Span(p + 2, p + 2 + m), 16), next |-> k + 2 + m]
  <2>1. p + 2 \in Nat /\ n <= p + 2 /\ p + 2 <= z /\ k + 2 = (p + 2) - n + 1 /\ 2 \in Nat
    BY <1>1
  <2>2. Run(s, k + 2, 16, 2) = Span(p + 2, p + 2 + m)
    BY <1>2, <1>5, <2>1, RunIs
  <2>3. m \in Nat /\ p + 2 + m <= z
    BY <1>5 DEF Runs
  <2>4. Len(Span(p + 2, p + 2 + m)) = m
    BY <1>4, <2>1, <2>3
  <2> QED
    BY <1>3, <1>5, <2>2, <2>4 DEF Piece
<1>6. ASSUME NEW m, At(p + 1) # "x", Runs(p + 1, 8, 3, z, m)
      PROVE  /\ m # 0 => Piece(s, k) = [code |-> ValueIn(Span(p + 1, p + 1 + m), 8), next |-> k + 1 + m]
             /\ m = 0 => Piece(s, k) = [code |-> Escapes[At(p + 1)], next |-> k + 2]
  <2>1. p + 1 \in Nat /\ n <= p + 1 /\ p + 1 <= z /\ k + 1 = (p + 1) - n + 1 /\ 3 \in Nat
    BY <1>1
  <2>2. Run(s, k + 1, 8, 3) = Span(p + 1, p + 1 + m)
    BY <1>2, <1>6, <2>1, RunIs
  <2>3. m \in Nat /\ p + 1 + m <= z
    BY <1>6 DEF Runs
  <2>4. Len(Span(p + 1, p + 1 + m)) = m /\ (Span(p + 1, p + 1 + m) = << >> <=> m = 0)
    BY <1>4, <2>1, <2>3
  <2> QED
    BY <1>3, <1>6, <2>2, <2>4 DEF Piece
<1> QED
  BY <1>1, <1>2, <1>5, <1>6

\* Behind a piece is another place of the text, or its end.
LEMMA PieceGoesOn ==
  ASSUME NEW n \in Nat, NEW z \in Nat, EndsWell(n, z), NEW k \in 1 .. z - n
  PROVE  Piece(Span(n, z), k).next \in k + 1 .. z - n + 1
<1>1. PICK p \in Nat : p = n + k - 1
  OBVIOUS
<1>2. n <= p /\ p < z /\ k = p - n + 1
  BY <1>1
<1>3. CASE At(p) # "\\"
  BY <1>2, <1>3, PieceIsChar
<1>4. CASE At(p) = "\\"
  <2>1. p + 1 < z
    BY <1>2, <1>4, PieceIsEscape
  <2>i. p + 2 \in Nat /\ p + 2 <= z /\ p + 1 \in Nat /\ p + 1 <= z
    BY <2>1
  <2>2. PICK m : Runs(p + 2, 16, 2, z, m)
    BY <2>i, RunExists
  <2>3. PICK l : Runs(p + 1, 8, 3, z, l)
    BY <2>i, RunExists
  <2>4. m \in Nat /\ p + 2 + m <= z /\ l \in Nat /\ p + 1 + l <= z
    BY <2>2, <2>3 DEF Runs
  <2>5. PICK x : x = Piece(Span(n, z), k)
    OBVIOUS
  <2>6. CASE At(p + 1) = "x"
    <3>1. x = [code |-> ValueIn(Span(p + 2, p + 2 + m), 16), next |-> k + 2 + m]
      BY <1>2, <1>4, <2>2, <2>5, <2>6, PieceIsEscape
    <3> QED
      BY <1>2, <2>4, <2>5, <3>1
  <2>7. CASE At(p + 1) # "x" /\ l # 0
    <3>1. x = [code |-> ValueIn(Span(p + 1, p + 1 + l), 8), next |-> k + 1 + l]
      BY <1>2, <1>4, <2>3, <2>5, <2>7, PieceIsEscape
    <3> QED
      BY <1>2, <2>4, <2>5, <3>1
  <2>8. CASE At(p + 1) # "x" /\ l = 0
    <3>1. x = [code |-> Escapes[At(p + 1)], next |-> k + 2]
      BY <1>2, <1>4, <2>3, <2>5, <2>8, PieceIsEscape
    <3> QED
      BY <1>2, <2>1, <2>5, <3>1
  <2> QED
    BY <2>6, <2>7, <2>8
<1> QED
  BY <1>3, <1>4

----------------------------------------------------------------------------
(* The codes of a text *)

Sides == {"inside", "outside"}

\* f holds the codes of what s ends with, from the place a on, as Meaning defines them.
CodesFrom(f, s, q, a) ==
  f = [k \in a .. Len(s) + 1 |->
        [side \in Sides |->
           IF k > Len(s) THEN << >>
           ELSE IF s[k] = q THEN f[k + 1][Across(side)]
           ELSE IF side = "outside" THEN f[k + 1]["outside"]
           ELSE << Piece(s, k).code >> \o f[Piece(s, k).next]["inside"]]]

\* No piece of s goes beyond its end.
Pieced(s) ==
  Len(s) \in Nat /\ \A k \in 1 .. Len(s) : Piece(s, k).next \in k + 1 .. Len(s) + 1

\* What f holds for the place k of a text of the length l.
CodesAt(f, s, q, k, l) ==
  /\ k = l + 1 => \A side \in Sides : f[k][side] = << >>
  /\ k # l + 1 /\ s[k] = q => \A side \in Sides : f[k][side] = f[k + 1][Across(side)]
  /\ k # l + 1 /\ s[k] # q
       => /\ f[k]["outside"] = f[k + 1]["outside"]
          /\ f[k]["inside"] = << Piece(s, k).code >> \o f[Piece(s, k).next]["inside"]

LEMMA CodesAre ==
  ASSUME NEW s, NEW q, NEW l \in Nat, l = Len(s), NEW f, CodesFrom(f, s, q, 1), NEW k \in 1 .. l + 1
  PROVE  CodesAt(f, s, q, k, l)
<1>2. \A side \in Sides :
        f[k][side] = IF k > Len(s) THEN << >>
                     ELSE IF s[k] = q THEN f[k + 1][Across(side)]
                     ELSE IF side = "outside" THEN f[k + 1]["outside"]
                     ELSE << Piece(s, k).code >> \o f[Piece(s, k).next]["inside"]
  BY DEF CodesFrom
<1>3. "inside" \in Sides /\ "outside" \in Sides /\ "inside" # "outside"
  BY DEF Sides
<1>4. k > Len(s) <=> k = l + 1
  OBVIOUS
<1> QED
  BY <1>2, <1>3, <1>4 DEF CodesAt

LEMMA CodesExist ==
  ASSUME NEW s, Pieced(s), NEW q
  PROVE  \E f : CodesFrom(f, s, q, 1)
<1>1. PICK l : l = Len(s)
  OBVIOUS
<1>2. l \in Nat /\ \A k \in 1 .. l : Piece(s, k).next \in k + 1 .. l + 1
  BY <1>1 DEF Pieced
<1> DEFINE N == {m \in Nat : m <= l => \E f : CodesFrom(f, s, q, l + 1 - m)}
<1>3. 0 \in N
  <2>1. PICK f : f = [k \in l + 1 .. l + 1 |-> [side \in Sides |-> << >>]]
    OBVIOUS
  <2>2. CodesFrom(f, s, q, l + 1)
    BY <1>1, <1>2, <2>1 DEF CodesFrom
  <2>3. l + 1 - 0 = l + 1
    BY <1>2
  <2> QED
    BY <2>2, <2>3
<1>4. ASSUME NEW m \in Nat, m \in N PROVE m + 1 \in N
  <2> SUFFICES ASSUME m + 1 <= l PROVE \E f : CodesFrom(f, s, q, l + 1 - (m + 1))
    OBVIOUS
  <2>1. PICK a : a = l + 1 - m
    OBVIOUS
  <2>2. a \in 2 .. l + 1 /\ l + 1 - (m + 1) = a - 1 /\ m <= l
    BY <1>2, <2>1
  <2>3. PICK f : CodesFrom(f, s, q, a)
    BY <1>4, <2>1, <2>2
  <2>4. PICK c, i : c = Piece(s, a - 1).code /\ i = Piece(s, a - 1).next
    OBVIOUS
  <2>5. i \in a .. l + 1
    BY <1>2, <2>2, <2>4
  <2>6. PICK h : h = [side \in Sides |->
                       IF s[a - 1] = q THEN f[a][Across(side)]
                       ELSE IF side = "outside" THEN f[a]["outside"]
                       ELSE << c >> \o f[i]["inside"]]
    OBVIOUS
  <2>7. PICK g : g = [k \in a - 1 .. l + 1 |-> IF k = a - 1 THEN h ELSE f[k]]
    OBVIOUS
  <2>8. \A k \in a .. l + 1 : g[k] = f[k]
    BY <2>2, <2>7
  <2>9. ASSUME NEW k \in a - 1 .. l + 1
        PROVE  g[k] = [side \in Sides |->
                        IF k > l THEN << >>
                        ELSE IF s[k] = q THEN g[k + 1][Across(side)]
                        ELSE IF side = "outside" THEN g[k + 1]["outside"]
                        ELSE << Piece(s, k).code >> \o g[Piece(s, k).next]["inside"]]
    <3>1. CASE k = a - 1
      <4>1. g[k] = h /\ ~ (k > l) /\ k + 1 = a /\ g[k + 1] = f[a] /\ g[i] = f[i]
        BY <1>2, <2>2, <2>5, <2>7, <2>8, <3>1
      <4> QED
        BY <2>4, <2>6, <3>1, <4>1
    <3>2. CASE k # a - 1
      <4>1. k \in a .. l + 1 /\ g[k] = f[k]
        BY <2>2, <2>8, <3>2
      <4>2. f[k] = [side \in Sides |->
                     IF k > l THEN << >>
                     ELSE IF s[k] = q THEN f[k + 1][Across(side)]
                     ELSE IF side = "outside" THEN f[k + 1]["outside"]
                     ELSE << Piece(s, k).code >> \o f[Piece(s, k).next]["inside"]]
        BY <1>1, <2>3, <4>1 DEF CodesFrom
      <4>3. ~ (k > l) => g[k + 1] = f[k + 1] /\ g[Piece(s, k).next] = f[Piece(s, k).next]
        <5> SUFFICES ASSUME ~ (k > l)
                     PROVE  g[k + 1] = f[k + 1] /\ g[Piece(s, k).next] = f[Piece(s, k).next]
          OBVIOUS
        <5>1. k \in 1 .. l /\ k + 1 \in a .. l + 1
          BY <1>2, <2>2, <4>1
        <5>2. PICK j : j = Piece(s, k).next
          OBVIOUS
        <5>3. j \in k + 1 .. l + 1
          BY <1>2, <5>1, <5>2
        <5>4. j \in a .. l + 1
          BY <2>2, <4>1, <5>3
        <5> QED
          BY <2>8, <5>1, <5>2, <5>4
      <4> QED
        BY <4>1, <4>2, <4>3
    <3> QED
      BY <3>1, <3>2
  <2>10. CodesFrom(g, s, q, a - 1)
    <3>1. g = [k \in a - 1 .. l + 1 |->
                [side \in Sides |->
                  IF k > l THEN << >>
                  ELSE IF s[k] = q THEN g[k + 1][Across(side)]
                  ELSE IF side = "outside" THEN g[k + 1]["outside"]
                  ELSE << Piece(s, k).code >> \o g[Piece(s, k).next]["inside"]]]
      <4>1. g = [k \in a - 1 .. l + 1 |-> g[k]]
        BY <2>7
      <4> QED
        BY <2>9, <4>1, Zenon
    <3> QED
      BY <1>1, <3>1, Zenon DEF CodesFrom
  <2> QED
    BY <2>2, <2>10
<1> HIDE DEF N
<1>5. l \in N
  BY <1>2, <1>3, <1>4, NumbersFollow
<1>6. \E f : CodesFrom(f, s, q, l + 1 - l)
  BY <1>2, <1>5 DEF N
<1>7. l + 1 - l = 1
  BY <1>2
<1> QED
  BY <1>6, <1>7

\* Codes are sequences.
LEMMA CodesAreSeqs ==
  ASSUME NEW s, Pieced(s), NEW q, NEW f, CodesFrom(f, s, q, 1)
  PROVE  \E V : \A k \in 1 .. Len(s) + 1 : \A side \in Sides : f[k][side] \in Seq(V)
<1>1. PICK l : l = Len(s)
  OBVIOUS
<1>2. l \in Nat /\ \A k \in 1 .. l : Piece(s, k).next \in k + 1 .. l + 1
  BY <1>1 DEF Pieced
<1>3. PICK V : V = {Piece(s, k).code : k \in 1 .. l}
  OBVIOUS
<1>4. \A k \in 1 .. l : Piece(s, k).code \in V
  BY <1>3
<1>5. /\ "inside" \in Sides /\ "outside" \in Sides /\ \A side \in Sides : Across(side) \in Sides
      /\ \A side \in Sides : side = "inside" \/ side = "outside"
  BY DEF Sides, Across
<1> DEFINE N == {m \in Nat : \A k \in 1 .. l + 1 :
                               l + 1 - m <= k => \A side \in Sides : f[k][side] \in Seq(V)}
<1>f. ASSUME NEW k \in 1 .. l + 1 PROVE CodesAt(f, s, q, k, l)
  BY <1>1, <1>2, CodesAre
<1>6. 0 \in N
  <2>1. \A k \in 1 .. l + 1 : l + 1 - 0 <= k => k = Len(s) + 1
    BY <1>1, <1>2
  <2>2. l + 1 \in 1 .. l + 1 /\ 1 \in Nat
    BY <1>2
  <2>3. \A side \in Sides : f[l + 1][side] = << >>
    BY <2>2, <1>f DEF CodesAt
  <2>4. << >> \in Seq(V)
    OBVIOUS
  <2> QED
    BY <1>1, <2>1, <2>3, <2>4
<1>7. ASSUME NEW m \in Nat, m \in N PROVE m + 1 \in N
  <2> SUFFICES ASSUME NEW k \in 1 .. l + 1, l + 1 - (m + 1) <= k, NEW side \in Sides
               PROVE  f[k][side] \in Seq(V)
    OBVIOUS
  <2>1. \A j \in 1 .. l + 1 : l + 1 - m <= j => \A r \in Sides : f[j][r] \in Seq(V)
    BY <1>7
  <2>2. CASE k = l + 1
    <3>1. f[k][side] = << >>
      BY <1>1, <2>2, <1>f DEF CodesAt
    <3> QED
      BY <3>1
  <2>3. CASE k # l + 1
    <3>1. k \in 1 .. l /\ k + 1 \in 1 .. l + 1 /\ l + 1 - m <= k + 1
      BY <1>2, <2>3
    <3>2. PICK c, j : c = Piece(s, k).code /\ j = Piece(s, k).next
      OBVIOUS
    <3>3. j \in 1 .. l + 1 /\ l + 1 - m <= j /\ c \in V
      BY <1>2, <1>4, <3>1, <3>2
    <3>4. \A r \in Sides : f[k + 1][r] \in Seq(V) /\ f[j][r] \in Seq(V)
      BY <2>1, <3>1, <3>3
    <3>5. CASE s[k] = q
      <4>1. f[k][side] = f[k + 1][Across(side)]
        BY <1>1, <2>3, <3>5, <1>f DEF CodesAt
      <4> QED
        BY <1>5, <3>4, <4>1
    <3>6. CASE s[k] # q
      <4>1. f[k]["outside"] = f[k + 1]["outside"] /\ f[k]["inside"] = << c >> \o f[j]["inside"]
        BY <1>1, <2>3, <3>2, <3>6, <1>f DEF CodesAt
      <4>2. << c >> \o f[j]["inside"] \in Seq(V)
        <5>1. << c >> \in Seq(V) /\ f[j]["inside"] \in Seq(V)
          BY <1>5, <3>3, <3>4
        <5> QED
          BY <5>1
      <4> QED
        BY <1>5, <3>4, <4>1, <4>2
    <3> QED
      BY <3>5, <3>6
  <2> QED
    BY <2>2, <2>3
<1> HIDE DEF N
<1>8. l \in N
  BY <1>2, <1>6, <1>7, NumbersFollow
<1>9. \A k \in 1 .. l + 1 : \A side \in Sides : f[k][side] \in Seq(V)
  BY <1>2, <1>8 DEF N
<1> QED
  BY <1>1, <1>9

\* buf is what the text from n to z means up to the place p, of which it is on the side.
CodesOf(s, q) == CHOOSE f : CodesFrom(f, s, q, 1)

Behind(n, z, q, p, side) == CodesOf(Span(n, z), q)[p - n + 1][side]

IsText(buf) == \E V : buf \in Seq(V)

MeansTo(n, z, q, buf, p, side) ==
  IsText(buf) /\ Meaning(Span(n, z), q) = buf \o Behind(n, z, q, p, side)

\* What is behind a place.
BehindIs(n, z, q, p) ==
  /\ \A side \in Sides : IsText(Behind(n, z, q, p, side))
  /\ p = z => \A side \in Sides : Behind(n, z, q, p, side) = << >>
  /\ p # z /\ At(p) = q => \A side \in Sides : Behind(n, z, q, p, side) = Behind(n, z, q, p + 1, Across(side))
  /\ p # z /\ At(p) # q
       => /\ Behind(n, z, q, p, "outside") = Behind(n, z, q, p + 1, "outside")
          /\ \A c, r : /\ r \in Nat
                       /\ Piece(Span(n, z), p - n + 1) = [code |-> c, next |-> r - n + 1]
                       => Behind(n, z, q, p, "inside") = << c >> \o Behind(n, z, q, r, "inside")

LEMMA TextIsRead ==
  ASSUME NEW n \in Nat, NEW z \in Nat, EndsWell(n, z), NEW q, NEW p \in Nat, n <= p, p <= z
  PROVE  BehindIs(n, z, q, p) /\ Meaning(Span(n, z), q) = Behind(n, z, q, n, "outside")
<1>1. PICK s, l : s = Span(n, z) /\ l = z - n
  OBVIOUS
<1>2. l \in Nat /\ Len(s) = l
  <2>1. n <= z
    OBVIOUS
  <2>2. Len(Span(n, z)) = z - n
    BY <2>1, SpanIs
  <2> QED
    BY <1>1, <2>1, <2>2
<1>3. Pieced(s)
  <2>1. \A k \in 1 .. z - n : Piece(Span(n, z), k).next \in k + 1 .. z - n + 1
    BY PieceGoesOn
  <2> QED
    BY <1>1, <1>2, <2>1 DEF Pieced
<1>4. PICK f : f = CodesOf(s, q)
  OBVIOUS
<1>5. CodesFrom(f, s, q, 1)
  BY <1>3, <1>4, CodesExist DEF CodesOf
<1>6. PICK V : \A k \in 1 .. Len(s) + 1 : \A side \in Sides : f[k][side] \in Seq(V)
  BY <1>3, <1>5, CodesAreSeqs
<1>7. \A r, side : Behind(n, z, q, r, side) = f[r - n + 1][side]
  BY <1>1, <1>4 DEF Behind
<1>8. PICK k : k = p - n + 1
  OBVIOUS
<1>9. k \in 1 .. l + 1 /\ (k = l + 1 <=> p = z) /\ k + 1 = (p + 1) - n + 1
  BY <1>1, <1>8
<1>10. CodesAt(f, s, q, k, l)
  BY <1>2, <1>5, <1>9, CodesAre
<1>11. p # z => s[k] = At(p)
  BY <1>1, <1>8, SpanAt
<1>12. Meaning(Span(n, z), q) = Behind(n, z, q, n, "outside")
  <2>1. Meaning(s, q) = (CHOOSE g : CodesFrom(g, s, q, 1))[1]["outside"]
    BY Zenon DEF Meaning, CodesFrom, Sides
  <2>2. n - n + 1 = 1
    OBVIOUS
  <2>3. Meaning(s, q) = f[1]["outside"]
    BY <1>4, <2>1, Zenon DEF CodesOf
  <2>4. Behind(n, z, q, n, "outside") = f[n - n + 1]["outside"]
    BY <1>7
  <2> QED
    BY <1>1, <2>2, <2>3, <2>4
<1>13. \A side \in Sides : IsText(Behind(n, z, q, p, side))
  <2>1. \A side \in Sides : f[k][side] \in Seq(V)
    BY <1>2, <1>6, <1>9
  <2> QED
    BY <1>7, <1>8, <2>1 DEF IsText
<1>14. p = z => \A side \in Sides : Behind(n, z, q, p, side) = << >>
  BY <1>7, <1>8, <1>9, <1>10 DEF CodesAt
<1>15. ASSUME p # z, At(p) = q
       PROVE  \A side \in Sides : Behind(n, z, q, p, side) = Behind(n, z, q, p + 1, Across(side))
  <2>1. \A side \in Sides : f[k][side] = f[k + 1][Across(side)]
    BY <1>9, <1>10, <1>11, <1>15 DEF CodesAt
  <2> QED
    BY <1>7, <1>8, <1>9, <2>1
<1>16. ASSUME p # z, At(p) # q
       PROVE  /\ Behind(n, z, q, p, "outside") = Behind(n, z, q, p + 1, "outside")
              /\ \A c, r : /\ r \in Nat
                           /\ Piece(Span(n, z), p - n + 1) = [code |-> c, next |-> r - n + 1]
                           => Behind(n, z, q, p, "inside") = << c >> \o Behind(n, z, q, r, "inside")
  <2>1. /\ f[k]["outside"] = f[k + 1]["outside"]
        /\ f[k]["inside"] = << Piece(s, k).code >> \o f[Piece(s, k).next]["inside"]
    BY <1>9, <1>10, <1>11, <1>16 DEF CodesAt
  <2>2. Behind(n, z, q, p, "outside") = Behind(n, z, q, p + 1, "outside")
    BY <1>7, <1>8, <1>9, <2>1
  <2>3. ASSUME NEW c, NEW r \in Nat, Piece(s, k) = [code |-> c, next |-> r - n + 1]
        PROVE  Behind(n, z, q, p, "inside") = << c >> \o Behind(n, z, q, r, "inside")
    <3>1. Piece(s, k).code = c /\ Piece(s, k).next = r - n + 1
      BY <2>3
    <3>2. f[k]["inside"] = << c >> \o f[r - n + 1]["inside"]
      BY <2>1, <3>1
    <3> QED
      BY <1>7, <1>8, <3>2
  <2> QED
    BY <1>1, <1>8, <2>2, <2>3
<1> QED
  BY <1>12, <1>13, <1>14, <1>15, <1>16 DEF BehindIs

\* Sequences one behind the other.
LEMMA OneMore ==
  ASSUME NEW buf, IsText(buf), NEW c, NEW t, IsText(t)
  PROVE  buf \o (<< c >> \o t) = Append(buf, c) \o t /\ IsText(Append(buf, c))
<1>1. PICK U : buf \in Seq(U)
  BY DEF IsText
<1>2. PICK V : t \in Seq(V)
  BY DEF IsText
<1>3. PICK W : W = U \cup V \cup {c}
  OBVIOUS
<1>4. buf \in Seq(W) /\ t \in Seq(W) /\ c \in W
  BY <1>1, <1>2, <1>3
<1>5. Append(buf, c) \in Seq(W) /\ << c >> \in Seq(W) /\ Append(buf, c) = buf \o << c >>
  BY <1>4
<1>6. (buf \o << c >>) \o t = buf \o (<< c >> \o t)
  BY <1>4, <1>5, ConcatAssociative
<1> QED
  BY <1>5, <1>6 DEF IsText

\* What is known of a string goes on: it begins with nothing read,
LEMMA TextBegins ==
  ASSUME NEW n \in Nat, NEW z \in Nat, EndsWell(n, z), NEW q
  PROVE  MeansTo(n, z, q, << >>, n, "outside")
<1>1. n <= n /\ n <= z
  BY DEF EndsWell
<1>2. BehindIs(n, z, q, n)
  BY <1>1, TextIsRead
<1>3. Meaning(Span(n, z), q) = Behind(n, z, q, n, "outside")
  BY <1>1, TextIsRead
<1>4. PICK t : t = Behind(n, z, q, n, "outside")
  OBVIOUS
<1>5. IsText(t)
  BY <1>2, <1>4 DEF BehindIs, Sides
<1>6. PICK V : t \in Seq(V)
  BY <1>5 DEF IsText
<1>7. << >> \o t = t
  BY <1>6
<1>8. IsText(<< >>)
  <2>1. << >> \in Seq({})
    OBVIOUS
  <2> QED
    BY <2>1 DEF IsText
<1> QED
  BY <1>3, <1>4, <1>7, <1>8 DEF MeansTo

\* over a quote it goes to the other side,
LEMMA TextCrosses ==
  ASSUME NEW n \in Nat, NEW z \in Nat, EndsWell(n, z), NEW q, NEW p \in Nat, n <= p, p < z,
         NEW buf, NEW side \in Sides, At(p) = q, MeansTo(n, z, q, buf, p, side)
  PROVE  MeansTo(n, z, q, buf, p + 1, Across(side))
<1>1. p <= z /\ p # z
  OBVIOUS
<1>2. BehindIs(n, z, q, p)
  BY <1>1, TextIsRead
<1>3. Behind(n, z, q, p, side) = Behind(n, z, q, p + 1, Across(side))
  BY <1>1, <1>2, Zenon DEF BehindIs
<1> QED
  BY <1>3, Zenon DEF MeansTo

\* outside nothing else counts,
LEMMA TextSkips ==
  ASSUME NEW n \in Nat, NEW z \in Nat, EndsWell(n, z), NEW q, NEW p \in Nat, n <= p, p < z,
         NEW buf, At(p) # q, MeansTo(n, z, q, buf, p, "outside")
  PROVE  MeansTo(n, z, q, buf, p + 1, "outside")
<1>1. p <= z /\ p # z
  OBVIOUS
<1>2. BehindIs(n, z, q, p)
  BY <1>1, TextIsRead
<1>3. Behind(n, z, q, p, "outside") = Behind(n, z, q, p + 1, "outside")
  BY <1>1, <1>2, Zenon DEF BehindIs
<1> QED
  BY <1>3, Zenon DEF MeansTo

\* inside a piece adds its code,
LEMMA TextTakes ==
  ASSUME NEW n \in Nat, NEW z \in Nat, EndsWell(n, z), NEW q, NEW p \in Nat, n <= p, p < z,
         NEW buf, At(p) # q, MeansTo(n, z, q, buf, p, "inside"),
         NEW r \in Nat, n <= r, r <= z, NEW c,
         Piece(Span(n, z), p - n + 1) = [code |-> c, next |-> r - n + 1]
  PROVE  MeansTo(n, z, q, Append(buf, c), r, "inside")
<1>1. p <= z /\ p # z
  OBVIOUS
<1>2. BehindIs(n, z, q, p)
  BY <1>1, TextIsRead
<1>3. Behind(n, z, q, p, "inside") = << c >> \o Behind(n, z, q, r, "inside")
  BY <1>1, <1>2, Zenon DEF BehindIs
<1>4. BehindIs(n, z, q, r)
  BY TextIsRead
<1>5. PICK t : t = Behind(n, z, q, r, "inside")
  OBVIOUS
<1>6. IsText(t)
  BY <1>4, <1>5 DEF BehindIs, Sides
<1>7. IsText(buf) /\ Meaning(Span(n, z), q) = buf \o (<< c >> \o t)
  BY <1>3, <1>5, Zenon DEF MeansTo
<1>8. buf \o (<< c >> \o t) = Append(buf, c) \o t /\ IsText(Append(buf, c))
  BY <1>6, <1>7, OneMore
<1> QED
  BY <1>5, <1>7, <1>8, Zenon DEF MeansTo

\* and at its end all of it has been read.
LEMMA TextEnds ==
  ASSUME NEW n \in Nat, NEW z \in Nat, EndsWell(n, z), NEW q, NEW buf, NEW side \in Sides,
         MeansTo(n, z, q, buf, z, side)
  PROVE  Meaning(Span(n, z), q) = buf
<1>1. n <= z /\ z <= z
  BY DEF EndsWell
<1>2. BehindIs(n, z, q, z)
  BY <1>1, TextIsRead
<1>3. Behind(n, z, q, z, side) = << >>
  BY <1>2, Zenon DEF BehindIs
<1>4. PICK V : buf \in Seq(V)
  BY DEF MeansTo, IsText
<1>5. buf \o << >> = buf
  BY <1>4
<1> QED
  BY <1>3, <1>5, Zenon DEF MeansTo

----------------------------------------------------------------------------
(* The value of an integer constant *)

LEMMA SpanValueGoes ==
  ASSUME NEW f \in Nat, NEW e \in Nat, f <= e, NEW b
  PROVE  ValueIn(Span(f, e + 1), b) = ValueIn(Span(f, e), b) * b + DigitValue(At(e))
<1>1. PICK s, t, l : s = Span(f, e + 1) /\ t = Span(f, e) /\ l = e - f
  OBVIOUS
<1>2. l \in Nat /\ l + 1 \in Nat \ {0} /\ l = (l + 1) - 1 /\ e + 1 \in Nat /\ (e + 1) - f = l + 1
      /\ f <= e + 1 /\ f + (l + 1) - 1 = e /\ l + 1 \in 1 .. l + 1
  BY <1>1
<1>3. Len(s) = l + 1
  <2>1. Len(Span(f, e + 1)) = (e + 1) - f
    BY <1>2, SpanIs
  <2> QED
    BY <1>1, <1>2, <2>1
<1>4. Len(t) = l
  <2>1. Len(Span(f, e)) = e - f
    BY SpanIs
  <2> QED
    BY <1>1, <2>1
<1>5. \A k \in 1 .. l + 1 : s[k] = At(f + k - 1)
  BY <1>1, <1>2 DEF Span
<1>6. \A k \in 1 .. l : t[k] = s[k]
  BY <1>1, <1>5 DEF Span
<1>7. s[l + 1] = At(e)
  BY <1>2, <1>5
<1>8. ValueIn(s, b) = ValueIn(t, b) * b + DigitValue(s[Len(s)])
  BY <1>2, <1>3, <1>4, <1>6, ValueGoes
<1> QED
  BY <1>1, <1>3, <1>7, <1>8

LEMMA SpanValueOfNone ==
  ASSUME NEW f \in Nat, NEW b
  PROVE  ValueIn(Span(f, f), b) = 0
<1>1. f <= f /\ f - f = 0
  OBVIOUS
<1>2. Len(Span(f, f)) = f - f
  BY <1>1, SpanIs
<1>3. Len(Span(f, f)) = 0
  BY <1>1, <1>2
<1> QED
  BY <1>3, ValueOfNone

LEMMA DigitsHaveValues ==
  ASSUME NEW b \in {8, 10, 16}, NEW c, IsDigitEx(c, b)
  PROVE  DigitValue(c) \in Int
<1>1. IsDigit(c) \/ IsHexdigit(c) \/ IsOctdigit(c)
  BY DEF IsDigitEx
<1> QED
  BY <1>1, CharactersDiffer, DigitValueIsInt

LEMMA ZeroHasNoValue == DigitValue("0") = 0
<1>1. PICK m : m = CHOOSE k \in 1 .. 10 : "0" = Decimal[k]
  OBVIOUS
<1>2. 1 \in 1 .. 10 /\ Decimal[1] = "0" /\ \A k \in 1 .. 10 : Decimal[k] = "0" => k = 1
  BY DEF Decimal
<1>3. m = 1
  BY <1>1, <1>2
<1>4. IsDigit("0")
  BY CharactersDiffer
<1> QED
  BY <1>1, <1>3, <1>4 DEF DigitValue

\* The sum so far of the digits in base b of the constant that begins at n.
SumFrom(n, b) == IF b = 16 THEN n + 2 ELSE n

SumKnown(n, e, b, r) ==
  /\ SumFrom(n, b) <= e /\ ValueIn(Span(SumFrom(n, b), e), b) \in Int
  /\ r = Wrap(ValueIn(Span(SumFrom(n, b), e), b))

LEMMA SumBegins ==
  ASSUME NEW n \in Nat, NEW b, NEW p,
         b = IF At(n) # "0" THEN 10
             ELSE IF At(n + 1) \in {"x", "X"} THEN 16
             ELSE IF IsDigit(At(n + 1)) THEN 8 ELSE 10,
         p = IF b = 16 THEN n + 2 ELSE IF b = 8 THEN n + 1 ELSE n
  PROVE  SumKnown(n, p, b, 0)
<1>1. CASE b = 8
  <2>1. At(n) = "0" /\ p = n + 1 /\ SumFrom(n, b) = n
    BY <1>1 DEF SumFrom
  <2>2. n <= n
    OBVIOUS
  <2>3. ValueIn(Span(n, n + 1), b) = ValueIn(Span(n, n), b) * b + DigitValue(At(n))
    BY <2>2, SpanValueGoes
  <2>4. ValueIn(Span(n, n), b) = 0
    BY SpanValueOfNone
  <2>5. ValueIn(Span(n, n + 1), b) = 0
    BY <1>1, <2>1, <2>3, <2>4, ZeroHasNoValue
  <2> QED
    BY <2>1, <2>5, ZeroIsAWord DEF SumKnown
<1>2. CASE b # 8
  <2>1. SumFrom(n, b) = p /\ p \in Nat
    BY <1>2 DEF SumFrom
  <2>2. ValueIn(Span(p, p), b) = 0
    BY <2>1, SpanValueOfNone
  <2> QED
    BY <2>1, <2>2, ZeroIsAWord DEF SumKnown
<1> QED
  BY <1>1, <1>2

LEMMA SumGoes ==
  ASSUME NEW n \in Nat, NEW e \in Nat, NEW b \in {8, 10, 16}, IsDigitEx(At(e), b),
         NEW r, SumKnown(n, e, b, r)
  PROVE  SumKnown(n, e + 1, b, Wrap(r * b + DigitValue(At(e))))
<1>1. PICK f, v, w, d : /\ f = SumFrom(n, b) /\ v = ValueIn(Span(f, e), b)
                        /\ w = ValueIn(Span(f, e + 1), b) /\ d = DigitValue(At(e))
  OBVIOUS
<1>2. f \in Nat /\ f <= e /\ f <= e + 1
  BY <1>1 DEF SumFrom, SumKnown
<1>3. v \in Int /\ r = Wrap(v)
  BY <1>1 DEF SumKnown
<1>4. d \in Int
  BY <1>1, DigitsHaveValues
<1>5. w = v * b + d
  BY <1>1, <1>2, SpanValueGoes
<1>6. b \in Int
  OBVIOUS
<1>7. Wrap(r * b + d) = Wrap(v * b + d)
  BY <1>3, <1>4, <1>6, WrapsOnTheWay
<1>8. w \in Int
  BY <1>3, <1>4, <1>5, <1>6
<1> QED
  BY <1>1, <1>2, <1>5, <1>7, <1>8 DEF SumKnown

LEMMA SumEnds ==
  ASSUME NEW n \in Nat, NEW e \in Nat, NEW b, NEW buf, DigitsKnown(n, e, b, buf),
         ~ IsDigitEx(At(e), b), NEW r, SumKnown(n, e, b, r)
  PROVE  r = Wrap(IntValue(Span(n, e)))
<1>1. PICK s : s = Span(n, e)
  OBVIOUS
<1>2. n <= e
  BY DEF DigitsKnown
<1>3. (IsOctal(s) <=> OctalAt(n, e)) /\ (IsHex(s) <=> HexAt(n, e))
  BY <1>1, <1>2, SpanNumbers
<1>4. CASE b = 10
  <2>1. At(n) = "0" => ~ IsDigit(At(n + 1)) /\ At(n + 1) \notin {"x", "X"}
    BY <1>4 DEF DigitsKnown
  <2>2. ~ HexAt(n, e)
    BY <2>1 DEF HexAt
  <2>3. ~ OctalAt(n, e)
    <3>1. SUFFICES ASSUME n + 1 < e, At(n) = "0", \A k \in n .. e - 1 : IsOctdigit(At(k)) PROVE FALSE
      BY DEF OctalAt
    <3>2. n + 1 \in n .. e - 1
      BY <3>1
    <3>3. IsOctdigit(At(n + 1))
      BY <3>1, <3>2
    <3> QED
      BY <2>1, <3>1, <3>3, CharactersDiffer
  <2>4. IntValue(s) = ValueIn(s, 10)
    BY <1>3, <2>2, <2>3 DEF IntValue
  <2>5. r = Wrap(ValueIn(Span(n, e), 10))
    BY <1>4 DEF SumKnown, SumFrom
  <2> QED
    BY <1>1, <2>4, <2>5
<1>5. CASE b = 8
  <2>1. n + 1 <= e /\ At(n) = "0" /\ IsOctdigit(At(n + 1)) /\ \A k \in n .. e - 1 : IsOctdigit(At(k))
    BY <1>5 DEF DigitsKnown
  <2>2. n + 1 # e
    BY <1>5, <2>1, DigitsOf
  <2>3. OctalAt(n, e)
    BY <2>1, <2>2 DEF OctalAt
  <2>4. ~ HexAt(n, e)
    <3>1. IsDigit(At(n + 1))
      BY <2>1, CharactersDiffer
    <3> QED
      BY <3>1, CharactersDiffer DEF HexAt, Joints
  <2>5. IntValue(s) = ValueIn(s, 8)
    BY <1>3, <2>3, <2>4 DEF IntValue
  <2>6. r = Wrap(ValueIn(Span(n, e), 8))
    BY <1>5 DEF SumKnown, SumFrom
  <2> QED
    BY <1>1, <2>5, <2>6
<1>6. CASE b = 16
  <2>1. /\ n + 2 <= e /\ At(n) = "0" /\ At(n + 1) \in {"x", "X"} /\ IsHexdigit(At(n + 2))
        /\ \A k \in n + 2 .. e - 1 : IsHexdigit(At(k))
    BY <1>6 DEF DigitsKnown
  <2>2. n + 2 # e
    BY <1>6, <2>1, DigitsOf
  <2>3. HexAt(n, e)
    BY <2>1, <2>2 DEF HexAt
  <2>4. Tail2(s) = Span(n + 2, e)
    <3>1. Len(Span(n, e)) = e - n
      BY <1>2, SpanIs
    <3>2. 3 \in 1 .. e - n + 1 /\ e - n \in 3 - 1 .. e - n /\ n + 3 - 1 = n + 2 /\ n + (e - n) = e
      BY <2>1
    <3>3. SubSeq(Span(n, e), 3, e - n) = Span(n + 3 - 1, n + (e - n))
      BY <1>2, <3>2, SpanCut
    <3> QED
      BY <1>1, <3>1, <3>2, <3>3 DEF Tail2
  <2>5. IntValue(s) = ValueIn(Span(n + 2, e), 16)
    BY <1>3, <2>3, <2>4 DEF IntValue
  <2>6. r = Wrap(ValueIn(Span(n + 2, e), 16))
    BY <1>6 DEF SumKnown, SumFrom
  <2> QED
    BY <1>1, <2>5, <2>6
<1> QED
  BY <1>4, <1>5, <1>6 DEF DigitsKnown

----------------------------------------------------------------------------
(* What the lexer knows of a string: it began at n, and e is the place of cur_char.  Every text *)
(* that ends well, as that of a whole string does, means buf up to there.                       *)

Outside(n, e, q, buf) == \A z \in Nat : EndsWell(n, z) /\ e <= z => MeansTo(n, z, q, buf, e, "outside")

Inside(n, e, q, buf) ==
  n <= e /\ \A z \in Nat : EndsWell(n, z) /\ e <= z => MeansTo(n, z, q, buf, e, "inside")

\* Before a string and behind it,
BetweenKnown(n, e, q, buf) == (e = n \/ At(e - 1) # "\\") /\ Outside(n, e, q, buf)

\* behind a backslash, behind the x of an escape sequence, and in the digits of one.
EscapeKnown(n, e, q, buf) == n < e /\ At(e - 1) = "\\" /\ Inside(n, e - 1, q, buf)

HexKnown(n, e, q, buf) ==
  n + 1 < e /\ At(e - 2) = "\\" /\ At(e - 1) = "x" /\ Inside(n, e - 2, q, buf)

OctalKnown(n, e, q, buf, r, d) ==
  \E p \in n .. e - 1 :
    /\ At(p) = "\\" /\ Inside(n, p, q, buf) /\ d \in 0 .. 3 /\ e = p + 1 + d
    /\ \A k \in p + 1 .. e - 1 : IsOctdigit(At(k))
    /\ d = 0 => IsOctdigit(At(e))
    /\ r = ValueIn(Span(p + 1, e), 8)

LEMMA QuotesDiffer ==
  ASSUME NEW q \in Quotes
  PROVE  q # "\\" /\ ~ IsWhitespace(q)
  BY DEF Quotes, IsWhitespace, IsNewline

\* A string begins,
LEMMA BetweenBegins ==
  ASSUME NEW n \in Nat, NEW q
  PROVE  BetweenKnown(n, n, q, << >>)
<1>1. \A z \in Nat : EndsWell(n, z) => MeansTo(n, z, q, << >>, n, "outside")
  BY TextBegins
<1> QED
  BY <1>1 DEF BetweenKnown, Outside

\* is opened,
LEMMA StringOpens ==
  ASSUME NEW n \in Nat, NEW e \in Nat, n <= e, NEW q \in Quotes, NEW buf,
         BetweenKnown(n, e, q, buf), At(e) = q
  PROVE  Inside(n, e + 1, q, buf)
<1>1. ASSUME NEW z \in Nat, EndsWell(n, z), e + 1 <= z
      PROVE  MeansTo(n, z, q, buf, e + 1, "inside")
  <2>1. e < z /\ e <= z /\ "outside" \in Sides
    BY <1>1 DEF Sides
  <2>2. MeansTo(n, z, q, buf, e, "outside")
    BY <1>1, <2>1 DEF BetweenKnown, Outside
  <2>3. MeansTo(n, z, q, buf, e + 1, Across("outside"))
    BY <1>1, <2>1, <2>2, TextCrosses
  <2>4. Across("outside") = "inside"
    BY DEF Across
  <2> QED
    BY <2>3, <2>4
<1>2. n <= e + 1
  OBVIOUS
<1> QED
  BY <1>1, <1>2 DEF Inside

\* and closed,
LEMMA StringCloses ==
  ASSUME NEW n \in Nat, NEW e \in Nat, NEW q \in Quotes, NEW buf, Inside(n, e, q, buf), At(e) = q
  PROVE  BetweenKnown(n, e + 1, q, buf)
<1>1. ASSUME NEW z \in Nat, EndsWell(n, z), e + 1 <= z
      PROVE  MeansTo(n, z, q, buf, e + 1, "outside")
  <2>1. n <= e /\ e < z /\ e <= z /\ "inside" \in Sides
    BY <1>1 DEF Sides, Inside
  <2>2. MeansTo(n, z, q, buf, e, "inside")
    BY <1>1, <2>1 DEF Inside
  <2>3. MeansTo(n, z, q, buf, e + 1, Across("inside"))
    BY <1>1, <2>1, <2>2, TextCrosses
  <2>4. Across("inside") = "outside"
    BY DEF Across
  <2> QED
    BY <2>3, <2>4
<1>2. (e + 1) - 1 = e /\ At(e) # "\\"
  BY QuotesDiffer
<1>3. At((e + 1) - 1) # "\\"
  BY <1>2
<1> QED
  BY <1>1, <1>3 DEF BetweenKnown, Outside

\* and white space is behind it.
LEMMA SpaceBetween ==
  ASSUME NEW n \in Nat, NEW e \in Nat, n <= e, NEW q \in Quotes, NEW buf,
         BetweenKnown(n, e, q, buf), IsWhitespace(At(e))
  PROVE  BetweenKnown(n, e + 1, q, buf)
<1>1. At(e) # q /\ At(e) # "\\"
  BY QuotesDiffer DEF IsWhitespace, IsNewline
<1>2. ASSUME NEW z \in Nat, EndsWell(n, z), e + 1 <= z
      PROVE  MeansTo(n, z, q, buf, e + 1, "outside")
  <2>1. e < z /\ e <= z
    BY <1>2
  <2>2. MeansTo(n, z, q, buf, e, "outside")
    BY <1>2, <2>1 DEF BetweenKnown, Outside
  <2> QED
    BY <1>1, <1>2, <2>1, <2>2, TextSkips
<1>3. (e + 1) - 1 = e
  OBVIOUS
<1>4. At((e + 1) - 1) # "\\"
  BY <1>1, <1>3
<1> QED
  BY <1>2, <1>4 DEF BetweenKnown, Outside

\* At its end all of it is in the buffer.
LEMMA StringMeans ==
  ASSUME NEW n \in Nat, NEW e \in Nat, n <= e, NEW q, NEW buf, BetweenKnown(n, e, q, buf),
         At(n) = q, At(e) # q
  PROVE  n < e /\ Meaning(Span(n, e), q) = buf
<1>1. e # n
  OBVIOUS
<1>2. EndsWell(n, e) /\ e <= e
  BY <1>1 DEF EndsWell, BetweenKnown
<1>3. MeansTo(n, e, q, buf, e, "outside")
  BY <1>2 DEF BetweenKnown, Outside
<1>4. "outside" \in Sides
  BY DEF Sides
<1>5. Meaning(Span(n, e), q) = buf
  BY <1>2, <1>3, <1>4, TextEnds
<1> QED
  BY <1>1, <1>5

\* A character of it,
LEMMA CharIsTaken ==
  ASSUME NEW n \in Nat, NEW e \in Nat, NEW q, NEW buf, Inside(n, e, q, buf), At(e) # q, At(e) # "\\"
  PROVE  Inside(n, e + 1, q, Append(buf, Code[At(e)]))
<1>1. PICK c : c = Code[At(e)]
  OBVIOUS
<1>2. n <= e /\ n <= e + 1 /\ e + 1 \in Nat
  BY DEF Inside
<1>3. ASSUME NEW z \in Nat, EndsWell(n, z), e + 1 <= z
      PROVE  MeansTo(n, z, q, Append(buf, c), e + 1, "inside")
  <2>1. e < z /\ e <= z
    BY <1>3
  <2>2. MeansTo(n, z, q, buf, e, "inside")
    BY <1>3, <2>1 DEF Inside
  <2>3. PICK k : k = e - n + 1
    OBVIOUS
  <2>4. Piece(Span(n, z), k) = [code |-> Code[At(e)], next |-> k + 1]
    BY <1>2, <2>1, <2>3, PieceIsChar
  <2>5. k + 1 = (e + 1) - n + 1
    BY <2>3
  <2>6. Piece(Span(n, z), e - n + 1) = [code |-> c, next |-> (e + 1) - n + 1]
    BY <1>1, <2>3, <2>4, <2>5
  <2> QED
    BY <1>2, <1>3, <2>1, <2>2, <2>6, TextTakes
<1> QED
  BY <1>1, <1>2, <1>3 DEF Inside

\* and an escape sequence from p to before r.
LEMMA EscapeIsTaken ==
  ASSUME NEW n \in Nat, NEW p \in Nat, NEW r \in Nat, p < r, NEW q \in Quotes, NEW buf, NEW c,
         Inside(n, p, q, buf), At(p) = "\\",
         \A z \in Nat : EndsWell(n, z) /\ r <= z
            => Piece(Span(n, z), p - n + 1) = [code |-> c, next |-> r - n + 1]
  PROVE  Inside(n, r, q, Append(buf, c))
<1>1. n <= p /\ n <= r /\ At(p) # q
  BY QuotesDiffer DEF Inside
<1>2. ASSUME NEW z \in Nat, EndsWell(n, z), r <= z
      PROVE  MeansTo(n, z, q, Append(buf, c), r, "inside")
  <2>1. p < z /\ p <= z
    BY <1>2
  <2>2. MeansTo(n, z, q, buf, p, "inside")
    BY <1>2, <2>1 DEF Inside
  <2>3. Piece(Span(n, z), p - n + 1) = [code |-> c, next |-> r - n + 1]
    BY <1>2
  <2> QED
    BY <1>1, <1>2, <2>1, <2>2, <2>3, TextTakes
<1> QED
  BY <1>1, <1>2 DEF Inside

\* Of the characters behind a backslash only octal digits are digits.
LEMMA EscapesDiffer ==
  /\ \A c \in DOMAIN Escapes : c # "x" /\ ~ IsOctdigit(c)
  /\ \A c : IsOctdigit(c) => c # "x"
<1>1. DOMAIN Escapes = {"'", "\"", "\\", "?", "a", "b", "f", "n", "r", "t", "v"}
  BY DEF Escapes
<1>2. \A c \in DOMAIN Escapes : c # "x" /\ c \notin {"0", "1", "2", "3", "4", "5", "6", "7"}
  BY <1>1
<1> QED
  BY <1>2, DigitsAre

\* A backslash,
LEMMA EscapeBegins ==
  ASSUME NEW n \in Nat, NEW e \in Nat, NEW q, NEW buf, Inside(n, e, q, buf), At(e) = "\\"
  PROVE  EscapeKnown(n, e + 1, q, buf)
<1>1. n <= e /\ n < e + 1 /\ (e + 1) - 1 = e
  BY DEF Inside
<1> QED
  BY <1>1 DEF EscapeKnown

\* and behind it a character that it gives a meaning to,
LEMMA SimpleIsTaken ==
  ASSUME NEW n \in Nat, NEW e \in Nat, NEW q \in Quotes, NEW buf, EscapeKnown(n, e, q, buf),
         At(e) \in DOMAIN Escapes
  PROVE  Inside(n, e + 1, q, Append(buf, Escapes[At(e)]))
<1>1. PICK p \in Nat : p = e - 1
  BY DEF EscapeKnown
<1>2. PICK r \in Nat : r = e + 1
  OBVIOUS
<1>3. PICK c : c = Escapes[At(e)]
  OBVIOUS
<1>4. p < r /\ n <= p /\ p + 1 = e /\ e + 0 = e /\ 0 \in 0 .. 3
  BY <1>1, <1>2 DEF EscapeKnown
<1>5. At(p) = "\\" /\ Inside(n, p, q, buf)
  BY <1>1 DEF EscapeKnown
<1>6. ASSUME NEW z \in Nat, EndsWell(n, z), r <= z
      PROVE  Piece(Span(n, z), p - n + 1) = [code |-> c, next |-> r - n + 1]
  <2>1. At(p + 1) # "x" /\ ~ IsDigitEx(At(e), 8)
    BY <1>4, EscapesDiffer, DigitsOf
  <2>2. Runs(p + 1, 8, 3, z, 0)
    BY <1>2, <1>4, <1>6, <2>1 DEF Runs
  <2>3. p < z
    BY <1>4, <1>6
  <2>4. PICK k : k = p - n + 1
    OBVIOUS
  <2>5. Piece(Span(n, z), k) = [code |-> Escapes[At(p + 1)], next |-> k + 2]
    BY <1>4, <1>5, <1>6, <2>1, <2>2, <2>3, <2>4, PieceIsEscape
  <2>6. k + 2 = r - n + 1
    BY <1>2, <1>4, <2>4
  <2> QED
    BY <1>3, <1>4, <2>4, <2>5, <2>6
<1>7. Inside(n, r, q, Append(buf, c))
  BY <1>4, <1>5, <1>6, EscapeIsTaken
<1> QED
  BY <1>2, <1>3, <1>7

\* or an x
LEMMA HexBegins ==
  ASSUME NEW n \in Nat, NEW e \in Nat, NEW q, NEW buf, EscapeKnown(n, e, q, buf), At(e) = "x"
  PROVE  HexKnown(n, e + 1, q, buf)
<1>1. n + 1 < e + 1 /\ (e + 1) - 2 = e - 1 /\ (e + 1) - 1 = e
  BY DEF EscapeKnown
<1>2. At(e - 1) = "\\" /\ Inside(n, e - 1, q, buf)
  BY DEF EscapeKnown
<1> QED
  BY <1>1, <1>2 DEF HexKnown

\* and m digits of base 16 that make c,
LEMMA HexIsTaken ==
  ASSUME NEW n \in Nat, NEW e \in Nat, NEW q \in Quotes, NEW buf, HexKnown(n, e, q, buf),
         NEW m \in Nat, \A z \in Nat : e + m <= z => Runs(e, 16, 2, z, m),
         NEW c, c = ValueIn(Span(e, e + m), 16)
  PROVE  Inside(n, e + m, q, Append(buf, c))
<1>1. PICK p \in Nat : p = e - 2
  BY DEF HexKnown
<1>2. PICK r \in Nat : r = e + m
  OBVIOUS
<1>3. p < r /\ n <= p /\ p + 1 = e - 1 /\ p + 2 = e
  BY <1>1, <1>2 DEF HexKnown
<1>4. At(p) = "\\" /\ At(p + 1) = "x" /\ Inside(n, p, q, buf)
  BY <1>1, <1>3 DEF HexKnown
<1>5. ASSUME NEW z \in Nat, EndsWell(n, z), r <= z
      PROVE  Piece(Span(n, z), p - n + 1) = [code |-> c, next |-> r - n + 1]
  <2>1. Runs(p + 2, 16, 2, z, m)
    BY <1>2, <1>3, <1>5
  <2>2. p < z
    BY <1>3, <1>5
  <2>3. PICK k : k = p - n + 1
    OBVIOUS
  <2>4. Piece(Span(n, z), k) = [code |-> ValueIn(Span(p + 2, p + 2 + m), 16), next |-> k + 2 + m]
    BY <1>3, <1>4, <1>5, <2>1, <2>2, <2>3, PieceIsEscape
  <2>5. k + 2 + m = r - n + 1
    BY <1>2, <1>3, <2>3
  <2> QED
    BY <1>3, <2>3, <2>4, <2>5
<1>6. Inside(n, r, q, Append(buf, c))
  BY <1>3, <1>4, <1>5, EscapeIsTaken
<1> QED
  BY <1>2, <1>6

\* two or one,
LEMMA HexOfTwo ==
  ASSUME NEW n \in Nat, NEW e \in Nat, NEW q \in Quotes, NEW buf, HexKnown(n, e, q, buf),
         IsHexdigit(At(e)), IsHexdigit(At(e + 1))
  PROVE  Inside(n, e + 2, q, Append(buf, DigitValue(At(e)) * 16 + DigitValue(At(e + 1))))
<1>1. PICK a, b : a = DigitValue(At(e)) /\ b = DigitValue(At(e + 1))
  OBVIOUS
<1>2. a \in Int /\ b \in Int
  BY <1>1, DigitValueIsInt
<1>3. e <= e /\ e <= e + 1 /\ e + 1 \in Nat /\ e + 1 + 1 = e + 2
  OBVIOUS
<1>4. ValueIn(Span(e, e), 16) = 0
  BY SpanValueOfNone
<1>5. ValueIn(Span(e, e + 1), 16) = ValueIn(Span(e, e), 16) * 16 + DigitValue(At(e))
  BY <1>3, SpanValueGoes
<1>6. PICK f \in Nat : f = e + 1
  OBVIOUS
<1>7. ValueIn(Span(e, f + 1), 16) = ValueIn(Span(e, f), 16) * 16 + DigitValue(At(f))
  BY <1>3, <1>6, SpanValueGoes
<1>8. a * 16 + b = ValueIn(Span(e, e + 2), 16)
  <2>1. ValueIn(Span(e, f), 16) = a
    BY <1>1, <1>2, <1>4, <1>5, <1>6
  <2>2. f + 1 = e + 2
    BY <1>6
  <2> QED
    BY <1>1, <1>6, <1>7, <2>1, <2>2
<1>9. ASSUME NEW z \in Nat, e + 2 <= z PROVE Runs(e, 16, 2, z, 2)
  <2>1. ASSUME NEW i \in e .. e + 2 - 1 PROVE IsDigitEx(At(i), 16)
    <3>1. i = e \/ i = e + 1
      OBVIOUS
    <3> QED
      BY <3>1, DigitsOf
  <2> QED
    BY <1>9, <2>1 DEF Runs
<1>10. Inside(n, e + 2, q, Append(buf, a * 16 + b))
  BY <1>8, <1>9, HexIsTaken
<1> QED
  BY <1>1, <1>10

LEMMA HexOfOne ==
  ASSUME NEW n \in Nat, NEW e \in Nat, NEW q \in Quotes, NEW buf, HexKnown(n, e, q, buf),
         IsHexdigit(At(e)), ~ IsHexdigit(At(e + 1))
  PROVE  Inside(n, e + 1, q, Append(buf, DigitValue(At(e))))
<1>1. PICK a : a = DigitValue(At(e))
  OBVIOUS
<1>2. a \in Int
  BY <1>1, DigitValueIsInt
<1>3. e <= e
  OBVIOUS
<1>4. ValueIn(Span(e, e), 16) = 0
  BY SpanValueOfNone
<1>5. ValueIn(Span(e, e + 1), 16) = ValueIn(Span(e, e), 16) * 16 + DigitValue(At(e))
  BY <1>3, SpanValueGoes
<1>6. a = ValueIn(Span(e, e + 1), 16)
  BY <1>1, <1>2, <1>4, <1>5
<1>7. ASSUME NEW z \in Nat, e + 1 <= z PROVE Runs(e, 16, 2, z, 1)
  <2>1. ASSUME NEW i \in e .. e + 1 - 1 PROVE IsDigitEx(At(i), 16)
    <3>1. i = e
      OBVIOUS
    <3> QED
      BY <3>1, DigitsOf
  <2>2. ~ IsDigitEx(At(e + 1), 16)
    BY DigitsOf
  <2> QED
    BY <1>7, <2>1, <2>2 DEF Runs
<1>8. Inside(n, e + 1, q, Append(buf, a))
  BY <1>6, <1>7, HexIsTaken
<1> QED
  BY <1>1, <1>8

\* or octal digits: the first,
LEMMA OctalBegins ==
  ASSUME NEW n \in Nat, NEW e \in Nat, NEW q, NEW buf, EscapeKnown(n, e, q, buf), IsOctdigit(At(e))
  PROVE  OctalKnown(n, e, q, buf, 0, 0)
<1>1. PICK p \in Nat : p = e - 1
  BY DEF EscapeKnown
<1>2. p \in n .. e - 1 /\ e = p + 1 + 0 /\ 0 \in 0 .. 3 /\ p + 1 = e
      /\ \A k \in p + 1 .. e - 1 : IsOctdigit(At(k))
  BY <1>1 DEF EscapeKnown
<1>3. At(p) = "\\" /\ Inside(n, p, q, buf)
  BY <1>1 DEF EscapeKnown
<1>4. 0 = ValueIn(Span(p + 1, e), 8)
  BY <1>2, SpanValueOfNone
<1> QED
  BY <1>2, <1>3, <1>4 DEF OctalKnown

\* one more,
LEMMA OctalGoes ==
  ASSUME NEW n \in Nat, NEW e \in Nat, NEW q, NEW buf, NEW r, NEW d, OctalKnown(n, e, q, buf, r, d),
         d < 3, IsOctdigit(At(e))
  PROVE  OctalKnown(n, e + 1, q, buf, r * 8 + DigitValue(At(e)), d + 1)
<1>1. PICK p \in n .. e - 1 :
        /\ At(p) = "\\" /\ Inside(n, p, q, buf) /\ d \in 0 .. 3 /\ e = p + 1 + d
        /\ \A k \in p + 1 .. e - 1 : IsOctdigit(At(k))
        /\ r = ValueIn(Span(p + 1, e), 8)
  BY DEF OctalKnown
<1>2. /\ p \in n .. (e + 1) - 1 /\ d + 1 \in 0 .. 3 /\ e + 1 = p + 1 + (d + 1) /\ d + 1 # 0
      /\ p + 1 \in Nat /\ p + 1 <= e
  BY <1>1
<1>3. \A k \in p + 1 .. (e + 1) - 1 : IsOctdigit(At(k))
  <2> SUFFICES ASSUME NEW k \in p + 1 .. (e + 1) - 1 PROVE IsOctdigit(At(k))
    OBVIOUS
  <2>1. k = e \/ k \in p + 1 .. e - 1
    OBVIOUS
  <2> QED
    BY <1>1, <2>1
<1>4. r * 8 + DigitValue(At(e)) = ValueIn(Span(p + 1, e + 1), 8)
  BY <1>1, <1>2, SpanValueGoes
<1> QED
  BY <1>1, <1>2, <1>3, <1>4 DEF OctalKnown

\* and the last.
LEMMA OctalIsTaken ==
  ASSUME NEW n \in Nat, NEW e \in Nat, NEW q \in Quotes, NEW buf, NEW c, NEW d,
         OctalKnown(n, e, q, buf, c, d), d = 3 \/ ~ IsOctdigit(At(e))
  PROVE  Inside(n, e, q, Append(buf, c))
<1>1. PICK p \in n .. e - 1 :
        /\ At(p) = "\\" /\ Inside(n, p, q, buf) /\ d \in 0 .. 3 /\ e = p + 1 + d
        /\ \A k \in p + 1 .. e - 1 : IsOctdigit(At(k))
        /\ d = 0 => IsOctdigit(At(e))
        /\ c = ValueIn(Span(p + 1, e), 8)
  BY DEF OctalKnown
<1>2. p \in Nat /\ n <= p /\ p < e /\ d # 0 /\ p + 1 \in p + 1 .. e - 1
  BY <1>1
<1>3. ASSUME NEW z \in Nat, EndsWell(n, z), e <= z
      PROVE  Piece(Span(n, z), p - n + 1) = [code |-> c, next |-> e - n + 1]
  <2>1. At(p + 1) # "x"
    BY <1>1, <1>2, EscapesDiffer
  <2>2. Runs(p + 1, 8, 3, z, d)
    <3>1. d \in 0 .. 3 /\ p + 1 + d <= z /\ p + 1 + d - 1 = e - 1
      BY <1>1, <1>3
    <3>2. \A i \in p + 1 .. p + 1 + d - 1 : IsDigitEx(At(i), 8)
      BY <1>1, <3>1, DigitsOf
    <3>3. d = 3 \/ p + 1 + d = z \/ ~ IsDigitEx(At(p + 1 + d), 8)
      BY <1>1, DigitsOf
    <3> QED
      BY <3>1, <3>2, <3>3 DEF Runs
  <2>3. p < z
    BY <1>2, <1>3
  <2>4. PICK k : k = p - n + 1
    OBVIOUS
  <2>5. Piece(Span(n, z), k) = [code |-> ValueIn(Span(p + 1, p + 1 + d), 8), next |-> k + 1 + d]
    BY <1>1, <1>2, <1>3, <2>1, <2>2, <2>3, <2>4, PieceIsEscape
  <2>6. k + 1 + d = e - n + 1
    BY <1>1, <2>4
  <2> QED
    BY <1>1, <2>4, <2>5, <2>6
<1> QED
  BY <1>1, <1>2, <1>3, EscapeIsTaken

----------------------------------------------------------------------------
(* What is known of the value in each mode *)

\* r and d are result and digits, the others as in Known.
ValueKnown(m, n, e, q, b, buf, r, d) ==
  /\ m = "digits" => SumKnown(n, e, b, r)
  /\ m = "suffix" /\ buf = << >> => r = Wrap(IntValue(Span(n, e)))
  /\ m \in {"string", "after_string"} => BetweenKnown(n, e, q, buf)
  /\ m = "chars"  => Inside(n, e, q, buf)
  /\ m = "escape" => EscapeKnown(n, e, q, buf)
  /\ m = "hex"    => HexKnown(n, e, q, buf)
  /\ m = "octal"  => OctalKnown(n, e, q, buf, r, d)
  /\ m = "punctuator" => At(n) # "'"

\* What ValuesAreRead says of a token.
ValueRead(tok) ==
  IF IsQuoted(tok)
  THEN LET codes == Meaning(tok.text, tok.text[1]) IN
       tok.value = IF tok.type = "STRING_CONST" THEN codes ELSE SignedChar(codes[1])
  ELSE tok.type = "INT_CONST" => tok.value = Wrap(IntValue(tok.text))

\* The inductive invariant.
Valued ==
  /\ ValueKnown(mode, in.start, in.taken - 1, quote, base, buffer, result, digits)
  /\ tokens # << >> => ValueRead(Last(tokens))

LEMMA ValueModes ==
  ASSUME NEW n, NEW e, NEW q, NEW b, NEW buf, NEW r, NEW d
  PROVE  /\ ValueKnown("digits", n, e, q, b, buf, r, d) <=> SumKnown(n, e, b, r)
         /\ ValueKnown("suffix", n, e, q, b, buf, r, d)
              <=> (buf = << >> => r = Wrap(IntValue(Span(n, e))))
         /\ ValueKnown("string", n, e, q, b, buf, r, d) <=> BetweenKnown(n, e, q, buf)
         /\ ValueKnown("after_string", n, e, q, b, buf, r, d) <=> BetweenKnown(n, e, q, buf)
         /\ ValueKnown("chars", n, e, q, b, buf, r, d) <=> Inside(n, e, q, buf)
         /\ ValueKnown("escape", n, e, q, b, buf, r, d) <=> EscapeKnown(n, e, q, buf)
         /\ ValueKnown("hex", n, e, q, b, buf, r, d) <=> HexKnown(n, e, q, buf)
         /\ ValueKnown("octal", n, e, q, b, buf, r, d) <=> OctalKnown(n, e, q, buf, r, d)
         /\ ValueKnown("punctuator", n, e, q, b, buf, r, d) <=> At(n) # "'"
         /\ \A m \in {"start", "scalar", "float", "fraction", "exponent", "power", "float_end",
                      "ident", "line_comment", "comment", "end", "done", "failed"} :
               ValueKnown(m, n, e, q, b, buf, r, d)
  BY DEF ValueKnown

\* It stays known, since the file is the same.
LEMMA ValueKnownStays ==
  ASSUME UNCHANGED file
  PROVE  \A m, n, e, q, b, buf, r, d :
            ValueKnown(m, n, e, q, b, buf, r, d)' <=> ValueKnown(m, n, e, q, b, buf, r, d)
<1>1. (\A k : At(k)' = At(k)) /\ \A a, b : Span(a, b)' = Span(a, b)
  BY KnownStays
<1>2. \A n, e, b, r : SumKnown(n, e, b, r)' <=> SumKnown(n, e, b, r)
  BY <1>1 DEF SumKnown, SumFrom
<1>3. \A n, z : EndsWell(n, z)' <=> EndsWell(n, z)
  BY <1>1 DEF EndsWell
<1>4. \A n, z, q, p, side : Behind(n, z, q, p, side)' = Behind(n, z, q, p, side)
  BY <1>1 DEF Behind
<1>5. \A n, z, q, buf, p, side : MeansTo(n, z, q, buf, p, side)' <=> MeansTo(n, z, q, buf, p, side)
  BY <1>1, <1>4 DEF MeansTo
<1>6. \A n, e, q, buf : Inside(n, e, q, buf)' <=> Inside(n, e, q, buf)
  BY <1>3, <1>5 DEF Inside
<1>7. \A n, e, q, buf : BetweenKnown(n, e, q, buf)' <=> BetweenKnown(n, e, q, buf)
  BY <1>1, <1>3, <1>5 DEF BetweenKnown, Outside
<1>8. \A n, e, q, buf : EscapeKnown(n, e, q, buf)' <=> EscapeKnown(n, e, q, buf)
  BY <1>1, <1>6 DEF EscapeKnown
<1>9. \A n, e, q, buf : HexKnown(n, e, q, buf)' <=> HexKnown(n, e, q, buf)
  BY <1>1, <1>6 DEF HexKnown
<1>10. \A n, e, q, buf, r, d : OctalKnown(n, e, q, buf, r, d)' <=> OctalKnown(n, e, q, buf, r, d)
  BY <1>1, <1>6 DEF OctalKnown
<1> QED
  BY <1>1, <1>2, <1>6, <1>7, <1>8, <1>9, <1>10 DEF ValueKnown

\* The lexer goes on,
LEMMA GoingOnValued ==
  ASSUME Valued, UNCHANGED << file, tokens >>,
         ValueKnown(mode', in'.start, in'.taken - 1, quote', base', buffer', result', digits')
  PROVE  Valued'
<1>1. PICK m, n, e, q, b, buf, r, d :
        /\ m = mode' /\ n = in'.start /\ e = in'.taken - 1
        /\ q = quote' /\ b = base' /\ buf = buffer' /\ r = result' /\ d = digits'
  OBVIOUS
<1>2. ValueKnown(m, n, e, q, b, buf, r, d)
  BY <1>1
<1>3. ValueKnown(m, n, e, q, b, buf, r, d)'
  BY <1>2, ValueKnownStays, Zenon
<1>4. ValueKnown(mode, in.start, in.taken - 1, quote, base, buffer, result, digits)'
  BY <1>1, <1>3
<1>5. (tokens # << >> => ValueRead(Last(tokens)))'
  <2>1. PICK tok : tok = Last(tokens)
    OBVIOUS
  <2>2. Last(tokens)' = tok
    BY <2>1 DEF Last
  <2> QED
    BY <2>1, <2>2 DEF Valued
<1> QED
  BY <1>4, <1>5 DEF Valued

\* in a mode of whose value nothing is known yet, or gives up,
LEMMA NothingValued ==
  ASSUME Valued, UNCHANGED << file, tokens >>,
         mode' \in {"start", "scalar", "float", "fraction", "exponent", "power", "float_end",
                    "ident", "line_comment", "comment", "end", "done", "failed"}
  PROVE  Valued'
<1>1. PICK m, n, e, q, b, buf, r, d :
        /\ m = mode' /\ n = in'.start /\ e = in'.taken - 1
        /\ q = quote' /\ b = base' /\ buf = buffer' /\ r = result' /\ d = digits'
  OBVIOUS
<1>2. ValueKnown(m, n, e, q, b, buf, r, d)
  BY <1>1, ValueModes
<1>3. ValueKnown(mode', in'.start, in'.taken - 1, quote', base', buffer', result', digits')
  BY <1>1, <1>2
<1> QED
  BY <1>3, GoingOnValued

\* or returns what it has read from n to before e.
ReadRightly(type, value, n, e) ==
  \/ type \notin {"STRING_CONST", "INT_CONST"} /\ At(n) # "'"
  \/ type = "INT_CONST" /\ At(n) # "'" /\ value = Wrap(IntValue(Span(n, e)))
  \/ type = "STRING_CONST" /\ value = Meaning(Span(n, e), At(n))
  \/ type = "INT_CONST" /\ At(n) = "'" /\ value = SignedChar(Meaning(Span(n, e), At(n))[1])

LEMMA ReturningValued ==
  ASSUME Moded, Covered, NEW type, NEW value, NEW s, Emit(type, value, s), Reading(s),
         NEW n \in Nat, NEW e \in Nat, n < e, s.start = n, s.taken = e + 1,
         ReadRightly(type, value, n, e)
  PROVE  Valued'
<1>1. mode' = "start" /\ UNCHANGED file
  BY DEF Emit
<1>2. PICK tok : tok = [type |-> type, value |-> value, line |-> token.line,
                        column |-> token.column, text |-> TokenText(s), from |-> s.start]
  OBVIOUS
<1>3. tok.type = type /\ tok.value = value /\ tok.text = TokenText(s)
  BY <1>2
<1>4. tok.text = Span(n, e)
  <2>1. s.start < s.taken /\ s.taken - 1 = e
    OBVIOUS
  <2>2. TokenText(s) = Span(s.start, s.taken - 1)
    BY <2>1, TokenTextIsSpan
  <2> QED
    BY <1>3, <2>1, <2>2
<1>5. tok.text[1] = At(n)
  <2>1. 1 \in 1 .. e - n /\ n + 1 - 1 = n
    OBVIOUS
  <2> QED
    BY <1>4, <2>1 DEF Span
<1>6. ValueRead(tok)
  BY <1>3, <1>4, <1>5, Zenon DEF ReadRightly, ValueRead, IsQuoted
<1>7. tokens' = Append(tokens, tok) /\ AreTokens
  BY <1>2 DEF Emit, Covered
<1>8. PICK l : l = Len(tokens)
  OBVIOUS
<1>9. l \in Nat /\ Len(tokens') = l + 1 /\ tokens'[l + 1] = tok
  BY <1>7, <1>8, OneTokenMore
<1>10. Last(tokens)' = tok
  BY <1>9 DEF Last
<1>11. ValueKnown(mode, in.start, in.taken - 1, quote, base, buffer, result, digits)'
  <2>1. PICK m, k, g, q, b, buf, r, d :
          /\ m = mode' /\ k = in'.start /\ g = in'.taken - 1
          /\ q = quote' /\ b = base' /\ buf = buffer' /\ r = result' /\ d = digits'
    OBVIOUS
  <2>2. ValueKnown(m, k, g, q, b, buf, r, d)
    BY <1>1, <2>1, ValueModes
  <2>3. ValueKnown(m, k, g, q, b, buf, r, d)'
    BY <1>1, <2>2, ValueKnownStays
  <2> QED
    BY <2>1, <2>3
<1> QED
  BY <1>6, <1>10, <1>11 DEF Valued

----------------------------------------------------------------------------
(* The steps *)

\* What begins with an apostrophe is a character constant.
LEMMA ApostropheDiffers ==
  ASSUME NEW c, IsDigit(c) \/ IsIdentStart(c) \/ c \in {".", "/"}
  PROVE  c # "'"
<1>1. "'" \notin {"0", "1", "2", "3", "4", "5", "6", "7", "8", "9"} /\ "'" \notin {".", "/"}
  OBVIOUS
<1>2. "'" \notin Letters /\ "'" # "_"
  BY DEF Letters
<1> QED
  BY <1>1, <1>2, DigitsAre DEF IsIdentStart, IsAlpha

LEMMA PunctuatorsBeginOtherwise ==
  ASSUME NEW c, NEW d, Starts(c, d) = "punctuator"
  PROVE  c # "'"
<1>1. PICK m : m = Starts(c, d)
  OBVIOUS
<1>2. m = "punctuator" => c \notin {"\"", "'"}
  BY <1>1 DEF Starts
<1> QED
  BY <1>1, <1>2

LEMMA PunctuatorIsNoConstant ==
  ASSUME NEW s
  PROVE  Punctuator(s).type \notin {"STRING_CONST", "INT_CONST"}
<1> DEFINE K == {"STRING_CONST", "INT_CONST"}
<1>1. \A r, t : OneWay(r, t).type = t
  BY DEF OneWay
<1>2. \A r, t, u : TwoWay(r, t, u).type \in {t, u}
  BY <1>1 DEF TwoWay
<1>3. \A r, t, u, v : ThreeWay(r, t, u, v).type \in {t, u, v}
  BY <1>1, <1>2 DEF ThreeWay
<1>4. Dots(s).type \notin K
  BY <1>1 DEF Dots
<1>5. \A c \in DOMAIN Singles : Singles[c] \notin K
  BY DEF Singles
<1>6. \A c \in DOMAIN Doubles : Doubles[c][1] \notin K /\ Doubles[c][2] \notin K
  BY DEF Doubles
<1>7. \A c \in DOMAIN Triples :
        Triples[c][1] \notin K /\ Triples[c][2] \notin K /\ Triples[c][3] \notin K
  BY DEF Triples
<1> QED
  BY <1>1, <1>2, <1>3, <1>4, <1>5, <1>6, <1>7 DEF Punctuator

LEMMA SuffixHasLength ==
  ASSUME NEW n \in Nat, NEW e \in Nat, NEW buf, SuffixKnown(n, e, buf), NEW c
  PROVE  Append(buf, c) # << >>
<1>1. PICK f \in n + 1 .. e : /\ IntegerAt(n, f) /\ NoLonger(n, f)
                              /\ buf = Span(f, e) /\ (f < e => IsAlpha(At(f)))
  BY DEF SuffixKnown
<1>2. f \in Nat /\ f <= e
  BY <1>1
<1>3. Len(buf) = e - f
  BY <1>1, <1>2, SpanIs
<1>4. buf \in Seq({At(k) : k \in Int})
  BY <1>1, <1>2, SpanIs
<1>5. Len(Append(buf, c)) = Len(buf) + 1 /\ Len(buf) \in Nat
  BY <1>4
<1> QED
  BY <1>5

\* The values of what is between tokens,
LEMMA BetweenTokensValued ==
  ASSUME Follows, Moded, Covered, Munching, Valued, SkipWs \/ BeginToken \/ EndOfStream
  PROVE  Valued'
<1>1. PICK n, e : n = in.start /\ e = in.taken - 1
  OBVIOUS
<1>2. /\ n \in Nat /\ e \in Nat /\ in.taken = e + 1
      /\ cur = At(e) /\ in.next_char = At(e + 1)
  BY <1>1, Place
<1>3. CASE SkipWs
  <2>1. /\ UNCHANGED << file, mode, token, quote, base, tokens >> /\ in'.start = n
        /\ in'.taken = in.taken + 1
    BY <1>1, <1>3, SpaceIsSkipped
  <2>2. mode \in {"start", "after_string"} /\ IsWhitespace(At(e)) /\ buffer' = buffer
    BY <1>2, <1>3 DEF SkipWs
  <2>3. CASE mode = "start"
    BY <2>1, <2>3, NothingValued
  <2>4. CASE mode = "after_string"
    <3>1. quote \in Quotes /\ n <= e
      BY <1>1, <2>4, PlaceInOrder DEF Moded, QuotingModes
    <3>2. BetweenKnown(n, e, quote, buffer)
      BY <1>1, <2>4, ValueModes DEF Valued
    <3>3. BetweenKnown(n, e + 1, quote, buffer)
      BY <1>2, <2>2, <3>1, <3>2, SpaceBetween
    <3>4. PICK r, d : r = result' /\ d = digits'
      OBVIOUS
    <3>5. ValueKnown("after_string", n, e + 1, quote, base, buffer, r, d)
      BY <3>3, ValueModes
    <3>6. in'.taken - 1 = e + 1 /\ mode' = "after_string"
      BY <1>2, <2>1, <2>4
    <3>7. ValueKnown(mode', in'.start, in'.taken - 1, quote', base', buffer', result', digits')
      BY <2>1, <2>2, <3>4, <3>5, <3>6
    <3> QED
      BY <2>1, <3>7, GoingOnValued
  <2> QED
    BY <2>2, <2>3, <2>4
<1>4. CASE BeginToken
  <2>1. PICK s : /\ Along(s, in') /\ s.start = e /\ s.taken = in.taken
                 /\ mode' = Starts(At(e), At(e + 1))
                 /\ mode' \notin CommentModes => in' = s
                 /\ quote' = At(e) /\ UNCHANGED << file, base, tokens >>
    BY <1>1, <1>2, <1>4, TokenBegins DEF cur
  <2>2. mode = "start" /\ buffer' = << >>
    BY <1>4 DEF BeginToken
  <2>3. PICK m, k, q, b, r, d : /\ m = mode' /\ k = in'.taken - 1 /\ q = quote' /\ b = base'
                                /\ r = result' /\ d = digits'
    OBVIOUS
  <2>4. m \in {"scalar", "ident", "string", "float", "end", "line_comment", "comment", "punctuator"}
    BY <2>1, <2>3 DEF Starts
  <2>5. CASE m \in {"scalar", "ident", "float", "end", "line_comment", "comment"}
    BY <2>1, <2>3, <2>5, NothingValued
  <2>6. CASE m \in {"string", "punctuator"}
    <3>1. in' = s /\ k = e /\ in'.start = e
      BY <1>1, <2>1, <2>3, <2>6 DEF CommentModes
    <3>2. m = "string" => ValueKnown(m, e, e, q, b, << >>, r, d)
      BY <1>2, BetweenBegins, ValueModes
    <3>3. m = "punctuator" => ValueKnown(m, e, e, q, b, << >>, r, d)
      BY <2>1, <2>3, PunctuatorsBeginOtherwise, ValueModes
    <3>4. ValueKnown(m, e, e, q, b, << >>, r, d)
      BY <2>6, <3>2, <3>3
    <3>5. ValueKnown(mode', in'.start, in'.taken - 1, quote', base', buffer', result', digits')
      BY <2>2, <2>3, <3>1, <3>4
    <3> QED
      BY <2>1, <3>5, GoingOnValued
  <2> QED
    BY <2>4, <2>5, <2>6
<1>5. CASE EndOfStream
  <2>1. mode' = "done" /\ UNCHANGED << file, tokens >>
    BY <1>5 DEF EndOfStream, Goto
  <2> QED
    BY <2>1, NothingValued
<1> QED
  BY <1>3, <1>4, <1>5

\* of an integer constant,
LEMMA InIntegerValued ==
  ASSUME Follows, Moded, Covered, Munching, Valued,
         BeginScalar \/ AddDigit \/ EndDigits \/ TakeSuffix \/ EndSuffix
  PROVE  Valued'
<1>1. PICK n, e : n = in.start /\ e = in.taken - 1
  OBVIOUS
<1>2. /\ n \in Nat /\ e \in Nat /\ in.taken = e + 1 /\ Reading(in)
      /\ cur = At(e) /\ in.next_char = At(e + 1)
      /\ GetChar(in).start = n /\ GetChar(in).taken - 1 = e + 1
      /\ GetChar(in).cur_char = At(e + 1)
      /\ GetChar(GetChar(in)).start = n /\ GetChar(GetChar(in)).taken - 1 = e + 2
      /\ GetChar(GetChar(in)).cur_char = At(e + 2)
  BY <1>1, Place
<1>3. /\ Known(mode, n, e, quote, base, buffer)
      /\ ValueKnown(mode, n, e, quote, base, buffer, result, digits)
  BY <1>1 DEF Munching, Valued
<1>f. ASSUME NEW s, Fail(s) PROVE Valued'
  BY <1>f, NothingValued DEF Fail
<1>4. CASE BeginScalar
  <2>1. mode = "scalar" /\ n = e /\ IsDigit(At(n))
    BY <1>3, <1>4, KnownModes DEF BeginScalar
  <2>2. PICK b : b = IF At(n) # "0" THEN 10
                     ELSE IF At(n + 1) \in {"x", "X"} THEN 16
                     ELSE IF IsDigit(At(n + 1)) THEN 8 ELSE 10
    OBVIOUS
  <2>3. PICK p : p = IF b = 16 THEN n + 2 ELSE IF b = 8 THEN n + 1 ELSE n
    OBVIOUS
  <2>4. PICK s : s = CASE b = 16 -> GetChar(GetChar(in)) [] b = 8 -> GetChar(in) [] b = 10 -> in
    OBVIOUS
  <2>5. s.start = n /\ s.taken - 1 = p
    <3>1. b = 16 \/ b = 8 \/ b = 10
      BY <2>2
    <3>2. CASE b = 16
      BY <1>2, <2>1, <2>3, <2>4, <3>2
    <3>3. CASE b = 8
      BY <1>2, <2>1, <2>3, <2>4, <3>3
    <3>4. CASE b = 10
      <4>1. s = in /\ p = n
        BY <2>3, <2>4, <3>4
      <4> QED
        BY <1>1, <1>2, <2>1, <4>1
    <3> QED
      BY <3>1, <3>2, <3>3, <3>4
  <2>6. SumKnown(n, p, b, 0)
    BY <1>2, <2>2, <2>3, SumBegins
  <2>7. \/ /\ Goto("digits", s) /\ base' = b /\ result' = 0
           /\ UNCHANGED << file, token, quote, buffer, digits, tokens >>
        \/ Fail(s)
    <3>1. b = IF cur # "0" THEN 10
              ELSE IF in.next_char \in {"x", "X"} THEN 16
              ELSE IF IsDigit(in.next_char) THEN 8 ELSE 10
      BY <1>2, <2>1, <2>2
    <3> QED
      BY <1>4, <2>4, <2>5, <3>1 DEF BeginScalar
  <2>8. CASE /\ Goto("digits", s) /\ base' = b /\ result' = 0
             /\ UNCHANGED << file, token, quote, buffer, digits, tokens >>
    <3>1. ValueKnown("digits", n, p, quote, b, buffer, 0, digits)
      BY <2>6, ValueModes
    <3>2. /\ mode' = "digits" /\ in' = s /\ base' = b /\ result' = 0
          /\ UNCHANGED << file, quote, buffer, digits, tokens >>
      BY <2>8 DEF Goto
    <3>3. ValueKnown(mode', in'.start, in'.taken - 1, quote', base', buffer', result', digits')
      BY <2>5, <3>1, <3>2
    <3> QED
      BY <3>2, <3>3, GoingOnValued
  <2> QED
    BY <1>f, <2>7, <2>8
<1>5. CASE AddDigit
  <2>1. PICK r : r = Wrap(result * base + DigitValue(At(e)))
    OBVIOUS
  <2>2. /\ mode = "digits" /\ IsDigitEx(At(e), base) /\ in' = GetChar(in) /\ result' = r
        /\ UNCHANGED << file, mode, token, quote, base, digits, tokens >>
    BY <1>2, <1>5, <2>1 DEF AddDigit
  <2>3. SumKnown(n, e, base, result) /\ base \in {8, 10, 16}
    BY <1>3, <2>2, ValueModes DEF Moded
  <2>4. SumKnown(n, e + 1, base, r)
    BY <1>2, <2>1, <2>2, <2>3, SumGoes
  <2>5. PICK buf : buf = buffer'
    OBVIOUS
  <2>6. ValueKnown("digits", n, e + 1, quote, base, buf, r, digits)
    BY <2>4, ValueModes
  <2>7. ValueKnown(mode', in'.start, in'.taken - 1, quote', base', buffer', result', digits')
    BY <1>2, <2>2, <2>5, <2>6
  <2> QED
    BY <2>2, <2>7, GoingOnValued
<1>6. CASE EndDigits
  <2>1. mode = "digits" /\ ~ IsDigitEx(At(e), base)
    BY <1>2, <1>6 DEF EndDigits
  <2>2. DigitsKnown(n, e, base, buffer) /\ SumKnown(n, e, base, result)
    BY <1>3, <2>1, KnownModes, ValueModes
  <2>3. result = Wrap(IntValue(Span(n, e)))
    BY <1>2, <2>1, <2>2, SumEnds
  <2>4. \/ Fail(in)
        \/ mode' = "float" /\ UNCHANGED << file, tokens >>
        \/ /\ mode' = "suffix" /\ in' = in /\ buffer' = << >>
           /\ UNCHANGED << file, token, quote, base, result, digits, tokens >>
    BY <1>6 DEF EndDigits, Goto
  <2>5. CASE /\ mode' = "suffix" /\ in' = in /\ buffer' = << >>
             /\ UNCHANGED << file, token, quote, base, result, digits, tokens >>
    <3>1. ValueKnown("suffix", n, e, quote, base, << >>, result, digits)
      BY <2>3, ValueModes
    <3>2. ValueKnown(mode', in'.start, in'.taken - 1, quote', base', buffer', result', digits')
      BY <1>1, <2>5, <3>1
    <3> QED
      BY <2>5, <3>2, GoingOnValued
  <2>6. CASE mode' = "float" /\ UNCHANGED << file, tokens >>
    BY <2>6, NothingValued
  <2> QED
    BY <1>f, <2>4, <2>5, <2>6
<1>7. CASE TakeSuffix
  <2>1. /\ mode = "suffix" /\ IsAlpha(At(e)) /\ in' = GetChar(in)
        /\ buffer' = Append(buffer, At(e))
        /\ UNCHANGED << file, mode, token, quote, base, result, digits, tokens >>
    BY <1>2, <1>7 DEF TakeSuffix, Keep
  <2>2. SuffixKnown(n, e + 1, Append(buffer, At(e)))
    BY <1>2, <1>3, <2>1, KnownModes, SuffixGoes
  <2>3. PICK buf : buf = Append(buffer, At(e))
    OBVIOUS
  <2>4. buf # << >>
    <3>1. SuffixKnown(n, e, buffer)
      BY <1>3, <2>1, KnownModes
    <3> QED
      BY <1>2, <2>3, <3>1, SuffixHasLength
  <2>5. ValueKnown("suffix", n, e + 1, quote, base, buf, result, digits)
    BY <2>4, ValueModes
  <2>6. ValueKnown(mode', in'.start, in'.taken - 1, quote', base', buffer', result', digits')
    BY <1>2, <2>1, <2>3, <2>5
  <2> QED
    BY <2>1, <2>6, GoingOnValued
<1>8. CASE EndSuffix
  <2>1. mode = "suffix" /\ (IF buffer # << >> THEN Fail(in) ELSE Emit("INT_CONST", result, in))
    BY <1>8 DEF EndSuffix
  <2>2. SuffixKnown(n, e, buffer)
    BY <1>3, <2>1, KnownModes
  <2>3. CASE buffer = << >>
    <3>1. n < e /\ IntegerAt(n, e)
      BY <1>2, <2>2, <2>3, SuffixEnds
    <3>2. result = Wrap(IntValue(Span(n, e)))
      BY <1>3, <2>1, <2>3, ValueModes
    <3>3. At(n) # "'"
      <4>1. At(n) = "0" \/ IsDigit(At(n))
        <5>1. n \in n .. e - 1
          BY <1>2, <3>1
        <5> QED
          BY <3>1, <5>1 DEF IntegerAt, DecimalAt, OctalAt, HexAt, DigitsIn
      <4>2. IsDigit(At(n))
        BY <4>1, CharactersDiffer
      <4> QED
        BY <4>2, ApostropheDiffers
    <3>4. ReadRightly("INT_CONST", result, n, e)
      BY <3>2, <3>3 DEF ReadRightly
    <3>5. Emit("INT_CONST", result, in) /\ in.start = n
      BY <1>1, <2>1, <2>3
    <3> QED
      BY <1>2, <3>1, <3>4, <3>5, ReturningValued
  <2> QED
    BY <1>f, <2>1, <2>3
<1> QED
  BY <1>4, <1>5, <1>6, <1>7, <1>8

\* of a float,
LEMMA InFloatValued ==
  ASSUME Follows, Moded, Covered, Munching, Valued,
         Point \/ TakeDigit \/ EndNumber \/ Exponent \/ EndFloat
  PROVE  Valued'
<1>1. CASE Point \/ TakeDigit \/ EndNumber \/ Exponent
  <2>1. mode' \in {"fraction", "exponent", "power", "float_end", "failed"}
    BY <1>1 DEF Point, TakeDigit, EndNumber, Exponent, Goto, Keep, Fail
  <2>2. UNCHANGED << file, tokens >>
    BY <1>1 DEF Point, TakeDigit, EndNumber, Exponent, Goto, Keep, Fail
  <2> QED
    BY <2>1, <2>2, NothingValued
<1>2. CASE EndFloat
  <2>1. PICK n, e : n = in.start /\ e = in.taken - 1
    OBVIOUS
  <2>2. n \in Nat /\ e \in Nat /\ in.taken = e + 1 /\ Reading(in)
    BY <2>1, Place
  <2>3. mode = "float_end" /\ Emit("FLOAT_CONST", buffer, in)
    BY <1>2 DEF EndFloat
  <2>4. FloatDone(n, e)
    BY <2>1, <2>3, KnownModes DEF Munching
  <2>5. PICK a \in n .. e : \E b \in a .. e : FloatAt(n, a, b, e)
    BY <2>4 DEF FloatDone
  <2>6. PICK b \in a .. e : FloatAt(n, a, b, e)
    BY <2>5
  <2>7. DigitsIn(n, a) /\ (a = b \/ At(a) = ".") /\ (n < a \/ a + 1 < b)
    BY <2>6 DEF FloatAt, MantissaAt
  <2>8. IsDigit(At(n)) \/ At(n) = "."
    <3>1. CASE n < a
      <4>1. n \in n .. a - 1
        BY <2>2, <3>1
      <4> QED
        BY <2>7, <4>1 DEF DigitsIn
    <3>2. CASE ~ (n < a)
      <4>1. n = a /\ a # b
        BY <2>2, <2>7, <3>2
      <4> QED
        BY <2>7, <4>1
    <3> QED
      BY <3>1, <3>2
  <2>9. ReadRightly("FLOAT_CONST", buffer, n, e)
    BY <2>8, ApostropheDiffers DEF ReadRightly
  <2>10. n < e /\ in.start = n
    BY <2>1, <2>2, <2>7
  <2> QED
    BY <2>2, <2>3, <2>9, <2>10, ReturningValued
<1> QED
  BY <1>1, <1>2

\* of a name, which are not asked for here,
LEMMA InNameValued ==
  ASSUME Follows, Moded, Covered, Munching, Valued, TakeIdent \/ EndIdent
  PROVE  Valued'
<1>1. CASE TakeIdent
  BY <1>1, NothingValued DEF TakeIdent, Keep
<1>2. CASE EndIdent
  <2>1. PICK n, e : n = in.start /\ e = in.taken - 1
    OBVIOUS
  <2>2. n \in Nat /\ e \in Nat /\ in.taken = e + 1 /\ Reading(in) /\ cur = At(e)
    BY <2>1, Place
  <2>3. mode = "ident" /\ ~ IsIdent(At(e))
    BY <1>2, <2>2 DEF EndIdent
  <2>4. n <= e /\ IsIdentStart(At(n))
    <3>1. NameKnown(n, e, buffer)
      BY <2>1, <2>3, KnownModes DEF Munching
    <3> QED
      BY <3>1 DEF NameKnown
  <2>5. n < e /\ At(n) # "'"
    <3>1. n # e
      BY <2>3, <2>4, CharactersDiffer
    <3> QED
      BY <2>2, <2>4, <3>1, ApostropheDiffers
  <2>6. \/ Fail(in)
        \/ buffer \in DOMAIN Keywords /\ Emit(Keywords[buffer], << >>, in)
        \/ Emit("IDENT", buffer, in)
    BY <1>2 DEF EndIdent
  <2>7. CASE buffer \in DOMAIN Keywords /\ Emit(Keywords[buffer], << >>, in)
    <3>1. PICK type : type = Keywords[buffer]
      OBVIOUS
    <3>2. type \notin {"STRING_CONST", "INT_CONST"}
      BY <2>7, <3>1, KeywordsAssumption DEF Range
    <3>3. ReadRightly(type, << >>, n, e)
      BY <2>5, <3>2 DEF ReadRightly
    <3>4. Emit(type, << >>, in) /\ in.start = n
      BY <2>1, <2>7, <3>1
    <3> QED
      BY <2>2, <2>5, <3>3, <3>4, ReturningValued
  <2>8. CASE Emit("IDENT", buffer, in)
    <3>1. ReadRightly("IDENT", buffer, n, e)
      BY <2>5 DEF ReadRightly
    <3>2. in.start = n
      BY <2>1
    <3> QED
      BY <2>2, <2>5, <2>8, <3>1, <3>2, ReturningValued
  <2>9. CASE Fail(in)
    BY <2>9, NothingValued DEF Fail
  <2> QED
    BY <2>6, <2>7, <2>8, <2>9
<1> QED
  BY <1>1, <1>2

\* of a comment
LEMMA InCommentsValued ==
  ASSUME Follows, Moded, Covered, Munching, Valued,
         TakeLineComment \/ EndLineComment \/ TakeComment \/ EndComment
  PROVE  Valued'
<1>1. PICK n, e : n = in.start /\ e = in.taken - 1
  OBVIOUS
<1>2. /\ n \in Nat /\ e \in Nat /\ in.taken = e + 1 /\ Reading(in) /\ cur = At(e)
      /\ GetChar(GetChar(in)).start = n /\ GetChar(GetChar(in)).taken - 1 = e + 2
      /\ Reading(GetChar(GetChar(in)))
  BY <1>1, Place
<1>3. mode \in CommentModes
  BY DEF TakeLineComment, EndLineComment, TakeComment, EndComment, CommentModes
<1>4. At(n) = "/" /\ mode \notin {"start", "failed"}
  <2>1. Known(mode, n, e, quote, base, buffer)
    BY <1>1 DEF Munching
  <2> QED
    BY <1>3, <2>1, Zenon DEF Known, CommentModes
<1>5. n <= e /\ At(n) # "'"
  BY <1>1, <1>4, PlaceInOrder, ApostropheDiffers
<1>6. CASE TakeLineComment \/ TakeComment
  <2>1. mode' \in {"line_comment", "comment"} /\ UNCHANGED << file, tokens >>
    BY <1>3, <1>6 DEF TakeLineComment, TakeComment, Keep, CommentModes
  <2> QED
    BY <2>1, NothingValued
<1>7. \A z : ReadRightly("COMMENT", buffer, n, z)
  BY <1>5 DEF ReadRightly
<1>8. CASE EndLineComment
  <2>1. Emit("COMMENT", buffer, in) /\ (At(e) = Nul \/ IsNewline(At(e)))
    BY <1>2, <1>8 DEF EndLineComment
  <2>2. n # e
    <3>1. Nul # "/" /\ ~ IsNewline("/")
      BY NulAssumption DEF IsNewline
    <3> QED
      BY <1>4, <2>1, <3>1
  <2>3. n < e /\ in.start = n
    BY <1>1, <1>2, <1>5, <2>2
  <2> QED
    BY <1>2, <1>7, <2>1, <2>3, ReturningValued
<1>9. CASE EndComment
  <2>1. CASE Fail(in)
    BY <2>1, NothingValued DEF Fail
  <2>2. CASE Emit("COMMENT", buffer, GetChar(GetChar(in)))
    <3>1. PICK s : s = GetChar(GetChar(in))
      OBVIOUS
    <3>2. /\ Emit("COMMENT", buffer, s) /\ Reading(s) /\ s.start = n /\ s.taken - 1 = e + 2
          /\ s.taken \in Nat
      BY <1>2, <2>2, <3>1, ReadingTypes
    <3>3. e + 2 \in Nat /\ n < e + 2 /\ s.taken = e + 2 + 1
      BY <1>2, <1>5, <3>2
    <3> QED
      BY <1>2, <1>7, <3>2, <3>3, ReturningValued
  <2> QED
    BY <1>9, <2>1, <2>2 DEF EndComment
<1> QED
  BY <1>6, <1>8, <1>9

\* and of a punctuator.
LEMMA AtPunctuatorValued ==
  ASSUME Follows, Moded, Covered, Munching, Valued, TakePunctuator
  PROVE  Valued'
<1>1. PICK n, e : n = in.start /\ e = in.taken - 1
  OBVIOUS
<1>2. n \in Nat /\ e \in Nat /\ in.taken = e + 1 /\ Reading(in) /\ IsFile
  BY <1>1, Place DEF Follows
<1>3. PICK p : p = Punctuator(in)
  OBVIOUS
<1>4. mode = "punctuator" /\ (IF p.type = "ERROR" THEN Fail(p.at) ELSE Emit(p.type, << >>, p.at))
  BY <1>3 DEF TakePunctuator
<1>5. /\ n = e /\ ~ IsDigit(At(n)) /\ ~ IsIdentStart(At(n))
      /\ ~ (At(n) = "." /\ IsDigit(At(n + 1)))
  <2>1. Known("punctuator", n, e, quote, base, buffer)
    BY <1>1, <1>4 DEF Munching
  <2> QED
    BY <2>1, KnownModes
<1>6. At(n) # "'"
  BY <1>1, <1>4, ValueModes DEF Valued
<1>7. CASE p.type = "ERROR"
  BY <1>4, <1>7, NothingValued DEF Fail
<1>8. CASE p.type # "ERROR"
  <2>1. PICK z \in Nat : /\ n < z /\ Reading(p.at) /\ p.at.start = n /\ p.at.taken = z + 1
                         /\ IsLexeme(Span(n, z), p.type) /\ NoLonger(n, z)
    BY <1>1, <1>2, <1>3, <1>5, <1>8, OperatorIsLongest
  <2>2. PICK type, s : type = p.type /\ s = p.at
    OBVIOUS
  <2>3. Emit(type, << >>, s)
    BY <1>4, <1>8, <2>2
  <2>4. ReadRightly(type, << >>, n, z)
    BY <1>3, <1>6, <2>2, PunctuatorIsNoConstant DEF ReadRightly
  <2> QED
    BY <1>2, <2>1, <2>2, <2>3, <2>4, ReturningValued
<1> QED
  BY <1>7, <1>8

\* The step goes on in a string, of which enough is known up to the place k.
StringGoesOn(n, k, buf, r, d) ==
  /\ UNCHANGED << file, quote, tokens >>
  /\ in'.start = n /\ in'.taken - 1 = k /\ buffer' = buf /\ result' = r /\ digits' = d
  /\ \A b : ValueKnown(mode', n, k, quote, b, buf, r, d)

LEMMA GoingOnInString ==
  ASSUME Valued, NEW n, NEW k, NEW buf, NEW r, NEW d, StringGoesOn(n, k, buf, r, d)
  PROVE  Valued'
<1>1. ValueKnown(mode', in'.start, in'.taken - 1, quote', base', buffer', result', digits')
  BY DEF StringGoesOn
<1> QED
  BY <1>1, GoingOnValued DEF StringGoesOn

\* of a string,
LEMMA InStringValued ==
  ASSUME Follows, Moded, Covered, Munching, Valued,
         OpenString \/ TakeChar \/ CloseString \/ NextString \/ EndString
  PROVE  Valued'
<1>1. PICK n, e : n = in.start /\ e = in.taken - 1
  OBVIOUS
<1>2. /\ n \in Nat /\ e \in Nat /\ in.taken = e + 1 /\ Reading(in) /\ cur = At(e)
      /\ GetChar(in).start = n /\ GetChar(in).taken - 1 = e + 1
  BY <1>1, Place
<1>3. mode \in {"string", "chars", "after_string"}
  BY DEF OpenString, TakeChar, CloseString, NextString, EndString
<1>4. At(n) = quote /\ quote \in Quotes /\ n <= e
  <2>1. Known(mode, n, e, quote, base, buffer)
    BY <1>1 DEF Munching
  <2>2. mode \in QuotingModes
    BY <1>3 DEF QuotingModes
  <2>3. At(n) = quote
    BY <2>1, <2>2, Zenon DEF Known
  <2>4. quote \in Quotes
    BY <2>2 DEF Moded
  <2> QED
    BY <1>1, <1>3, <2>3, <2>4, PlaceInOrder
<1>5. /\ mode \in {"string", "after_string"} => BetweenKnown(n, e, quote, buffer)
      /\ mode = "chars" => Inside(n, e, quote, buffer)
  BY <1>1, ValueModes DEF Valued
<1>6. CASE OpenString
  <2>1. /\ mode = "string" /\ At(e) = quote /\ mode' = "chars" /\ in' = GetChar(in)
        /\ UNCHANGED << file, quote, buffer, result, digits, tokens >>
    BY <1>2, <1>6 DEF OpenString, Goto
  <2>2. Inside(n, e + 1, quote, buffer)
    BY <1>2, <1>4, <1>5, <2>1, StringOpens
  <2>3. \A b : ValueKnown("chars", n, e + 1, quote, b, buffer, result, digits)
    BY <2>2, ValueModes
  <2>4. StringGoesOn(n, e + 1, buffer, result, digits)
    BY <1>2, <2>1, <2>3 DEF StringGoesOn
  <2> QED
    BY <2>4, GoingOnInString
<1>7. CASE TakeChar
  <2>1. PICK buf : buf = Append(buffer, Code[At(e)])
    OBVIOUS
  <2>2. /\ mode = "chars" /\ At(e) # quote /\ At(e) # "\\" /\ mode' = "chars" /\ in' = GetChar(in)
        /\ buffer' = buf /\ UNCHANGED << file, quote, result, digits, tokens >>
    BY <1>2, <1>7, <2>1 DEF TakeChar, Keep
  <2>3. Inside(n, e + 1, quote, buf)
    BY <1>2, <1>5, <2>1, <2>2, CharIsTaken
  <2>4. \A b : ValueKnown("chars", n, e + 1, quote, b, buf, result, digits)
    BY <2>3, ValueModes
  <2>5. StringGoesOn(n, e + 1, buf, result, digits)
    BY <1>2, <2>2, <2>4 DEF StringGoesOn
  <2> QED
    BY <2>5, GoingOnInString
<1>8. CASE CloseString
  <2>1. CASE Fail(in)
    BY <2>1, NothingValued DEF Fail
  <2>2. CASE cur = quote
    <3>1. /\ mode = "chars" /\ At(e) = quote /\ mode' = "after_string" /\ in' = GetChar(in)
          /\ UNCHANGED << file, quote, buffer, result, digits, tokens >>
      BY <1>2, <1>8, <2>2 DEF CloseString, Goto
    <3>2. BetweenKnown(n, e + 1, quote, buffer)
      BY <1>2, <1>4, <1>5, <3>1, StringCloses
    <3>3. \A b : ValueKnown("after_string", n, e + 1, quote, b, buffer, result, digits)
      BY <3>2, ValueModes
    <3>4. StringGoesOn(n, e + 1, buffer, result, digits)
      BY <1>2, <3>1, <3>3 DEF StringGoesOn
    <3> QED
      BY <3>4, GoingOnInString
  <2> QED
    BY <1>8, <2>1, <2>2 DEF CloseString
<1>9. CASE NextString
  <2>1. /\ mode = "after_string" /\ mode' = "string" /\ in' = in
        /\ UNCHANGED << file, quote, buffer, result, digits, tokens >>
    BY <1>9 DEF NextString, Goto
  <2>2. \A b : ValueKnown("string", n, e, quote, b, buffer, result, digits)
    BY <1>5, <2>1, ValueModes
  <2>3. StringGoesOn(n, e, buffer, result, digits)
    BY <1>1, <2>1, <2>2 DEF StringGoesOn
  <2> QED
    BY <2>3, GoingOnInString
<1>10. CASE EndString
  <2>1. mode = "string" /\ At(e) # quote
    BY <1>2, <1>10 DEF EndString
  <2>2. n < e /\ Meaning(Span(n, e), quote) = buffer
    BY <1>2, <1>4, <1>5, <2>1, StringMeans
  <2>3. in.start = n
    BY <1>1
  <2>4. CASE Fail(in)
    BY <2>4, NothingValued DEF Fail
  <2>5. CASE Emit("STRING_CONST", buffer, in)
    <3>1. ReadRightly("STRING_CONST", buffer, n, e)
      BY <1>4, <2>2 DEF ReadRightly
    <3> QED
      BY <1>2, <2>2, <2>3, <2>5, <3>1, ReturningValued
  <2>6. CASE quote # "\"" /\ Emit("INT_CONST", SignedChar(buffer[1]), in)
    <3>1. At(n) = "'"
      BY <1>4, <2>6 DEF Quotes
    <3>2. PICK value : value = SignedChar(buffer[1])
      OBVIOUS
    <3>3. ReadRightly("INT_CONST", value, n, e)
      BY <1>4, <2>2, <3>1, <3>2 DEF ReadRightly
    <3>4. Emit("INT_CONST", value, in)
      BY <2>6, <3>2
    <3> QED
      BY <1>2, <2>2, <2>3, <3>3, <3>4, ReturningValued
  <2> QED
    BY <1>10, <2>4, <2>5, <2>6 DEF EndString
<1> QED
  BY <1>6, <1>7, <1>8, <1>9, <1>10

\* of its escape sequences
LEMMA InEscapeValued ==
  ASSUME Follows, Moded, Covered, Munching, Valued,
         \/ Backslash \/ SimpleEscape \/ BeginHex \/ HexEscape
         \/ BeginOctal \/ AddOctal \/ OctalEscape
  PROVE  Valued'
<1>1. PICK n, e : n = in.start /\ e = in.taken - 1
  OBVIOUS
<1>2. /\ n \in Nat /\ e \in Nat /\ in.taken = e + 1 /\ Reading(in)
      /\ cur = At(e) /\ in.next_char = At(e + 1)
      /\ GetChar(in).start = n /\ GetChar(in).taken - 1 = e + 1
      /\ GetChar(GetChar(in)).start = n /\ GetChar(GetChar(in)).taken - 1 = e + 2
  BY <1>1, Place
<1>3. mode \in {"chars", "escape", "hex", "octal"}
  BY DEF Backslash, SimpleEscape, BeginHex, HexEscape, BeginOctal, AddOctal, OctalEscape
<1>4. quote \in Quotes
  BY <1>3 DEF Moded, QuotingModes
<1>5. /\ mode = "chars"  => Inside(n, e, quote, buffer)
      /\ mode = "escape" => EscapeKnown(n, e, quote, buffer)
      /\ mode = "hex"    => HexKnown(n, e, quote, buffer)
      /\ mode = "octal"  => OctalKnown(n, e, quote, buffer, result, digits)
  BY <1>1, ValueModes DEF Valued
<1>6. ASSUME NEW code, NEW s, Escaped(code, s), NEW k, s.start = n, s.taken - 1 = k,
             Inside(n, k, quote, Append(buffer, code))
      PROVE  Valued'
  <2>1. PICK buf : buf = Append(buffer, code)
    OBVIOUS
  <2>2. /\ mode' = "chars" /\ in' = s /\ buffer' = buf
        /\ UNCHANGED << file, quote, result, digits, tokens >>
    BY <1>6, <2>1 DEF Escaped, Goto
  <2>3. \A b : ValueKnown("chars", n, k, quote, b, buf, result, digits)
    BY <1>6, <2>1, ValueModes
  <2>4. StringGoesOn(n, k, buf, result, digits)
    BY <1>6, <2>2, <2>3 DEF StringGoesOn
  <2> QED
    BY <2>4, GoingOnInString
<1>7. CASE Backslash
  <2>1. /\ mode = "chars" /\ At(e) = "\\" /\ mode' = "escape" /\ in' = GetChar(in)
        /\ UNCHANGED << file, quote, buffer, result, digits, tokens >>
    BY <1>2, <1>7 DEF Backslash, Goto
  <2>2. EscapeKnown(n, e + 1, quote, buffer)
    BY <1>2, <1>5, <2>1, EscapeBegins
  <2>3. \A b : ValueKnown("escape", n, e + 1, quote, b, buffer, result, digits)
    BY <2>2, ValueModes
  <2>4. StringGoesOn(n, e + 1, buffer, result, digits)
    BY <1>2, <2>1, <2>3 DEF StringGoesOn
  <2> QED
    BY <2>4, GoingOnInString
<1>8. CASE SimpleEscape
  <2>1. PICK code, s : code = Escapes[At(e)] /\ s = GetChar(in)
    OBVIOUS
  <2>2. mode = "escape" /\ At(e) \in DOMAIN Escapes /\ Escaped(code, s)
    BY <1>2, <1>8, <2>1 DEF SimpleEscape
  <2>3. Inside(n, e + 1, quote, Append(buffer, code))
    BY <1>2, <1>4, <1>5, <2>1, <2>2, SimpleIsTaken
  <2> QED
    BY <1>2, <1>6, <2>1, <2>2, <2>3
<1>9. CASE BeginHex
  <2>1. /\ mode = "escape" /\ At(e) = "x" /\ mode' = "hex" /\ in' = GetChar(in)
        /\ UNCHANGED << file, quote, buffer, result, digits, tokens >>
    BY <1>2, <1>9 DEF BeginHex, Goto
  <2>2. HexKnown(n, e + 1, quote, buffer)
    BY <1>2, <1>5, <2>1, HexBegins
  <2>3. \A b : ValueKnown("hex", n, e + 1, quote, b, buffer, result, digits)
    BY <2>2, ValueModes
  <2>4. StringGoesOn(n, e + 1, buffer, result, digits)
    BY <1>2, <2>1, <2>3 DEF StringGoesOn
  <2> QED
    BY <2>4, GoingOnInString
<1>10. CASE HexEscape
  <2>1. PICK a, b : a = DigitValue(At(e)) * 16 + DigitValue(At(e + 1)) /\ b = DigitValue(At(e))
    OBVIOUS
  <2>2. PICK s, t : s = GetChar(GetChar(in)) /\ t = GetChar(in)
    OBVIOUS
  <2>3. /\ mode = "hex"
        /\ \/ Fail(in)
           \/ IsHexdigit(At(e)) /\ IsHexdigit(At(e + 1)) /\ Escaped(a, s)
           \/ IsHexdigit(At(e)) /\ ~ IsHexdigit(At(e + 1)) /\ Escaped(b, t)
    BY <1>2, <1>10, <2>1, <2>2 DEF HexEscape
  <2>4. CASE Fail(in)
    BY <2>4, NothingValued DEF Fail
  <2>5. CASE IsHexdigit(At(e)) /\ IsHexdigit(At(e + 1)) /\ Escaped(a, s)
    <3>1. Inside(n, e + 2, quote, Append(buffer, a))
      BY <1>2, <1>4, <1>5, <2>1, <2>3, <2>5, HexOfTwo
    <3> QED
      BY <1>2, <1>6, <2>2, <2>5, <3>1
  <2>6. CASE IsHexdigit(At(e)) /\ ~ IsHexdigit(At(e + 1)) /\ Escaped(b, t)
    <3>1. Inside(n, e + 1, quote, Append(buffer, b))
      BY <1>2, <1>4, <1>5, <2>1, <2>3, <2>6, HexOfOne
    <3> QED
      BY <1>2, <1>6, <2>2, <2>6, <3>1
  <2> QED
    BY <2>3, <2>4, <2>5, <2>6
<1>11. CASE BeginOctal
  <2>1. CASE Fail(in)
    BY <2>1, NothingValued DEF Fail
  <2>2. CASE IsOctdigit(At(e))
    <3>1. /\ mode = "escape" /\ mode' = "octal" /\ in' = in /\ result' = 0 /\ digits' = 0
          /\ UNCHANGED << file, quote, buffer, tokens >>
      BY <1>2, <1>11, <2>2 DEF BeginOctal, Goto
    <3>2. OctalKnown(n, e, quote, buffer, 0, 0)
      BY <1>2, <1>5, <2>2, <3>1, OctalBegins
    <3>3. \A b : ValueKnown("octal", n, e, quote, b, buffer, 0, 0)
      BY <3>2, ValueModes
    <3>4. StringGoesOn(n, e, buffer, 0, 0)
      BY <1>1, <3>1, <3>3 DEF StringGoesOn
    <3> QED
      BY <3>4, GoingOnInString
  <2> QED
    BY <1>2, <1>11, <2>1, <2>2 DEF BeginOctal
<1>12. CASE AddOctal
  <2>1. PICK r, d : r = result * 8 + DigitValue(At(e)) /\ d = digits + 1
    OBVIOUS
  <2>2. /\ mode = "octal" /\ digits < 3 /\ IsOctdigit(At(e)) /\ mode' = "octal"
        /\ in' = GetChar(in) /\ result' = r /\ digits' = d
        /\ UNCHANGED << file, quote, buffer, tokens >>
    BY <1>2, <1>12, <2>1 DEF AddOctal
  <2>3. OctalKnown(n, e + 1, quote, buffer, r, d)
    BY <1>2, <1>5, <2>1, <2>2, OctalGoes
  <2>4. \A b : ValueKnown("octal", n, e + 1, quote, b, buffer, r, d)
    BY <2>3, ValueModes
  <2>5. StringGoesOn(n, e + 1, buffer, r, d)
    BY <1>2, <2>2, <2>4 DEF StringGoesOn
  <2> QED
    BY <2>5, GoingOnInString
<1>13. CASE OctalEscape
  <2>1. mode = "octal" /\ (digits = 3 \/ ~ IsOctdigit(At(e))) /\ (Fail(in) \/ Escaped(result, in))
    BY <1>2, <1>13 DEF OctalEscape
  <2>2. CASE Fail(in)
    BY <2>2, NothingValued DEF Fail
  <2>3. CASE Escaped(result, in)
    <3>1. Inside(n, e, quote, Append(buffer, result))
      BY <1>2, <1>4, <1>5, <2>1, OctalIsTaken
    <3>2. in.start = n /\ in.taken - 1 = e
      BY <1>1
    <3> QED
      BY <1>6, <2>3, <3>1, <3>2
  <2> QED
    BY <2>1, <2>2, <2>3
<1> QED
  BY <1>7, <1>8, <1>9, <1>10, <1>11, <1>12, <1>13

----------------------------------------------------------------------------
(* What the lexer makes of a token *)

\* What has been summed up and collected is the value of the text so far, in every state.
THEOREM LexerReadsValues == Spec => []Valued
<1>1. Init => Valued
  <2> SUFFICES ASSUME Init PROVE Valued
    OBVIOUS
  <2>1. mode = "start" /\ tokens = << >>
    BY DEF Init
  <2>2. ValueKnown(mode, in.start, in.taken - 1, quote, base, buffer, result, digits)
    BY <2>1, ValueModes
  <2> QED
    BY <2>1, <2>2 DEF Valued
<1>2. Follows /\ Moded /\ Covered /\ Munching /\ Valued /\ [Next]_vars => Valued'
  <2> SUFFICES ASSUME Follows, Moded, Covered, Munching, Valued, [Next]_vars PROVE Valued'
    OBVIOUS
  <2>1. CASE UNCHANGED vars
    <3>1. UNCHANGED << file, in, mode, quote, buffer, base, result, digits, tokens >>
      BY <2>1 DEF vars
    <3>2. ValueKnown(mode', in'.start, in'.taken - 1, quote', base', buffer', result', digits')
      BY <3>1 DEF Valued
    <3> QED
      BY <3>1, <3>2, GoingOnValued
  <2>2. CASE Next
    BY <2>2, BetweenTokensValued, InIntegerValued, InFloatValued, InNameValued, InCommentsValued,
       InStringValued, InEscapeValued, AtPunctuatorValued DEF Next
  <2> QED
    BY <2>1, <2>2
<1> QED
  BY <1>1, <1>2, LexerFollowsFile, LexerKnowsItsMode, LexerCoversFile, LexerMunches, PTL DEF Spec

\* ValuesAreRead: the value of an integer constant, of a character and of a string is what
\* its text means.
THEOREM LexerValuesAreRead == Spec => []ValuesAreRead
<1>1. Valued => ValuesAreRead
  BY DEF Valued, ValueRead, ValuesAreRead
<1> QED
  BY <1>1, LexerReadsValues, PTL
=============================================================================
