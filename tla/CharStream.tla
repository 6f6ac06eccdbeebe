----------------------------- MODULE CharStream -----------------------------
(***************************************************************************)
(* The stream of lexer.c: a file read block by block, the two characters   *)
(* the lexer looks at, and the text of the token it is in.                 *)
(*                                                                         *)
(* The static variables of lexer.c are the fields of one record "in",      *)
(* since most functions of the lexer call get_char several times.  Two     *)
(* fields are history: "taken", the calls of get_char so far, and "start", *)
(* where in the file the text of the token begins.                         *)
(***************************************************************************)
EXTENDS Integers, Sequences

CONSTANTS StreamSize,    \* of stream_buffer: 4096
          Nul            \* the character 0, which also stands for the end of the file

ASSUME StreamAssumption == StreamSize \in Nat \ {0}

VARIABLES file,          \* the characters of the file
          in

At(k) == IF k \in 1 .. Len(file) THEN file[k] ELSE Nul

Symbols == {file[k] : k \in DOMAIN file} \cup {Nul}

Streams ==
  [offset : Nat, stream_buffer : Seq(Symbols), stream_buffer_pos : Nat,
   cur_char : Symbols, next_char : Symbols, text_buffer : Seq(Symbols),
   line : Nat, column : Int, taken : Nat, start : Nat]

\* What fread returns once the first n characters have been read.
Block(n) == SubSeq(file, n + 1, IF n + StreamSize < Len(file) THEN n + StreamSize ELSE Len(file))

ReadStream(s) ==
  [s EXCEPT !.stream_buffer = Block(s.offset),
            !.offset = s.offset + Len(Block(s.offset)),
            !.stream_buffer_pos = 0]

\* cur_char follows next_char, into the text of the token too.
Shifted(s) ==
  [s EXCEPT !.cur_char = s.next_char, !.text_buffer = Append(s.text_buffer, s.next_char),
            !.column = s.column + 1, !.taken = s.taken + 1]

Peeked(s) ==
  [s EXCEPT !.next_char = s.stream_buffer[s.stream_buffer_pos + 1],
            !.stream_buffer_pos = s.stream_buffer_pos + 1]

\* A slip: the block is filled only by the call that finds it used up.
GetCharLate(s) ==
  IF s.stream_buffer_pos < Len(s.stream_buffer)
  THEN Shifted(Peeked(s))
  ELSE [ReadStream(Shifted(s)) EXCEPT !.next_char = Nul]

GetChar(s) ==
  LET t == Shifted(s) IN
  IF t.stream_buffer_pos >= Len(t.stream_buffer) THEN [t EXCEPT !.next_char = Nul]
  ELSE IF t.stream_buffer_pos + 1 = Len(t.stream_buffer) THEN ReadStream(Peeked(t))
  ELSE Peeked(t)

Opened ==
  ReadStream([offset |-> 0, stream_buffer |-> << >>, stream_buffer_pos |-> 0,
              cur_char |-> Nul, next_char |-> Nul, text_buffer |-> << >>,
              line |-> 1, column |-> -1, taken |-> 0, start |-> 0])

\* The characters of the file from one place to before another.
Span(from, to) == [k \in 1 .. to - from |-> At(from + k - 1)]

----------------------------------------------------------------------------
(* What the two characters and the text stand for *)

\* The block holds the characters that were read last, and next_char is the one before
\* the first of it that was not looked at: only at the end of the file is it used up.
BlockOnFile(s) ==
  /\ s.offset \in 0 .. Len(file) /\ Len(s.stream_buffer) <= s.offset
  /\ \A k \in DOMAIN s.stream_buffer :
        s.stream_buffer[k] = file[s.offset - Len(s.stream_buffer) + k]
  /\ \/ /\ s.stream_buffer_pos \in 0 .. Len(s.stream_buffer) - 1
        /\ s.taken = s.offset - Len(s.stream_buffer) + s.stream_buffer_pos
     \/ s.stream_buffer = << >> /\ s.stream_buffer_pos = 0
        /\ s.offset = Len(file) /\ s.taken >= Len(file)

\* cur_char and next_char are the characters of the file at the place the lexer has
\* counted to, whatever the size of the blocks, and text_buffer is the file from the start
\* of the token up to cur_char.
WindowOn(s) ==
  /\ s.cur_char = At(s.taken - 1) /\ s.next_char = At(s.taken)
  /\ s.start \in 0 .. s.taken /\ s.text_buffer = Span(s.start, s.taken)

=============================================================================
