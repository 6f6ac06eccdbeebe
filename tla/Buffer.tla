------------------------------- MODULE Buffer -------------------------------
(***************************************************************************)
(* buffer.c: a growing array of characters, and the one client that writes *)
(* into it behind its back (lexer_token_value).                            *)
(*                                                                         *)
(* memory is what malloc and realloc gave: its length is the real size of  *)
(* the block, which "size" does not follow once the buffer has grown, so   *)
(* that each further append reallocates it, to more than it had or less.   *)
(***************************************************************************)
EXTENDS Integers, Sequences

CONSTANTS Chars,
          Junk,          \* what is found in memory nobody has set
          InitialSize,   \* of buffer_create
          MaxUsed        \* a bound on the text

ASSUME BufferAssumption == InitialSize \in Nat /\ MaxUsed \in Nat /\ Junk \notin Chars

VARIABLES memory, used, size

vars == << memory, used, size >>

Fresh(n) == [k \in 1 .. n |-> Junk]

Init == memory = Fresh(InitialSize) /\ used = 0 /\ size = InitialSize

\* A slip: room for twice what was asked for.
EnsureTwice(capacity) ==
  IF capacity > size
  THEN [k \in 1 .. 2 * capacity |-> IF k \in DOMAIN memory THEN memory[k] ELSE Junk]
  ELSE memory

\* buffer_ensure_capacity: realloc keeps what fits and leaves the rest unset.
EnsureCapacity(capacity) ==
  IF capacity > size
  THEN [k \in 1 .. capacity |-> IF k \in DOMAIN memory THEN memory[k] ELSE Junk]
  ELSE memory

\* Write cs from the position at on.
Written(mem, at, cs) ==
  [k \in DOMAIN mem |-> IF k \in at + 1 .. at + Len(cs) THEN cs[k - at] ELSE mem[k]]

\* A slip: room for the string alone.
AppendStringUnroomed(cs) ==
  /\ used + Len(cs) <= MaxUsed
  /\ memory' = Written(EnsureCapacity(Len(cs)), used, cs)
  /\ used' = used + Len(cs)
  /\ UNCHANGED size

AppendString(cs) ==
  /\ used + Len(cs) <= MaxUsed
  /\ memory' = Written(EnsureCapacity(used + Len(cs)), used, cs)
  /\ used' = used + Len(cs)
  /\ UNCHANGED size

AppendChar(c) ==
  /\ used + 1 <= MaxUsed
  /\ memory' = Written(EnsureCapacity(used + 1), used, << c >>)
  /\ used' = used + 1
  /\ UNCHANGED size

Reset == used' = 0 /\ UNCHANGED << memory, size >>

\* A slip: the text is not emptied.
PrintValueUnreset(capacity, cs) ==
  /\ capacity <= MaxUsed /\ (Len(cs) <= capacity \/ Len(cs) <= size)
  /\ memory' = Written(EnsureCapacity(capacity), 0, cs)
  /\ UNCHANGED << used, size >>

\* lexer_token_value: the text is emptied, room is made for "capacity" characters and cs
\* is printed there without being counted.  A name is given the room it needs; a number
\* relies on the initial size, as 16 characters do not hold every one that is printed.
PrintValue(capacity, cs) ==
  /\ capacity <= MaxUsed /\ (Len(cs) <= capacity \/ Len(cs) <= size)
  /\ used' = 0
  /\ memory' = Written(EnsureCapacity(capacity), 0, cs)
  /\ UNCHANGED size

Strings == UNION {[1 .. n -> Chars] : n \in 0 .. MaxUsed}

Next ==
  \/ \E c \in Chars : AppendChar(c)
  \/ \E cs \in Strings : AppendString(cs)
  \/ Reset
  \/ \E capacity \in 0 .. MaxUsed, cs \in Strings : PrintValue(capacity, cs)

Spec == Init /\ [][Next]_vars

(***************************************************************************)
(* Properties                                                              *)
(***************************************************************************)

\* The text and its capacity are numbers and the memory an array of characters.
TypeOK ==
  /\ used \in Nat /\ size \in Nat
  /\ \E n \in 0 .. InitialSize + MaxUsed : memory \in [1 .. n -> Chars \cup {Junk}]

\* The text lies inside the memory there is, though size does not say how much that is,
\* and all of it has been written: buffer_data and buffer_data_copy read nothing else.
TextInMemory ==
  /\ 1 .. size \subseteq DOMAIN memory
  /\ 1 .. used \subseteq DOMAIN memory
  /\ \A k \in 1 .. used : memory[k] \in Chars

\* What is read back is what was appended, whichever way realloc has resized the block.
Contents == [k \in 1 .. used |-> memory[k]]
Abstract == INSTANCE Text WITH text <- Contents
ImplementsText == Abstract!Spec
=============================================================================
