---------------------------- MODULE BufferProofs ----------------------------
(***************************************************************************)
(* The text of a buffer lies in the memory the buffer has and is the text  *)
(* that was appended, for every initial size and however the block was     *)
(* resized.                                                                *)
(***************************************************************************)
EXTENDS Buffer, SequenceTheorems, TLAPS

IInv == TypeOK /\ TextInMemory

LEMMA StringsAreSequences ==
  ASSUME NEW cs \in Strings
  PROVE  Len(cs) \in 0 .. MaxUsed /\ cs \in [1 .. Len(cs) -> Chars]
BY BufferAssumption DEF Strings

\* Making room keeps what was there and what the buffer counts on.
LEMMA RoomIsMade ==
  ASSUME IInv, NEW capacity \in 0 .. MaxUsed
  PROVE  LET room == EnsureCapacity(capacity)
         IN  /\ \E n \in 0 .. InitialSize + MaxUsed : room \in [1 .. n -> Chars \cup {Junk}]
             /\ 1 .. size \subseteq DOMAIN room
             /\ 1 .. capacity \subseteq DOMAIN room
             /\ \A k \in DOMAIN room : k \in DOMAIN memory => room[k] = memory[k]
<1> USE DEF IInv, TypeOK, TextInMemory
<1>1. CASE capacity > size
  BY <1>1, BufferAssumption DEF EnsureCapacity
<1>2. CASE ~(capacity > size)
  BY <1>2, BufferAssumption DEF EnsureCapacity
<1> QED
  BY <1>1, <1>2

\* Writing a string keeps the block.
LEMMA WritingKeepsTheBlock ==
  ASSUME NEW n \in Nat, NEW mem \in [1 .. n -> Chars \cup {Junk}],
         NEW cs \in Strings, NEW at \in Nat
  PROVE  /\ Written(mem, at, cs) \in [1 .. n -> Chars \cup {Junk}]
         /\ \A k \in 1 .. n :
              Written(mem, at, cs)[k] = IF k \in at + 1 .. at + Len(cs) THEN cs[k - at] ELSE mem[k]
<1>1. \A k \in at + 1 .. at + Len(cs) : cs[k - at] \in Chars
  BY StringsAreSequences, BufferAssumption
<1> QED
  BY <1>1 DEF Written

\* What the two operations that append have in common.
LEMMA AppendingExtendsTheText ==
  ASSUME IInv, NEW cs \in Strings, used + Len(cs) <= MaxUsed,
         memory' = Written(EnsureCapacity(used + Len(cs)), used, cs),
         used' = used + Len(cs), UNCHANGED size
  PROVE  IInv' /\ Contents' = Contents \o cs
<1> DEFINE room == EnsureCapacity(used + Len(cs))
<1> USE DEF IInv
<1>1. Len(cs) \in Nat /\ used \in Nat /\ used + Len(cs) \in 0 .. MaxUsed
  BY StringsAreSequences, BufferAssumption DEF TypeOK
<1>2. PICK n \in 0 .. InitialSize + MaxUsed : room \in [1 .. n -> Chars \cup {Junk}]
  BY <1>1, RoomIsMade
<1>3. /\ 1 .. size \subseteq 1 .. n /\ 1 .. used + Len(cs) \subseteq 1 .. n
      /\ \A k \in 1 .. n : k \in DOMAIN memory => room[k] = memory[k]
  BY <1>1, <1>2, RoomIsMade
<1>4. /\ memory' \in [1 .. n -> Chars \cup {Junk}]
      /\ \A k \in 1 .. n :
           memory'[k] = IF k \in used + 1 .. used + Len(cs) THEN cs[k - used] ELSE room[k]
  BY <1>1, <1>2, WritingKeepsTheBlock, BufferAssumption
<1> HIDE DEF room
<1>5. \A k \in 1 .. used : memory'[k] = memory[k] /\ memory[k] \in Chars
  <2> SUFFICES ASSUME NEW k \in 1 .. used
               PROVE  memory'[k] = memory[k] /\ memory[k] \in Chars
    OBVIOUS
  <2>1. k \in 1 .. used + Len(cs) /\ k \notin used + 1 .. used + Len(cs)
    BY <1>1
  <2>2. memory'[k] = room[k]
    BY <1>3, <1>4, <2>1
  <2> QED
    BY <1>3, <2>1, <2>2 DEF TextInMemory
<1>6. \A k \in used + 1 .. used + Len(cs) : memory'[k] = cs[k - used] /\ memory'[k] \in Chars
  <2> SUFFICES ASSUME NEW k \in used + 1 .. used + Len(cs)
               PROVE  memory'[k] = cs[k - used] /\ memory'[k] \in Chars
    OBVIOUS
  <2>1. k \in 1 .. used + Len(cs) /\ k - used \in 1 .. Len(cs)
    BY <1>1
  <2>2. memory'[k] = cs[k - used]
    BY <1>3, <1>4, <2>1
  <2> QED
    BY <2>1, <2>2, StringsAreSequences
<1>7. TypeOK'
  BY <1>1, <1>4 DEF TypeOK
<1>8. TextInMemory'
  BY <1>1, <1>3, <1>4, <1>5, <1>6 DEF TextInMemory, TypeOK
<1>9. Contents' = Contents \o cs
  <2>1. Contents \in Seq(Chars) /\ Len(Contents) = used /\ cs \in Seq(Chars)
    BY <1>1, <1>5, StringsAreSequences DEF Contents
  <2>2. Contents' \in Seq(Chars) /\ Len(Contents') = used + Len(cs)
    BY <1>1, <1>5, <1>6 DEF Contents
  <2>3. \A k \in 1 .. used + Len(cs) : Contents'[k] = (Contents \o cs)[k]
    BY <1>1, <1>5, <1>6, <2>1, ConcatProperties DEF Contents
  <2> QED
    BY <1>1, <2>1, <2>2, <2>3, ConcatProperties, SeqEqual
<1> QED
  BY <1>7, <1>8, <1>9

LEMMA InvInit == Init => IInv
  BY BufferAssumption DEF Init, IInv, TypeOK, TextInMemory, Fresh

\* A step keeps the invariant and is one of the text, or leaves it as it is.
LEMMA StepOfText == IInv /\ [Next]_vars => IInv' /\ [Abstract!Next]_Contents
<1> SUFFICES ASSUME IInv, [Next]_vars PROVE IInv' /\ [Abstract!Next]_Contents
  OBVIOUS
<1>1. ASSUME NEW c \in Chars, AppendChar(c) PROVE IInv' /\ [Abstract!Next]_Contents
  <2>1. Len(<< c >>) = 1 /\ << c >> \in [1 .. 1 -> Chars]
    OBVIOUS
  <2>2. << c >> \in Strings
    BY <1>1, <2>1, BufferAssumption DEF Strings, AppendChar, IInv, TypeOK
  <2>3. IInv' /\ Contents' = Contents \o << c >>
    BY <1>1, <2>1, <2>2, AppendingExtendsTheText DEF AppendChar
  <2>4. Contents \in Seq(Chars)
    BY DEF IInv, TypeOK, TextInMemory, Contents
  <2>5. Contents \o << c >> = Append(Contents, c)
    BY <2>4
  <2> QED
    BY <2>3, <2>5 DEF Abstract!Next, Abstract!AppendChar
<1>2. ASSUME NEW cs \in Strings, AppendString(cs) PROVE IInv' /\ [Abstract!Next]_Contents
  BY <1>2, AppendingExtendsTheText DEF AppendString, Abstract!Next, Abstract!AppendText
<1>3. CASE Reset
  <2>1. IInv'
    BY <1>3 DEF Reset, IInv, TypeOK, TextInMemory
  <2>2. Contents' = << >>
    BY <1>3 DEF Reset, Contents
  <2> QED
    BY <2>1, <2>2 DEF Abstract!Next, Abstract!Reset
<1>4. ASSUME NEW capacity \in 0 .. MaxUsed, NEW cs \in Strings, PrintValue(capacity, cs)
      PROVE  IInv' /\ [Abstract!Next]_Contents
  <2> DEFINE room == EnsureCapacity(capacity)
  <2>1. PICK n \in 0 .. InitialSize + MaxUsed : room \in [1 .. n -> Chars \cup {Junk}]
    BY RoomIsMade
  <2>2. 1 .. size \subseteq 1 .. n
    BY <2>1, RoomIsMade
  <2>3. memory' \in [1 .. n -> Chars \cup {Junk}] /\ used' = 0 /\ UNCHANGED size
    BY <1>4, <2>1, WritingKeepsTheBlock, BufferAssumption DEF PrintValue
  <2>4. IInv'
    BY <2>2, <2>3 DEF IInv, TypeOK, TextInMemory
  <2>5. Contents' = << >>
    BY <2>3 DEF Contents
  <2> QED
    BY <2>4, <2>5 DEF Abstract!Next, Abstract!Reset
<1>5. CASE UNCHANGED vars
  BY <1>5 DEF vars, IInv, TypeOK, TextInMemory, Contents
<1> QED
  BY <1>1, <1>2, <1>3, <1>4, <1>5 DEF Next

\* The block never outgrows the initial size and the longest text together: what is asked of
\* realloc is computed from a size that growing leaves as it was (buffer.c:21-26).
THEOREM TypeCorrect == Spec => []TypeOK
<1>1. IInv => TypeOK
  BY DEF IInv
<1> QED
  BY InvInit, StepOfText, <1>1, PTL DEF Spec

\* The text lies in the memory there is and all of it has been written, though the buffer
\* does not know how much memory it has once it has grown (buffer.c:21-26).
THEOREM TextStaysInMemory == Spec => []TextInMemory
<1>1. IInv => TextInMemory
  BY DEF IInv
<1> QED
  BY InvInit, StepOfText, <1>1, PTL DEF Spec

\* The buffer is the text it promises to be: no reallocation loses a character.
THEOREM BufferIsText == Spec => ImplementsText
<1>1. Init => Abstract!Init
  BY DEF Init, Abstract!Init, Contents
<1> QED
  BY InvInit, StepOfText, <1>1, PTL DEF Spec, ImplementsText, Abstract!Spec
=============================================================================
