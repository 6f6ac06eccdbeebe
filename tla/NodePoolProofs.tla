--------------------------- MODULE NodePoolProofs ---------------------------
(***************************************************************************)
(* Of the pull: that pull_add, which writes without a look at the room     *)
(* there is, has it, and that the chain of blocks is a bag of pointers to  *)
(* its users, for every capacity of a block and every length of the chain. *)
(* Of the parser above it: that it loses nothing it must free and frees    *)
(* nothing twice, for every number of allocations.                         *)
(***************************************************************************)
EXTENDS NodePool, SequenceTheorems, FiniteSetTheorems, TLAPS

----------------------------------------------------------------------------
(* The pull *)

IsChain == blocks \in Seq(Seq(Ptrs))

\* The chain a pull begins with.
LEMMA ChainInit == PullInit => IsChain /\ HeadHasRoom
  BY PullAssumption DEF PullInit, IsChain, HeadHasRoom

\* pull_add fills a slot, and makes a new head when that was the last.
LEMMA AddKeepsRoom ==
  ASSUME IsChain, HeadHasRoom, NEW p \in Ptrs, Add(p)
  PROVE  (IsChain /\ HeadHasRoom)'
<1> DEFINE filled == Append(Head(blocks), p)
           rest   == Tail(blocks)
<1> USE DEF IsChain, HeadHasRoom
<1>1. Head(blocks) \in Seq(Ptrs) /\ Head(blocks) = blocks[1] /\ Len(blocks[1]) < BlockCapacity
  OBVIOUS
<1>2. filled \in Seq(Ptrs) /\ Len(filled) = Len(blocks[1]) + 1
  BY <1>1
<1>3. /\ rest \in Seq(Seq(Ptrs))
      /\ \A n \in DOMAIN rest : Len(rest[n]) = BlockCapacity
  OBVIOUS
<1> HIDE DEF filled, rest
<1>4. CASE Len(filled) = BlockCapacity /\ blocks' = << << >>, filled >> \o rest
  <2> DEFINE front == << << >>, filled >>
  <2>1. front \in Seq(Seq(Ptrs)) /\ Len(front) = 2 /\ front[1] = << >> /\ front[2] = filled
    BY <1>2
  <2> HIDE DEF front
  <2>2. blocks' = front \o rest
    BY <1>4 DEF front
  <2>3. /\ front \o rest \in Seq(Seq(Ptrs)) /\ Len(front \o rest) = Len(front) + Len(rest)
        /\ \A n \in 1 .. Len(front) + Len(rest) :
             (front \o rest)[n] = IF n <= Len(front) THEN front[n] ELSE rest[n - Len(front)]
    BY <1>3, <2>1, ConcatProperties, Zenon
  <2>4. blocks' \in Seq(Seq(Ptrs)) /\ DOMAIN blocks' = 1 .. Len(front) + Len(rest)
    BY <2>2, <2>3
  <2>5. \A n \in DOMAIN blocks' : blocks'[n] = IF n <= 2 THEN front[n] ELSE rest[n - 2]
    BY <1>3, <2>1, <2>2, <2>3, <2>4
  <2> QED
    BY <1>3, <1>4, <2>1, <2>4, <2>5, PullAssumption
<1>5. CASE Len(filled) # BlockCapacity /\ blocks' = << filled >> \o rest
  <2> DEFINE front == << filled >>
  <2>1. front \in Seq(Seq(Ptrs)) /\ Len(front) = 1 /\ front[1] = filled
    BY <1>2
  <2> HIDE DEF front
  <2>2. blocks' = front \o rest
    BY <1>5 DEF front
  <2>3. /\ front \o rest \in Seq(Seq(Ptrs)) /\ Len(front \o rest) = Len(front) + Len(rest)
        /\ \A n \in 1 .. Len(front) + Len(rest) :
             (front \o rest)[n] = IF n <= Len(front) THEN front[n] ELSE rest[n - Len(front)]
    BY <1>3, <2>1, ConcatProperties, Zenon
  <2>4. blocks' \in Seq(Seq(Ptrs)) /\ DOMAIN blocks' = 1 .. Len(front) + Len(rest)
    BY <2>2, <2>3
  <2>5. \A n \in DOMAIN blocks' : blocks'[n] = IF n = 1 THEN filled ELSE rest[n - 1]
    BY <1>3, <2>1, <2>2, <2>3, <2>4
  <2>6. Len(filled) < BlockCapacity
    BY <1>1, <1>2, <1>5, PullAssumption
  <2>7. \A n \in DOMAIN blocks' : n # 1 => Len(blocks'[n]) = BlockCapacity
    BY <1>3, <2>1, <2>4, <2>5
  <2>8. Len(rest) \in Nat
    BY <1>3
  <2>9. 1 \in DOMAIN blocks'
    BY <2>1, <2>4, <2>8
  <2>10. blocks'[1] = filled
    BY <2>5, <2>9
  <2> QED
    BY <2>4, <2>6, <2>7, <2>9, <2>10
<1> QED
  BY <1>4, <1>5 DEF Add, filled, rest

\* An operation of the chain leaves it a chain whose head has room.
LEMMA ChainStaysRoomy ==
  ASSUME IsChain, HeadHasRoom, [PullNext]_pullVars
  PROVE  (IsChain /\ HeadHasRoom)'
<1>1. ASSUME NEW p \in Ptrs, Add(p) PROVE (IsChain /\ HeadHasRoom)'
  BY <1>1, AddKeepsRoom
<1>2. CASE blocks' = << << >> >>
  BY <1>2, PullAssumption DEF IsChain, HeadHasRoom
<1>3. CASE UNCHANGED pullVars
  BY <1>3 DEF pullVars, IsChain, HeadHasRoom
<1> QED
  BY <1>1, <1>2, <1>3 DEF PullNext, Clear, FreeObjects

\* The inductive invariant.
THEOREM PullIsChain == PullSpec => [](IsChain /\ HeadHasRoom)
<1>1. IsChain /\ HeadHasRoom /\ [PullNext]_pullVars => (IsChain /\ HeadHasRoom)'
  BY ChainStaysRoomy
<1> QED
  BY ChainInit, <1>1, PTL DEF PullSpec

\* The head has room for the slot pull_add fills, and the blocks behind it are full.
THEOREM HeadAlwaysHasRoom == PullSpec => []HeadHasRoom
  BY PullIsChain, PTL

-----------------------------------------------------------------------------
(* What the chain holds *)

\* A set with 0 and the successor of each of its numbers has every number.
LEMMA EveryNumber ==
  ASSUME NEW S, 0 \in S, \A n \in Nat : n \in S => n + 1 \in S
  PROVE  Nat \subseteq S
<1> SUFFICES ASSUME Nat \ S # {} PROVE FALSE
  OBVIOUS
<1>1. PICK m \in Nat \ S : \A n \in Nat \ S : << n, m >> \notin OpToRel(<, Nat)
  BY NatLessThanWellFounded, WFMin, Zenon
<1>2. m - 1 \in Nat /\ m - 1 < m /\ m = (m - 1) + 1
  <2>1. m \in Nat /\ m # 0
    OBVIOUS
  <2> QED
    BY <2>1
<1>3. << m - 1, m >> \in OpToRel(<, Nat)
  BY <1>1, <1>2 DEF OpToRel
<1>4. m - 1 \in S
  BY <1>1, <1>2, <1>3, Zenon
<1> QED
  BY <1>1, <1>2, <1>4

\* f holds what the first blocks of s hold together, as FlattenSeq adds them up.
Adds(f, s, n) == f = [i \in 1 .. n |-> IF i = 1 THEN s[i] ELSE f[i - 1] \o s[i]]

\* There is such a function, which FlattenSeq chooses by what it must satisfy,
LEMMA SumsExist ==
  ASSUME NEW s, NEW n \in Nat
  PROVE  \E f : Adds(f, s, n)
<1> DEFINE S == {k \in Nat : \E f : Adds(f, s, k)}
<1>1. 0 \in S
  <2> DEFINE f == [i \in 1 .. 0 |-> s[i]]
  <2>1. Adds(f, s, 0)
    BY DEF Adds
  <2> QED
    BY <2>1
<1>2. ASSUME NEW k \in Nat, k \in S PROVE k + 1 \in S
  <2>1. PICK f : Adds(f, s, k)
    BY <1>2
  <2> DEFINE g == [i \in 1 .. k + 1 |-> IF i = 1 THEN s[i] ELSE f[i - 1] \o s[i]]
  <2>2. \A i \in 1 .. k : f[i] = IF i = 1 THEN s[i] ELSE f[i - 1] \o s[i]
    BY <2>1 DEF Adds
  <2>3. \A i \in 1 .. k : g[i] = f[i]
    BY <2>2
  <2>4. \A i \in 1 .. k + 1 : i # 1 => i - 1 \in 1 .. k
    OBVIOUS
  <2>5. \A i \in 1 .. k + 1 : i # 1 => g[i - 1] = f[i - 1]
    BY <2>3, <2>4
  <2>6. Adds(g, s, k + 1)
    BY <2>5 DEF Adds
  <2> QED
    BY <2>6
<1>3. n \in S
  <2> HIDE DEF S
  <2> QED
    BY <1>1, <1>2, EveryNumber
<1> QED
  BY <1>3

\* so that FlattenSeq is its last value.
LEMMA FlattenIsSum ==
  ASSUME NEW s, Len(s) \in Nat, Len(s) # 0
  PROVE  \E f : Adds(f, s, Len(s)) /\ FlattenSeq(s) = f[Len(s)]
<1>1. PICK f : f = CHOOSE g : Adds(g, s, Len(s))
  OBVIOUS
<1>2. Adds(f, s, Len(s))
  BY <1>1, SumsExist
<1>3. FlattenSeq(s) = f[Len(s)]
  BY <1>1 DEF FlattenSeq, Adds
<1> QED
  BY <1>2, <1>3

\* The first sum, and the next one.
LEMMA NextSum ==
  ASSUME NEW s, NEW n \in Nat, NEW f, Adds(f, s, n)
  PROVE  /\ 1 \in 1 .. n => f[1] = s[1]
         /\ \A k \in 1 .. n : k + 1 \in 1 .. n => f[k + 1] = f[k] \o s[k + 1]
<1>1. \A i \in 1 .. n : f[i] = IF i = 1 THEN s[i] ELSE f[i - 1] \o s[i]
  BY DEF Adds
<1>2. ASSUME NEW k \in 1 .. n, k + 1 \in 1 .. n PROVE f[k + 1] = f[k] \o s[k + 1]
  <2>1. PICK j : j = k + 1
    OBVIOUS
  <2>2. j \in 1 .. n /\ j # 1 /\ j - 1 = k
    BY <1>2, <2>1
  <2>3. f[j] = f[j - 1] \o s[j]
    BY <1>1, <2>2
  <2> QED
    BY <2>1, <2>2, <2>3
<1> QED
  BY <1>1, <1>2

\* Sums of sequences are sequences.
LEMMA SumsAreSequences ==
  ASSUME NEW X, NEW s \in Seq(Seq(X)), NEW f, Adds(f, s, Len(s))
  PROVE  \A i \in 1 .. Len(s) : f[i] \in Seq(X)
<1> DEFINE S == {k \in Nat : k \in 1 .. Len(s) => f[k] \in Seq(X)}
<1>1. /\ 1 \in 1 .. Len(s) => f[1] = s[1]
      /\ \A k \in 1 .. Len(s) : k + 1 \in 1 .. Len(s) => f[k + 1] = f[k] \o s[k + 1]
  <2>1. Len(s) \in Nat
    OBVIOUS
  <2> QED
    BY <2>1, NextSum
<1>2. \A i \in 1 .. Len(s) : s[i] \in Seq(X)
  OBVIOUS
<1>3. ASSUME NEW k \in Nat, k \in S PROVE k + 1 \in S
  <2> SUFFICES ASSUME k + 1 \in 1 .. Len(s) PROVE f[k + 1] \in Seq(X)
    OBVIOUS
  <2>1. CASE k = 0
    BY <1>1, <1>2, <2>1
  <2>2. CASE k # 0
    <3>1. k \in 1 .. Len(s) /\ f[k] \in Seq(X) /\ s[k + 1] \in Seq(X)
      BY <1>2, <1>3, <2>2
    <3>2. f[k + 1] = f[k] \o s[k + 1]
      BY <1>1, <2>2, <3>1
    <3> QED
      BY <3>1, <3>2, ConcatProperties
  <2> QED
    BY <2>1, <2>2
<1>4. 0 \in S
  OBVIOUS
<1>5. Nat \subseteq S
  <2> HIDE DEF S
  <2> QED
    BY <1>3, <1>4, EveryNumber
<1> QED
  BY <1>5

\* FlattenSeq takes the sequences one after the other, from the first on.
LEMMA FlattenFromLeft ==
  ASSUME NEW X, NEW b \in Seq(X), NEW r \in Seq(Seq(X))
  PROVE  /\ FlattenSeq(r) \in Seq(X)
         /\ FlattenSeq(<< b >> \o r) = b \o FlattenSeq(r)
<1> DEFINE s == << b >> \o r
<1>1. /\ s \in Seq(Seq(X)) /\ Len(s) = Len(r) + 1 /\ Len(r) \in Nat
      /\ s[1] = b /\ \A i \in 1 .. Len(r) : s[i + 1] = r[i] /\ r[i] \in Seq(X)
  OBVIOUS
<1> HIDE DEF s
<1>2. PICK f : Adds(f, s, Len(s)) /\ FlattenSeq(s) = f[Len(s)]
  BY <1>1, FlattenIsSum
<1>3. /\ 1 \in 1 .. Len(s) => f[1] = s[1]
      /\ \A k \in 1 .. Len(s) : k + 1 \in 1 .. Len(s) => f[k + 1] = f[k] \o s[k + 1]
  <2>1. Len(s) \in Nat
    BY <1>1
  <2> QED
    BY <1>2, <2>1, NextSum
<1>4. \A u, v, w \in Seq(X) : (u \o v) \o w = u \o (v \o w)
  <2> SUFFICES ASSUME NEW u \in Seq(X), NEW v \in Seq(X), NEW w \in Seq(X)
               PROVE  (u \o v) \o w = u \o (v \o w)
    OBVIOUS
  <2> QED
    BY ConcatAssociative
<1>5. CASE r = << >>
  <2>1. FlattenSeq(r) = << >> /\ FlattenSeq(s) = b
    BY <1>1, <1>2, <1>3, <1>5 DEF FlattenSeq
  <2> QED
    BY <2>1 DEF s
<1>6. CASE r # << >>
  <2>1. Len(r) # 0
    BY <1>6
  <2>2. PICK g : Adds(g, r, Len(r)) /\ FlattenSeq(r) = g[Len(r)]
    BY <1>1, <2>1, FlattenIsSum
  <2>3. /\ 1 \in 1 .. Len(r) => g[1] = r[1]
        /\ \A k \in 1 .. Len(r) : k + 1 \in 1 .. Len(r) => g[k + 1] = g[k] \o r[k + 1]
    BY <1>1, <2>2, NextSum
  <2>4. \A i \in 1 .. Len(r) : g[i] \in Seq(X)
    BY <2>2, SumsAreSequences
  <2> DEFINE S == {k \in Nat : k \in 1 .. Len(r) => f[k + 1] = b \o g[k]}
  <2>5. 0 \in S
    OBVIOUS
  <2>6. ASSUME NEW k \in Nat, k \in S PROVE k + 1 \in S
    <3> SUFFICES ASSUME k + 1 \in 1 .. Len(r) PROVE f[(k + 1) + 1] = b \o g[k + 1]
      OBVIOUS
    <3>1. PICK j : j = k + 1
      OBVIOUS
    <3>2. j \in 1 .. Len(r) /\ j \in 1 .. Len(s) /\ j + 1 \in 1 .. Len(s)
      BY <1>1, <3>1
    <3>3. f[j + 1] = f[j] \o r[j] /\ r[j] \in Seq(X)
      BY <1>1, <1>3, <3>2
    <3>4. CASE k = 0
      <4>1. f[1] = b /\ g[1] = r[1] /\ j = 1
        BY <1>1, <1>3, <2>3, <3>1, <3>2, <3>4
      <4> QED
        BY <3>1, <3>3, <4>1
    <3>5. CASE k # 0
      <4>1. k \in 1 .. Len(r)
        BY <3>1, <3>2, <3>5
      <4>2. f[j] = b \o g[k] /\ g[k] \in Seq(X)
        BY <2>4, <2>6, <3>1, <4>1
      <4>3. g[j] = g[k] \o r[j]
        BY <2>3, <3>1, <3>2, <4>1
      <4>4. (b \o g[k]) \o r[j] = b \o (g[k] \o r[j])
        <5>1. g[k] \in Seq(X) /\ r[j] \in Seq(X) /\ b \in Seq(X)
          BY <3>3, <4>2
        <5> QED
          BY <1>4, <5>1, Zenon
      <4> QED
        BY <3>1, <3>3, <4>2, <4>3, <4>4
    <3> QED
      BY <3>4, <3>5
  <2>7. Nat \subseteq S
    <3> HIDE DEF S
    <3> QED
      BY <2>5, <2>6, EveryNumber
  <2>8. f[Len(r) + 1] = b \o g[Len(r)]
    BY <1>1, <2>1, <2>7
  <2> QED
    BY <1>1, <1>2, <2>1, <2>2, <2>4, <2>8 DEF s
<1> QED
  BY <1>5, <1>6

-----------------------------------------------------------------------------
(* A sequence and an element more *)

\* t is s with p put in behind the first h of its elements.
Inserts(s, t, h, p) ==
  /\ DOMAIN s = 1 .. Len(s) /\ DOMAIN t = 1 .. Len(s) + 1 /\ Len(s) \in Nat /\ h \in 0 .. Len(s)
  /\ t[h + 1] = p
  /\ \A k \in 1 .. h : t[k] = s[k]
  /\ \A k \in h + 1 .. Len(s) : t[k + 1] = s[k]

\* Appending to the first of two parts inserts into the whole.
LEMMA AppendInserts ==
  ASSUME NEW X, NEW h \in Seq(X), NEW r \in Seq(X), NEW p \in X
  PROVE  Inserts(h \o r, Append(h, p) \o r, Len(h), p)
<1>1. /\ h \o r \in Seq(X) /\ Len(h \o r) = Len(h) + Len(r) /\ Len(h) \in Nat /\ Len(r) \in Nat
      /\ \A i \in 1 .. Len(h) + Len(r) :
           (h \o r)[i] = IF i <= Len(h) THEN h[i] ELSE r[i - Len(h)]
  BY ConcatProperties
<1> DEFINE a == Append(h, p)
<1>2. /\ a \in Seq(X) /\ Len(a) = Len(h) + 1 /\ a[Len(h) + 1] = p
      /\ \A k \in 1 .. Len(h) : a[k] = h[k]
  OBVIOUS
<1> HIDE DEF a
<1>3. /\ a \o r \in Seq(X) /\ Len(a \o r) = Len(a) + Len(r)
      /\ \A i \in 1 .. Len(a) + Len(r) :
           (a \o r)[i] = IF i <= Len(a) THEN a[i] ELSE r[i - Len(a)]
  BY <1>2, ConcatProperties
<1>4. PICK s, t, n, m : s = h \o r /\ t = a \o r /\ n = Len(h) /\ m = Len(r)
  OBVIOUS
<1>5. /\ DOMAIN s = 1 .. Len(s) /\ DOMAIN t = 1 .. Len(s) + 1
      /\ Len(s) = n + m /\ n \in Nat /\ m \in Nat
  BY <1>1, <1>2, <1>3, <1>4
<1>6. /\ \A i \in 1 .. n + m : s[i] = IF i <= n THEN h[i] ELSE r[i - n]
      /\ \A i \in 1 .. n + 1 + m : t[i] = IF i <= n + 1 THEN a[i] ELSE r[i - (n + 1)]
  BY <1>1, <1>2, <1>3, <1>4
<1>7. ASSUME NEW k \in n + 1 .. n + m PROVE t[k + 1] = s[k]
  <2>1. PICK j : j = k + 1
    OBVIOUS
  <2>2. j \in 1 .. n + 1 + m /\ ~ (j <= n + 1) /\ j - (n + 1) = k - n
    BY <1>5, <2>1
  <2>3. t[j] = r[k - n]
    BY <1>6, <2>2
  <2>4. s[k] = r[k - n]
    BY <1>5, <1>6
  <2> QED
    BY <2>1, <2>3, <2>4
<1>8. t[n + 1] = p
  BY <1>2, <1>4, <1>5, <1>6
<1>9. \A k \in 1 .. n : t[k] = s[k]
  BY <1>2, <1>4, <1>5, <1>6
<1> QED
  BY <1>4, <1>5, <1>7, <1>8, <1>9 DEF Inserts, a

\* Its elements are those of s, and p.
LEMMA InsertedRange ==
  ASSUME NEW s, NEW t, NEW h, NEW p, Inserts(s, t, h, p)
  PROVE  /\ Range(t) = Range(s) \cup {p}
         /\ IsInjective(s) /\ p \notin Range(s) => IsInjective(t)
<1> DEFINE place(k) == IF k <= h THEN k ELSE k - 1
<1>1. \A k \in 1 .. Len(s) + 1 :
        k # h + 1 => place(k) \in 1 .. Len(s) /\ t[k] = s[place(k)]
  <2> SUFFICES ASSUME NEW k \in 1 .. Len(s) + 1, k # h + 1
               PROVE  place(k) \in 1 .. Len(s) /\ t[k] = s[place(k)]
    OBVIOUS
  <2>1. CASE k <= h
    BY <2>1 DEF Inserts
  <2>2. CASE k > h
    <3>1. PICK j : j = k - 1
      OBVIOUS
    <3>2. j \in h + 1 .. Len(s) /\ k = j + 1 /\ j \in 1 .. Len(s)
      BY <2>2, <3>1 DEF Inserts
    <3>3. t[k] = s[j]
      BY <3>2 DEF Inserts
    <3> QED
      BY <2>2, <3>1, <3>2, <3>3 DEF Inserts
  <2> QED
    BY <2>1, <2>2 DEF Inserts
<1>2. \A e : e \in Range(t) <=> \E k \in 1 .. Len(s) + 1 : t[k] = e
  BY DEF Range, Inserts
<1>3. \A e : e \in Range(s) <=> \E k \in 1 .. Len(s) : s[k] = e
  BY DEF Range, Inserts
<1>4. \A k \in 1 .. Len(s) : s[k] \in Range(t)
  <2> SUFFICES ASSUME NEW k \in 1 .. Len(s) PROVE \E j \in 1 .. Len(s) + 1 : t[j] = s[k]
    BY <1>2
  <2>1. CASE k <= h
    BY <2>1 DEF Inserts
  <2>2. CASE k > h
    BY <2>2 DEF Inserts
  <2> QED
    BY <2>1, <2>2 DEF Inserts
<1>5. p \in Range(t)
  BY <1>2 DEF Inserts
<1>6. Range(t) = Range(s) \cup {p}
  <2>1. \A k \in 1 .. Len(s) + 1 : t[k] \in Range(s) \cup {p}
    BY <1>1, <1>3 DEF Inserts
  <2> QED
    BY <1>2, <1>3, <1>4, <1>5, <2>1
<1>7. ASSUME IsInjective(s), p \notin Range(s) PROVE IsInjective(t)
  <2> SUFFICES ASSUME NEW j \in 1 .. Len(s) + 1, NEW k \in 1 .. Len(s) + 1, t[j] = t[k]
               PROVE  j = k
    BY DEF IsInjective, Inserts
  <2>1. CASE j # h + 1 /\ k # h + 1
    <3>1. PICK a, b : a = place(j) /\ b = place(k)
      OBVIOUS
    <3>2. /\ a \in 1 .. Len(s) /\ b \in 1 .. Len(s) /\ t[j] = s[a] /\ t[k] = s[b]
      BY <1>1, <2>1, <3>1
    <3>3. a = b
      BY <1>7, <3>2 DEF IsInjective, Inserts
    <3> QED
      BY <2>1, <3>1, <3>3 DEF Inserts
  <2>2. CASE j = h + 1 /\ k # h + 1
    BY <1>1, <1>3, <1>7, <2>2 DEF Inserts
  <2>3. CASE j # h + 1 /\ k = h + 1
    BY <1>1, <1>3, <1>7, <2>3 DEF Inserts
  <2> QED
    BY <2>1, <2>2, <2>3
<1> QED
  BY <1>6, <1>7

\* It holds everything as often as s does, and p once more.
LEMMA InsertedBag ==
  ASSUME NEW s, NEW t, NEW h, NEW p, Inserts(s, t, h, p)
  PROVE  ToBag(t) = ToBag(s) (+) SetToBag({p})
<1> DEFINE places(u, e) == {k \in DOMAIN u : u[k] = e}
<1>1. ASSUME NEW e
      PROVE  /\ IsFiniteSet(places(s, e)) /\ Cardinality(places(s, e)) \in Nat
             /\ Cardinality(places(t, e))
                  = IF e = p THEN Cardinality(places(s, e)) + 1 ELSE Cardinality(places(s, e))
  <2> DEFINE A == places(s, e)
             B == places(t, e) \ {h + 1}
             f == [k \in A |-> IF k <= h THEN k ELSE k + 1]
  <2>1. IsFiniteSet(A) /\ Cardinality(A) \in Nat
    <3>1. IsFiniteSet(1 .. Len(s)) /\ A \in SUBSET (1 .. Len(s))
      BY FS_Interval DEF Inserts
    <3> QED
      BY <3>1, FS_Subset, FS_CardinalityType
  <2>2. f \in [A -> B]
    BY DEF Inserts
  <2>3. \A j, k \in A : f[j] = f[k] => j = k
    BY DEF Inserts
  <2>4. ASSUME NEW k \in B PROVE \E j \in A : f[j] = k
    <3>1. CASE k <= h
      <4>1. k \in A
        BY <3>1 DEF Inserts
      <4> QED
        BY <3>1, <4>1
    <3>2. CASE k > h
      <4>1. PICK j : j = k - 1
        OBVIOUS
      <4>2. j \in h + 1 .. Len(s) /\ k = j + 1 /\ j \in 1 .. Len(s) /\ ~ (j <= h)
        BY <3>2, <4>1 DEF Inserts
      <4>3. j \in A
        BY <4>2 DEF Inserts
      <4> QED
        BY <4>2, <4>3
    <3> QED
      BY <3>1, <3>2 DEF Inserts
  <2>5. ExistsBijection(A, B)
    <3>1. DOMAIN f = A
      OBVIOUS
    <3> HIDE DEF f, A, B
    <3>2. f \in Injection(A, B)
      BY <2>2, <2>3, <3>1 DEF Injection, IsInjective
    <3>3. f \in Surjection(A, B)
      BY <2>2, <2>4 DEF Surjection
    <3> QED
      BY <3>2, <3>3 DEF ExistsBijection, Bijection
  <2>6. IsFiniteSet(B) /\ Cardinality(B) = Cardinality(A)
    BY <2>1, <2>5, FS_Bijection
  <2>7. places(t, e) = IF e = p THEN B \cup {h + 1} ELSE B
    BY DEF Inserts
  <2>8. Cardinality(B \cup {h + 1}) = Cardinality(B) + 1
    BY <2>6, FS_AddElement
  <2> QED
    BY <2>1, <2>6, <2>7, <2>8
<1>2. Range(t) = Range(s) \cup {p}
  BY InsertedRange
<1>3. p \notin Range(s) => Cardinality(places(s, p)) = 0
  <2>1. p \notin Range(s) => places(s, p) = {}
    BY DEF Range
  <2> QED
    BY <2>1, FS_EmptySet
<1> HIDE DEF places
<1>4. ToBag(t) = [e \in Range(t) |-> Cardinality(places(t, e))]
  BY DEF ToBag, places
<1>5. ToBag(s) = [e \in Range(s) |-> Cardinality(places(s, e))]
  BY DEF ToBag, places
<1> QED
  BY <1>1, <1>2, <1>3, <1>4, <1>5 DEF SetToBag, (+)

-----------------------------------------------------------------------------
(* The chain as a bag *)

\* pull_add puts its pointer behind what the head holds; that the head gives way to a new
\* one changes nothing in the order in which pull_free_objects goes over the chain.
LEMMA AddInserts ==
  ASSUME IsChain, HeadHasRoom, NEW p \in Ptrs, Add(p)
  PROVE  /\ Contents \in Seq(Ptrs) /\ Contents' \in Seq(Ptrs)
         /\ \E h : Inserts(Contents, Contents', h, p)
<1> DEFINE head == Head(blocks)
           rest == Tail(blocks)
           filled == Append(head, p)
<1>1. head \in Seq(Ptrs) /\ rest \in Seq(Seq(Ptrs)) /\ blocks = << head >> \o rest
  BY DEF IsChain, HeadHasRoom
<1>2. filled \in Seq(Ptrs)
  BY <1>1
<1> HIDE DEF head, rest
<1>3. FlattenSeq(rest) \in Seq(Ptrs) /\ FlattenSeq(<< head >> \o rest) = head \o FlattenSeq(rest)
  BY <1>1, FlattenFromLeft
<1>4. FlattenSeq(blocks') = filled \o FlattenSeq(rest)
  <2>1. \/ blocks' = << << >>, filled >> \o rest
        \/ blocks' = << filled >> \o rest
    BY DEF Add, head, rest
  <2> HIDE DEF filled
  <2>2. PICK more : more = << filled >> \o rest
    OBVIOUS
  <2>3. more \in Seq(Seq(Ptrs)) /\ << << >>, filled >> \o rest = << << >> >> \o more
    BY <1>1, <1>2, <2>2
  <2>4. FlattenSeq(more) = filled \o FlattenSeq(rest) /\ FlattenSeq(more) \in Seq(Ptrs)
    BY <1>1, <1>2, <2>2, <2>3, FlattenFromLeft
  <2>5. << >> \in Seq(Ptrs)
    OBVIOUS
  <2>6. FlattenSeq(<< << >> >> \o more) = << >> \o FlattenSeq(more)
    BY <2>3, <2>5, FlattenFromLeft
  <2>7. << >> \o FlattenSeq(more) = FlattenSeq(more)
    BY <2>4
  <2> QED
    BY <2>1, <2>2, <2>3, <2>4, <2>6, <2>7
<1>5. PICK r : r = FlattenSeq(rest)
  OBVIOUS
<1>6. Contents = head \o r /\ Contents' = Append(head, p) \o r /\ r \in Seq(Ptrs)
  BY <1>1, <1>3, <1>4, <1>5 DEF Contents
<1>7. Inserts(head \o r, Append(head, p) \o r, Len(head), p)
  BY <1>1, <1>6, AppendInserts
<1>8. head \o r \in Seq(Ptrs) /\ Append(head, p) \o r \in Seq(Ptrs)
  BY <1>1, <1>2, <1>6
<1> QED
  BY <1>6, <1>7, <1>8

\* A chain that is one empty block holds nothing.
LEMMA EmptyChain ==
  /\ FlattenSeq(<< << >> >>) = << >>
  /\ ToBag(<< >>) = EmptyBag
<1>1. FlattenSeq(<< << >> >> \o << >>) = << >> \o FlattenSeq(<< >>)
  <2>1. << >> \in Seq({}) /\ << >> \in Seq(Seq({}))
    OBVIOUS
  <2> QED
    BY <2>1, FlattenFromLeft
<1>2. FlattenSeq(<< >>) = << >>
  BY DEF FlattenSeq
<1>3. << << >> >> \o << >> = << << >> >>
  OBVIOUS
<1>4. ToBag(<< >>) = EmptyBag
  BY DEF ToBag, Range, EmptyBag, SetToBag
<1> QED
  BY <1>1, <1>2, <1>3, <1>4

\* Every operation of the chain is one of the bag.
LEMMA StepOfTracker ==
  ASSUME IsChain, HeadHasRoom, [PullNext]_pullVars
  PROVE  [Abstract!Next]_(Abstract!vars)
<1>1. ASSUME NEW p \in Ptrs, Add(p) PROVE Abstract!Add(p)
  <2>1. PICK h : Inserts(Contents, Contents', h, p)
    BY <1>1, AddInserts
  <2>2. ToBag(Contents') = ToBag(Contents) (+) SetToBag({p})
    BY <2>1, InsertedBag
  <2>3. ToBag(freed') = EmptyBag
    BY <1>1, EmptyChain DEF Add
  <2> QED
    BY <2>2, <2>3 DEF Abstract!Add, Abstract!SetToBag, Abstract!EmptyBag, Abstract!(+),
                      EmptyBag, SetToBag, (+)
<1>2. ASSUME Clear PROVE Abstract!Clear
  BY <1>2, EmptyChain DEF Clear, Contents, Abstract!Clear,
         Abstract!EmptyBag, Abstract!SetToBag, EmptyBag, SetToBag
<1>3. ASSUME FreeObjects PROVE Abstract!FreeObjects
  BY <1>3, EmptyChain DEF FreeObjects, Contents, Abstract!FreeObjects,
         Abstract!EmptyBag, Abstract!SetToBag, EmptyBag, SetToBag
<1>4. ASSUME UNCHANGED pullVars PROVE UNCHANGED Abstract!vars
  BY <1>4 DEF pullVars, Abstract!vars, Contents
<1> QED
  BY <1>1, <1>2, <1>3, <1>4 DEF PullNext, Abstract!Next

\* ImplementsTracker: what is added is freed as often as it was added, and nothing else is,
\* for every capacity of a block and every length of the chain.
THEOREM PullIsTracker == PullSpec => ImplementsTracker
<1>1. PullInit => Abstract!Init
  BY EmptyChain DEF PullInit, Abstract!Init, Contents,
     Abstract!EmptyBag, Abstract!SetToBag, EmptyBag, SetToBag
<1>2. IsChain /\ HeadHasRoom /\ [PullNext]_pullVars => [Abstract!Next]_(Abstract!vars)
  BY StepOfTracker
<1> QED
  BY <1>1, <1>2, PullIsChain, HeadAlwaysHasRoom, PTL
    DEF PullSpec, ImplementsTracker, Abstract!Spec

----------------------------------------------------------------------------
(* The parser *)

\* What the chain holds is a sequence of pointers.
LEMMA ContentsArePointers == ASSUME IsChain PROVE Contents \in Seq(Ptrs)
<1>1. << >> \in Seq(Ptrs)
  OBVIOUS
<1> QED
  BY <1>1, FlattenFromLeft DEF IsChain, Contents

\* SetToSeq puts a finite set in some order.
LEMMA SetInOrder ==
  ASSUME NEW S, IsFiniteSet(S)
  PROVE  /\ SetToSeq(S) \in Seq(S) /\ Range(SetToSeq(S)) = S
         /\ IsInjective(SetToSeq(S))
<1>1. PICK n \in Nat : n = Cardinality(S)
  BY FS_CardinalityType
<1>2. ExistsBijection(1 .. n, S)
  BY <1>1, FS_CardinalityType
<1>3. \E f \in [1 .. n -> S] : IsInjective(f)
  BY <1>2 DEF ExistsBijection, Bijection, Injection
<1>4. SetToSeq(S) \in [1 .. n -> S] /\ IsInjective(SetToSeq(S))
  BY <1>1, <1>3, Zenon DEF SetToSeq
<1>5. PICK f : f = SetToSeq(S) /\ f \in [1 .. n -> S] /\ IsInjective(f)
  BY <1>4
<1>6. f \in Injection(1 .. n, S)
  BY <1>5 DEF Injection, IsInjective
<1>7. IsFiniteSet(1 .. n) /\ Cardinality(1 .. n) = n
  BY FS_Interval
<1>8. \A x \in S : \E i \in 1 .. n : f[i] = x
  <2>1. Range(f) \subseteq S
    BY <1>5 DEF Range
  <2>2. f \in Bijection(1 .. n, Range(f))
    BY <1>5 DEF Bijection, Injection, Surjection, Range, IsInjective
  <2>3. IsFiniteSet(Range(f)) /\ Cardinality(Range(f)) = n
    BY <1>7, <2>2, FS_Bijection DEF ExistsBijection
  <2>4. Range(f) = S
    BY <1>1, <2>1, <2>3, FS_Subset
  <2> QED
    BY <1>5, <2>4 DEF Range
<1> QED
  BY <1>5, <1>8 DEF Range

\* A sequence behind another that has nothing of it.
LEMMA JoinInjective ==
  ASSUME NEW X, NEW s \in Seq(X), NEW t \in Seq(X), IsInjective(s), IsInjective(t),
         Range(s) \cap Range(t) = {}
  PROVE  IsInjective(s \o t) /\ Range(s \o t) = Range(s) \cup Range(t)
<1>1. /\ s \o t \in Seq(X) /\ Len(s \o t) = Len(s) + Len(t) /\ Len(s) \in Nat /\ Len(t) \in Nat
      /\ \A i \in 1 .. Len(s) + Len(t) :
           (s \o t)[i] = IF i <= Len(s) THEN s[i] ELSE t[i - Len(s)]
  BY ConcatProperties
<1>2. PICK u, n, m : u = s \o t /\ n = Len(s) /\ m = Len(t)
  OBVIOUS
<1>3. /\ DOMAIN u = 1 .. n + m /\ DOMAIN s = 1 .. n /\ DOMAIN t = 1 .. m
      /\ n \in Nat /\ m \in Nat
  BY <1>1, <1>2
<1>4. /\ \A i \in 1 .. n : u[i] = s[i] /\ i \in DOMAIN u
      /\ \A i \in 1 .. n + m : i > n => u[i] = t[i - n] /\ i - n \in 1 .. m
  BY <1>1, <1>2, <1>3
<1>5. \A i \in 1 .. m : u[i + n] = t[i] /\ i + n \in DOMAIN u
  <2> SUFFICES ASSUME NEW i \in 1 .. m PROVE u[i + n] = t[i] /\ i + n \in DOMAIN u
    OBVIOUS
  <2>1. PICK j : j = i + n
    OBVIOUS
  <2>2. j \in 1 .. n + m /\ j > n /\ j - n = i
    BY <1>3, <2>1
  <2> QED
    BY <1>3, <1>4, <2>1, <2>2
<1>6. \A i \in DOMAIN u : u[i] \in (IF i <= n THEN Range(s) ELSE Range(t))
  BY <1>3, <1>4 DEF Range
<1>7. Range(u) = Range(s) \cup Range(t)
  <2>1. Range(s) \subseteq Range(u)
    BY <1>3, <1>4 DEF Range
  <2>2. Range(t) \subseteq Range(u)
    BY <1>3, <1>5 DEF Range
  <2>3. Range(u) \subseteq Range(s) \cup Range(t)
    BY <1>6 DEF Range
  <2> QED
    BY <2>1, <2>2, <2>3
<1>8. IsInjective(u)
  <2> SUFFICES ASSUME NEW i \in DOMAIN u, NEW j \in DOMAIN u, u[i] = u[j] PROVE i = j
    BY DEF IsInjective
  <2>1. CASE i <= n /\ j <= n
    BY <1>3, <1>4, <2>1 DEF IsInjective
  <2>2. CASE i > n /\ j > n
    <3>1. PICK a, b : a = i - n /\ b = j - n
      OBVIOUS
    <3>2. a \in DOMAIN t /\ b \in DOMAIN t /\ t[a] = t[b]
      BY <1>3, <1>4, <2>2, <3>1
    <3>3. a = b
      BY <3>2 DEF IsInjective
    <3> QED
      BY <1>3, <3>1, <3>3
  <2>3. ~ (i <= n /\ j > n) /\ ~ (i > n /\ j <= n)
    BY <1>3, <1>6
  <2> QED
    BY <1>3, <2>1, <2>2, <2>3
<1> QED
  BY <1>2, <1>7, <1>8

\* A list has its array, which is no other's.
ListsHaveItems ==
  \A l \in Ptrs : heap[l] = "list" =>
    /\ heap[items[l]] = "array"
    /\ \A m \in Ptrs : heap[m] = "list" /\ items[m] = items[l] => m = l

\* Nodes and tables are in the pull until it is forgotten; after an error none is left, but
\* for the entry that forgets them.
NodesNotLost ==
  /\ phase \in {"parsing", "rejected"} => Tracked \subseteq Range(Contents)
  /\ phase = "failed" /\ entry # "parse" => Tracked = {}

IInv ==
  /\ TypeOK /\ HeadHasRoom /\ IsFiniteSet(Live)
  /\ ListsHaveItems /\ NodesNotLost

\* Without statements nothing is freed before the end: the pull holds the nodes and tables,
\* each once, and nothing else.
HeldOnce ==
  entry \notin Statements /\ phase = "parsing" =>
    /\ IsInjective(Contents) /\ Range(Contents) = Tracked
    /\ \A p \in Ptrs : heap[p] # "nop"

\* Where an error frees nothing that has been freed: without statements, or if it frees nothing.
Careful == entry \in Statements => entry = "parse"

\* What FreeAll leaves.
LEMMA FreeAllFrees ==
  ASSUME NEW s, FreeAll(s), heap \in [Ptrs -> Kinds], faulty \in BOOLEAN
  PROVE  /\ heap' \in [Ptrs -> Kinds] /\ faulty' \in BOOLEAN
         /\ \A p \in Ptrs : heap'[p] = IF p \in Range(s) THEN "free" ELSE heap[p]
         /\ Live' = Live \ Range(s)
         /\ Tracked' = Tracked \ Range(s)
         /\ IsInjective(s) /\ Range(s) \subseteq Live => faulty' = faulty
<1>1. heap' = [p \in Ptrs |-> IF p \in Range(s) THEN "free" ELSE heap[p]]
  BY DEF FreeAll
<1>2. faulty' = (faulty \/ ~IsInjective(s) \/ ~(Range(s) \subseteq Live))
  BY DEF FreeAll
<1>3. faulty' \in BOOLEAN /\ (IsInjective(s) /\ Range(s) \subseteq Live => faulty' = faulty)
  BY <1>2, Zenon
<1>4. heap' \in [Ptrs -> Kinds]
  BY <1>1 DEF Kinds
<1>5. Tracked' = Tracked \ Range(s)
  BY <1>1 DEF Tracked, NodeKinds
<1> QED
  BY <1>1, <1>3, <1>4, <1>5 DEF Live

\* What pull_add leaves.
LEMMA AddHolds ==
  ASSUME TypeOK, HeadHasRoom, NEW p \in Ptrs, Add(p)
  PROVE  /\ PullTypeOK' /\ HeadHasRoom'
         /\ Range(Contents') = Range(Contents) \cup {p}
         /\ IsInjective(Contents) /\ p \notin Range(Contents) => IsInjective(Contents')
<1>1. IsChain
  BY DEF TypeOK, PullTypeOK, IsChain
<1>2. PICK h : Inserts(Contents, Contents', h, p)
  BY <1>1, AddInserts
<1>3. (IsChain /\ HeadHasRoom)'
  BY <1>1, AddKeepsRoom
<1>4. PullTypeOK'
  BY <1>3 DEF Add, PullTypeOK, IsChain
<1> QED
  BY <1>2, <1>3, <1>4, InsertedRange

\* Two blocks more are finitely many.
LEMMA LiveStaysFinite ==
  ASSUME IsFiniteSet(Live), NEW p, NEW q, Live' \subseteq Live \cup {p, q}
  PROVE  IsFiniteSet(Live')
<1>1. IsFiniteSet((Live \cup {p}) \cup {q})
  BY FS_AddElement
<1>2. Live' \in SUBSET ((Live \cup {p}) \cup {q})
  OBVIOUS
<1> QED
  BY <1>1, <1>2, FS_Subset

\* Before anything is allocated.
LEMMA InvInit == Init => IInv /\ HeldOnce /\ FreedOnce
<1> SUFFICES ASSUME Init PROVE IInv /\ HeldOnce /\ FreedOnce
  OBVIOUS
<1>1. IsChain /\ HeadHasRoom
  BY ChainInit DEF Init
<1>2. Live = {} /\ Tracked = {} /\ IsFiniteSet(Live)
  BY FS_EmptySet DEF Init, Live, Tracked, NodeKinds
<1>3. Contents = << >>
  BY EmptyChain DEF Init, PullInit, Contents
<1>4. TypeOK
  <2>1. PullTypeOK
    BY <1>1 DEF Init, PullInit, PullTypeOK, IsChain
  <2>2. heap \in [Ptrs -> Kinds] /\ items \in [Ptrs -> Ptrs]
    BY DEF Init, Kinds
  <2>3. entry \in Entries /\ phase \in Phases /\ faulty \in BOOLEAN
    BY DEF Init, Phases
  <2> QED
    BY <2>1, <2>2, <2>3 DEF TypeOK
<1>5. IsInjective(Contents) /\ Range(Contents) = {}
  BY <1>3 DEF IsInjective, Range
<1>6. ListsHaveItems /\ \A p \in Ptrs : heap[p] # "nop"
  BY DEF Init, ListsHaveItems
<1> QED
  BY <1>1, <1>2, <1>4, <1>5, <1>6 DEF Init, IInv, NodesNotLost, HeldOnce, FreedOnce

\* Every step of the parser does to its pull what pull.h allows.
LEMMA StepOfPull == Next => [PullNext]_pullVars
  BY DEF Next, Alloc, AllocList, GrowList, PushSymtable, Declare, DeclareOutside,
         DropEmptyStatement, Fail, Finish, RejectTrailing, Discard, DiscardProgram, Destroy,
         PullNext, pullVars

\* A node is put into the pull at once.
LEMMA AllocKeeps ==
  ASSUME IInv, HeldOnce, NEW p \in Ptrs, NEW kind \in {"node", "nop"}, Alloc(p, kind)
  PROVE  IInv' /\ HeldOnce'
<1>1. /\ PullTypeOK' /\ HeadHasRoom'
      /\ Range(Contents') = Range(Contents) \cup {p}
      /\ IsInjective(Contents) /\ p \notin Range(Contents) => IsInjective(Contents')
  BY AddHolds DEF Alloc, IInv
<1>2. /\ heap' \in [Ptrs -> Kinds] /\ heap[p] = "free"
      /\ \A r \in Ptrs : heap'[r] = IF r = p THEN kind ELSE heap[r]
  BY DEF Alloc, IInv, TypeOK, Kinds, NodeKinds
<1>3. Live' \subseteq Live \cup {p, p} /\ Tracked' = Tracked \cup {p} /\ p \notin Tracked
  BY <1>2 DEF Live, Tracked, NodeKinds
<1>4. IsFiniteSet(Live')
  BY <1>3, LiveStaysFinite DEF IInv
<1>5. TypeOK'
  BY <1>1, <1>2 DEF Alloc, IInv, TypeOK
<1>6. ListsHaveItems'
  BY <1>2 DEF Alloc, IInv, TypeOK, ListsHaveItems
<1>7. NodesNotLost'
  BY <1>1, <1>3 DEF Alloc, IInv, NodesNotLost
<1>8. HeldOnce'
  <2> SUFFICES ASSUME entry \notin Statements
               PROVE  /\ IsInjective(Contents') /\ Range(Contents') = Tracked'
                      /\ \A r \in Ptrs : heap'[r] # "nop"
    BY DEF Alloc, HeldOnce
  <2>1. kind = "node"
    BY DEF Alloc
  <2> QED
    BY <1>1, <1>2, <1>3, <2>1 DEF Alloc, HeldOnce
<1> QED
  BY <1>1, <1>4, <1>5, <1>6, <1>7, <1>8 DEF IInv

\* A list is put into the pull with its array beside it, a table with its insides.
LEMMA PairKeeps ==
  ASSUME IInv, HeldOnce, NEW p \in Ptrs, NEW q \in Ptrs, AllocList(p, q) \/ PushSymtable(p, q)
  PROVE  IInv' /\ HeldOnce'
<1>1. /\ PullTypeOK' /\ HeadHasRoom'
      /\ Range(Contents') = Range(Contents) \cup {p}
      /\ IsInjective(Contents) /\ p \notin Range(Contents) => IsInjective(Contents')
  BY AddHolds DEF AllocList, PushSymtable, IInv
<1>2. /\ phase = "parsing" /\ UNCHANGED << entry, phase, faulty >>
      /\ p # q /\ heap[p] = "free" /\ heap[q] = "free"
  BY DEF AllocList, PushSymtable
<1>3. /\ heap' \in [Ptrs -> Kinds] /\ items' \in [Ptrs -> Ptrs]
      /\ \A r \in Ptrs : r # p /\ r # q => heap'[r] = heap[r] /\ items'[r] = items[r]
      /\ \/ heap'[p] = "list" /\ heap'[q] = "array" /\ items'[p] = q /\ items'[q] = items[q]
         \/ heap'[p] = "table" /\ heap'[q] = "loose" /\ items' = items
  <2>1. CASE AllocList(p, q)
    BY <1>2, <2>1 DEF AllocList, IInv, TypeOK, Kinds, NodeKinds
  <2>2. CASE PushSymtable(p, q)
    BY <1>2, <2>2 DEF PushSymtable, IInv, TypeOK, Kinds, NodeKinds
  <2> QED
    BY <2>1, <2>2
<1>4. Live' \subseteq Live \cup {p, q} /\ Tracked' = Tracked \cup {p} /\ p \notin Tracked
  BY <1>2, <1>3 DEF Live, Tracked, NodeKinds
<1>5. IsFiniteSet(Live')
  BY <1>4, LiveStaysFinite DEF IInv
<1>6. TypeOK'
  BY <1>1, <1>2, <1>3 DEF IInv, TypeOK
<1>7. ListsHaveItems'
  <2>1. \A l \in Ptrs : items[l] \in Ptrs
    BY DEF IInv, TypeOK
  <2>2. \A l \in Ptrs : heap'[l] = "list" => l = p \/ (l # p /\ l # q /\ heap[l] = "list")
    BY <1>2, <1>3
  <2>3. \A l \in Ptrs : heap[l] = "list" => l # p /\ l # q /\ items[l] # p /\ items[l] # q
    BY <1>2 DEF IInv, ListsHaveItems
  <2>4. \A l \in Ptrs : heap[l] = "list" => heap'[items[l]] = "array" /\ items'[l] = items[l]
    BY <1>3, <2>1, <2>3 DEF IInv, ListsHaveItems
  <2>5. heap'[p] = "list" => heap'[items'[p]] = "array" /\ items'[p] = q
    BY <1>3
  <2>6. \A l, m \in Ptrs : heap[l] = "list" /\ heap[m] = "list" /\ items[m] = items[l] => m = l
    BY DEF IInv, ListsHaveItems
  <2>7. ASSUME NEW l \in Ptrs, heap'[l] = "list" PROVE heap'[items'[l]] = "array"
    BY <2>2, <2>4, <2>5, <2>7
  <2>8. ASSUME NEW l \in Ptrs, heap'[l] = "list",
               NEW m \in Ptrs, heap'[m] = "list", items'[m] = items'[l]
        PROVE  m = l
    BY <2>2, <2>3, <2>4, <2>5, <2>6, <2>8
  <2> QED
    BY <2>7, <2>8 DEF ListsHaveItems
<1>8. NodesNotLost'
  BY <1>1, <1>2, <1>4 DEF IInv, NodesNotLost
<1>9. HeldOnce'
  BY <1>1, <1>2, <1>3, <1>4 DEF HeldOnce
<1> QED
  BY <1>1, <1>5, <1>6, <1>7, <1>8, <1>9 DEF IInv

\* The array moves; no other list has the one that goes, or the one that comes.
LEMMA GrowKeeps ==
  ASSUME IInv, HeldOnce, NEW p \in Ptrs, NEW q \in Ptrs, GrowList(p, q)
  PROVE  IInv' /\ HeldOnce'
<1>1. PICK old \in Ptrs : old = items[p] /\ heap[old] = "array"
  BY DEF GrowList, IInv, TypeOK, ListsHaveItems
<1>2. /\ heap[p] = "list" /\ heap[q] = "free" /\ p # q /\ p # old /\ q # old
      /\ phase = "parsing" /\ UNCHANGED << blocks, freed, entry, phase, faulty >>
  BY <1>1 DEF GrowList
<1>3. /\ heap' \in [Ptrs -> Kinds] /\ items' \in [Ptrs -> Ptrs]
      /\ heap'[old] = "free" /\ heap'[q] = "array"
      /\ \A r \in Ptrs : r # old /\ r # q => heap'[r] = heap[r]
      /\ \A r \in Ptrs : items'[r] = IF r = p THEN q ELSE items[r]
  BY <1>1, <1>2 DEF GrowList, IInv, TypeOK, Kinds
<1>4. Live' \subseteq Live \cup {q, q} /\ Tracked' = Tracked
  BY <1>1, <1>2, <1>3 DEF Live, Tracked, NodeKinds
<1>5. IsFiniteSet(Live')
  BY <1>4, LiveStaysFinite DEF IInv
<1>6. TypeOK' /\ HeadHasRoom' /\ Contents' = Contents
  BY <1>2, <1>3 DEF IInv, TypeOK, PullTypeOK, HeadHasRoom, Contents
<1>7. ListsHaveItems'
  <2>1. \A l \in Ptrs : items[l] \in Ptrs
    BY DEF IInv, TypeOK
  <2>2. \A l \in Ptrs : heap'[l] = "list" => heap[l] = "list"
    BY <1>3
  <2>3. \A l \in Ptrs : heap[l] = "list" => items[l] # q /\ (l # p => items[l] # old)
    BY <1>1, <1>2 DEF IInv, ListsHaveItems
  <2>4. \A l \in Ptrs : heap[l] = "list" /\ l # p => heap'[items[l]] = "array"
    BY <1>3, <2>1, <2>3 DEF IInv, ListsHaveItems
  <2>5. \A l, m \in Ptrs : heap[l] = "list" /\ heap[m] = "list" /\ items[m] = items[l] => m = l
    BY DEF IInv, ListsHaveItems
  <2>6. ASSUME NEW l \in Ptrs, heap'[l] = "list" PROVE heap'[items'[l]] = "array"
    BY <1>3, <2>2, <2>4, <2>6
  <2>7. ASSUME NEW l \in Ptrs, heap'[l] = "list",
               NEW m \in Ptrs, heap'[m] = "list", items'[m] = items'[l]
        PROVE  m = l
    BY <1>3, <2>2, <2>3, <2>5, <2>7
  <2> QED
    BY <2>6, <2>7 DEF ListsHaveItems
<1>8. NodesNotLost' /\ HeldOnce'
  BY <1>2, <1>3, <1>4, <1>6 DEF IInv, NodesNotLost, HeldOnce
<1> QED
  BY <1>5, <1>6, <1>7, <1>8 DEF IInv

\* What is declared does not enter the pull.
LEMMA DeclareKeeps ==
  ASSUME IInv, HeldOnce, NEW p \in Ptrs, NEW q \in Ptrs, Declare(p) \/ DeclareOutside(p, q)
  PROVE  IInv' /\ HeldOnce'
<1>1. /\ phase = "parsing" /\ heap[p] = "free"
      /\ UNCHANGED << blocks, freed, items, entry, phase, faulty >>
  BY DEF Declare, DeclareOutside
<1>2. /\ heap' \in [Ptrs -> Kinds]
      /\ \A r \in Ptrs : \/ heap'[r] = heap[r]
                         \/ heap[r] = "free" /\ r \in {p, q} /\ heap'[r] \in {"link", "loose"}
  <2>1. CASE Declare(p)
    BY <2>1 DEF Declare, IInv, TypeOK, Kinds
  <2>2. CASE DeclareOutside(p, q)
    BY <2>2 DEF DeclareOutside, IInv, TypeOK, Kinds
  <2> QED
    BY <2>1, <2>2
<1>3. Live' \subseteq Live \cup {p, q} /\ Tracked' = Tracked
  BY <1>2 DEF Live, Tracked, NodeKinds
<1>4. IsFiniteSet(Live')
  BY <1>3, LiveStaysFinite DEF IInv
<1>5. TypeOK' /\ HeadHasRoom' /\ Contents' = Contents
  BY <1>1, <1>2 DEF IInv, TypeOK, PullTypeOK, HeadHasRoom, Contents
<1>6. ListsHaveItems'
  <2>1. \A l \in Ptrs : items[l] \in Ptrs
    BY DEF IInv, TypeOK
  <2>2. \A r \in Ptrs : /\ heap'[r] = "list" <=> heap[r] = "list"
                        /\ heap[r] = "array" => heap'[r] = "array"
    BY <1>2
  <2> QED
    BY <1>1, <2>1, <2>2 DEF IInv, ListsHaveItems
<1>7. NodesNotLost'
  BY <1>1, <1>3, <1>5 DEF IInv, NodesNotLost
<1>8. HeldOnce'
  BY <1>1, <1>2, <1>3, <1>5 DEF HeldOnce
<1> QED
  BY <1>4, <1>5, <1>6, <1>7, <1>8 DEF IInv

\* Freeing no array of a list that stays leaves the lists what they have.
LEMMA ListsStay ==
  ASSUME IInv, NEW s, FreeAll(s), UNCHANGED items,
         \A l \in Ptrs : heap[l] = "list" /\ l \notin Range(s) => items[l] \notin Range(s)
  PROVE  ListsHaveItems'
<1>1. \A p \in Ptrs : heap'[p] = IF p \in Range(s) THEN "free" ELSE heap[p]
  BY FreeAllFrees DEF IInv, TypeOK
<1>2. \A l \in Ptrs : items[l] \in Ptrs
  BY DEF IInv, TypeOK
<1>3. \A l \in Ptrs : heap'[l] = "list" => heap[l] = "list" /\ heap'[items[l]] = heap[items[l]]
  BY <1>1, <1>2
<1> QED
  BY <1>3 DEF IInv, ListsHaveItems

\* An empty statement that is dropped stays in the pull; without statements there is none.
LEMMA DropKeeps ==
  ASSUME IInv, HeldOnce, NEW p \in Ptrs, DropEmptyStatement(p)
  PROVE  IInv' /\ HeldOnce' /\ faulty' = faulty
<1> DEFINE s == << p >>
<1>1. IsInjective(s) /\ Range(s) = {p}
  BY DEF IsInjective, Range
<1>2. FreeAll(s) /\ p \in Live
  BY DEF DropEmptyStatement, Live
<1> HIDE DEF s
<1>3. /\ heap' \in [Ptrs -> Kinds] /\ faulty' \in BOOLEAN
      /\ Live' = Live \ {p} /\ Tracked' = Tracked \ {p} /\ faulty' = faulty
  BY <1>1, <1>2, FreeAllFrees DEF IInv, TypeOK
<1>4. IsFiniteSet(Live')
  BY <1>3, FS_Subset DEF IInv
<1>5. Contents' = Contents /\ HeadHasRoom'
  BY DEF DropEmptyStatement, Contents, IInv, HeadHasRoom
<1>6. TypeOK'
  BY <1>3 DEF DropEmptyStatement, IInv, TypeOK, PullTypeOK
<1>7. NodesNotLost'
  BY <1>3, <1>5 DEF DropEmptyStatement, IInv, NodesNotLost
<1>8. ListsHaveItems'
  <2>1. \A l \in Ptrs : heap[l] = "list" => items[l] \notin Range(s)
    BY <1>1 DEF DropEmptyStatement, IInv, ListsHaveItems
  <2> QED
    BY <1>2, <2>1, ListsStay DEF DropEmptyStatement
<1>9. entry \in Statements
  BY DEF DropEmptyStatement, HeldOnce
<1> QED
  BY <1>3, <1>4, <1>5, <1>6, <1>7, <1>8, <1>9 DEF DropEmptyStatement, IInv, HeldOnce

\* What the chain is when the pull is cleared or has freed what it holds.
LEMMA ClearedPull ==
  ASSUME TypeOK, blocks' = << << >> >>, freed' \in {Contents, << >>}
  PROVE  PullTypeOK' /\ HeadHasRoom'
<1>1. Contents \in Seq(Ptrs) /\ << >> \in Seq(Ptrs)
  BY ContentsArePointers DEF TypeOK, PullTypeOK, IsChain
<1>2. freed' \in Seq(Ptrs)
  BY <1>1, Zenon
<1>3. << << >> >> \in Seq(Seq(Ptrs))
  OBVIOUS
<1> QED
  BY <1>2, <1>3, PullAssumption DEF PullTypeOK, HeadHasRoom

\* An error frees what the pull holds, which is every node and table, and without statements
\* nothing else.
LEMMA FailKeeps ==
  ASSUME IInv, HeldOnce, Fail
  PROVE  /\ IInv' /\ HeldOnce'
         /\ entry # "parse" => \A p \in Tracked : heap'[p] = "free"
         /\ Careful => faulty' = faulty /\ \A p \in Live \ Tracked : heap'[p] = heap[p]
<1>1. PullTypeOK' /\ HeadHasRoom'
  <2>1. blocks' = << << >> >> /\ freed' \in {Contents, << >>}
    BY DEF Fail, FreeObjects, Clear
  <2> QED
    BY <2>1, ClearedPull DEF IInv
<1>2. phase = "parsing" /\ phase' = "failed" /\ UNCHANGED << items, entry >>
  BY DEF Fail
<1>3. CASE entry \in {"parse_expr", "parse_stmt"}
  <2>1. FreeAll(Contents)
    BY <1>3 DEF Fail
  <2>2. /\ heap' \in [Ptrs -> Kinds] /\ faulty' \in BOOLEAN
        /\ \A p \in Ptrs : heap'[p] = IF p \in Range(Contents) THEN "free" ELSE heap[p]
        /\ Live' = Live \ Range(Contents) /\ Tracked' = Tracked \ Range(Contents)
        /\ IsInjective(Contents) /\ Range(Contents) \subseteq Live => faulty' = faulty
    BY <2>1, FreeAllFrees DEF IInv, TypeOK
  <2>3. Tracked' = {} /\ IsFiniteSet(Live')
    BY <1>2, <2>2, FS_Subset DEF IInv, NodesNotLost
  <2>4. TypeOK' /\ NodesNotLost'
    BY <1>1, <1>2, <2>2, <2>3 DEF IInv, TypeOK, Phases, NodesNotLost
  <2>5. ListsHaveItems'
    BY <2>3 DEF ListsHaveItems, Tracked, NodeKinds
  <2>6. Tracked \subseteq Live /\ Live \subseteq Ptrs
    BY DEF Tracked, Live, NodeKinds
  <2>7. Careful => faulty' = faulty /\ \A p \in Live \ Tracked : heap'[p] = heap[p]
    BY <1>2, <1>3, <2>2, <2>6 DEF HeldOnce, Careful
  <2>8. \A p \in Tracked : heap'[p] = "free"
    BY <1>2, <2>2, <2>6 DEF IInv, NodesNotLost
  <2> QED
    BY <1>1, <1>2, <2>3, <2>4, <2>5, <2>7, <2>8 DEF IInv, HeldOnce
<1>4. CASE entry = "parse"
  <2>1. UNCHANGED << heap, faulty >>
    BY <1>4 DEF Fail
  <2>2. Live' = Live /\ ListsHaveItems'
    BY <1>2, <2>1 DEF Live, IInv, ListsHaveItems
  <2> QED
    BY <1>1, <1>2, <1>4, <2>1, <2>2 DEF IInv, TypeOK, Phases, NodesNotLost, HeldOnce
<1> QED
  BY <1>3, <1>4, EntriesAssumption DEF IInv, TypeOK

\* A tree that is complete is no longer in the pull; one that something follows stays in it.
LEMMA EndKeeps ==
  ASSUME IInv, HeldOnce, Finish \/ RejectTrailing
  PROVE  IInv' /\ HeldOnce' /\ faulty' = faulty
<1>1. /\ UNCHANGED << heap, items, entry, faulty >> /\ phase = "parsing"
      /\ phase' \in {"parsed", "rejected"}
      /\ phase' = "rejected" => UNCHANGED << blocks, freed >>
      /\ \/ blocks' = << << >> >> /\ freed' = << >>
         \/ UNCHANGED << blocks, freed >>
  BY DEF Finish, RejectTrailing, Clear
<1>2. PullTypeOK' /\ HeadHasRoom'
  <2>1. CASE UNCHANGED << blocks, freed >>
    BY <2>1 DEF IInv, TypeOK, PullTypeOK, HeadHasRoom
  <2>2. CASE blocks' = << << >> >> /\ freed' = << >>
    BY <2>2, ClearedPull DEF IInv
  <2> QED
    BY <1>1, <2>1, <2>2
<1>3. Live' = Live /\ Tracked' = Tracked /\ ListsHaveItems'
  BY <1>1 DEF Live, Tracked, IInv, ListsHaveItems
<1>4. phase' = "rejected" => Contents' = Contents
  BY <1>1 DEF Contents
<1> QED
  BY <1>1, <1>2, <1>3, <1>4 DEF IInv, TypeOK, Phases, NodesNotLost, HeldOnce

\* The caller frees some of the nodes, each once, and the arrays of the lists among them,
\* each once, since no two lists have the same.
LEMMA DiscardKeeps ==
  ASSUME IInv, HeldOnce, Discard
  PROVE  IInv' /\ HeldOnce' /\ faulty' = faulty
<1>1. PICK tree \in SUBSET {p \in Ptrs : heap[p] \in NodeKinds} :
        LET lists == SetToSeq({p \in tree : heap[p] = "list"})
        IN  FreeAll(SetToSeq(tree) \o [n \in DOMAIN lists |-> items[lists[n]]])
  BY DEF Discard
<1> DEFINE Ls == {p \in tree : heap[p] = "list"}
<1>2. PICK s, lists : s = SetToSeq(tree) /\ lists = SetToSeq(Ls)
  OBVIOUS
<1> DEFINE arrays == [n \in DOMAIN lists |-> items[lists[n]]]
<1>3. FreeAll(s \o arrays)
  BY <1>1, <1>2
<1>4. tree \subseteq Live /\ tree \subseteq Ptrs /\ IsFiniteSet(tree) /\ IsFiniteSet(Ls)
  <2>1. tree \subseteq Live /\ Ls \subseteq tree
    BY DEF Live, NodeKinds
  <2>2. IsFiniteSet(tree)
    BY <2>1, FS_Subset DEF IInv
  <2> QED
    BY <2>1, <2>2, FS_Subset DEF Live
<1>5. /\ s \in Seq(tree) /\ Range(s) = tree /\ IsInjective(s)
      /\ lists \in Seq(Ls) /\ Range(lists) = Ls /\ IsInjective(lists)
  BY <1>2, <1>4, SetInOrder, Zenon
<1>6. /\ \A n \in DOMAIN lists : lists[n] \in Ls /\ lists[n] \in Ptrs /\ items[lists[n]] \in Ptrs
      /\ DOMAIN lists = 1 .. Len(lists) /\ Len(lists) \in Nat
  <2>1. DOMAIN lists = 1 .. Len(lists) /\ Len(lists) \in Nat
    BY <1>5
  <2>2. \A n \in DOMAIN lists : lists[n] \in Ls
    BY <1>5, <2>1
  <2> QED
    BY <1>4, <2>1, <2>2 DEF IInv, TypeOK
<1>7. arrays \in Seq(Ptrs) /\ s \in Seq(Ptrs) /\ DOMAIN arrays = DOMAIN lists
  <2>1. arrays \in Seq(Ptrs) /\ DOMAIN arrays = DOMAIN lists
    BY <1>6
  <2> QED
    BY <1>4, <1>5, <2>1
<1>8. \A p \in Range(arrays) : heap[p] = "array" /\ p \in Ptrs
  BY <1>6 DEF Range, IInv, ListsHaveItems
<1>9. IsInjective(arrays)
  <2> SUFFICES ASSUME NEW i \in DOMAIN lists, NEW j \in DOMAIN lists,
                      items[lists[i]] = items[lists[j]]
               PROVE  i = j
    BY DEF IsInjective
  <2>1. lists[i] = lists[j]
    BY <1>6 DEF IInv, ListsHaveItems
  <2> QED
    BY <1>5, <2>1 DEF IsInjective
<1>10. Range(s) \cap Range(arrays) = {}
  <2>1. \A p \in tree : heap[p] # "array"
    BY DEF NodeKinds
  <2> QED
    BY <1>5, <1>8, <2>1
<1>11. Range(arrays) = {items[l] : l \in Ls}
  <2>1. \A l \in Ls : \E n \in DOMAIN lists : lists[n] = l
    BY <1>5 DEF Range
  <2> QED
    BY <1>6, <2>1 DEF Range
<1>12. PICK u : u = s \o arrays
  OBVIOUS
<1> HIDE DEF arrays
<1>13. IsInjective(u) /\ Range(u) = tree \cup Range(arrays) /\ FreeAll(u)
  BY <1>3, <1>5, <1>7, <1>9, <1>10, <1>12, JoinInjective
<1>14. Range(u) \subseteq Live
  BY <1>4, <1>8, <1>13 DEF Live
<1>15. /\ heap' \in [Ptrs -> Kinds] /\ faulty' \in BOOLEAN
       /\ Live' = Live \ Range(u) /\ faulty' = faulty
  BY <1>13, <1>14, FreeAllFrees DEF IInv, TypeOK
<1>16. IsFiniteSet(Live')
  BY <1>15, FS_Subset DEF IInv
<1>17. ListsHaveItems'
  <2>1. ASSUME NEW l \in Ptrs, heap[l] = "list", l \notin Range(u) PROVE items[l] \notin Range(u)
    <3>1. heap[items[l]] = "array" /\ items[l] \notin tree
      BY <2>1 DEF IInv, ListsHaveItems, NodeKinds
    <3>2. \A m \in Ls : items[m] # items[l]
      BY <1>4, <1>13, <2>1 DEF IInv, ListsHaveItems
    <3> QED
      BY <1>11, <1>13, <3>1, <3>2
  <2> QED
    BY <1>13, <2>1, ListsStay DEF Discard
<1>18. PullTypeOK' /\ HeadHasRoom'
  BY DEF Discard, IInv, TypeOK, PullTypeOK, HeadHasRoom
<1> QED
  BY <1>15, <1>16, <1>17, <1>18 DEF Discard, IInv, TypeOK, Phases, NodesNotLost, HeldOnce

\* What symtable_destroy frees is there.
LEMMA DestroyKeeps ==
  ASSUME IInv, HeldOnce, DiscardProgram \/ Destroy
  PROVE  IInv' /\ HeldOnce' /\ faulty' = faulty
<1>1. /\ UNCHANGED << items, entry >> /\ phase' \in {"discarded", "destroyed"}
      /\ UNCHANGED << heap, faulty >> \/ FreeAll(SetToSeq(Links))
  BY DEF DiscardProgram, Destroy
<1>2. PullTypeOK' /\ HeadHasRoom'
  <2>1. CASE UNCHANGED << blocks, freed >>
    BY <2>1 DEF IInv, TypeOK, PullTypeOK, HeadHasRoom
  <2>2. CASE Clear
    BY <2>2, ClearedPull DEF Clear, IInv
  <2> QED
    BY <2>1, <2>2 DEF DiscardProgram, Destroy
<1>3. /\ heap' \in [Ptrs -> Kinds] /\ faulty' = faulty /\ IsFiniteSet(Live') /\ ListsHaveItems'
  <2>1. CASE UNCHANGED << heap, faulty >>
    BY <1>1, <2>1 DEF IInv, TypeOK, Live, ListsHaveItems
  <2>2. CASE FreeAll(SetToSeq(Links))
    <3>1. PICK s : s = SetToSeq(Links)
      OBVIOUS
    <3>2. Links \subseteq Live
      BY DEF Links, Live
    <3>3. Range(s) = Links /\ IsInjective(s)
      BY <3>1, <3>2, FS_Subset, SetInOrder DEF IInv
    <3>4. /\ heap' \in [Ptrs -> Kinds] /\ Live' = Live \ Range(s) /\ faulty' = faulty
      BY <2>2, <3>1, <3>2, <3>3, FreeAllFrees DEF IInv, TypeOK
    <3>5. IsFiniteSet(Live')
      BY <3>4, FS_Subset DEF IInv
    <3>6. \A l \in Ptrs : heap[l] = "list" => items[l] \notin Range(s)
      BY <3>3 DEF Links, IInv, ListsHaveItems
    <3>7. ListsHaveItems'
      BY <1>1, <2>2, <3>1, <3>6, ListsStay
    <3> QED
      BY <3>4, <3>5, <3>7
  <2> QED
    BY <1>1, <2>1, <2>2
<1> QED
  BY <1>1, <1>2, <1>3 DEF IInv, TypeOK, Phases, NodesNotLost, HeldOnce

\* Every step keeps it, and only an error behind a statement can free what is free, or what
\* is not the pull's.
LEMMA StepKeeps ==
  ASSUME IInv, HeldOnce, [Next]_vars
  PROVE  /\ IInv' /\ HeldOnce'
         /\ entry' = entry
         /\ Careful => faulty' = faulty
         /\ phase = "parsing" /\ phase' = "failed" =>
              /\ entry # "parse" => \A p \in Tracked : heap'[p] = "free"
              /\ Careful => \A p \in Live \ Tracked : heap'[p] = heap[p]
<1>1. CASE UNCHANGED vars
  BY <1>1 DEF vars, IInv, TypeOK, PullTypeOK, HeadHasRoom, Live, Tracked, ListsHaveItems,
              NodesNotLost, HeldOnce, Contents
<1>2. ASSUME NEW p \in Ptrs, NEW kind \in {"node", "nop"}, Alloc(p, kind)
      PROVE  IInv' /\ HeldOnce' /\ UNCHANGED << entry, faulty >> /\ phase' = "parsing"
  BY <1>2, AllocKeeps DEF Alloc
<1>3. ASSUME NEW p \in Ptrs, NEW q \in Ptrs, AllocList(p, q) \/ PushSymtable(p, q)
      PROVE  IInv' /\ HeldOnce' /\ UNCHANGED << entry, faulty >> /\ phase' = "parsing"
  BY <1>3, PairKeeps DEF AllocList, PushSymtable
<1>4. ASSUME NEW p \in Ptrs, NEW q \in Ptrs, GrowList(p, q)
      PROVE  IInv' /\ HeldOnce' /\ UNCHANGED << entry, faulty >> /\ phase' = "parsing"
  BY <1>4, GrowKeeps DEF GrowList
<1>5. ASSUME NEW p \in Ptrs, NEW q \in Ptrs, Declare(p) \/ DeclareOutside(p, q)
      PROVE  IInv' /\ HeldOnce' /\ UNCHANGED << entry, faulty >> /\ phase' = "parsing"
  BY <1>5, DeclareKeeps DEF Declare, DeclareOutside
<1>6. ASSUME NEW p \in Ptrs, DropEmptyStatement(p)
      PROVE  IInv' /\ HeldOnce' /\ UNCHANGED << entry, faulty >> /\ phase' = "parsing"
  BY <1>6, DropKeeps DEF DropEmptyStatement
<1>7. CASE Fail
  BY <1>7, FailKeeps DEF Fail
<1>8. CASE Finish \/ RejectTrailing
  BY <1>8, EndKeeps DEF Finish, RejectTrailing
<1>9. CASE Discard
  BY <1>9, DiscardKeeps DEF Discard
<1>10. CASE DiscardProgram \/ Destroy
  BY <1>10, DestroyKeeps DEF DiscardProgram, Destroy
<1> QED
  BY <1>1, <1>2, <1>3, <1>4, <1>5, <1>6, <1>7, <1>8, <1>9, <1>10 DEF Next

\* The inductive invariant.
THEOREM PoolHoldsAll == Spec => [](IInv /\ HeldOnce)
<1>1. IInv /\ HeldOnce /\ [Next]_vars => (IInv /\ HeldOnce)'
  BY StepKeeps
<1> QED
  BY InvInit, <1>1, PTL DEF Spec

\* NodesNotLost: every node and table there is while the parser works is in its pull, and an
\* error of an expression or a statement leaves none of them allocated.
THEOREM NoNodeIsLost == Spec => []NodesNotLost
<1>1. IInv => NodesNotLost
  BY DEF IInv
<1> QED
  BY <1>1, PoolHoldsAll, PTL

\* ErrorFreesNodes: an error of an expression or a statement frees every node and table, and
\* where no statement is parsed outside a program nothing else.
THEOREM ErrorsFreeNodes == Spec => ErrorFreesNodes
<1>1. IInv /\ HeldOnce /\ [Next]_vars =>
        [ phase = "parsing" /\ phase' = "failed" =>
            /\ entry # "parse" => \A p \in Tracked : heap'[p] = "free"
            /\ (entry \in Statements => entry = "parse") =>
                 \A p \in Live \ Tracked : heap'[p] = heap[p] ]_vars
  BY StepKeeps DEF Careful
<1> QED
  BY <1>1, PoolHoldsAll, PTL DEF Spec, ErrorFreesNodes

\* FreedOnce: nothing is freed twice, where no statement is parsed outside a program.  (Where
\* one is, an empty statement that has been dropped is freed again by an error behind it.)
THEOREM NothingIsFreedTwice ==
  ASSUME Statements \subseteq {"parse"}
  PROVE  Spec => []FreedOnce
<1>1. IInv /\ HeldOnce /\ FreedOnce /\ [Next]_vars => FreedOnce'
  <2>1. Careful
    BY DEF Careful
  <2> QED
    BY <2>1, StepKeeps DEF FreedOnce
<1> QED
  BY InvInit, <1>1, PoolHoldsAll, PTL DEF Spec

\* HeadHasRoom and ImplementsTracker hold of the pull as the parser uses it.
THEOREM ParserUsesPull == Spec => []HeadHasRoom /\ ImplementsTracker
<1>1. Init => PullInit
  BY DEF Init
<1>2. [Next]_vars => [PullNext]_pullVars
  BY StepOfPull DEF vars, pullVars
<1>3. Spec => PullSpec
  BY <1>1, <1>2, PTL DEF Spec, PullSpec
<1> QED
  BY <1>3, HeadAlwaysHasRoom, PullIsTracker, PTL
=============================================================================
