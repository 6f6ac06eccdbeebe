------------------------- MODULE DeclarationsProofs -------------------------
(***************************************************************************)
(* The stack of scopes is balanced for every program: what the calls that  *)
(* have not returned are to close is what has been opened.                 *)
(***************************************************************************)
EXTENDS Declarations, FiniteSetTheorems, SequenceTheorems, WellFoundedInduction, TLAPS

\* What leaves a scope, when it is done.
Closers == {"field", "parameters", "parameter", "declared_parameter", "parameters_end",
            "end_of_body", "block", "close"}

Held(item) == IF item.do \in Closers THEN 1 ELSE 0

IsSeq(s) == s \in Seq({s[n] : n \in 1 .. Len(s)})

\* How many scopes are open below each place of the C stack.
Depths(s, d) ==
  /\ d \in [1 .. Len(s) + 1 -> Nat]
  /\ d[Len(s) + 1] = 2
  /\ \A n \in 1 .. Len(s) : d[n] = d[n + 1] + Held(s[n])
  /\ \A m, n \in 1 .. Len(s) + 1 : m <= n => d[n] <= d[m]

HasDo(item) == "do" \in DOMAIN item

\* Only parser_parse is at the bottom, and what follows a body is the declaration's separator.
Shape(s) ==
  \A n \in 1 .. Len(s) :
    /\ HasDo(s[n])
    /\ (s[n].do = "unit") <=> (n = Len(s))
    /\ s[n].do \in {"body", "end_of_body"} => n < Len(s) /\ s[n + 1].do = "separator"

Stacked(s, k) == IsSeq(s) /\ Shape(s) /\ \E d : Depths(s, d) /\ d[1] = k

Plain(item) ==
  HasDo(item) /\ item.do \notin Closers \cup {"unit", "body", "end_of_body"}

----------------------------------------------------------------------------
\* A sequence over some set is one over its own elements.
LEMMA SeqIsSeq == ASSUME NEW S, NEW s \in Seq(S) PROVE IsSeq(s)
  BY DEF IsSeq

\* What is put in front of a sequence.
LEMMA ConsProperties ==
  ASSUME NEW U, NEW x \in U, NEW b \in Seq(U)
  PROVE  /\ << x >> \o b \in Seq(U) /\ Len(<< x >> \o b) = 1 + Len(b)
         /\ \A i \in 1 .. 1 + Len(b) : (<< x >> \o b)[i] = IF i <= 1 THEN << x >>[i] ELSE b[i - 1]
  OBVIOUS

\* Tuples in front of tuples.
LEMMA TupleConcat ==
  /\ \A a, b : << a >> \o << b >> = << a, b >>
  /\ \A a, b, c : << a >> \o << b, c >> = << a, b, c >>
  /\ \A a, b, c : << a, b >> \o << c >> = << a, b, c >>
<1>1. ASSUME NEW a, NEW b PROVE << a >> \o << b >> = << a, b >>
  <2> DEFINE u == << a >> \o << b >>
             v == << a, b >>
  <2>1. /\ << b >> \in Seq({a, b}) /\ Len(<< b >>) = 1 /\ << b >>[1] = b /\ << a >>[1] = a
        /\ v \in Seq({a, b}) /\ Len(v) = 2 /\ v[1] = a /\ v[2] = b
    OBVIOUS
  <2>2. u \in Seq({a, b}) /\ Len(u) = 2 /\ u[1] = a /\ u[2] = b
    BY <2>1, ConsProperties
  <2> HIDE DEF u, v
  <2>3. \A i \in 1 .. 2 : u[i] = v[i]
    BY <2>1, <2>2
  <2>4. u = v
    BY <2>1, <2>2, <2>3, SeqEqual
  <2> QED
    BY <2>4 DEF u, v
<1>2. ASSUME NEW a, NEW b, NEW c PROVE << a >> \o << b, c >> = << a, b, c >>
  <2> DEFINE u == << a >> \o << b, c >>
             v == << a, b, c >>
  <2>1. /\ << b, c >> \in Seq({a, b, c}) /\ Len(<< b, c >>) = 2
        /\ << b, c >>[1] = b /\ << b, c >>[2] = c /\ << a >>[1] = a
        /\ v \in Seq({a, b, c}) /\ Len(v) = 3 /\ v[1] = a /\ v[2] = b /\ v[3] = c
    OBVIOUS
  <2>2. u \in Seq({a, b, c}) /\ Len(u) = 3 /\ u[1] = a /\ u[2] = b /\ u[3] = c
    BY <2>1, ConsProperties
  <2> HIDE DEF u, v
  <2>3. \A i \in 1 .. 3 : u[i] = v[i]
    BY <2>1, <2>2
  <2>4. u = v
    BY <2>1, <2>2, <2>3, SeqEqual
  <2> QED
    BY <2>4 DEF u, v
<1>3. ASSUME NEW a, NEW b, NEW c PROVE << a, b >> \o << c >> = << a, b, c >>
  <2>1. << a >> \in Seq({a, b, c}) /\ << b >> \in Seq({a, b, c}) /\ << c >> \in Seq({a, b, c})
    OBVIOUS
  <2>2. (<< a >> \o << b >>) \o << c >> = << a >> \o (<< b >> \o << c >>)
    BY <2>1, ConcatAssociative
  <2>3. << b >> \o << c >> = << b, c >> /\ << a >> \o << b >> = << a, b >>
    BY <1>1
  <2> QED
    BY <1>2, <2>2, <2>3
<1> QED
  BY <1>1, <1>2, <1>3

\* A call that returns gives back the scope it was to close, if any.
LEMMA PopDepth ==
  ASSUME NEW s, NEW k, Stacked(s, k), s # << >>
  PROVE  /\ Stacked(Tail(s), k - Held(Head(s)))
         /\ k \in Nat /\ k - Held(Head(s)) \in Nat /\ k - Held(Head(s)) >= 2
<1> DEFINE S == {s[n] : n \in 1 .. Len(s)}
           t == Tail(s)
<1>1. s \in Seq(S) /\ Len(s) \in Nat \ {0}
  BY DEF Stacked, IsSeq
<1>2. t \in Seq(S) /\ Len(t) = Len(s) - 1 /\ \A n \in 1 .. Len(t) : t[n] = s[n + 1]
  BY <1>1
<1>3. IsSeq(t)
  BY <1>2, SeqIsSeq
<1>4. Shape(t)
  <2> SUFFICES ASSUME NEW n \in 1 .. Len(t)
               PROVE  /\ HasDo(t[n]) /\ ((t[n].do = "unit") <=> (n = Len(t)))
                      /\ t[n].do \in {"body", "end_of_body"} =>
                            n < Len(t) /\ t[n + 1].do = "separator"
    BY DEF Shape
  <2>1. /\ n + 1 \in 1 .. Len(s) /\ t[n] = s[n + 1] /\ (n < Len(t) => t[n + 1] = s[n + 1 + 1])
        /\ (n = Len(t)) <=> (n + 1 = Len(s))
        /\ (n < Len(t)) <=> (n + 1 < Len(s))
    BY <1>1, <1>2
  <2> QED
    BY <2>1 DEF Stacked, Shape
<1>5. PICK d : Depths(s, d) /\ d[1] = k
  BY DEF Stacked
<1>6. /\ d \in [1 .. Len(s) + 1 -> Nat] /\ d[Len(s) + 1] = 2
      /\ \A n \in 1 .. Len(s) : d[n] = d[n + 1] + Held(s[n])
      /\ \A m, n \in 1 .. Len(s) + 1 : m <= n => d[n] <= d[m]
  BY <1>5 DEF Depths
<1> DEFINE e == [n \in 1 .. Len(t) + 1 |-> d[n + 1]]
<1>7. Depths(t, e)
  <2>1. e \in [1 .. Len(t) + 1 -> Nat] /\ e[Len(t) + 1] = 2
    BY <1>1, <1>2, <1>6
  <2>2. ASSUME NEW n \in 1 .. Len(t) PROVE e[n] = e[n + 1] + Held(t[n])
    <3>1. n + 1 \in 1 .. Len(s) /\ e[n] = d[n + 1] /\ e[n + 1] = d[n + 1 + 1] /\ t[n] = s[n + 1]
      BY <1>1, <1>2
    <3> QED
      BY <1>6, <3>1
  <2>3. ASSUME NEW m \in 1 .. Len(t) + 1, NEW n \in 1 .. Len(t) + 1, m <= n
        PROVE  e[n] <= e[m]
    <3>1. /\ n + 1 \in 1 .. Len(s) + 1 /\ m + 1 \in 1 .. Len(s) + 1 /\ m + 1 <= n + 1
          /\ e[n] = d[n + 1] /\ e[m] = d[m + 1]
      BY <1>1, <1>2, <2>3
    <3> QED
      BY <1>6, <3>1
  <2> QED
    BY <2>1, <2>2, <2>3 DEF Depths
<1>8. e[1] = k - Held(s[1]) /\ e[1] \in Nat /\ e[1] >= 2 /\ k \in Nat
  <2>1. /\ 1 \in 1 .. Len(s) /\ 2 \in 1 .. Len(s) + 1
        /\ 2 <= Len(s) + 1 /\ Len(s) + 1 \in 1 .. Len(s) + 1
    BY <1>1
  <2>2. d[1] = d[2] + Held(s[1]) /\ d[2] >= 2 /\ d[2] \in Nat /\ d[1] \in Nat
    BY <1>6, <2>1
  <2>3. e[1] = d[2] /\ Held(s[1]) \in Nat
    BY <1>1, <1>2 DEF Held
  <2> QED
    BY <1>5, <2>2, <2>3
<1>9. Head(s) = s[1]
  BY <1>1
<1> HIDE DEF e, t
<1> QED
  BY <1>3, <1>4, <1>7, <1>8, <1>9 DEF Stacked, t

\* Calls that hold no scope change nothing of how many are open.
LEMMA PushPlain ==
  ASSUME NEW s, NEW k, Stacked(s, k), s # << >>,
         NEW T, NEW items \in Seq(T), \A i \in 1 .. Len(items) : Plain(items[i])
  PROVE  Stacked(items \o s, k)
<1> DEFINE S == {s[n] : n \in 1 .. Len(s)}
           t == items \o s
           l == Len(items)
<1>1. s \in Seq(S) /\ Len(s) \in Nat \ {0} /\ l \in Nat
  BY DEF Stacked, IsSeq
<1>2. /\ t \in Seq(S \cup T) /\ Len(t) = l + Len(s)
      /\ \A n \in 1 .. Len(t) : t[n] = IF n <= l THEN items[n] ELSE s[n - l]
  <2>1. s \in Seq(S \cup T) /\ items \in Seq(S \cup T)
    BY <1>1
  <2> QED
    BY <1>1, <2>1, ConcatProperties
<1>3. IsSeq(t)
  BY <1>2, SeqIsSeq
<1>4. Shape(t)
  <2> SUFFICES ASSUME NEW n \in 1 .. Len(t)
               PROVE  /\ HasDo(t[n]) /\ ((t[n].do = "unit") <=> (n = Len(t)))
                      /\ t[n].do \in {"body", "end_of_body"} =>
                            n < Len(t) /\ t[n + 1].do = "separator"
    BY DEF Shape
  <2>1. CASE n <= l
    BY <1>1, <1>2, <2>1 DEF Plain
  <2>2. CASE n > l
    <3>1. n - l \in 1 .. Len(s) /\ t[n] = s[n - l] /\ (n < Len(t) => t[n + 1] = s[n - l + 1])
      BY <1>1, <1>2, <2>2
    <3>2. (n = Len(t)) <=> (n - l = Len(s))
      BY <1>1, <1>2
    <3>3. (n < Len(t)) <=> (n - l < Len(s))
      BY <1>1, <1>2
    <3> QED
      BY <3>1, <3>2, <3>3 DEF Stacked, Shape
  <2> QED
    BY <1>1, <2>1, <2>2
<1>5. PICK d : Depths(s, d) /\ d[1] = k
  BY DEF Stacked
<1> DEFINE e == [n \in 1 .. Len(t) + 1 |-> IF n <= l THEN k ELSE d[n - l]]
<1>6. Depths(t, e)
  <2>1. \A n \in 1 .. l : Held(items[n]) = 0
    BY DEF Plain, Held
  <2>2. d \in [1 .. Len(s) + 1 -> Nat] /\ d[1] = k /\ d[Len(s) + 1] = 2 /\ k \in Nat
    <3>1. 1 \in 1 .. Len(s) + 1
      BY <1>1
    <3> QED
      BY <1>5, <3>1 DEF Depths
  <2>3. e \in [1 .. Len(t) + 1 -> Nat] /\ e[Len(t) + 1] = 2
    BY <1>1, <1>2, <2>2
  <2>4. ASSUME NEW n \in 1 .. Len(t) PROVE e[n] = e[n + 1] + Held(t[n])
    <3>1. CASE n <= l
      <4>1. e[n] = k /\ e[n + 1] = k
        BY <1>1, <1>2, <2>2, <3>1
      <4>2. t[n] = items[n] /\ Held(items[n]) = 0
        BY <1>1, <1>2, <2>1, <3>1
      <4> QED
        BY <2>2, <4>1, <4>2
    <3>2. CASE n > l
      <4>1. n - l \in 1 .. Len(s) /\ e[n] = d[n - l] /\ e[n + 1] = d[n - l + 1] /\ t[n] = s[n - l]
        BY <1>1, <1>2, <3>2
      <4> QED
        BY <1>5, <4>1 DEF Depths
    <3> QED
      BY <1>1, <3>1, <3>2
  <2>5. ASSUME NEW m \in 1 .. Len(t) + 1, NEW n \in 1 .. Len(t) + 1, m <= n
        PROVE  e[n] <= e[m]
    <3>1. \A i, j \in 1 .. Len(s) + 1 : i <= j => d[j] <= d[i]
      BY <1>5 DEF Depths
    <3>2. CASE n <= l
      <4>1. e[n] = k /\ e[m] = k
        <5>1. m <= l /\ m \in 1 .. Len(t) + 1
          BY <1>1, <1>2, <2>5, <3>2
        <5> QED
          BY <3>2, <5>1
      <4> QED
        BY <2>2, <4>1
    <3>3. CASE n > l /\ m <= l
      <4>1. n - l \in 1 .. Len(s) + 1 /\ 1 \in 1 .. Len(s) + 1 /\ 1 <= n - l
        BY <1>1, <1>2, <3>3
      <4>2. d[n - l] <= d[1]
        BY <3>1, <4>1
      <4> QED
        BY <1>1, <1>2, <2>2, <3>3, <4>2
    <3>4. CASE m > l
      <4>1. n - l \in 1 .. Len(s) + 1 /\ m - l \in 1 .. Len(s) + 1 /\ m - l <= n - l /\ n > l
        BY <1>1, <1>2, <2>5, <3>4
      <4> QED
        BY <1>1, <1>2, <3>1, <3>4, <4>1
    <3> QED
      BY <1>1, <3>2, <3>3, <3>4
  <2> QED
    BY <2>3, <2>4, <2>5 DEF Depths
<1>7. e[1] = k
  BY <1>1, <1>2, <1>5
<1> HIDE DEF e, t
<1>8. QED
  BY <1>3, <1>4, <1>6, <1>7 DEF Stacked, t

\* A call, or all of the parser, on what is there.
LEMMA PushDepth ==
  ASSUME NEW s, NEW k, Stacked(s, k), NEW x, HasDo(x),
         (x.do = "unit") <=> (s = << >>),
         x.do \in {"body", "end_of_body"} => s # << >> /\ Head(s).do = "separator"
  PROVE  Stacked(<< x >> \o s, k + Held(x))
<1> DEFINE S == {s[n] : n \in 1 .. Len(s)}
           t == << x >> \o s
           h == Held(x)
<1>1. s \in Seq(S) /\ Len(s) \in Nat /\ h \in {0, 1} /\ (s = << >> <=> Len(s) = 0)
  BY DEF Stacked, IsSeq, Held
<1>2. /\ t \in Seq(S \cup {x}) /\ Len(t) = 1 + Len(s) /\ t[1] = x
      /\ \A n \in 2 .. Len(t) : t[n] = s[n - 1]
  <2>1. s \in Seq(S \cup {x}) /\ << x >> \in Seq(S \cup {x}) /\ Len(<< x >>) = 1 /\ << x >>[1] = x
    BY <1>1
  <2> QED
    BY <1>1, <2>1, ConcatProperties
<1>3. IsSeq(t)
  BY <1>2, SeqIsSeq
<1>4. Shape(t)
  <2> SUFFICES ASSUME NEW n \in 1 .. Len(t)
               PROVE  /\ HasDo(t[n]) /\ ((t[n].do = "unit") <=> (n = Len(t)))
                      /\ t[n].do \in {"body", "end_of_body"} =>
                            n < Len(t) /\ t[n + 1].do = "separator"
    BY DEF Shape
  <2>1. CASE n = 1
    <3>1. s # << >> => 2 \in 2 .. Len(t) /\ t[2] = s[1] /\ Head(s) = s[1] /\ 1 < Len(t)
      BY <1>1, <1>2
    <3> QED
      BY <1>1, <1>2, <2>1, <3>1
  <2>2. CASE n # 1
    <3>1. /\ n - 1 \in 1 .. Len(s) /\ t[n] = s[n - 1] /\ (n < Len(t) => t[n + 1] = s[n - 1 + 1])
          /\ (n = Len(t)) <=> (n - 1 = Len(s))
          /\ (n < Len(t)) <=> (n - 1 < Len(s))
      BY <1>1, <1>2, <2>2
    <3> QED
      BY <3>1 DEF Stacked, Shape
  <2> QED
    BY <2>1, <2>2
<1>5. PICK d : Depths(s, d) /\ d[1] = k
  BY DEF Stacked
<1>6. /\ d \in [1 .. Len(s) + 1 -> Nat] /\ d[1] = k /\ d[Len(s) + 1] = 2 /\ k \in Nat
      /\ \A n \in 1 .. Len(s) : d[n] = d[n + 1] + Held(s[n])
      /\ \A m, n \in 1 .. Len(s) + 1 : m <= n => d[n] <= d[m]
  <2>1. 1 \in 1 .. Len(s) + 1
    BY <1>1
  <2> QED
    BY <1>5, <2>1 DEF Depths
<1> DEFINE e == [n \in 1 .. Len(t) + 1 |-> IF n = 1 THEN k + h ELSE d[n - 1]]
<1>7. Depths(t, e)
  <2>1. e \in [1 .. Len(t) + 1 -> Nat] /\ e[Len(t) + 1] = 2
    <3>1. \A n \in 1 .. Len(t) + 1 : (n # 1 => n - 1 \in 1 .. Len(s) + 1) /\ k + h \in Nat
      BY <1>1, <1>2, <1>6
    <3>2. \A n \in 1 .. Len(t) + 1 : e[n] \in Nat
      BY <1>6, <3>1
    <3>3. Len(t) + 1 # 1 /\ Len(t) + 1 - 1 = Len(s) + 1 /\ Len(t) + 1 \in 1 .. Len(t) + 1
      BY <1>1, <1>2
    <3> QED
      BY <1>6, <3>2, <3>3
  <2>2. ASSUME NEW n \in 1 .. Len(t) PROVE e[n] = e[n + 1] + Held(t[n])
    <3>1. CASE n = 1
      <4>1. e[n] = k + h /\ e[n + 1] = d[1] /\ t[n] = x
        BY <1>1, <1>2, <3>1
      <4> QED
        BY <1>6, <4>1
    <3>2. CASE n # 1
      <4>1. n - 1 \in 1 .. Len(s) /\ e[n] = d[n - 1] /\ e[n + 1] = d[n - 1 + 1] /\ t[n] = s[n - 1]
        BY <1>1, <1>2, <3>2
      <4> QED
        BY <1>6, <4>1
    <3> QED
      BY <3>1, <3>2
  <2>3. ASSUME NEW m \in 1 .. Len(t) + 1, NEW n \in 1 .. Len(t) + 1, m <= n
        PROVE  e[n] <= e[m]
    <3>1. CASE n = 1
      <4>1. m = n
        BY <1>2, <1>1, <2>3, <3>1
      <4> QED
        BY <1>1, <1>2, <1>6, <3>1, <4>1
    <3>2. CASE n # 1 /\ m = 1
      <4>1. /\ n - 1 \in 1 .. Len(s) + 1 /\ 1 \in 1 .. Len(s) + 1 /\ 1 <= n - 1
            /\ e[n] = d[n - 1] /\ e[m] = k + h
        BY <1>1, <1>2, <3>2
      <4>2. d[n - 1] <= k /\ d[n - 1] \in Nat
        BY <1>6, <4>1
      <4> QED
        BY <1>1, <1>6, <4>1, <4>2
    <3>3. CASE n # 1 /\ m # 1
      <4>1. /\ n - 1 \in 1 .. Len(s) + 1 /\ m - 1 \in 1 .. Len(s) + 1 /\ m - 1 <= n - 1
            /\ e[n] = d[n - 1] /\ e[m] = d[m - 1]
        BY <1>1, <1>2, <2>3, <3>3
      <4> QED
        BY <1>6, <4>1
    <3> QED
      BY <3>1, <3>2, <3>3
  <2> QED
    BY <2>1, <2>2, <2>3 DEF Depths
<1>8. e[1] = k + h
  BY <1>1, <1>2
<1> HIDE DEF e, t
<1> QED
  BY <1>3, <1>4, <1>7, <1>8 DEF Stacked, t

\* Calls that are dropped leave no more scopes to be closed than there were.
LEMMA DropDepth ==
  ASSUME NEW s, NEW k, Stacked(s, k), NEW m \in 1 .. Len(s)
  PROVE  \E j \in Nat : j <= k /\ Stacked(SubSeq(s, m, Len(s)), j)
<1> DEFINE S == {s[n] : n \in 1 .. Len(s)}
           t == SubSeq(s, m, Len(s))
<1>1. s \in Seq(S) /\ Len(s) \in Nat \ {0}
  BY DEF Stacked, IsSeq
<1>2. /\ t \in Seq(S) /\ Len(t) = Len(s) - m + 1
      /\ \A n \in 1 .. Len(t) : t[n] = s[n + m - 1]
  <2>1. /\ t \in Seq(S)
        /\ Len(t) = IF m <= Len(s) THEN Len(s) - m + 1 ELSE 0
        /\ \A i \in 1 .. Len(s) - m + 1 : t[i] = s[m + i - 1]
    BY <1>1, SubSeqProperties
  <2> QED
    BY <1>1, <2>1
<1>3. IsSeq(t)
  BY <1>2, SeqIsSeq
<1>4. Shape(t)
  <2> SUFFICES ASSUME NEW n \in 1 .. Len(t)
               PROVE  /\ HasDo(t[n]) /\ ((t[n].do = "unit") <=> (n = Len(t)))
                      /\ t[n].do \in {"body", "end_of_body"} =>
                            n < Len(t) /\ t[n + 1].do = "separator"
    BY DEF Shape
  <2>1. /\ n + m - 1 \in 1 .. Len(s) /\ t[n] = s[n + m - 1]
        /\ (n < Len(t) => t[n + 1] = s[n + m - 1 + 1])
        /\ (n = Len(t)) <=> (n + m - 1 = Len(s))
        /\ (n < Len(t)) <=> (n + m - 1 < Len(s))
    BY <1>1, <1>2
  <2> QED
    BY <2>1 DEF Stacked, Shape
<1>5. PICK d : Depths(s, d) /\ d[1] = k
  BY DEF Stacked
<1>6. /\ d \in [1 .. Len(s) + 1 -> Nat] /\ d[1] = k /\ d[Len(s) + 1] = 2 /\ k \in Nat
      /\ \A n \in 1 .. Len(s) : d[n] = d[n + 1] + Held(s[n])
      /\ \A i, n \in 1 .. Len(s) + 1 : i <= n => d[n] <= d[i]
  <2>1. 1 \in 1 .. Len(s) + 1
    BY <1>1
  <2> QED
    BY <1>5, <2>1 DEF Depths
<1> DEFINE e == [n \in 1 .. Len(t) + 1 |-> d[n + m - 1]]
<1>7. Depths(t, e)
  <2>1. e \in [1 .. Len(t) + 1 -> Nat] /\ e[Len(t) + 1] = 2
    <3>1. \A n \in 1 .. Len(t) + 1 : n + m - 1 \in 1 .. Len(s) + 1
      BY <1>1, <1>2
    <3>2. \A n \in 1 .. Len(t) + 1 : e[n] \in Nat
      BY <1>6, <3>1
    <3>3. Len(t) + 1 + m - 1 = Len(s) + 1 /\ Len(t) + 1 \in 1 .. Len(t) + 1
      BY <1>1, <1>2
    <3> QED
      BY <1>6, <3>2, <3>3
  <2>2. ASSUME NEW n \in 1 .. Len(t) PROVE e[n] = e[n + 1] + Held(t[n])
    <3>1. /\ n + m - 1 \in 1 .. Len(s) /\ n + 1 + m - 1 = n + m - 1 + 1
          /\ n \in 1 .. Len(t) + 1 /\ n + 1 \in 1 .. Len(t) + 1
      BY <1>1, <1>2
    <3>2. e[n] = d[n + m - 1] /\ e[n + 1] = d[n + 1 + m - 1]
      BY <3>1
    <3>3. t[n] = s[n + m - 1]
      BY <1>2
    <3> QED
      BY <1>6, <3>1, <3>2, <3>3
  <2>3. ASSUME NEW i \in 1 .. Len(t) + 1, NEW n \in 1 .. Len(t) + 1, i <= n
        PROVE  e[n] <= e[i]
    <3>1. /\ n + m - 1 \in 1 .. Len(s) + 1 /\ i + m - 1 \in 1 .. Len(s) + 1
          /\ i + m - 1 <= n + m - 1
      BY <1>1, <1>2, <2>3
    <3>2. e[n] = d[n + m - 1] /\ e[i] = d[i + m - 1]
      OBVIOUS
    <3> QED
      BY <1>6, <3>1, <3>2
  <2> QED
    BY <2>1, <2>2, <2>3 DEF Depths
<1>8. e[1] = d[m] /\ d[m] \in Nat /\ d[m] <= k
  <2>1. /\ 1 \in 1 .. Len(t) + 1 /\ 1 + m - 1 = m /\ 1 \in 1 .. Len(s) + 1
        /\ m \in 1 .. Len(s) + 1 /\ 1 <= m
    BY <1>1, <1>2
  <2> QED
    BY <1>6, <2>1
<1> HIDE DEF e, t
<1> QED
  BY <1>3, <1>4, <1>7, <1>8 DEF Stacked, t

\* Plain items and one that closes a scope.
LEMMA PushCloser ==
  ASSUME NEW s, NEW k, Stacked(s, k), s # << >>,
         NEW T, NEW items \in Seq(T), NEW p \in 1 .. Len(items),
         HasDo(items[p]), items[p].do \in Closers,
         items[p].do = "end_of_body" => p = Len(items) /\ Head(s).do = "separator",
         \A i \in 1 .. Len(items) : i # p => Plain(items[i])
  PROVE  Stacked(items \o s, k + 1)
<1> DEFINE S == {s[n] : n \in 1 .. Len(s)}
           before == SubSeq(items, 1, p - 1)
           behind == SubSeq(items, p + 1, Len(items))
           x == items[p]
<1>1. s \in Seq(S) /\ Len(s) \in Nat \ {0} /\ Len(items) \in Nat /\ p \in Nat
  BY DEF Stacked, IsSeq
<1>2. /\ before \in Seq(T) /\ Len(before) = p - 1
      /\ \A i \in 1 .. p - 1 : before[i] = items[i]
  <2>1. p - 1 \in 0 .. Len(items) /\ 1 \in 1 .. Len(items) + 1
    BY <1>1
  <2> QED
    BY <1>1, <2>1, SubSeqProperties
<1>3. /\ behind \in Seq(T) /\ Len(behind) = Len(items) - p
      /\ \A i \in 1 .. Len(items) - p : behind[i] = items[p + i]
  <2>1. /\ behind \in Seq(T)
        /\ Len(behind) = IF p + 1 <= Len(items) THEN Len(items) - (p + 1) + 1 ELSE 0
        /\ \A i \in 1 .. Len(items) - (p + 1) + 1 : behind[i] = items[p + 1 + i - 1]
    BY <1>1, SubSeqProperties
  <2> QED
    BY <1>1, <2>1
<1>4. \A i \in 1 .. Len(before) : Plain(before[i])
  BY <1>1, <1>2
<1>5. \A i \in 1 .. Len(behind) : Plain(behind[i])
  BY <1>1, <1>3
<1>6. Stacked(behind \o s, k)
  BY <1>3, <1>5, PushPlain
<1>7. behind \o s \in Seq(S \cup T) /\ Len(behind \o s) = Len(behind) + Len(s)
      /\ \A i \in 1 .. Len(behind) + Len(s) :
            (behind \o s)[i] = IF i <= Len(behind) THEN behind[i] ELSE s[i - Len(behind)]
  <2>1. s \in Seq(S \cup T) /\ behind \in Seq(S \cup T)
    BY <1>1, <1>3
  <2> QED
    BY <2>1, ConcatProperties
<1>8. behind \o s # << >>
  BY <1>1, <1>3, <1>7
<1>9. x.do = "end_of_body" => behind \o s = s
  <2> SUFFICES ASSUME x.do = "end_of_body" PROVE behind \o s = s
    OBVIOUS
  <2>1. behind = << >>
    BY <1>1, <1>3
  <2> QED
    BY <1>1, <2>1
<1>10. Stacked(<< x >> \o (behind \o s), k + 1)
  <2>1. x.do # "unit" /\ x.do # "body" /\ Held(x) = 1
    BY DEF Closers, Held
  <2>2. x.do \in {"body", "end_of_body"} =>
          behind \o s # << >> /\ Head(behind \o s).do = "separator"
    BY <1>8, <1>9, <2>1
  <2>3. (x.do = "unit") <=> (behind \o s = << >>)
    BY <1>8, <2>1
  <2> HIDE DEF x, behind
  <2>4. HasDo(x)
    BY DEF x
  <2>5. Stacked(<< x >> \o (behind \o s), k + Held(x))
    BY <1>6, <2>2, <2>3, <2>4, PushDepth
  <2> QED
    BY <2>1, <2>5
<1>11. /\ << x >> \o (behind \o s) \in Seq(S \cup T)
       /\ << x >> \o (behind \o s) # << >>
       /\ Len(<< x >> \o (behind \o s)) = 1 + Len(items) - p + Len(s)
       /\ (<< x >> \o (behind \o s))[1] = x
       /\ \A i \in 2 .. 1 + Len(items) - p + Len(s) :
             (<< x >> \o (behind \o s))[i] = (behind \o s)[i - 1]
  <2> HIDE DEF behind, x
  <2>1. x \in S \cup T /\ << x >>[1] = x
    BY DEF x
  <2> DEFINE b == behind \o s
             u == << x >> \o b
  <2>2. b \in Seq(S \cup T) /\ Len(b) = Len(items) - p + Len(s) /\ Len(b) \in Nat
    BY <1>1, <1>3, <1>7
  <2> HIDE DEF b
  <2>3. /\ u \in Seq(S \cup T) /\ Len(u) = 1 + Len(b)
        /\ \A i \in 1 .. 1 + Len(b) : u[i] = IF i <= 1 THEN << x >>[i] ELSE b[i - 1]
    BY <2>1, <2>2, ConsProperties
  <2>4. Len(u) = 1 + Len(items) - p + Len(s) /\ Len(u) # 0 /\ 1 \in 1 .. 1 + Len(b)
    BY <1>1, <2>2, <2>3
  <2>5. \A i \in 2 .. 1 + Len(b) : i \in 1 .. 1 + Len(b) /\ ~ (i <= 1)
    BY <2>2
  <2>6. u # << >>
    BY <2>3, <2>4
  <2> HIDE DEF u
  <2>7. u[1] = x
    BY <2>1, <2>3, <2>4
  <2>8. \A i \in 2 .. 1 + Len(items) - p + Len(s) : u[i] = b[i - 1]
    BY <2>3, <2>4, <2>5
  <2> QED
    BY <2>3, <2>4, <2>6, <2>7, <2>8 DEF u, b
<1>12. Stacked(before \o (<< x >> \o (behind \o s)), k + 1)
  <2> HIDE DEF behind, x, before
  <2> QED
    BY <1>2, <1>4, <1>10, <1>11, PushPlain
<1>13. items \o s = before \o (<< x >> \o (behind \o s))
  <2> DEFINE u == << x >> \o (behind \o s)
  <2>1. /\ items \o s \in Seq(S \cup T) /\ Len(items \o s) = Len(items) + Len(s)
        /\ \A i \in 1 .. Len(items) + Len(s) :
              (items \o s)[i] = IF i <= Len(items) THEN items[i] ELSE s[i - Len(items)]
    <3>1. s \in Seq(S \cup T) /\ items \in Seq(S \cup T)
      BY <1>1
    <3> QED
      BY <3>1, ConcatProperties
  <2> HIDE DEF behind, before, u
  <2>2. /\ before \o u \in Seq(S \cup T) /\ Len(before \o u) = Len(before) + Len(u)
        /\ \A i \in 1 .. Len(before) + Len(u) :
              (before \o u)[i] = IF i <= Len(before) THEN before[i] ELSE u[i - Len(before)]
    <3>1. before \in Seq(S \cup T) /\ u \in Seq(S \cup T)
      BY <1>2, <1>11 DEF u
    <3> QED
      BY <3>1, ConcatProperties
  <2>3. Len(before \o u) = Len(items \o s)
    <3>1. Len(u) = 1 + Len(items) - p + Len(s)
      BY <1>11 DEF u
    <3> QED
      BY <1>1, <1>2, <2>1, <2>2, <3>1
  <2>4. ASSUME NEW i \in 1 .. Len(items) + Len(s)
        PROVE  (items \o s)[i] = (before \o u)[i]
    <3>1. CASE i < p
      BY <1>1, <1>2, <1>11, <2>1, <2>2, <3>1 DEF u
    <3>2. CASE i = p
      BY <1>1, <1>2, <1>11, <2>1, <2>2, <3>2 DEF u
    <3>3. CASE i > p
      <4>1. /\ i - p + 1 \in 2 .. 1 + Len(items) - p + Len(s) /\ i - p + 1 - 1 = i - p
            /\ i - (p - 1) = i - p + 1 /\ ~ (i <= p - 1)
            /\ i - p \in 1 .. Len(behind) + Len(s)
        BY <1>1, <1>3, <3>3
      <4>2. (before \o u)[i] = u[i - p + 1]
        BY <1>1, <1>2, <2>1, <2>2, <2>3, <4>1
      <4>3. u[i - p + 1] = (behind \o s)[i - p]
        BY <1>11, <4>1 DEF u
      <4>4. CASE i <= Len(items)
        <5>1. i - p <= Len(behind) /\ i - p \in 1 .. Len(items) - p /\ p + (i - p) = i
          BY <1>1, <1>3, <3>3, <4>4
        <5> QED
          BY <1>3, <1>7, <2>1, <4>1, <4>2, <4>3, <4>4, <5>1
      <4>5. CASE i > Len(items)
        <5>1. /\ ~ (i - p <= Len(behind)) /\ i - p - Len(behind) = i - Len(items)
              /\ ~ (i <= Len(items))
          BY <1>1, <1>3, <4>5
        <5> QED
          BY <1>7, <2>1, <4>1, <4>2, <4>3, <5>1
      <4>6. i <= Len(items) \/ i > Len(items)
        BY <1>1
      <4> QED
        BY <4>4, <4>5, <4>6
    <3>4. i < p \/ i = p \/ i > p
      BY <1>1
    <3> QED
      BY <3>1, <3>2, <3>3, <3>4
  <2>5. items \o s = before \o u
    BY <2>1, <2>2, <2>3, <2>4, SeqEqual
  <2> QED
    BY <2>5 DEF u
<1> QED
  BY <1>12, <1>13

\* Min, of a set of numbers that is not empty, is its least element.
LEMMA MinIsLeast ==
  ASSUME NEW D \in SUBSET Nat, D # {}
  PROVE  Min(D) \in D /\ \A n \in D : Min(D) <= n
<1>1. PICK m \in D : \A n \in D : << n, m >> \notin OpToRel(<, Nat)
  BY NatLessThanWellFounded, WFMin, Zenon
<1>2. ASSUME NEW n \in D PROVE m <= n
  <2>1. n < m => << n, m >> \in OpToRel(<, Nat)
    BY DEF OpToRel
  <2>2. ~ (n < m)
    BY <1>1, <2>1, Zenon
  <2> QED
    BY <2>2
<1> QED
  BY <1>2 DEF Min

----------------------------------------------------------------------------
(* The stack and the scopes *)

AllPlain(items) == IsSeq(items) /\ \A n \in 1 .. Len(items) : Plain(items[n])

\* The short lists the actions put on the stack.
LEMMA PlainTuples ==
  /\ AllPlain(<< >>)
  /\ \A a : Plain(a) => AllPlain(<< a >>)
  /\ \A a, b : Plain(a) /\ Plain(b) => AllPlain(<< a, b >>)
  /\ \A a, b, c : Plain(a) /\ Plain(b) /\ Plain(c) => AllPlain(<< a, b, c >>)
  /\ \A a, b, c, d : Plain(a) /\ Plain(b) /\ Plain(c) /\ Plain(d) => AllPlain(<< a, b, c, d >>)
<1>1. AllPlain(<< >>)
  BY DEF AllPlain, IsSeq
<1>2. ASSUME NEW a, Plain(a) PROVE AllPlain(<< a >>)
  <2>1. << a >> \in Seq({a})
    OBVIOUS
  <2>2. IsSeq(<< a >>)
    BY <2>1, SeqIsSeq, Zenon
  <2>3. \A n \in 1 .. Len(<< a >>) : << a >>[n] = a
    OBVIOUS
  <2> QED
    BY <1>2, <2>2, <2>3 DEF AllPlain
<1>3. ASSUME NEW a, NEW b, Plain(a), Plain(b) PROVE AllPlain(<< a, b >>)
  <2>1. << a, b >> \in Seq({a, b})
    OBVIOUS
  <2>2. IsSeq(<< a, b >>)
    BY <2>1, SeqIsSeq, Zenon
  <2>3. \A n \in 1 .. Len(<< a, b >>) : << a, b >>[n] = a \/ << a, b >>[n] = b
    OBVIOUS
  <2> QED
    BY <1>3, <2>2, <2>3 DEF AllPlain
<1>4. ASSUME NEW a, NEW b, NEW c, Plain(a), Plain(b), Plain(c) PROVE AllPlain(<< a, b, c >>)
  <2>1. << a, b, c >> \in Seq({a, b, c})
    OBVIOUS
  <2>2. IsSeq(<< a, b, c >>)
    BY <2>1, SeqIsSeq, Zenon
  <2>3. \A n \in 1 .. Len(<< a, b, c >>) :
          \/ << a, b, c >>[n] = a
          \/ << a, b, c >>[n] = b
          \/ << a, b, c >>[n] = c
    OBVIOUS
  <2> QED
    BY <1>4, <2>2, <2>3 DEF AllPlain
<1>5. ASSUME NEW a, NEW b, NEW c, NEW d, Plain(a), Plain(b), Plain(c), Plain(d)
      PROVE  AllPlain(<< a, b, c, d >>)
  <2>1. << a, b, c, d >> \in Seq({a, b, c, d})
    OBVIOUS
  <2>2. IsSeq(<< a, b, c, d >>)
    BY <2>1, SeqIsSeq, Zenon
  <2>3. \A n \in 1 .. Len(<< a, b, c, d >>) :
          \/ << a, b, c, d >>[n] = a
          \/ << a, b, c, d >>[n] = b
          \/ << a, b, c, d >>[n] = c
          \/ << a, b, c, d >>[n] = d
    OBVIOUS
  <2> QED
    BY <1>5, <2>2, <2>3 DEF AllPlain
<1> QED
  BY <1>1, <1>2, <1>3, <1>4, <1>5

\* As many scopes are open, beside the outermost two, as there are items that close one;
\* more, once the failure of a call that had opened one was ignored.
Balanced(s, depth, muffled) ==
  \E k \in Nat : Stacked(s, k) /\ k <= depth /\ (~ muffled => k = depth)

Outermost == IsSeq(symtables) /\ Len(symtables) >= 2 /\ symtables[1] = 1 /\ symtables[2] = 2
Noted     == "muffled" \in DOMAIN seen /\ seen.muffled \in BOOLEAN

\* The inductive invariant.
ScopesInv ==
  /\ Outermost /\ Noted
  /\ IF status = "parsing" THEN Balanced(stack, Len(symtables), seen.muffled) ELSE stack = << >>

\* The call at the head opens and closes nothing.
Working == status = "parsing" /\ stack # << >> /\ todo.do \notin Closers \cup {"unit"}

\* It closes a scope.
Closing == status = "parsing" /\ stack # << >> /\ todo.do \in Closers

NothingNoted == "muffled" \in DOMAIN seen' /\ seen'.muffled = seen.muffled

\* The first and the second of a sequence.
LEMMA HeadAndTail ==
  ASSUME NEW S, NEW s \in Seq(S), s # << >>
  PROVE  /\ 1 \in 1 .. Len(s) /\ Head(s) = s[1]
         /\ Len(s) # 1 => Tail(s) # << >> /\ Head(Tail(s)) = s[1 + 1]
         /\ Len(s) = 1 => Tail(s) = << >>
<1>1. Len(s) \in Nat \ {0} /\ Head(s) = s[1]
  OBVIOUS
<1>2. Tail(s) \in Seq(S) /\ Len(Tail(s)) = Len(s) - 1
  BY <1>1
<1>3. Len(s) # 1 => Len(Tail(s)) > 0 /\ 1 \in 1 .. Len(Tail(s))
  BY <1>1, <1>2
<1>4. \A n \in 1 .. Len(Tail(s)) : Tail(s)[n] = s[n + 1]
  BY <1>1, <1>2
<1>5. ASSUME Len(s) # 1 PROVE Tail(s) # << >> /\ Head(Tail(s)) = s[1 + 1]
  <2> DEFINE t == Tail(s)
  <2>1. t \in Seq(S) /\ Len(t) > 0 /\ t[1] = s[1 + 1]
    BY <1>2, <1>3, <1>4, <1>5
  <2> HIDE DEF t
  <2>2. t # << >> /\ Head(t) = t[1]
    BY <2>1
  <2> QED
    BY <2>1, <2>2 DEF t
<1>6. 1 \in 1 .. Len(s)
  BY <1>1
<1>7. ASSUME Len(s) = 1 PROVE Tail(s) = << >>
  <2> DEFINE t == Tail(s)
  <2>1. t \in Seq(S) /\ Len(t) = 0
    BY <1>2, <1>7
  <2> HIDE DEF t
  <2>2. t = << >>
    BY <2>1
  <2> QED
    BY <2>2 DEF t
<1> QED
  BY <1>1, <1>5, <1>6, <1>7

\* What Shape says of the call at the head.
LEMMA HeadHasDo ==
  ASSUME ScopesInv, status = "parsing", stack # << >>
  PROVE  /\ HasDo(Head(stack))
         /\ Head(stack).do # "unit" => Tail(stack) # << >>
         /\ Head(stack).do \in {"body", "end_of_body"} =>
              Tail(stack) # << >> /\ Head(Tail(stack)).do = "separator"
<1>1. PICK k : Stacked(stack, k)
  BY DEF ScopesInv, Balanced
<1>2. stack \in Seq({stack[n] : n \in 1 .. Len(stack)}) /\ Shape(stack)
  BY <1>1 DEF Stacked, IsSeq
<1>3. /\ 1 \in 1 .. Len(stack) /\ Head(stack) = stack[1] /\ Len(stack) \in Nat
      /\ Len(stack) # 1 => Tail(stack) # << >> /\ Head(Tail(stack)) = stack[1 + 1]
  BY <1>2, HeadAndTail
<1>4. /\ HasDo(stack[1]) /\ ((stack[1].do = "unit") <=> (1 = Len(stack)))
      /\ stack[1].do \in {"body", "end_of_body"} =>
            1 < Len(stack) /\ stack[1 + 1].do = "separator"
  BY <1>2, <1>3 DEF Shape
<1> HIDE DEF HasDo
<1> QED
  BY <1>3, <1>4

Closer(item) == HasDo(item) /\ item.do \in Closers \ {"end_of_body"}

OneCloser(items) ==
  /\ IsSeq(items)
  /\ \E p \in 1 .. Len(items) :
       Closer(items[p]) /\ \A n \in 1 .. Len(items) : n # p => Plain(items[n])

\* The short lists with one item that closes a scope.
LEMMA CloserTuples ==
  /\ \A x : Closer(x) => OneCloser(<< x >>)
  /\ \A a, x : Closer(x) /\ Plain(a) => OneCloser(<< a, x >>)
  /\ \A a, b, x : Closer(x) /\ Plain(a) /\ Plain(b) => OneCloser(<< a, b, x >>)
  /\ \A a, x : Closer(x) /\ Plain(a) => OneCloser(<< x, a >>)
  /\ \A a, b, x : Closer(x) /\ Plain(a) /\ Plain(b) => OneCloser(<< a, x, b >>)
<1>1. ASSUME NEW x, Closer(x) PROVE OneCloser(<< x >>)
  <2>1. << x >> \in Seq({x})
    OBVIOUS
  <2>2. IsSeq(<< x >>)
    BY <2>1, SeqIsSeq, Zenon
  <2>3. 1 \in 1 .. Len(<< x >>) /\ << x >>[1] = x
    OBVIOUS
  <2>5. \A n \in 1 .. Len(<< x >>) : n # 1 => Plain(<< x >>[n])
    OBVIOUS
  <2> QED
    BY <1>1, <2>2, <2>3, <2>5, Zenon DEF OneCloser
<1>2. ASSUME NEW a, NEW x, Closer(x), Plain(a) PROVE OneCloser(<< a, x >>)
  <2>1. << a, x >> \in Seq({a, x})
    OBVIOUS
  <2>2. IsSeq(<< a, x >>)
    BY <2>1, SeqIsSeq, Zenon
  <2>3. 2 \in 1 .. Len(<< a, x >>) /\ << a, x >>[2] = x
    OBVIOUS
  <2>4. \A n \in 1 .. Len(<< a, x >>) : n # 2 => << a, x >>[n] = a
    OBVIOUS
  <2>5. \A n \in 1 .. Len(<< a, x >>) : n # 2 => Plain(<< a, x >>[n])
    BY <1>2, <2>4, Zenon
  <2> QED
    BY <1>2, <2>2, <2>3, <2>5, Zenon DEF OneCloser
<1>3. ASSUME NEW a, NEW b, NEW x, Closer(x), Plain(a), Plain(b) PROVE OneCloser(<< a, b, x >>)
  <2>1. << a, b, x >> \in Seq({a, b, x})
    OBVIOUS
  <2>2. IsSeq(<< a, b, x >>)
    BY <2>1, SeqIsSeq, Zenon
  <2>3. 3 \in 1 .. Len(<< a, b, x >>) /\ << a, b, x >>[3] = x
    OBVIOUS
  <2>4. \A n \in 1 .. Len(<< a, b, x >>) : n # 3 => << a, b, x >>[n] = a \/ << a, b, x >>[n] = b
    OBVIOUS
  <2>5. \A n \in 1 .. Len(<< a, b, x >>) : n # 3 => Plain(<< a, b, x >>[n])
    BY <1>3, <2>4, Zenon
  <2> QED
    BY <1>3, <2>2, <2>3, <2>5, Zenon DEF OneCloser
<1>4. ASSUME NEW x, NEW a, Closer(x), Plain(a) PROVE OneCloser(<< x, a >>)
  <2>1. << x, a >> \in Seq({x, a})
    OBVIOUS
  <2>2. IsSeq(<< x, a >>)
    BY <2>1, SeqIsSeq, Zenon
  <2>3. 1 \in 1 .. Len(<< x, a >>) /\ << x, a >>[1] = x
    OBVIOUS
  <2>4. \A n \in 1 .. Len(<< x, a >>) : n # 1 => << x, a >>[n] = a
    OBVIOUS
  <2>5. \A n \in 1 .. Len(<< x, a >>) : n # 1 => Plain(<< x, a >>[n])
    BY <1>4, <2>4, Zenon
  <2> QED
    BY <1>4, <2>2, <2>3, <2>5, Zenon DEF OneCloser
<1>5. ASSUME NEW a, NEW x, NEW b, Closer(x), Plain(a), Plain(b) PROVE OneCloser(<< a, x, b >>)
  <2>1. << a, x, b >> \in Seq({a, x, b})
    OBVIOUS
  <2>2. IsSeq(<< a, x, b >>)
    BY <2>1, SeqIsSeq, Zenon
  <2>3. 2 \in 1 .. Len(<< a, x, b >>) /\ << a, x, b >>[2] = x
    OBVIOUS
  <2>4. \A n \in 1 .. Len(<< a, x, b >>) : n # 2 => << a, x, b >>[n] = a \/ << a, x, b >>[n] = b
    OBVIOUS
  <2>5. \A n \in 1 .. Len(<< a, x, b >>) : n # 2 => Plain(<< a, x, b >>[n])
    BY <1>5, <2>4, Zenon
  <2> QED
    BY <1>5, <2>2, <2>3, <2>5, Zenon DEF OneCloser
<1> QED
  BY <1>1, <1>2, <1>3, <1>4, <1>5

\* A call is replaced by plain items, or by some of which one closes a scope.
LEMMA PlainOver ==
  ASSUME NEW s, NEW k, Stacked(s, k), s # << >>, Tail(s) # << >>, NEW items, AllPlain(items)
  PROVE  Stacked(items \o Tail(s), k - Held(Head(s)))
<1>1. Stacked(Tail(s), k - Held(Head(s)))
  BY PopDepth
<1>2. /\ items \in Seq({items[n] : n \in 1 .. Len(items)})
      /\ \A n \in 1 .. Len(items) : Plain(items[n])
  BY DEF AllPlain, IsSeq
<1> QED
  BY <1>1, <1>2, PushPlain

\* The same with one that closes a scope.
LEMMA CloserOver ==
  ASSUME NEW s, NEW k, Stacked(s, k), s # << >>, Tail(s) # << >>, NEW items, OneCloser(items)
  PROVE  Stacked(items \o Tail(s), k - Held(Head(s)) + 1)
<1>1. Stacked(Tail(s), k - Held(Head(s)))
  BY PopDepth
<1>2. items \in Seq({items[n] : n \in 1 .. Len(items)})
  BY DEF OneCloser, IsSeq
<1>3. PICK p \in 1 .. Len(items) :
        Closer(items[p]) /\ \A n \in 1 .. Len(items) : n # p => Plain(items[n])
  BY DEF OneCloser
<1>4. HasDo(items[p]) /\ items[p].do \in Closers /\ items[p].do # "end_of_body"
  BY <1>3 DEF Closer
<1> QED
  BY <1>1, <1>2, <1>3, <1>4, PushCloser

\* How many scopes are open below the call at the head.
LEMMA HeadDepth ==
  ASSUME ScopesInv, Working \/ Closing
  PROVE  \E k \in Nat : /\ Stacked(stack, k) /\ k <= Len(symtables)
                        /\ ~ seen.muffled => k = Len(symtables)
                        /\ stack # << >> /\ Tail(stack) # << >>
                        /\ Held(Head(stack)) = (IF Closing THEN 1 ELSE 0)
                        /\ k - Held(Head(stack)) >= 2
<1>1. PICK k \in Nat : /\ Stacked(stack, k) /\ k <= Len(symtables)
                       /\ ~ seen.muffled => k = Len(symtables)
  BY DEF ScopesInv, Balanced, Working, Closing
<1>2. stack # << >> /\ status = "parsing" /\ Head(stack).do # "unit"
  BY DEF Working, Closing, Closers, todo
<1>3. Tail(stack) # << >>
  BY <1>2, HeadHasDo
<1>4. Held(Head(stack)) = IF Closing THEN 1 ELSE 0
  BY DEF Working, Closing, Held, todo
<1>5. k - Held(Head(stack)) >= 2
  BY <1>1, <1>2, PopDepth
<1> QED
  BY <1>1, <1>2, <1>3, <1>4, <1>5

\* The steps that open and close nothing.
LEMMA WorkStep ==
  ASSUME ScopesInv, Working, NEW items, AllPlain(items), Continue(items),
         symtables' = symtables, NothingNoted
  PROVE  ScopesInv'
<1>1. PICK k \in Nat : /\ Stacked(stack, k) /\ k <= Len(symtables)
                       /\ ~ seen.muffled => k = Len(symtables)
                       /\ stack # << >> /\ Tail(stack) # << >>
                       /\ Held(Head(stack)) = 0
  BY HeadDepth DEF Working, Closing
<1>2. Stacked(items \o Tail(stack), k)
  BY <1>1, PlainOver
<1>3. Balanced(stack, Len(symtables), seen.muffled)'
  BY <1>1, <1>2 DEF Balanced, Continue, NothingNoted
<1>4. Outermost' /\ Noted'
  BY DEF ScopesInv, Outermost, Noted, NothingNoted, IsSeq
<1> QED
  BY <1>3, <1>4 DEF ScopesInv, Continue, Working

\* The steps of a call that closes a scope, and has more to do before.
LEMMA ClosingLaterStep ==
  ASSUME ScopesInv, Closing, NEW items, OneCloser(items), Continue(items),
         symtables' = symtables, NothingNoted
  PROVE  ScopesInv'
<1>1. PICK k \in Nat : /\ Stacked(stack, k) /\ k <= Len(symtables)
                       /\ ~ seen.muffled => k = Len(symtables)
                       /\ stack # << >> /\ Tail(stack) # << >>
                       /\ Held(Head(stack)) = 1
  BY HeadDepth
<1>2. Stacked(items \o Tail(stack), k)
  <2>1. k - 1 + 1 = k
    OBVIOUS
  <2> QED
    BY <1>1, <2>1, CloserOver
<1>3. Balanced(stack, Len(symtables), seen.muffled)'
  BY <1>1, <1>2 DEF Balanced, Continue, NothingNoted
<1>4. Outermost' /\ Noted'
  BY DEF ScopesInv, Outermost, Noted, NothingNoted, IsSeq
<1> QED
  BY <1>3, <1>4 DEF ScopesInv, Continue, Closing

\* What opening a scope does to the stack of scopes.
LEMMA Pushed ==
  ASSUME Outermost, NEW n, PushTable(n)
  PROVE  Outermost' /\ Len(symtables') = Len(symtables) + 1
<1> DEFINE S == {symtables[i] : i \in 1 .. Len(symtables)} \cup {n}
<1>1. symtables \in Seq(S) /\ n \in S /\ Len(symtables) \in Nat /\ Len(symtables) >= 2
  BY DEF Outermost, IsSeq
<1>2. /\ symtables' \in Seq(S) /\ Len(symtables') = Len(symtables) + 1
      /\ \A i \in 1 .. Len(symtables) : symtables'[i] = symtables[i]
  BY <1>1, AppendProperties DEF PushTable
<1>3. IsSeq(symtables)'
  BY <1>2, SeqIsSeq
<1> QED
  BY <1>1, <1>2, <1>3 DEF Outermost

\* What leaving one does: the outermost two stay.
LEMMA Popped ==
  ASSUME Outermost, Len(symtables) >= 3, Pop
  PROVE  Outermost' /\ Len(symtables') = Len(symtables) - 1
<1> DEFINE S == {symtables[i] : i \in 1 .. Len(symtables)}
<1>1. symtables \in Seq(S) /\ Len(symtables) \in Nat
  BY DEF Outermost, IsSeq
<1>2. /\ symtables' \in Seq(S) /\ Len(symtables') = Len(symtables) - 1
      /\ \A i \in 1 .. Len(symtables) - 1 : symtables'[i] = symtables[i]
  <2>1. symtables' = SubSeq(symtables, 1, Len(symtables) - 1)
    BY DEF Pop, Front
  <2>2. \A i \in 1 .. Len(symtables) - 1 : symtables[i] \in S
    BY <1>1
  <2> HIDE DEF S
  <2>3. /\ symtables' \in Seq(S)
        /\ Len(symtables') = IF 1 <= Len(symtables) - 1 THEN Len(symtables) - 1 - 1 + 1 ELSE 0
        /\ \A i \in 1 .. Len(symtables) - 1 - 1 + 1 : symtables'[i] = symtables[1 + i - 1]
    BY <1>1, <2>1, <2>2, SubSeqProperties
  <2> QED
    BY <1>1, <2>3
<1>3. IsSeq(symtables)'
  BY <1>2, SeqIsSeq
<1> QED
  BY <1>1, <1>2, <1>3 DEF Outermost

\* A step that opens a scope and leaves a call that will close it.
LEMMA OpeningStep ==
  ASSUME ScopesInv, Working, NEW items, OneCloser(items), Continue(items),
         NEW n, PushTable(n), NothingNoted
  PROVE  ScopesInv'
<1>1. PICK k \in Nat : /\ Stacked(stack, k) /\ k <= Len(symtables)
                       /\ ~ seen.muffled => k = Len(symtables)
                       /\ stack # << >> /\ Tail(stack) # << >>
                       /\ Held(Head(stack)) = 0
  BY HeadDepth DEF Working, Closing
<1>2. Stacked(items \o Tail(stack), k + 1)
  <2>1. k - 0 + 1 = k + 1
    OBVIOUS
  <2> QED
    BY <1>1, <2>1, CloserOver
<1>3. Outermost' /\ Len(symtables') = Len(symtables) + 1 /\ Len(symtables) \in Nat
  BY Pushed DEF ScopesInv, Outermost, IsSeq
<1>4. k + 1 \in Nat /\ k + 1 <= Len(symtables') /\ (~ seen.muffled => k + 1 = Len(symtables'))
  BY <1>1, <1>3
<1>5. Balanced(stack, Len(symtables), seen.muffled)'
  BY <1>2, <1>4 DEF Balanced, Continue, NothingNoted
<1>6. Noted'
  BY DEF ScopesInv, Noted, NothingNoted
<1> QED
  BY <1>3, <1>5, <1>6 DEF ScopesInv, Continue, Working

\* A step that leaves a scope.
LEMMA ClosingStep ==
  ASSUME ScopesInv, Closing, NEW items, AllPlain(items), Continue(items), Pop, NothingNoted
  PROVE  ScopesInv'
<1>1. PICK k \in Nat : /\ Stacked(stack, k) /\ k <= Len(symtables)
                       /\ ~ seen.muffled => k = Len(symtables)
                       /\ stack # << >> /\ Tail(stack) # << >>
                       /\ Held(Head(stack)) = 1 /\ k - 1 >= 2
  BY HeadDepth
<1>2. Stacked(items \o Tail(stack), k - 1)
  BY <1>1, PlainOver
<1>3. Len(symtables) \in Nat /\ Len(symtables) >= 3
  BY <1>1 DEF ScopesInv, Outermost, IsSeq
<1>4. Outermost' /\ Len(symtables') = Len(symtables) - 1
  BY <1>3, Popped DEF ScopesInv
<1>5. k - 1 \in Nat /\ k - 1 <= Len(symtables') /\ (~ seen.muffled => k - 1 = Len(symtables'))
  BY <1>1, <1>3, <1>4
<1>6. Balanced(stack, Len(symtables), seen.muffled)'
  BY <1>2, <1>5 DEF Balanced, Continue, NothingNoted
<1>7. Noted'
  BY DEF ScopesInv, Noted, NothingNoted
<1> QED
  BY <1>4, <1>6, <1>7 DEF ScopesInv, Continue, Closing

\* The parser returns.
LEMMA EndStep ==
  ASSUME ScopesInv, stack' = << >>, status' # "parsing", symtables' = symtables, NothingNoted
  PROVE  ScopesInv'
  BY DEF ScopesInv, Outermost, Noted, NothingNoted, IsSeq

\* A failure drops calls, and with them what they were to close, up to one that ignores it.
LEMMA FailStep ==
  ASSUME ScopesInv, status = "parsing", Fail
  PROVE  ScopesInv'
<1> DEFINE deaf == {n \in DOMAIN stack : ~ Heeds(stack[n])}
<1>1. PICK k \in Nat : Stacked(stack, k) /\ k <= Len(symtables)
  BY DEF ScopesInv, Balanced
<1>2. DOMAIN stack = 1 .. Len(stack) /\ Len(stack) \in Nat
  BY <1>1 DEF Stacked, IsSeq
<1>3. symtables' = symtables /\ seen' = [seen EXCEPT !.muffled = @ \/ deaf # {}]
  BY DEF Fail, scopes
<1>4. Outermost' /\ Len(symtables') = Len(symtables) /\ Len(symtables) \in Nat
  BY <1>3 DEF ScopesInv, Outermost, IsSeq
<1>5. /\ "muffled" \in DOMAIN seen' /\ seen'.muffled = (seen.muffled \/ deaf # {})
      /\ Noted'
  BY <1>3 DEF ScopesInv, Noted
<1>6. CASE deaf = {}
  BY <1>4, <1>5, <1>6 DEF Fail, ScopesInv
<1>7. CASE deaf # {}
  <2>1. Min(deaf) \in deaf
    <3>1. deaf \in SUBSET Nat
      BY <1>2
    <3> HIDE DEF deaf
    <3> QED
      BY <1>7, <3>1, MinIsLeast
  <2>2. Min(deaf) \in 1 .. Len(stack)
    BY <1>2, <2>1
  <2>3. stack' = SubSeq(stack, Min(deaf), Len(stack)) /\ status' = status
    BY <1>7 DEF Fail
  <2> HIDE DEF deaf
  <2>4. PICK j \in Nat : j <= k /\ Stacked(stack', j)
    BY <1>1, <2>2, <2>3, DropDepth
  <2>5. seen'.muffled
    BY <1>5, <1>7
  <2>6. j <= Len(symtables')
    BY <1>1, <1>4, <2>4
  <2>7. Balanced(stack, Len(symtables), seen.muffled)'
    BY <2>4, <2>5, <2>6 DEF Balanced
  <2> QED
    BY <1>4, <1>5, <2>3, <2>7 DEF ScopesInv
<1> QED
  BY <1>6, <1>7

----------------------------------------------------------------------------
(* The actions *)

\* No step but a failure notes that a failure was ignored.
LEMMA SameSeen ==
  ASSUME ScopesInv,
         \/ UNCHANGED seen
         \/ \E b : \/ seen' = [seen EXCEPT !.nested = b]
                   \/ seen' = [seen EXCEPT !.redefined = b]
                   \/ seen' = [seen EXCEPT !.early = b]
  PROVE  NothingNoted
  BY DEF ScopesInv, Noted, NothingNoted

PlainStep ==
  \/ \E items : AllPlain(items) /\ (Taking(items) \/ Leaving(items))
  \/ \E type, name : ReturnTaking(type, name) \/ Return(type, name)
  \/ Fail
  \/ Crash

\* Any of them keeps the invariant.
LEMMA PlainSteps ==
  ASSUME ScopesInv, Working, PlainStep
  PROVE  ScopesInv'
<1>1. ASSUME NEW items, AllPlain(items), Taking(items) \/ Leaving(items) PROVE ScopesInv'
  <2>1. Continue(items) /\ symtables' = symtables /\ UNCHANGED seen
    BY <1>1 DEF Taking, Leaving, Kept
  <2> QED
    BY <1>1, <2>1, SameSeen, WorkStep
<1>2. ASSUME NEW type, NEW name, ReturnTaking(type, name) \/ Return(type, name) PROVE ScopesInv'
  <2>1. Continue(<< >>) /\ symtables' = symtables /\ UNCHANGED seen
    BY <1>2 DEF ReturnTaking, Return, Kept
  <2> QED
    BY <2>1, SameSeen, PlainTuples, WorkStep
<1>3. CASE Fail
  BY <1>3, FailStep DEF Working
<1>4. CASE Crash
  <2>1. stack' = << >> /\ status' # "parsing" /\ symtables' = symtables /\ UNCHANGED seen
    BY <1>4 DEF Crash, scopes
  <2> QED
    BY <2>1, SameSeen, EndStep
<1> QED
  BY <1>1, <1>2, <1>3, <1>4 DEF PlainStep

\* The items that have nothing to do with scopes.
LEMMA Items ==
  /\ \A d : d \notin Closers \cup {"unit", "body", "end_of_body"} => Plain(Item(d))
  /\ \A t : Plain(Expect(t)) /\ Plain(Accept(t))
  /\ \A outer, inner, name : Plain(Pointers(outer)) /\ Plain(Suffix(outer, inner, name))
  BY DEF Plain, HasDo, Closers, Item, Expect, Accept, Pointers, Suffix

\* An item that goes on under another name.
LEMMA Renamed ==
  ASSUME ScopesInv, Working \/ Closing, NEW d
  PROVE  HasDo([todo EXCEPT !.do = d]) /\ [todo EXCEPT !.do = d].do = d
<1>1. HasDo(todo)
  BY HeadHasDo DEF Working, Closing, todo
<1> QED
  BY <1>1 DEF HasDo

\* EXPECT, CONSUME and accept.
LEMMA TokenSteps ==
  ASSUME ScopesInv, ExpectToken \/ AcceptToken
  PROVE  ScopesInv'
<1>1. Working
  BY DEF ExpectToken, AcceptToken, Doing, Working, Closers
<1>2. Fail \/ (Continue(<< >>) /\ symtables' = symtables /\ UNCHANGED seen)
  BY DEF ExpectToken, AcceptToken, Kept
<1> QED
  BY <1>1, <1>2, SameSeen, PlainTuples, WorkStep, PlainSteps DEF PlainStep

\* Specifiers, without the fields of a struct.
LEMMA SpecifierSteps ==
  ASSUME ScopesInv, Specifier \/ StructuredSpecifier \/ EnumSpecifier \/ Enumerator \/ Enumerated
  PROVE  ScopesInv'
<1>1. Working
  BY DEF Specifier, StructuredSpecifier, EnumSpecifier, Enumerator, Enumerated,
         Doing, Working, Closers
<1>2. CASE Specifier
  <2>1. \A kind : Plain([do |-> "tag", kind |-> kind])
    BY DEF Plain, HasDo, Closers
  <2>2. PlainStep
    BY <1>2, <2>1, PlainTuples DEF Specifier, PlainStep
  <2> QED
    BY <1>1, <2>2, PlainSteps
<1>3. CASE StructuredSpecifier
  <2>1. \A s, k : /\ Plain([do |-> "enum", tag |-> s, kind |-> k])
                  /\ Plain([do |-> "struct", tag |-> s, kind |-> k])
    BY DEF Plain, HasDo, Closers
  <2>2. PICK s : Continue(<< [do |-> IF todo.kind = "enum" THEN "enum" ELSE "struct", tag |-> s, kind |-> todo.kind] >>)
    BY <1>3 DEF StructuredSpecifier
  <2>3. symtables' = symtables /\ UNCHANGED seen
    BY <1>3 DEF StructuredSpecifier
  <2>4. Plain([do |-> IF todo.kind = "enum" THEN "enum" ELSE "struct", tag |-> s, kind |-> todo.kind])
    BY <2>1
  <2> QED
    BY <1>1, <2>2, <2>3, <2>4, SameSeen, PlainTuples, WorkStep
<1>4. CASE EnumSpecifier
  <2>1. \A s : Plain([do |-> "enumerator", tag |-> s])
    BY DEF Plain, HasDo, Closers
  <2>2. PlainStep
    BY <1>4, <2>1, PlainTuples DEF EnumSpecifier, PlainStep
  <2> QED
    BY <1>1, <2>2, PlainSteps
<1>5. CASE Enumerator
  <2>1. Plain([todo EXCEPT !.do = "enumerated"])
    BY <1>1, Renamed DEF Plain, Closers
  <2>2. PlainStep \/ (Continue(<< [todo EXCEPT !.do = "enumerated"] >>)
                      /\ symtables' = symtables /\ UNCHANGED seen)
    BY <1>5 DEF Enumerator, PlainStep
  <2> QED
    BY <1>1, <2>1, <2>2, SameSeen, PlainTuples, WorkStep, PlainSteps
<1>6. CASE Enumerated
  <2>1. Plain([todo EXCEPT !.do = "enumerator"])
    BY <1>1, Renamed DEF Plain, Closers
  <2>2. PlainStep
    BY <1>6, <2>1, PlainTuples DEF Enumerated, PlainStep
  <2> QED
    BY <1>1, <2>2, PlainSteps
<1> QED
  BY <1>2, <1>3, <1>4, <1>5, <1>6

\* The scope of a struct is open from its brace to the brace that ends it.
LEMMA FieldSteps ==
  ASSUME ScopesInv, StructSpecifier \/ Field
  PROVE  ScopesInv'
<1>1. Plain(Item("declaration"))
  BY Items DEF Closers
<1>2. CASE StructSpecifier
  <2>1. Working
    BY <1>2 DEF StructSpecifier, Doing, Working, Closers
  <2>2. CASE token # "{"
    BY <1>2, <2>1, <2>2, PlainSteps DEF StructSpecifier, PlainStep
  <2>3. CASE token = "{"
    <3>1. PICK x : Closer(x) /\ Continue(<< Item("declaration"), x >>)
      <4> DEFINE x == [do |-> "field", tag |-> todo.tag, old |-> cur_decl_type, opened |-> Meaning]
      <4>1. Closer(x)
        BY DEF Closer, HasDo, Closers
      <4>2. Continue(<< Item("declaration"), x >>)
        BY <1>2, <2>3 DEF StructSpecifier
      <4> QED
        BY <4>1, <4>2
    <3>2. PICK n : PushTable(n)
      BY <1>2, <2>3 DEF StructSpecifier, PushNew
    <3>3. NothingNoted
      BY <1>2, <2>3, SameSeen DEF StructSpecifier
    <3>4. OneCloser(<< Item("declaration"), x >>)
      BY <1>1, <3>1, CloserTuples
    <3> QED
      BY <2>1, <3>1, <3>2, <3>3, <3>4, OpeningStep
  <2> QED
    BY <2>2, <2>3
<1>3. CASE Field
  <2>1. Closing
    BY <1>3 DEF Field, Doing, Closing, Closers
  <2>2. NothingNoted
    BY <1>3, SameSeen DEF Field
  <2>3. CASE token = "}"
    <3>1. Pop /\ Continue(<< >>)
      BY <1>3, <2>3 DEF Field
    <3> QED
      BY <2>1, <2>2, <3>1, PlainTuples, ClosingStep
  <2>4. CASE token # "}"
    <3>1. Continue(<< Item("declaration"), todo >>) /\ symtables' = symtables
      BY <1>3, <2>4 DEF Field, scopes
    <3>2. Closer(todo)
      BY <1>3, <2>1, HeadHasDo DEF Field, Doing, Closer, Closing, Closers, todo
    <3>3. OneCloser(<< Item("declaration"), todo >>)
      BY <1>1, <3>2, CloserTuples
    <3> QED
      BY <2>1, <2>2, <3>1, <3>3, ClosingLaterStep
  <2> QED
    BY <2>3, <2>4
<1> QED
  BY <1>2, <1>3

\* Declarators; the scope of parameters is opened behind one.
LEMMA DeclaratorSteps ==
  ASSUME ScopesInv,
         \/ DeclaratorBase \/ InnerDeclarator \/ DeclaratorSuffix \/ Linked \/ DeclaratorBased
         \/ ArrayDeclarator \/ ArraySize \/ ParameterDeclarator
  PROVE  ScopesInv'
<1>1. Working
  BY DEF DeclaratorBase, InnerDeclarator, DeclaratorSuffix, Linked, DeclaratorBased,
         ArrayDeclarator, ArraySize, ParameterDeclarator, Doing, Working, Closers
<1>2. CASE DeclaratorBase
  <2>1. \A outer : Plain([do |-> "inner", outer |-> outer])
    BY DEF Plain, HasDo, Closers
  <2>2. PlainStep
    BY <1>2, <2>1, Items, PlainTuples DEF DeclaratorBase, PlainStep
  <2> QED
    BY <1>1, <2>2, PlainSteps
<1>3. CASE InnerDeclarator
  <2>1. PlainStep
    BY <1>3, Items, PlainTuples DEF InnerDeclarator, PlainStep
  <2> QED
    BY <1>1, <2>1, PlainSteps
<1>4. CASE DeclaratorSuffix
  <2> DEFINE linked == [do |-> "linked", inner |-> todo.inner, name |-> todo.name]
  <2>1. Plain(linked)
    BY DEF Plain, HasDo, Closers
  <2>2. CASE token = "["
    <3> DEFINE x == [do |-> "dimension", dims |-> << >>, outer |-> todo.outer]
    <3>1. Plain(x)
      BY DEF Plain, HasDo, Closers
    <3>2. Leaving(<< x, linked >>)
      BY <1>4, <2>2 DEF DeclaratorSuffix
    <3>3. AllPlain(<< x, linked >>)
      BY <2>1, <3>1, PlainTuples
    <3> QED
      BY <1>1, <3>2, <3>3, PlainSteps DEF PlainStep
  <2>3. CASE token = "("
    <3> DEFINE x == [do |-> "parameters", outer |-> todo.outer, old |-> cur_decl_type,
                     opened |-> Meaning]
    <3>1. Closer(x)
      BY DEF Closer, HasDo, Closers
    <3>2. Continue(<< x, linked >>) /\ PushTable(Len(tables) + 1) /\ UNCHANGED seen
      BY <1>4, <2>3 DEF DeclaratorSuffix, PushNew
    <3>3. OneCloser(<< x, linked >>)
      BY <2>1, <3>1, CloserTuples
    <3> QED
      BY <1>1, <3>2, <3>3, SameSeen, OpeningStep
  <2>4. CASE token # "[" /\ token # "("
    <3>1. Continue(<< linked >>) /\ symtables' = symtables /\ UNCHANGED seen
      BY <1>4, <2>4 DEF DeclaratorSuffix, Kept
    <3>2. AllPlain(<< linked >>)
      BY <2>1, PlainTuples
    <3> QED
      BY <1>1, <3>1, <3>2, SameSeen, WorkStep
  <2> QED
    BY <2>2, <2>3, <2>4
<1>5. CASE Linked \/ DeclaratorBased
  <2>1. PlainStep
    BY <1>5 DEF Linked, DeclaratorBased, PlainStep
  <2> QED
    BY <1>1, <2>1, PlainSteps
<1>6. CASE ArrayDeclarator
  <2>1. Plain([todo EXCEPT !.do = "size"])
    BY <1>1, Renamed DEF Plain, Closers
  <2>2. PlainStep
    BY <1>6, <2>1, PlainTuples DEF ArrayDeclarator, PlainStep
  <2> QED
    BY <1>1, <2>2, PlainSteps
<1>7. CASE ArraySize
  <2> DEFINE dimension(kind) == [todo EXCEPT !.do = "dimension", !.dims = Append(@, Base(kind))]
  <2>1. ASSUME NEW kind PROVE Plain(dimension(kind))
    <3>1. HasDo(todo)
      BY <1>1, HeadHasDo DEF Working, todo
    <3>2. HasDo(dimension(kind)) /\ dimension(kind).do = "dimension"
      BY <3>1 DEF HasDo
    <3> QED
      BY <3>2 DEF Plain, Closers
  <2>2. CASE token = "]"
    <3>1. Taking(<< dimension("open") >>)
      BY <1>7, <2>2 DEF ArraySize
    <3>2. AllPlain(<< dimension("open") >>)
      BY <2>1, PlainTuples
    <3> QED
      BY <1>1, <3>1, <3>2, PlainSteps DEF PlainStep
  <2>3. CASE token # "]"
    <3> DEFINE x == dimension(IF token = "num" THEN "array" ELSE "open")
    <3>1. Leaving(<< Item("expr"), Expect("]"), x >>)
      BY <1>7, <2>3 DEF ArraySize
    <3>2. Plain(x) /\ Plain(Item("expr")) /\ Plain(Expect("]"))
      BY <2>1, Items DEF Closers
    <3>3. AllPlain(<< Item("expr"), Expect("]"), x >>)
      BY <3>2, PlainTuples
    <3> QED
      BY <1>1, <3>1, <3>3, PlainSteps DEF PlainStep
  <2> QED
    BY <2>2, <2>3
<1>8. CASE ParameterDeclarator
  <2>1. \A base : Plain([do |-> "based", base |-> base])
    BY DEF Plain, HasDo, Closers
  <2>2. PlainStep
    BY <1>8, <2>1, Items, PlainTuples DEF ParameterDeclarator, Declarator, PlainStep
  <2> QED
    BY <1>1, <2>2, PlainSteps
<1> QED
  BY <1>2, <1>3, <1>4, <1>5, <1>6, <1>7, <1>8

\* That scope is left behind the last parameter.
LEMMA ParameterSteps ==
  ASSUME ScopesInv, Parameters \/ Parameter \/ DeclaredParameter \/ FunctionDeclarator
  PROVE  ScopesInv'
<1>1. Closing
  BY DEF Parameters, Parameter, DeclaredParameter, FunctionDeclarator, Doing, Closing, Closers
<1>2. \A d \in {"parameter", "declared_parameter", "parameters_end"} :
        Closer([todo EXCEPT !.do = d])
  BY <1>1, Renamed DEF Closer, Closers
<1>3. Plain(Item("specifier")) /\ Plain(Item("declarator"))
  BY Items DEF Closers
<1>4. CASE Parameters
  <2> DEFINE x == [todo EXCEPT !.do = IF token = ")" THEN "parameters_end" ELSE "parameter"]
  <2>1. Continue(<< x >>) /\ symtables' = symtables /\ UNCHANGED seen
    BY <1>4 DEF Parameters, Leaving, Kept
  <2>2. Closer(x)
    <3> DEFINE d == IF token = ")" THEN "parameters_end" ELSE "parameter"
    <3>1. d \in {"parameter", "declared_parameter", "parameters_end"}
      OBVIOUS
    <3> QED
      BY <1>2, <3>1
  <2>3. OneCloser(<< x >>)
    BY <2>2, CloserTuples
  <2> QED
    BY <1>1, <2>1, <2>3, SameSeen, ClosingLaterStep
<1>5. CASE Parameter
  <2>1. CASE token = "..."
    <3>1. /\ Continue(<< [todo EXCEPT !.do = "parameters_end"] >>)
          /\ symtables' = symtables /\ UNCHANGED seen
      BY <1>5, <2>1 DEF Parameter, Taking, Kept
    <3>2. OneCloser(<< [todo EXCEPT !.do = "parameters_end"] >>)
      BY <1>2, CloserTuples
    <3> QED
      BY <1>1, <3>1, <3>2, SameSeen, ClosingLaterStep
  <2>2. CASE token # "..."
    <3> DEFINE x == [todo EXCEPT !.do = "declared_parameter"]
    <3>1. /\ Continue(<< Item("specifier"), Item("declarator"), x >>)
          /\ symtables' = symtables /\ UNCHANGED seen
      BY <1>5, <2>2 DEF Parameter, Leaving, Kept
    <3>2. Closer(x)
      BY <1>2
    <3>3. OneCloser(<< Item("specifier"), Item("declarator"), x >>)
      BY <1>3, <3>2, CloserTuples
    <3> QED
      BY <1>1, <3>1, <3>3, SameSeen, ClosingLaterStep
  <2> QED
    BY <2>1, <2>2
<1>6. CASE DeclaredParameter
  <2>1. PICK d \in {"parameter", "parameters_end"} : Continue(<< [todo EXCEPT !.do = d] >>)
    BY <1>6 DEF DeclaredParameter
  <2>2. symtables' = symtables /\ UNCHANGED seen
    BY <1>6 DEF DeclaredParameter
  <2>3. OneCloser(<< [todo EXCEPT !.do = d] >>)
    BY <1>2, CloserTuples
  <2> QED
    BY <1>1, <2>1, <2>2, <2>3, SameSeen, ClosingLaterStep
<1>7. CASE FunctionDeclarator
  <2>1. Fail \/ (Pop /\ Continue(<< >>) /\ UNCHANGED seen)
    BY <1>7 DEF FunctionDeclarator
  <2>2. CASE Fail
    BY <1>1, <2>2, FailStep DEF Closing
  <2>3. CASE Pop /\ Continue(<< >>) /\ UNCHANGED seen
    BY <1>1, <2>3, SameSeen, PlainTuples, ClosingStep
  <2> QED
    BY <2>1, <2>2, <2>3
<1> QED
  BY <1>4, <1>5, <1>6, <1>7

\* Two items are the one and then the other.
LEMMA PairOver ==
  ASSUME NEW s, IsSeq(s), NEW a, NEW b
  PROVE  /\ << a, b >> \o s = << a >> \o (<< b >> \o s)
         /\ IsSeq(<< b >> \o s) /\ << b >> \o s # << >> /\ Head(<< b >> \o s) = b
<1> DEFINE S == {s[n] : n \in 1 .. Len(s)} \cup {a, b}
           t == << b >> \o s
<1>1. /\ s \in Seq(S) /\ a \in S /\ b \in S
      /\ << b >> \in Seq(S) /\ << a >> \in Seq(S) /\ << b >>[1] = b
  BY DEF IsSeq
<1>2. << a, b >> = << a >> \o << b >>
  BY TupleConcat
<1> HIDE DEF S
<1>3. /\ t \in Seq(S) /\ Len(t) = 1 + Len(s) /\ Len(s) \in Nat
      /\ \A i \in 1 .. 1 + Len(s) : t[i] = IF i <= 1 THEN << b >>[i] ELSE s[i - 1]
  BY <1>1, ConsProperties
<1>4. (<< a >> \o << b >>) \o s = << a >> \o (<< b >> \o s)
  BY <1>1, ConcatAssociative
<1> HIDE DEF t
<1>5. IsSeq(t)
  BY <1>3, SeqIsSeq, Zenon
<1>6. t # << >> /\ Head(t) = t[1] /\ t[1] = b
  <2>1. Len(t) > 0 /\ 1 \in 1 .. 1 + Len(s)
    BY <1>3
  <2>2. t[1] = b
    BY <1>1, <1>3, <2>1
  <2> QED
    BY <1>3, <2>1, <2>2
<1> QED
  BY <1>2, <1>4, <1>5, <1>6 DEF t

\* parser_parse: the end of the program or one more declaration.
LEMMA UnitStep ==
  ASSUME ScopesInv, Unit
  PROVE  ScopesInv'
<1>1. status = "parsing" /\ stack # << >> /\ todo.do = "unit"
  BY DEF Unit, Doing
<1>2. symtables' = symtables /\ NothingNoted
  BY SameSeen DEF Unit, scopes
<1>3. CASE token = "eos"
  BY <1>2, <1>3, EndStep DEF Unit
<1>4. CASE token # "eos"
  <2>1. PICK k \in Nat : /\ Stacked(stack, k) /\ k <= Len(symtables)
                         /\ ~ seen.muffled => k = Len(symtables)
    BY <1>1 DEF ScopesInv, Balanced
  <2>2. Held(todo) = 0 /\ HasDo(todo)
    BY <1>1, HeadHasDo DEF Held, Closers, todo
  <2>3. Tail(stack) = << >>
    <3>1. stack \in Seq({stack[n] : n \in 1 .. Len(stack)}) /\ Shape(stack)
      BY <2>1 DEF Stacked, IsSeq
    <3>2. 1 \in 1 .. Len(stack) /\ Head(stack) = stack[1]
      BY <1>1, <3>1, HeadAndTail
    <3>3. Len(stack) = 1
      BY <1>1, <3>1, <3>2 DEF Shape, todo
    <3> QED
      BY <1>1, <3>1, <3>3, HeadAndTail
  <2>4. Stacked(Tail(stack), k)
    <3>1. Stacked(Tail(stack), k - Held(Head(stack)))
      BY <1>1, <2>1, PopDepth
    <3> QED
      BY <2>2, <3>1 DEF todo
  <2>5. Stacked(<< todo >> \o Tail(stack), k)
    <3>1. Stacked(<< todo >> \o Tail(stack), k + Held(todo))
      BY <1>1, <2>2, <2>3, <2>4, PushDepth
    <3> QED
      BY <2>2, <3>1
  <2>6. /\ << Item("declaration"), todo >> \o Tail(stack)
             = << Item("declaration") >> \o (<< todo >> \o Tail(stack))
        /\ << todo >> \o Tail(stack) # << >>
    BY <2>4, PairOver DEF Stacked
  <2>7. Stacked(<< Item("declaration") >> \o (<< todo >> \o Tail(stack)), k)
    <3>1. AllPlain(<< Item("declaration") >>)
      BY Items, PlainTuples DEF Closers
    <3>2. \E T : << Item("declaration") >> \in Seq(T)
      BY <3>1 DEF AllPlain, IsSeq
    <3> QED
      BY <2>5, <2>6, <3>1, <3>2, PushPlain DEF AllPlain
  <2>8. stack' = << Item("declaration"), todo >> \o Tail(stack) /\ status' = status
    BY <1>4 DEF Unit, Continue
  <2>9. Balanced(stack, Len(symtables), seen.muffled)'
    BY <1>2, <2>1, <2>6, <2>7, <2>8 DEF Balanced, NothingNoted
  <2>10. Outermost' /\ Noted'
    BY <1>2 DEF ScopesInv, Outermost, Noted, NothingNoted, IsSeq
  <2> QED
    BY <1>1, <2>8, <2>9, <2>10 DEF ScopesInv
<1> QED
  BY <1>3, <1>4

\* Declarations and what joins their declarators.
LEMMA DeclarationSteps ==
  ASSUME ScopesInv, Declaration \/ Declarators \/ Separator
  PROVE  ScopesInv'
<1>1. Working
  BY DEF Declaration, Declarators, Separator, Doing, Working, Closers
<1>2. ASSUME NEW base, NEW typedef PROVE AllPlain(NextDeclarator(base, typedef))
  <2> DEFINE x == [do |-> "based", base |-> base]
             y == [do |-> "declared", base |-> base, typedef |-> typedef]
  <2>1. Plain(Pointers(<< >>)) /\ Plain(x) /\ Plain(y)
    BY Items DEF Plain, HasDo, Closers
  <2>2. NextDeclarator(base, typedef) = << Pointers(<< >>), x, y >>
    BY TupleConcat DEF NextDeclarator, Declarator
  <2> QED
    BY <2>1, <2>2, PlainTuples
<1>3. CASE Declaration
  <2> DEFINE typedef == cur_decl_type = Global /\ token = "typedef"
             x == [do |-> "declarators", typedef |-> typedef]
  <2>1. Plain(x)
    BY DEF Plain, HasDo, Closers
  <2>2. Plain(Accept({"extern", "static"})) /\ Plain(Accept({"const"})) /\ Plain(Item("specifier"))
    BY Items DEF Closers
  <2>3. CASE cur_decl_type = Global
    <3> DEFINE items == << Accept({"extern", "static"}), Accept({"const"}), Item("specifier"), x >>
    <3>1. items = << Accept({"extern", "static"}) >>
                  \o << Accept({"const"}), Item("specifier"), x >>
      OBVIOUS
    <3>2. Taking(items) \/ Leaving(items)
      BY <1>3, <2>3, <3>1 DEF Declaration
    <3>3. AllPlain(items)
      BY <2>1, <2>2, PlainTuples
    <3> QED
      BY <1>1, <3>2, <3>3, PlainSteps DEF PlainStep
  <2>4. CASE cur_decl_type # Global
    <3> DEFINE items == << Accept({"const"}), Item("specifier"), x >>
    <3>1. items = << >> \o items
      OBVIOUS
    <3>2. Taking(items) \/ Leaving(items)
      BY <1>3, <2>4, <3>1 DEF Declaration
    <3>3. AllPlain(items)
      BY <2>1, <2>2, PlainTuples
    <3> QED
      BY <1>1, <3>2, <3>3, PlainSteps DEF PlainStep
  <2> QED
    BY <2>3, <2>4
<1>4. CASE Declarators
  <2>1. PlainStep
    BY <1>2, <1>4, PlainTuples DEF Declarators, PlainStep
  <2> QED
    BY <1>1, <2>1, PlainSteps
<1>5. CASE Separator
  <2>1. AllPlain(<< Expect(";") >>)
    BY Items, PlainTuples
  <2>2. PlainStep
    BY <1>2, <1>5, <2>1 DEF Separator, PlainStep
  <2> QED
    BY <1>1, <2>2, PlainSteps
<1> QED
  BY <1>3, <1>4, <1>5

\* Variables, fields and names of types.
LEMMA VariableSteps ==
  ASSUME ScopesInv, DeclaredVariable \/ Variable
  PROVE  ScopesInv'
<1>1. Working
  BY DEF DeclaredVariable, Variable, Doing, Working, Closers
<1>2. CASE DeclaredVariable
  <2> DEFINE sep == [do |-> "separator", base |-> todo.base, typedef |-> todo.typedef]
             kind == VariableKind(todo.typedef)
             variable == [Symbol(kind, ret.name, ret.type, SizeOf(ret.type))
                            EXCEPT !.function = Function]
             x == [do |-> "variable", symbol |-> variable]
  <2>1. \/ Fail
        \/ /\ Continue(<< Item("expr") >> \o << x, sep >>) \/ Continue(<< x, sep >>)
           /\ \E b : seen' = [seen EXCEPT !.early = b]
           /\ symtables' = symtables
    BY <1>2 DEF DeclaredVariable, scopes
  <2>2. Plain(x) /\ Plain(sep) /\ Plain(Item("expr"))
    BY Items DEF Plain, HasDo, Closers
  <2> HIDE DEF x, sep
  <2>3. << Item("expr") >> \o << x, sep >> = << Item("expr"), x, sep >>
    BY TupleConcat
  <2>4. AllPlain(<< x, sep >>) /\ AllPlain(<< Item("expr") >> \o << x, sep >>)
    BY <2>2, <2>3, PlainTuples
  <2>5. CASE Fail
    BY <1>1, <2>5, FailStep DEF Working
  <2>6. CASE ~ Fail
    <3>1. NothingNoted
      BY <2>1, <2>6, SameSeen
    <3> QED
      BY <1>1, <2>1, <2>4, <2>6, <3>1, WorkStep
  <2> QED
    BY <2>5, <2>6
<1>3. CASE Variable
  <2>1. Continue(<< >>) /\ symtables' = symtables /\ UNCHANGED seen
    BY <1>3 DEF Variable
  <2> QED
    BY <1>1, <2>1, SameSeen, PlainTuples, WorkStep
<1> QED
  BY <1>2, <1>3

\* A function's body stands before the separator it replaces.
LEMMA DeclaredFunctionStep ==
  ASSUME ScopesInv, DeclaredFunction
  PROVE  ScopesInv'
<1>1. Working
  BY DEF DeclaredFunction, Doing, Working, Closers
<1> DEFINE body == [do |-> "body", function |-> Len(symbols) + 1]
           sep == [do |-> "separator", base |-> todo.base, typedef |-> todo.typedef]
<1>2. Fail \/ (Continue(<< body, sep >>) /\ symtables' = symtables /\ UNCHANGED seen)
  BY DEF DeclaredFunction
<1>3. Plain(sep) /\ HasDo(body) /\ body.do = "body" /\ Held(body) = 0 /\ sep.do = "separator"
  BY DEF Plain, HasDo, Closers, Held
<1> HIDE DEF body, sep
<1>4. CASE Fail
  BY <1>1, <1>4, FailStep DEF Working
<1>5. CASE Continue(<< body, sep >>) /\ symtables' = symtables /\ UNCHANGED seen
  <2>1. PICK k \in Nat : /\ Stacked(stack, k) /\ k <= Len(symtables)
                         /\ ~ seen.muffled => k = Len(symtables)
                         /\ stack # << >> /\ Tail(stack) # << >>
                         /\ Held(Head(stack)) = 0
    BY <1>1, HeadDepth DEF Working, Closing
  <2>2. Stacked(<< sep >> \o Tail(stack), k)
    <3>1. AllPlain(<< sep >>)
      BY <1>3, PlainTuples
    <3> QED
      BY <2>1, <3>1, PlainOver
  <2>3. IsSeq(Tail(stack))
    BY <2>1, PopDepth DEF Stacked
  <2>4. /\ << body, sep >> \o Tail(stack) = << body >> \o (<< sep >> \o Tail(stack))
        /\ << sep >> \o Tail(stack) # << >>
        /\ Head(<< sep >> \o Tail(stack)) = sep
    BY <2>3, PairOver
  <2>5. Stacked(<< body, sep >> \o Tail(stack), k)
    <3>1. Stacked(<< body >> \o (<< sep >> \o Tail(stack)), k + Held(body))
      BY <1>3, <2>2, <2>4, PushDepth
    <3> QED
      BY <1>3, <2>4, <3>1
  <2>6. NothingNoted
    BY <1>5, SameSeen
  <2>7. Balanced(stack, Len(symtables), seen.muffled)'
    BY <1>5, <2>1, <2>5, <2>6 DEF Balanced, Continue, NothingNoted
  <2>8. Outermost' /\ Noted'
    BY <1>5, <2>6 DEF ScopesInv, Outermost, Noted, NothingNoted, IsSeq
  <2> QED
    BY <1>1, <1>5, <2>7, <2>8 DEF ScopesInv, Continue, Working
<1> QED
  BY <1>2, <1>4, <1>5

\* A body opens the scope of its parameters again.
LEMMA FunctionBodyStep ==
  ASSUME ScopesInv, FunctionBody
  PROVE  ScopesInv'
<1>1. Working /\ todo.do = "body"
  BY DEF FunctionBody, Doing, Working, Closers
<1>2. CASE token # "{"
  BY <1>1, <1>2, PlainTuples, PlainSteps DEF FunctionBody, PlainStep
<1>3. CASE token = "{"
  <2> DEFINE x == [do |-> "end_of_body", function |-> todo.function, opened |-> Meaning]
             items == << Item("stmt"), x >>
  <2>1. Continue(items) /\ PushTable(symbols[todo.function].symtable) /\ NothingNoted
    BY <1>3, SameSeen DEF FunctionBody
  <2>2. PICK k \in Nat : /\ Stacked(stack, k) /\ k <= Len(symtables)
                         /\ ~ seen.muffled => k = Len(symtables)
                         /\ stack # << >> /\ Tail(stack) # << >>
                         /\ Held(Head(stack)) = 0
    BY <1>1, HeadDepth DEF Working, Closing
  <2>3. Head(Tail(stack)).do = "separator"
    BY <1>1, HeadHasDo DEF Working, todo
  <2>4. Stacked(Tail(stack), k)
    <3>1. Stacked(Tail(stack), k - Held(Head(stack))) /\ k - 0 = k
      BY <2>2, PopDepth
    <3> QED
      BY <2>2, <3>1
  <2>5. HasDo(x) /\ x.do = "end_of_body" /\ x.do \in Closers /\ Plain(Item("stmt"))
    BY Items DEF HasDo, Closers
  <2> HIDE DEF x
  <2>6. /\ items \in Seq({Item("stmt"), x}) /\ Len(items) = 2 /\ 2 \in 1 .. Len(items)
        /\ items[2] = x /\ \A n \in 1 .. Len(items) : n # 2 => items[n] = Item("stmt")
    OBVIOUS
  <2> HIDE DEF items
  <2>7. Stacked(items \o Tail(stack), k + 1)
    <3>1. \A n \in 1 .. Len(items) : n # 2 => Plain(items[n])
      BY <2>5, <2>6
    <3> QED
      BY <2>2, <2>3, <2>4, <2>5, <2>6, <3>1, PushCloser
  <2>8. Outermost' /\ Len(symtables') = Len(symtables) + 1 /\ Len(symtables) \in Nat
    BY <2>1, Pushed DEF ScopesInv, Outermost, IsSeq
  <2>9. k + 1 \in Nat /\ k + 1 <= Len(symtables') /\ (~ seen.muffled => k + 1 = Len(symtables'))
    BY <2>2, <2>8
  <2>10. Balanced(stack, Len(symtables), seen.muffled)'
    BY <2>1, <2>7, <2>9 DEF Balanced, Continue, NothingNoted
  <2>11. Noted'
    BY <2>1 DEF ScopesInv, Noted, NothingNoted
  <2> QED
    BY <1>1, <2>1, <2>8, <2>10, <2>11 DEF ScopesInv, Continue, Working
<1> QED
  BY <1>2, <1>3

\* The end of a body drops the separator behind it too.
LEMMA EndOfBodyStep ==
  ASSUME ScopesInv, EndOfBody
  PROVE  ScopesInv'
<1>1. Closing /\ todo.do = "end_of_body"
  BY DEF EndOfBody, Doing, Closing, Closers
<1>2. Pop /\ stack' = Tail(Tail(stack)) /\ status' = status /\ NothingNoted
  BY SameSeen DEF EndOfBody
<1>3. PICK k \in Nat : /\ Stacked(stack, k) /\ k <= Len(symtables)
                       /\ ~ seen.muffled => k = Len(symtables)
                       /\ stack # << >> /\ Tail(stack) # << >>
                       /\ Held(Head(stack)) = 1 /\ k - 1 >= 2
  BY <1>1, HeadDepth
<1>4. Held(Head(Tail(stack))) = 0
  BY <1>1, HeadHasDo DEF Closing, Held, Closers, todo
<1>5. Stacked(Tail(stack), k - 1)
  BY <1>3, PopDepth
<1>6. Stacked(Tail(Tail(stack)), k - 1)
  <2> DEFINE t == Tail(stack)
  <2>1. Stacked(t, k - 1) /\ t # << >> /\ Held(Head(t)) = 0
    BY <1>3, <1>4, <1>5
  <2> HIDE DEF t
  <2>2. Stacked(Tail(t), k - 1 - Held(Head(t)))
    BY <2>1, PopDepth
  <2>3. k - 1 - Held(Head(t)) = k - 1
    BY <2>1
  <2> QED
    BY <2>2, <2>3 DEF t
<1>7. Len(symtables) \in Nat /\ Len(symtables) >= 3
  BY <1>3 DEF ScopesInv, Outermost, IsSeq
<1>8. Outermost' /\ Len(symtables') = Len(symtables) - 1
  BY <1>2, <1>7, Popped DEF ScopesInv
<1>9. k - 1 \in Nat /\ k - 1 <= Len(symtables') /\ (~ seen.muffled => k - 1 = Len(symtables'))
  BY <1>3, <1>7, <1>8
<1>10. Balanced(stack, Len(symtables), seen.muffled)'
  BY <1>2, <1>6, <1>9 DEF Balanced, NothingNoted
<1>11. Noted'
  BY <1>2 DEF ScopesInv, Noted, NothingNoted
<1> QED
  BY <1>1, <1>2, <1>8, <1>10, <1>11 DEF ScopesInv, Closing

\* Statements without a scope of their own.
LEMMA StatementSteps ==
  ASSUME ScopesInv,
         \/ Else \/ Do \/ Label \/ Empty \/ LocalDeclaration \/ EndOfLocal \/ Expression \/ Primary
  PROVE  ScopesInv'
<1>1. Working
  BY DEF Else, Do, Label, Empty, LocalDeclaration, EndOfLocal, Expression, Primary,
         Doing, Working, Closers
<1>2. \A d \in {"stmt", "declaration", "local", "expr"} : Plain(Item(d))
  BY Items DEF Closers
<1>3. \A t : Plain(Expect(t))
  BY Items
<1>4. PlainStep
  <2>1. CASE Else \/ Label \/ Empty \/ EndOfLocal
    BY <1>2, <2>1, PlainTuples DEF Else, Label, Empty, EndOfLocal, PlainStep
  <2>2. CASE Do
    BY <1>2, <1>3, <2>2, PlainTuples DEF Do, PlainStep
  <2>3. CASE LocalDeclaration \/ Expression
    BY <1>2, <1>3, <2>3, PlainTuples DEF LocalDeclaration, Expression, PlainStep
  <2>4. CASE Primary
    BY <2>4, PlainTuples DEF Primary, PlainStep
  <2> QED
    BY <2>1, <2>2, <2>3, <2>4
<1> QED
  BY <1>1, <1>4, PlainSteps

\* Statements with one: however they end, they close what they opened.
LEMMA ScopeSteps ==
  ASSUME ScopesInv, Compound \/ Block \/ Nested \/ EndOfNested
  PROVE  ScopesInv'
<1>1. Plain(Item("stmt")) /\ Plain(Item("else"))
  BY Items DEF Closers
<1>2. Closer(Close) /\ Closer([Close EXCEPT !.do = "block"])
  BY DEF Close, Closer, HasDo, Closers
<1>3. ASSUME NEW items, OneCloser(items), Opening(items), Working PROVE ScopesInv'
  <2>1. Continue(items) /\ PushTable(Len(tables) + 1) /\ UNCHANGED seen
    BY <1>3 DEF Opening, PushNew
  <2> QED
    BY <1>3, <2>1, SameSeen, OpeningStep
<1>4. CASE Compound
  <2>1. Working
    BY <1>4 DEF Compound, Doing, Working, Closers
  <2>2. OneCloser(<< [Close EXCEPT !.do = "block"] >>)
    BY <1>2, CloserTuples
  <2> QED
    BY <1>3, <1>4, <2>1, <2>2 DEF Compound
<1>5. CASE Nested
  <2>1. Working
    BY <1>5 DEF Nested, Doing, Working, Closers
  <2>2. OneCloser(<< Item("stmt"), Close >>) /\ OneCloser(<< Item("stmt"), Close, Item("else") >>)
    BY <1>1, <1>2, CloserTuples
  <2>3. Opening(<< Item("stmt"), Close >>) \/ Opening(<< Item("stmt"), Close, Item("else") >>)
    BY <1>5 DEF Nested
  <2> QED
    BY <1>3, <2>1, <2>2, <2>3
<1>6. CASE Block
  <2>1. Closing /\ todo.do = "block"
    BY <1>6 DEF Block, Doing, Closing, Closers
  <2>2. CASE token # "}"
    <3>1. Continue(<< Item("stmt"), todo >>) /\ symtables' = symtables /\ UNCHANGED seen
      BY <1>6, <2>2 DEF Block, Leaving, Kept
    <3>2. Closer(todo)
      BY <2>1, HeadHasDo DEF Closer, Closing, todo
    <3>3. OneCloser(<< Item("stmt"), todo >>)
      BY <1>1, <3>2, CloserTuples
    <3> QED
      BY <2>1, <3>1, <3>3, SameSeen, ClosingLaterStep
  <2>3. CASE token = "}"
    <3>1. Pop /\ Continue(<< >>) /\ UNCHANGED seen
      BY <1>6, <2>3 DEF Block
    <3> QED
      BY <2>1, <3>1, SameSeen, PlainTuples, ClosingStep
  <2> QED
    BY <2>2, <2>3
<1>7. CASE EndOfNested
  <2>1. Closing /\ Pop /\ Continue(<< >>) /\ UNCHANGED seen
    BY <1>7 DEF EndOfNested, Doing, Closing, Closers
  <2> QED
    BY <2>1, SameSeen, PlainTuples, ClosingStep
<1> QED
  BY <1>4, <1>5, <1>6, <1>7

----------------------------------------------------------------------------
\* Whatever the program, as many scopes are open as the calls that have not returned are to
\* close, and the outermost two are the ones parser_parse made.
THEOREM ScopesFollowCalls == Spec => []ScopesInv
<1>1. Init => ScopesInv
  <2> SUFFICES ASSUME Init PROVE ScopesInv
    OBVIOUS
  <2>1. /\ stack = << Item("unit") >> /\ status = "parsing" /\ symtables = << 1, 2 >>
        /\ "muffled" \in DOMAIN seen /\ seen.muffled = FALSE
    BY DEF Init
  <2>2. << 1, 2 >> \in Seq({1, 2}) /\ Len(<< 1, 2 >>) = 2 /\ << 1, 2 >>[1] = 1 /\ << 1, 2 >>[2] = 2
    OBVIOUS
  <2>3. IsSeq(<< 1, 2 >>)
    BY <2>2, SeqIsSeq, Zenon
  <2>4. Outermost /\ Noted
    <3>1. IsSeq(symtables)
      BY <2>1, <2>3
    <3>2. Len(symtables) = 2 /\ symtables[1] = 1 /\ symtables[2] = 2
      BY <2>1, <2>2
    <3>3. Outermost
      BY <3>1, <3>2 DEF Outermost
    <3>4. Noted
      BY <2>1 DEF Noted
    <3> QED
      BY <3>3, <3>4
  <2>5. Stacked(stack, 2)
    <3> DEFINE s == << Item("unit") >>
               d == [n \in 1 .. 2 |-> 2]
    <3>1. s \in Seq({Item("unit")}) /\ Len(s) = 1 /\ s[1] = Item("unit")
      OBVIOUS
    <3>2. HasDo(Item("unit")) /\ Item("unit").do = "unit" /\ Held(Item("unit")) = 0
      BY DEF HasDo, Item, Held, Closers
    <3>3. IsSeq(s)
      BY <3>1, SeqIsSeq, Zenon
    <3> HIDE DEF s
    <3>4. Shape(s)
      BY <3>1, <3>2 DEF Shape
    <3>5. Depths(s, d) /\ d[1] = 2
      BY <3>1, <3>2 DEF Depths
    <3> QED
      BY <2>1, <3>3, <3>4, <3>5 DEF Stacked, s
  <2> QED
    BY <2>1, <2>2, <2>4, <2>5 DEF ScopesInv, Balanced
<1>2. ScopesInv /\ [Next]_vars => ScopesInv'
  <2> SUFFICES ASSUME ScopesInv, [Next]_vars PROVE ScopesInv'
    OBVIOUS
  <2>1. CASE UNCHANGED vars
    BY <2>1 DEF vars, scopes, ScopesInv, Outermost, Noted, IsSeq, Balanced
  <2>2. CASE Next
    BY <2>2, TokenSteps, SpecifierSteps, FieldSteps, DeclaratorSteps, ParameterSteps, UnitStep,
       DeclarationSteps, VariableSteps, DeclaredFunctionStep, FunctionBodyStep, EndOfBodyStep,
       StatementSteps, ScopeSteps, Zenon DEF Next
  <2> QED
    BY <2>1, <2>2
<1> QED
  BY <1>1, <1>2, PTL DEF Spec

\* ScopesBalanced: the parser's place between two declarations is below all of them.
THEOREM ScopesStayBalanced == Spec => []ScopesBalanced
<1>1. ScopesInv => ScopesBalanced
  <2> SUFFICES ASSUME ScopesInv, stack # << >>, todo.do = "unit", ~ seen.muffled
               PROVE  symtables = << 1, 2 >>
    BY DEF ScopesBalanced
  <2>1. PICK k \in Nat : Stacked(stack, k) /\ k = Len(symtables)
    BY DEF ScopesInv, Balanced
  <2>2. PICK d : Depths(stack, d) /\ d[1] = k
    BY <2>1 DEF Stacked
  <2>3. stack \in Seq({stack[n] : n \in 1 .. Len(stack)}) /\ Shape(stack)
    BY <2>1 DEF Stacked, IsSeq
  <2>4. 1 \in 1 .. Len(stack) /\ Head(stack) = stack[1]
    BY <2>3, HeadAndTail
  <2>5. Len(stack) = 1 /\ Held(stack[1]) = 0
    BY <2>3, <2>4 DEF Shape, Held, Closers, todo
  <2>6. Len(symtables) = 2
    BY <2>1, <2>2, <2>5 DEF Depths
  <2>7. /\ symtables \in Seq({symtables[n] : n \in 1 .. Len(symtables)} \cup {1, 2})
        /\ symtables[1] = 1 /\ symtables[2] = 2
    BY DEF ScopesInv, Outermost, IsSeq
  <2>8. /\ << 1, 2 >> \in Seq({symtables[n] : n \in 1 .. Len(symtables)} \cup {1, 2})
        /\ Len(<< 1, 2 >>) = 2 /\ << 1, 2 >>[1] = 1 /\ << 1, 2 >>[2] = 2
    OBVIOUS
  <2>9. \A n \in 1 .. 2 : symtables[n] = << 1, 2 >>[n]
    BY <2>7, <2>8
  <2> QED
    BY <2>6, <2>7, <2>8, <2>9, SeqEqual
<1> QED
  BY <1>1, ScopesFollowCalls, PTL

(* Types *)

BaseKinds == {"int", "char", "void", "tag", "alias"}
TagKinds  == {"struct", "union", "enum"}
DeclTypes == {Global, Local, "DT_STRUCT", "DT_PARAMETER"}

SymbolFields == {"kind", "name", "type", "size", "offset", "symtable", "complete", "function",
                 "locals_size"}

\* What follows is said of the symbols Y and of T tables.
Tags(Y) == {s \in DOMAIN Y : Y[s].kind \in TagKinds}

IsPart(p, Y, T) ==
  /\ p.kind \in TypeKinds
  /\ p.kind = "tag" => p.sym \in Tags(Y)
  /\ p.kind = "alias" => p.sym \in DOMAIN Y /\ Y[p.sym].kind = "alias"
  /\ p.kind = "func" => p.sym \in 1 .. T

IsParts(t, Y, T) == IsSeq(t) /\ \A i \in 1 .. Len(t) : IsPart(t[i], Y, T)

\* A specifier's type, a whole one, and what a declarator makes of its surroundings, which
\* ends with NULL if it failed.
IsBase(t, Y, T) == \E p : t = << p >> /\ IsPart(p, Y, T) /\ p.kind \in BaseKinds
IsFull(t, Y, T) == t # << >> /\ IsParts(t, Y, T) /\ t[Len(t)].kind \in BaseKinds
IsLoose(t, Y, T) == \E u : IsParts(u, Y, T) /\ (t = u \/ t = u \o << Base("null") >>)

IsPointers(t) == IsSeq(t) /\ \A i \in 1 .. Len(t) : t[i] = Base("pointer")
IsDimensions(t) == IsSeq(t) /\ \A i \in 1 .. Len(t) : t[i] = Base("array") \/ t[i] = Base("open")

IsSymbol(r, Y, T) ==
  /\ DOMAIN r = SymbolFields
  /\ r.kind \in Kinds /\ r.size \in Nat /\ IsParts(r.type, Y, T)
  /\ r.symtable \in 0 .. T
  /\ r.kind = "function" => r.symtable # 0

----------------------------------------------------------------------------
\* Two sequences, one behind the other.
LEMMA Joined ==
  ASSUME NEW a, NEW b, IsSeq(a), IsSeq(b)
  PROVE  /\ IsSeq(a \o b) /\ Len(a \o b) = Len(a) + Len(b)
         /\ Len(a) \in Nat /\ Len(b) \in Nat
         /\ \A i \in 1 .. Len(a) : (a \o b)[i] = a[i]
         /\ \A i \in 1 .. Len(b) : (a \o b)[Len(a) + i] = b[i]
<1> DEFINE S == {a[n] : n \in 1 .. Len(a)} \cup {b[n] : n \in 1 .. Len(b)}
           c == a \o b
<1>1. a \in Seq(S) /\ b \in Seq(S) /\ Len(a) \in Nat /\ Len(b) \in Nat
  BY DEF IsSeq
<1> HIDE DEF S
<1>2. /\ c \in Seq(S) /\ Len(c) = Len(a) + Len(b)
      /\ \A i \in 1 .. Len(a) + Len(b) : c[i] = IF i <= Len(a) THEN a[i] ELSE b[i - Len(a)]
  BY <1>1, ConcatProperties
<1>3. IsSeq(c)
  BY <1>2, SeqIsSeq, Zenon
<1>4. \A i \in 1 .. Len(a) : c[i] = a[i]
  BY <1>1, <1>2
<1>5. ASSUME NEW i \in 1 .. Len(b) PROVE c[Len(a) + i] = b[i]
  <2>1. Len(a) + i \in 1 .. Len(a) + Len(b) /\ ~(Len(a) + i <= Len(a)) /\ Len(a) + i - Len(a) = i
    BY <1>1
  <2> QED
    BY <1>2, <2>1
<1> QED
  BY <1>1, <1>2, <1>3, <1>4, <1>5

\* A tuple of one.
LEMMA One == ASSUME NEW x PROVE IsSeq(<< x >>) /\ Len(<< x >>) = 1 /\ << x >>[1] = x
<1>1. << x >> \in Seq({x})
  OBVIOUS
<1>2. IsSeq(<< x >>)
  BY <1>1, SeqIsSeq, Zenon
<1> QED
  BY <1>2

\* The empty one.
LEMMA None == IsSeq(<< >>) /\ Len(<< >>) = 0
  BY DEF IsSeq

\* Joining three is joining two and one.
LEMMA JoinedThree ==
  ASSUME NEW a, NEW b, NEW c, IsSeq(a), IsSeq(b), IsSeq(c)
  PROVE  (a \o b) \o c = a \o (b \o c)
<1> DEFINE S == {a[n] : n \in 1 .. Len(a)} \cup {b[n] : n \in 1 .. Len(b)}
                \cup {c[n] : n \in 1 .. Len(c)}
<1>1. a \in Seq(S) /\ b \in Seq(S) /\ c \in Seq(S)
  BY DEF IsSeq
<1> HIDE DEF S
<1> QED
  BY <1>1, ConcatAssociative

\* The parts of two types, and of a type and a declarator's.
LEMMA JoinedParts ==
  ASSUME NEW a, NEW b, NEW Y, NEW T, IsParts(a, Y, T)
  PROVE  /\ IsParts(b, Y, T) => IsParts(a \o b, Y, T)
         /\ IsLoose(b, Y, T) => IsLoose(a \o b, Y, T)
<1>1. ASSUME NEW u, IsParts(u, Y, T) PROVE IsParts(a \o u, Y, T)
  <2> DEFINE c == a \o u
  <2>1. /\ IsSeq(c) /\ Len(c) = Len(a) + Len(u) /\ Len(a) \in Nat /\ Len(u) \in Nat
        /\ \A i \in 1 .. Len(a) : c[i] = a[i]
        /\ \A i \in 1 .. Len(u) : c[Len(a) + i] = u[i]
    BY <1>1, Joined DEF IsParts
  <2> HIDE DEF c
  <2>2. ASSUME NEW i \in 1 .. Len(c) PROVE IsPart(c[i], Y, T)
    <3>1. CASE i <= Len(a)
      BY <2>1, <3>1 DEF IsParts
    <3>2. CASE i > Len(a)
      <4>1. PICK j \in 1 .. Len(u) : i = Len(a) + j
        <5>1. i - Len(a) \in 1 .. Len(u) /\ i = Len(a) + (i - Len(a))
          BY <2>1, <3>2
        <5> QED
          BY <5>1
      <4> QED
        BY <1>1, <2>1, <4>1 DEF IsParts
    <3> QED
      BY <2>1, <3>1, <3>2
  <2> QED
    BY <2>1, <2>2 DEF IsParts, c
<1>2. ASSUME IsLoose(b, Y, T) PROVE IsLoose(a \o b, Y, T)
  <2>1. PICK u : IsParts(u, Y, T) /\ (b = u \/ b = u \o << Base("null") >>)
    BY <1>2 DEF IsLoose
  <2>2. IsParts(a \o u, Y, T)
    BY <1>1, <2>1
  <2>3. (a \o u) \o << Base("null") >> = a \o (u \o << Base("null") >>)
    <3>1. IsSeq(a) /\ IsSeq(u) /\ IsSeq(<< Base("null") >>)
      BY <2>1, One DEF IsParts
    <3> QED
      BY <3>1, JoinedThree
  <2> QED
    BY <2>1, <2>2, <2>3 DEF IsLoose
<1> QED
  BY <1>1, <1>2

\* What Broken lets through has no NULL in it.
LEMMA NotBroken ==
  ASSUME NEW t, NEW Y, NEW T, IsLoose(t, Y, T), ~ Broken(t)
  PROVE  IsParts(t, Y, T)
<1>1. PICK u : IsParts(u, Y, T) /\ (t = u \/ t = u \o << Base("null") >>)
  BY DEF IsLoose
<1>2. CASE t = u \o << Base("null") >>
  <2> DEFINE x == Base("null")
  <2>1. x.kind = "null"
    BY DEF Base
  <2> HIDE DEF x
  <2>2. Len(t) = Len(u) + 1 /\ Len(u) \in Nat /\ t[Len(u) + 1] = x
    <3>1. 1 \in 1 .. Len(<< x >>)
      BY One
    <3> QED
      BY <1>1, <1>2, <3>1, One, Joined DEF IsParts, x
  <2>3. t # << >> /\ Last(t) = x
    <3>1. Len(t) # 0
      BY <2>2
    <3> QED
      BY <2>2, <3>1, None DEF Last
  <2> QED
    BY <2>1, <2>3 DEF Broken
<1> QED
  BY <1>1, <1>2

\* Pointers and dimensions are parts of types.
LEMMA AreParts ==
  ASSUME NEW t, NEW Y, NEW T
  PROVE  IsPointers(t) \/ IsDimensions(t) => IsParts(t, Y, T)
<1>1. \A k \in {"pointer", "array", "open"} : IsPart(Base(k), Y, T)
  BY DEF IsPart, Base, TypeKinds
<1> QED
  BY <1>1 DEF IsPointers, IsDimensions, IsParts

\* One part.
LEMMA OnePart ==
  ASSUME NEW p, NEW Y, NEW T, IsPart(p, Y, T)
  PROVE  IsParts(<< p >>, Y, T)
<1>1. IsSeq(<< p >>) /\ Len(<< p >>) = 1 /\ << p >>[1] = p
  BY One
<1>2. \A i \in 1 .. Len(<< p >>) : i = 1
  BY <1>1
<1> QED
  BY <1>1, <1>2 DEF IsParts

\* A declarator's type with its base behind it.
LEMMA WithBase ==
  ASSUME NEW t, NEW b, NEW Y, NEW T, IsParts(t, Y, T), IsBase(b, Y, T)
  PROVE  IsFull(t \o b, Y, T)
<1>1. PICK p : b = << p >> /\ IsPart(p, Y, T) /\ p.kind \in BaseKinds
  BY DEF IsBase
<1>2. IsParts(<< p >>, Y, T)
  BY <1>1, OnePart
<1>3. IsParts(t \o << p >>, Y, T)
  BY <1>2, JoinedParts
<1> DEFINE c == t \o << p >>
<1>4. Len(c) = Len(t) + 1 /\ Len(t) \in Nat /\ c[Len(t) + 1] = p
  <2>1. 1 \in 1 .. Len(<< p >>)
    BY One
  <2> QED
    BY <2>1, One, Joined DEF IsParts
<1> HIDE DEF c
<1>5. c # << >> /\ c[Len(c)] = p
  BY <1>4, None
<1> QED
  BY <1>1, <1>3, <1>5 DEF IsFull, c

\* The empty type has no parts that could be wrong.
LEMMA IsEmpty == \A Y, T : IsParts(<< >>, Y, T) /\ IsPointers(<< >>) /\ IsDimensions(<< >>)
<1>1. \A i \in 1 .. Len(<< >>) : FALSE
  BY None
<1> QED
  BY <1>1, None DEF IsParts, IsPointers, IsDimensions

----------------------------------------------------------------------------
(* The calls *)

Inside       == {"struct", "field", "enum", "enumerator", "enumerated"}
InParameters == {"parameters", "parameter", "declared_parameter", "parameters_end"}
InDeclarator == {"pointers", "inner", "suffix", "dimension", "size"} \cup InParameters

\* What a call that has not returned remembers.
IsItem(x, Y, T) ==
  /\ HasDo(x)
  /\ x.do = "tag" => x.kind \in TagKinds
  /\ x.do = "struct" => x.kind \in TagKinds \ {"enum"}
  /\ x.do \in Inside => x.tag \in Tags(Y)
  /\ x.do = "field" => Y[x.tag].symtable # 0
  /\ x.do \in {"field"} \cup InParameters => x.old \in DeclTypes
  /\ x.do \in InDeclarator => IsPointers(x.outer)
  /\ x.do \in {"dimension", "size"} => IsDimensions(x.dims)
  /\ x.do \in {"suffix", "linked"} => IsLoose(x.inner, Y, T)
  /\ x.do \in {"based", "declared", "separator"} => IsBase(x.base, Y, T)
  /\ x.do \in {"declared", "declarators", "separator"} => x.typedef \in BOOLEAN
  /\ x.do = "variable" => IsSymbol(x.symbol, Y, T)
  /\ x.do \in {"body", "end_of_body"} => x.function \in DOMAIN Y /\ Y[x.function].kind = "function"
  /\ x.do = "expect" => "types" \in DOMAIN x
  /\ x.do \in Inside => "tag" \in DOMAIN x
  /\ x.do \in InParameters => {"outer", "old"} \subseteq DOMAIN x
  /\ x.do \in {"dimension", "size"} => {"outer", "dims"} \subseteq DOMAIN x

\* The type a call reads from what the one above it returned,
Wants(x) ==
  CASE x.do \in {"linked", "inner", "based"} \/ (x.do = "expect" /\ x.types = {")"}) -> "loose"
    [] x.do \in {"declared", "declared_parameter"} -> "full"
    [] x.do \in {"declarator", "declarators"} -> "base"
    [] OTHER -> "nothing"

\* and the type there is when it has returned itself.
Gives(x) ==
  CASE x.do \in InDeclarator \cup {"linked"} \/ (x.do = "expect" /\ x.types = {")"}) -> "loose"
    [] x.do \in {"based", "declarator"} -> "full"
    [] x.do \in Inside \cup {"specifier", "tag"} -> "base"
    [] OTHER -> "nothing"

Serves(t, w, Y, T) ==
  /\ w = "loose" => IsLoose(t, Y, T)
  /\ w = "full" => IsFull(t, Y, T)
  /\ w = "base" => IsBase(t, Y, T)

\* x may be put on s.
Fits(x, s) == s # << >> => Wants(Head(s)) \in {"nothing", Gives(x)}

Staffed(s, Y, T) ==
  /\ IsSeq(s)
  /\ \A n \in 1 .. Len(s) : IsItem(s[n], Y, T)
  /\ \A n \in 1 .. Len(s) - 1 : Wants(s[n + 1]) \in {"nothing", Gives(s[n])}

----------------------------------------------------------------------------
\* What a call that returns leaves.
LEMMA PopStaff ==
  ASSUME NEW s, NEW Y, NEW T, Staffed(s, Y, T), s # << >>
  PROVE  Staffed(Tail(s), Y, T) /\ IsItem(Head(s), Y, T) /\ Fits(Head(s), Tail(s))
<1> DEFINE S == {s[n] : n \in 1 .. Len(s)}
           t == Tail(s)
<1>1. s \in Seq(S) /\ Len(s) \in Nat \ {0}
  BY DEF Staffed, IsSeq
<1>2. t \in Seq(S) /\ Len(t) = Len(s) - 1 /\ \A n \in 1 .. Len(t) : t[n] = s[n + 1]
  BY <1>1
<1>3. IsSeq(t)
  BY <1>2, SeqIsSeq
<1>4. Head(s) = s[1] /\ 1 \in 1 .. Len(s)
  BY <1>1
<1>5. t # << >> => Len(t) \in Nat \ {0} /\ Head(t) = t[1]
  BY <1>2
<1> HIDE DEF S, t
<1>6. \A n \in 1 .. Len(t) : IsItem(t[n], Y, T)
  <2>1. \A n \in 1 .. Len(t) : n + 1 \in 1 .. Len(s)
    BY <1>1, <1>2
  <2> QED
    BY <1>2, <2>1 DEF Staffed
<1>7. ASSUME NEW n \in 1 .. Len(t) - 1 PROVE Wants(t[n + 1]) \in {"nothing", Gives(t[n])}
  <2>1. n + 1 \in 1 .. Len(s) - 1 /\ n \in 1 .. Len(t) /\ n + 1 \in 1 .. Len(t)
    BY <1>1, <1>2
  <2>2. t[n] = s[n + 1] /\ t[n + 1] = s[n + 1 + 1]
    BY <1>2, <2>1
  <2>3. Wants(s[n + 1 + 1]) \in {"nothing", Gives(s[n + 1])}
    BY <2>1 DEF Staffed
  <2> QED
    BY <2>2, <2>3
<1>8. Fits(Head(s), t)
  <2> SUFFICES ASSUME t # << >> PROVE Wants(Head(t)) \in {"nothing", Gives(Head(s))}
    BY DEF Fits
  <2>1. 1 \in 1 .. Len(s) - 1 /\ 1 \in 1 .. Len(t)
    BY <1>1, <1>2, <1>5
  <2>2. Head(t) = s[1 + 1]
    BY <1>2, <1>5, <2>1
  <2> QED
    BY <1>4, <2>1, <2>2 DEF Staffed
<1> QED
  BY <1>3, <1>4, <1>6, <1>7, <1>8 DEF Staffed, t

\* A call on the others.
LEMMA PushStaff ==
  ASSUME NEW s, NEW Y, NEW T, Staffed(s, Y, T), NEW x, IsItem(x, Y, T), Fits(x, s)
  PROVE  Staffed(<< x >> \o s, Y, T) /\ << x >> \o s # << >> /\ Head(<< x >> \o s) = x
<1> DEFINE S == {s[n] : n \in 1 .. Len(s)} \cup {x}
           t == << x >> \o s
<1>1. s \in Seq(S) /\ Len(s) \in Nat /\ x \in S
  BY DEF Staffed, IsSeq
<1>2. s # << >> => Len(s) # 0 /\ Head(s) = s[1]
  BY <1>1
<1> HIDE DEF S
<1>3. /\ t \in Seq(S) /\ Len(t) = 1 + Len(s) 
      /\ \A n \in 1 .. 1 + Len(s) : t[n] = IF n <= 1 THEN << x >>[n] ELSE s[n - 1]
  BY <1>1, ConsProperties
<1>4. IsSeq(t)
  BY <1>3, SeqIsSeq, Zenon
<1> HIDE DEF t
<1>5. t[1] = x /\ \A n \in 1 .. Len(s) : t[n + 1] = s[n]
  <2>1. 1 \in 1 .. 1 + Len(s) /\ << x >>[1] = x
    BY <1>1
  <2>2. ASSUME NEW n \in 1 .. Len(s) PROVE t[n + 1] = s[n]
    <3>1. n + 1 \in 1 .. 1 + Len(s) /\ ~(n + 1 <= 1) /\ n + 1 - 1 = n
      BY <1>1
    <3> QED
      BY <1>3, <3>1
  <2> QED
    BY <1>3, <2>1, <2>2
<1>6. ASSUME NEW n \in 1 .. Len(t) PROVE IsItem(t[n], Y, T)
  <2>1. CASE n = 1
    BY <1>5, <2>1
  <2>2. CASE n # 1
    <3>1. n - 1 \in 1 .. Len(s) /\ n = (n - 1) + 1
      BY <1>1, <1>3, <2>2
    <3> QED
      BY <1>5, <3>1 DEF Staffed
  <2> QED
    BY <2>1, <2>2
<1>7. ASSUME NEW n \in 1 .. Len(t) - 1 PROVE Wants(t[n + 1]) \in {"nothing", Gives(t[n])}
  <2>1. n \in 1 .. Len(s)
    BY <1>1, <1>3
  <2>2. t[n + 1] = s[n]
    BY <1>5, <2>1
  <2>3. CASE n = 1
    <3>1. s # << >>
      BY <2>1, <1>1
    <3> QED
      BY <1>2, <1>5, <2>2, <2>3, <3>1 DEF Fits
  <2>4. CASE n # 1
    <3>1. n - 1 \in 1 .. Len(s) - 1 /\ n - 1 \in 1 .. Len(s) /\ n = (n - 1) + 1
      BY <1>1, <2>1, <2>4
    <3>2. t[n] = s[n - 1]
      BY <1>5, <3>1
    <3>3. Wants(s[(n - 1) + 1]) \in {"nothing", Gives(s[n - 1])}
      BY <3>1 DEF Staffed
    <3> QED
      BY <2>2, <3>1, <3>2, <3>3
  <2> QED
    BY <2>3, <2>4
<1>8. t # << >> /\ Head(t) = x
  <2>1. Len(t) # 0
    BY <1>1, <1>3
  <2> QED
    BY <1>3, <1>5, <2>1
<1> QED
  BY <1>4, <1>6, <1>7, <1>8 DEF Staffed, t

\* The calls below one that ignores a failure.
LEMMA DropStaff ==
  ASSUME NEW s, NEW Y, NEW T, Staffed(s, Y, T), NEW m \in 1 .. Len(s)
  PROVE  /\ Staffed(SubSeq(s, m, Len(s)), Y, T)
         /\ SubSeq(s, m, Len(s)) # << >> /\ Head(SubSeq(s, m, Len(s))) = s[m]
<1> DEFINE S == {s[n] : n \in 1 .. Len(s)}
           t == SubSeq(s, m, Len(s))
<1>1. s \in Seq(S) /\ Len(s) \in Nat \ {0}
  BY DEF Staffed, IsSeq
<1>2. \A i \in m .. Len(s) : s[i] \in S
  BY <1>1
<1> HIDE DEF S
<1>3. /\ t \in Seq(S) /\ Len(t) = Len(s) - m + 1
      /\ \A n \in 1 .. Len(s) - m + 1 : t[n] = s[m + n - 1]
  BY <1>1, <1>2, SubSeqProperties
<1> HIDE DEF t
<1>4. IsSeq(t)
  BY <1>3, SeqIsSeq, Zenon
<1>5. \A n \in 1 .. Len(t) : IsItem(t[n], Y, T)
  <2>1. \A n \in 1 .. Len(t) : m + n - 1 \in 1 .. Len(s)
    BY <1>1, <1>3
  <2> QED
    BY <1>3, <2>1 DEF Staffed
<1>6. ASSUME NEW n \in 1 .. Len(t) - 1 PROVE Wants(t[n + 1]) \in {"nothing", Gives(t[n])}
  <2>1. /\ m + n - 1 \in 1 .. Len(s) - 1 /\ n \in 1 .. Len(t) /\ n + 1 \in 1 .. Len(t)
        /\ m + (n + 1) - 1 = (m + n - 1) + 1
    BY <1>1, <1>3
  <2>2. t[n] = s[m + n - 1] /\ t[n + 1] = s[(m + n - 1) + 1]
    BY <1>3, <2>1
  <2>3. Wants(s[(m + n - 1) + 1]) \in {"nothing", Gives(s[m + n - 1])}
    BY <2>1 DEF Staffed
  <2> QED
    BY <2>2, <2>3
<1>7. t # << >> /\ Head(t) = s[m]
  <2>1. Len(t) # 0 /\ 1 \in 1 .. Len(s) - m + 1 /\ m + 1 - 1 = m
    BY <1>1, <1>3
  <2> QED
    BY <1>3, <2>1
<1> QED
  BY <1>4, <1>5, <1>6, <1>7 DEF Staffed, t

----------------------------------------------------------------------------
(* Symbols and tables *)

IsEntry(e, Y) == e.sym \in DOMAIN Y /\ (e.class = "SC_TAG" => e.sym \in Tags(Y))

SymbolsOK(Y, T) == IsSeq(Y) /\ \A s \in 1 .. Len(Y) : IsSymbol(Y[s], Y, T)

TablesOK(B, Y) ==
  IsSeq(B) /\ \A t \in 1 .. Len(B) : IsSeq(B[t]) /\ \A i \in 1 .. Len(B[t]) : IsEntry(B[t][i], Y)

\* The symbols Z are those of Y, and maybe more; none changes its kind.
Grown(Y, Z) ==
  /\ DOMAIN Y \subseteq DOMAIN Z
  /\ \A s \in DOMAIN Y : Z[s].kind = Y[s].kind /\ (Y[s].symtable # 0 => Z[s].symtable # 0)

\* What is true of fewer symbols and tables is true of more.
LEMMA PartsGrow ==
  ASSUME NEW Y, NEW Z, NEW T \in Nat, NEW U \in Nat, Grown(Y, Z), T <= U
  PROVE  /\ Tags(Y) \subseteq Tags(Z)
         /\ \A t : IsParts(t, Y, T) => IsParts(t, Z, U)
         /\ \A t : IsBase(t, Y, T) => IsBase(t, Z, U)
         /\ \A t : IsFull(t, Y, T) => IsFull(t, Z, U)
         /\ \A t : IsLoose(t, Y, T) => IsLoose(t, Z, U)
<1>1. Tags(Y) \subseteq Tags(Z)
  BY DEF Tags, Grown
<1>2. ASSUME NEW p, IsPart(p, Y, T) PROVE IsPart(p, Z, U)
  BY <1>1, <1>2 DEF IsPart, Grown
<1>3. \A t : IsParts(t, Y, T) => IsParts(t, Z, U)
  BY <1>2 DEF IsParts
<1>4. \A t : IsBase(t, Y, T) => IsBase(t, Z, U)
  BY <1>2 DEF IsBase
<1>5. \A t : IsFull(t, Y, T) => IsFull(t, Z, U)
  BY <1>3 DEF IsFull
<1>6. \A t : IsLoose(t, Y, T) => IsLoose(t, Z, U)
  BY <1>3 DEF IsLoose
<1> QED
  BY <1>1, <1>3, <1>4, <1>5, <1>6

\* A symbol, with more symbols and tables beside it,
LEMMA SymbolGrows ==
  ASSUME NEW Y, NEW Z, NEW T \in Nat, NEW U \in Nat, Grown(Y, Z), T <= U,
         NEW r, IsSymbol(r, Y, T)
  PROVE  IsSymbol(r, Z, U)
<1>1. IsParts(r.type, Z, U)
  BY PartsGrow DEF IsSymbol
<1>2. r.symtable \in 0 .. U
  BY DEF IsSymbol
<1> QED
  BY <1>1, <1>2 DEF IsSymbol

\* what a waiting call remembers,
LEMMA ItemGrows ==
  ASSUME NEW Y, NEW Z, NEW T \in Nat, NEW U \in Nat, Grown(Y, Z), T <= U,
         NEW x, IsItem(x, Y, T)
  PROVE  IsItem(x, Z, U)
<1>1. x.do \in Inside => x.tag \in Tags(Z)
  BY PartsGrow DEF IsItem
<1>2. x.do = "field" => Z[x.tag].symtable # 0
  <2> SUFFICES ASSUME x.do = "field" PROVE Z[x.tag].symtable # 0
    OBVIOUS
  <2>1. x.tag \in DOMAIN Y /\ Y[x.tag].symtable # 0
    BY DEF IsItem, Inside, Tags
  <2> QED
    BY <2>1 DEF Grown
<1>3. x.do \in {"suffix", "linked"} => IsLoose(x.inner, Z, U)
  BY PartsGrow DEF IsItem
<1>4. x.do \in {"based", "declared", "separator"} => IsBase(x.base, Z, U)
  BY PartsGrow DEF IsItem
<1>5. x.do = "variable" => IsSymbol(x.symbol, Z, U)
  BY SymbolGrows DEF IsItem
<1>6. x.do \in {"body", "end_of_body"} => x.function \in DOMAIN Z /\ Z[x.function].kind = "function"
  BY DEF IsItem, Grown
<1> QED
  BY <1>1, <1>2, <1>3, <1>4, <1>5, <1>6 DEF IsItem

\* and the calls, what is read of ret, and the tables.
LEMMA StaffGrows ==
  ASSUME NEW Y, NEW Z, NEW T \in Nat, NEW U \in Nat, Grown(Y, Z), T <= U
  PROVE  /\ \A s : Staffed(s, Y, T) => Staffed(s, Z, U)
         /\ \A t, w : Serves(t, w, Y, T) => Serves(t, w, Z, U)
         /\ \A B : TablesOK(B, Y) => TablesOK(B, Z)
<1>1. ASSUME NEW s, Staffed(s, Y, T) PROVE Staffed(s, Z, U)
  BY <1>1, ItemGrows DEF Staffed
<1>2. ASSUME NEW t, NEW w, Serves(t, w, Y, T) PROVE Serves(t, w, Z, U)
  BY <1>2, PartsGrow DEF Serves
<1>3. ASSUME NEW B, TablesOK(B, Y) PROVE TablesOK(B, Z)
  <2>1. \A e : IsEntry(e, Y) => IsEntry(e, Z)
    BY PartsGrow DEF IsEntry, Grown
  <2> QED
    BY <1>3, <2>1 DEF TablesOK
<1> QED
  BY <1>1, <1>2, <1>3

\* No change is growth.
LEMMA GrownSame == \A Y : Grown(Y, Y)
  BY DEF Grown

\* One more symbol.
LEMMA OneSymbolMore ==
  ASSUME NEW Y, NEW T \in Nat, SymbolsOK(Y, T), NEW r, IsSymbol(r, Y, T)
  PROVE  /\ SymbolsOK(Append(Y, r), T) /\ Grown(Y, Append(Y, r))
         /\ Len(Y) \in Nat /\ Len(Append(Y, r)) = Len(Y) + 1
         /\ DOMAIN Append(Y, r) = 1 .. Len(Y) + 1 /\ DOMAIN Y = 1 .. Len(Y)
         /\ Append(Y, r)[Len(Y) + 1] = r
         /\ \A s \in 1 .. Len(Y) : Append(Y, r)[s] = Y[s]
<1> DEFINE S == {Y[n] : n \in 1 .. Len(Y)} \cup {r}
           Z == Append(Y, r)
<1>1. Y \in Seq(S) /\ r \in S
  BY DEF SymbolsOK, IsSeq
<1> HIDE DEF S
<1>2. /\ Z \in Seq(S) /\ Len(Z) = Len(Y) + 1 /\ Len(Y) \in Nat
      /\ \A i \in 1 .. Len(Y) : Z[i] = Y[i]
      /\ Z[Len(Y) + 1] = r
      /\ DOMAIN Z = 1 .. Len(Y) + 1 /\ DOMAIN Y = 1 .. Len(Y)
  BY <1>1, AppendProperties
<1> HIDE DEF Z
<1>3. IsSeq(Z)
  BY <1>2, SeqIsSeq, Zenon
<1>4. Grown(Y, Z)
  BY <1>2 DEF Grown
<1>5. ASSUME NEW s \in 1 .. Len(Z) PROVE IsSymbol(Z[s], Z, T)
  <2>1. IsSymbol(Z[s], Y, T)
    BY <1>2 DEF SymbolsOK
  <2> QED
    BY <1>4, <2>1, SymbolGrows
<1> QED
  BY <1>2, <1>3, <1>4, <1>5 DEF SymbolsOK, Z

\* One symbol changed, where its kind and its type are not.
LEMMA OneSymbolChanged ==
  ASSUME NEW Y, NEW T \in Nat, NEW U \in Nat, T <= U, SymbolsOK(Y, T), NEW Z, DOMAIN Z = DOMAIN Y,
         \A s \in DOMAIN Y :
           /\ DOMAIN Z[s] = SymbolFields
           /\ Z[s].kind = Y[s].kind /\ Z[s].type = Y[s].type /\ Z[s].size \in Nat
           /\ Z[s].symtable \in 0 .. U /\ (Y[s].symtable # 0 => Z[s].symtable # 0),
         IsSeq(Z)
  PROVE  SymbolsOK(Z, U) /\ Grown(Y, Z)
<1>1. Grown(Y, Z)
  BY DEF Grown
<1>2. IsSeq(Y) /\ DOMAIN Y = 1 .. Len(Y) /\ DOMAIN Z = 1 .. Len(Z)
  BY DEF SymbolsOK, IsSeq
<1>3. ASSUME NEW s \in 1 .. Len(Z) PROVE IsSymbol(Z[s], Z, U)
  <2>1. s \in DOMAIN Y /\ IsSymbol(Y[s], Y, T)
    BY <1>2 DEF SymbolsOK
  <2>2. IsSymbol(Y[s], Z, U)
    BY <1>1, <2>1, SymbolGrows
  <2> QED
    BY <2>1, <2>2 DEF IsSymbol
<1> QED
  BY <1>1, <1>3 DEF SymbolsOK

\* A table that holds nothing yet.
LEMMA OneTableMore ==
  ASSUME NEW B, NEW Y, TablesOK(B, Y)
  PROVE  /\ TablesOK(Append(B, << >>), Y) /\ Len(B) \in Nat /\ Len(Append(B, << >>)) = Len(B) + 1
         /\ \A i \in 1 .. Len(B) : Append(B, << >>)[i] = B[i]
<1> DEFINE S == {B[n] : n \in 1 .. Len(B)} \cup {<< >>}
           C == Append(B, << >>)
<1>1. B \in Seq(S) /\ << >> \in S
  BY DEF TablesOK, IsSeq
<1> HIDE DEF S
<1>2. /\ C \in Seq(S) /\ Len(C) = Len(B) + 1 /\ Len(B) \in Nat
      /\ \A i \in 1 .. Len(B) : C[i] = B[i]
      /\ C[Len(B) + 1] = << >>
  BY <1>1, AppendProperties
<1> HIDE DEF C
<1>3. IsSeq(C)
  BY <1>2, SeqIsSeq, Zenon
<1>4. ASSUME NEW t \in 1 .. Len(C)
      PROVE  IsSeq(C[t]) /\ \A i \in 1 .. Len(C[t]) : IsEntry(C[t][i], Y)
  <2>1. CASE t \in 1 .. Len(B)
    BY <1>2, <2>1 DEF TablesOK
  <2>2. CASE t = Len(B) + 1
    <3>1. C[t] = << >> /\ \A i \in 1 .. Len(<< >>) : FALSE
      BY <1>2, <2>2, None
    <3> QED
      BY <3>1, None
  <2> QED
    BY <1>2, <2>1, <2>2
<1> QED
  BY <1>2, <1>3, <1>4 DEF TablesOK, C

\* Max, of numbers with a bound, is the greatest of them.
LEMMA MaxIsGreatest ==
  ASSUME NEW n \in Nat, NEW D \in SUBSET (0 .. n), D # {}
  PROVE  Max(D) \in D /\ \A k \in D : k <= Max(D)
<1> DEFINE E == {k \in Nat : n - k \in D}
<1>1. E \in SUBSET Nat /\ E # {}
  <2>1. PICK k \in D : TRUE
    OBVIOUS
  <2>2. n - k \in Nat /\ n - (n - k) = k
    BY <2>1
  <2> QED
    BY <2>1, <2>2
<1>2. PICK m : m = Min(E)
  OBVIOUS
<1>3. m \in E /\ \A k \in E : m <= k
  <2> HIDE DEF E
  <2> QED
    BY <1>1, <1>2, MinIsLeast
<1>4. n - m \in D
  BY <1>3
<1>5. ASSUME NEW k \in D PROVE k <= n - m
  <2>1. n - k \in Nat /\ n - (n - k) = k
    OBVIOUS
  <2>2. n - k \in E
    BY <2>1
  <2>3. m <= n - k
    BY <1>3, <2>2
  <2> QED
    BY <1>3, <2>3
<1> QED
  BY <1>4, <1>5 DEF Max

\* The stack of scopes leads to tables.
ScopesLead == IsSeq(symtables) /\ \A i \in 1 .. Len(symtables) : symtables[i] \in 1 .. Len(tables)

\* Where there is an entry, the innermost is found.
LEMMA FoundInnermost ==
  ASSUME ScopesLead, NEW name, NEW class, Found(name, class) # {}
  PROVE  /\ Max(Found(name, class)) \in 1 .. Len(symtables)
         /\ Entry(symtables[Max(Found(name, class))], name, class) # {}
<1> DEFINE F == Found(name, class)
<1>1. DOMAIN symtables = 1 .. Len(symtables) /\ Len(symtables) \in Nat
  BY DEF ScopesLead, IsSeq
<1>2. F \in SUBSET (0 .. Len(symtables)) /\ F # {}
  <2>1. F \subseteq DOMAIN symtables
    BY DEF Found
  <2> HIDE DEF F
  <2>2. \A i \in F : i \in 0 .. Len(symtables)
    BY <1>1, <2>1
  <2>3. F # {}
    BY DEF F
  <2> QED
    BY <2>2, <2>3
<1>3. Max(F) \in F
  <2> HIDE DEF F
  <2> QED
    BY <1>1, <1>2, MaxIsGreatest
<1> QED
  BY <1>1, <1>3 DEF Found

\* The first entry there is.
LEMMA FirstEntry ==
  ASSUME NEW Z, TablesOK(tables, Z), NEW t \in 1 .. Len(tables), NEW name, NEW class,
         Entry(t, name, class) # {}
  PROVE  Min(Entry(t, name, class)) \in Entry(t, name, class)
<1>1. DOMAIN tables[t] = 1 .. Len(tables[t]) /\ Len(tables[t]) \in Nat
  BY DEF TablesOK, IsSeq
<1>2. Entry(t, name, class) \in SUBSET Nat
  BY <1>1 DEF Entry
<1> QED
  BY <1>2, MinIsLeast

\* What a name denotes is a symbol, and what a tag does a type.
LEMMA SymbolIsFound ==
  ASSUME ScopesLead, TablesOK(tables, symbols), NEW name, NEW class, GetSymbol(name, class) # 0
  PROVE  /\ GetSymbol(name, class) \in DOMAIN symbols
         /\ class = "SC_TAG" => GetSymbol(name, class) \in Tags(symbols)
<1>1. Found(name, class) # {}
  BY DEF GetSymbol
<1>2. PICK t : t = symtables[Max(Found(name, class))]
  OBVIOUS
<1>3. t \in 1 .. Len(tables) /\ Entry(t, name, class) # {}
  BY <1>1, <1>2, FoundInnermost DEF ScopesLead
<1>4. PICK i : i = Min(Entry(t, name, class))
  OBVIOUS
<1>5. i \in Entry(t, name, class)
  BY <1>3, <1>4, FirstEntry
<1>6. DOMAIN tables[t] = 1 .. Len(tables[t])
  BY <1>3 DEF TablesOK, IsSeq
<1>7. i \in 1 .. Len(tables[t]) /\ tables[t][i].class = class
  BY <1>5, <1>6 DEF Entry
<1>8. IsEntry(tables[t][i], symbols)
  BY <1>3, <1>7 DEF TablesOK
<1>9. GetSymbol(name, class) = tables[t][i].sym
  BY <1>1, <1>2, <1>4 DEF GetSymbol
<1> QED
  BY <1>7, <1>8, <1>9 DEF IsEntry

\* A symbol put in the current scope changes that table alone.
LEMMA PutIntoKeeps ==
  ASSUME NEW Z, TablesOK(tables, Z), Current \in 1 .. Len(tables), NEW name, NEW class, NEW s \in DOMAIN Z,
         class = "SC_TAG" => s \in Tags(Z)
  PROVE  /\ TablesOK(PutInto(name, class, s), Z)
         /\ Len(PutInto(name, class, s)) = Len(tables)
         /\ \A t \in 1 .. Len(tables) : t # Current => PutInto(name, class, s)[t] = tables[t]
<1> DEFINE e == [name |-> name, class |-> class, sym |-> s]
           at == IF name = NoName THEN {} ELSE Entry(Current, name, class)
           old == tables[Current]
           new == IF at = {} THEN Append(old, e) ELSE [old EXCEPT ![Min(at)] = e]
           C == PutInto(name, class, s)
           S == {tables[n] : n \in 1 .. Len(tables)} \cup {new}
           R == {old[n] : n \in 1 .. Len(old)} \cup {e}
<1>1. IsEntry(e, Z)
  BY DEF IsEntry
<1>2. /\ IsSeq(old) /\ old \in Seq(R) /\ e \in R
      /\ \A i \in 1 .. Len(old) : IsEntry(old[i], Z)
  <2>1. IsSeq(old) /\ \A i \in 1 .. Len(old) : IsEntry(old[i], Z)
    BY DEF TablesOK
  <2> HIDE DEF old
  <2>2. old \in Seq({old[n] : n \in 1 .. Len(old)})
    BY <2>1 DEF IsSeq
  <2> QED
    BY <2>1, <2>2
<1>3. IsSeq(new) /\ \A i \in 1 .. Len(new) : IsEntry(new[i], Z)
  <2>1. CASE at = {}
    <3> DEFINE a == Append(old, e)
    <3> HIDE DEF R
    <3>1. /\ a \in Seq(R) /\ Len(a) = Len(old) + 1 /\ Len(old) \in Nat
          /\ \A i \in 1 .. Len(old) : a[i] = old[i]
          /\ a[Len(old) + 1] = e
      BY <1>2, AppendProperties
    <3> HIDE DEF a, old, e
    <3>2. IsSeq(a)
      BY <3>1, SeqIsSeq, Zenon
    <3>3. \A i \in 1 .. Len(a) : i \in 1 .. Len(old) \/ i = Len(old) + 1
      BY <3>1
    <3>4. \A i \in 1 .. Len(a) : IsEntry(a[i], Z)
      BY <1>1, <1>2, <3>1, <3>3
    <3>5. new = a
      BY <2>1 DEF a
    <3> QED
      BY <3>2, <3>4, <3>5
  <2>2. CASE at # {}
    <3> DEFINE a == [old EXCEPT ![Min(at)] = e]
    <3>1. at = Entry(Current, name, class)
      BY <2>2
    <3>2. Min(at) \in at
      BY <2>2, <3>1, FirstEntry
    <3>3. Min(at) \in 1 .. Len(old)
      BY <1>2, <3>1, <3>2 DEF Entry
    <3> HIDE DEF R, at, old, e
    <3>4. /\ a \in Seq(R) /\ Len(a) = Len(old)
          /\ \A j \in 1 .. Len(old) : a[j] = IF j = Min(at) THEN e ELSE old[j]
      BY <1>2, <3>3, ExceptSeq
    <3> HIDE DEF a
    <3>5. IsSeq(a)
      BY <3>4, SeqIsSeq, Zenon
    <3>6. \A i \in 1 .. Len(a) : IsEntry(a[i], Z)
      BY <1>1, <1>2, <3>4
    <3>7. new = a
      BY <2>2 DEF a
    <3> QED
      BY <3>5, <3>6, <3>7
  <2> QED
    BY <2>1, <2>2
<1>4. tables \in Seq(S) /\ new \in S
  BY DEF TablesOK, IsSeq
<1>5. C = [tables EXCEPT ![Current] = new]
  BY DEF PutInto
<1> HIDE DEF S, new, C
<1>6. /\ C \in Seq(S) /\ Len(C) = Len(tables)
      /\ \A j \in 1 .. Len(tables) : C[j] = IF j = Current THEN new ELSE tables[j]
  BY <1>4, <1>5, ExceptSeq
<1>7. IsSeq(C)
  BY <1>6, SeqIsSeq, Zenon
<1>8. ASSUME NEW t \in 1 .. Len(C)
      PROVE  IsSeq(C[t]) /\ \A i \in 1 .. Len(C[t]) : IsEntry(C[t][i], Z)
  <2>1. CASE t = Current
    BY <1>3, <1>6, <2>1
  <2>2. CASE t # Current
    BY <1>6, <2>2 DEF TablesOK
  <2> QED
    BY <2>1, <2>2
<1> QED
  BY <1>6, <1>7, <1>8 DEF TablesOK, C

\* What holds of 0, and of the next number with each number, holds of all.
LEMMA EveryNumber ==
  ASSUME NEW S, 0 \in S, \A n \in Nat : n \in S => n + 1 \in S
  PROVE  Nat \subseteq S
<1> SUFFICES ASSUME Nat \ S # {} PROVE FALSE
  OBVIOUS
<1>1. PICK m \in Nat \ S : \A n \in Nat \ S : << n, m >> \notin OpToRel(<, Nat)
  BY NatLessThanWellFounded, WFMin, Zenon
<1>2. m - 1 \in Nat /\ m - 1 < m /\ m = (m - 1) + 1
  <2>1. m \in Nat /\ m # 0
    OBVIOUS
  <2> QED
    BY <2>1
<1>3. << m - 1, m >> \in OpToRel(<, Nat)
  BY <1>1, <1>2 DEF OpToRel
<1>4. m - 1 \in S
  BY <1>1, <1>2, <1>3, Zenon
<1> QED
  BY <1>1, <1>2, <1>4

\* f holds the sizes of a type and of its elements, from the place n on, as calc_symbol_size
\* multiplies them up.
SizesFrom(f, type, n) ==
  f = [i \in n .. Len(type) |->
         CASE type[i].kind = "array"   -> 2 * f[i + 1]
           [] type[i].kind = "pointer" -> 4
           [] OTHER -> SizeOfBase(type[i])]

\* What a type ends with has a size,
LEMMA BaseHasSize ==
  ASSUME NEW T, SymbolsOK(symbols, T), NEW p, IsPart(p, symbols, T)
  PROVE  SizeOfBase(p) \in Nat
<1>1. \A s \in DOMAIN symbols : symbols[s].size \in Nat
  BY DEF SymbolsOK, IsSymbol, IsSeq
<1>2. CASE p.kind \in {"tag", "alias"}
  <2>1. symbols[p.sym].size \in Nat
    BY <1>1, <1>2 DEF IsPart, Tags
  <2> QED
    BY <1>2, <2>1 DEF SizeOfBase
<1>3. CASE p.kind = "int"
  BY <1>3 DEF SizeOfBase
<1>4. CASE p.kind = "char"
  BY <1>4 DEF SizeOfBase
<1>5. CASE p.kind \notin {"tag", "alias", "int", "char"}
  BY <1>5 DEF SizeOfBase
<1> QED
  BY <1>2, <1>3, <1>4, <1>5

\* There are such sizes,
LEMMA SizesExist ==
  ASSUME NEW type, NEW L \in Nat, Len(type) = L, type[L].kind # "array"
  PROVE  \E f : SizesFrom(f, type, 1)
<1> DEFINE Of1(f, i) == CASE type[i].kind = "array"   -> 2 * f[i + 1]
                          [] type[i].kind = "pointer" -> 4
                          [] OTHER -> SizeOfBase(type[i])
           S == {k \in Nat : k <= L => \E f : SizesFrom(f, type, L - k + 1)}
<1>1. 0 \in S
  <2> DEFINE f == [i \in L + 1 .. L |-> 0]
  <2>1. SizesFrom(f, type, L + 1)
    <3>1. \A i : i \notin L + 1 .. L
      OBVIOUS
    <3> QED
      BY <3>1 DEF SizesFrom
  <2>2. L - 0 + 1 = L + 1
    OBVIOUS
  <2> QED
    BY <2>1, <2>2
<1>2. ASSUME NEW k \in Nat, k \in S PROVE k + 1 \in S
  <2> SUFFICES ASSUME k + 1 <= L PROVE \E f : SizesFrom(f, type, L - (k + 1) + 1)
    OBVIOUS
  <2> DEFINE a == L - (k + 1) + 1
  <2>0. a \in 1 .. L /\ a + 1 = L - k + 1 /\ k <= L
    OBVIOUS
  <2>1. PICK f : SizesFrom(f, type, a + 1)
    BY <1>2, <2>0
  <2> HIDE DEF a
  <2> DEFINE g == [i \in a .. L |-> Of1(f, i)]
  <2>2. \A i \in a + 1 .. L : f[i] = Of1(f, i)
    BY <2>1 DEF SizesFrom
  <2> HIDE DEF Of1
  <2>3. \A i \in a + 1 .. L : g[i] = f[i]
    BY <2>0, <2>2
  <2>4. \A i \in a .. L : type[i].kind = "array" => i + 1 \in a + 1 .. L
    BY <2>0
  <2>5. \A i \in a .. L : type[i].kind = "array" => g[i + 1] = f[i + 1]
    BY <2>3, <2>4
  <2> HIDE DEF g
  <2>6. \A i \in a .. L : Of1(g, i) = Of1(f, i)
    BY <2>5 DEF Of1
  <2>7. g = [i \in a .. L |-> Of1(g, i)]
    BY <2>6 DEF g
  <2>8. SizesFrom(g, type, a)
    BY <2>7 DEF SizesFrom, Of1
  <2> QED
    BY <2>8 DEF a
<1>3. L \in S
  <2> HIDE DEF S
  <2> QED
    BY <1>1, <1>2, EveryNumber
<1>4. L - L + 1 = 1
  OBVIOUS
<1> QED
  BY <1>3, <1>4

\* of which the first is the one of the type,
LEMMA FullSizes ==
  ASSUME NEW T, SymbolsOK(symbols, T), NEW type, IsFull(type, symbols, T)
  PROVE  \E f : /\ SizeOf(type) = f[1] /\ SizesFrom(f, type, 1)
               /\ \A i \in 1 .. Len(type) : f[i] \in Nat
<1>1. PICK L : L = Len(type)
  OBVIOUS
<1>2. L \in Nat \ {0} /\ DOMAIN type = 1 .. L
  BY <1>1 DEF IsFull, IsParts, IsSeq
<1>3. type[L].kind # "array" /\ \A i \in 1 .. L : SizeOfBase(type[i]) \in Nat
  BY <1>1, BaseHasSize DEF IsFull, IsParts, BaseKinds
<1> DEFINE Sizes(f) ==
             f = [i \in DOMAIN type |->
                    CASE type[i].kind = "array"   -> 2 * f[i + 1]
                      [] type[i].kind = "pointer" -> 4
                      [] OTHER -> SizeOfBase(type[i])]
<1>4. PICK f : f = CHOOSE g : Sizes(g)
  OBVIOUS
<1>5. SizesFrom(f, type, 1)
  <2>1. \A g : SizesFrom(g, type, 1) <=> Sizes(g)
    BY <1>1, <1>2 DEF SizesFrom
  <2>2. \E g : SizesFrom(g, type, 1)
    BY <1>1, <1>2, <1>3, SizesExist
  <2> HIDE DEF Sizes
  <2> QED
    BY <1>4, <2>1, <2>2
<1>6. SizeOf(type) = f[1]
  <2>1. SizeOf(type) = (CHOOSE g : Sizes(g))[1]
    BY DEF SizeOf
  <2> HIDE DEF Sizes
  <2> QED
    BY <1>4, <2>1
<1> HIDE DEF Sizes
<1> DEFINE S == {k \in Nat : k < L => f[L - k] \in Nat}
<1>7. \A i \in 1 .. L : \/ f[i] = 4
                        \/ f[i] = SizeOfBase(type[i])
                        \/ type[i].kind = "array" /\ f[i] = 2 * f[i + 1]
  BY <1>1, <1>2, <1>5 DEF SizesFrom
<1>8. 0 \in S
  <2>1. f[L] \in Nat
    BY <1>2, <1>3, <1>7
  <2>2. L - 0 = L
    BY <1>2
  <2> QED
    BY <2>1, <2>2
<1>9. ASSUME NEW k \in Nat, k \in S PROVE k + 1 \in S
  <2> SUFFICES ASSUME k + 1 < L PROVE f[L - (k + 1)] \in Nat
    OBVIOUS
  <2>1. L - (k + 1) \in 1 .. L /\ L - (k + 1) + 1 = L - k /\ k < L
    BY <1>2
  <2>2. f[L - (k + 1) + 1] \in Nat
    BY <1>9, <2>1
  <2> QED
    BY <1>3, <1>7, <2>1, <2>2
<1>10. Nat \subseteq S
  <2> HIDE DEF S
  <2> QED
    BY <1>8, <1>9, EveryNumber
<1>11. \A i \in 1 .. L : L - i \in Nat /\ L - i < L /\ L - (L - i) = i
  BY <1>2
<1>12. \A i \in 1 .. L : f[i] \in Nat
  BY <1>10, <1>11
<1> QED
  BY <1>1, <1>5, <1>6, <1>12

\* so that a declared type has one.
LEMMA FullHasSize ==
  ASSUME NEW T, SymbolsOK(symbols, T), NEW type, IsFull(type, symbols, T)
  PROVE  SizeOf(type) \in Nat
<1>1. 1 \in 1 .. Len(type)
  BY DEF IsFull, IsParts, IsSeq
<1> QED
  BY <1>1, FullSizes

\* f holds what the fields of a table take up together, for each set of them that is in D,
\* if Y are the symbols.
Sums(Y, f, table, D) ==
  f = [s \in D |->
         IF s = {} THEN 0
         ELSE LET x == CHOOSE x \in s : TRUE IN Y[table[x].sym].size + f[s \ {x}]]

\* The sets of at most n fields.
Small(S, n) == {s \in SUBSET S : Cardinality(s) <= n}

\* A set without one of its elements is smaller.
LEMMA SmallerSets ==
  ASSUME NEW S, IsFiniteSet(S), NEW n \in Nat, NEW s \in Small(S, n + 1), s # {}, NEW x, x = CHOOSE y \in s : TRUE
  PROVE  x \in s /\ x \in S /\ s \ {x} \in Small(S, n) /\ s \ {x} \in Small(S, n + 1)
<1>1. s \in SUBSET S /\ x \in s /\ x \in S /\ s \ {x} \in SUBSET S
  BY DEF Small
<1>2. IsFiniteSet(s) /\ Cardinality(s) \in Nat /\ Cardinality(s) <= n + 1
  BY <1>1, FS_Subset, FS_CardinalityType DEF Small
<1>3. Cardinality(s \ {x}) = Cardinality(s) - 1
  BY <1>1, <1>2, FS_RemoveElement
<1> QED
  BY <1>1, <1>2, <1>3 DEF Small

\* There are such sums,
LEMMA SumsExist ==
  ASSUME NEW Y, NEW table, NEW S, IsFiniteSet(S)
  PROVE  \E f : Sums(Y, f, table, SUBSET S)
<1> DEFINE With(f, s) == IF s = {} THEN 0
                         ELSE LET x == CHOOSE x \in s : TRUE IN Y[table[x].sym].size + f[s \ {x}]
           N == {n \in Nat : \E f : Sums(Y, f, table, Small(S, n))}
<1>1. 0 \in N
  <2> DEFINE f == [s \in Small(S, 0) |-> 0]
  <2>1. \A s \in Small(S, 0) : s = {}
    <3> SUFFICES ASSUME NEW s \in Small(S, 0) PROVE s = {}
      OBVIOUS
    <3>1. s \in SUBSET S /\ Cardinality(s) <= 0
      BY DEF Small
    <3>2. IsFiniteSet(s) /\ Cardinality(s) \in Nat
      BY <3>1, FS_Subset, FS_CardinalityType
    <3>3. Cardinality(s) = 0
      BY <3>1, <3>2
    <3> QED
      BY <3>2, <3>3, FS_EmptySet
  <2>2. Sums(Y, f, table, Small(S, 0))
    BY <2>1 DEF Sums
  <2> QED
    BY <2>2
<1>2. ASSUME NEW n \in Nat, n \in N PROVE n + 1 \in N
  <2>1. PICK f : Sums(Y, f, table, Small(S, n))
    BY <1>2
  <2> DEFINE g == [s \in Small(S, n + 1) |-> With(f, s)]
  <2>2. \A s \in Small(S, n) : f[s] = With(f, s)
    BY <2>1 DEF Sums
  <2>3. ASSUME NEW s \in Small(S, n + 1), s # {}
        PROVE  g[s \ {CHOOSE x \in s : TRUE}] = f[s \ {CHOOSE x \in s : TRUE}]
    <3>1. PICK x : x = CHOOSE y \in s : TRUE
      OBVIOUS
    <3> HIDE DEF With
    <3>2. s \ {x} \in Small(S, n) /\ s \ {x} \in Small(S, n + 1)
      BY <2>3, <3>1, SmallerSets
    <3> QED
      BY <2>2, <3>1, <3>2
  <2> HIDE DEF g
  <2>4. \A s \in Small(S, n + 1) : With(g, s) = With(f, s)
    BY <2>3
  <2> HIDE DEF With
  <2>5. g = [s \in Small(S, n + 1) |-> With(g, s)]
    BY <2>4 DEF g
  <2>6. Sums(Y, g, table, Small(S, n + 1))
    BY <2>5 DEF Sums, With
  <2> QED
    BY <2>6
<1> HIDE DEF With, N
<1>3. Cardinality(S) \in N
  BY <1>1, <1>2, EveryNumber, FS_CardinalityType
<1>4. Small(S, Cardinality(S)) = SUBSET S
  BY FS_Subset DEF Small
<1> QED
  BY <1>3, <1>4 DEF N

\* and they are numbers.
LEMMA SumsAreNumbers ==
  ASSUME NEW Y, NEW table, NEW S, IsFiniteSet(S), \A j \in S : Y[table[j].sym].size \in Nat,
         NEW f, Sums(Y, f, table, SUBSET S)
  PROVE  f[S] \in Nat
<1> DEFINE N == {n \in Nat : \A s \in Small(S, n) : f[s] \in Nat}
<1>1. \A s \in SUBSET S : f[s] = IF s = {} THEN 0
             ELSE LET x == CHOOSE x \in s : TRUE IN Y[table[x].sym].size + f[s \ {x}]
  BY DEF Sums
<1> DEFINE No == {}
<1>0. No \in SUBSET S /\ f[No] = 0
  <2>1. No \in SUBSET S /\ No = {}
    OBVIOUS
  <2> HIDE DEF No
  <2> QED
    BY <1>1, <2>1
<1> HIDE DEF No
<1>2. 0 \in N
  <2> SUFFICES ASSUME NEW s \in Small(S, 0) PROVE f[s] \in Nat
    OBVIOUS
  <2>1. s \in SUBSET S /\ Cardinality(s) <= 0
    BY DEF Small
  <2>2. IsFiniteSet(s) /\ Cardinality(s) \in Nat
    BY <2>1, FS_Subset, FS_CardinalityType
  <2>3. Cardinality(s) = 0
    BY <2>1, <2>2
  <2>4. s = No
    BY <2>2, <2>3, FS_EmptySet DEF No
  <2> QED
    BY <1>0, <2>4
<1>3. ASSUME NEW n \in Nat, n \in N PROVE n + 1 \in N
  <2> SUFFICES ASSUME NEW s \in Small(S, n + 1), s # {} PROVE f[s] \in Nat
    <3>1. \A s \in Small(S, n + 1) : s = {} => f[s] \in Nat
      BY <1>0 DEF No
    <3> QED
      BY <3>1
  <2>1. PICK x : x = CHOOSE y \in s : TRUE
    OBVIOUS
  <2>2. x \in S /\ s \ {x} \in Small(S, n)
    BY <2>1, SmallerSets
  <2>3. f[s \ {x}] \in Nat
    BY <1>3, <2>2
  <2>4. f[s] = Y[table[x].sym].size + f[s \ {x}]
    BY <1>1, <2>1 DEF Small
  <2> QED
    BY <2>2, <2>3, <2>4
<1> HIDE DEF N
<1>4. Cardinality(S) \in N
  BY <1>2, <1>3, EveryNumber, FS_CardinalityType
<1>5. S \in Small(S, Cardinality(S))
  BY FS_CardinalityType DEF Small
<1> QED
  BY <1>4, <1>5 DEF N

\* What the fields before one take up.
LEMMA FieldsHaveSize ==
  ASSUME NEW table, IsSeq(table), NEW i, \A j \in Fields(table) : symbols[table[j].sym].size \in Nat
  PROVE  SizesBefore(table, i) \in Nat
<1> DEFINE S == {j \in Fields(table) : j < i}
<1>1. IsFiniteSet(S)
  <2>1. DOMAIN table = 1 .. Len(table) /\ Len(table) \in Nat
    BY DEF IsSeq
  <2>2. S \in SUBSET (1 .. Len(table))
    BY <2>1 DEF Fields
  <2> HIDE DEF S
  <2>3. IsFiniteSet(1 .. Len(table))
    BY <2>1, FS_Interval
  <2> QED
    BY <2>2, <2>3, FS_Subset
<1>2. \A j \in S : symbols[table[j].sym].size \in Nat
  OBVIOUS
<1>3. SizesBefore(table, i) = (CHOOSE f : Sums(symbols, f, table, SUBSET S))[S]
  BY DEF SizesBefore, MapThenSumSet, MapThenFoldSet, Sums
<1> HIDE DEF S
<1>4. PICK f : f = CHOOSE g : Sums(symbols, g, table, SUBSET S)
  OBVIOUS
<1>5. Sums(symbols, f, table, SUBSET S)
  BY <1>1, <1>4, SumsExist
<1> QED
  BY <1>1, <1>2, <1>3, <1>4, <1>5, SumsAreNumbers

\* The greatest of the sizes of a union and its fields.
LEMMA WidestIsNumber ==
  ASSUME NEW table, IsSeq(table), NEW size \in Nat,
         \A i \in 1 .. Len(table) : symbols[table[i].sym].size \in Nat
  PROVE  /\ Max({size} \cup {symbols[table[i].sym].size : i \in Fields(table)}) \in Nat
         /\ \A i \in Fields(table) :
              symbols[table[i].sym].size
                <= Max({size} \cup {symbols[table[j].sym].size : j \in Fields(table)})
<1> DEFINE w(i) == symbols[table[i].sym].size
           N == {n \in Nat : \E b \in Nat : size <= b /\ \A i \in 1 .. Len(table) : i <= n => w(i) <= b}
<1>0. DOMAIN table = 1 .. Len(table) /\ Len(table) \in Nat
  BY DEF IsSeq
<1>1. 0 \in N
  BY <1>0
<1>2. ASSUME NEW n \in Nat, n \in N PROVE n + 1 \in N
  <2>1. PICK b \in Nat : size <= b /\ \A i \in 1 .. Len(table) : i <= n => w(i) <= b
    BY <1>2
  <2>2. PICK c \in Nat : b <= c /\ (n + 1 \in 1 .. Len(table) => w(n + 1) <= c)
    <3>1. CASE n + 1 \in 1 .. Len(table)
      <4>1. w(n + 1) \in Nat
        BY <3>1
      <4> HIDE DEF w
      <4>2. b <= b + w(n + 1) /\ w(n + 1) <= b + w(n + 1) /\ b + w(n + 1) \in Nat
        BY <4>1
      <4> QED
        BY <4>2
    <3>2. CASE n + 1 \notin 1 .. Len(table)
      BY <3>2
    <3> QED
      BY <3>1, <3>2
  <2>3. \A i \in 1 .. Len(table) : w(i) \in Nat
    OBVIOUS
  <2> HIDE DEF w
  <2>4. \A i \in 1 .. Len(table) : i <= n + 1 => i <= n \/ i = n + 1
    BY <1>0
  <2>5. size <= c /\ \A i \in 1 .. Len(table) : i <= n + 1 => w(i) <= c
    BY <2>1, <2>2, <2>3, <2>4
  <2> QED
    BY <2>5
<1>3. Len(table) \in N
  <2> HIDE DEF N
  <2> QED
    BY <1>0, <1>1, <1>2, EveryNumber
<1>4. PICK b \in Nat : size <= b /\ \A i \in 1 .. Len(table) : i <= Len(table) => w(i) <= b
  BY <1>3
<1> DEFINE D == {size} \cup {w(i) : i \in Fields(table)}
<1>5. \A i \in 1 .. Len(table) : w(i) \in Nat /\ w(i) <= b
  BY <1>0, <1>4
<1>6. Fields(table) \subseteq 1 .. Len(table)
  BY <1>0 DEF Fields
<1>7. D \in SUBSET (0 .. b) /\ D # {}
  <2> HIDE DEF w
  <2>1. size \in 0 .. b /\ \A i \in 1 .. Len(table) : w(i) \in 0 .. b
    BY <1>4, <1>5
  <2> QED
    BY <1>6, <2>1
<1>8. Max(D) \in D
  <2> HIDE DEF D
  <2> QED
    BY <1>7, MaxIsGreatest
<1>9. Max(D) \in Nat
  <2> HIDE DEF D
  <2>1. PICK m : m = Max(D)
    OBVIOUS
  <2>2. m \in 0 .. b
    BY <1>7, <1>8, <2>1
  <2> QED
    BY <2>1, <2>2
<1>10. \A k \in D : k <= Max(D)
  <2> HIDE DEF D
  <2> QED
    BY <1>7, MaxIsGreatest
<1> QED
  BY <1>9, <1>10

\* Functions are neither made nor given other parameters.
SameFunctions(Y, Z) ==
  /\ DOMAIN Z = DOMAIN Y
  /\ \A f \in DOMAIN Y : Z[f].kind = Y[f].kind /\ (Y[f].kind = "function" => Z[f].symtable = Y[f].symtable)

\* A struct or union whose fields are laid out: the sizes are numbers, nothing changes its kind.
LEMMA LaidOutKeeps ==
  ASSUME NEW T \in Nat, SymbolsOK(symbols, T), T = Len(tables), TablesOK(tables, symbols),
         NEW s \in DOMAIN symbols, symbols[s].symtable # 0
  PROVE  SymbolsOK(LaidOut(s), T) /\ Grown(symbols, LaidOut(s)) /\ SameFunctions(symbols, LaidOut(s))
<1> DEFINE Z == LaidOut(s)
<1>1. PICK table : table = tables[symbols[s].symtable]
  OBVIOUS
<1>2. /\ DOMAIN symbols = 1 .. Len(symbols)
      /\ \A n \in DOMAIN symbols : IsSymbol(symbols[n], symbols, T)
  <2>1. IsSeq(symbols) /\ \A n \in 1 .. Len(symbols) : IsSymbol(symbols[n], symbols, T)
    BY DEF SymbolsOK
  <2>2. DOMAIN symbols = 1 .. Len(symbols)
    BY <2>1 DEF IsSeq
  <2> QED
    BY <2>1, <2>2
<1>3. symbols[s].symtable \in 1 .. Len(tables)
  BY <1>2 DEF IsSymbol
<1>4. IsSeq(table) /\ \A i \in 1 .. Len(table) : table[i].sym \in DOMAIN symbols
  BY <1>1, <1>3 DEF TablesOK, IsEntry
<1>5. \A i \in 1 .. Len(table) : symbols[table[i].sym].size \in Nat
  BY <1>2, <1>4 DEF IsSymbol
<1>6. Fields(table) \subseteq 1 .. Len(table)
  BY <1>4 DEF Fields, IsSeq
<1>7. SizesBefore(table, Len(table) + 1) \in Nat
  BY <1>4, <1>5, <1>6, FieldsHaveSize
<1>8. symbols[s].size \in Nat
  BY <1>2 DEF IsSymbol
<1>9. Max({symbols[s].size} \cup {symbols[table[i].sym].size : i \in Fields(table)}) \in Nat
  BY <1>4, <1>5, <1>8, WidestIsNumber
<1> DEFINE Keeps(n) == /\ DOMAIN Z[n] = SymbolFields
                       /\ Z[n].kind = symbols[n].kind /\ Z[n].type = symbols[n].type /\ Z[n].size \in Nat
                       /\ Z[n].symtable = symbols[n].symtable
<1>10. \A n \in DOMAIN symbols : DOMAIN symbols[n] = SymbolFields /\ symbols[n].size \in Nat
  BY <1>2 DEF IsSymbol
<1>11. IsSeq(symbols)
  BY DEF SymbolsOK
<1>12. DOMAIN Z = DOMAIN symbols /\ \A n \in DOMAIN symbols : Keeps(n)
  <2>1. CASE symbols[s].kind = "struct"
    <3>1. Z = [n \in DOMAIN symbols |->
             IF n = s
             THEN [symbols[n] EXCEPT !.size = @ + SizesBefore(table, Len(table) + 1), !.complete = TRUE]
             ELSE IF \E i \in Fields(table) : table[i].sym = n
             THEN [symbols[n] EXCEPT !.offset = symbols[s].size
                                       + SizesBefore(table, CHOOSE i \in Fields(table) : table[i].sym = n)]
             ELSE symbols[n]]
      BY <1>1, <2>1 DEF LaidOut
    <3> HIDE DEF Z
    <3>2. DOMAIN Z = DOMAIN symbols
      BY <3>1
    <3>3. ASSUME NEW n \in DOMAIN symbols PROVE Keeps(n)
      <4>1. CASE n = s
        <5>1. Z[n] = [symbols[n] EXCEPT !.size = @ + SizesBefore(table, Len(table) + 1), !.complete = TRUE]
          BY <3>1, <4>1
        <5> QED
          BY <5>1, <1>7, <1>10 DEF SymbolFields
      <4>2. CASE n # s /\ \E i \in Fields(table) : table[i].sym = n
        <5>1. PICK k : k = symbols[s].size + SizesBefore(table, CHOOSE i \in Fields(table) : table[i].sym = n)
          OBVIOUS
        <5>2. Z[n] = [symbols[n] EXCEPT !.offset = k]
          BY <3>1, <4>2, <5>1
        <5> QED
          BY <5>2, <1>10 DEF SymbolFields
      <4>3. CASE n # s /\ ~ \E i \in Fields(table) : table[i].sym = n
        <5>1. Z[n] = symbols[n]
          BY <3>1, <4>3
        <5> QED
          BY <5>1, <1>10
      <4> QED
        BY <4>1, <4>2, <4>3
    <3> QED
      BY <3>2, <3>3
  <2>2. CASE symbols[s].kind # "struct"
    <3>1. PICK m : m = Max({symbols[s].size} \cup {symbols[table[i].sym].size : i \in Fields(table)})
      OBVIOUS
    <3>2. m \in Nat
      BY <1>9, <3>1
    <3>3. Z = [symbols EXCEPT ![s] = [@ EXCEPT !.size = m, !.complete = TRUE]]
      BY <1>1, <2>2, <3>1 DEF LaidOut
    <3> HIDE DEF Z
    <3>4. DOMAIN Z = DOMAIN symbols /\ Z[s] = [symbols[s] EXCEPT !.size = m, !.complete = TRUE]
      BY <3>3
    <3>5. ASSUME NEW n \in DOMAIN symbols PROVE Keeps(n)
      <4>1. CASE n = s
        BY <1>10, <3>2, <3>4, <4>1 DEF SymbolFields
      <4>2. CASE n # s
        <5>1. Z[n] = symbols[n]
          BY <3>3, <4>2
        <5> QED
          BY <1>10, <5>1
      <4> QED
        BY <4>1, <4>2
    <3> QED
      BY <3>4, <3>5
  <2> QED
    BY <2>1, <2>2
<1>13. \A n \in DOMAIN symbols : Z[n].symtable \in 0 .. T
  BY <1>2, <1>12 DEF IsSymbol
<1>14. SameFunctions(symbols, Z)
  BY <1>12 DEF SameFunctions
<1>15. IsSeq(Z)
  <2> HIDE DEF Z, Keeps
  <2>1. Len(symbols) \in Nat
    BY <1>11 DEF IsSeq
  <2>2. DOMAIN Z = 1 .. Len(symbols)
    BY <1>2, <1>12
  <2>3. Z = [n \in 1 .. Len(symbols) |-> Z[n]]
    <3>1. Z = [n \in DOMAIN Z |-> Z[n]]
      <4>1. CASE symbols[s].kind = "struct"
        BY <4>1 DEF Z, LaidOut
      <4>2. CASE symbols[s].kind # "struct"
        BY <4>2 DEF Z, LaidOut
      <4> QED
        BY <4>1, <4>2
    <3> QED
      BY <2>2, <3>1
  <2>4. Z \in Seq({Z[n] : n \in 1 .. Len(symbols)}) /\ Len(Z) = Len(symbols)
    BY <2>1, <2>3
  <2> QED
    BY <2>4, SeqIsSeq, Zenon
<1> HIDE DEF Z
<1>16. SymbolsOK(Z, T) /\ Grown(symbols, Z)
  BY <1>12, <1>13, <1>15, OneSymbolChanged
<1> QED
  BY <1>16, <1>14 DEF Z

(* What is put on the stack *)

\* b may be put on what a returns to, and a on b.
Stands(b, a)  == Gives(a) \in {"nothing", Gives(b)}
Follows(b, a) == Wants(b) \in {"nothing", Gives(a)}

\* The items r, of which a is the first, may stand where the call x was.
Replaces(r, a, x, Y, T) ==
  IsSeq(r) /\ \A s : Staffed(s, Y, T) /\ Fits(x, s) =>
                Staffed(r \o s, Y, T) /\ r \o s # << >> /\ Head(r \o s) = a

\* One item instead of the call,
LEMMA ReplacesOne ==
  ASSUME NEW Y, NEW T, NEW x, NEW a, IsItem(a, Y, T), Stands(a, x)
  PROVE  Replaces(<< a >>, a, x, Y, T)
<1>1. ASSUME NEW s, Fits(x, s) PROVE Fits(a, s)
  BY <1>1 DEF Fits, Stands
<1> QED
  BY <1>1, One, PushStaff DEF Replaces

\* and one in front of others.
LEMMA ReplacesMore ==
  ASSUME NEW Y, NEW T, NEW x, NEW r, NEW b, Replaces(r, b, x, Y, T),
         NEW a, IsItem(a, Y, T), Follows(b, a)
  PROVE  Replaces(<< a >> \o r, a, x, Y, T)
<1>1. IsSeq(r)
  BY DEF Replaces
<1>2. IsSeq(<< a >> \o r)
  BY <1>1, One, Joined
<1>3. ASSUME NEW s, Staffed(s, Y, T), Fits(x, s)
      PROVE  Staffed((<< a >> \o r) \o s, Y, T) /\ (<< a >> \o r) \o s # << >>
             /\ Head((<< a >> \o r) \o s) = a
  <2> DEFINE u == r \o s
  <2>1. Staffed(u, Y, T) /\ u # << >> /\ Head(u) = b
    BY <1>3 DEF Replaces
  <2>2. (<< a >> \o r) \o s = << a >> \o u
    BY <1>1, <1>3, One, JoinedThree DEF Staffed
  <2> HIDE DEF u
  <2>3. Fits(a, u)
    BY <2>1 DEF Fits, Follows
  <2> QED
    BY <2>1, <2>2, <2>3, PushStaff
<1> QED
  BY <1>2, <1>3 DEF Replaces

\* The short lists the actions put on the stack.
LEMMA ReplacesTuples ==
  ASSUME NEW Y, NEW T, NEW x
  PROVE  /\ \A a, b : IsItem(a, Y, T) /\ IsItem(b, Y, T) /\ Follows(b, a) /\ Stands(b, x)
                        => Replaces(<< a, b >>, a, x, Y, T)
         /\ \A a, b, c : /\ IsItem(a, Y, T) /\ IsItem(b, Y, T) /\ IsItem(c, Y, T)
                         /\ Follows(b, a) /\ Follows(c, b) /\ Stands(c, x)
                        => Replaces(<< a, b, c >>, a, x, Y, T)
<1>1. ASSUME NEW a, NEW b, IsItem(a, Y, T), IsItem(b, Y, T), Follows(b, a), Stands(b, x)
      PROVE  Replaces(<< a, b >>, a, x, Y, T)
  <2>1. Replaces(<< b >>, b, x, Y, T)
    BY <1>1, ReplacesOne
  <2>2. Replaces(<< a >> \o << b >>, a, x, Y, T)
    BY <1>1, <2>1, ReplacesMore
  <2>3. << a >> \o << b >> = << a, b >>
    BY TupleConcat
  <2> QED
    BY <2>2, <2>3, Zenon
<1>2. ASSUME NEW a, NEW b, NEW c, IsItem(a, Y, T), IsItem(b, Y, T), IsItem(c, Y, T),
             Follows(b, a), Follows(c, b), Stands(c, x)
      PROVE  Replaces(<< a, b, c >>, a, x, Y, T)
  <2>1. Replaces(<< b, c >>, b, x, Y, T)
    BY <1>1, <1>2
  <2>2. Replaces(<< a >> \o << b, c >>, a, x, Y, T)
    BY <1>2, <2>1, ReplacesMore
  <2>3. << a >> \o << b, c >> = << a, b, c >>
    BY TupleConcat
  <2> QED
    BY <2>2, <2>3, Zenon
<1> QED
  BY <1>1, <1>2

----------------------------------------------------------------------------
\* The inductive invariant.
Steady ==
  /\ cur_decl_type \in DeclTypes /\ function_locals_size \in Nat
  /\ SymbolsOK(symbols, Len(tables)) /\ TablesOK(tables, symbols) /\ ScopesLead

Manned ==
  /\ status \in {"parsing", "done", "failed", "crashed"}
  /\ (status = "parsing") = (stack # << >>)
  /\ Staffed(stack, symbols, Len(tables))
  /\ stack # << >> => Serves(ret.type, Wants(Head(stack)), symbols, Len(tables))

TypesInv == Steady /\ Manned

\* No symbol and no table is taken away.
Bigger ==
  /\ Grown(symbols, symbols') /\ Len(tables) \in Nat /\ Len(tables') \in Nat
  /\ Len(tables) <= Len(tables')

\* A call goes on, or is replaced by what it calls.
LEMMA CallStep ==
  ASSUME TypesInv, status = "parsing", stack # << >>, Steady', Bigger,
         NEW items, Continue(items), NEW a, Replaces(items, a, todo, symbols', Len(tables')),
         Serves(ret'.type, Wants(a), symbols', Len(tables'))
  PROVE  TypesInv'
<1>1. Staffed(Tail(stack), symbols, Len(tables)) /\ Fits(todo, Tail(stack))
  BY PopStaff DEF TypesInv, Manned, todo
<1>2. Staffed(Tail(stack), symbols', Len(tables'))
  BY <1>1, StaffGrows DEF Bigger
<1>3. /\ Staffed(stack', symbols', Len(tables')) /\ stack' # << >> /\ Head(stack') = a
      /\ status' = "parsing"
  BY <1>1, <1>2 DEF Replaces, Continue
<1> QED
  BY <1>3 DEF TypesInv, Manned

\* It returns.
LEMMA ReturnStep ==
  ASSUME TypesInv, ScopesInv, status = "parsing", stack # << >>, todo.do # "unit", Steady', Bigger,
         Continue(<< >>), Serves(ret'.type, Gives(todo), symbols', Len(tables'))
  PROVE  TypesInv'
<1> DEFINE t == Tail(stack)
<1>1. Staffed(t, symbols, Len(tables)) /\ Fits(todo, t)
  BY PopStaff DEF TypesInv, Manned, todo
<1>2. t # << >>
  BY HeadHasDo DEF todo
<1>3. stack' = t /\ status' = "parsing"
  <2>1. t \in Seq({t[n] : n \in 1 .. Len(t)})
    BY <1>1 DEF Staffed, IsSeq
  <2> HIDE DEF t
  <2>2. << >> \o t = t
    BY <2>1
  <2> QED
    BY <2>2 DEF Continue, t
<1> HIDE DEF t
<1>4. Staffed(t, symbols', Len(tables'))
  BY <1>1, StaffGrows DEF Bigger
<1>5. Serves(ret'.type, Wants(Head(t)), symbols', Len(tables'))
  BY <1>1, <1>2 DEF Fits, Serves
<1> QED
  BY <1>2, <1>3, <1>4, <1>5 DEF TypesInv, Manned

\* Where symbols and tables stay what they are.
LEMMA SameSteady ==
  ASSUME TypesInv, UNCHANGED << symtables, tables, symbols >>,
         cur_decl_type' \in DeclTypes, function_locals_size' \in Nat
  PROVE  Steady' /\ Bigger
<1>1. Len(tables) \in Nat
  BY DEF TypesInv, Steady, TablesOK, IsSeq
<1>2. Grown(symbols, symbols') /\ Len(tables') = Len(tables)
  BY DEF Grown
<1>3. ScopesLead'
  BY DEF TypesInv, Steady, ScopesLead
<1>4. SymbolsOK(symbols', Len(tables')) /\ TablesOK(tables', symbols')
  BY DEF TypesInv, Steady
<1> QED
  BY <1>1, <1>2, <1>3, <1>4 DEF Bigger, Steady

\* A failure drops calls, up to one that reads what any declarator leaves.
LEMMA FailTypes ==
  ASSUME TypesInv, status = "parsing", Fail
  PROVE  TypesInv'
<1> DEFINE deaf == {n \in DOMAIN stack : ~ Heeds(stack[n])}
<1>1. Steady' /\ Bigger
  BY SameSteady DEF Fail, scopes, TypesInv, Steady
<1>2. DOMAIN stack = 1 .. Len(stack) /\ Len(stack) \in Nat
  BY DEF TypesInv, Manned, Staffed, IsSeq
<1>3. CASE deaf = {}
  <2>1. stack' = << >> /\ status' = "failed"
    BY <1>3 DEF Fail
  <2>2. Staffed(<< >>, symbols', Len(tables'))
    <3>1. \A n \in 1 .. Len(<< >>) : FALSE
      BY None
    <3>2. \A n \in 1 .. Len(<< >>) - 1 : FALSE
      BY None
    <3> QED
      BY <3>1, <3>2, None DEF Staffed
  <2> QED
    BY <1>1, <2>1, <2>2 DEF TypesInv, Manned
<1>4. CASE deaf # {}
  <2>1. Min(deaf) \in deaf
    <3>1. deaf \in SUBSET Nat
      BY <1>2
    <3> HIDE DEF deaf
    <3> QED
      BY <1>4, <3>1, MinIsLeast
  <2>2. PICK m \in 1 .. Len(stack) : m = Min(deaf) /\ ~ Heeds(stack[m])
    BY <1>2, <2>1
  <2>3. stack' = SubSeq(stack, m, Len(stack)) /\ status' = status
    BY <1>4, <2>2 DEF Fail
  <2>4. /\ Staffed(stack', symbols, Len(tables)) /\ stack' # << >> /\ Head(stack') = stack[m]
    BY <2>2, <2>3, DropStaff DEF TypesInv, Manned
  <2>5. Staffed(stack', symbols', Len(tables'))
    BY <1>1, <2>4, StaffGrows DEF Bigger
  <2>6. Wants(stack[m]) \in {"loose", "nothing"}
    BY <2>2 DEF Heeds, Wants
  <2>7. ret'.type = << Base("null") >>
    BY DEF Fail
  <2>8. IsLoose(ret'.type, symbols', Len(tables'))
    <3>1. << >> \o << Base("null") >> = << Base("null") >>
      OBVIOUS
    <3> QED
      BY <2>7, <3>1, IsEmpty DEF IsLoose
  <2>9. Serves(ret'.type, Wants(stack[m]), symbols', Len(tables'))
    BY <2>6, <2>8 DEF Serves
  <2> QED
    BY <1>1, <2>3, <2>4, <2>5, <2>9 DEF TypesInv, Manned
<1> QED
  BY <1>3, <1>4

\* The parser ends.
LEMMA EndTypes ==
  ASSUME TypesInv, stack' = << >>, status' \in {"done", "crashed"},
         UNCHANGED << symtables, tables, symbols, cur_decl_type, function_locals_size >>
  PROVE  TypesInv'
<1>1. Steady'
  BY SameSteady DEF TypesInv, Steady
<1>2. Staffed(<< >>, symbols', Len(tables'))
  <2>1. \A n \in 1 .. Len(<< >>) : FALSE
    BY None
  <2>2. \A n \in 1 .. Len(<< >>) - 1 : FALSE
    BY None
  <2> QED
    BY <2>1, <2>2, None DEF Staffed
<1> QED
  BY <1>1, <1>2 DEF TypesInv, Manned

\* A call that takes a token or not and goes on with items,
LEMMA GoesOn ==
  ASSUME TypesInv, status = "parsing", stack # << >>, NEW items, Taking(items) \/ Leaving(items),
         NEW a, Replaces(items, a, todo, symbols, Len(tables)),
         Serves(ret.type, Wants(a), symbols, Len(tables))
  PROVE  TypesInv'
<1>1. /\ UNCHANGED << symtables, tables, symbols, cur_decl_type, function_locals_size, ret >>
      /\ Continue(items)
  BY DEF Taking, Leaving, Kept
<1>2. Steady' /\ Bigger
  BY <1>1, SameSteady DEF TypesInv, Steady
<1>3. Replaces(items, a, todo, symbols', Len(tables')) /\ Serves(ret'.type, Wants(a), symbols', Len(tables'))
  BY <1>1
<1> QED
  BY <1>1, <1>2, <1>3, CallStep

\* or is done,
LEMMA IsDone ==
  ASSUME TypesInv, ScopesInv, status = "parsing", stack # << >>, todo.do # "unit",
         Taking(<< >>) \/ Leaving(<< >>), Serves(ret.type, Gives(todo), symbols, Len(tables))
  PROVE  TypesInv'
<1>1. /\ UNCHANGED << symtables, tables, symbols, cur_decl_type, function_locals_size, ret >>
      /\ Continue(<< >>)
  BY DEF Taking, Leaving, Kept
<1>2. Steady' /\ Bigger
  BY <1>1, SameSteady DEF TypesInv, Steady
<1>3. Serves(ret'.type, Gives(todo), symbols', Len(tables'))
  BY <1>1
<1> QED
  BY <1>1, <1>2, <1>3, ReturnStep

\* or returns a type.
LEMMA ReturnsType ==
  ASSUME TypesInv, ScopesInv, status = "parsing", stack # << >>, todo.do # "unit",
         NEW type, NEW name, ReturnTaking(type, name) \/ Return(type, name),
         Serves(type, Gives(todo), symbols, Len(tables))
  PROVE  TypesInv'
<1>1. /\ UNCHANGED << symtables, tables, symbols, cur_decl_type, function_locals_size >>
      /\ Continue(<< >>) /\ ret'.type = type
  BY DEF ReturnTaking, Return, Returning, Kept
<1>2. Steady' /\ Bigger
  BY <1>1, SameSteady DEF TypesInv, Steady
<1>3. Serves(ret'.type, Gives(todo), symbols', Len(tables'))
  BY <1>1
<1> QED
  BY <1>1, <1>2, <1>3, ReturnStep

\* A NULL is followed.
LEMMA CrashTypes == ASSUME TypesInv, Crash PROVE TypesInv'
  BY EndTypes DEF Crash, scopes

\* What is asked of a call that waits for no type.
LEMMA NothingServes == \A t, Y, T : Serves(t, "nothing", Y, T)
  BY DEF Serves

\* The items that are but a name, and a token that is expected.
LEMMA PlainItems ==
  ASSUME NEW Y, NEW T
  PROVE  /\ \A d \in {"declaration", "stmt", "expr", "local", "else"} :
              IsItem(Item(d), Y, T) /\ Wants(Item(d)) = "nothing" /\ Gives(Item(d)) = "nothing"
         /\ IsItem(Item("specifier"), Y, T) /\ Wants(Item("specifier")) = "nothing"
         /\ Gives(Item("specifier")) = "base"
         /\ IsItem(Item("declarator"), Y, T) /\ Wants(Item("declarator")) = "base"
         /\ Gives(Item("declarator")) = "full"
         /\ \A t : IsItem(Expect(t), Y, T) /\ Wants(Expect(t)) = Gives(Expect(t))
         /\ \A t : t # ")" => Wants(Expect(t)) = "nothing"
         /\ Wants(Expect(")")) = "loose"
         /\ \A t : IsItem(Accept(t), Y, T) /\ Wants(Accept(t)) = "nothing" /\ Gives(Accept(t)) = "nothing"
<1>1. ASSUME NEW d \in {"declaration", "stmt", "expr", "local", "else", "specifier", "declarator"}
      PROVE  IsItem(Item(d), Y, T)
  BY DEF IsItem, HasDo, Item, Inside, InParameters, InDeclarator
<1>2. ASSUME NEW d \in {"declaration", "stmt", "expr", "local", "else", "specifier", "declarator"}
      PROVE  /\ Wants(Item(d)) = IF d = "declarator" THEN "base" ELSE "nothing"
             /\ Gives(Item(d)) = IF d = "declarator" THEN "full" ELSE IF d = "specifier" THEN "base" ELSE "nothing"
  BY DEF Wants, Gives, Item, Inside, InParameters, InDeclarator
<1>3. ASSUME NEW t
      PROVE  /\ IsItem(Expect(t), Y, T)
             /\ Wants(Expect(t)) = (IF t = ")" THEN "loose" ELSE "nothing")
             /\ Gives(Expect(t)) = (IF t = ")" THEN "loose" ELSE "nothing")
  <2>1. IsItem(Expect(t), Y, T)
    BY DEF IsItem, HasDo, Expect, Inside, InParameters, InDeclarator
  <2>2. ({t} = {")"}) <=> (t = ")")
    OBVIOUS
  <2>3. Expect(t).do = "expect" /\ Expect(t).types = {t}
    BY DEF Expect
  <2> QED
    BY <2>1, <2>2, <2>3 DEF Wants, Gives, Inside, InParameters, InDeclarator
<1>4. ASSUME NEW t
      PROVE  IsItem(Accept(t), Y, T) /\ Wants(Accept(t)) = "nothing" /\ Gives(Accept(t)) = "nothing"
  BY DEF IsItem, HasDo, Accept, Wants, Gives, Inside, InParameters, InDeclarator
<1> QED
  BY <1>1, <1>2, <1>3, <1>4

\* The call at the head.
LEMMA HeadStaff ==
  ASSUME TypesInv, stack # << >>
  PROVE  /\ IsItem(todo, symbols, Len(tables))
         /\ Serves(ret.type, Wants(todo), symbols, Len(tables))
         /\ SymbolsOK(symbols, Len(tables)) /\ TablesOK(tables, symbols) /\ ScopesLead
         /\ Len(tables) \in Nat /\ cur_decl_type \in DeclTypes /\ function_locals_size \in Nat
<1>1. Len(tables) \in Nat
  BY DEF TypesInv, Steady, TablesOK, IsSeq
<1> QED
  BY <1>1, PopStaff DEF TypesInv, Steady, Manned, todo

\* EXPECT, CONSUME and accept.
LEMMA TokenTypes ==
  ASSUME TypesInv, ScopesInv, ExpectToken \/ AcceptToken
  PROVE  TypesInv'
<1>1. status = "parsing" /\ stack # << >> /\ todo.do \in {"expect", "accept"}
  BY DEF ExpectToken, AcceptToken, Doing
<1>2. Fail \/ Taking(<< >>) \/ Leaving(<< >>)
  BY DEF ExpectToken, AcceptToken, Taking, Leaving
<1>3. Gives(todo) \in {"nothing", Wants(todo)}
  BY <1>1 DEF Gives, Wants, Inside, InParameters, InDeclarator
<1>4. Serves(ret.type, Gives(todo), symbols, Len(tables))
  BY <1>1, <1>3, HeadStaff, NothingServes
<1> QED
  BY <1>1, <1>2, <1>4, FailTypes, IsDone

\* The type of a specifier.
LEMMA BasesAre ==
  ASSUME NEW Y, NEW T
  PROVE  /\ \A k \in {"int", "char", "void"} : IsBase(<< Base(k) >>, Y, T)
         /\ \A s \in Tags(Y) : IsBase(Of("tag", s), Y, T)
         /\ \A s \in DOMAIN Y : Y[s].kind = "alias" => IsBase(Of("alias", s), Y, T)
<1>1. ASSUME NEW k \in {"int", "char", "void"} PROVE IsBase(<< Base(k) >>, Y, T)
  <2>1. IsPart(Base(k), Y, T) /\ Base(k).kind \in BaseKinds
    BY DEF IsPart, Base, TypeKinds, BaseKinds
  <2> QED
    BY <2>1 DEF IsBase
<1>2. ASSUME NEW s \in Tags(Y) PROVE IsBase(Of("tag", s), Y, T)
  <2> DEFINE p == [kind |-> "tag", sym |-> s]
  <2>1. IsPart(p, Y, T) /\ p.kind \in BaseKinds
    BY DEF IsPart, TypeKinds, BaseKinds
  <2> QED
    BY <2>1 DEF IsBase, Of
<1>3. ASSUME NEW s \in DOMAIN Y, Y[s].kind = "alias" PROVE IsBase(Of("alias", s), Y, T)
  <2> DEFINE p == [kind |-> "alias", sym |-> s]
  <2>1. IsPart(p, Y, T) /\ p.kind \in BaseKinds
    BY <1>3 DEF IsPart, TypeKinds, BaseKinds
  <2> QED
    BY <2>1 DEF IsBase, Of
<1> QED
  BY <1>1, <1>2, <1>3

\* parse_type_specifier.
LEMMA SpecifierTypes ==
  ASSUME TypesInv, ScopesInv, Specifier
  PROVE  TypesInv'
<1>1. status = "parsing" /\ stack # << >> /\ todo.do = "specifier"
  BY DEF Specifier, Doing
<1>2. Gives(todo) = "base"
  BY <1>1 DEF Gives, Inside, InParameters, InDeclarator
<1>3. ASSUME NEW t, IsBase(t, symbols, Len(tables)), ReturnTaking(t, NoName) PROVE TypesInv'
  BY <1>1, <1>2, <1>3, ReturnsType DEF Serves
<1>4. CASE token \in {"int", "char", "void"}
  BY <1>3, <1>4, BasesAre DEF Specifier
<1>5. CASE token \notin {"int", "char", "void"} /\ token \in Names /\ IsTypeName(token)
  <2>1. GetSymbol(token, "SC_NAME") \in DOMAIN symbols /\ symbols[GetSymbol(token, "SC_NAME")].kind = "alias"
    BY <1>1, <1>5, HeadStaff, SymbolIsFound DEF IsTypeName
  <2> QED
    BY <1>3, <1>5, <2>1, BasesAre DEF Specifier
<1>6. CASE /\ token \notin {"int", "char", "void"} /\ ~(token \in Names /\ IsTypeName(token))
           /\ token \in TagKinds
  <2> DEFINE a == [do |-> "tag", kind |-> token]
  <2>1. IsItem(a, symbols, Len(tables)) /\ Wants(a) = "nothing" /\ Gives(a) = "base"
    BY <1>6 DEF IsItem, HasDo, Wants, Gives, Inside, InParameters, InDeclarator, TagKinds
  <2>2. Taking(<< a >>)
    BY <1>6 DEF Specifier, TagKinds
  <2> HIDE DEF a
  <2>3. Replaces(<< a >>, a, todo, symbols, Len(tables))
    BY <1>2, <2>1, ReplacesOne DEF Stands
  <2> QED
    BY <1>1, <2>1, <2>2, <2>3, NothingServes, GoesOn
<1>7. CASE /\ token \notin {"int", "char", "void"} /\ ~(token \in Names /\ IsTypeName(token))
           /\ token \notin TagKinds
  <2>1. Fail
    BY <1>7 DEF Specifier, TagKinds
  <2> QED
    BY <1>1, <2>1, FailTypes
<1> QED
  BY <1>4, <1>5, <1>6, <1>7

\* The innermost scope has a table.
LEMMA CurrentIs == ASSUME ScopesInv, TypesInv PROVE Current \in 1 .. Len(tables)
<1>1. Len(symtables) \in 1 .. Len(symtables) /\ Current = symtables[Len(symtables)]
  BY DEF ScopesInv, Outermost, IsSeq, Current, Last
<1> QED
  BY <1>1 DEF TypesInv, Steady, ScopesLead

\* A new symbol is put into the current scope.
LEMMA PutSymbol ==
  ASSUME TypesInv, ScopesInv, NEW r, IsSymbol(r, symbols, Len(tables)), NEW name, NEW class,
         class = "SC_TAG" => r.kind \in TagKinds,
         symbols' = Append(symbols, r), tables' = PutInto(name, class, Len(symbols) + 1),
         symtables' = symtables, cur_decl_type' \in DeclTypes, function_locals_size' \in Nat
  PROVE  /\ Steady' /\ Bigger /\ Len(tables') = Len(tables)
         /\ Len(symbols) + 1 \in DOMAIN symbols' /\ symbols'[Len(symbols) + 1] = r
<1> DEFINE T == Len(tables)
<1>1. T \in Nat /\ SymbolsOK(symbols, T) /\ TablesOK(tables, symbols)
  <2>1. T \in Nat
    BY DEF TypesInv, Steady, TablesOK, IsSeq
  <2> QED
    BY <2>1 DEF TypesInv, Steady
<1>2. /\ SymbolsOK(symbols', T) /\ Grown(symbols, symbols')
      /\ Len(symbols) + 1 \in DOMAIN symbols' /\ symbols'[Len(symbols) + 1] = r
  <2> HIDE DEF T
  <2>1. IsSymbol(r, symbols, T)
    BY DEF T
  <2> QED
    BY <1>1, <2>1, OneSymbolMore
<1>3. class = "SC_TAG" => Len(symbols) + 1 \in Tags(symbols')
  BY <1>2 DEF Tags
<1>4. TablesOK(tables, symbols')
  BY <1>1, <1>2, StaffGrows
<1>5. TablesOK(tables', symbols') /\ Len(tables') = T
  BY <1>2, <1>3, <1>4, CurrentIs, PutIntoKeeps
<1>6. ScopesLead'
  BY <1>5 DEF TypesInv, Steady, ScopesLead
<1> QED
  BY <1>1, <1>2, <1>5, <1>6 DEF Steady, Bigger

\* More tables do no symbol harm.
LEMMA MoreTables ==
  ASSUME NEW Y, NEW T \in Nat, NEW U \in Nat, T <= U, SymbolsOK(Y, T)
  PROVE  SymbolsOK(Y, U)
  BY GrownSame, SymbolGrows DEF SymbolsOK

\* A scope is opened, with a table of its own,
LEMMA NewTable ==
  ASSUME TypesInv, PushNew
  PROVE  /\ ScopesLead' /\ Len(tables) \in Nat /\ Len(tables') = Len(tables) + 1
         /\ \A Z : TablesOK(tables, Z) => TablesOK(tables', Z)
<1>1. /\ Len(tables) \in Nat /\ Len(tables') = Len(tables) + 1
      /\ \A Z : TablesOK(tables, Z) => TablesOK(tables', Z)
  BY OneTableMore DEF TypesInv, Steady, PushNew
<1> DEFINE S == {symtables[i] : i \in 1 .. Len(symtables)} \cup {Len(tables) + 1}
<1>2. symtables \in Seq(S) /\ Len(tables) + 1 \in S /\ Len(symtables) \in Nat
  BY DEF TypesInv, Steady, ScopesLead, IsSeq
<1>3. symtables' = Append(symtables, Len(tables) + 1)
  BY DEF PushNew, PushTable
<1> HIDE DEF S
<1>4. /\ symtables' \in Seq(S) /\ Len(symtables') = Len(symtables) + 1
      /\ \A i \in 1 .. Len(symtables) : symtables'[i] = symtables[i]
      /\ symtables'[Len(symtables) + 1] = Len(tables) + 1
  BY <1>2, <1>3, AppendProperties
<1>5. IsSeq(symtables')
  BY <1>4, SeqIsSeq, Zenon
<1>6. \A i \in 1 .. Len(symtables') : symtables'[i] \in 1 .. Len(tables')
  <2>1. \A i \in 1 .. Len(symtables') : i \in 1 .. Len(symtables) \/ i = Len(symtables) + 1
    BY <1>2, <1>4
  <2> QED
    BY <1>1, <1>4, <2>1 DEF TypesInv, Steady, ScopesLead
<1> QED
  BY <1>1, <1>5, <1>6 DEF ScopesLead

\* with one that is there,
LEMMA SameTable ==
  ASSUME TypesInv, NEW n \in 1 .. Len(tables), PushTable(n), tables' = tables
  PROVE  ScopesLead'
<1> DEFINE S == {symtables[i] : i \in 1 .. Len(symtables)} \cup {n}
<1>2. symtables \in Seq(S) /\ n \in S /\ Len(symtables) \in Nat
  BY DEF TypesInv, Steady, ScopesLead, IsSeq
<1> HIDE DEF S
<1>4. /\ symtables' \in Seq(S) /\ Len(symtables') = Len(symtables) + 1
      /\ \A i \in 1 .. Len(symtables) : symtables'[i] = symtables[i]
      /\ symtables'[Len(symtables) + 1] = n
  BY <1>2, AppendProperties DEF PushTable
<1>5. IsSeq(symtables')
  BY <1>4, SeqIsSeq, Zenon
<1>6. \A i \in 1 .. Len(symtables') : symtables'[i] \in 1 .. Len(tables')
  <2>1. \A i \in 1 .. Len(symtables') : i \in 1 .. Len(symtables) \/ i = Len(symtables) + 1
    BY <1>2, <1>4
  <2> QED
    BY <1>4, <2>1 DEF TypesInv, Steady, ScopesLead
<1> QED
  BY <1>5, <1>6 DEF ScopesLead

\* or left.
LEMMA TableLeft ==
  ASSUME TypesInv, ScopesInv, Pop, tables' = tables
  PROVE  ScopesLead'
<1> DEFINE S == {symtables[i] : i \in 1 .. Len(symtables)}
<1>1. symtables \in Seq(S) /\ Len(symtables) \in Nat /\ Len(symtables) >= 2
  BY DEF ScopesInv, Outermost, IsSeq
<1>2. symtables' = SubSeq(symtables, 1, Len(symtables) - 1)
  BY DEF Pop, Front
<1>3. \A i \in 1 .. Len(symtables) - 1 : symtables[i] \in S
  BY <1>1
<1> HIDE DEF S
<1>4. /\ symtables' \in Seq(S)
      /\ Len(symtables') = Len(symtables) - 1
      /\ \A i \in 1 .. Len(symtables) - 1 : symtables'[i] = symtables[i]
  <2>1. /\ symtables' \in Seq(S)
        /\ Len(symtables') = IF 1 <= Len(symtables) - 1 THEN Len(symtables) - 1 - 1 + 1 ELSE 0
        /\ \A i \in 1 .. Len(symtables) - 1 - 1 + 1 : symtables'[i] = symtables[1 + i - 1]
    BY <1>1, <1>2, <1>3, SubSeqProperties
  <2> QED
    BY <1>1, <2>1
<1>5. IsSeq(symtables')
  BY <1>4, SeqIsSeq, Zenon
<1> QED
  BY <1>1, <1>4, <1>5 DEF TypesInv, Steady, ScopesLead

\* A symbol that is made as it is put into a table.
LEMMA SymbolIs ==
  ASSUME NEW Y, NEW T \in Nat, NEW kind \in Kinds \ {"function"}, NEW name, NEW type,
         IsParts(type, Y, T), NEW size \in Nat
  PROVE  IsSymbol(Symbol(kind, name, type, size), Y, T) /\ Symbol(kind, name, type, size).kind = kind
<1> DEFINE r == Symbol(kind, name, type, size)
<1>1. DOMAIN r = SymbolFields /\ r.kind = kind /\ r.size = size /\ r.type = type /\ r.symtable = 0
  BY DEF Symbol, SymbolFields
<1> HIDE DEF r
<1>2. IsSymbol(r, Y, T)
  BY <1>1 DEF IsSymbol
<1> QED
  BY <1>1, <1>2 DEF r

\* The symbol of a new tag.
LEMMA NewSymbolIs ==
  ASSUME TypesInv, NEW kind \in Kinds \ {"function"}, NEW name
  PROVE  /\ IsSymbol(Symbol(kind, name, << >>, 0), symbols, Len(tables))
         /\ Symbol(kind, name, << >>, 0).kind = kind
<1>1. Len(tables) \in Nat
  BY DEF TypesInv, Steady, TablesOK, IsSeq
<1>2. PICK T \in Nat : T = Len(tables)
  BY <1>1
<1>3. PICK type : type = << >>
  OBVIOUS
<1>4. PICK size \in Nat : size = 0
  OBVIOUS
<1>5. IsParts(type, symbols, T)
  BY <1>3, IsEmpty
<1>6. /\ IsSymbol(Symbol(kind, name, type, size), symbols, T)
      /\ Symbol(kind, name, type, size).kind = kind
  BY <1>5, SymbolIs
<1> QED
  BY <1>2, <1>3, <1>4, <1>6

\* parse_structured_specifier_start.
LEMMA StructuredTypes ==
  ASSUME TypesInv, ScopesInv, StructuredSpecifier
  PROVE  TypesInv'
<1>1. /\ status = "parsing" /\ stack # << >> /\ todo.do = "tag"
      /\ UNCHANGED << ret, symtables, cur_decl_type, function_locals_size >>
  BY DEF StructuredSpecifier, Doing
<1>2. todo.kind \in TagKinds /\ Gives(todo) = "base"
  BY <1>1, HeadStaff DEF IsItem, Gives, Inside, InParameters, InDeclarator
<1> DEFINE named == token \in Names
           known == IF named THEN GetSymbol(token, "SC_TAG") ELSE 0
           name  == IF named THEN token ELSE NoName
           s     == IF known # 0 THEN known ELSE Len(symbols) + 1
           a     == [do |-> IF todo.kind = "enum" THEN "enum" ELSE "struct", tag |-> s,
                     kind |-> todo.kind]
<1>3. Continue(<< a >>)
  BY DEF StructuredSpecifier
<1>4. Steady' /\ Bigger /\ s \in Tags(symbols')
  <2>1. CASE known # 0
    <3>1. UNCHANGED << symbols, tables >>
      BY <2>1 DEF StructuredSpecifier
    <3>2. known \in Tags(symbols)
      BY <1>1, <2>1, HeadStaff, SymbolIsFound
    <3>3. Steady' /\ Bigger
      BY <1>1, <3>1, SameSteady DEF TypesInv, Steady
    <3> QED
      BY <2>1, <3>1, <3>2, <3>3
  <2>2. CASE known = 0
    <3> DEFINE r == Symbol(todo.kind, name, << >>, 0)
    <3>1. symbols' = Append(symbols, r) /\ tables' = PutInto(name, "SC_TAG", Len(symbols) + 1)
      BY <2>2 DEF StructuredSpecifier
    <3>2. IsSymbol(r, symbols, Len(tables)) /\ r.kind \in TagKinds
      <4>1. todo.kind \in Kinds \ {"function"}
        BY <1>2 DEF TagKinds, Kinds
      <4> QED
        BY <1>2, <4>1, NewSymbolIs
    <3> HIDE DEF r, name
    <3>3. /\ Steady' /\ Bigger
          /\ Len(symbols) + 1 \in DOMAIN symbols' /\ symbols'[Len(symbols) + 1] = r
      BY <1>1, <3>1, <3>2, HeadStaff, PutSymbol
    <3> QED
      BY <2>2, <3>2, <3>3 DEF Tags
  <2> QED
    BY <2>1, <2>2
<1> HIDE DEF s
<1>5. IsItem(a, symbols', Len(tables')) /\ Wants(a) = "nothing" /\ Gives(a) = "base"
  BY <1>2, <1>4 DEF IsItem, HasDo, Wants, Gives, Inside, InParameters, InDeclarator
<1> HIDE DEF a
<1>6. Replaces(<< a >>, a, todo, symbols', Len(tables'))
  BY <1>2, <1>5, ReplacesOne DEF Stands
<1> QED
  BY <1>1, <1>3, <1>4, <1>5, <1>6, NothingServes, CallStep

\* The type of a tag is what the calls inside its braces return.
LEMMA TagServes ==
  ASSUME NEW Y, NEW T, NEW x, x.do \in Inside, IsItem(x, Y, T)
  PROVE  Gives(x) = "base" /\ Wants(x) = "nothing" /\ x.tag \in Tags(Y) /\ Serves(Of("tag", x.tag), Gives(x), Y, T)
<1>1. Gives(x) = "base" /\ Wants(x) = "nothing"
  BY DEF Gives, Wants, Inside, InParameters, InDeclarator
<1>2. x.tag \in Tags(Y)
  BY DEF IsItem
<1> QED
  BY <1>1, <1>2, BasesAre DEF Serves

\* parse_struct_or_union_specifier.
LEMMA StructTypes ==
  ASSUME TypesInv, ScopesInv, StructSpecifier
  PROVE  TypesInv'
<1>1. status = "parsing" /\ stack # << >> /\ todo.do = "struct"
  BY DEF StructSpecifier, Doing
<1>2. todo.do \in Inside /\ IsItem(todo, symbols, Len(tables))
  BY <1>1, HeadStaff DEF Inside
<1>3. CASE token # "{"
  BY <1>1, <1>2, <1>3, TagServes, ReturnsType DEF StructSpecifier
<1>4. CASE token = "{"
  <2> DEFINE a == Item("declaration")
             b == [do |-> "field", tag |-> todo.tag, old |-> cur_decl_type, opened |-> Meaning]
             T == Len(tables)
  <2>1. /\ PushNew /\ symbols' = [symbols EXCEPT ![todo.tag].symtable = T + 1]
        /\ cur_decl_type' = "DT_STRUCT" /\ Continue(<< a, b >>)
        /\ UNCHANGED << ret, function_locals_size >>
    BY <1>4 DEF StructSpecifier
  <2>2. ScopesLead' /\ T \in Nat /\ Len(tables') = T + 1
    BY <2>1, NewTable
  <2>3. SymbolsOK(symbols, T) /\ TablesOK(tables, symbols)
    BY DEF TypesInv, Steady
  <2>4. todo.tag \in Tags(symbols) /\ todo.tag \in DOMAIN symbols
    BY <1>2, TagServes DEF Tags
  <2> HIDE DEF T
  <2>5. /\ DOMAIN symbols = 1 .. Len(symbols) /\ IsSeq(symbols) /\ Len(symbols) \in Nat
        /\ \A s \in DOMAIN symbols : IsSymbol(symbols[s], symbols, T)
    BY <2>3 DEF SymbolsOK, IsSeq
  <2>6. /\ DOMAIN symbols' = DOMAIN symbols
        /\ \A s \in DOMAIN symbols :
             /\ DOMAIN symbols'[s] = SymbolFields
             /\ symbols'[s].kind = symbols[s].kind /\ symbols'[s].type = symbols[s].type
             /\ symbols'[s].size \in Nat
             /\ symbols'[s].symtable \in 0 .. T + 1
             /\ (symbols[s].symtable # 0 => symbols'[s].symtable # 0)
        /\ symbols'[todo.tag].symtable = T + 1
    <3>1. ASSUME NEW s \in DOMAIN symbols, s # todo.tag PROVE symbols'[s] = symbols[s]
      BY <2>1, <3>1
    <3>2. symbols'[todo.tag] = [symbols[todo.tag] EXCEPT !.symtable = T + 1]
      BY <2>1, <2>4
    <3>3. \A s \in DOMAIN symbols :
            DOMAIN symbols[s] = SymbolFields /\ symbols[s].size \in Nat /\ symbols[s].symtable \in 0 .. T
      BY <2>5 DEF IsSymbol
    <3>4. symbols'[todo.tag].symtable = T + 1 /\ T + 1 # 0 /\ T + 1 \in 0 .. T + 1
      BY <2>2, <2>4, <3>2, <3>3 DEF SymbolFields
    <3>5. ASSUME NEW s \in DOMAIN symbols
          PROVE  /\ DOMAIN symbols'[s] = SymbolFields
                 /\ symbols'[s].kind = symbols[s].kind /\ symbols'[s].type = symbols[s].type
                 /\ symbols'[s].size \in Nat
                 /\ symbols'[s].symtable \in 0 .. T + 1
                 /\ (symbols[s].symtable # 0 => symbols'[s].symtable # 0)
      <4>1. CASE s = todo.tag
        BY <3>2, <3>3, <3>4, <4>1 DEF SymbolFields
      <4>2. CASE s # todo.tag
        BY <2>2, <3>1, <3>3, <4>2
      <4> QED
        BY <4>1, <4>2
    <3>6. DOMAIN symbols' = DOMAIN symbols
      BY <2>1
    <3> QED
      BY <3>4, <3>5, <3>6
  <2>7. IsSeq(symbols')
    <3> DEFINE S == {symbols[n] : n \in 1 .. Len(symbols)} \cup {[symbols[todo.tag] EXCEPT !.symtable = T + 1]}
               y == [symbols[todo.tag] EXCEPT !.symtable = T + 1]
    <3>1. symbols \in Seq(S) /\ y \in S
      BY <2>5 DEF IsSeq
    <3> HIDE DEF S
    <3>2. symbols' = [symbols EXCEPT ![todo.tag] = y]
      BY <2>1
    <3> HIDE DEF y
    <3>3. symbols' \in Seq(S)
      BY <2>4, <2>5, <3>1, <3>2, ExceptSeq
    <3> QED
      BY <3>3, SeqIsSeq, Zenon
  <2>8. SymbolsOK(symbols', T + 1) /\ Grown(symbols, symbols')
    <3>1. T + 1 \in Nat /\ T <= T + 1
      BY <2>2
    <3> QED
      BY <2>2, <2>3, <2>6, <2>7, <3>1, OneSymbolChanged
  <2>9. TablesOK(tables', symbols')
    <3>1. T \in Nat /\ T <= T
      BY <2>2
    <3>2. TablesOK(tables, symbols')
      BY <2>3, <2>8, <3>1, StaffGrows
    <3> QED
      BY <2>1, <3>2, NewTable
  <2>10. Steady' /\ Bigger
    BY <2>1, <2>2, <2>8, <2>9 DEF Steady, Bigger, TypesInv, DeclTypes, T
  <2>11. IsItem(b, symbols', Len(tables')) /\ Wants(b) = "nothing" /\ Gives(b) = "base"
    <3>1. todo.tag \in Tags(symbols')
      BY <2>2, <2>4, <2>8, PartsGrow
    <3>2. symbols'[todo.tag].symtable # 0
      BY <2>2, <2>6
    <3>3. cur_decl_type \in DeclTypes
      BY DEF TypesInv, Steady
    <3> QED
      BY <3>1, <3>2, <3>3 DEF IsItem, HasDo, Wants, Gives, Inside, InParameters, InDeclarator
  <2>12. IsItem(a, symbols', Len(tables')) /\ Wants(a) = "nothing"
    BY PlainItems
  <2> HIDE DEF a, b
  <2>13. Replaces(<< a, b >>, a, todo, symbols', Len(tables'))
    BY <1>2, <2>11, <2>12, TagServes, ReplacesTuples DEF Follows, Stands
  <2> QED
    BY <1>1, <2>1, <2>10, <2>12, <2>13, NothingServes, CallStep
<1> QED
  BY <1>3, <1>4

\* The fields, and the brace behind them.
LEMMA FieldTypes ==
  ASSUME TypesInv, ScopesInv, Field
  PROVE  TypesInv'
<1>1. status = "parsing" /\ stack # << >> /\ todo.do = "field"
  BY DEF Field, Doing
<1>2. todo.do \in Inside /\ IsItem(todo, symbols, Len(tables))
  BY <1>1, HeadStaff DEF Inside
<1>3. Gives(todo) = "base" /\ Wants(todo) = "nothing" /\ todo.tag \in Tags(symbols)
  BY <1>2, TagServes
<1>4. CASE token = "}"
  <2>1. /\ Pop /\ Continue(<< >>) /\ ret'.type = Of("tag", todo.tag) /\ tables' = tables
        /\ symbols' = LaidOut(todo.tag) /\ cur_decl_type' = todo.old
        /\ UNCHANGED function_locals_size
    <3>1. /\ Pop /\ Continue(<< >>) /\ Returning(Of("tag", todo.tag), NoName)
          /\ symbols' = LaidOut(todo.tag) /\ cur_decl_type' = todo.old
          /\ UNCHANGED << tables, function_locals_size, seen >>
      BY <1>4 DEF Field
    <3> QED
      BY <3>1 DEF Returning
  <2>2. todo.old \in DeclTypes /\ symbols[todo.tag].symtable # 0 /\ todo.tag \in DOMAIN symbols
    BY <1>1, <1>2, <1>3 DEF IsItem, Tags
  <2>3. Len(tables) \in Nat /\ SymbolsOK(symbols, Len(tables)) /\ TablesOK(tables, symbols)
    BY <1>1, HeadStaff
  <2>4. SymbolsOK(symbols', Len(tables)) /\ Grown(symbols, symbols')
    BY <2>1, <2>2, <2>3, LaidOutKeeps
  <2>5. TablesOK(tables', symbols')
    <3>1. Len(tables) <= Len(tables)
      BY <2>3
    <3> QED
      BY <2>1, <2>3, <2>4, <3>1, StaffGrows
  <2>6. ScopesLead'
    BY <2>1, TableLeft
  <2>7. Steady' /\ Bigger
    BY <2>1, <2>2, <2>3, <2>4, <2>5, <2>6 DEF Steady, Bigger, TypesInv
  <2>8. Serves(ret'.type, Gives(todo), symbols', Len(tables'))
    <3>1. todo.tag \in Tags(symbols')
      BY <1>3, <2>3, <2>4, PartsGrow
    <3> QED
      BY <1>3, <2>1, <3>1, BasesAre DEF Serves
  <2> QED
    BY <1>1, <2>1, <2>7, <2>8, ReturnStep
<1>5. CASE token # "}"
  <2> DEFINE a == Item("declaration")
  <2>1. /\ Continue(<< a, todo >>) /\ cur_decl_type' = "DT_STRUCT"
        /\ UNCHANGED << ret, symtables, tables, symbols, function_locals_size >>
    BY <1>5 DEF Field, scopes
  <2>2. Steady' /\ Bigger
    BY <2>1, SameSteady DEF TypesInv, Steady, DeclTypes
  <2>3. IsItem(a, symbols', Len(tables')) /\ Wants(a) = "nothing" /\ IsItem(todo, symbols', Len(tables'))
    BY <1>2, <2>1, PlainItems
  <2> HIDE DEF a
  <2>4. Replaces(<< a, todo >>, a, todo, symbols', Len(tables'))
    BY <1>3, <2>3, ReplacesTuples DEF Follows, Stands
  <2> QED
    BY <1>1, <2>1, <2>2, <2>3, <2>4, NothingServes, CallStep
<1> QED
  BY <1>4, <1>5

\* A specifier's type is made of parts.
LEMMA BaseParts == ASSUME NEW t, NEW Y, NEW T, IsBase(t, Y, T) PROVE IsParts(t, Y, T)
  BY OnePart DEF IsBase

\* The calls inside the braces of an enum go on under another name.
LEMMA EnumRenamed ==
  ASSUME NEW Y, NEW T, NEW x, x.do \in Inside, IsItem(x, Y, T), NEW d \in {"enumerator", "enumerated"}
  PROVE  IsItem([x EXCEPT !.do = d], Y, T) /\ [x EXCEPT !.do = d].do = d
<1> DEFINE a == [x EXCEPT !.do = d]
<1>1. HasDo(a) /\ a.do = d /\ a.tag = x.tag /\ "tag" \in DOMAIN a /\ x.tag \in Tags(Y)
  <2>1. "do" \in DOMAIN x /\ "tag" \in DOMAIN x /\ x.tag \in Tags(Y)
    BY DEF IsItem, HasDo
  <2> QED
    BY <2>1 DEF HasDo
<1> HIDE DEF a
<1>2. IsItem(a, Y, T)
  BY <1>1 DEF IsItem, Inside, InParameters, InDeclarator
<1> QED
  BY <1>1, <1>2 DEF a

\* parse_enum_specifier.
LEMMA EnumTypes ==
  ASSUME TypesInv, ScopesInv, EnumSpecifier \/ Enumerator \/ Enumerated
  PROVE  TypesInv'
<1>1. status = "parsing" /\ stack # << >> /\ todo.do \in {"enum", "enumerator", "enumerated"}
  BY DEF EnumSpecifier, Enumerator, Enumerated, Doing
<1>2. todo.do \in Inside /\ IsItem(todo, symbols, Len(tables)) /\ todo.do # "unit"
  BY <1>1, HeadStaff DEF Inside
<1>3. /\ Gives(todo) = "base" /\ Wants(todo) = "nothing" /\ todo.tag \in Tags(symbols)
      /\ Serves(Of("tag", todo.tag), Gives(todo), symbols, Len(tables))
  BY <1>2, TagServes
<1>4. ASSUME NEW a, IsItem(a, symbols, Len(tables)), a.do \in {"enumerator", "enumerated"}, Taking(<< a >>)
      PROVE  TypesInv'
  <2>1. a.do \in Inside
    BY <1>4 DEF Inside
  <2>2. Gives(a) = "base" /\ Wants(a) = "nothing"
    BY <1>4, <2>1, TagServes
  <2>3. Replaces(<< a >>, a, todo, symbols, Len(tables))
    BY <1>3, <1>4, <2>2, ReplacesOne DEF Stands
  <2> QED
    BY <1>1, <1>4, <2>2, <2>3, NothingServes, GoesOn
<1>5. CASE EnumSpecifier
  <2>1. CASE token = "{"
    <3> DEFINE a == [do |-> "enumerator", tag |-> todo.tag]
    <3>1. IsItem(a, symbols, Len(tables)) /\ a.do = "enumerator"
      BY <1>3 DEF IsItem, HasDo, Inside, InParameters, InDeclarator
    <3>2. Taking(<< a >>)
      BY <1>5, <2>1 DEF EnumSpecifier
    <3> QED
      BY <1>4, <3>1, <3>2
  <2>2. CASE token # "{"
    BY <1>1, <1>2, <1>3, <1>5, <2>2, ReturnsType DEF EnumSpecifier
  <2> QED
    BY <2>1, <2>2
<1>6. CASE Enumerator
  <2>1. CASE token = "}"
    BY <1>1, <1>2, <1>3, <1>6, <2>1, ReturnsType DEF Enumerator
  <2>2. CASE token # "}" /\ token \in Names
    <3> DEFINE a == [todo EXCEPT !.do = "enumerated"]
               r == Symbol("enum_const", token, Of("tag", todo.tag), 0)
    <3>1. /\ Continue(<< a >>) /\ symbols' = Append(symbols, r)
          /\ tables' = PutInto(token, "SC_NAME", Len(symbols) + 1)
          /\ UNCHANGED << ret, symtables, cur_decl_type, function_locals_size >>
      BY <1>6, <2>2 DEF Enumerator
    <3>2. IsSymbol(r, symbols, Len(tables))
      <4>1. PICK t : t = Of("tag", todo.tag)
        OBVIOUS
      <4>2. IsParts(t, symbols, Len(tables))
        BY <1>3, <4>1, BasesAre, BaseParts
      <4>3. PICK n \in Nat : n = 0
        OBVIOUS
      <4>4. "enum_const" \in Kinds \ {"function"}
        BY DEF Kinds
      <4>5. IsSymbol(Symbol("enum_const", token, t, n), symbols, Len(tables))
        BY <1>1, <4>2, <4>4, HeadStaff, SymbolIs
      <4> QED
        BY <4>1, <4>3, <4>5
    <3> HIDE DEF r
    <3>3. Steady' /\ Bigger
      BY <1>1, <3>1, <3>2, HeadStaff, PutSymbol
    <3>4. IsItem(todo, symbols', Len(tables'))
      BY <1>2, <3>3, ItemGrows DEF Bigger
    <3>5. IsItem(a, symbols', Len(tables')) /\ a.do \in Inside
      <4>1. IsItem(a, symbols', Len(tables')) /\ a.do = "enumerated"
        BY <1>2, <3>4, EnumRenamed
      <4> QED
        BY <4>1 DEF Inside
    <3> HIDE DEF a
    <3>6. Gives(a) = "base" /\ Wants(a) = "nothing"
      BY <3>5, TagServes
    <3>7. Replaces(<< a >>, a, todo, symbols', Len(tables'))
      BY <1>3, <3>5, <3>6, ReplacesOne DEF Stands
    <3> QED
      BY <1>1, <3>1, <3>3, <3>6, <3>7, NothingServes, CallStep
  <2>3. CASE token # "}" /\ token \notin Names
    BY <1>1, <1>6, <2>3, FailTypes DEF Enumerator
  <2> QED
    BY <2>1, <2>2, <2>3
<1>7. CASE Enumerated
  <2>1. CASE token = ","
    <3> DEFINE a == [todo EXCEPT !.do = "enumerator"]
    <3>1. IsItem(a, symbols, Len(tables)) /\ a.do = "enumerator"
      BY <1>2, EnumRenamed
    <3>2. Taking(<< a >>)
      BY <1>7, <2>1 DEF Enumerated
    <3> HIDE DEF a
    <3> QED
      BY <1>4, <3>1, <3>2
  <2>2. CASE token = "}"
    BY <1>1, <1>2, <1>3, <1>7, <2>2, ReturnsType DEF Enumerated
  <2>3. CASE token # "," /\ token # "}"
    BY <1>1, <1>7, <2>3, FailTypes DEF Enumerated
  <2> QED
    BY <2>1, <2>2, <2>3
<1> QED
  BY <1>5, <1>6, <1>7

----------------------------------------------------------------------------
\* The items of declarators.
LEMMA PointersItem ==
  ASSUME NEW Y, NEW T, NEW outer, IsPointers(outer)
  PROVE  /\ IsItem(Pointers(outer), Y, T) /\ Wants(Pointers(outer)) = "nothing"
         /\ Gives(Pointers(outer)) = "loose"
  BY DEF IsItem, HasDo, Pointers, Wants, Gives, Inside, InParameters, InDeclarator

\* What is read behind the name,
LEMMA SuffixItem ==
  ASSUME NEW Y, NEW T, NEW outer, IsPointers(outer), NEW inner, IsLoose(inner, Y, T), NEW name
  PROVE  /\ IsItem(Suffix(outer, inner, name), Y, T)
         /\ Wants(Suffix(outer, inner, name)) = "nothing"
         /\ Gives(Suffix(outer, inner, name)) = "loose"
  BY DEF IsItem, HasDo, Suffix, Wants, Gives, Inside, InParameters, InDeclarator

\* behind an inner declarator,
LEMMA InnerItem ==
  ASSUME NEW Y, NEW T, NEW outer, IsPointers(outer), NEW x, x = [do |-> "inner", outer |-> outer]
  PROVE  IsItem(x, Y, T) /\ Wants(x) = "loose" /\ Gives(x) = "loose"
  BY DEF IsItem, HasDo, Wants, Gives, Inside, InParameters, InDeclarator

\* where both are joined,
LEMMA LinkedItem ==
  ASSUME NEW Y, NEW T, NEW inner, IsLoose(inner, Y, T), NEW name,
         NEW x, x = [do |-> "linked", inner |-> inner, name |-> name]
  PROVE  IsItem(x, Y, T) /\ Wants(x) = "loose" /\ Gives(x) = "loose"
  BY DEF IsItem, HasDo, Wants, Gives, Inside, InParameters, InDeclarator

\* and between two brackets.
LEMMA DimensionItem ==
  ASSUME NEW Y, NEW T, NEW outer, IsPointers(outer), NEW dims, IsDimensions(dims),
         NEW x, x = [do |-> "dimension", dims |-> dims, outer |-> outer]
  PROVE  IsItem(x, Y, T) /\ Wants(x) = "nothing" /\ Gives(x) = "loose"
  BY DEF IsItem, HasDo, Wants, Gives, Inside, InParameters, InDeclarator

\* One more pointer, and one more dimension.
LEMMA OnePointerMore == ASSUME NEW t, IsPointers(t) PROVE IsPointers(<< Base("pointer") >> \o t)
<1>0. PICK p : p = << Base("pointer") >>
  OBVIOUS
<1>1. IsSeq(p) /\ Len(p) = 1 /\ p[1] = Base("pointer")
  BY <1>0, One
<1>2. /\ IsSeq(p \o t) /\ Len(p \o t) = 1 + Len(t) /\ Len(t) \in Nat
      /\ (p \o t)[1] = p[1]
      /\ \A i \in 1 .. Len(t) : (p \o t)[1 + i] = t[i]
  <2>1. IsSeq(p) /\ IsSeq(t)
    BY <1>1 DEF IsPointers
  <2>2. /\ IsSeq(p \o t) /\ Len(p \o t) = Len(p) + Len(t) /\ Len(t) \in Nat
        /\ \A i \in 1 .. Len(p) : (p \o t)[i] = p[i]
        /\ \A i \in 1 .. Len(t) : (p \o t)[Len(p) + i] = t[i]
    BY <2>1, Joined
  <2> QED
    BY <1>1, <2>2
<1>3. ASSUME NEW i \in 1 .. Len(p \o t) PROVE (p \o t)[i] = Base("pointer")
  <2>1. CASE i = 1
    BY <1>1, <1>2, <2>1
  <2>2. CASE i # 1
    <3>1. i - 1 \in 1 .. Len(t) /\ 1 + (i - 1) = i
      BY <1>2, <2>2
    <3> QED
      BY <1>2, <3>1 DEF IsPointers
  <2> QED
    BY <2>1, <2>2
<1> QED
  BY <1>0, <1>2, <1>3 DEF IsPointers

\* A dimension behind the others.
LEMMA OneDimensionMore ==
  ASSUME NEW t, IsDimensions(t), NEW k \in {"array", "open"}
  PROVE  IsDimensions(Append(t, Base(k)))
<1> DEFINE S == {t[n] : n \in 1 .. Len(t)} \cup {Base(k)}
           c == Append(t, Base(k))
<1>1. t \in Seq(S) /\ Base(k) \in S
  BY DEF IsDimensions, IsSeq
<1> HIDE DEF S
<1>2. /\ c \in Seq(S) /\ Len(c) = Len(t) + 1 /\ Len(t) \in Nat
      /\ \A i \in 1 .. Len(t) : c[i] = t[i]
      /\ c[Len(t) + 1] = Base(k)
  BY <1>1, AppendProperties
<1> HIDE DEF c
<1>3. IsSeq(c)
  BY <1>2, SeqIsSeq, Zenon
<1>4. \A i \in 1 .. Len(c) : i \in 1 .. Len(t) \/ i = Len(t) + 1
  BY <1>2
<1>5. \A i \in 1 .. Len(c) : c[i] = Base("array") \/ c[i] = Base("open")
  BY <1>2, <1>4 DEF IsDimensions
<1> QED
  BY <1>3, <1>5 DEF IsDimensions, c

\* A failed declarator, one that stands alone, and one with a type behind it.
LEMMA LooseParts == ASSUME NEW t, NEW Y, NEW T, IsParts(t, Y, T) PROVE IsLoose(t, Y, T)
  BY DEF IsLoose

\* What stands around the name.
LEMMA BeforeName ==
  ASSUME TypesInv, ScopesInv, DeclaratorBase \/ InnerDeclarator
  PROVE  TypesInv'
<1> DEFINE T == Len(tables)
<1>1. status = "parsing" /\ stack # << >> /\ todo.do \in {"pointers", "inner"}
  BY DEF DeclaratorBase, InnerDeclarator, Doing
<1>2. /\ IsPointers(todo.outer) /\ Gives(todo) = "loose"
      /\ todo.do = "inner" => IsLoose(ret.type, symbols, T)
  <2>1. IsItem(todo, symbols, T) /\ Serves(ret.type, Wants(todo), symbols, T)
    BY <1>1, HeadStaff
  <2>2. todo.do \in InDeclarator
    BY <1>1 DEF InDeclarator
  <2>3. IsPointers(todo.outer)
    BY <2>1, <2>2 DEF IsItem
  <2>4. Gives(todo) = "loose"
    BY <1>1 DEF Gives, Inside, InParameters, InDeclarator
  <2>5. todo.do = "inner" => Wants(todo) = "loose"
    BY DEF Wants
  <2> QED
    BY <2>1, <2>3, <2>4, <2>5 DEF Serves
<1>3. ASSUME NEW a, IsItem(a, symbols, T), Wants(a) = "nothing", Gives(a) = "loose",
             Taking(<< a >>) \/ Leaving(<< a >>)
      PROVE  TypesInv'
  <2>1. Replaces(<< a >>, a, todo, symbols, T)
    BY <1>2, <1>3, ReplacesOne DEF Stands
  <2> QED
    BY <1>1, <1>3, <2>1, NothingServes, GoesOn
<1>4. CASE DeclaratorBase
  <2>1. CASE token = "*"
    <3> DEFINE u == << Base("pointer") >> \o todo.outer
               a == Pointers(u)
    <3>1. IsPointers(u)
      BY <1>2, OnePointerMore
    <3>2. Taking(<< a >>)
      BY <1>4, <2>1 DEF DeclaratorBase
    <3> HIDE DEF u
    <3>3. IsItem(a, symbols, T) /\ Wants(a) = "nothing" /\ Gives(a) = "loose"
      BY <3>1, PointersItem
    <3> HIDE DEF a
    <3> QED
      BY <1>3, <3>2, <3>3
  <2>2. CASE token # "*" /\ (token \in Names \/ token # "(")
    <3> DEFINE a == Suffix(todo.outer, << >>, IF token \in Names THEN token ELSE NoName)
    <3>1. Taking(<< a >>) \/ Leaving(<< a >>)
      BY <1>4, <2>2 DEF DeclaratorBase
    <3>2. IsLoose(<< >>, symbols, T)
      BY IsEmpty, LooseParts
    <3>3. IsItem(a, symbols, T) /\ Wants(a) = "nothing" /\ Gives(a) = "loose"
      BY <1>2, <3>2, SuffixItem
    <3> HIDE DEF a
    <3> QED
      BY <1>3, <3>1, <3>3
  <2>3. CASE token # "*" /\ token \notin Names /\ token = "("
    <3> DEFINE a == Pointers(<< >>)
               b == Expect(")")
               c == [do |-> "inner", outer |-> todo.outer]
    <3>1. Taking(<< a, b, c >>)
      BY <1>4, <2>3 DEF DeclaratorBase
    <3>2. IsItem(a, symbols, T) /\ Wants(a) = "nothing" /\ Gives(a) = "loose"
      BY IsEmpty, PointersItem
    <3>3. IsItem(b, symbols, T) /\ Wants(b) = "loose" /\ Gives(b) = "loose"
      BY PlainItems
    <3>4. IsItem(c, symbols, T) /\ Wants(c) = "loose" /\ Gives(c) = "loose"
      BY <1>2, InnerItem
    <3> HIDE DEF a, b, c
    <3>5. Replaces(<< a, b, c >>, a, todo, symbols, T)
      BY <1>2, <3>2, <3>3, <3>4, ReplacesTuples DEF Follows, Stands
    <3> QED
      BY <1>1, <3>1, <3>2, <3>5, NothingServes, GoesOn
  <2> QED
    BY <2>1, <2>2, <2>3
<1>5. CASE InnerDeclarator
  <2> DEFINE a == Suffix(todo.outer, ret.type, ret.name)
  <2>1. todo.do = "inner" /\ Leaving(<< a >>)
    BY <1>5 DEF InnerDeclarator, Doing
  <2>2. IsItem(a, symbols, T) /\ Wants(a) = "nothing" /\ Gives(a) = "loose"
    BY <1>2, <2>1, SuffixItem
  <2> HIDE DEF a
  <2> QED
    BY <1>3, <2>1, <2>2
<1> QED
  BY <1>4, <1>5

\* The brackets and parentheses behind it.
LEMMA BehindName ==
  ASSUME TypesInv, ScopesInv, DeclaratorSuffix
  PROVE  TypesInv'
<1> DEFINE T == Len(tables)
           b == [do |-> "linked", inner |-> todo.inner, name |-> todo.name]
<1>1. status = "parsing" /\ stack # << >> /\ todo.do = "suffix" /\ T \in Nat
  BY HeadStaff DEF DeclaratorSuffix, Doing
<1>2. IsPointers(todo.outer) /\ Gives(todo) = "loose" /\ IsLoose(todo.inner, symbols, T)
  <2>1. IsItem(todo, symbols, T)
    BY <1>1, HeadStaff
  <2> QED
    BY <1>1, <2>1 DEF IsItem, Gives, Inside, InParameters, InDeclarator
<1>3. CASE token = "["
  <2> DEFINE a == [do |-> "dimension", dims |-> << >>, outer |-> todo.outer]
  <2>1. Leaving(<< a, b >>)
    BY <1>3 DEF DeclaratorSuffix
  <2>2. IsItem(a, symbols, T) /\ Wants(a) = "nothing" /\ Gives(a) = "loose"
    BY <1>2, IsEmpty, DimensionItem
  <2>3. IsItem(b, symbols, T) /\ Wants(b) = "loose" /\ Gives(b) = "loose"
    BY <1>2, LinkedItem
  <2> HIDE DEF a, b
  <2>4. Replaces(<< a, b >>, a, todo, symbols, T)
    BY <1>2, <2>2, <2>3, ReplacesTuples DEF Follows, Stands
  <2> QED
    BY <1>1, <2>1, <2>2, <2>4, NothingServes, GoesOn
<1>4. CASE token = "("
  <2> DEFINE a == [do |-> "parameters", outer |-> todo.outer, old |-> cur_decl_type, opened |-> Meaning]
  <2>1. /\ PushNew /\ cur_decl_type' = "DT_PARAMETER" /\ Continue(<< a, b >>)
        /\ UNCHANGED << ret, symbols, function_locals_size >>
    BY <1>4 DEF DeclaratorSuffix
  <2>2. ScopesLead' /\ Len(tables') = T + 1 /\ TablesOK(tables', symbols)
    BY <2>1, NewTable DEF TypesInv, Steady
  <2>3. T <= T + 1 /\ T + 1 \in Nat
    BY <1>1
  <2>4. SymbolsOK(symbols, T + 1)
    BY <1>1, <2>3, MoreTables DEF TypesInv, Steady
  <2>5. Steady' /\ Bigger
    BY <1>1, <2>1, <2>2, <2>3, <2>4, GrownSame DEF Steady, Bigger, TypesInv, DeclTypes
  <2>6. IsItem(a, symbols', Len(tables')) /\ Wants(a) = "nothing" /\ Gives(a) = "loose"
    <3>1. cur_decl_type \in DeclTypes
      BY DEF TypesInv, Steady
    <3> QED
      BY <1>2, <3>1 DEF IsItem, HasDo, Wants, Gives, Inside, InParameters, InDeclarator
  <2>7. IsItem(b, symbols', Len(tables')) /\ Wants(b) = "loose" /\ Gives(b) = "loose"
    <3>1. IsLoose(todo.inner, symbols', Len(tables'))
      BY <1>2, <2>5, PartsGrow DEF Bigger
    <3> QED
      BY <1>2, <3>1, LinkedItem
  <2> HIDE DEF a, b
  <2>8. Replaces(<< a, b >>, a, todo, symbols', Len(tables'))
    BY <1>2, <2>6, <2>7, ReplacesTuples DEF Follows, Stands
  <2> QED
    BY <1>1, <2>1, <2>5, <2>6, <2>8, NothingServes, CallStep
<1>5. CASE token # "[" /\ token # "("
  <2>1. /\ Continue(<< b >>) /\ ret'.type = todo.outer
        /\ UNCHANGED << symtables, tables, symbols, cur_decl_type, function_locals_size >>
    <3>1. Continue(<< b >>) /\ Returning(todo.outer, NoName) /\ UNCHANGED Kept
      BY <1>5 DEF DeclaratorSuffix
    <3> QED
      BY <3>1 DEF Returning, Kept
  <2>2. Steady' /\ Bigger
    BY <2>1, SameSteady DEF TypesInv, Steady
  <2>3. IsItem(b, symbols', Len(tables')) /\ Wants(b) = "loose" /\ Gives(b) = "loose"
    BY <1>2, <2>1, LinkedItem
  <2>4. IsLoose(ret'.type, symbols', Len(tables'))
    BY <1>2, <2>1, AreParts, LooseParts
  <2> HIDE DEF b
  <2>5. Replaces(<< b >>, b, todo, symbols', Len(tables'))
    BY <1>2, <2>3, ReplacesOne DEF Stands
  <2>6. Serves(ret'.type, Wants(b), symbols', Len(tables'))
    BY <2>3, <2>4 DEF Serves
  <2> QED
    BY <1>1, <2>1, <2>2, <2>5, <2>6, CallStep
<1> QED
  BY <1>3, <1>4, <1>5

\* What was read is put together.
LEMMA PutTogether ==
  ASSUME TypesInv, ScopesInv, Linked \/ DeclaratorBased
  PROVE  TypesInv'
<1> DEFINE T == Len(tables)
<1>1. status = "parsing" /\ stack # << >> /\ todo.do \in {"linked", "based"}
  BY DEF Linked, DeclaratorBased, Doing
<1>2. IsItem(todo, symbols, T) /\ IsLoose(ret.type, symbols, T)
  <2>1. IsItem(todo, symbols, T) /\ Serves(ret.type, Wants(todo), symbols, T)
    BY <1>1, HeadStaff
  <2>2. Wants(todo) = "loose"
    BY <1>1 DEF Wants
  <2> QED
    BY <2>1, <2>2 DEF Serves
<1>3. CASE Linked
  <2>1. todo.do = "linked"
    BY <1>3 DEF Linked, Doing
  <2>2. CASE Broken(todo.inner)
    BY <1>3, <2>2, CrashTypes DEF Linked
  <2>3. CASE ~ Broken(todo.inner)
    <3>1. IsParts(todo.inner, symbols, T)
      BY <1>2, <2>1, <2>3, NotBroken DEF IsItem
    <3>2. IsLoose(todo.inner \o ret.type, symbols, T)
      BY <1>2, <3>1, JoinedParts
    <3>3. Gives(todo) = "loose"
      BY <2>1 DEF Gives, Inside, InParameters, InDeclarator
    <3>4. Return(todo.inner \o ret.type, todo.name)
      BY <1>3, <2>3 DEF Linked
    <3>5. Serves(todo.inner \o ret.type, Gives(todo), symbols, T)
      BY <3>2, <3>3 DEF Serves
    <3> QED
      BY <1>1, <3>4, <3>5, ReturnsType
  <2> QED
    BY <2>2, <2>3
<1>4. CASE DeclaratorBased
  <2>1. todo.do = "based"
    BY <1>4 DEF DeclaratorBased, Doing
  <2>2. CASE Broken(ret.type)
    BY <1>4, <2>2, CrashTypes DEF DeclaratorBased
  <2>3. CASE ~ Broken(ret.type)
    <3>1. IsParts(ret.type, symbols, T) /\ IsBase(todo.base, symbols, T)
      BY <1>2, <2>1, <2>3, NotBroken DEF IsItem
    <3>2. IsFull(ret.type \o todo.base, symbols, T)
      BY <3>1, WithBase
    <3>3. Gives(todo) = "full"
      BY <2>1 DEF Gives, Inside, InParameters, InDeclarator
    <3>4. Return(ret.type \o todo.base, ret.name)
      BY <1>4, <2>3 DEF DeclaratorBased
    <3>5. Serves(ret.type \o todo.base, Gives(todo), symbols, T)
      BY <3>2, <3>3 DEF Serves
    <3> QED
      BY <1>1, <3>4, <3>5, ReturnsType
  <2> QED
    BY <2>2, <2>3
<1> QED
  BY <1>3, <1>4

\* The calls that read brackets and parameters go on under another name.
LEMMA BracketItem ==
  ASSUME NEW Y, NEW T, NEW a, HasDo(a), a.do \in {"dimension", "size"}, {"outer", "dims"} \subseteq DOMAIN a,
         IsPointers(a.outer), IsDimensions(a.dims)
  PROVE  IsItem(a, Y, T) /\ Wants(a) = "nothing" /\ Gives(a) = "loose"
  BY DEF IsItem, Wants, Gives, Inside, InParameters, InDeclarator

\* The calls between the parentheses of parameters do so too.
LEMMA ParameterRenamed ==
  ASSUME NEW Y, NEW T, NEW x, x.do \in InParameters, IsItem(x, Y, T), NEW d \in InParameters
  PROVE  /\ IsItem([x EXCEPT !.do = d], Y, T) /\ Gives([x EXCEPT !.do = d]) = "loose"
         /\ Wants([x EXCEPT !.do = d]) = IF d = "declared_parameter" THEN "full" ELSE "nothing"
<1>1. /\ "do" \in DOMAIN x /\ "outer" \in DOMAIN x /\ "old" \in DOMAIN x
      /\ IsPointers(x.outer) /\ x.old \in DeclTypes
  BY DEF IsItem, HasDo, InDeclarator, InParameters
<1>2. PICK a : a = [x EXCEPT !.do = d]
  OBVIOUS
<1>3. HasDo(a) /\ a.do = d /\ a.outer = x.outer /\ a.old = x.old /\ {"outer", "old"} \subseteq DOMAIN a
  BY <1>1, <1>2 DEF HasDo
<1>4. IsItem(a, Y, T)
  BY <1>1, <1>3 DEF IsItem, Inside, InParameters, InDeclarator
<1>5. Gives(a) = "loose" /\ Wants(a) = IF d = "declared_parameter" THEN "full" ELSE "nothing"
  BY <1>3 DEF Wants, Gives, Inside, InParameters, InDeclarator
<1> QED
  BY <1>2, <1>4, <1>5

\* parse_array_declarator.
LEMMA ArrayTypes ==
  ASSUME TypesInv, ScopesInv, ArrayDeclarator \/ ArraySize
  PROVE  TypesInv'
<1> DEFINE T == Len(tables)
<1>1. status = "parsing" /\ stack # << >> /\ todo.do \in {"dimension", "size"}
  BY DEF ArrayDeclarator, ArraySize, Doing
<1>2. IsItem(todo, symbols, T)
  BY <1>1, HeadStaff
<1>3. /\ HasDo(todo) /\ {"outer", "dims"} \subseteq DOMAIN todo /\ Gives(todo) = "loose"
      /\ IsPointers(todo.outer) /\ IsDimensions(todo.dims) /\ todo.do # "unit"
  BY <1>1, <1>2 DEF IsItem, Gives, Inside, InParameters, InDeclarator
<1>4. ASSUME NEW a, NEW d \in {"dimension", "size"}, NEW dims, IsDimensions(dims),
             a = [todo EXCEPT !.do = d, !.dims = dims]
      PROVE  /\ IsItem(a, symbols, T) /\ Wants(a) = "nothing" /\ Gives(a) = "loose"
             /\ Taking(<< a >>) => TypesInv'
  <2>1. /\ HasDo(a) /\ a.do = d /\ a.outer = todo.outer /\ a.dims = dims
        /\ {"outer", "dims"} \subseteq DOMAIN a
    BY <1>3, <1>4 DEF HasDo
  <2>2. IsItem(a, symbols, T) /\ Wants(a) = "nothing" /\ Gives(a) = "loose"
    BY <1>3, <1>4, <2>1, BracketItem
  <2>3. Replaces(<< a >>, a, todo, symbols, T)
    BY <1>3, <2>2, ReplacesOne DEF Stands
  <2> QED
    BY <1>1, <2>2, <2>3, NothingServes, GoesOn
<1>5. CASE ArrayDeclarator
  <2>1. CASE token = "["
    <3>1. Taking(<< [todo EXCEPT !.do = "size"] >>)
      BY <1>5, <2>1 DEF ArrayDeclarator
    <3>2. PICK a : a = [todo EXCEPT !.do = "size", !.dims = todo.dims]
      OBVIOUS
    <3>3. a = [todo EXCEPT !.do = "size"]
      BY <1>3, <3>2
    <3> QED
      BY <1>3, <1>4, <3>1, <3>2, <3>3
  <2>2. CASE token # "["
    <3>1. Return(todo.dims \o todo.outer, NoName)
      BY <1>5, <2>2 DEF ArrayDeclarator
    <3>2. IsParts(todo.dims, symbols, T) /\ IsParts(todo.outer, symbols, T)
      BY <1>3, AreParts
    <3>3. IsLoose(todo.dims \o todo.outer, symbols, T)
      BY <3>2, JoinedParts, LooseParts
    <3>4. Serves(todo.dims \o todo.outer, Gives(todo), symbols, T)
      BY <1>3, <3>3 DEF Serves
    <3> QED
      BY <1>1, <3>1, <3>4, ReturnsType
  <2> QED
    BY <2>1, <2>2
<1>6. CASE ArraySize
  <2>1. CASE token = "]"
    <3>1. PICK dims : dims = Append(todo.dims, Base("open"))
      OBVIOUS
    <3>2. PICK a : a = [todo EXCEPT !.do = "dimension", !.dims = dims]
      OBVIOUS
    <3>3. Taking(<< a >>)
      BY <1>6, <2>1, <3>1, <3>2 DEF ArraySize
    <3>4. IsDimensions(dims)
      BY <1>3, <3>1, OneDimensionMore
    <3> QED
      BY <1>4, <3>2, <3>3, <3>4
  <2>2. CASE token # "]"
    <3> DEFINE a == Item("expr")
               b == Expect("]")
    <3>1. PICK k \in {"array", "open"} : k = IF token = "num" THEN "array" ELSE "open"
      OBVIOUS
    <3>8. PICK dims : dims = Append(todo.dims, Base(k))
      OBVIOUS
    <3>2. PICK c : c = [todo EXCEPT !.do = "dimension", !.dims = dims]
      OBVIOUS
    <3>3. Leaving(<< a, b, c >>)
      BY <1>6, <2>2, <3>1, <3>2, <3>8 DEF ArraySize
    <3>7. IsDimensions(dims)
      BY <1>3, <3>8, OneDimensionMore
    <3>4. IsItem(c, symbols, T) /\ Wants(c) = "nothing" /\ Gives(c) = "loose"
      BY <1>4, <3>2, <3>7
    <3>5. IsItem(a, symbols, T) /\ Wants(a) = "nothing" /\ IsItem(b, symbols, T) /\ Wants(b) = "nothing"
      BY PlainItems
    <3> HIDE DEF a, b
    <3>6. Replaces(<< a, b, c >>, a, todo, symbols, T)
      BY <1>3, <3>4, <3>5, ReplacesTuples DEF Follows, Stands
    <3> QED
      BY <1>1, <3>3, <3>5, <3>6, NothingServes, GoesOn
  <2> QED
    BY <2>1, <2>2
<1> QED
  BY <1>5, <1>6

\* parse_function_declarator, one parameter after the other.
LEMMA ParameterTypes ==
  ASSUME TypesInv, ScopesInv, Parameters \/ Parameter \/ DeclaredParameter \/ FunctionDeclarator
  PROVE  TypesInv'
<1> DEFINE T == Len(tables)
<1>1. status = "parsing" /\ stack # << >> /\ todo.do \in InParameters
  BY DEF Parameters, Parameter, DeclaredParameter, FunctionDeclarator, Doing, InParameters
<1>2. IsItem(todo, symbols, T) /\ Serves(ret.type, Wants(todo), symbols, T) /\ T \in Nat
  BY <1>1, HeadStaff
<1>3. IsPointers(todo.outer) /\ todo.old \in DeclTypes /\ Gives(todo) = "loose" /\ todo.do # "unit"
  BY <1>1, <1>2 DEF IsItem, Gives, Inside, InParameters, InDeclarator
<1>4. ASSUME NEW d \in {"parameter", "parameters_end"},
             Continue(<< [todo EXCEPT !.do = d] >>), Steady', Bigger
      PROVE  TypesInv'
  <2>1. PICK a : a = [todo EXCEPT !.do = d]
    OBVIOUS
  <2>2. IsItem(todo, symbols', Len(tables'))
    BY <1>2, <1>4, ItemGrows DEF Bigger
  <2>3. d \in InParameters
    BY DEF InParameters
  <2>4. IsItem(a, symbols', Len(tables')) /\ Gives(a) = "loose" /\ Wants(a) = "nothing"
    BY <1>1, <2>1, <2>2, <2>3, ParameterRenamed
  <2>5. Replaces(<< a >>, a, todo, symbols', Len(tables'))
    BY <1>3, <2>4, ReplacesOne DEF Stands
  <2> QED
    BY <1>1, <1>4, <2>1, <2>4, <2>5, NothingServes, CallStep
<1>5. ASSUME NEW items, Taking(items) \/ Leaving(items) PROVE Continue(items) /\ Steady' /\ Bigger
  <2>1. Continue(items) /\ UNCHANGED << symtables, tables, symbols, cur_decl_type, function_locals_size >>
    BY <1>5 DEF Taking, Leaving, Kept
  <2> QED
    BY <2>1, SameSteady DEF TypesInv, Steady
<1>6. CASE Parameters
  <2>1. PICK d \in {"parameter", "parameters_end"} : Leaving(<< [todo EXCEPT !.do = d] >>)
    BY <1>6 DEF Parameters
  <2> QED
    BY <1>4, <1>5, <2>1
<1>7. CASE Parameter
  <2>1. CASE token = "..."
    BY <1>4, <1>5, <1>7, <2>1 DEF Parameter
  <2>2. CASE token # "..."
    <3> DEFINE a == Item("specifier")
               b == Item("declarator")
    <3>1. PICK c : c = [todo EXCEPT !.do = "declared_parameter"]
      OBVIOUS
    <3>2. Leaving(<< a, b, c >>)
      BY <1>7, <2>2, <3>1 DEF Parameter
    <3>3. "declared_parameter" \in InParameters
      BY DEF InParameters
    <3>4. IsItem(c, symbols, T) /\ Gives(c) = "loose" /\ Wants(c) = "full"
      BY <1>1, <1>2, <3>1, <3>3, ParameterRenamed
    <3>5. /\ IsItem(a, symbols, T) /\ Wants(a) = "nothing" /\ Gives(a) = "base"
          /\ IsItem(b, symbols, T) /\ Wants(b) = "base" /\ Gives(b) = "full"
      BY PlainItems
    <3> HIDE DEF a, b
    <3>6. Replaces(<< a, b, c >>, a, todo, symbols, T)
      BY <1>3, <3>4, <3>5, ReplacesTuples DEF Follows, Stands
    <3> QED
      BY <1>1, <3>2, <3>5, <3>6, NothingServes, GoesOn
  <2> QED
    BY <2>1, <2>2
<1>8. CASE DeclaredParameter
  <2>1. todo.do = "declared_parameter"
    BY <1>8 DEF DeclaredParameter, Doing
  <2>2. IsFull(ret.type, symbols, T)
    <3>1. Wants(todo) = "full"
      BY <2>1 DEF Wants
    <3> QED
      BY <1>2, <3>1 DEF Serves
  <2>3. PICK r : r = Symbol("parameter", ret.name, ret.type, 0)
    OBVIOUS
  <2>4. /\ symbols' = Append(symbols, r) /\ tables' = PutInto(ret.name, "SC_NAME", Len(symbols) + 1)
        /\ UNCHANGED << symtables, cur_decl_type, function_locals_size >>
    BY <1>8, <2>3 DEF DeclaredParameter
  <2>5. IsSymbol(r, symbols, T)
    <3>1. "parameter" \in Kinds \ {"function"} /\ 0 \in Nat
      BY DEF Kinds, VarKinds
    <3>2. IsParts(ret.type, symbols, T)
      BY <2>2 DEF IsFull
    <3> QED
      BY <1>2, <2>3, <3>1, <3>2, SymbolIs
  <2>6. Steady' /\ Bigger
    BY <1>1, <2>4, <2>5, HeadStaff, PutSymbol
  <2>7. PICK d \in {"parameter", "parameters_end"} : Continue(<< [todo EXCEPT !.do = d] >>)
    BY <1>8 DEF DeclaredParameter
  <2> QED
    BY <1>4, <2>6, <2>7
<1>9. CASE FunctionDeclarator
  <2>1. CASE token # ")"
    BY <1>1, <1>9, <2>1, FailTypes DEF FunctionDeclarator
  <2>2. CASE token = ")"
    <3> DEFINE f == Of("func", Current)
    <3>1. /\ Pop /\ Continue(<< >>) /\ cur_decl_type' = todo.old
          /\ Returning(f \o todo.outer, NoName)
          /\ UNCHANGED << tables, symbols, function_locals_size, seen >>
      BY <1>9, <2>2 DEF FunctionDeclarator
    <3>2. IsParts(f, symbols, T)
      <4> DEFINE p == [kind |-> "func", sym |-> Current]
      <4>1. IsPart(p, symbols, T)
        BY CurrentIs DEF IsPart, TypeKinds
      <4> QED
        BY <4>1, OnePart DEF Of
    <3> HIDE DEF f
    <3>3. IsLoose(f \o todo.outer, symbols, T)
      <4>1. IsParts(todo.outer, symbols, T)
        BY <1>3, AreParts
      <4> QED
        BY <3>2, <4>1, JoinedParts, LooseParts
    <3>4. ScopesLead'
      BY <3>1, TableLeft
    <3>5. Steady' /\ Bigger
      BY <1>2, <1>3, <3>1, <3>4, GrownSame DEF Steady, Bigger, TypesInv
    <3>6. Serves(ret'.type, Gives(todo), symbols', Len(tables'))
      BY <1>3, <3>1, <3>3 DEF Serves, Returning
    <3> QED
      BY <1>1, <1>3, <3>1, <3>5, <3>6, ReturnStep
  <2> QED
    BY <2>1, <2>2
<1> QED
  BY <1>6, <1>7, <1>8, <1>9

\* A declarator with its base.
LEMMA DeclaratorIs ==
  ASSUME NEW Y, NEW T, NEW base, IsBase(base, Y, T), NEW b, b = [do |-> "based", base |-> base]
  PROVE  /\ Declarator(base) = << Pointers(<< >>), b >>
         /\ IsItem(Pointers(<< >>), Y, T) /\ Wants(Pointers(<< >>)) = "nothing"
         /\ Gives(Pointers(<< >>)) = "loose"
         /\ IsItem(b, Y, T) /\ Wants(b) = "loose" /\ Gives(b) = "full"
<1>1. IsItem(b, Y, T) /\ Wants(b) = "loose" /\ Gives(b) = "full"
  BY DEF IsItem, HasDo, Wants, Gives, Inside, InParameters, InDeclarator
<1>2. /\ IsItem(Pointers(<< >>), Y, T) /\ Wants(Pointers(<< >>)) = "nothing"
      /\ Gives(Pointers(<< >>)) = "loose"
  BY IsEmpty, PointersItem
<1> QED
  BY <1>1, <1>2 DEF Declarator

\* A parameter's declarator.
LEMMA ParameterDeclaratorTypes ==
  ASSUME TypesInv, ScopesInv, ParameterDeclarator
  PROVE  TypesInv'
<1> DEFINE T == Len(tables)
           a == Pointers(<< >>)
<1>1. status = "parsing" /\ stack # << >> /\ todo.do = "declarator"
  BY DEF ParameterDeclarator, Doing
<1>2. Wants(todo) = "base" /\ Gives(todo) = "full"
  BY <1>1 DEF Wants, Gives, Inside, InParameters, InDeclarator
<1>3. IsBase(ret.type, symbols, T)
  BY <1>1, <1>2, HeadStaff DEF Serves
<1>4. PICK b : b = [do |-> "based", base |-> ret.type]
  OBVIOUS
<1>5. /\ Declarator(ret.type) = << a, b >>
      /\ IsItem(a, symbols, T) /\ Wants(a) = "nothing" /\ Gives(a) = "loose"
      /\ IsItem(b, symbols, T) /\ Wants(b) = "loose" /\ Gives(b) = "full"
  BY <1>3, <1>4, DeclaratorIs
<1>6. Leaving(<< a, b >>)
  BY <1>5 DEF ParameterDeclarator
<1> HIDE DEF a
<1>7. Replaces(<< a, b >>, a, todo, symbols, T)
  BY <1>2, <1>5, ReplacesTuples DEF Follows, Stands
<1> QED
  BY <1>1, <1>5, <1>6, <1>7, NothingServes, GoesOn

\* The items of declarations.
LEMMA DeclarationItems ==
  ASSUME NEW Y, NEW T
  PROVE  /\ \A x : /\ x.do \in {"unit", "declaration", "stmt", "expr", "local", "else", "block", "close",
                                "variable", "body", "end_of_body", "separator"}
                   => Wants(x) = "nothing" /\ Gives(x) = "nothing"
         /\ \A x : x.do = "declarators" => Wants(x) = "base" /\ Gives(x) = "nothing"
         /\ \A x : x.do = "declared" => Wants(x) = "full" /\ Gives(x) = "nothing"
<1>1. ASSUME NEW x, x.do \in {"unit", "declaration", "stmt", "expr", "local", "else", "block", "close",
                              "variable", "body", "end_of_body", "separator"}
      PROVE  Wants(x) = "nothing" /\ Gives(x) = "nothing"
  BY <1>1 DEF Wants, Gives, Inside, InParameters, InDeclarator
<1>2. ASSUME NEW x, x.do \in {"declarators", "declared"}
      PROVE  /\ Wants(x) = (IF x.do = "declarators" THEN "base" ELSE "full")
             /\ Gives(x) = "nothing"
  BY <1>2 DEF Wants, Gives, Inside, InParameters, InDeclarator
<1> QED
  BY <1>1, <1>2

\* parser_parse.
LEMMA UnitTypes ==
  ASSUME TypesInv, ScopesInv, Unit
  PROVE  TypesInv'
<1>1. status = "parsing" /\ stack # << >> /\ todo.do = "unit"
  BY DEF Unit, Doing
<1>2. CASE token = "eos"
  <2>1. /\ stack' = << >> /\ status' = "done"
        /\ UNCHANGED << symtables, tables, symbols, cur_decl_type, function_locals_size >>
    BY <1>2 DEF Unit, scopes
  <2> QED
    BY <2>1, EndTypes
<1>3. CASE token # "eos"
  <2> DEFINE a == Item("declaration")
  <2>1. /\ Continue(<< a, todo >>) /\ cur_decl_type' = Global
        /\ UNCHANGED << ret, symtables, tables, symbols, function_locals_size >>
    BY <1>3 DEF Unit, scopes
  <2>2. Steady' /\ Bigger
    BY <2>1, SameSteady DEF TypesInv, Steady, DeclTypes
  <2>3. /\ IsItem(a, symbols', Len(tables')) /\ Wants(a) = "nothing"
        /\ IsItem(todo, symbols', Len(tables')) /\ Wants(todo) = "nothing" /\ Gives(todo) = "nothing"
    BY <1>1, <2>1, HeadStaff, PlainItems, DeclarationItems
  <2> HIDE DEF a
  <2>4. Replaces(<< a, todo >>, a, todo, symbols', Len(tables'))
    BY <2>3, ReplacesTuples DEF Follows, Stands
  <2> QED
    BY <1>1, <2>1, <2>2, <2>3, <2>4, NothingServes, CallStep
<1> QED
  BY <1>2, <1>3

\* parse_declaration.
LEMMA DeclarationTypes ==
  ASSUME TypesInv, ScopesInv, Declaration
  PROVE  TypesInv'
<1> DEFINE T == Len(tables)
<1>1. status = "parsing" /\ stack # << >> /\ todo.do = "declaration"
  BY DEF Declaration, Doing
<1>2. Gives(todo) = "nothing"
  BY <1>1, DeclarationItems
<1> DEFINE typedef == cur_decl_type = Global /\ token = "typedef"
           x == Accept({"extern", "static"})
           a == Accept({"const"})
           b == Item("specifier")
           c == [do |-> "declarators", typedef |-> typedef]
           items == (IF cur_decl_type = Global THEN << x >> ELSE << >>) \o << a, b, c >>
<1>3. Taking(items) \/ Leaving(items)
  BY DEF Declaration
<1>4. IsItem(c, symbols, T) /\ Wants(c) = "base" /\ Gives(c) = "nothing"
  <2>1. IsItem(c, symbols, T)
    BY DEF IsItem, HasDo, Inside, InParameters, InDeclarator
  <2> QED
    BY <2>1, DeclarationItems
<1>5. /\ IsItem(x, symbols, T) /\ Wants(x) = "nothing" /\ Gives(x) = "nothing"
      /\ IsItem(a, symbols, T) /\ Wants(a) = "nothing"
      /\ IsItem(b, symbols, T) /\ Wants(b) = "nothing" /\ Gives(b) = "base"
  BY PlainItems
<1> HIDE DEF a, b, c, x
<1>6. Replaces(<< a, b, c >>, a, todo, symbols, T)
  BY <1>2, <1>4, <1>5, ReplacesTuples DEF Follows, Stands
<1>7. CASE cur_decl_type = Global
  <2>1. Replaces(<< x >> \o << a, b, c >>, x, todo, symbols, T)
    BY <1>5, <1>6, ReplacesMore DEF Follows
  <2>2. items = << x >> \o << a, b, c >>
    BY <1>7
  <2> QED
    BY <1>1, <1>3, <1>5, <2>1, <2>2, NothingServes, GoesOn
<1>8. CASE cur_decl_type # Global
  <2>1. items = << a, b, c >>
    <3>1. << >> \o << a, b, c >> = << a, b, c >>
      OBVIOUS
    <3> QED
      BY <1>8, <3>1
  <2> QED
    BY <1>1, <1>3, <1>5, <1>6, <2>1, NothingServes, GoesOn
<1> QED
  BY <1>7, <1>8

\* What is put on the stack for a declarator and what its name denotes.
LEMMA NextDeclaratorReplaces ==
  ASSUME NEW Y, NEW T, NEW base, IsBase(base, Y, T), NEW typedef \in BOOLEAN, NEW x, Gives(x) = "nothing"
  PROVE  /\ Replaces(NextDeclarator(base, typedef), Pointers(<< >>), x, Y, T)
         /\ Wants(Pointers(<< >>)) = "nothing"
<1>1. PICK a : a = Pointers(<< >>)
  OBVIOUS
<1>2. PICK b : b = [do |-> "based", base |-> base]
  OBVIOUS
<1>3. PICK c : c = [do |-> "declared", base |-> base, typedef |-> typedef]
  OBVIOUS
<1>4. /\ Declarator(base) = << a, b >>
      /\ IsItem(a, Y, T) /\ Wants(a) = "nothing" /\ Gives(a) = "loose"
      /\ IsItem(b, Y, T) /\ Wants(b) = "loose" /\ Gives(b) = "full"
  BY <1>1, <1>2, DeclaratorIs
<1>5. IsItem(c, Y, T) /\ Wants(c) = "full" /\ Gives(c) = "nothing"
  <2>1. IsItem(c, Y, T) /\ c.do = "declared"
    BY <1>3 DEF IsItem, HasDo, Inside, InParameters, InDeclarator
  <2> QED
    BY <2>1, DeclarationItems
<1>6. NextDeclarator(base, typedef) = << a, b, c >>
  <2>1. NextDeclarator(base, typedef) = << a, b >> \o << c >>
    BY <1>3, <1>4 DEF NextDeclarator
  <2> QED
    BY <2>1, TupleConcat
<1>7. Replaces(<< a, b, c >>, a, x, Y, T)
  BY <1>4, <1>5, ReplacesTuples DEF Follows, Stands
<1> QED
  BY <1>1, <1>4, <1>6, <1>7

\* What joins the declarators.
LEMMA JoinsTypes ==
  ASSUME TypesInv, ScopesInv, Declarators \/ Separator
  PROVE  TypesInv'
<1> DEFINE T == Len(tables)
<1>1. status = "parsing" /\ stack # << >> /\ todo.do \in {"declarators", "separator"}
  BY DEF Declarators, Separator, Doing
<1>2. Gives(todo) = "nothing" /\ todo.typedef \in BOOLEAN
  <2>1. IsItem(todo, symbols, T)
    BY <1>1, HeadStaff
  <2> QED
    BY <1>1, <2>1, DeclarationItems DEF IsItem
<1>3. ASSUME NEW base, IsBase(base, symbols, T), NEW items, items = NextDeclarator(base, todo.typedef),
             Taking(items) \/ Leaving(items)
      PROVE  TypesInv'
  BY <1>1, <1>2, <1>3, NextDeclaratorReplaces, NothingServes, GoesOn
<1>4. CASE Declarators
  <2>1. todo.do = "declarators"
    BY <1>4 DEF Declarators, Doing
  <2>2. IsBase(ret.type, symbols, T)
    <3>1. Wants(todo) = "base"
      BY <2>1, DeclarationItems
    <3> QED
      BY <1>1, <3>1, HeadStaff DEF Serves
  <2>3. CASE token = ";"
    BY <1>1, <1>2, <1>4, <2>3, NothingServes, IsDone DEF Declarators
  <2>4. CASE token # ";"
    BY <1>3, <1>4, <2>2, <2>4 DEF Declarators
  <2> QED
    BY <2>3, <2>4
<1>5. CASE Separator
  <2>1. todo.do = "separator"
    BY <1>5 DEF Separator, Doing
  <2>2. IsBase(todo.base, symbols, T)
    BY <1>1, <2>1, HeadStaff DEF IsItem
  <2>3. CASE token = ","
    BY <1>3, <1>5, <2>2, <2>3 DEF Separator
  <2>4. CASE token # ","
    <3> DEFINE a == Expect(";")
    <3>1. Leaving(<< a >>)
      BY <1>5, <2>4 DEF Separator
    <3>2. IsItem(a, symbols, T) /\ Wants(a) = "nothing"
      BY PlainItems
    <3> HIDE DEF a
    <3>3. Replaces(<< a >>, a, todo, symbols, T)
      BY <1>2, <3>2, ReplacesOne DEF Stands
    <3> QED
      BY <1>1, <3>1, <3>2, <3>3, NothingServes, GoesOn
  <2> QED
    BY <2>3, <2>4
<1> QED
  BY <1>4, <1>5

\* What is declared behind its first part.
LEMMA TailIsParts ==
  ASSUME NEW t, NEW Y, NEW T, IsFull(t, Y, T)
  PROVE  IsParts(Tail(t), Y, T) /\ IsPart(Head(t), Y, T)
<1> DEFINE S == {t[n] : n \in 1 .. Len(t)}
           u == Tail(t)
<1>1. t \in Seq(S) /\ Len(t) \in Nat \ {0}
  BY DEF IsFull, IsParts, IsSeq
<1>2. u \in Seq(S) /\ Len(u) = Len(t) - 1 /\ \A n \in 1 .. Len(u) : u[n] = t[n + 1]
  BY <1>1
<1>3. Head(t) = t[1] /\ 1 \in 1 .. Len(t)
  BY <1>1
<1> HIDE DEF S, u
<1>4. IsSeq(u)
  BY <1>2, SeqIsSeq, Zenon
<1>5. \A n \in 1 .. Len(u) : n + 1 \in 1 .. Len(t)
  BY <1>1, <1>2
<1>6. \A n \in 1 .. Len(t) : IsPart(t[n], Y, T)
  BY DEF IsFull, IsParts
<1> QED
  BY <1>2, <1>3, <1>4, <1>5, <1>6 DEF IsParts, u

\* The separator behind what is declared.
LEMMA SeparatorIs ==
  ASSUME NEW Y, NEW T, NEW x, x.do = "declared", IsItem(x, Y, T),
         NEW c, c = [do |-> "separator", base |-> x.base, typedef |-> x.typedef]
  PROVE  IsItem(c, Y, T) /\ Wants(c) = "nothing" /\ Gives(c) = "nothing"
<1>1. IsBase(x.base, Y, T) /\ x.typedef \in BOOLEAN
  BY DEF IsItem
<1>2. c.do = "separator" /\ IsItem(c, Y, T)
  BY <1>1 DEF IsItem, HasDo, Inside, InParameters, InDeclarator
<1> QED
  BY <1>2, DeclarationItems

\* What the call that declares a name finds.
LEMMA DeclaredIs ==
  ASSUME TypesInv, status = "parsing", stack # << >>, todo.do = "declared"
  PROVE  /\ IsItem(todo, symbols, Len(tables)) /\ IsFull(ret.type, symbols, Len(tables))
         /\ Wants(todo) = "full" /\ Gives(todo) = "nothing" /\ todo.typedef \in BOOLEAN
<1>1. Wants(todo) = "full" /\ Gives(todo) = "nothing"
  BY DeclarationItems
<1>2. IsItem(todo, symbols, Len(tables)) /\ Serves(ret.type, Wants(todo), symbols, Len(tables))
  BY HeadStaff
<1> QED
  BY <1>1, <1>2 DEF Serves, IsItem

\* A function is declared.
LEMMA DeclaredFunctionTypes ==
  ASSUME TypesInv, ScopesInv, DeclaredFunction
  PROVE  TypesInv'
<1> DEFINE T == Len(tables)
<1>1. status = "parsing" /\ stack # << >> /\ todo.do = "declared" /\ Head(ret.type).kind = "func"
  BY DEF DeclaredFunction, Doing
<1>2. /\ IsItem(todo, symbols, T) /\ IsFull(ret.type, symbols, T) /\ Gives(todo) = "nothing"
  BY <1>1, DeclaredIs
<1>3. IsParts(Tail(ret.type), symbols, T) /\ Head(ret.type).sym \in 1 .. T
  <2>1. IsParts(Tail(ret.type), symbols, T) /\ IsPart(Head(ret.type), symbols, T)
    BY <1>2, TailIsParts
  <2> QED
    BY <1>1, <2>1 DEF IsPart
<1>4. PICK r : r = [Symbol("function", ret.name, Tail(ret.type), 0) EXCEPT !.symtable = Head(ret.type).sym]
  OBVIOUS
<1>5. PICK a : a = [do |-> "body", function |-> Len(symbols) + 1]
  OBVIOUS
<1>6. PICK b : b = [do |-> "separator", base |-> todo.base, typedef |-> todo.typedef]
  OBVIOUS
<1>7. CASE Fail
  BY <1>1, <1>7, FailTypes
<1>8. CASE ~ Fail
  <2>1. /\ symbols' = Append(symbols, r) /\ tables' = PutInto(ret.name, "SC_NAME", Len(symbols) + 1)
        /\ Continue(<< a, b >>)
        /\ UNCHANGED << ret, symtables, cur_decl_type, function_locals_size >>
    BY <1>4, <1>5, <1>6, <1>8 DEF DeclaredFunction
  <2>2. IsSymbol(r, symbols, T) /\ r.kind = "function"
    <3>1. /\ DOMAIN r = SymbolFields /\ r.kind = "function" /\ r.size = 0 /\ r.type = Tail(ret.type)
          /\ r.symtable = Head(ret.type).sym
      BY <1>4 DEF Symbol, SymbolFields
    <3>2. T \in Nat
      BY <1>1, HeadStaff
    <3>3. r.symtable \in 0 .. T /\ r.symtable # 0
      BY <1>3, <3>1, <3>2
    <3> QED
      BY <1>3, <3>1, <3>3 DEF IsSymbol, Kinds
  <2>3. /\ Steady' /\ Bigger
        /\ Len(symbols) + 1 \in DOMAIN symbols' /\ symbols'[Len(symbols) + 1] = r
    BY <1>1, <2>1, <2>2, HeadStaff, PutSymbol
  <2>4. IsItem(a, symbols', Len(tables')) /\ Wants(a) = "nothing" /\ Gives(a) = "nothing"
    <3>1. IsItem(a, symbols', Len(tables')) /\ a.do = "body"
      BY <1>5, <2>2, <2>3 DEF IsItem, HasDo, Inside, InParameters, InDeclarator
    <3> QED
      BY <3>1, DeclarationItems
  <2>5. IsItem(todo, symbols', Len(tables'))
    BY <1>2, <2>3, ItemGrows DEF Bigger
  <2>6. IsItem(b, symbols', Len(tables')) /\ Wants(b) = "nothing" /\ Gives(b) = "nothing"
    BY <1>1, <1>6, <2>5, SeparatorIs
  <2>7. Replaces(<< a, b >>, a, todo, symbols', Len(tables'))
    BY <1>2, <2>4, <2>6, ReplacesTuples DEF Follows, Stands
  <2> QED
    BY <1>1, <2>1, <2>3, <2>4, <2>7, NothingServes, CallStep
<1> QED
  BY <1>7, <1>8

\* Anything else is: the name is put when the initializer is parsed.
LEMMA DeclaredVariableTypes ==
  ASSUME TypesInv, ScopesInv, DeclaredVariable
  PROVE  TypesInv'
<1> DEFINE T == Len(tables)
<1>1. status = "parsing" /\ stack # << >> /\ todo.do = "declared"
  BY DEF DeclaredVariable, Doing
<1>2. /\ IsItem(todo, symbols, T) /\ IsFull(ret.type, symbols, T) /\ Gives(todo) = "nothing"
      /\ todo.typedef \in BOOLEAN
  BY <1>1, DeclaredIs
<1>3. PICK kind : kind = VariableKind(todo.typedef)
  OBVIOUS
<1>4. PICK r : r = [Symbol(kind, ret.name, ret.type, SizeOf(ret.type)) EXCEPT !.function = Function]
  OBVIOUS
<1>5. PICK a : a = [do |-> "variable", symbol |-> r]
  OBVIOUS
<1>6. PICK b : b = [do |-> "separator", base |-> todo.base, typedef |-> todo.typedef]
  OBVIOUS
<1>7. PICK e : e = Item("expr")
  OBVIOUS
<1>8. CASE Fail
  BY <1>1, <1>8, FailTypes
<1>9. CASE ~ Fail
  <2>1. /\ Continue(<< e >> \o << a, b >>) \/ Continue(<< a, b >>)
        /\ UNCHANGED << ret, symtables, tables, symbols, cur_decl_type, function_locals_size >>
    BY <1>3, <1>4, <1>5, <1>6, <1>7, <1>9 DEF DeclaredVariable, scopes
  <2>2. Steady' /\ Bigger
    BY <2>1, SameSteady DEF TypesInv, Steady
  <2>3. IsSymbol(r, symbols, T)
    <3>1. kind \in Kinds \ {"function"}
      BY <1>2, <1>3 DEF VariableKind, Kinds, VarKinds
    <3>2. SizeOf(ret.type) \in Nat
      BY <1>1, <1>2, HeadStaff, FullHasSize
    <3>3. PICK y : y = Symbol(kind, ret.name, ret.type, SizeOf(ret.type))
      OBVIOUS
    <3>4. IsSymbol(y, symbols, T)
      <4>1. T \in Nat /\ IsParts(ret.type, symbols, T)
        BY <1>1, <1>2, HeadStaff DEF IsFull
      <4> QED
        BY <3>1, <3>2, <3>3, <4>1, SymbolIs
    <3>5. /\ DOMAIN r = DOMAIN y /\ r.kind = y.kind /\ r.size = y.size /\ r.type = y.type
          /\ r.symtable = y.symtable
      BY <1>4, <3>3
    <3> QED
      BY <3>4, <3>5 DEF IsSymbol
  <2>4. IsItem(a, symbols, T) /\ Wants(a) = "nothing" /\ Gives(a) = "nothing"
    <3>1. IsItem(a, symbols, T) /\ a.do = "variable"
      BY <1>5, <2>3 DEF IsItem, HasDo, Inside, InParameters, InDeclarator
    <3> QED
      BY <3>1, DeclarationItems
  <2>5. IsItem(b, symbols, T) /\ Wants(b) = "nothing" /\ Gives(b) = "nothing"
    BY <1>1, <1>2, <1>6, SeparatorIs
  <2>6. IsItem(e, symbols, T) /\ Wants(e) = "nothing"
    BY <1>7, PlainItems
  <2>7. /\ Replaces(<< a, b >>, a, todo, symbols, T)
        /\ Replaces(<< e >> \o << a, b >>, e, todo, symbols, T)
    <3>1. Replaces(<< a, b >>, a, todo, symbols, T)
      BY <1>2, <2>4, <2>5, ReplacesTuples DEF Follows, Stands
    <3> QED
      BY <2>4, <2>6, <3>1, ReplacesMore DEF Follows
  <2>8. /\ Replaces(<< a, b >>, a, todo, symbols', Len(tables'))
        /\ Replaces(<< e >> \o << a, b >>, e, todo, symbols', Len(tables'))
    BY <2>1, <2>7
  <2> QED
    BY <1>1, <2>1, <2>2, <2>4, <2>6, <2>8, NothingServes, CallStep
<1> QED
  BY <1>8, <1>9

\* The name is put.
LEMMA VariableTypes ==
  ASSUME TypesInv, ScopesInv, Variable
  PROVE  TypesInv'
<1> DEFINE T == Len(tables)
<1>1. status = "parsing" /\ stack # << >> /\ todo.do = "variable"
  BY DEF Variable, Doing
<1>2. IsSymbol(todo.symbol, symbols, T) /\ Gives(todo) = "nothing"
  BY <1>1, HeadStaff, DeclarationItems DEF IsItem
<1>3. PICK local : local = (cur_decl_type = Local)
  OBVIOUS
<1>4. PICK r : r = [todo.symbol EXCEPT !.offset = IF local THEN - function_locals_size ELSE 0]
  OBVIOUS
<1>5. /\ symbols' = Append(symbols, r) /\ tables' = PutInto(todo.symbol.name, "SC_NAME", Len(symbols) + 1)
      /\ function_locals_size' = function_locals_size + IF local THEN todo.symbol.size ELSE 0
      /\ Continue(<< >>) /\ UNCHANGED << ret, symtables, cur_decl_type >>
  BY <1>3, <1>4 DEF Variable
<1>6. IsSymbol(r, symbols, T)
  <2>1. /\ DOMAIN r = DOMAIN todo.symbol /\ r.kind = todo.symbol.kind /\ r.size = todo.symbol.size
        /\ r.type = todo.symbol.type /\ r.symtable = todo.symbol.symtable
    BY <1>4
  <2> QED
    BY <1>2, <2>1 DEF IsSymbol
<1>7. function_locals_size' \in Nat
  <2>1. function_locals_size \in Nat /\ todo.symbol.size \in Nat
    BY <1>1, <1>2, HeadStaff DEF IsSymbol
  <2> QED
    BY <1>5, <2>1
<1>8. Steady' /\ Bigger
  <2>1. cur_decl_type' \in DeclTypes /\ symtables' = symtables
    BY <1>1, <1>5, HeadStaff
  <2>2. "SC_NAME" # "SC_TAG"
    OBVIOUS
  <2> QED
    BY <1>5, <1>6, <1>7, <2>1, <2>2, PutSymbol
<1> QED
  BY <1>1, <1>2, <1>5, <1>8, NothingServes, ReturnStep

\* A body opens the scope of its parameters again.
LEMMA FunctionBodyTypes ==
  ASSUME TypesInv, ScopesInv, FunctionBody
  PROVE  TypesInv'
<1> DEFINE T == Len(tables)
<1>1. status = "parsing" /\ stack # << >> /\ todo.do = "body"
  BY DEF FunctionBody, Doing
<1>2. /\ todo.function \in DOMAIN symbols /\ symbols[todo.function].kind = "function"
      /\ Gives(todo) = "nothing"
  BY <1>1, HeadStaff, DeclarationItems DEF IsItem
<1>3. CASE token # "{"
  BY <1>1, <1>2, <1>3, NothingServes, IsDone DEF FunctionBody
<1>4. CASE token = "{"
  <2>1. PICK a : a = Item("stmt")
    OBVIOUS
  <2>2. PICK b : b = [do |-> "end_of_body", function |-> todo.function, opened |-> Meaning]
    OBVIOUS
  <2>3. /\ PushTable(symbols[todo.function].symtable) /\ Continue(<< a, b >>)
        /\ function_locals_size' = 0 /\ cur_decl_type' = Local
        /\ UNCHANGED << ret, tables, symbols >>
    BY <1>4, <2>1, <2>2 DEF FunctionBody
  <2>4. symbols[todo.function].symtable \in 1 .. T
    <3>1. SymbolsOK(symbols, T) /\ T \in Nat
      BY <1>1, HeadStaff
    <3>2. IsSymbol(symbols[todo.function], symbols, T)
      BY <1>2, <3>1 DEF SymbolsOK, IsSeq
    <3> QED
      BY <1>2, <3>1, <3>2 DEF IsSymbol
  <2>5. ScopesLead'
    BY <2>3, <2>4, SameTable
  <2>6. Steady' /\ Bigger
    <3>1. /\ T \in Nat /\ T <= T /\ SymbolsOK(symbols, T) /\ TablesOK(tables, symbols)
      BY <1>1, HeadStaff
    <3>2. Local \in DeclTypes /\ 0 \in Nat
      BY DEF DeclTypes
    <3>3. Grown(symbols, symbols') /\ Len(tables') = T
      BY <2>3, GrownSame
    <3>4. SymbolsOK(symbols', Len(tables')) /\ TablesOK(tables', symbols')
      BY <2>3, <3>1
    <3> QED
      BY <2>3, <2>5, <3>1, <3>2, <3>3, <3>4 DEF Steady, Bigger
  <2>7. IsItem(a, symbols', Len(tables')) /\ Wants(a) = "nothing"
    BY <2>1, PlainItems
  <2>8. IsItem(b, symbols', Len(tables')) /\ Wants(b) = "nothing" /\ Gives(b) = "nothing"
    <3>1. IsItem(b, symbols', Len(tables')) /\ b.do = "end_of_body"
      BY <1>2, <2>2, <2>3 DEF IsItem, HasDo, Inside, InParameters, InDeclarator
    <3> QED
      BY <3>1, DeclarationItems
  <2>9. Replaces(<< a, b >>, a, todo, symbols', Len(tables'))
    BY <1>2, <2>7, <2>8, ReplacesTuples DEF Follows, Stands
  <2> QED
    BY <1>1, <2>3, <2>6, <2>7, <2>9, NothingServes, CallStep
<1> QED
  BY <1>3, <1>4

\* The end of a body drops the separator behind it.
LEMMA EndOfBodyTypes ==
  ASSUME TypesInv, ScopesInv, EndOfBody
  PROVE  TypesInv'
<1> DEFINE T == Len(tables)
<1>1. status = "parsing" /\ stack # << >> /\ todo.do = "end_of_body"
  BY DEF EndOfBody, Doing
<1>2. /\ symbols' = [symbols EXCEPT ![todo.function].locals_size = function_locals_size]
      /\ Pop /\ cur_decl_type' = Global /\ stack' = Tail(Tail(stack)) /\ status' = status
      /\ UNCHANGED << ret, tables, function_locals_size >>
  BY DEF EndOfBody
<1>3. /\ todo.function \in DOMAIN symbols /\ T \in Nat /\ T <= T
      /\ SymbolsOK(symbols, T) /\ TablesOK(tables, symbols) /\ function_locals_size \in Nat
  BY <1>1, HeadStaff DEF IsItem
<1>4. SymbolsOK(symbols', T) /\ Grown(symbols, symbols')
  <2>1. /\ DOMAIN symbols = 1 .. Len(symbols) /\ IsSeq(symbols) /\ Len(symbols) \in Nat
        /\ \A s \in DOMAIN symbols : IsSymbol(symbols[s], symbols, T)
    <3>1. IsSeq(symbols) /\ \A s \in 1 .. Len(symbols) : IsSymbol(symbols[s], symbols, T)
      BY <1>3 DEF SymbolsOK
    <3>2. DOMAIN symbols = 1 .. Len(symbols) /\ Len(symbols) \in Nat
      BY <3>1 DEF IsSeq
    <3> QED
      BY <3>1, <3>2
  <2>2. PICK y : y = [symbols[todo.function] EXCEPT !.locals_size = function_locals_size]
    OBVIOUS
  <2>3. symbols' = [symbols EXCEPT ![todo.function] = y]
    BY <1>2, <2>2
  <2>4. /\ DOMAIN y = DOMAIN symbols[todo.function] /\ y.kind = symbols[todo.function].kind
        /\ y.type = symbols[todo.function].type /\ y.size = symbols[todo.function].size
        /\ y.symtable = symbols[todo.function].symtable
    BY <2>2
  <2>5. /\ DOMAIN symbols' = DOMAIN symbols
        /\ \A s \in DOMAIN symbols : symbols'[s] = IF s = todo.function THEN y ELSE symbols[s]
    BY <2>3
  <2>6. IsSeq(symbols')
    <3> DEFINE S == {symbols[n] : n \in 1 .. Len(symbols)} \cup {y}
    <3>1. symbols \in Seq(S) /\ y \in S
      BY <2>1 DEF IsSeq
    <3> HIDE DEF S
    <3>2. symbols' \in Seq(S)
      BY <1>3, <2>1, <2>3, <3>1, ExceptSeq
    <3> QED
      BY <3>2, SeqIsSeq, Zenon
  <2>7. ASSUME NEW s \in DOMAIN symbols
        PROVE  /\ DOMAIN symbols'[s] = SymbolFields
               /\ symbols'[s].kind = symbols[s].kind /\ symbols'[s].type = symbols[s].type
               /\ symbols'[s].size \in Nat
               /\ symbols'[s].symtable \in 0 .. T
               /\ (symbols[s].symtable # 0 => symbols'[s].symtable # 0)
    <3>1. /\ DOMAIN symbols[s] = SymbolFields /\ symbols[s].size \in Nat
          /\ symbols[s].symtable \in 0 .. T
      BY <2>1 DEF IsSymbol
    <3> QED
      BY <2>4, <2>5, <3>1
  <2> HIDE DEF T
  <2>8. T \in Nat /\ T <= T /\ SymbolsOK(symbols, T)
    BY <1>3 DEF T
  <2> QED
    BY <2>5, <2>6, <2>7, <2>8, OneSymbolChanged
<1>5. TablesOK(tables', symbols')
  BY <1>2, <1>3, <1>4, StaffGrows
<1>6. ScopesLead'
  BY <1>2, TableLeft
<1>7. Steady' /\ Bigger
  BY <1>2, <1>3, <1>4, <1>5, <1>6 DEF Steady, Bigger, DeclTypes
<1>8. /\ Staffed(Tail(stack), symbols, T) /\ Tail(stack) # << >>
      /\ Wants(Head(Tail(stack))) = "nothing" /\ Gives(Head(Tail(stack))) = "nothing"
      /\ Head(Tail(stack)).do = "separator"
  <2>1. Staffed(Tail(stack), symbols, T)
    BY <1>1, PopStaff DEF TypesInv, Manned
  <2>2. Tail(stack) # << >> /\ Head(Tail(stack)).do = "separator"
    BY <1>1, HeadHasDo DEF todo
  <2> QED
    BY <2>1, <2>2, DeclarationItems
<1>9. Staffed(Tail(Tail(stack)), symbols, T) /\ Fits(Head(Tail(stack)), Tail(Tail(stack)))
  BY <1>8, PopStaff
<1>10. Tail(Tail(stack)) # << >>
  <2>1. PICK k : Stacked(stack, k)
    BY <1>1 DEF ScopesInv, Balanced
  <2> DEFINE t == Tail(stack)
  <2>2. Stacked(t, k - Held(Head(stack))) /\ t # << >>
    BY <1>1, <1>8, <2>1, PopDepth
  <2>3. Head(t).do = "separator"
    BY <1>8
  <2> HIDE DEF t
  <2>4. t \in Seq({t[n] : n \in 1 .. Len(t)}) /\ Shape(t)
    BY <2>2 DEF Stacked, IsSeq
  <2>5. /\ 1 \in 1 .. Len(t) /\ Head(t) = t[1]
        /\ Len(t) # 1 => Tail(t) # << >>
    BY <2>2, <2>4, HeadAndTail
  <2>6. Len(t) # 1
    BY <2>3, <2>4, <2>5 DEF Shape
  <2> QED
    BY <2>5, <2>6 DEF t
<1>11. Staffed(stack', symbols', Len(tables')) /\ stack' # << >>
  BY <1>2, <1>3, <1>4, <1>9, <1>10, StaffGrows
<1>12. Wants(Head(stack')) = "nothing"
  BY <1>2, <1>8, <1>9, <1>10 DEF Fits
<1> QED
  BY <1>1, <1>2, <1>7, <1>11, <1>12, NothingServes DEF TypesInv, Manned

\* The calls of statements, and of what is in them.
StatementCalls == {"stmt", "expr", "local", "else", "block", "close"}

\* Statements without a scope of their own.
LEMMA StatementTypes ==
  ASSUME TypesInv, ScopesInv,
         \/ Else \/ Do \/ Label \/ Empty \/ LocalDeclaration \/ EndOfLocal \/ Expression \/ Primary
  PROVE  TypesInv'
<1> DEFINE T == Len(tables)
<1>1. status = "parsing" /\ stack # << >> /\ todo.do \in StatementCalls
  BY DEF Else, Do, Label, Empty, LocalDeclaration, EndOfLocal, Expression, Primary, Doing, StatementCalls
<1>2. Gives(todo) = "nothing" /\ todo.do # "unit"
  BY <1>1, DeclarationItems DEF StatementCalls
<1>3. ASSUME Taking(<< >>) \/ Leaving(<< >>) PROVE TypesInv'
  BY <1>1, <1>2, <1>3, NothingServes, IsDone
<1>4. \A d \in {"stmt", "declaration", "local", "expr"} :
        IsItem(Item(d), symbols, T) /\ Wants(Item(d)) = "nothing" /\ Gives(Item(d)) = "nothing"
  BY PlainItems
<1>5. ASSUME NEW t, t # ")"
      PROVE  IsItem(Expect(t), symbols, T) /\ Wants(Expect(t)) = "nothing" /\ Gives(Expect(t)) = "nothing"
  BY <1>5, PlainItems
<1>6. CASE Empty \/ EndOfLocal
  BY <1>3, <1>6 DEF Empty, EndOfLocal
<1>7. CASE Else \/ Label
  <2>1. PICK a : a = Item("stmt")
    OBVIOUS
  <2>2. Taking(<< a >>) \/ Leaving(<< >>)
    BY <1>7, <2>1 DEF Else, Label
  <2>3. IsItem(a, symbols, T) /\ Wants(a) = "nothing" /\ Gives(a) = "nothing"
    BY <1>4, <2>1
  <2>4. Replaces(<< a >>, a, todo, symbols, T)
    BY <1>2, <2>3, ReplacesOne DEF Stands
  <2> QED
    BY <1>1, <1>3, <2>2, <2>3, <2>4, NothingServes, GoesOn
<1>8. CASE Do
  <2>1. PICK a : a = Item("stmt")
    OBVIOUS
  <2>2. PICK b : b = Expect("while")
    OBVIOUS
  <2>3. PICK c : c = Expect(";")
    OBVIOUS
  <2>4. Taking(<< a, b, c >>)
    BY <1>8, <2>1, <2>2, <2>3 DEF Do
  <2>5. /\ IsItem(a, symbols, T) /\ Wants(a) = "nothing" /\ Gives(a) = "nothing"
        /\ IsItem(b, symbols, T) /\ Wants(b) = "nothing" /\ Gives(b) = "nothing"
        /\ IsItem(c, symbols, T) /\ Wants(c) = "nothing" /\ Gives(c) = "nothing"
    BY <1>4, <1>5, <2>1, <2>2, <2>3
  <2>6. Replaces(<< a, b, c >>, a, todo, symbols, T)
    BY <1>2, <2>5, ReplacesTuples DEF Follows, Stands
  <2> QED
    BY <1>1, <2>4, <2>5, <2>6, NothingServes, GoesOn
<1>9. CASE LocalDeclaration \/ Expression
  <2>1. PICK a, b : \/ a = Item("declaration") /\ b = Item("local") /\ LocalDeclaration
                    \/ a = Item("expr") /\ b = Expect(";") /\ Expression
    BY <1>9
  <2>2. Leaving(<< a, b >>)
    BY <2>1 DEF LocalDeclaration, Expression
  <2>3. /\ IsItem(a, symbols, T) /\ Wants(a) = "nothing" /\ Gives(a) = "nothing"
        /\ IsItem(b, symbols, T) /\ Wants(b) = "nothing" /\ Gives(b) = "nothing"
    <3>1. /\ IsItem(Expect(";"), symbols, T)
          /\ Wants(Expect(";")) = "nothing" /\ Gives(Expect(";")) = "nothing"
      BY <1>5
    <3> QED
      BY <1>4, <2>1, <3>1
  <2>4. Replaces(<< a, b >>, a, todo, symbols, T)
    BY <1>2, <2>3, ReplacesTuples DEF Follows, Stands
  <2> QED
    BY <1>1, <2>2, <2>3, <2>4, NothingServes, GoesOn
<1>10. CASE Primary
  <2>1. Taking(<< >>) \/ Crash \/ Fail
    BY <1>10 DEF Primary
  <2> QED
    BY <1>1, <1>3, <2>1, CrashTypes, FailTypes
<1> QED
  BY <1>6, <1>7, <1>8, <1>9, <1>10

\* What closes the scope of a statement.
LEMMA CloseIs ==
  ASSUME NEW Y, NEW T, NEW x, HasDo(x), x.do \in {"stmt", "block", "close", "else"}
  PROVE  IsItem(x, Y, T) /\ Wants(x) = "nothing" /\ Gives(x) = "nothing"
<1>1. IsItem(x, Y, T)
  BY DEF IsItem, Inside, InParameters, InDeclarator
<1> QED
  BY <1>1, DeclarationItems

\* A statement opens a scope.
LEMMA OpeningTypes ==
  ASSUME TypesInv, status = "parsing", stack # << >>, NEW items, Opening(items),
         NEW a, Wants(a) = "nothing", \A T : Replaces(items, a, todo, symbols, T)
  PROVE  TypesInv'
<1> DEFINE T == Len(tables)
<1>1. /\ PushNew /\ Continue(items)
      /\ UNCHANGED << ret, symbols, cur_decl_type, function_locals_size >>
  BY DEF Opening
<1>2. /\ ScopesLead' /\ T \in Nat /\ Len(tables') = T + 1 /\ TablesOK(tables', symbols)
  BY <1>1, NewTable DEF TypesInv, Steady
<1>3. T <= T + 1 /\ T + 1 \in Nat
  BY <1>2
<1>4. SymbolsOK(symbols, T + 1)
  BY <1>2, <1>3, MoreTables DEF TypesInv, Steady
<1>5. Steady' /\ Bigger
  BY <1>1, <1>2, <1>3, <1>4, GrownSame DEF Steady, Bigger, TypesInv
<1>6. Replaces(items, a, todo, symbols', Len(tables'))
  BY <1>1
<1> QED
  BY <1>1, <1>5, <1>6, NothingServes, CallStep

\* A statement's scope is left.
LEMMA LeavingTypes ==
  ASSUME TypesInv, ScopesInv, status = "parsing", stack # << >>, todo.do \in {"block", "close"},
         Pop, Continue(<< >>), UNCHANGED << ret, tables, symbols, cur_decl_type, function_locals_size >>
  PROVE  TypesInv'
<1> DEFINE T == Len(tables)
<1>1. /\ T \in Nat /\ T <= T /\ SymbolsOK(symbols, T) /\ TablesOK(tables, symbols)
  BY HeadStaff
<1>2. Grown(symbols, symbols') /\ Len(tables') = T
  BY GrownSame
<1>3. SymbolsOK(symbols', Len(tables')) /\ TablesOK(tables', symbols') /\ ScopesLead'
  BY <1>1, TableLeft
<1>4. Steady' /\ Bigger
  BY <1>1, <1>2, <1>3 DEF Steady, Bigger, TypesInv
<1>5. Gives(todo) = "nothing" /\ todo.do # "unit"
  BY DeclarationItems
<1> QED
  BY <1>4, <1>5, NothingServes, ReturnStep

\* Statements with a scope of their own.
LEMMA ScopeTypes ==
  ASSUME TypesInv, ScopesInv, Compound \/ Block \/ Nested \/ EndOfNested
  PROVE  TypesInv'
<1> DEFINE T == Len(tables)
<1>1. status = "parsing" /\ stack # << >> /\ todo.do \in {"stmt", "block", "close"}
  BY DEF Compound, Block, Nested, EndOfNested, Doing
<1>2. Gives(todo) = "nothing" /\ HasDo(todo)
  BY <1>1, DeclarationItems, HeadHasDo DEF todo
<1>3. PICK a : a = Item("stmt")
  OBVIOUS
<1>4. PICK c : c = Close
  OBVIOUS
<1>5. PICK b : b = [Close EXCEPT !.do = "block"]
  OBVIOUS
<1>6. PICK e : e = Item("else")
  OBVIOUS
<1>7. /\ HasDo(a) /\ a.do = "stmt" /\ HasDo(b) /\ b.do = "block"
      /\ HasDo(c) /\ c.do = "close" /\ HasDo(e) /\ e.do = "else"
  BY <1>3, <1>4, <1>5, <1>6 DEF Item, Close, HasDo
<1>8. ASSUME NEW U
      PROVE  /\ IsItem(a, symbols, U) /\ Wants(a) = "nothing" /\ Gives(a) = "nothing"
             /\ IsItem(b, symbols, U) /\ Wants(b) = "nothing" /\ Gives(b) = "nothing"
             /\ IsItem(c, symbols, U) /\ Wants(c) = "nothing" /\ Gives(c) = "nothing"
             /\ IsItem(e, symbols, U) /\ Wants(e) = "nothing" /\ Gives(e) = "nothing"
  BY <1>7, CloseIs
<1>9. ASSUME NEW U
      PROVE  /\ Replaces(<< b >>, b, todo, symbols, U)
             /\ Replaces(<< a, c >>, a, todo, symbols, U)
             /\ Replaces(<< a, c, e >>, a, todo, symbols, U)
  <2>1. Replaces(<< b >>, b, todo, symbols, U)
    BY <1>2, <1>8, ReplacesOne DEF Stands
  <2>2. Replaces(<< a, c >>, a, todo, symbols, U) /\ Replaces(<< a, c, e >>, a, todo, symbols, U)
    BY <1>2, <1>8, ReplacesTuples DEF Follows, Stands
  <2> QED
    BY <2>1, <2>2
<1>10. Wants(a) = "nothing" /\ Wants(b) = "nothing"
  BY <1>8
<1>11. CASE Compound
  <2>1. Opening(<< b >>)
    BY <1>5, <1>11 DEF Compound
  <2> QED
    BY <1>1, <1>9, <1>10, <2>1, OpeningTypes
<1>12. CASE Nested
  <2>1. Opening(<< a, c >>) \/ Opening(<< a, c, e >>)
    BY <1>3, <1>4, <1>6, <1>12 DEF Nested
  <2> QED
    BY <1>1, <1>9, <1>10, <2>1, OpeningTypes
<1>13. CASE Block
  <2>1. CASE token # "}"
    <3>1. Leaving(<< a, todo >>)
      BY <1>3, <1>13, <2>1 DEF Block
    <3>2. IsItem(todo, symbols, T) /\ Wants(todo) = "nothing"
      BY <1>1, <1>2, CloseIs
    <3>3. Replaces(<< a, todo >>, a, todo, symbols, T)
      BY <1>2, <1>8, <3>2, ReplacesTuples DEF Follows, Stands
    <3> QED
      BY <1>1, <1>10, <3>1, <3>3, NothingServes, GoesOn
  <2>2. CASE token = "}"
    <3>1. todo.do \in {"block", "close"} /\ Pop /\ Continue(<< >>)
          /\ UNCHANGED << ret, tables, symbols, cur_decl_type, function_locals_size >>
      BY <1>13, <2>2 DEF Block, Doing
    <3> QED
      BY <1>1, <3>1, LeavingTypes
  <2> QED
    BY <2>1, <2>2
<1>14. CASE EndOfNested
  <2>1. todo.do \in {"block", "close"} /\ Pop /\ Continue(<< >>)
        /\ UNCHANGED << ret, tables, symbols, cur_decl_type, function_locals_size >>
    BY <1>14 DEF EndOfNested, Doing
  <2> QED
    BY <1>1, <2>1, LeavingTypes
<1> QED
  BY <1>11, <1>12, <1>13, <1>14

----------------------------------------------------------------------------
\* What parser_parse starts with.
LEMMA InitTypes == ASSUME Init PROVE TypesInv
<1>1. /\ stack = << Item("unit") >> /\ status = "parsing" /\ symtables = << 1, 2 >>
      /\ tables = << << >>, << >> >> /\ symbols = << >>
      /\ cur_decl_type = Global /\ function_locals_size = 0
  BY DEF Init
<1>2. SymbolsOK(symbols, Len(tables))
  <2>1. \A n \in 1 .. Len(<< >>) : FALSE
    BY None
  <2> QED
    BY <1>1, <2>1, None DEF SymbolsOK
<1>3. Len(tables) = 2 /\ TablesOK(tables, symbols)
  <2> DEFINE B == << << >>, << >> >>
  <2>1. B \in Seq({<< >>}) /\ Len(B) = 2 /\ \A i \in 1 .. Len(B) : B[i] = << >>
    OBVIOUS
  <2>2. IsSeq(B)
    <3> HIDE DEF B
    <3> QED
      BY <2>1, SeqIsSeq, Zenon
  <2>3. \A n \in 1 .. Len(<< >>) : FALSE
    BY None
  <2> HIDE DEF B
  <2>4. tables = B
    BY <1>1 DEF B
  <2> QED
    BY <2>1, <2>2, <2>3, <2>4, None DEF TablesOK
<1>4. ScopesLead
  <2> DEFINE s == << 1, 2 >>
  <2>1. s \in Seq({1, 2}) /\ Len(s) = 2 /\ \A i \in 1 .. Len(s) : s[i] \in 1 .. 2
    OBVIOUS
  <2>2. IsSeq(s)
    <3> HIDE DEF s
    <3> QED
      BY <2>1, SeqIsSeq, Zenon
  <2> HIDE DEF s
  <2>3. symtables = s
    BY <1>1 DEF s
  <2> QED
    BY <1>3, <2>1, <2>2, <2>3 DEF ScopesLead
<1>5. PICK x : x = Item("unit")
  OBVIOUS
<1>6. IsItem(x, symbols, Len(tables)) /\ Wants(x) = "nothing"
  <2>1. x.do = "unit" /\ HasDo(x)
    BY <1>5 DEF Item, HasDo
  <2>2. IsItem(x, symbols, Len(tables))
    BY <2>1 DEF IsItem, Inside, InParameters, InDeclarator
  <2> QED
    BY <2>1, <2>2, DeclarationItems
<1>7. Staffed(stack, symbols, Len(tables)) /\ stack # << >> /\ Head(stack) = x
  <2>1. IsSeq(<< x >>) /\ Len(<< x >>) = 1 /\ << x >>[1] = x
    BY One
  <2>2. /\ \A n \in 1 .. Len(<< x >>) : n = 1
        /\ \A n \in 1 .. Len(<< x >>) - 1 : FALSE
    BY <2>1
  <2>3. Staffed(<< x >>, symbols, Len(tables))
    BY <1>6, <2>1, <2>2 DEF Staffed
  <2>4. << x >> # << >> /\ Head(<< x >>) = x
    OBVIOUS
  <2> QED
    BY <1>1, <1>5, <2>3, <2>4
<1>8. Steady
  BY <1>1, <1>2, <1>3, <1>4 DEF Steady, DeclTypes
<1>9. Manned
  BY <1>1, <1>6, <1>7, NothingServes DEF Manned
<1> QED
  BY <1>8, <1>9 DEF TypesInv

\* Each symbol's type is made of parts, each table's entries are symbols, and the invariant
\* of the stack has the two outermost scopes in their places.
LEMMA TypesSuffice == ASSUME TypesInv, ScopesInv PROVE TypeOK
<1>1. SubSeq(symtables, 1, 2) = << 1, 2 >>
  <2> DEFINE S == {symtables[n] : n \in 1 .. Len(symtables)} \cup {1, 2}
             u == SubSeq(symtables, 1, 2)
  <2>1. /\ symtables \in Seq(S) /\ Len(symtables) \in Nat /\ Len(symtables) >= 2
        /\ symtables[1] = 1 /\ symtables[2] = 2
    BY DEF ScopesInv, Outermost, IsSeq
  <2>2. \A i \in 1 .. 2 : symtables[i] \in S
    BY <2>1
  <2>3. << 1, 2 >> \in Seq(S) /\ Len(<< 1, 2 >>) = 2 /\ << 1, 2 >>[1] = 1 /\ << 1, 2 >>[2] = 2
    OBVIOUS
  <2> HIDE DEF S
  <2>4. /\ u \in Seq(S) /\ Len(u) = 2 /\ u[1] = 1 /\ u[2] = 2
    <3>1. /\ u \in Seq(S)
          /\ Len(u) = IF 1 <= 2 THEN 2 - 1 + 1 ELSE 0
          /\ \A i \in 1 .. 2 - 1 + 1 : u[i] = symtables[1 + i - 1]
      BY <2>1, <2>2, SubSeqProperties
    <3> QED
      BY <2>1, <3>1
  <2> HIDE DEF u
  <2>5. \A i \in 1 .. 2 : u[i] = << 1, 2 >>[i]
    BY <2>3, <2>4
  <2>6. u = << 1, 2 >>
    BY <2>3, <2>4, <2>5, SeqEqual
  <2> QED
    BY <2>6 DEF u
<1>2. Range(symtables) \subseteq DOMAIN tables
  <2>1. DOMAIN symtables = 1 .. Len(symtables) /\ DOMAIN tables = 1 .. Len(tables)
    <3>1. IsSeq(symtables) /\ IsSeq(tables)
      BY DEF TypesInv, Steady, ScopesLead, TablesOK
    <3> QED
      BY <3>1 DEF IsSeq
  <2>2. \A i \in 1 .. Len(symtables) : symtables[i] \in 1 .. Len(tables)
    BY DEF TypesInv, Steady, ScopesLead
  <2> QED
    BY <2>1, <2>2 DEF Range
<1>3. \A t \in DOMAIN tables : \A i \in DOMAIN tables[t] : tables[t][i].sym \in DOMAIN symbols
  <2>1. DOMAIN tables = 1 .. Len(tables)
    BY DEF TypesInv, Steady, TablesOK, IsSeq
  <2>2. \A t \in 1 .. Len(tables) : DOMAIN tables[t] = 1 .. Len(tables[t])
    BY DEF TypesInv, Steady, TablesOK, IsSeq
  <2> QED
    BY <2>1, <2>2 DEF TypesInv, Steady, TablesOK, IsEntry
<1>4. ASSUME NEW s \in DOMAIN symbols
      PROVE  /\ symbols[s].kind \in Kinds /\ symbols[s].size \in Nat
             /\ \A i \in DOMAIN symbols[s].type : symbols[s].type[i].kind \in TypeKinds
  <2>1. s \in 1 .. Len(symbols)
    BY DEF TypesInv, Steady, SymbolsOK, IsSeq
  <2>2. IsSymbol(symbols[s], symbols, Len(tables))
    BY <2>1 DEF TypesInv, Steady, SymbolsOK
  <2>3. DOMAIN symbols[s].type = 1 .. Len(symbols[s].type)
    BY <2>2 DEF IsSymbol, IsParts, IsSeq
  <2> QED
    BY <2>2, <2>3 DEF IsSymbol, IsParts, IsPart
<1> QED
  BY <1>1, <1>2, <1>3, <1>4 DEF TypeOK, TypesInv, Steady, Manned, DeclTypes

\* Whatever the program, every call finds what it was promised: the symbols its type names,
\* the table its function has, a whole type where it declares one.
THEOREM CallsAreServed == Spec => []TypesInv
<1>1. Init => TypesInv
  BY InitTypes
<1>2. TypesInv /\ ScopesInv /\ [Next]_vars => TypesInv'
  <2> SUFFICES ASSUME TypesInv, ScopesInv, [Next]_vars PROVE TypesInv'
    OBVIOUS
  <2>1. CASE UNCHANGED vars
    BY <2>1 DEF vars, scopes, TypesInv, Steady, Manned, ScopesLead
  <2>2. CASE Next
    BY <2>2, TokenTypes, SpecifierTypes, StructuredTypes, StructTypes, FieldTypes, EnumTypes,
       BeforeName, BehindName, PutTogether, ArrayTypes, ParameterTypes, ParameterDeclaratorTypes,
       UnitTypes, DeclarationTypes, JoinsTypes, DeclaredFunctionTypes, DeclaredVariableTypes,
       VariableTypes, FunctionBodyTypes, EndOfBodyTypes, StatementTypes, ScopeTypes, Zenon DEF Next
  <2> QED
    BY <2>1, <2>2
<1> QED
  BY <1>1, <1>2, ScopesFollowCalls, PTL DEF Spec

\* TypeOK: the two outermost scopes are never left, every name denotes a symbol, and no symbol
\* is left with the NULL of a failed declarator in its type.
THEOREM DeclarationTypesHold == Spec => []TypeOK
  BY CallsAreServed, ScopesFollowCalls, TypesSuffice, PTL

=============================================================================
