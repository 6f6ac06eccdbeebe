--------------------------- MODULE NestingProofs ----------------------------
(***************************************************************************)
(* That scopes nest: the properties BlocksRestoreNames and SignaturesFixed *)
(* of Declarations, for every program.  They rest on DeclarationsProofs,   *)
(* that there are as many scopes as calls to close them and that types     *)
(* refer to what is there.                                                 *)
(*                                                                         *)
(* Each call on the C stack stands in one of the scopes, that of its       *)
(* place in Depths.  NestInv says what it knows of it (Settled), and that  *)
(* the scopes stand in the order in which their tables were made, so that  *)
(* the scope of a function's parameters, opened behind those around the    *)
(* declaration, is none of them.                                           *)
(***************************************************************************)
EXTENDS DeclarationsProofs

----------------------------------------------------------------------------
(* What a name means by the scopes below a call *)

EntryAt(B, t, name, class) == {i \in DOMAIN B[t] : B[t][i].name = name /\ B[t][i].class = class}

FoundBelow(S, k, B, name, class) == {i \in 1 .. k - 1 : EntryAt(B, S[i], name, class) # {}}

\* GetSymbol, as if the scopes from the k-th on were not there.
DenotedBelow(S, k, B, name, class) ==
  IF FoundBelow(S, k, B, name, class) = {} THEN 0
  ELSE B[S[Max(FoundBelow(S, k, B, name, class))]]
        [Min(EntryAt(B, S[Max(FoundBelow(S, k, B, name, class))], name, class))].sym

MeaningBelow(S, k, B) == [n \in Names |-> [c \in Classes |-> DenotedBelow(S, k, B, n, c)]]

\* It does not depend on what the scopes above do.
LEMMA MeaningAgrees ==
  ASSUME NEW k \in Nat \ {0}, NEW S, NEW B, NEW P, NEW C,
         \A i \in 1 .. k - 1 : P[i] = S[i] /\ C[S[i]] = B[S[i]]
  PROVE  MeaningBelow(P, k, C) = MeaningBelow(S, k, B)
<1>1. \A i \in 1 .. k - 1 : \A n, c : EntryAt(C, P[i], n, c) = EntryAt(B, S[i], n, c)
  BY DEF EntryAt
<1>2. \A n, c : FoundBelow(P, k, C, n, c) = FoundBelow(S, k, B, n, c)
  BY <1>1 DEF FoundBelow
<1>3. ASSUME NEW n, NEW c, FoundBelow(S, k, B, n, c) # {}
      PROVE  Max(FoundBelow(S, k, B, n, c)) \in 1 .. k - 1
  <2>1. PICK D : D = FoundBelow(S, k, B, n, c)
    OBVIOUS
  <2>2. D \in SUBSET (1 .. k - 1)
    BY <2>1 DEF FoundBelow
  <2>3. D \in SUBSET (0 .. k - 1) /\ D # {} /\ k - 1 \in Nat
    BY <1>3, <2>1, <2>2
  <2>4. Max(D) \in D
    BY <2>3, MaxIsGreatest
  <2> QED
    BY <2>1, <2>2, <2>4
<1>4. ASSUME NEW n, NEW c, FoundBelow(S, k, B, n, c) # {}
      PROVE  C[P[Max(FoundBelow(P, k, C, n, c))]]
              [Min(EntryAt(C, P[Max(FoundBelow(P, k, C, n, c))], n, c))].sym
             = B[S[Max(FoundBelow(S, k, B, n, c))]]
                [Min(EntryAt(B, S[Max(FoundBelow(S, k, B, n, c))], n, c))].sym
  <2>1. PICK m \in 1 .. k - 1 : m = Max(FoundBelow(S, k, B, n, c))
    BY <1>3, <1>4
  <2>2. m = Max(FoundBelow(P, k, C, n, c))
    BY <1>2, <2>1
  <2>3. P[m] = S[m] /\ C[S[m]] = B[S[m]] /\ EntryAt(C, P[m], n, c) = EntryAt(B, S[m], n, c)
    BY <1>1
  <2> QED
    BY <2>1, <2>2, <2>3
<1>5. \A n, c : DenotedBelow(P, k, C, n, c) = DenotedBelow(S, k, B, n, c)
  BY <1>2, <1>4 DEF DenotedBelow
<1> QED
  BY <1>5 DEF MeaningBelow

\* What names mean now is what they mean by all scopes there are.
LEMMA MeaningIs ==
  ASSUME IsSeq(symtables)
  PROVE  Meaning = MeaningBelow(symtables, Len(symtables) + 1, tables)
<1>1. DOMAIN symtables = 1 .. Len(symtables) /\ Len(symtables) + 1 - 1 = Len(symtables)
  BY DEF IsSeq
<1>2. \A t, n, c : EntryAt(tables, t, n, c) = Entry(t, n, c)
  BY DEF EntryAt, Entry
<1>3. \A n, c : FoundBelow(symtables, Len(symtables) + 1, tables, n, c) = Found(n, c)
  BY <1>1, <1>2 DEF FoundBelow, Found
<1>4. ASSUME NEW n, NEW c
      PROVE  GetSymbol(n, c) = DenotedBelow(symtables, Len(symtables) + 1, tables, n, c)
  <2>1. PICK m : m = Max(Found(n, c))
    OBVIOUS
  <2>2. m = Max(FoundBelow(symtables, Len(symtables) + 1, tables, n, c))
    BY <1>3, <2>1
  <2>3. GetSymbol(n, c) = IF Found(n, c) = {} THEN 0
                          ELSE tables[symtables[m]][Min(Entry(symtables[m], n, c))].sym
    BY <2>1 DEF GetSymbol
  <2> QED
    BY <1>2, <1>3, <2>2, <2>3 DEF DenotedBelow
<1> QED
  BY <1>4 DEF Meaning, MeaningBelow

----------------------------------------------------------------------------
(* The calls and the scopes they stand in *)

\* The tables of the functions' parameters.
Sigs(Y) == {Y[f].symtable : f \in {s \in DOMAIN Y : Y[s].kind = "function"}}

\* The functions in a type were declared in scopes opened behind m.
Fresh(t, m) == \A i \in 1 .. Len(t) : t[i].kind = "func" => t[i].sym > m

\* What a call knows that has been left in the k-th scope: one that closes it, what names
\* meant before; a declarator, functions declared within; and in the scope of a function's
\* parameters, there is nothing to do but to leave it.
Settled(x, k, S, B, Y) ==
  /\ x.do \in Closers => "opened" \in DOMAIN x /\ x.opened = MeaningBelow(S, k, B)
  /\ x.do \in {"suffix", "linked"} => Fresh(x.inner, S[k])
  /\ x.do = "body" =>
       x.function \in DOMAIN Y /\ Y[x.function].kind = "function" /\ Y[x.function].symtable > S[k]
  /\ x.do = "variable" => x.symbol.kind # "function"
  /\ x.do # "end_of_body" => S[k] \notin Sigs(Y)

\* The calls s, over the scopes below k, know what is true.
Housed(s, k, S, B, Y) ==
  /\ IsSeq(s)
  /\ \E d : Depths(s, d) /\ d[1] = k /\ \A n \in 1 .. Len(s) : Settled(s[n], d[n], S, B, Y)

\* A call that returns gives back the scope it was to close.
LEMMA HousedPop ==
  ASSUME NEW s, NEW k, NEW S, NEW B, NEW Y, Housed(s, k, S, B, Y), s # << >>
  PROVE  /\ Housed(Tail(s), k - Held(Head(s)), S, B, Y) /\ Settled(Head(s), k, S, B, Y)
         /\ k \in Nat /\ k - Held(Head(s)) \in Nat /\ k - Held(Head(s)) >= 2
<1> DEFINE R == {s[n] : n \in 1 .. Len(s)}
           t == Tail(s)
<1>1. s \in Seq(R) /\ Len(s) \in Nat \ {0}
  BY DEF Housed, IsSeq
<1>2. t \in Seq(R) /\ Len(t) = Len(s) - 1 /\ \A n \in 1 .. Len(t) : t[n] = s[n + 1]
  BY <1>1
<1>3. IsSeq(t)
  BY <1>2, SeqIsSeq
<1>4. PICK d : Depths(s, d) /\ d[1] = k /\ \A n \in 1 .. Len(s) : Settled(s[n], d[n], S, B, Y)
  BY DEF Housed
<1>5. /\ d \in [1 .. Len(s) + 1 -> Nat] /\ d[Len(s) + 1] = 2
      /\ \A n \in 1 .. Len(s) : d[n] = d[n + 1] + Held(s[n])
      /\ \A m, n \in 1 .. Len(s) + 1 : m <= n => d[n] <= d[m]
  BY <1>4 DEF Depths
<1> HIDE DEF R, t
<1> DEFINE e == [n \in 1 .. Len(t) + 1 |-> d[n + 1]]
<1>6. \A n \in 1 .. Len(t) + 1 : n + 1 \in 1 .. Len(s) + 1 /\ e[n] = d[n + 1]
  BY <1>1, <1>2
<1>7. Depths(t, e)
  <2>1. e \in [1 .. Len(t) + 1 -> Nat] /\ e[Len(t) + 1] = 2
    <3>1. Len(t) + 1 \in 1 .. Len(t) + 1 /\ Len(t) + 1 + 1 = Len(s) + 1
      BY <1>1, <1>2
    <3>2. e[Len(t) + 1] = 2
      BY <1>5, <1>6, <3>1
    <3> QED
      BY <1>5, <1>6, <3>2
  <2>2. ASSUME NEW n \in 1 .. Len(t) PROVE e[n] = e[n + 1] + Held(t[n])
    <3>1. /\ n + 1 \in 1 .. Len(s) /\ n \in 1 .. Len(t) + 1 /\ n + 1 \in 1 .. Len(t) + 1
          /\ t[n] = s[n + 1]
      BY <1>1, <1>2
    <3>2. e[n] = d[n + 1] /\ e[n + 1] = d[n + 1 + 1]
      BY <1>6, <3>1
    <3> QED
      BY <1>5, <3>1, <3>2
  <2>3. ASSUME NEW m \in 1 .. Len(t) + 1, NEW n \in 1 .. Len(t) + 1, m <= n PROVE e[n] <= e[m]
    <3>1. n + 1 \in 1 .. Len(s) + 1 /\ m + 1 \in 1 .. Len(s) + 1 /\ m + 1 <= n + 1
      BY <1>1, <1>2, <2>3
    <3> QED
      BY <1>5, <1>6, <3>1
  <2> HIDE DEF e
  <2> QED
    BY <2>1, <2>2, <2>3 DEF Depths
<1>8. /\ 1 \in 1 .. Len(t) + 1 /\ e[1] = k - Held(s[1]) /\ e[1] \in Nat /\ e[1] >= 2 /\ k \in Nat
  <2>1. /\ 1 \in 1 .. Len(s) /\ 1 \in 1 .. Len(t) + 1 /\ 2 \in 1 .. Len(s) + 1 /\ 1 + 1 = 2
        /\ 2 <= Len(s) + 1 /\ Len(s) + 1 \in 1 .. Len(s) + 1 /\ 1 \in 1 .. Len(s) + 1
    BY <1>1, <1>2
  <2>2. d[1] = d[2] + Held(s[1]) /\ d[2] >= 2 /\ d[2] \in Nat /\ d[1] \in Nat
    BY <1>5, <2>1
  <2>3. e[1] = d[2] /\ Held(s[1]) \in Nat
    BY <1>6, <2>1 DEF Held
  <2> HIDE DEF e
  <2> QED
    BY <1>4, <2>1, <2>2, <2>3
<1>9. Head(s) = s[1] /\ 1 \in 1 .. Len(s)
  BY <1>1
<1>10. \A n \in 1 .. Len(t) : Settled(t[n], e[n], S, B, Y)
  <2>1. \A n \in 1 .. Len(t) : n + 1 \in 1 .. Len(s) /\ n \in 1 .. Len(t) + 1
    BY <1>1, <1>2
  <2> HIDE DEF e
  <2> QED
    BY <1>2, <1>4, <1>6, <2>1
<1> HIDE DEF e
<1>11. Housed(t, k - Held(s[1]), S, B, Y)
  BY <1>3, <1>7, <1>8, <1>10 DEF Housed
<1> QED
  BY <1>4, <1>8, <1>9, <1>11 DEF t

\* A call on the others.
LEMMA HousedPush ==
  ASSUME NEW s, NEW k, NEW S, NEW B, NEW Y, Housed(s, k, S, B, Y),
         NEW x, Settled(x, k + Held(x), S, B, Y)
  PROVE  /\ Housed(<< x >> \o s, k + Held(x), S, B, Y)
         /\ << x >> \o s # << >> /\ Head(<< x >> \o s) = x
<1> DEFINE R == {s[n] : n \in 1 .. Len(s)} \cup {x}
           t == << x >> \o s
<1>1. s \in Seq(R) /\ Len(s) \in Nat /\ x \in R
  BY DEF Housed, IsSeq
<1> HIDE DEF R
<1>2. /\ t \in Seq(R) /\ Len(t) = 1 + Len(s)
      /\ \A n \in 1 .. 1 + Len(s) : t[n] = IF n <= 1 THEN << x >>[n] ELSE s[n - 1]
  BY <1>1, ConsProperties
<1>3. IsSeq(t)
  BY <1>2, SeqIsSeq, Zenon
<1> HIDE DEF t
<1>4. t[1] = x /\ \A n \in 2 .. 1 + Len(s) : t[n] = s[n - 1]
  <2>1. 1 \in 1 .. 1 + Len(s) /\ << x >>[1] = x
    BY <1>1
  <2>2. \A n \in 2 .. 1 + Len(s) : n \in 1 .. 1 + Len(s) /\ ~(n <= 1)
    BY <1>1
  <2> QED
    BY <1>2, <2>1, <2>2
<1>5. PICK d : Depths(s, d) /\ d[1] = k /\ \A n \in 1 .. Len(s) : Settled(s[n], d[n], S, B, Y)
  BY DEF Housed
<1>6. /\ d \in [1 .. Len(s) + 1 -> Nat] /\ d[Len(s) + 1] = 2
      /\ \A n \in 1 .. Len(s) : d[n] = d[n + 1] + Held(s[n])
      /\ \A m, n \in 1 .. Len(s) + 1 : m <= n => d[n] <= d[m]
  BY <1>5 DEF Depths
<1>7. k \in Nat /\ Held(x) \in Nat
  <2>1. 1 \in 1 .. Len(s) + 1
    BY <1>1
  <2> QED
    BY <1>5, <1>6, <2>1 DEF Held
<1> DEFINE e == [n \in 1 .. Len(t) + 1 |-> IF n = 1 THEN k + Held(x) ELSE d[n - 1]]
<1>8. /\ e[1] = k + Held(x)
      /\ \A n \in 2 .. Len(t) + 1 : n - 1 \in 1 .. Len(s) + 1 /\ e[n] = d[n - 1]
  BY <1>1, <1>2
<1>9. Depths(t, e)
  <2>1. e \in [1 .. Len(t) + 1 -> Nat]
    <3>1. \A n \in 1 .. Len(t) + 1 : n # 1 => n - 1 \in 1 .. Len(s) + 1
      BY <1>1, <1>2
    <3> QED
      BY <1>6, <1>7, <3>1
  <2> HIDE DEF e
  <2>2. e[Len(t) + 1] = 2
    <3>1. Len(t) + 1 \in 2 .. Len(t) + 1 /\ Len(t) + 1 - 1 = Len(s) + 1
      BY <1>1, <1>2
    <3> QED
      BY <1>6, <1>8, <3>1
  <2>3. ASSUME NEW n \in 1 .. Len(t) PROVE e[n] = e[n + 1] + Held(t[n])
    <3>1. CASE n = 1
      <4>1. 2 \in 2 .. Len(t) + 1 /\ 2 - 1 = 1 /\ n + 1 = 2
        BY <1>1, <1>2, <3>1
      <4>2. e[n + 1] = k
        BY <1>5, <1>8, <4>1
      <4> QED
        BY <1>4, <1>8, <3>1, <4>2
    <3>2. CASE n # 1
      <4>1. /\ n \in 2 .. Len(t) + 1 /\ n + 1 \in 2 .. Len(t) + 1 /\ n - 1 \in 1 .. Len(s)
            /\ n + 1 - 1 = (n - 1) + 1 /\ n \in 2 .. 1 + Len(s)
        BY <1>1, <1>2, <3>2
      <4>2. e[n] = d[n - 1] /\ e[n + 1] = d[(n - 1) + 1] /\ t[n] = s[n - 1]
        BY <1>4, <1>8, <4>1
      <4> QED
        BY <1>6, <4>1, <4>2
    <3> QED
      BY <3>1, <3>2
  <2>4. ASSUME NEW m \in 1 .. Len(t) + 1, NEW n \in 1 .. Len(t) + 1, m <= n PROVE e[n] <= e[m]
    <3>1. CASE n = 1
      BY <1>7, <1>8, <2>4, <3>1
    <3>2. CASE n # 1 /\ m = 1
      <4>1. n \in 2 .. Len(t) + 1 /\ 1 \in 1 .. Len(s) + 1 /\ 1 <= n - 1 /\ n - 1 \in 1 .. Len(s) + 1
        BY <1>1, <1>2, <3>2
      <4>2. d[n - 1] <= k /\ d[n - 1] \in Nat
        BY <1>5, <1>6, <4>1
      <4>3. e[n] <= k + Held(x)
        BY <1>7, <1>8, <4>1, <4>2
      <4> QED
        BY <1>8, <3>2, <4>3
    <3>3. CASE n # 1 /\ m # 1
      <4>1. /\ n \in 2 .. Len(t) + 1 /\ m \in 2 .. Len(t) + 1 /\ m - 1 <= n - 1
            /\ n - 1 \in 1 .. Len(s) + 1 /\ m - 1 \in 1 .. Len(s) + 1
        BY <1>1, <1>2, <2>4, <3>3
      <4> QED
        BY <1>6, <1>8, <4>1
    <3> QED
      BY <3>1, <3>2, <3>3
  <2> QED
    BY <2>1, <2>2, <2>3, <2>4 DEF Depths
<1>10. ASSUME NEW n \in 1 .. Len(t) PROVE Settled(t[n], e[n], S, B, Y)
  <2> HIDE DEF e
  <2>1. CASE n = 1
    BY <1>4, <1>8, <2>1
  <2>2. CASE n # 1
    <3>1. n \in 2 .. Len(t) + 1 /\ n - 1 \in 1 .. Len(s) /\ n \in 2 .. 1 + Len(s)
      BY <1>1, <1>2, <2>2
    <3> QED
      BY <1>4, <1>5, <1>8, <3>1
  <2> QED
    BY <2>1, <2>2
<1> HIDE DEF e
<1>11. Housed(t, k + Held(x), S, B, Y)
  BY <1>3, <1>8, <1>9, <1>10 DEF Housed
<1>12. t # << >> /\ Head(t) = x
  <2>1. Len(t) # 0
    BY <1>1, <1>2
  <2> QED
    BY <1>2, <1>4, <2>1
<1> QED
  BY <1>11, <1>12 DEF t

----------------------------------------------------------------------------
(* What a step leaves of the scopes *)

\* The first k scopes are the same after as before, their tables too, but for the last of
\* them, and no table of parameters is new among them.
Agree(k, S, B, Y, P, C, Z) ==
  /\ \A i \in 1 .. k : P[i] = S[i] /\ (S[i] \in Sigs(Z) => S[i] \in Sigs(Y))
  /\ \A i \in 1 .. k - 1 : C[S[i]] = B[S[i]]
  /\ \A f \in DOMAIN Y : /\ f \in DOMAIN Z /\ Z[f].kind = Y[f].kind
                         /\ Y[f].kind = "function" => Z[f].symtable = Y[f].symtable

\* What a call knows stays true,
LEMMA SettledAgrees ==
  ASSUME NEW k \in Nat, NEW S, NEW B, NEW Y, NEW P, NEW C, NEW Z, Agree(k, S, B, Y, P, C, Z),
         NEW j \in 1 .. k, NEW x, Settled(x, j, S, B, Y)
  PROVE  Settled(x, j, P, C, Z)
<1>1. P[j] = S[j] /\ (S[j] \in Sigs(Z) => S[j] \in Sigs(Y))
  BY DEF Agree
<1>2. \A i \in 1 .. j - 1 : P[i] = S[i] /\ C[S[i]] = B[S[i]]
  <2>1. \A i \in 1 .. j - 1 : i \in 1 .. k /\ i \in 1 .. k - 1
    OBVIOUS
  <2> QED
    BY <2>1 DEF Agree
<1>3. MeaningBelow(P, j, C) = MeaningBelow(S, j, B)
  BY <1>2, MeaningAgrees
<1>4. x.do = "body" =>
        x.function \in DOMAIN Z /\ Z[x.function].kind = "function" /\ Z[x.function].symtable > S[j]
  BY DEF Settled, Agree
<1> QED
  BY <1>1, <1>3, <1>4 DEF Settled

\* and so does what all of them know.
LEMMA HousedAgrees ==
  ASSUME NEW k \in Nat, NEW S, NEW B, NEW Y, NEW P, NEW C, NEW Z, Agree(k, S, B, Y, P, C, Z),
         NEW s, Housed(s, k, S, B, Y)
  PROVE  Housed(s, k, P, C, Z)
<1>1. PICK d : Depths(s, d) /\ d[1] = k /\ \A n \in 1 .. Len(s) : Settled(s[n], d[n], S, B, Y)
  BY DEF Housed
<1>2. Len(s) \in Nat
  BY DEF Housed, IsSeq
<1>3. /\ d \in [1 .. Len(s) + 1 -> Nat] /\ d[Len(s) + 1] = 2
      /\ \A m, n \in 1 .. Len(s) + 1 : m <= n => d[n] <= d[m]
  BY <1>1 DEF Depths
<1>4. ASSUME NEW n \in 1 .. Len(s) PROVE Settled(s[n], d[n], P, C, Z)
  <2>1. /\ 1 \in 1 .. Len(s) + 1 /\ n \in 1 .. Len(s) + 1 /\ Len(s) + 1 \in 1 .. Len(s) + 1
        /\ 1 <= n /\ n <= Len(s) + 1
    BY <1>2
  <2>2. d[n] \in Nat /\ d[n] <= k /\ 2 <= d[n]
    BY <1>1, <1>3, <2>1
  <2>3. d[n] \in 1 .. k
    BY <2>2
  <2> QED
    BY <1>1, <2>3, SettledAgrees
<1> QED
  BY <1>1, <1>4 DEF Housed

\* Then the tables of parameters are the same,
LEMMA SameSigs ==
  ASSUME NEW Y, NEW Z, SameFunctions(Y, Z)
  PROVE  Sigs(Z) = Sigs(Y)
  BY DEF SameFunctions, Sigs

\* and what is below the k-th scope is kept if its tables are.
LEMMA AgreeKept ==
  ASSUME NEW k \in Nat, NEW S, NEW B, NEW Y, NEW P, NEW C, NEW Z, SameFunctions(Y, Z),
         \A i \in 1 .. k : P[i] = S[i], \A i \in 1 .. k - 1 : C[S[i]] = B[S[i]]
  PROVE  Agree(k, S, B, Y, P, C, Z)
<1>1. Sigs(Z) = Sigs(Y)
  BY SameSigs
<1> QED
  BY <1>1 DEF Agree, SameFunctions

\* The scopes stand in the order in which their tables were made.
Rising(S) == \A i, j \in 1 .. Len(S) : i < j => S[i] < S[j]

\* A symbol put into the current scope: if it is a function, its parameters had a scope
\* opened behind.
LEMMA AgreePut ==
  ASSUME ScopesLead, Rising(symtables), NEW r, NEW name, NEW class, NEW n, SymbolsOK(symbols, Len(tables)),
         IsSeq(tables), Len(symtables) \in Nat \ {0},
         tables' = PutInto(name, class, n), symbols' = Append(symbols, r), symtables' = symtables,
         r.kind = "function" => r.symtable > Current
  PROVE  Agree(Len(symtables), symtables, tables, symbols, symtables', tables', symbols')
<1> DEFINE K == Len(symtables)
<1>1. K \in Nat \ {0} /\ K \in 1 .. K /\ Current = symtables[K]
  BY DEF Current, Last
<1>2. DOMAIN tables = 1 .. Len(tables) /\ Len(tables) \in Nat
  BY DEF IsSeq
<1>3. \A i \in 1 .. K : symtables[i] \in 1 .. Len(tables)
  BY DEF ScopesLead
<1>4. ASSUME NEW i \in 1 .. K - 1 PROVE tables'[symtables[i]] = tables[symtables[i]]
  <2>1. i \in 1 .. K /\ i < K
    BY <1>1
  <2>2. symtables[i] < symtables[K] /\ symtables[i] \in 1 .. Len(tables) /\ symtables[K] \in Nat
    BY <1>1, <1>2, <1>3, <2>1 DEF Rising
  <2>3. symtables[i] # Current /\ symtables[i] \in DOMAIN tables
    BY <1>1, <1>2, <2>2
  <2> QED
    BY <2>3 DEF PutInto
<1>5. /\ DOMAIN symbols' = 1 .. Len(symbols) + 1
      /\ DOMAIN symbols = 1 .. Len(symbols) /\ Len(symbols) \in Nat
      /\ symbols'[Len(symbols) + 1] = r
      /\ \A f \in 1 .. Len(symbols) : symbols'[f] = symbols[f]
  <2> DEFINE R == {symbols[f] : f \in 1 .. Len(symbols)} \cup {r}
  <2>1. symbols \in Seq(R) /\ r \in R
    BY DEF SymbolsOK, IsSeq
  <2> HIDE DEF R
  <2> QED
    BY <2>1, AppendProperties
<1>6. ASSUME NEW i \in 1 .. K, symtables[i] \in Sigs(symbols') PROVE symtables[i] \in Sigs(symbols)
  <2>1. PICK f \in DOMAIN symbols' : symbols'[f].kind = "function" /\ symbols'[f].symtable = symtables[i]
    BY <1>6 DEF Sigs
  <2>2. CASE f \in 1 .. Len(symbols)
    BY <1>5, <2>1, <2>2 DEF Sigs
  <2>3. CASE f = Len(symbols) + 1
    <3>1. symtables[i] > symtables[K]
      BY <1>1, <1>5, <2>1, <2>3
    <3>2. i < K \/ i = K
      BY <1>1
    <3>3. symtables[i] \in Nat /\ symtables[K] \in Nat
      BY <1>1, <1>2, <1>3
    <3>4. symtables[i] <= symtables[K]
      BY <1>1, <3>2, <3>3 DEF Rising
    <3> QED
      BY <3>1, <3>3, <3>4
  <2> QED
    BY <1>5, <2>2, <2>3
<1>7. \A i \in 1 .. K : symtables'[i] = symtables[i]
  OBVIOUS
<1>8. \A f \in DOMAIN symbols : f \in DOMAIN symbols' /\ symbols'[f] = symbols[f]
  BY <1>5
<1> HIDE DEF K
<1> QED
  BY <1>4, <1>6, <1>7, <1>8 DEF Agree, K

----------------------------------------------------------------------------
(* What is put on the stack *)

\* Where j scopes are open below the call x, k are with it.
Over(x, j, k, S, B, Y) == j \in Nat /\ k = j + Held(x) /\ Settled(x, k, S, B, Y)

\* The items r, of which a is the first, may stand over j scopes, and hold k with them.
Lodged(r, a, j, k, S, B, Y) ==
  IsSeq(r) /\ \A s : Housed(s, j, S, B, Y) =>
                Housed(r \o s, k, S, B, Y) /\ r \o s # << >> /\ Head(r \o s) = a

\* One item,
LEMMA LodgedOne ==
  ASSUME NEW S, NEW B, NEW Y, NEW j, NEW k, NEW a, Over(a, j, k, S, B, Y)
  PROVE  Lodged(<< a >>, a, j, k, S, B, Y)
  BY One, HousedPush DEF Lodged, Over

\* one in front of others,
LEMMA LodgedMore ==
  ASSUME NEW S, NEW B, NEW Y, NEW j, NEW k, NEW l, NEW r, NEW b, Lodged(r, b, j, k, S, B, Y),
         NEW a, Over(a, k, l, S, B, Y)
  PROVE  Lodged(<< a >> \o r, a, j, l, S, B, Y)
<1>1. IsSeq(r)
  BY DEF Lodged
<1>2. IsSeq(<< a >> \o r)
  BY <1>1, One, Joined
<1>3. ASSUME NEW s, Housed(s, j, S, B, Y)
      PROVE  Housed((<< a >> \o r) \o s, l, S, B, Y) /\ (<< a >> \o r) \o s # << >>
             /\ Head((<< a >> \o r) \o s) = a
  <2> DEFINE u == r \o s
  <2>1. Housed(u, k, S, B, Y)
    BY <1>3 DEF Lodged
  <2>2. (<< a >> \o r) \o s = << a >> \o u
    BY <1>1, <1>3, One, JoinedThree DEF Housed
  <2> HIDE DEF u
  <2>3. l = k + Held(a) /\ Settled(a, k + Held(a), S, B, Y)
    BY DEF Over
  <2>4. /\ Housed(<< a >> \o u, k + Held(a), S, B, Y)
        /\ << a >> \o u # << >> /\ Head(<< a >> \o u) = a
    BY <2>1, <2>3, HousedPush
  <2> QED
    BY <2>2, <2>3, <2>4
<1> QED
  BY <1>2, <1>3 DEF Lodged

\* and the tuples there are.
LEMMA LodgedTuples ==
  ASSUME NEW S, NEW B, NEW Y, NEW j
  PROVE  /\ \A a, b, k, l : Over(b, j, k, S, B, Y) /\ Over(a, k, l, S, B, Y)
                              => Lodged(<< a, b >>, a, j, l, S, B, Y)
         /\ \A a, b, c, k, l, m :
              Over(c, j, k, S, B, Y) /\ Over(b, k, l, S, B, Y) /\ Over(a, l, m, S, B, Y)
                              => Lodged(<< a, b, c >>, a, j, m, S, B, Y)
         /\ \A a, b, c, d, k, l, m, n :
              (/\ Over(d, j, k, S, B, Y) /\ Over(c, k, l, S, B, Y)
               /\ Over(b, l, m, S, B, Y) /\ Over(a, m, n, S, B, Y))
                              => Lodged(<< a, b, c, d >>, a, j, n, S, B, Y)
<1>1. ASSUME NEW a, NEW b, NEW k, NEW l, Over(b, j, k, S, B, Y), Over(a, k, l, S, B, Y)
      PROVE  Lodged(<< a, b >>, a, j, l, S, B, Y)
  <2>1. Lodged(<< b >>, b, j, k, S, B, Y)
    BY <1>1, LodgedOne
  <2>2. Lodged(<< a >> \o << b >>, a, j, l, S, B, Y)
    BY <1>1, <2>1, LodgedMore
  <2>3. << a >> \o << b >> = << a, b >>
    BY TupleConcat
  <2> QED
    BY <2>2, <2>3, Zenon
<1>2. ASSUME NEW a, NEW b, NEW c, NEW k, NEW l, NEW m,
             Over(c, j, k, S, B, Y), Over(b, k, l, S, B, Y), Over(a, l, m, S, B, Y)
      PROVE  Lodged(<< a, b, c >>, a, j, m, S, B, Y)
  <2>1. Lodged(<< b, c >>, b, j, l, S, B, Y)
    BY <1>1, <1>2
  <2>2. Lodged(<< a >> \o << b, c >>, a, j, m, S, B, Y)
    BY <1>2, <2>1, LodgedMore
  <2>3. << a >> \o << b, c >> = << a, b, c >>
    BY TupleConcat
  <2> QED
    BY <2>2, <2>3, Zenon
<1>3. ASSUME NEW a, NEW b, NEW c, NEW d, NEW k, NEW l, NEW m, NEW n,
             Over(d, j, k, S, B, Y), Over(c, k, l, S, B, Y), Over(b, l, m, S, B, Y), Over(a, m, n, S, B, Y)
      PROVE  Lodged(<< a, b, c, d >>, a, j, n, S, B, Y)
  <2>1. Lodged(<< b, c, d >>, b, j, m, S, B, Y)
    BY <1>2, <1>3
  <2>2. Lodged(<< a >> \o << b, c, d >>, a, j, n, S, B, Y)
    BY <1>3, <2>1, LodgedMore
  <2>3. << a >> \o << b, c, d >> = << a, b, c, d >>
    <3> DEFINE u == << a >> \o << b, c, d >>
               v == << a, b, c, d >>
    <3>1. /\ << b, c, d >> \in Seq({a, b, c, d}) /\ Len(<< b, c, d >>) = 3 /\ << a >>[1] = a
          /\ << b, c, d >>[1] = b /\ << b, c, d >>[2] = c /\ << b, c, d >>[3] = d
          /\ v \in Seq({a, b, c, d}) /\ Len(v) = 4 /\ v[1] = a /\ v[2] = b /\ v[3] = c /\ v[4] = d
      OBVIOUS
    <3>2. u \in Seq({a, b, c, d}) /\ Len(u) = 4 /\ u[1] = a /\ u[2] = b /\ u[3] = c /\ u[4] = d
      OBVIOUS
    <3> HIDE DEF u, v
    <3>3. \A i \in 1 .. 4 : u[i] = v[i]
      <4>1. \A i \in 1 .. 4 : i = 1 \/ i = 2 \/ i = 3 \/ i = 4
        OBVIOUS
      <4> QED
        BY <3>1, <3>2, <4>1
    <3>4. u = v
      BY <3>1, <3>2, <3>3, SeqEqual
    <3> QED
      BY <3>4 DEF u, v
  <2> QED
    BY <2>2, <2>3, Zenon
<1> QED
  BY <1>1, <1>2, <1>3

\* What neither holds a scope nor knows anything of them may stand in any but that of a
\* function's parameters.
Neutral(x) == x.do \notin Closers \cup {"suffix", "linked", "body", "variable"}

\* It holds none itself,
LEMMA NeutralOver ==
  ASSUME NEW S, NEW B, NEW Y, NEW k \in Nat, S[k] \notin Sigs(Y), NEW x, Neutral(x)
  PROVE  Over(x, k, k, S, B, Y)
<1>1. Held(x) = 0 /\ k + 0 = k
  BY DEF Neutral, Held
<1>2. Settled(x, k, S, B, Y)
  BY DEF Neutral, Settled
<1> QED
  BY <1>1, <1>2 DEF Over

\* and so do tuples of such items.
LEMMA NeutralTuples ==
  ASSUME NEW S, NEW B, NEW Y, NEW k \in Nat, S[k] \notin Sigs(Y)
  PROVE  /\ \A a : Neutral(a) => Lodged(<< a >>, a, k, k, S, B, Y)
         /\ \A a, b : Neutral(a) /\ Neutral(b) => Lodged(<< a, b >>, a, k, k, S, B, Y)
         /\ \A a, b, c : Neutral(a) /\ Neutral(b) /\ Neutral(c)
                            => Lodged(<< a, b, c >>, a, k, k, S, B, Y)
         /\ \A a, b, c, d : Neutral(a) /\ Neutral(b) /\ Neutral(c) /\ Neutral(d)
                            => Lodged(<< a, b, c, d >>, a, k, k, S, B, Y)
<1>1. \A x : Neutral(x) => Over(x, k, k, S, B, Y)
  BY NeutralOver
<1>2. ASSUME NEW a, Neutral(a) PROVE Lodged(<< a >>, a, k, k, S, B, Y)
  BY <1>1, <1>2, LodgedOne
<1>3. ASSUME NEW a, NEW b, Neutral(a), Neutral(b) PROVE Lodged(<< a, b >>, a, k, k, S, B, Y)
  BY <1>1, <1>3, LodgedTuples
<1>4. ASSUME NEW a, NEW b, NEW c, Neutral(a), Neutral(b), Neutral(c)
      PROVE  Lodged(<< a, b, c >>, a, k, k, S, B, Y)
  BY <1>1, <1>4, LodgedTuples
<1>5. ASSUME NEW a, NEW b, NEW c, NEW d, Neutral(a), Neutral(b), Neutral(c), Neutral(d)
      PROVE  Lodged(<< a, b, c, d >>, a, k, k, S, B, Y)
  BY <1>1, <1>5, LodgedTuples
<1> QED
  BY <1>2, <1>3, <1>4, <1>5

----------------------------------------------------------------------------
(* The inductive invariant *)

\* The call reads a type in which functions may be.
Reads(x) == Wants(x) \in {"loose", "full"}

\* What is true of the calls s if k scopes are open for them.
Now(s, k) == Housed(s, k, symtables, tables, symbols)

\* A body's scope is that of its parameters, until its brace is taken.
AtBody == token = "{" /\ todo.do = "stmt" /\ Now(Tail(stack), Len(symtables))

\* Every call stands in the scope it was made in, and the type that is returned to it was made
\* there.
NestInv ==
  status = "parsing" /\ ~ seen.muffled =>
    /\ Rising(symtables)
    /\ Now(stack, Len(symtables)) \/ AtBody
    /\ Reads(todo) => Fresh(ret.type, Current)

\* What is left of a parser that looked at every failure.
Standing ==
  ScopesInv /\ TypesInv /\ NestInv /\ status = "parsing" /\ stack # << >> /\ ~ seen.muffled

\* The call at the head does not stand in the scope of parameters for a body.
Apart == todo.do # "stmt" \/ token # "{"

\* The scopes and what is in them are left alone.
SameScopes == UNCHANGED << symtables, tables, symbols >>

\* What a step keeps of the scopes below the k-th.
Spares(k) == Agree(k, symtables, tables, symbols, symtables', tables', symbols')

\* What is put over j scopes, after the step.
Fitting(items, a, j) == Lodged(items, a, j, Len(symtables'), symtables', tables', symbols')

\* What the invariants say of the state and of the call at the head.
LEMMA StandingIs ==
  ASSUME Standing
  PROVE  /\ IsSeq(symtables) /\ Len(symtables) \in Nat /\ Len(symtables) >= 2
         /\ Current = symtables[Len(symtables)]
         /\ ScopesLead /\ IsSeq(tables) /\ SymbolsOK(symbols, Len(tables)) /\ TablesOK(tables, symbols)
         /\ Len(tables) \in Nat /\ Current \in 1 .. Len(tables)
         /\ Rising(symtables) /\ (Reads(todo) => Fresh(ret.type, Current))
         /\ IsItem(todo, symbols, Len(tables)) /\ Serves(ret.type, Wants(todo), symbols, Len(tables))
         /\ HasDo(todo) /\ "muffled" \in DOMAIN seen
<1>1. IsSeq(symtables) /\ Len(symtables) \in Nat /\ Len(symtables) >= 2
  BY DEF Standing, ScopesInv, Outermost, IsSeq
<1>2. IsSeq(tables)
  BY DEF Standing, TypesInv, Steady, TablesOK
<1>3. Current = symtables[Len(symtables)]
  BY DEF Current, Last
<1>4. Rising(symtables) /\ (Reads(todo) => Fresh(ret.type, Current))
  BY DEF Standing, NestInv
<1>5. IsItem(todo, symbols, Len(tables)) /\ HasDo(todo)
  <2>1. IsItem(todo, symbols, Len(tables))
    BY HeadStaff DEF Standing
  <2> QED
    BY <2>1 DEF IsItem
<1> QED
  BY <1>1, <1>2, <1>3, <1>4, <1>5, HeadStaff, CurrentIs DEF Standing, ScopesInv, Noted

\* What is known of the call at the head, and of those below.
LEMMA HeadHoused ==
  ASSUME Standing, Apart
  PROVE  /\ Settled(todo, Len(symtables), symtables, tables, symbols)
         /\ Now(Tail(stack), Len(symtables) - Held(todo))
         /\ Len(symtables) - Held(todo) \in Nat /\ Len(symtables) - Held(todo) >= 2
         /\ todo.do # "end_of_body" => Current \notin Sigs(symbols)
<1>1. Now(stack, Len(symtables)) /\ stack # << >>
  BY DEF Standing, NestInv, AtBody, Apart
<1>2. /\ Settled(todo, Len(symtables), symtables, tables, symbols)
      /\ Now(Tail(stack), Len(symtables) - Held(todo))
      /\ Len(symtables) - Held(todo) \in Nat /\ Len(symtables) - Held(todo) >= 2
  BY <1>1, HousedPop DEF Now, todo
<1>3. Current = symtables[Len(symtables)]
  BY StandingIs
<1> QED
  BY <1>2, <1>3 DEF Settled

\* The call is replaced by others,
LEMMA NestStep ==
  ASSUME Standing, NEW k \in Nat, Now(Tail(stack), k), Spares(k), Rising(symtables'),
         NEW items, Continue(items), NEW a, Fitting(items, a, k),
         Reads(a) => Fresh(ret'.type, Current')
  PROVE  NestInv'
<1>1. Housed(Tail(stack), k, symtables', tables', symbols')
  BY HousedAgrees DEF Now, Spares
<1>2. /\ Housed(stack', Len(symtables'), symtables', tables', symbols') /\ Head(stack') = a
  BY <1>1 DEF Fitting, Lodged, Continue
<1>3. Now(stack, Len(symtables))' /\ todo' = a
  BY <1>2 DEF Now, todo
<1> QED
  BY <1>3 DEF NestInv

\* or returns.
LEMMA NestReturn ==
  ASSUME Standing, todo.do # "unit", NEW k \in Nat, Now(Tail(stack), k), Spares(k), Rising(symtables'),
         Len(symtables') = k, Continue(<< >>),
         Gives(todo) \in {"loose", "full"} => Fresh(ret'.type, Current')
  PROVE  NestInv'
<1> DEFINE t == Tail(stack)
<1>1. Housed(t, k, symtables', tables', symbols')
  BY HousedAgrees DEF Now, Spares
<1>2. stack' = t
  <2>1. t \in Seq({t[n] : n \in 1 .. Len(t)})
    BY <1>1 DEF Housed, IsSeq
  <2> HIDE DEF t
  <2>2. << >> \o t = t
    BY <2>1
  <2> QED
    BY <2>2 DEF Continue, t
<1>3. t # << >> /\ Fits(todo, t)
  BY HeadHasDo, PopStaff DEF todo, Standing, TypesInv, Manned
<1> HIDE DEF t
<1>4. Now(stack, Len(symtables))'
  BY <1>1, <1>2 DEF Now
<1>5. Reads(todo)' => Fresh(ret'.type, Current')
  <2>1. Wants(todo') \in {"nothing", Gives(todo)}
    BY <1>2, <1>3 DEF Fits, todo
  <2> QED
    BY <2>1 DEF Reads
<1> QED
  BY <1>4, <1>5 DEF NestInv

\* No function is new to what a step leaves alone,
LEMMA SparesAll ==
  ASSUME SameScopes, NEW k \in Nat
  PROVE  Spares(k)
<1>1. SameFunctions(symbols, symbols')
  BY DEF SameScopes, SameFunctions
<1> QED
  BY <1>1, AgreeKept DEF Spares, SameScopes

\* so that a call that leaves the scopes alone goes on
LEMMA CalmGoesOn ==
  ASSUME Standing, Apart, SameScopes, NEW items, Continue(items), NEW a,
         Lodged(items, a, Len(symtables) - Held(todo), Len(symtables), symtables, tables, symbols),
         Reads(a) => Fresh(ret'.type, Current)
  PROVE  NestInv'
<1>1. Spares(Len(symtables) - Held(todo))
  BY HeadHoused, SparesAll
<1>2. Fitting(items, a, Len(symtables) - Held(todo)) /\ Rising(symtables') /\ Current' = Current
  BY StandingIs DEF Fitting, SameScopes, Current
<1> QED
  BY <1>1, <1>2, HeadHoused, NestStep

\* with what knows nothing of them,
LEMMA CalmNeutral ==
  ASSUME Standing, Apart, SameScopes, todo.do \notin Closers, NEW items, Continue(items), NEW a,
         Lodged(items, a, Len(symtables), Len(symtables), symtables, tables, symbols),
         Reads(a) => Fresh(ret'.type, Current)
  PROVE  NestInv'
<1>1. Len(symtables) - Held(todo) = Len(symtables)
  BY StandingIs DEF Held
<1>2. Lodged(items, a, Len(symtables) - Held(todo), Len(symtables), symtables, tables, symbols)
  BY <1>1
<1> QED
  BY <1>2, CalmGoesOn

\* or returns.
LEMMA CalmReturns ==
  ASSUME Standing, Apart, SameScopes, todo.do \notin Closers \cup {"unit"}, Continue(<< >>),
         Gives(todo) \in {"loose", "full"} => Fresh(ret'.type, Current)
  PROVE  NestInv'
<1>1. Len(symtables) - Held(todo) = Len(symtables)
  BY StandingIs DEF Held
<1>2. Now(Tail(stack), Len(symtables)) /\ Len(symtables) \in Nat
  BY <1>1, HeadHoused
<1>3. Spares(Len(symtables))
  BY <1>2, SparesAll
<1>4. Len(symtables') = Len(symtables) /\ Rising(symtables') /\ Current' = Current
  BY StandingIs DEF SameScopes, Current
<1> QED
  BY <1>2, <1>3, <1>4, NestReturn

\* A failure is noted or ends the parser, and so does a NULL that is followed.
LEMMA NestFails ==
  ASSUME Standing, Fail \/ Crash
  PROVE  NestInv'
<1>1. CASE Fail
  <2> DEFINE deaf == {n \in DOMAIN stack : ~ Heeds(stack[n])}
  <2>1. seen' = [seen EXCEPT !.muffled = @ \/ deaf # {}]
    BY <1>1 DEF Fail
  <2>2. deaf # {} => seen'.muffled
    BY <2>1, StandingIs
  <2>3. deaf = {} => status' = "failed"
    BY <1>1 DEF Fail
  <2> QED
    BY <2>2, <2>3 DEF NestInv
<1>2. CASE Crash
  BY <1>2 DEF Crash, NestInv
<1> QED
  BY <1>1, <1>2

\* The stack of scopes, when one is opened, with a table behind all,
LEMMA ScopePushed ==
  ASSUME Standing, NEW n \in Nat, PushTable(n), n > Current
  PROVE  /\ Len(symtables') = Len(symtables) + 1 /\ Current' = n /\ Rising(symtables')
         /\ symtables'[Len(symtables) + 1] = n
         /\ \A i \in 1 .. Len(symtables) : symtables'[i] = symtables[i]
<1> DEFINE S == {symtables[i] : i \in 1 .. Len(symtables)} \cup {n}
           K == Len(symtables)
<1>1. symtables \in Seq(S) /\ n \in S /\ K \in Nat /\ K >= 2
  BY StandingIs DEF IsSeq
<1> HIDE DEF S
<1>2. /\ symtables' \in Seq(S) /\ Len(symtables') = Len(symtables) + 1
      /\ \A i \in 1 .. Len(symtables) : symtables'[i] = symtables[i]
      /\ symtables'[Len(symtables) + 1] = n
  BY <1>1, AppendProperties DEF PushTable
<1>3. \A i \in 1 .. K : symtables[i] \in 1 .. Len(tables)
  BY StandingIs DEF ScopesLead
<1>4. Len(tables) \in Nat /\ symtables[K] < n
  BY StandingIs
<1>5. ASSUME NEW i \in 1 .. K + 1, NEW j \in 1 .. K + 1, i < j PROVE symtables'[i] < symtables'[j]
  <2>1. CASE j \in 1 .. K
    <3>1. i \in 1 .. K
      BY <1>5, <2>1
    <3>2. symtables[i] < symtables[j]
      BY <1>5, <2>1, <3>1, StandingIs DEF Rising
    <3> QED
      BY <1>2, <2>1, <3>1, <3>2
  <2>2. CASE j = K + 1
    <3>1. i \in 1 .. K /\ K \in 1 .. K /\ (i < K \/ i = K)
      BY <1>1, <1>5, <2>2
    <3>2. symtables[i] <= symtables[K] /\ symtables[i] \in Nat /\ symtables[K] \in Nat
      <4>1. symtables[i] \in Nat /\ symtables[K] \in Nat
        BY <1>3, <1>4, <3>1
      <4> QED
        BY <3>1, <4>1, StandingIs DEF Rising
    <3>3. symtables[i] < n
      BY <1>4, <3>2
    <3> QED
      BY <1>2, <2>2, <3>1, <3>3
  <2> QED
    BY <1>1, <2>1, <2>2
<1>6. Rising(symtables')
  BY <1>2, <1>5 DEF Rising
<1>7. Current' = n
  BY <1>2 DEF Current, Last
<1> QED
  BY <1>2, <1>6, <1>7

\* and when one is left.
LEMMA ScopePopped ==
  ASSUME Standing, Pop
  PROVE  /\ Len(symtables') = Len(symtables) - 1 /\ Rising(symtables')
         /\ IsSeq(symtables')
         /\ \A i \in 1 .. Len(symtables) - 1 : symtables'[i] = symtables[i]
         /\ Current' = symtables[Len(symtables) - 1] /\ Current' < Current
<1> DEFINE S == {symtables[i] : i \in 1 .. Len(symtables)}
           K == Len(symtables)
<1>1. symtables \in Seq(S) /\ K \in Nat /\ K >= 2
  BY StandingIs DEF IsSeq
<1>2. symtables' = SubSeq(symtables, 1, K - 1)
  BY DEF Pop, Front
<1>3. \A i \in 1 .. K - 1 : symtables[i] \in S
  BY <1>1
<1> HIDE DEF S
<1>4. /\ symtables' \in Seq(S) /\ Len(symtables') = K - 1
      /\ \A i \in 1 .. K - 1 : symtables'[i] = symtables[i]
  <2>1. /\ symtables' \in Seq(S)
        /\ Len(symtables') = IF 1 <= K - 1 THEN K - 1 - 1 + 1 ELSE 0
        /\ \A i \in 1 .. K - 1 - 1 + 1 : symtables'[i] = symtables[1 + i - 1]
    BY <1>1, <1>2, <1>3, SubSeqProperties
  <2> QED
    BY <1>1, <2>1
<1>5. \A i \in 1 .. K - 1 : i \in 1 .. K
  BY <1>1
<1>6. Rising(symtables')
  BY <1>4, <1>5, StandingIs DEF Rising
<1>7. K - 1 \in 1 .. K - 1 /\ K - 1 \in 1 .. K /\ K \in 1 .. K /\ K - 1 < K
  BY <1>1
<1>8. Current' = symtables[K - 1]
  BY <1>4, <1>7 DEF Current, Last
<1>9. symtables[K - 1] < symtables[K]
  BY <1>7, StandingIs DEF Rising
<1>10. IsSeq(symtables')
  BY <1>4, SeqIsSeq, Zenon
<1> QED
  BY <1>4, <1>6, <1>8, <1>9, <1>10, StandingIs

----------------------------------------------------------------------------
(* The actions *)

Readers == {"linked", "inner", "based", "expect", "declared", "declared_parameter"}

\* What is known of a call by its name.
LEMMA ByName ==
  \A x : /\ x.do \notin Closers \cup {"suffix", "linked", "body", "variable"} => Neutral(x)
         /\ x.do \notin Readers => ~ Reads(x)
         /\ x.do \notin InDeclarator \cup {"linked", "based", "declarator", "expect"}
              => Gives(x) \notin {"loose", "full"}
<1>1. \A x : x.do \notin Readers => ~ Reads(x)
  BY DEF Reads, Wants, Readers
<1>2. \A x : x.do \notin InDeclarator \cup {"linked", "based", "declarator", "expect"}
               => Gives(x) \notin {"loose", "full"}
  BY DEF Gives
<1> QED
  BY <1>1, <1>2 DEF Neutral

\* The items that are but a name, and the tokens that are expected.
LEMMA NeutralItems ==
  /\ \A d : d \notin Closers \cup {"suffix", "linked", "body", "variable"} => Neutral(Item(d))
  /\ \A d : d \notin Readers => ~ Reads(Item(d))
  /\ \A t : Neutral(Expect(t)) /\ (t # ")" => ~ Reads(Expect(t)))
  /\ \A t : Neutral(Accept(t)) /\ ~ Reads(Accept(t))
  /\ \A o : Neutral(Pointers(o)) /\ ~ Reads(Pointers(o))
<1>1. \A d : Item(d).do = d
  BY DEF Item
<1>2. \A t : Expect(t).do = "expect" /\ Expect(t).types = {t}
  BY DEF Expect
<1>3. \A t : Accept(t).do = "accept"
  BY DEF Accept
<1>4. \A o : Pointers(o).do = "pointers"
  BY DEF Pointers
<1>5. ASSUME NEW t, t # ")" PROVE ~ Reads(Expect(t))
  <2>1. {t} # {")"}
    BY <1>5
  <2> QED
    BY <1>2, <2>1 DEF Reads, Wants
<1>6. \A t : Neutral(Expect(t)) /\ Neutral(Accept(t)) /\ ~ Reads(Accept(t))
  BY <1>2, <1>3, ByName DEF Closers, Readers
<1>7. \A o : Neutral(Pointers(o)) /\ ~ Reads(Pointers(o))
  BY <1>4, ByName DEF Closers, Readers
<1>8. \A d : /\ d \notin Closers \cup {"suffix", "linked", "body", "variable"} => Neutral(Item(d))
             /\ d \notin Readers => ~ Reads(Item(d))
  BY <1>1, ByName DEF Readers
<1> QED
  BY <1>5, <1>6, <1>7, <1>8

\* Steps that leave the scopes alone.
CalmStep ==
  \/ \E items, a : /\ Continue(items) /\ SameScopes /\ ~ Reads(a)
                   /\ Lodged(items, a, Len(symtables), Len(symtables), symtables, tables, symbols)
  \/ Continue(<< >>) /\ SameScopes /\ (Gives(todo) \in {"loose", "full"} => Fresh(ret'.type, Current))
  \/ Fail \/ Crash

\* They keep the invariant.
LEMMA CalmSteps ==
  ASSUME Standing, Apart, todo.do \notin Closers \cup {"unit"}, CalmStep
  PROVE  NestInv'
  BY CalmNeutral, CalmReturns, NestFails DEF CalmStep

\* What stands in the current scope.
Put(items, a) == Lodged(items, a, Len(symtables), Len(symtables), symtables, tables, symbols)

\* Tuples of items that know nothing of scopes.
LEMMA PutTuples ==
  ASSUME Standing, Apart, todo.do # "end_of_body"
  PROVE  /\ \A a : Neutral(a) => Put(<< a >>, a)
         /\ \A a, b : Neutral(a) /\ Neutral(b) => Put(<< a, b >>, a)
         /\ \A a, b, c : Neutral(a) /\ Neutral(b) /\ Neutral(c) => Put(<< a, b, c >>, a)
         /\ \A a, b, c, d : Neutral(a) /\ Neutral(b) /\ Neutral(c) /\ Neutral(d) => Put(<< a, b, c, d >>, a)
<1>1. Len(symtables) \in Nat /\ symtables[Len(symtables)] \notin Sigs(symbols)
  BY StandingIs, HeadHoused
<1> QED
  BY <1>1, NeutralTuples DEF Put

\* What the ways to go on and to return leave alone.
LEMMA Passes ==
  /\ \A items : Taking(items) \/ Leaving(items) => Continue(items) /\ SameScopes /\ UNCHANGED << ret, seen >>
  /\ \A t, n : ReturnTaking(t, n) \/ Return(t, n)
                 => Continue(<< >>) /\ SameScopes /\ ret'.type = t /\ UNCHANGED seen
  BY DEF Taking, Leaving, ReturnTaking, Return, Returning, Kept, SameScopes

\* EXPECT, CONSUME and accept.
LEMMA TokenNests ==
  ASSUME Standing, ExpectToken \/ AcceptToken
  PROVE  NestInv'
<1>1. todo.do \in {"expect", "accept"}
  BY DEF ExpectToken, AcceptToken, Doing
<1>2. Fail \/ (Continue(<< >>) /\ SameScopes /\ ret' = ret)
  BY DEF ExpectToken, AcceptToken, Kept, SameScopes
<1>3. Gives(todo) \in {"loose", "full"} => Reads(todo)
  BY <1>1 DEF Gives, Wants, Reads, Inside, InParameters, InDeclarator
<1>4. Gives(todo) \in {"loose", "full"} => Fresh(ret.type, Current)
  BY <1>3, StandingIs
<1>5. Apart /\ todo.do \notin Closers \cup {"unit"}
  BY <1>1 DEF Apart, Closers
<1> QED
  BY <1>2, <1>4, <1>5, CalmSteps DEF CalmStep

\* Specifiers, but for a new tag, a new constant and the fields of a struct.
LEMMA SpecifierNests ==
  ASSUME Standing, Specifier \/ EnumSpecifier \/ Enumerated
  PROVE  NestInv'
<1>1. todo.do \in {"specifier", "enum", "enumerated"}
  BY DEF Specifier, EnumSpecifier, Enumerated, Doing
<1>2. Apart /\ todo.do \notin Closers \cup {"unit"} /\ todo.do # "end_of_body"
  BY <1>1 DEF Apart, Closers
<1>3. Gives(todo) \notin {"loose", "full"}
  BY <1>1, ByName DEF InDeclarator, InParameters, Readers
<1>4. PICK a : /\ Neutral(a) /\ ~ Reads(a)
               /\ \/ Fail
                  \/ \E t, n : ReturnTaking(t, n) \/ Return(t, n)
                  \/ Taking(<< a >>)
  <2>1. CASE Specifier
    <3> DEFINE a == [do |-> "tag", kind |-> token]
    <3>1. Neutral(a) /\ ~ Reads(a)
      BY ByName DEF Closers, Readers
    <3>2. Fail \/ (\E t, n : ReturnTaking(t, n) \/ Return(t, n)) \/ Taking(<< a >>)
      BY <2>1 DEF Specifier
    <3> QED
      BY <3>1, <3>2
  <2>2. CASE EnumSpecifier
    <3> DEFINE a == [do |-> "enumerator", tag |-> todo.tag]
    <3>1. Neutral(a) /\ ~ Reads(a)
      BY ByName DEF Closers, Readers
    <3>2. (\E t, n : ReturnTaking(t, n) \/ Return(t, n)) \/ Taking(<< a >>)
      BY <2>2 DEF EnumSpecifier
    <3> QED
      BY <3>1, <3>2
  <2>3. CASE Enumerated
    <3> DEFINE a == [todo EXCEPT !.do = "enumerator"]
    <3>0. a.do = "enumerator"
      BY StandingIs DEF HasDo
    <3>1. Neutral(a) /\ ~ Reads(a)
      BY <3>0, ByName DEF Closers, Readers
    <3>2. Fail \/ (\E t, n : ReturnTaking(t, n) \/ Return(t, n)) \/ Taking(<< a >>)
      BY <2>3 DEF Enumerated
    <3> QED
      BY <3>1, <3>2
  <2> QED
    BY <2>1, <2>2, <2>3
<1>5. CASE \E t, n : ReturnTaking(t, n) \/ Return(t, n)
  BY <1>2, <1>3, <1>5, Passes, CalmSteps DEF CalmStep
<1>6. CASE Taking(<< a >>)
  <2>1. Put(<< a >>, a)
    BY <1>2, <1>4, PutTuples
  <2> QED
    BY <1>2, <1>4, <1>6, <2>1, Passes, CalmSteps DEF CalmStep, Put
<1> QED
  BY <1>2, <1>4, <1>5, <1>6, CalmSteps DEF CalmStep

\* A declarator that knows of functions declared in it.
LEMMA SuffixPut ==
  ASSUME Standing, Apart, todo.do # "end_of_body", NEW inner, Fresh(inner, Current)
  PROVE  /\ \A x : x.do \in {"suffix", "linked"} /\ x.inner = inner
                     => Over(x, Len(symtables), Len(symtables), symtables, tables, symbols)
<1>1. Len(symtables) \in Nat /\ Current = symtables[Len(symtables)] /\ Current \notin Sigs(symbols)
  BY StandingIs, HeadHoused
<1>2. ASSUME NEW x, x.do \in {"suffix", "linked"}, x.inner = inner
      PROVE  Over(x, Len(symtables), Len(symtables), symtables, tables, symbols)
  <2>1. Held(x) = 0
    BY <1>2 DEF Held, Closers
  <2>2. Settled(x, Len(symtables), symtables, tables, symbols)
    BY <1>1, <1>2 DEF Settled, Closers
  <2> QED
    BY <1>1, <2>1, <2>2 DEF Over
<1> QED
  BY <1>2

\* No function is in an empty type.
LEMMA NothingFresh == \A m : Fresh(<< >>, m)
  BY DEF Fresh

\* Declarators, up to the brackets.
LEMMA DeclaratorNests ==
  ASSUME Standing, DeclaratorBase \/ InnerDeclarator \/ ParameterDeclarator
  PROVE  NestInv'
<1>1. todo.do \in {"pointers", "inner", "declarator"}
  BY DEF DeclaratorBase, InnerDeclarator, ParameterDeclarator, Doing
<1>2. Apart /\ todo.do \notin Closers \cup {"unit"} /\ todo.do # "end_of_body"
  BY <1>1 DEF Apart, Closers
<1>3. ASSUME NEW items, NEW a, Taking(items) \/ Leaving(items), Put(items, a), ~ Reads(a)
      PROVE  NestInv'
  BY <1>2, <1>3, Passes, CalmSteps DEF CalmStep, Put
<1>4. ASSUME NEW o, NEW inner, NEW n, Fresh(inner, Current)
      PROVE  Put(<< Suffix(o, inner, n) >>, Suffix(o, inner, n)) /\ ~ Reads(Suffix(o, inner, n))
  <2>1. Suffix(o, inner, n).do = "suffix" /\ Suffix(o, inner, n).inner = inner
    BY DEF Suffix
  <2>2. Over(Suffix(o, inner, n), Len(symtables), Len(symtables), symtables, tables, symbols)
    BY <1>2, <1>4, <2>1, SuffixPut
  <2> QED
    BY <2>1, <2>2, ByName, LodgedOne DEF Put, Readers
<1>5. CASE DeclaratorBase
  <2>1. CASE token = "*"
    <3>1. PICK o : Taking(<< Pointers(o) >>)
      BY <1>5, <2>1 DEF DeclaratorBase
    <3>2. Put(<< Pointers(o) >>, Pointers(o)) /\ ~ Reads(Pointers(o))
      BY <1>2, PutTuples, NeutralItems DEF Readers
    <3> QED
      BY <1>3, <3>1, <3>2
  <2>2. CASE token # "*" /\ token \in Names
    <3>1. Taking(<< Suffix(todo.outer, << >>, token) >>)
      BY <1>5, <2>2 DEF DeclaratorBase
    <3> QED
      BY <1>3, <1>4, <3>1, NothingFresh
  <2>3. CASE token # "*" /\ token \notin Names /\ token = "("
    <3>1. PICK x : x = [do |-> "inner", outer |-> todo.outer]
      OBVIOUS
    <3>2. Neutral(x)
      BY <3>1, ByName DEF Closers, Readers
    <3>3. Taking(<< Pointers(<< >>), Expect(")"), x >>)
      BY <1>5, <2>3, <3>1 DEF DeclaratorBase
    <3>4. Put(<< Pointers(<< >>), Expect(")"), x >>, Pointers(<< >>))
      BY <1>2, <3>2, PutTuples, NeutralItems DEF Readers
    <3> QED
      BY <1>3, <3>3, <3>4, NeutralItems DEF Readers
  <2>4. CASE token # "*" /\ token \notin Names /\ token # "("
    <3>1. Leaving(<< Suffix(todo.outer, << >>, NoName) >>)
      BY <1>5, <2>4 DEF DeclaratorBase
    <3> QED
      BY <1>3, <1>4, <3>1, NothingFresh
  <2> QED
    BY <2>1, <2>2, <2>3, <2>4
<1>6. CASE InnerDeclarator
  <2>1. Reads(todo)
    BY <1>6 DEF InnerDeclarator, Doing, Reads, Wants
  <2>2. Leaving(<< Suffix(todo.outer, ret.type, ret.name) >>)
    BY <1>6 DEF InnerDeclarator
  <2>3. Fresh(ret.type, Current)
    BY <2>1, StandingIs
  <2> QED
    BY <1>3, <1>4, <2>2, <2>3
<1>7. CASE ParameterDeclarator
  <2>1. PICK x : x = [do |-> "based", base |-> ret.type]
    OBVIOUS
  <2>2. Neutral(x)
    BY <2>1, ByName DEF Closers, Readers
  <2>3. Leaving(<< Pointers(<< >>), x >>)
    BY <1>7, <2>1 DEF ParameterDeclarator, Declarator
  <2>4. Put(<< Pointers(<< >>), x >>, Pointers(<< >>))
    BY <1>2, <2>2, PutTuples, NeutralItems DEF Readers
  <2> QED
    BY <1>3, <2>3, <2>4, NeutralItems DEF Readers
<1> QED
  BY <1>5, <1>6, <1>7

\* Statements without a scope of their own.
LEMMA StatementNests ==
  ASSUME Standing,
         \/ Else \/ Do \/ Label \/ Empty \/ LocalDeclaration \/ EndOfLocal \/ Expression \/ Primary
  PROVE  NestInv'
<1>1. todo.do \in {"else", "stmt", "local", "expr"} /\ Apart
  BY DEF Else, Do, Label, Empty, LocalDeclaration, EndOfLocal, Expression, Primary, Doing, Apart,
         StatementStarts
<1>2. todo.do \notin Closers \cup {"unit"} /\ todo.do # "end_of_body"
  BY <1>1 DEF Closers
<1>3. Gives(todo) \notin {"loose", "full"}
  BY <1>1, ByName DEF InDeclarator, InParameters, Readers
<1>4. \A d \in {"stmt", "declaration", "local", "expr"} : Neutral(Item(d)) /\ ~ Reads(Item(d))
  BY NeutralItems DEF Closers, Readers
<1>5. ASSUME NEW items, NEW a, Taking(items) \/ Leaving(items), Put(items, a), ~ Reads(a)
      PROVE  NestInv'
  BY <1>1, <1>2, <1>5, Passes, CalmSteps DEF CalmStep, Put
<1>6. ASSUME Taking(<< >>) \/ Leaving(<< >>) PROVE NestInv'
  BY <1>1, <1>2, <1>3, <1>6, Passes, CalmSteps DEF CalmStep
<1>7. CASE Else \/ Label
  <2>1. Taking(<< Item("stmt") >>) \/ Leaving(<< >>)
    BY <1>7 DEF Else, Label
  <2>2. Put(<< Item("stmt") >>, Item("stmt"))
    BY <1>1, <1>2, <1>4, PutTuples
  <2> QED
    BY <1>4, <1>5, <1>6, <2>1, <2>2
<1>8. CASE Do
  <2>1. Taking(<< Item("stmt"), Expect("while"), Expect(";") >>)
    BY <1>8 DEF Do
  <2>2. Put(<< Item("stmt"), Expect("while"), Expect(";") >>, Item("stmt"))
    BY <1>1, <1>2, <1>4, PutTuples, NeutralItems DEF Readers
  <2> QED
    BY <1>4, <1>5, <2>1, <2>2
<1>9. CASE Empty \/ EndOfLocal
  BY <1>6, <1>9 DEF Empty, EndOfLocal
<1>10. CASE LocalDeclaration
  <2>1. Leaving(<< Item("declaration"), Item("local") >>)
    BY <1>10 DEF LocalDeclaration
  <2>2. Put(<< Item("declaration"), Item("local") >>, Item("declaration"))
    BY <1>1, <1>2, <1>4, PutTuples
  <2> QED
    BY <1>4, <1>5, <2>1, <2>2
<1>11. CASE Expression
  <2>1. Leaving(<< Item("expr"), Expect(";") >>)
    BY <1>11 DEF Expression
  <2>2. Put(<< Item("expr"), Expect(";") >>, Item("expr"))
    BY <1>1, <1>2, <1>4, PutTuples, NeutralItems DEF Readers
  <2> QED
    BY <1>4, <1>5, <2>1, <2>2
<1>12. CASE Primary
  <2>1. Taking(<< >>) \/ Fail \/ Crash
    BY <1>12 DEF Primary
  <2> QED
    BY <1>6, <2>1, NestFails
<1> QED
  BY <1>7, <1>8, <1>9, <1>10, <1>11, <1>12

\* Types without functions are fresh, and so is one fresh type behind another.
LEMMA FreshTypes ==
  /\ \A t, m : IsPointers(t) \/ IsDimensions(t) => IsSeq(t) /\ Fresh(t, m)
  /\ \A t, Y, T, m : IsBase(t, Y, T) => IsSeq(t) /\ Fresh(t, m)
  /\ \A t, Y, T : IsLoose(t, Y, T) \/ IsFull(t, Y, T) => IsSeq(t)
  /\ \A a, b, m : IsSeq(a) /\ IsSeq(b) /\ Fresh(a, m) /\ Fresh(b, m) => Fresh(a \o b, m)
<1>1. \A t, m : IsPointers(t) \/ IsDimensions(t) => IsSeq(t) /\ Fresh(t, m)
  BY DEF IsPointers, IsDimensions, Fresh, Base
<1>2. ASSUME NEW t, NEW Y, NEW T, NEW m, IsBase(t, Y, T) PROVE IsSeq(t) /\ Fresh(t, m)
  <2>1. PICK p : t = << p >> /\ p.kind \in BaseKinds
    BY <1>2 DEF IsBase
  <2>2. \A i \in 1 .. Len(<< p >>) : << p >>[i] = p
    BY One
  <2> QED
    BY <2>1, <2>2, One DEF Fresh, BaseKinds
<1>3. ASSUME NEW t, NEW Y, NEW T, IsLoose(t, Y, T) \/ IsFull(t, Y, T) PROVE IsSeq(t)
  <2>1. CASE IsFull(t, Y, T)
    BY <2>1 DEF IsFull, IsParts
  <2>2. CASE IsLoose(t, Y, T)
    <3>1. PICK u : IsParts(u, Y, T) /\ (t = u \/ t = u \o << Base("null") >>)
      BY <2>2 DEF IsLoose
    <3> QED
      BY <3>1, One, Joined DEF IsParts
  <2> QED
    BY <1>3, <2>1, <2>2
<1>4. ASSUME NEW a, NEW b, NEW m, IsSeq(a), IsSeq(b), Fresh(a, m), Fresh(b, m) PROVE Fresh(a \o b, m)
  <2>1. /\ Len(a \o b) = Len(a) + Len(b) /\ Len(a) \in Nat /\ Len(b) \in Nat
        /\ \A i \in 1 .. Len(a) : (a \o b)[i] = a[i]
        /\ \A i \in 1 .. Len(b) : (a \o b)[Len(a) + i] = b[i]
    BY <1>4, Joined
  <2>2. PICK c : c = a \o b
    OBVIOUS
  <2>3. ASSUME NEW i \in 1 .. Len(c), c[i].kind = "func" PROVE c[i].sym > m
    <3>1. CASE i <= Len(a)
      <4>1. i \in 1 .. Len(a) /\ c[i] = a[i]
        BY <2>1, <2>2, <3>1
      <4> QED
        BY <1>4, <2>3, <4>1 DEF Fresh
    <3>2. CASE i > Len(a)
      <4>1. PICK j \in 1 .. Len(b) : i = Len(a) + j
        <5>1. i - Len(a) \in 1 .. Len(b) /\ i = Len(a) + (i - Len(a))
          BY <2>1, <2>2, <3>2
        <5> QED
          BY <5>1
      <4>2. c[i] = b[j]
        BY <2>1, <2>2, <4>1
      <4> QED
        BY <1>4, <2>3, <4>2 DEF Fresh
    <3> QED
      BY <2>1, <2>2, <3>1, <3>2
  <2> QED
    BY <2>2, <2>3 DEF Fresh
<1> QED
  BY <1>1, <1>2, <1>3, <1>4

\* The results of declarators.
LEMMA JoinedNests ==
  ASSUME Standing, Linked \/ DeclaratorBased
  PROVE  NestInv'
<1>1. todo.do \in {"linked", "based"}
  BY DEF Linked, DeclaratorBased, Doing
<1>2. Apart /\ todo.do \notin Closers \cup {"unit"}
  BY <1>1 DEF Apart, Closers
<1>3. Reads(todo) /\ Wants(todo) = "loose"
  BY <1>1 DEF Reads, Wants
<1>4. Fresh(ret.type, Current) /\ IsLoose(ret.type, symbols, Len(tables))
  BY <1>3, StandingIs DEF Serves
<1>5. CASE Linked
  <2>1. todo.do = "linked"
    BY <1>5 DEF Linked, Doing
  <2>2. Fresh(todo.inner, Current) /\ IsLoose(todo.inner, symbols, Len(tables))
    BY <2>1, <1>2, StandingIs, HeadHoused DEF Settled, IsItem
  <2>3. Fresh(todo.inner \o ret.type, Current)
    BY <1>4, <2>2, FreshTypes
  <2>4. Crash \/ Return(todo.inner \o ret.type, todo.name)
    BY <1>5 DEF Linked
  <2> QED
    BY <1>2, <2>3, <2>4, Passes, CalmSteps DEF CalmStep
<1>6. CASE DeclaratorBased
  <2>1. todo.do = "based"
    BY <1>6 DEF DeclaratorBased, Doing
  <2>2. IsBase(todo.base, symbols, Len(tables))
    BY <2>1, StandingIs DEF IsItem
  <2>3. Fresh(ret.type \o todo.base, Current)
    BY <1>4, <2>2, FreshTypes
  <2>4. Crash \/ Return(ret.type \o todo.base, ret.name)
    BY <1>6 DEF DeclaratorBased
  <2> QED
    BY <1>2, <2>3, <2>4, Passes, CalmSteps DEF CalmStep
<1> QED
  BY <1>5, <1>6

\* Arrays.
LEMMA ArrayNests ==
  ASSUME Standing, ArrayDeclarator \/ ArraySize
  PROVE  NestInv'
<1>1. todo.do \in {"dimension", "size"}
  BY DEF ArrayDeclarator, ArraySize, Doing
<1>2. Apart /\ todo.do \notin Closers \cup {"unit"} /\ todo.do # "end_of_body"
  BY <1>1 DEF Apart, Closers
<1>3. ASSUME NEW items, NEW a, Taking(items) \/ Leaving(items), Put(items, a), ~ Reads(a)
      PROVE  NestInv'
  BY <1>2, <1>3, Passes, CalmSteps DEF CalmStep, Put
<1>4. CASE ArrayDeclarator
  <2>1. CASE token = "["
    <3>1. PICK x : x = [todo EXCEPT !.do = "size"]
      OBVIOUS
    <3>2. x.do = "size"
      BY <3>1, StandingIs DEF HasDo
    <3>3. Neutral(x) /\ ~ Reads(x)
      BY <3>2, ByName DEF Closers, Readers
    <3>4. Taking(<< x >>)
      BY <1>4, <2>1, <3>1 DEF ArrayDeclarator
    <3>5. Put(<< x >>, x)
      BY <1>2, <3>3, PutTuples
    <3> QED
      BY <1>3, <3>3, <3>4, <3>5
  <2>2. CASE token # "["
    <3>1. Return(todo.dims \o todo.outer, NoName)
      BY <1>4, <2>2 DEF ArrayDeclarator
    <3>2. IsPointers(todo.outer) /\ IsDimensions(todo.dims)
      BY <1>1, StandingIs DEF IsItem, InDeclarator
    <3>3. Fresh(todo.dims \o todo.outer, Current)
      BY <3>2, FreshTypes
    <3> QED
      BY <1>2, <3>1, <3>3, Passes, CalmSteps DEF CalmStep
  <2> QED
    BY <2>1, <2>2
<1>5. CASE ArraySize
  <2>1. PICK x, k : /\ x = [todo EXCEPT !.do = "dimension", !.dims = Append(@, Base(k))]
                    /\ Taking(<< x >>) \/ Leaving(<< Item("expr"), Expect("]"), x >>)
    BY <1>5 DEF ArraySize
  <2>2. x.do = "dimension"
    BY <2>1, StandingIs DEF HasDo
  <2>3. Neutral(x) /\ ~ Reads(x)
    BY <2>2, ByName DEF Closers, Readers
  <2>4. Neutral(Item("expr")) /\ ~ Reads(Item("expr")) /\ Neutral(Expect("]"))
    BY NeutralItems DEF Closers, Readers
  <2>5. Put(<< x >>, x)
    BY <1>2, <2>3, PutTuples
  <2>6. Put(<< Item("expr"), Expect("]"), x >>, Item("expr"))
    BY <1>2, <2>3, <2>4, PutTuples
  <2> QED
    BY <1>3, <2>1, <2>3, <2>4, <2>5, <2>6
<1> QED
  BY <1>4, <1>5

\* parser_parse.
LEMMA UnitNests ==
  ASSUME Standing, Unit
  PROVE  NestInv'
<1>1. todo.do = "unit"
  BY DEF Unit, Doing
<1>2. Apart /\ todo.do \notin Closers /\ todo.do # "end_of_body"
  BY <1>1 DEF Apart, Closers
<1>3. CASE token = "eos"
  BY <1>3 DEF Unit, NestInv
<1>4. CASE token # "eos"
  <2>1. Continue(<< Item("declaration"), todo >>) /\ SameScopes
    BY <1>4 DEF Unit, scopes, SameScopes
  <2>2. Neutral(todo) /\ Neutral(Item("declaration")) /\ ~ Reads(Item("declaration"))
    BY <1>1, NeutralItems, ByName DEF Closers, Readers
  <2>3. Put(<< Item("declaration"), todo >>, Item("declaration"))
    BY <1>2, <2>2, PutTuples
  <2> QED
    BY <1>2, <2>1, <2>2, <2>3, CalmNeutral DEF Put
<1> QED
  BY <1>3, <1>4

\* Declarations and what joins their declarators.
LEMMA DeclarationNests ==
  ASSUME Standing, Declaration \/ Declarators \/ Separator
  PROVE  NestInv'
<1>1. todo.do \in {"declaration", "declarators", "separator"}
  BY DEF Declaration, Declarators, Separator, Doing
<1>2. Apart /\ todo.do \notin Closers \cup {"unit"} /\ todo.do # "end_of_body"
  BY <1>1 DEF Apart, Closers
<1>3. Gives(todo) \notin {"loose", "full"}
  BY <1>1, ByName DEF InDeclarator, InParameters, Readers
<1>4. ASSUME NEW items, NEW a, Taking(items) \/ Leaving(items), Put(items, a), ~ Reads(a)
      PROVE  NestInv'
  BY <1>2, <1>4, Passes, CalmSteps DEF CalmStep, Put
<1>5. ASSUME Taking(<< >>) \/ Leaving(<< >>) PROVE NestInv'
  BY <1>2, <1>3, <1>5, Passes, CalmSteps DEF CalmStep
<1>6. ASSUME NEW base, NEW typedef,
             Taking(NextDeclarator(base, typedef)) \/ Leaving(NextDeclarator(base, typedef))
      PROVE  NestInv'
  <2>1. PICK x, y : x = [do |-> "based", base |-> base]
                    /\ y = [do |-> "declared", base |-> base, typedef |-> typedef]
    OBVIOUS
  <2>2. Neutral(x) /\ Neutral(y) /\ Neutral(Pointers(<< >>)) /\ ~ Reads(Pointers(<< >>))
    BY <2>1, ByName, NeutralItems DEF Closers, Readers
  <2>3. NextDeclarator(base, typedef) = << Pointers(<< >>), x, y >>
    BY <2>1, TupleConcat DEF NextDeclarator, Declarator
  <2>4. Put(<< Pointers(<< >>), x, y >>, Pointers(<< >>))
    BY <1>2, <2>2, PutTuples
  <2> QED
    BY <1>4, <1>6, <2>2, <2>3, <2>4
<1>7. CASE Declaration
  <2>1. PICK x : x = [do |-> "declarators", typedef |-> cur_decl_type = Global /\ token = "typedef"]
    OBVIOUS
  <2>2. Neutral(x)
    BY <2>1, ByName DEF Closers, Readers
  <2>3. Neutral(Item("specifier"))
    BY NeutralItems DEF Closers, Readers
  <2>4. CASE cur_decl_type = Global
    <3> DEFINE items == << Accept({"extern", "static"}), Accept({"const"}), Item("specifier"), x >>
    <3>1. items = << Accept({"extern", "static"}) >>
                  \o << Accept({"const"}), Item("specifier"), x >>
      OBVIOUS
    <3>2. Taking(items) \/ Leaving(items)
      BY <1>7, <2>1, <2>4, <3>1 DEF Declaration
    <3>3. Put(items, Accept({"extern", "static"}))
      BY <1>2, <2>2, <2>3, PutTuples, NeutralItems DEF Readers
    <3> HIDE DEF items
    <3> QED
      BY <1>4, <3>2, <3>3, NeutralItems DEF Readers
  <2>5. CASE cur_decl_type # Global
    <3> DEFINE items == << Accept({"const"}), Item("specifier"), x >>
    <3>1. items = << >> \o items
      OBVIOUS
    <3>2. Taking(items) \/ Leaving(items)
      BY <1>7, <2>1, <2>5, <3>1 DEF Declaration
    <3>3. Put(items, Accept({"const"}))
      BY <1>2, <2>2, <2>3, PutTuples, NeutralItems DEF Readers
    <3> HIDE DEF items
    <3> QED
      BY <1>4, <3>2, <3>3, NeutralItems DEF Readers
  <2> QED
    BY <2>4, <2>5
<1>8. CASE Declarators
  BY <1>5, <1>6, <1>8 DEF Declarators
<1>9. CASE Separator
  <2>1. Neutral(Expect(";")) /\ ~ Reads(Expect(";"))
    BY NeutralItems DEF Readers
  <2>2. Put(<< Expect(";") >>, Expect(";"))
    BY <1>2, <2>1, PutTuples
  <2>3. Taking(NextDeclarator(todo.base, todo.typedef)) \/ Leaving(<< Expect(";") >>)
    BY <1>9 DEF Separator
  <2> QED
    BY <1>4, <1>6, <2>1, <2>2, <2>3
<1> QED
  BY <1>7, <1>8, <1>9

\* A variable is put behind its initializer.
LEMMA DeclaredVariableNests ==
  ASSUME Standing, DeclaredVariable
  PROVE  NestInv'
<1>1. todo.do = "declared"
  BY DEF DeclaredVariable, Doing
<1>2. Apart /\ todo.do \notin Closers \cup {"unit"} /\ todo.do # "end_of_body"
  BY <1>1 DEF Apart, Closers
<1>3. PICK kind : kind = VariableKind(todo.typedef)
  OBVIOUS
<1>4. PICK r : r = [Symbol(kind, ret.name, ret.type, SizeOf(ret.type)) EXCEPT !.function = Function]
  OBVIOUS
<1>5. PICK x : x = [do |-> "variable", symbol |-> r]
  OBVIOUS
<1>6. PICK y : y = [do |-> "separator", base |-> todo.base, typedef |-> todo.typedef]
  OBVIOUS
<1>7. PICK e : e = Item("expr")
  OBVIOUS
<1>8. \/ Fail
      \/ (Continue(<< e >> \o << x, y >>) \/ Continue(<< x, y >>)) /\ SameScopes
  BY <1>3, <1>4, <1>5, <1>6, <1>7 DEF DeclaredVariable, scopes, SameScopes
<1>9. r.kind # "function"
  <2>1. todo.typedef \in BOOLEAN
    BY <1>1, StandingIs DEF IsItem
  <2>2. kind # "function"
    BY <1>3, <2>1 DEF VariableKind
  <2> QED
    BY <1>4, <2>2 DEF Symbol
<1>10. Len(symtables) \in Nat /\ symtables[Len(symtables)] \notin Sigs(symbols)
  BY <1>2, StandingIs, HeadHoused
<1>11. Over(x, Len(symtables), Len(symtables), symtables, tables, symbols)
  <2>1. Held(x) = 0 /\ x.do = "variable" /\ x.symbol = r
    BY <1>5 DEF Held, Closers
  <2>2. Settled(x, Len(symtables), symtables, tables, symbols)
    BY <1>9, <1>10, <2>1 DEF Settled, Closers
  <2> QED
    BY <1>10, <2>1, <2>2 DEF Over
<1>12. Neutral(y) /\ Neutral(e) /\ ~ Reads(x) /\ ~ Reads(e)
  BY <1>5, <1>6, <1>7, ByName, NeutralItems DEF Closers, Readers
<1>13. /\ Over(y, Len(symtables), Len(symtables), symtables, tables, symbols)
       /\ Over(e, Len(symtables), Len(symtables), symtables, tables, symbols)
  BY <1>10, <1>12, NeutralOver
<1>14. Put(<< x, y >>, x) /\ Put(<< e, x, y >>, e)
  BY <1>11, <1>13, LodgedTuples DEF Put
<1>15. << e >> \o << x, y >> = << e, x, y >>
  BY TupleConcat
<1>16. CASE (Continue(<< e >> \o << x, y >>) \/ Continue(<< x, y >>)) /\ SameScopes
  BY <1>2, <1>12, <1>14, <1>15, <1>16, CalmNeutral DEF Put
<1> QED
  BY <1>8, <1>16, NestFails

\* A call that closes a scope goes on under another name.
LEMMA CloserAgain ==
  ASSUME NEW k, NEW S, NEW B, NEW Y, NEW x, Settled(x, k, S, B, Y), HasDo(x),
         x.do \in Closers \ {"end_of_body"}, NEW d \in Closers \ {"end_of_body"}
  PROVE  /\ Settled([x EXCEPT !.do = d], k, S, B, Y)
         /\ [x EXCEPT !.do = d].do = d /\ Held([x EXCEPT !.do = d]) = 1 /\ Held(x) = 1
<1> DEFINE y == [x EXCEPT !.do = d]
<1>1. "opened" \in DOMAIN x /\ x.opened = MeaningBelow(S, k, B) /\ S[k] \notin Sigs(Y)
  BY DEF Settled
<1>2. y.do = d /\ "opened" \in DOMAIN y /\ y.opened = x.opened
  BY <1>1 DEF HasDo, Closers
<1> HIDE DEF y
<1>3. Settled(y, k, S, B, Y)
  BY <1>1, <1>2 DEF Settled, Closers
<1> QED
  BY <1>2, <1>3 DEF y, Held

\* What is above may go when what is below is kept.
LEMMA AgreeLess ==
  ASSUME NEW k \in Nat, NEW j \in Nat, j <= k, NEW S, NEW B, NEW Y, NEW P, NEW C, NEW Z,
         Agree(k, S, B, Y, P, C, Z)
  PROVE  Agree(j, S, B, Y, P, C, Z)
<1>1. \A i \in 1 .. j : i \in 1 .. k
  OBVIOUS
<1>2. \A i \in 1 .. j - 1 : i \in 1 .. k - 1
  OBVIOUS
<1> QED
  BY <1>1, <1>2 DEF Agree

\* A closing call that has more to do before.
LEMMA CalmCloses ==
  ASSUME Standing, SameScopes, todo.do \in Closers \ {"end_of_body"}, NEW d \in Closers \ {"end_of_body"},
         NEW x, x = [todo EXCEPT !.do = d] \/ x = todo
  PROVE  /\ Continue(<< x >>) /\ (Reads(x) => Fresh(ret'.type, Current)) => NestInv'
         /\ \A a : Continue(<< a, x >>) /\ Neutral(a) /\ ~ Reads(a) => NestInv'
         /\ \A a, b : Continue(<< a, b, x >>) /\ Neutral(a) /\ Neutral(b) /\ ~ Reads(a) => NestInv'
<1>1. Apart /\ todo.do # "end_of_body"
  BY DEF Apart, Closers
<1>2. /\ Len(symtables) \in Nat /\ Len(symtables) - Held(todo) \in Nat
      /\ symtables[Len(symtables)] \notin Sigs(symbols)
      /\ Settled(todo, Len(symtables), symtables, tables, symbols) /\ HasDo(todo)
  BY <1>1, HeadHoused, StandingIs
<1>3. Settled(x, Len(symtables), symtables, tables, symbols) /\ Held(x) = 1 /\ Held(todo) = 1
  <2>1. Held(todo) = 1
    BY DEF Held
  <2> QED
    BY <1>2, <2>1, CloserAgain
<1>4. Over(x, Len(symtables) - Held(todo), Len(symtables), symtables, tables, symbols)
  BY <1>2, <1>3 DEF Over
<1>5. \A a : Neutral(a) => Over(a, Len(symtables), Len(symtables), symtables, tables, symbols)
  BY <1>2, NeutralOver
<1>6. Lodged(<< x >>, x, Len(symtables) - Held(todo), Len(symtables), symtables, tables, symbols)
  BY <1>4, LodgedOne
<1>7. \A a : Neutral(a) =>
        Lodged(<< a, x >>, a, Len(symtables) - Held(todo), Len(symtables), symtables, tables, symbols)
  BY <1>4, <1>5, LodgedTuples
<1>8. \A a, b : Neutral(a) /\ Neutral(b) =>
        Lodged(<< a, b, x >>, a, Len(symtables) - Held(todo), Len(symtables), symtables, tables, symbols)
  BY <1>4, <1>5, LodgedTuples
<1> QED
  BY <1>1, <1>6, <1>7, <1>8, CalmGoesOn

\* Parameters, until one is declared.
LEMMA ParametersNest ==
  ASSUME Standing, Parameters \/ Parameter
  PROVE  NestInv'
<1>1. todo.do \in Closers \ {"end_of_body"}
  BY DEF Parameters, Parameter, Doing, Closers
<1>2. /\ Neutral(Item("specifier")) /\ ~ Reads(Item("specifier")) /\ Neutral(Item("declarator"))
  BY NeutralItems DEF Closers, Readers
<1>3. CASE Parameters
  <2>1. PICK d \in {"parameter", "parameters_end"} : Leaving(<< [todo EXCEPT !.do = d] >>)
    BY <1>3 DEF Parameters
  <2>2. PICK x : x = [todo EXCEPT !.do = d]
    OBVIOUS
  <2>3. x.do = d /\ ~ Reads(x) /\ d \in Closers \ {"end_of_body"}
    BY <2>2, StandingIs, ByName DEF HasDo, Closers, Readers
  <2> QED
    BY <1>1, <2>1, <2>2, <2>3, Passes, CalmCloses
<1>4. CASE Parameter
  <2>1. CASE token = "..."
    <3>1. PICK x : x = [todo EXCEPT !.do = "parameters_end"]
      OBVIOUS
    <3>2. x.do = "parameters_end" /\ ~ Reads(x) /\ "parameters_end" \in Closers \ {"end_of_body"}
      BY <3>1, StandingIs, ByName DEF HasDo, Closers, Readers
    <3>3. Taking(<< x >>)
      BY <1>4, <2>1, <3>1 DEF Parameter
    <3> QED
      BY <1>1, <3>1, <3>2, <3>3, Passes, CalmCloses
  <2>2. CASE token # "..."
    <3>1. PICK x : x = [todo EXCEPT !.do = "declared_parameter"]
      OBVIOUS
    <3>2. "declared_parameter" \in Closers \ {"end_of_body"}
      BY DEF Closers
    <3>3. Leaving(<< Item("specifier"), Item("declarator"), x >>)
      BY <1>4, <2>2, <3>1 DEF Parameter
    <3> QED
      BY <1>1, <1>2, <3>1, <3>2, <3>3, Passes, CalmCloses
  <2> QED
    BY <2>1, <2>2
<1> QED
  BY <1>3, <1>4

\* The fields of a struct and the statements of a block, until the brace.
LEMMA InsideNests ==
  ASSUME Standing, (Field \/ Block) /\ token # "}"
  PROVE  NestInv'
<1>1. todo.do \in {"field", "block"} /\ todo.do \in Closers \ {"end_of_body"}
  BY DEF Field, Block, Doing, Closers
<1>2. PICK a : /\ Neutral(a) /\ ~ Reads(a)
               /\ Continue(<< a, todo >>) /\ SameScopes
  <2>1. CASE Field
    <3>1. Continue(<< Item("declaration"), todo >>) /\ SameScopes
      BY <2>1 DEF Field, scopes, SameScopes
    <3> QED
      BY <3>1, NeutralItems DEF Closers, Readers
  <2>2. CASE Block
    <3>1. Continue(<< Item("stmt"), todo >>) /\ SameScopes
      BY <2>2, Passes DEF Block
    <3> QED
      BY <3>1, NeutralItems DEF Closers, Readers
  <2> QED
    BY <2>1, <2>2
<1> QED
  BY <1>1, <1>2, CalmCloses

----------------------------------------------------------------------------
(* A symbol is put into the current scope *)

\* What stands below is left alone, and no table of parameters comes to be open.
LEMMA PutSpares ==
  ASSUME Standing, Apart, todo.do # "end_of_body", NEW r, NEW name, NEW class, NEW n,
         tables' = PutInto(name, class, n), symbols' = Append(symbols, r), symtables' = symtables,
         r.kind = "function" => r.symtable > Current
  PROVE  /\ Spares(Len(symtables)) /\ Spares(Len(symtables) - Held(todo))
         /\ symtables'[Len(symtables')] \notin Sigs(symbols')
         /\ Len(symtables') = Len(symtables) /\ Rising(symtables') /\ Current' = Current
<1>1. Spares(Len(symtables))
  BY StandingIs, AgreePut DEF Spares
<1>2. /\ Len(symtables) \in Nat /\ Len(symtables) - Held(todo) \in Nat
      /\ Len(symtables) - Held(todo) <= Len(symtables)
  BY HeadHoused, StandingIs DEF Held
<1>3. Spares(Len(symtables) - Held(todo))
  BY <1>1, <1>2, AgreeLess DEF Spares
<1>4. Current \notin Sigs(symbols) /\ Current = symtables[Len(symtables)]
  BY HeadHoused, StandingIs
<1>5. Len(symtables) \in 1 .. Len(symtables)
  BY StandingIs
<1>6. symtables'[Len(symtables')] \notin Sigs(symbols')
  BY <1>1, <1>4, <1>5 DEF Spares, Agree
<1> QED
  BY <1>1, <1>3, <1>6, StandingIs DEF Current

\* A call that puts one and goes on with what knows nothing of scopes,
LEMMA PutGoesOn ==
  ASSUME Standing, Apart, todo.do \notin Closers, NEW r, NEW name, NEW class, NEW n,
         tables' = PutInto(name, class, n), symbols' = Append(symbols, r), symtables' = symtables,
         r.kind # "function", NEW a, Neutral(a), ~ Reads(a), Continue(<< a >>)
  PROVE  NestInv'
<1>1. todo.do # "end_of_body" /\ Len(symtables) - Held(todo) = Len(symtables)
  BY StandingIs DEF Closers, Held
<1>2. /\ Spares(Len(symtables) - Held(todo)) /\ symtables'[Len(symtables')] \notin Sigs(symbols')
      /\ Len(symtables') = Len(symtables) /\ Rising(symtables')
  BY <1>1, PutSpares
<1>3. Len(symtables) \in Nat /\ Now(Tail(stack), Len(symtables) - Held(todo))
  BY StandingIs, HeadHoused
<1>4. Fitting(<< a >>, a, Len(symtables) - Held(todo))
  <2>1. Lodged(<< a >>, a, Len(symtables'), Len(symtables'), symtables', tables', symbols')
    BY <1>2, <1>3, NeutralTuples
  <2> QED
    BY <1>1, <1>2, <2>1 DEF Fitting
<1> QED
  BY <1>1, <1>2, <1>3, <1>4, NestStep

\* Tags and constants.
LEMMA TagNests ==
  ASSUME Standing, StructuredSpecifier \/ Enumerator
  PROVE  NestInv'
<1>1. todo.do \in {"tag", "enumerator"}
  BY DEF StructuredSpecifier, Enumerator, Doing
<1>2. Apart /\ todo.do \notin Closers \cup {"unit"} /\ todo.do # "end_of_body"
  BY <1>1 DEF Apart, Closers
<1>3. CASE StructuredSpecifier
  <2> DEFINE named == token \in Names
             known == IF named THEN GetSymbol(token, "SC_TAG") ELSE 0
             name  == IF named THEN token ELSE NoName
             s     == IF known # 0 THEN known ELSE Len(symbols) + 1
  <2>1. PICK a : a = [do |-> IF todo.kind = "enum" THEN "enum" ELSE "struct", tag |-> s, kind |-> todo.kind]
    OBVIOUS
  <2>2. Continue(<< a >>) /\ symtables' = symtables
    BY <1>3, <2>1 DEF StructuredSpecifier
  <2>3. Neutral(a) /\ ~ Reads(a)
    <3>1. a.do \in {"enum", "struct"}
      BY <2>1
    <3> QED
      BY <3>1, ByName DEF Closers, Readers
  <2>4. CASE known # 0
    <3>1. SameScopes
      BY <1>3, <2>4 DEF StructuredSpecifier, SameScopes
    <3>2. Put(<< a >>, a)
      BY <1>2, <2>3, PutTuples
    <3> QED
      BY <1>2, <2>2, <2>3, <3>1, <3>2, CalmNeutral DEF Put
  <2>5. CASE known = 0
    <3>1. PICK r : r = Symbol(todo.kind, name, << >>, 0)
      OBVIOUS
    <3>2. symbols' = Append(symbols, r) /\ tables' = PutInto(name, "SC_TAG", s)
      BY <1>3, <2>5, <3>1 DEF StructuredSpecifier
    <3>3. todo.kind \in TagKinds
      BY <1>3, StandingIs DEF StructuredSpecifier, Doing, IsItem
    <3>4. r.kind # "function"
      BY <3>1, <3>3 DEF Symbol, TagKinds
    <3> HIDE DEF name, s
    <3> QED
      BY <1>2, <2>2, <2>3, <3>2, <3>4, PutGoesOn
  <2> QED
    BY <2>4, <2>5
<1>4. CASE Enumerator
  <2>1. CASE token = "}"
    <3>1. ReturnTaking(Of("tag", todo.tag), NoName)
      BY <1>4, <2>1 DEF Enumerator
    <3>2. todo.do = "enumerator"
      BY <1>4 DEF Enumerator, Doing
    <3>3. Gives(todo) \notin {"loose", "full"}
      BY <3>2, ByName DEF InDeclarator, InParameters, Readers
    <3> QED
      BY <1>2, <3>1, <3>3, Passes, CalmSteps DEF CalmStep
  <2>2. CASE token # "}" /\ token \in Names
    <3>1. PICK a : a = [todo EXCEPT !.do = "enumerated"]
      OBVIOUS
    <3>2. PICK r : r = Symbol("enum_const", token, Of("tag", todo.tag), 0)
      OBVIOUS
    <3>3. /\ Continue(<< a >>) /\ symtables' = symtables
          /\ symbols' = Append(symbols, r) /\ tables' = PutInto(token, "SC_NAME", Len(symbols) + 1)
      BY <1>4, <2>2, <3>1, <3>2 DEF Enumerator
    <3>4. a.do = "enumerated" /\ r.kind # "function"
      BY <3>1, <3>2, StandingIs DEF HasDo, Symbol
    <3>5. Neutral(a) /\ ~ Reads(a)
      BY <3>4, ByName DEF Closers, Readers
    <3> QED
      BY <1>2, <3>3, <3>4, <3>5, PutGoesOn
  <2>3. CASE token # "}" /\ token \notin Names
    BY <1>4, <2>3, NestFails DEF Enumerator
  <2> QED
    BY <2>1, <2>2, <2>3
<1> QED
  BY <1>3, <1>4

\* A parameter is declared.
LEMMA DeclaredParameterNests ==
  ASSUME Standing, DeclaredParameter
  PROVE  NestInv'
<1>1. todo.do = "declared_parameter" /\ todo.do \in Closers \ {"end_of_body"}
  BY DEF DeclaredParameter, Doing, Closers
<1>2. Apart /\ todo.do # "end_of_body"
  BY <1>1 DEF Apart
<1>3. PICK r : r = Symbol("parameter", ret.name, ret.type, 0)
  OBVIOUS
<1>4. PICK d \in {"parameter", "parameters_end"} : Continue(<< [todo EXCEPT !.do = d] >>)
  BY DEF DeclaredParameter
<1>5. PICK x : x = [todo EXCEPT !.do = d]
  OBVIOUS
<1>6. /\ symbols' = Append(symbols, r) /\ tables' = PutInto(ret.name, "SC_NAME", Len(symbols) + 1)
      /\ symtables' = symtables
  BY <1>3 DEF DeclaredParameter
<1>7. r.kind # "function"
  BY <1>3 DEF Symbol
<1>8. /\ Spares(Len(symtables)) /\ Spares(Len(symtables) - Held(todo))
      /\ Len(symtables') = Len(symtables) /\ Rising(symtables')
  BY <1>2, <1>6, <1>7, PutSpares
<1>9. /\ Settled(todo, Len(symtables), symtables, tables, symbols)
      /\ Now(Tail(stack), Len(symtables) - Held(todo)) /\ Len(symtables) - Held(todo) \in Nat
      /\ Len(symtables) \in Nat /\ Len(symtables) \in 1 .. Len(symtables) /\ HasDo(todo)
  BY <1>2, HeadHoused, StandingIs
<1>10. Settled(todo, Len(symtables), symtables', tables', symbols')
  BY <1>8, <1>9, SettledAgrees DEF Spares
<1>11. d \in Closers \ {"end_of_body"}
  BY DEF Closers
<1>12. /\ Settled(x, Len(symtables), symtables', tables', symbols')
       /\ Held(x) = 1 /\ Held(todo) = 1 /\ x.do = d
  BY <1>1, <1>5, <1>9, <1>10, <1>11, CloserAgain
<1>13. Over(x, Len(symtables) - Held(todo), Len(symtables), symtables', tables', symbols')
  BY <1>9, <1>12 DEF Over
<1>14. Fitting(<< x >>, x, Len(symtables) - Held(todo))
  <2>1. Lodged(<< x >>, x, Len(symtables) - Held(todo), Len(symtables), symtables', tables', symbols')
    BY <1>13, LodgedOne
  <2> QED
    BY <1>8, <2>1 DEF Fitting
<1>15. ~ Reads(x)
  BY <1>12, ByName DEF Readers
<1> QED
  BY <1>4, <1>5, <1>8, <1>9, <1>14, <1>15, NestStep

\* A function is: its parameters had their scope opened and left behind the current one.
LEMMA DeclaredFunctionNests ==
  ASSUME Standing, DeclaredFunction
  PROVE  NestInv'
<1>1. todo.do = "declared" /\ Head(ret.type).kind = "func"
  BY DEF DeclaredFunction, Doing
<1>2. Apart /\ todo.do \notin Closers /\ todo.do # "end_of_body"
  BY <1>1 DEF Apart, Closers
<1>3. Len(symtables) - Held(todo) = Len(symtables) /\ Len(symtables) \in Nat
  BY <1>2, StandingIs DEF Held
<1>4. PICK r : r = [Symbol("function", ret.name, Tail(ret.type), 0) EXCEPT !.symtable = Head(ret.type).sym]
  OBVIOUS
<1>5. PICK x : x = [do |-> "body", function |-> Len(symbols) + 1]
  OBVIOUS
<1>6. PICK y : y = [do |-> "separator", base |-> todo.base, typedef |-> todo.typedef]
  OBVIOUS
<1>7. Head(ret.type).sym > Current
  <2>1. Wants(todo) = "full" /\ Reads(todo)
    BY <1>1 DEF Reads, Wants
  <2>2. IsFull(ret.type, symbols, Len(tables)) /\ Fresh(ret.type, Current)
    BY <2>1, StandingIs DEF Serves
  <2>3. IsSeq(ret.type) /\ ret.type # << >>
    BY <2>2 DEF IsFull, IsParts
  <2>4. Len(ret.type) \in Nat /\ 1 \in 1 .. Len(ret.type) /\ Head(ret.type) = ret.type[1]
    BY <2>3 DEF IsSeq
  <2> QED
    BY <1>1, <2>2, <2>4 DEF Fresh
<1>8. CASE Fail
  BY <1>8, NestFails
<1>9. CASE ~ Fail
  <2>1. /\ symbols' = Append(symbols, r) /\ tables' = PutInto(ret.name, "SC_NAME", Len(symbols) + 1)
        /\ Continue(<< x, y >>) /\ symtables' = symtables
    BY <1>4, <1>5, <1>6, <1>9 DEF DeclaredFunction
  <2>2. r.kind = "function" /\ r.symtable = Head(ret.type).sym
    BY <1>4 DEF Symbol
  <2>3. /\ Spares(Len(symtables)) /\ symtables'[Len(symtables')] \notin Sigs(symbols')
        /\ Len(symtables') = Len(symtables) /\ Rising(symtables') /\ Current' = Current
    BY <1>2, <1>7, <2>1, <2>2, PutSpares
  <2>4. Len(symbols) + 1 \in DOMAIN symbols' /\ symbols'[Len(symbols) + 1] = r
    <3> DEFINE R == {symbols[f] : f \in 1 .. Len(symbols)} \cup {r}
    <3>1. symbols \in Seq(R) /\ r \in R
      BY StandingIs DEF SymbolsOK, IsSeq
    <3> HIDE DEF R
    <3> QED
      BY <2>1, <3>1, AppendProperties
  <2>5. Current = symtables[Len(symtables)]
    BY StandingIs
  <2>6. Over(x, Len(symtables), Len(symtables'), symtables', tables', symbols')
    <3>1. Held(x) = 0 /\ x.do = "body" /\ x.function = Len(symbols) + 1
      BY <1>5 DEF Held, Closers
    <3>2. symbols'[x.function].symtable > symtables'[Len(symtables')]
      BY <1>7, <2>1, <2>2, <2>3, <2>4, <2>5, <3>1
    <3>3. Settled(x, Len(symtables'), symtables', tables', symbols')
      BY <2>2, <2>3, <2>4, <3>1, <3>2 DEF Settled, Closers
    <3> QED
      BY <1>3, <2>3, <3>1, <3>3 DEF Over
  <2>7. Neutral(y)
    BY <1>6, ByName DEF Closers, Readers
  <2>8. Over(y, Len(symtables), Len(symtables), symtables', tables', symbols')
    BY <1>3, <2>3, <2>7, NeutralOver
  <2>9. Fitting(<< x, y >>, x, Len(symtables))
    BY <2>6, <2>8, <2>3, LodgedTuples DEF Fitting
  <2>10. ~ Reads(x)
    BY <1>5, ByName DEF Readers
  <2>11. Now(Tail(stack), Len(symtables))
    BY <1>2, <1>3, HeadHoused
  <2> QED
    BY <1>3, <2>1, <2>3, <2>9, <2>10, <2>11, NestStep
<1> QED
  BY <1>8, <1>9

\* A variable is.
LEMMA VariableNests ==
  ASSUME Standing, Variable
  PROVE  NestInv'
<1>1. todo.do = "variable"
  BY DEF Variable, Doing
<1>2. Apart /\ todo.do \notin Closers /\ todo.do # "end_of_body" /\ todo.do # "unit"
  BY <1>1 DEF Apart, Closers
<1>3. Len(symtables) - Held(todo) = Len(symtables) /\ Len(symtables) \in Nat
  BY <1>2, StandingIs DEF Held
<1>4. PICK r, l : /\ r = [todo.symbol EXCEPT !.offset = l]
                  /\ symbols' = Append(symbols, r)
                  /\ tables' = PutInto(todo.symbol.name, "SC_NAME", Len(symbols) + 1)
                  /\ Continue(<< >>) /\ symtables' = symtables
  BY DEF Variable
<1>5. r.kind # "function"
  <2>1. todo.symbol.kind # "function"
    BY <1>1, <1>2, HeadHoused DEF Settled
  <2> QED
    BY <1>4, <2>1
<1>6. /\ Spares(Len(symtables)) /\ Len(symtables') = Len(symtables) /\ Rising(symtables')
  BY <1>2, <1>4, <1>5, PutSpares
<1>7. Gives(todo) \notin {"loose", "full"}
  BY <1>1, ByName DEF InDeclarator, InParameters, Readers
<1>8. Now(Tail(stack), Len(symtables))
  BY <1>2, <1>3, HeadHoused
<1> QED
  BY <1>2, <1>3, <1>4, <1>6, <1>7, <1>8, NestReturn

----------------------------------------------------------------------------
(* A scope is opened *)

\* What stands below the new scope is left alone, and what is to close it remembers what
\* names meant.
LEMMA ScopeOpens ==
  ASSUME Standing, NEW n \in Nat, PushTable(n), n > Current, SameFunctions(symbols, symbols'),
         \A i \in 1 .. Len(symtables) : tables'[symtables[i]] = tables[symtables[i]]
  PROVE  /\ Spares(Len(symtables)) /\ Rising(symtables') /\ Len(symtables') = Len(symtables) + 1
         /\ Current' = n /\ symtables'[Len(symtables')] = n /\ Len(symtables) \in Nat
         /\ Sigs(symbols') = Sigs(symbols)
         /\ \A y : y.do \in Closers /\ "opened" \in DOMAIN y /\ y.opened = Meaning
                   /\ (y.do # "end_of_body" => n \notin Sigs(symbols))
                   => Over(y, Len(symtables), Len(symtables'), symtables', tables', symbols')
<1>1. /\ Len(symtables') = Len(symtables) + 1 /\ Current' = n /\ Rising(symtables')
      /\ symtables'[Len(symtables) + 1] = n
      /\ \A i \in 1 .. Len(symtables) : symtables'[i] = symtables[i]
  BY ScopePushed
<1>2. Len(symtables) \in Nat /\ IsSeq(symtables)
  BY StandingIs
<1>3. Spares(Len(symtables))
  <2>1. \A i \in 1 .. Len(symtables) - 1 : i \in 1 .. Len(symtables)
    BY <1>2
  <2> QED
    BY <1>1, <1>2, <2>1, AgreeKept DEF Spares
<1>4. Sigs(symbols') = Sigs(symbols)
  BY SameSigs
<1>5. MeaningBelow(symtables', Len(symtables) + 1, tables') = Meaning
  <2>1. PICK k \in Nat \ {0} : k = Len(symtables) + 1
    BY <1>2
  <2>2. \A i \in 1 .. k - 1 : symtables'[i] = symtables[i] /\ tables'[symtables[i]] = tables[symtables[i]]
    BY <1>1, <1>2, <2>1
  <2>3. MeaningBelow(symtables', k, tables') = MeaningBelow(symtables, k, tables)
    BY <2>2, MeaningAgrees
  <2> QED
    BY <1>2, <2>1, <2>3, MeaningIs
<1>6. ASSUME NEW y, y.do \in Closers, "opened" \in DOMAIN y, y.opened = Meaning,
             y.do # "end_of_body" => n \notin Sigs(symbols)
      PROVE  Over(y, Len(symtables), Len(symtables'), symtables', tables', symbols')
  <2>1. Held(y) = 1
    BY <1>6 DEF Held
  <2>2. Settled(y, Len(symtables'), symtables', tables', symbols')
    <3>1. y.do \notin {"suffix", "linked", "body", "variable"}
      BY <1>6 DEF Closers
    <3> QED
      BY <1>1, <1>4, <1>5, <1>6, <3>1 DEF Settled
  <2> QED
    BY <1>1, <1>2, <2>1, <2>2 DEF Over
<1> QED
  BY <1>1, <1>2, <1>3, <1>4, <1>6

\* A table of its own is behind all others, and no function's.
LEMMA NewScopeOpens ==
  ASSUME Standing, PushNew, SameFunctions(symbols, symbols')
  PROVE  /\ Spares(Len(symtables)) /\ Rising(symtables') /\ Len(symtables') = Len(symtables) + 1
         /\ Len(symtables') \in Nat /\ Len(symtables) \in Nat
         /\ symtables'[Len(symtables')] \notin Sigs(symbols')
         /\ \A y : y.do \in Closers \ {"end_of_body"} /\ "opened" \in DOMAIN y /\ y.opened = Meaning
                   => Over(y, Len(symtables), Len(symtables'), symtables', tables', symbols')
<1>1. /\ Len(tables) \in Nat /\ Current \in 1 .. Len(tables) /\ ScopesLead
      /\ SymbolsOK(symbols, Len(tables)) /\ TablesOK(tables, symbols)
  BY StandingIs
<1>2. PICK n \in Nat : n = Len(tables) + 1
  BY <1>1
<1>3. PushTable(n) /\ tables' = Append(tables, << >>)
  BY <1>2 DEF PushNew
<1>4. n > Current
  BY <1>1, <1>2
<1>5. \A i \in 1 .. Len(symtables) : tables'[symtables[i]] = tables[symtables[i]]
  <2>1. \A i \in 1 .. Len(tables) : tables'[i] = tables[i]
    BY <1>1, <1>3, OneTableMore
  <2> QED
    BY <1>1, <2>1 DEF ScopesLead
<1>6. n \notin Sigs(symbols)
  <2>1. ASSUME NEW f \in DOMAIN symbols PROVE symbols[f].symtable # n
    <3>1. IsSymbol(symbols[f], symbols, Len(tables))
      BY <1>1 DEF SymbolsOK, IsSeq
    <3>2. symbols[f].symtable \in 0 .. Len(tables)
      BY <3>1 DEF IsSymbol
    <3> QED
      BY <1>1, <1>2, <3>2
  <2> QED
    BY <2>1 DEF Sigs
<1>7. /\ Spares(Len(symtables)) /\ Rising(symtables') /\ Len(symtables') = Len(symtables) + 1
      /\ symtables'[Len(symtables')] = n /\ Len(symtables) \in Nat
      /\ Sigs(symbols') = Sigs(symbols)
      /\ \A y : y.do \in Closers /\ "opened" \in DOMAIN y /\ y.opened = Meaning
                /\ (y.do # "end_of_body" => n \notin Sigs(symbols))
                => Over(y, Len(symtables), Len(symtables'), symtables', tables', symbols')
  BY <1>3, <1>4, <1>5, ScopeOpens
<1> QED
  BY <1>6, <1>7

\* The calls below one that is no closer.
LEMMA BelowCalm ==
  ASSUME Standing, Apart, todo.do \notin Closers
  PROVE  Now(Tail(stack), Len(symtables)) /\ Len(symtables) \in Nat
         /\ Settled(todo, Len(symtables), symtables, tables, symbols)
<1>1. Len(symtables) - Held(todo) = Len(symtables)
  BY StandingIs DEF Held
<1> QED
  BY <1>1, HeadHoused, StandingIs

\* A struct's fields.
LEMMA StructNests ==
  ASSUME Standing, StructSpecifier
  PROVE  NestInv'
<1>1. todo.do = "struct"
  BY DEF StructSpecifier, Doing
<1>2. Apart /\ todo.do \notin Closers \cup {"unit"} /\ todo.do # "end_of_body"
  BY <1>1 DEF Apart, Closers
<1>3. CASE token # "{"
  <2>1. Return(Of("tag", todo.tag), NoName)
    BY <1>3 DEF StructSpecifier
  <2>2. Gives(todo) \notin {"loose", "full"}
    BY <1>1, ByName DEF InDeclarator, InParameters, Readers
  <2> QED
    BY <1>2, <2>1, <2>2, Passes, CalmSteps DEF CalmStep
<1>4. CASE token = "{"
  <2>1. PICK y : y = [do |-> "field", tag |-> todo.tag, old |-> cur_decl_type, opened |-> Meaning]
    OBVIOUS
  <2>2. /\ PushNew /\ Continue(<< Item("declaration"), y >>)
        /\ symbols' = [symbols EXCEPT ![todo.tag].symtable = Len(tables) + 1]
    BY <1>4, <2>1 DEF StructSpecifier
  <2>3. todo.tag \in DOMAIN symbols /\ symbols[todo.tag].kind # "function"
    <3>1. todo.tag \in Tags(symbols)
      BY <1>1, StandingIs DEF IsItem, Inside
    <3> QED
      BY <3>1 DEF Tags, TagKinds
  <2>4. SameFunctions(symbols, symbols')
    <3>1. DOMAIN symbols' = DOMAIN symbols
      BY <2>2
    <3>2. \A f \in DOMAIN symbols : f # todo.tag => symbols'[f] = symbols[f]
      BY <2>2
    <3>3. symbols'[todo.tag].kind = symbols[todo.tag].kind
      <4>1. symbols'[todo.tag] = [symbols[todo.tag] EXCEPT !.symtable = Len(tables) + 1]
        BY <2>2, <2>3
      <4> QED
        BY <4>1
    <3> QED
      BY <2>3, <3>1, <3>2, <3>3 DEF SameFunctions
  <2>5. /\ Spares(Len(symtables)) /\ Rising(symtables') /\ Len(symtables') \in Nat
        /\ symtables'[Len(symtables')] \notin Sigs(symbols')
        /\ \A z : z.do \in Closers \ {"end_of_body"} /\ "opened" \in DOMAIN z /\ z.opened = Meaning
                  => Over(z, Len(symtables), Len(symtables'), symtables', tables', symbols')
    BY <2>2, <2>4, NewScopeOpens
  <2>6. Over(y, Len(symtables), Len(symtables'), symtables', tables', symbols')
    BY <2>1, <2>5 DEF Closers
  <2>7. Neutral(Item("declaration")) /\ ~ Reads(Item("declaration"))
    BY NeutralItems DEF Closers, Readers
  <2>8. Over(Item("declaration"), Len(symtables'), Len(symtables'), symtables', tables', symbols')
    BY <2>5, <2>7, NeutralOver
  <2>9. Fitting(<< Item("declaration"), y >>, Item("declaration"), Len(symtables))
    BY <2>6, <2>8, LodgedTuples DEF Fitting
  <2> QED
    BY <1>2, <2>2, <2>5, <2>7, <2>9, BelowCalm, NestStep
<1> QED
  BY <1>3, <1>4

\* Brackets behind a name.
LEMMA SuffixNests ==
  ASSUME Standing, DeclaratorSuffix
  PROVE  NestInv'
<1>1. todo.do = "suffix"
  BY DEF DeclaratorSuffix, Doing
<1>2. Apart /\ todo.do \notin Closers \cup {"unit"} /\ todo.do # "end_of_body"
  BY <1>1 DEF Apart, Closers
<1>3. PICK x : x = [do |-> "linked", inner |-> todo.inner, name |-> todo.name]
  OBVIOUS
<1>4. x.do = "linked" /\ x.inner = todo.inner /\ Held(x) = 0
  BY <1>3 DEF Held, Closers
<1>5. /\ Settled(todo, Len(symtables), symtables, tables, symbols) /\ Len(symtables) \in Nat
      /\ Now(Tail(stack), Len(symtables)) /\ Current = symtables[Len(symtables)]
      /\ IsPointers(todo.outer)
  <2>1. IsPointers(todo.outer)
    BY <1>1, StandingIs DEF IsItem, InDeclarator
  <2> QED
    BY <1>2, <2>1, BelowCalm, StandingIs
<1>6. Fresh(todo.inner, Current)
  BY <1>1, <1>5 DEF Settled
<1>7. Over(x, Len(symtables), Len(symtables), symtables, tables, symbols)
  BY <1>2, <1>4, <1>6, SuffixPut
<1>8. CASE token = "["
  <2>1. PICK a : a = [do |-> "dimension", dims |-> << >>, outer |-> todo.outer]
    OBVIOUS
  <2>2. Leaving(<< a, x >>)
    BY <1>3, <1>8, <2>1 DEF DeclaratorSuffix
  <2>3. Neutral(a) /\ ~ Reads(a)
    BY <2>1, ByName DEF Closers, Readers
  <2>4. Over(a, Len(symtables), Len(symtables), symtables, tables, symbols)
    <3>1. symtables[Len(symtables)] \notin Sigs(symbols)
      BY <1>2, <1>5, HeadHoused
    <3> QED
      BY <1>5, <2>3, <3>1, NeutralOver
  <2>5. Put(<< a, x >>, a)
    BY <1>7, <2>4, LodgedTuples DEF Put
  <2> QED
    BY <1>2, <2>2, <2>3, <2>5, Passes, CalmSteps DEF CalmStep, Put
<1>9. CASE token # "[" /\ token = "("
  <2>1. PICK y : y = [do |-> "parameters", outer |-> todo.outer, old |-> cur_decl_type, opened |-> Meaning]
    OBVIOUS
  <2>2. PushNew /\ Continue(<< y, x >>) /\ symbols' = symbols
    BY <1>3, <1>9, <2>1 DEF DeclaratorSuffix
  <2>3. SameFunctions(symbols, symbols')
    BY <2>2 DEF SameFunctions
  <2>4. /\ Spares(Len(symtables)) /\ Rising(symtables') /\ Len(symtables') \in Nat
        /\ \A z : z.do \in Closers \ {"end_of_body"} /\ "opened" \in DOMAIN z /\ z.opened = Meaning
                  => Over(z, Len(symtables), Len(symtables'), symtables', tables', symbols')
    BY <2>2, <2>3, NewScopeOpens
  <2>5. Over(y, Len(symtables), Len(symtables'), symtables', tables', symbols')
    BY <2>1, <2>4 DEF Closers
  <2>6. Over(x, Len(symtables), Len(symtables), symtables', tables', symbols')
    <3>1. Settled(x, Len(symtables), symtables, tables, symbols)
      BY <1>7 DEF Over
    <3>2. Len(symtables) \in 1 .. Len(symtables)
      BY StandingIs
    <3>3. Settled(x, Len(symtables), symtables', tables', symbols')
      BY <1>5, <2>4, <3>1, <3>2, SettledAgrees DEF Spares
    <3> QED
      BY <1>4, <1>5, <3>3 DEF Over
  <2>7. Fitting(<< y, x >>, y, Len(symtables))
    BY <2>5, <2>6, LodgedTuples DEF Fitting
  <2>8. ~ Reads(y)
    BY <2>1, ByName DEF Readers
  <2> QED
    BY <1>5, <2>2, <2>4, <2>7, <2>8, NestStep
<1>10. CASE token # "[" /\ token # "("
  <2>1. Continue(<< x >>) /\ SameScopes /\ ret'.type = todo.outer
    BY <1>3, <1>10 DEF DeclaratorSuffix, Returning, Kept, SameScopes
  <2>2. Fresh(ret'.type, Current)
    BY <1>5, <2>1, FreshTypes
  <2>3. Put(<< x >>, x)
    BY <1>7, LodgedOne DEF Put
  <2> QED
    BY <1>2, <2>1, <2>2, <2>3, CalmNeutral DEF Put
<1> QED
  BY <1>8, <1>9, <1>10

\* Statements with a scope of their own; that of a body is under way already.
LEMMA OpeningNests ==
  ASSUME Standing, Compound \/ Nested
  PROVE  NestInv'
<1>1. todo.do = "stmt"
  BY DEF Compound, Nested, Doing
<1>2. todo.do \notin Closers
  BY <1>1 DEF Closers
<1>3. Now(Tail(stack), Len(symtables)) /\ Len(symtables) \in Nat
  <2>1. CASE Apart
    BY <1>2, <2>1, BelowCalm
  <2>2. CASE AtBody
    BY <2>2, StandingIs DEF AtBody
  <2>3. CASE Now(stack, Len(symtables))
    <3>1. Housed(Tail(stack), Len(symtables) - Held(Head(stack)), symtables, tables, symbols)
      BY <2>3, HousedPop DEF Now, Standing
    <3>2. Len(symtables) - Held(Head(stack)) = Len(symtables)
      BY <1>2, StandingIs DEF Held, todo
    <3> QED
      BY <3>1, <3>2, StandingIs DEF Now
  <2> QED
    BY <2>2, <2>3 DEF Standing, NestInv
<1>4. PICK y \in {Close, [Close EXCEPT !.do = "block"]} :
        \/ Opening(<< y >>) \/ Opening(<< Item("stmt"), y >>)
        \/ token = "if" /\ Opening(<< Item("stmt"), y, Item("else") >>)
  BY DEF Compound, Nested
<1>5. y.do \in Closers \ {"end_of_body"} /\ "opened" \in DOMAIN y /\ y.opened = Meaning /\ ~ Reads(y)
  <2>1. y.do \in {"close", "block"} /\ "opened" \in DOMAIN y /\ y.opened = Meaning
    BY DEF Close
  <2> QED
    BY <2>1, ByName DEF Closers, Readers
<1>6. \A items : Opening(items) => PushNew /\ Continue(items) /\ symbols' = symbols
  BY DEF Opening
<1>7. PushNew /\ symbols' = symbols
  BY <1>4, <1>6
<1>8. SameFunctions(symbols, symbols')
  BY <1>7 DEF SameFunctions
<1>9. /\ Spares(Len(symtables)) /\ Rising(symtables') /\ Len(symtables') \in Nat
      /\ symtables'[Len(symtables')] \notin Sigs(symbols')
      /\ Over(y, Len(symtables), Len(symtables'), symtables', tables', symbols')
  BY <1>5, <1>7, <1>8, NewScopeOpens
<1>10. /\ Neutral(Item("stmt")) /\ Neutral(Item("else")) /\ ~ Reads(Item("stmt"))
  BY NeutralItems DEF Closers, Readers
<1>11. Over(Item("stmt"), Len(symtables'), Len(symtables'), symtables', tables', symbols')
  BY <1>9, <1>10, NeutralOver
<1>12. CASE Opening(<< y >>)
  <2>1. Fitting(<< y >>, y, Len(symtables))
    BY <1>9, LodgedOne DEF Fitting
  <2> QED
    BY <1>3, <1>5, <1>6, <1>9, <1>12, <2>1, NestStep
<1>13. CASE Opening(<< Item("stmt"), y >>)
  <2>1. Fitting(<< Item("stmt"), y >>, Item("stmt"), Len(symtables))
    BY <1>9, <1>11, LodgedTuples DEF Fitting
  <2> QED
    BY <1>3, <1>6, <1>9, <1>10, <1>13, <2>1, NestStep
<1>14. CASE token = "if" /\ Opening(<< Item("stmt"), y, Item("else") >>)
  <2>1. Over(Item("else"), Len(symtables), Len(symtables), symtables', tables', symbols')
    <3>1. Apart
      BY <1>14 DEF Apart
    <3>2. symtables[Len(symtables)] \notin Sigs(symbols)
      BY <1>1, <3>1, HeadHoused, StandingIs
    <3>3. symtables'[Len(symtables)] \notin Sigs(symbols')
      <4>1. Len(symtables) \in 1 .. Len(symtables)
        BY StandingIs
      <4> QED
        BY <1>9, <3>2, <4>1 DEF Spares, Agree
    <3> QED
      BY <1>3, <1>10, <3>3, NeutralOver
  <2>2. Fitting(<< Item("stmt"), y, Item("else") >>, Item("stmt"), Len(symtables))
    BY <1>9, <1>11, <2>1, LodgedTuples DEF Fitting
  <2> QED
    BY <1>3, <1>6, <1>9, <1>10, <1>14, <2>2, NestStep
<1> QED
  BY <1>4, <1>12, <1>13, <1>14

\* A body: its parameters' scope is opened again, and nothing is done in it but to open
\* another.
LEMMA BodyNests ==
  ASSUME Standing, FunctionBody
  PROVE  NestInv'
<1>1. todo.do = "body"
  BY DEF FunctionBody, Doing
<1>2. Apart /\ todo.do \notin Closers \cup {"unit"} /\ todo.do # "end_of_body"
  BY <1>1 DEF Apart, Closers
<1>3. CASE token # "{"
  <2>1. Leaving(<< >>)
    BY <1>3 DEF FunctionBody
  <2>2. Gives(todo) \notin {"loose", "full"}
    BY <1>1, ByName DEF InDeclarator, InParameters, Readers
  <2> QED
    BY <1>2, <2>1, <2>2, Passes, CalmSteps DEF CalmStep
<1>4. CASE token = "{"
  <2> DEFINE t == Tail(stack)
  <2>1. PICK y : y = [do |-> "end_of_body", function |-> todo.function, opened |-> Meaning]
    OBVIOUS
  <2>2. /\ PushTable(symbols[todo.function].symtable) /\ Continue(<< Item("stmt"), y >>)
        /\ token' = token /\ symbols' = symbols /\ tables' = tables
    BY <1>4, <2>1 DEF FunctionBody, SameToken
  <2>3. /\ Now(t, Len(symtables)) /\ Settled(todo, Len(symtables), symtables, tables, symbols)
        /\ Current = symtables[Len(symtables)] /\ SymbolsOK(symbols, Len(tables))
    BY <1>2, BelowCalm, StandingIs
  <2>4. PICK n \in Nat : n = symbols[todo.function].symtable /\ n > Current
    <3>1. todo.function \in DOMAIN symbols /\ symbols[todo.function].symtable > Current
      BY <1>1, <2>3 DEF Settled
    <3>2. symbols[todo.function].symtable \in 0 .. Len(tables)
      BY <2>3, <3>1 DEF SymbolsOK, IsSeq, IsSymbol
    <3>3. symbols[todo.function].symtable \in Nat
      BY <3>2, StandingIs
    <3> QED
      BY <3>1, <3>3
  <2>5. SameFunctions(symbols, symbols')
    BY <2>2 DEF SameFunctions
  <2>6. /\ PushTable(n) /\ \A i \in 1 .. Len(symtables) : tables'[symtables[i]] = tables[symtables[i]]
    BY <2>2, <2>4
  <2>7. /\ Spares(Len(symtables)) /\ Rising(symtables') /\ Len(symtables) \in Nat
        /\ \A z : z.do \in Closers /\ "opened" \in DOMAIN z /\ z.opened = Meaning
                  /\ (z.do # "end_of_body" => n \notin Sigs(symbols))
                  => Over(z, Len(symtables), Len(symtables'), symtables', tables', symbols')
    BY <2>4, <2>5, <2>6, ScopeOpens
  <2>8. Over(y, Len(symtables), Len(symtables'), symtables', tables', symbols')
    BY <2>1, <2>7 DEF Closers
  <2>9. Housed(t, Len(symtables), symtables', tables', symbols')
    BY <2>3, <2>7, HousedAgrees DEF Now, Spares
  <2> HIDE DEF t
  <2> DEFINE u == << y >> \o t
  <2>10. Housed(u, Len(symtables'), symtables', tables', symbols')
    <3>1. Lodged(<< y >>, y, Len(symtables), Len(symtables'), symtables', tables', symbols')
      BY <2>8, LodgedOne
    <3> QED
      BY <2>9, <3>1 DEF Lodged
  <2>11. stack' = << Item("stmt") >> \o u
    <3>1. stack' = << Item("stmt"), y >> \o t
      BY <2>2 DEF Continue, t
    <3>2. << Item("stmt"), y >> = << Item("stmt") >> \o << y >>
      BY TupleConcat
    <3>3. (<< Item("stmt") >> \o << y >>) \o t = << Item("stmt") >> \o (<< y >> \o t)
      BY <2>9, One, JoinedThree DEF Housed
    <3> QED
      BY <3>1, <3>2, <3>3
  <2> HIDE DEF u
  <2>12. Head(stack') = Item("stmt") /\ Tail(stack') = u
    <3> DEFINE R == {u[i] : i \in 1 .. Len(u)} \cup {Item("stmt")}
               x == Item("stmt")
    <3>1. u \in Seq(R) /\ x \in R
      BY <2>10 DEF Housed, IsSeq
    <3> HIDE DEF R, x
    <3>2. Head(<< x >> \o u) = x /\ Tail(<< x >> \o u) = u
      BY <3>1
    <3> QED
      BY <2>11, <3>2 DEF x
  <2>13. todo'.do = "stmt" /\ token' = "{"
    <3>1. todo' = Item("stmt")
      BY <2>12 DEF todo
    <3>2. Item("stmt").do = "stmt"
      BY DEF Item
    <3> QED
      BY <1>4, <2>2, <3>1, <3>2
  <2>14. AtBody'
    BY <2>10, <2>12, <2>13 DEF AtBody, Now
  <2>15. ~ Reads(todo')
    BY <2>13, ByName DEF Readers
  <2> QED
    BY <2>7, <2>14, <2>15 DEF NestInv
<1> QED
  BY <1>3, <1>4

----------------------------------------------------------------------------
(* A scope is left *)

\* What stands below is left alone.
LEMMA ScopeCloses ==
  ASSUME Standing, Pop, SameFunctions(symbols, symbols'), tables' = tables,
         todo.do \in Closers
  PROVE  /\ Spares(Len(symtables)- 1) /\ Rising(symtables') /\ Len(symtables') = Len(symtables) - 1
         /\ Len(symtables) - 1 \in Nat /\ Now(Tail(stack), Len(symtables) - 1)
         /\ Settled(todo, Len(symtables), symtables, tables, symbols)
<1>1. /\ Len(symtables') = Len(symtables) - 1 /\ Rising(symtables')
      /\ \A i \in 1 .. Len(symtables) - 1 : symtables'[i] = symtables[i]
  BY ScopePopped
<1>2. Held(todo) = 1 /\ Apart
  BY DEF Held, Apart, Closers
<1>3. Len(symtables) - 1 \in Nat /\ Now(Tail(stack), Len(symtables) - 1)
  BY <1>2, HeadHoused
<1>4. Spares(Len(symtables) - 1)
  BY <1>1, <1>3, AgreeKept DEF Spares
<1> QED
  BY <1>1, <1>2, <1>3, <1>4, HeadHoused

\* The call that closes it returns.
LEMMA CloseReturns ==
  ASSUME Standing, Pop, SameFunctions(symbols, symbols'), tables' = tables,
         todo.do \in Closers, Continue(<< >>),
         Gives(todo) \in {"loose", "full"} => Fresh(ret'.type, Current')
  PROVE  NestInv'
<1>1. todo.do # "unit"
  BY DEF Closers
<1> QED
  BY <1>1, ScopeCloses, NestReturn

\* A function declared is new to the scope around its parameters.
LEMMA NewFunctionFresh ==
  ASSUME Standing, Pop
  PROVE  IsSeq(Of("func", Current)) /\ Fresh(Of("func", Current), Current')
<1>1. PICK p : p = [kind |-> "func", sym |-> Current]
  OBVIOUS
<1>2. PICK m : m = Current'
  OBVIOUS
<1>3. m < Current
  BY <1>2, ScopePopped
<1>4. p.sym > m
  <2>1. /\ Current \in 1 .. Len(tables) /\ Len(tables) \in Nat /\ ScopesLead
        /\ Len(symtables) \in Nat /\ Len(symtables) >= 2
    BY StandingIs
  <2>2. m = symtables[Len(symtables) - 1]
    BY <1>2, ScopePopped
  <2>3. Len(symtables) - 1 \in 1 .. Len(symtables)
    BY <2>1
  <2>4. m \in 1 .. Len(tables)
    BY <2>2, <2>3, StandingIs DEF ScopesLead
  <2> QED
    BY <1>1, <1>3, <2>1, <2>4
<1>5. IsSeq(<< p >>)
  BY One
<1>6. \A i \in 1 .. Len(<< p >>) : << p >>[i] = p
  BY One
<1>7. Fresh(<< p >>, m)
  BY <1>4, <1>6 DEF Fresh
<1> QED
  BY <1>1, <1>2, <1>5, <1>7 DEF Of

\* The end of a struct, of parameters, and of statements with a scope of their own.
LEMMA LeavingNests ==
  ASSUME Standing, ((Field \/ Block) /\ token = "}") \/ FunctionDeclarator \/ EndOfNested
  PROVE  NestInv'
<1>1. todo.do \in {"field", "block", "parameters_end", "close"} /\ todo.do \in Closers
  BY DEF Field, Block, FunctionDeclarator, EndOfNested, Doing, Closers
<1>2. CASE Field /\ token = "}"
  <2>1. Pop /\ Continue(<< >>) /\ tables' = tables /\ symbols' = LaidOut(todo.tag) /\ todo.do = "field"
    BY <1>2 DEF Field, Doing
  <2>2. todo.tag \in DOMAIN symbols /\ symbols[todo.tag].symtable # 0
    BY <2>1, StandingIs DEF IsItem, Inside, Tags
  <2>3. SameFunctions(symbols, symbols')
    BY <2>1, <2>2, StandingIs, LaidOutKeeps
  <2>4. Gives(todo) \notin {"loose", "full"}
    BY <2>1, ByName DEF InDeclarator, InParameters, Readers
  <2> QED
    BY <1>1, <2>1, <2>3, <2>4, CloseReturns
<1>3. CASE (Block /\ token = "}") \/ EndOfNested
  <2>1. Pop /\ Continue(<< >>) /\ tables' = tables /\ symbols' = symbols /\ todo.do \in {"block", "close"}
    BY <1>3 DEF Block, EndOfNested, Doing
  <2>2. SameFunctions(symbols, symbols')
    BY <2>1 DEF SameFunctions
  <2>3. Gives(todo) \notin {"loose", "full"}
    BY <2>1, ByName DEF InDeclarator, InParameters, Readers
  <2> QED
    BY <1>1, <2>1, <2>2, <2>3, CloseReturns
<1>4. CASE FunctionDeclarator
  <2>1. CASE token # ")"
    BY <1>4, <2>1, NestFails DEF FunctionDeclarator
  <2>2. CASE token = ")"
    <3>1. /\ Pop /\ Continue(<< >>) /\ tables' = tables /\ symbols' = symbols
          /\ ret'.type = Of("func", Current) \o todo.outer
      BY <1>4, <2>2 DEF FunctionDeclarator, Returning
    <3>2. SameFunctions(symbols, symbols')
      BY <3>1 DEF SameFunctions
    <3>3. IsPointers(todo.outer)
      BY <1>4, StandingIs DEF FunctionDeclarator, Doing, IsItem, InDeclarator, InParameters
    <3>4. PICK m : m = Current'
      OBVIOUS
    <3>5. IsSeq(Of("func", Current)) /\ Fresh(Of("func", Current), m)
      BY <3>1, <3>4, NewFunctionFresh
    <3>6. Fresh(ret'.type, m)
      BY <3>1, <3>3, <3>5, FreshTypes
    <3> QED
      BY <1>1, <3>1, <3>2, <3>4, <3>6, CloseReturns
  <2> QED
    BY <2>1, <2>2
<1> QED
  BY <1>2, <1>3, <1>4

\* The end of a body, with the separator behind it.
LEMMA EndOfBodyNests ==
  ASSUME Standing, EndOfBody
  PROVE  NestInv'
<1> DEFINE t == Tail(stack)
<1>1. todo.do = "end_of_body" /\ todo.do \in Closers
  BY DEF EndOfBody, Doing, Closers
<1>2. /\ Pop /\ tables' = tables /\ stack' = Tail(t) /\ status' = status
      /\ symbols' = [symbols EXCEPT ![todo.function].locals_size = function_locals_size]
  BY DEF EndOfBody
<1>3. t # << >> /\ Head(t).do = "separator"
  BY <1>1, HeadHasDo DEF Standing, todo
<1>4. SameFunctions(symbols, symbols')
  <2>1. todo.function \in DOMAIN symbols
    BY <1>1, StandingIs DEF IsItem
  <2>2. DOMAIN symbols' = DOMAIN symbols
    BY <1>2
  <2>3. \A f \in DOMAIN symbols : f # todo.function => symbols'[f] = symbols[f]
    BY <1>2
  <2>4. symbols'[todo.function] = [symbols[todo.function] EXCEPT !.locals_size = function_locals_size]
    BY <1>2, <2>1
  <2>5. /\ symbols'[todo.function].kind = symbols[todo.function].kind
        /\ symbols'[todo.function].symtable = symbols[todo.function].symtable
    BY <2>4
  <2> QED
    BY <2>2, <2>3, <2>5 DEF SameFunctions
<1>5. /\ Spares(Len(symtables) - 1) /\ Rising(symtables') /\ Len(symtables') = Len(symtables) - 1
      /\ Len(symtables) - 1 \in Nat /\ Now(t, Len(symtables) - 1)
  BY <1>1, <1>2, <1>4, ScopeCloses
<1>6. PICK k \in Nat : k = Len(symtables')
  BY <1>5
<1>7. Housed(t, k, symtables', tables', symbols')
  BY <1>5, <1>6, HousedAgrees DEF Now, Spares
<1>8. Staffed(t, symbols, Len(tables))
  BY PopStaff DEF Standing, TypesInv, Manned
<1> HIDE DEF t
<1>9. Held(Head(t)) = 0 /\ Gives(Head(t)) = "nothing"
  BY <1>3 DEF Held, Closers, Gives, InDeclarator, InParameters, Inside
<1>10. Now(stack, Len(symtables))'
  <2>1. Housed(Tail(t), k - Held(Head(t)), symtables', tables', symbols')
    BY <1>3, <1>7, HousedPop
  <2>2. k - Held(Head(t)) = k
    BY <1>9
  <2>3. Housed(Tail(t), k, symtables', tables', symbols')
    BY <2>1, <2>2
  <2> QED
    BY <1>2, <1>6, <2>3 DEF Now
<1>11. ~ Reads(todo')
  <2>1. stack' # << >>
    BY <1>2, EndOfBodyTypes DEF Standing, TypesInv, Manned
  <2>2. Fits(Head(t), Tail(t))
    BY <1>3, <1>8, PopStaff
  <2>3. Wants(Head(stack')) \in {"nothing", Gives(Head(t))}
    BY <1>2, <2>1, <2>2 DEF Fits
  <2> QED
    BY <1>9, <2>3 DEF Reads, todo
<1> QED
  BY <1>5, <1>10, <1>11 DEF NestInv

----------------------------------------------------------------------------
(* Every step *)

\* Nothing is noted but what these properties do not ask for, and nothing is forgotten.
Quiet ==
  \/ UNCHANGED seen
  \/ \E b : \/ seen' = [seen EXCEPT !.nested = @ \/ b]
            \/ seen' = [seen EXCEPT !.redefined = @ \/ b]
            \/ seen' = [seen EXCEPT !.early = @ \/ b]

\* What a step does to the scopes,
ScopeStep ==
  \/ symtables' = symtables
  \/ \E n : PushTable(n)
  \/ Pop /\ tables' = tables /\ todo.do \in Closers

\* and to the tables.
TableStep ==
  \/ tables' = tables
  \/ PushNew
  \/ /\ \E name, class, s : tables' = PutInto(name, class, s)
     /\ todo.do \in {"tag", "enumerator", "declared_parameter", "declared", "variable"}

Step == status = "parsing" /\ stack # << >> /\ (Fail \/ Quiet) /\ ScopeStep /\ TableStep

\* A call that only looks at a token or returns,
LEMMA PassingSteps ==
  /\ \A items : Taking(items) \/ Leaving(items) => UNCHANGED << seen, symtables, tables >>
  /\ \A t, n : ReturnTaking(t, n) \/ Return(t, n) => UNCHANGED << seen, symtables, tables >>
  /\ Fail => UNCHANGED << symtables, tables >>
  /\ Crash => UNCHANGED << seen, symtables, tables >>
  BY DEF Taking, Leaving, ReturnTaking, Return, Kept, Fail, Crash, scopes

\* are steps that leave the scopes alone.
LEMMA StepOfLooking ==
  ASSUME UNCHANGED << seen, symtables, tables >> \/ Fail
  PROVE  (Fail \/ Quiet) /\ ScopeStep /\ TableStep
  BY PassingSteps DEF Quiet, ScopeStep, TableStep

\* Specifiers, declarators and parameters, but for those that touch the scopes;
LEMMA StepOfTypes ==
  ASSUME \/ ExpectToken \/ AcceptToken \/ Specifier \/ EnumSpecifier \/ Enumerated
         \/ DeclaratorBase \/ InnerDeclarator \/ Linked \/ DeclaratorBased
         \/ ArrayDeclarator \/ ArraySize \/ Parameters \/ Parameter \/ ParameterDeclarator
  PROVE  Step
<1>1. status = "parsing" /\ stack # << >>
  BY DEF ExpectToken, AcceptToken, Specifier, EnumSpecifier, Enumerated, DeclaratorBase,
     InnerDeclarator, Linked, DeclaratorBased, ArrayDeclarator, ArraySize, Parameters, Parameter,
     ParameterDeclarator, Doing
<1>2. CASE ExpectToken \/ AcceptToken \/ Specifier \/ EnumSpecifier \/ Enumerated
  BY <1>1, <1>2, PassingSteps, StepOfLooking
     DEF ExpectToken, AcceptToken, Specifier, EnumSpecifier, Enumerated, Step, Kept
<1>3. CASE DeclaratorBase \/ InnerDeclarator \/ Linked \/ DeclaratorBased
  BY <1>1, <1>3, PassingSteps, StepOfLooking
     DEF DeclaratorBase, InnerDeclarator, Linked, DeclaratorBased, Step
<1>4. CASE ArrayDeclarator \/ ArraySize \/ Parameters \/ Parameter \/ ParameterDeclarator
  BY <1>1, <1>4, PassingSteps, StepOfLooking
     DEF ArrayDeclarator, ArraySize, Parameters, Parameter, ParameterDeclarator, Step
<1> QED
  BY <1>2, <1>3, <1>4

\* declarations and statements that do not;
LEMMA StepOfStatements ==
  ASSUME \/ Unit \/ Declaration \/ Declarators \/ DeclaredVariable \/ Separator
         \/ Else \/ Do \/ Label \/ Empty \/ LocalDeclaration \/ EndOfLocal \/ Expression \/ Primary
  PROVE  Step
<1>1. status = "parsing" /\ stack # << >>
  BY DEF Unit, Declaration, Declarators, DeclaredVariable, Separator, Else, Do, Label, Empty,
     LocalDeclaration, EndOfLocal, Expression, Primary, Doing
<1>2. CASE Unit \/ Declaration \/ Declarators \/ Separator
  BY <1>1, <1>2, PassingSteps, StepOfLooking DEF Unit, Declaration, Declarators, Separator, Step, scopes
<1>3. CASE Else \/ Do \/ Label \/ Empty \/ LocalDeclaration \/ EndOfLocal \/ Expression \/ Primary
  BY <1>1, <1>3, PassingSteps, StepOfLooking
     DEF Else, Do, Label, Empty, LocalDeclaration, EndOfLocal, Expression, Primary, Step
<1>4. CASE DeclaredVariable
  <2>1. CASE Fail
    BY <1>1, <2>1, StepOfLooking DEF Step
  <2>2. CASE ~ Fail
    <3>1. seen' = [seen EXCEPT !.early = @ \/ IsEarly(ret.type)] /\ UNCHANGED << symtables, tables >>
      BY <1>4, <2>2 DEF DeclaredVariable, scopes
    <3> QED
      BY <1>1, <3>1 DEF Step, Quiet, ScopeStep, TableStep
  <2> QED
    BY <2>1, <2>2
<1> QED
  BY <1>2, <1>3, <1>4

\* those that put a symbol into the current scope;
LEMMA StepOfSymbols ==
  ASSUME StructuredSpecifier \/ Enumerator \/ DeclaredParameter \/ DeclaredFunction \/ Variable
  PROVE  Step
<1>1. /\ status = "parsing" /\ stack # << >>
      /\ todo.do \in {"tag", "enumerator", "declared_parameter", "declared", "variable"}
  BY DEF StructuredSpecifier, Enumerator, DeclaredParameter, DeclaredFunction, Variable, Doing
<1>2. CASE StructuredSpecifier
  BY <1>1, <1>2 DEF StructuredSpecifier, Step, Quiet, ScopeStep, TableStep
<1>3. CASE Enumerator
  <2>1. CASE Fail \/ ReturnTaking(Of("tag", todo.tag), NoName)
    BY <1>1, <2>1, PassingSteps, StepOfLooking DEF Step
  <2>2. CASE ~ (Fail \/ ReturnTaking(Of("tag", todo.tag), NoName))
    BY <1>1, <1>3, <2>2 DEF Enumerator, Step, Quiet, ScopeStep, TableStep
  <2> QED
    BY <2>1, <2>2
<1>4. CASE DeclaredParameter \/ Variable
  BY <1>1, <1>4 DEF DeclaredParameter, Variable, Step, Quiet, ScopeStep, TableStep
<1>5. CASE DeclaredFunction
  <2>1. CASE Fail
    BY <1>1, <2>1, StepOfLooking DEF Step
  <2>2. CASE ~ Fail
    BY <1>1, <1>5, <2>2 DEF DeclaredFunction, Step, Quiet, ScopeStep, TableStep
  <2> QED
    BY <2>1, <2>2
<1> QED
  BY <1>2, <1>3, <1>4, <1>5

\* those that open a scope;
LEMMA StepOfOpening ==
  ASSUME StructSpecifier \/ DeclaratorSuffix \/ FunctionBody \/ Compound \/ Nested
  PROVE  Step
<1>1. status = "parsing" /\ stack # << >>
  BY DEF StructSpecifier, DeclaratorSuffix, FunctionBody, Compound, Nested, Doing
<1>2. PushNew => (\E n : PushTable(n)) /\ TableStep
  BY DEF PushNew, TableStep
<1>3. CASE StructSpecifier
  <2>1. CASE token # "{"
    BY <1>1, <1>3, <2>1, PassingSteps, StepOfLooking DEF StructSpecifier, Step
  <2>2. CASE token = "{"
    <3>1. PushNew /\ \E b : seen' = [seen EXCEPT !.redefined = @ \/ b]
      BY <1>3, <2>2 DEF StructSpecifier
    <3> QED
      BY <1>1, <1>2, <3>1 DEF Step, Quiet, ScopeStep
  <2> QED
    BY <2>1, <2>2
<1>4. CASE DeclaratorSuffix
  <2>1. CASE token = "("
    <3>1. (PushNew /\ UNCHANGED seen) \/ \E items : Leaving(items)
      BY <1>4, <2>1 DEF DeclaratorSuffix
    <3> QED
      BY <1>1, <1>2, <3>1, PassingSteps, StepOfLooking DEF Step, Quiet, ScopeStep
  <2>2. CASE token # "("
    <3>1. UNCHANGED << seen, symtables, tables >>
      BY <1>4, <2>2, PassingSteps DEF DeclaratorSuffix, Kept
    <3> QED
      BY <1>1, <3>1, StepOfLooking DEF Step
  <2> QED
    BY <2>1, <2>2
<1>5. CASE FunctionBody
  <2>1. CASE token # "{"
    BY <1>1, <1>5, <2>1, PassingSteps, StepOfLooking DEF FunctionBody, Step
  <2>2. CASE token = "{"
    <3>1. /\ (\E n : PushTable(n)) /\ tables' = tables
          /\ \E b : seen' = [seen EXCEPT !.nested = @ \/ b]
      BY <1>5, <2>2 DEF FunctionBody
    <3> QED
      BY <1>1, <3>1 DEF Step, Quiet, ScopeStep, TableStep
  <2> QED
    BY <2>1, <2>2
<1>6. CASE Compound \/ Nested
  <2>1. PushNew /\ UNCHANGED seen
    BY <1>6 DEF Compound, Nested, Opening
  <2> QED
    BY <1>1, <1>2, <2>1 DEF Step, Quiet, ScopeStep
<1> QED
  BY <1>3, <1>4, <1>5, <1>6

\* and those that leave one.
LEMMA StepOfClosing ==
  ASSUME Field \/ FunctionDeclarator \/ EndOfBody \/ Block \/ EndOfNested
  PROVE  Step
<1>1. status = "parsing" /\ stack # << >> /\ todo.do \in Closers
  BY DEF Field, FunctionDeclarator, EndOfBody, Block, EndOfNested, Doing, Closers
<1>2. CASE Pop /\ tables' = tables /\ UNCHANGED seen
  BY <1>1, <1>2 DEF Step, Quiet, ScopeStep, TableStep
<1>3. CASE Fail
  BY <1>1, <1>3, StepOfLooking DEF Step
<1>4. CASE UNCHANGED << seen, symtables, tables >>
  BY <1>1, <1>4, StepOfLooking DEF Step
<1>5. \/ Pop /\ tables' = tables /\ UNCHANGED seen
      \/ Fail
      \/ UNCHANGED << seen, symtables, tables >>
  BY PassingSteps DEF Field, FunctionDeclarator, EndOfBody, Block, EndOfNested, scopes
<1> QED
  BY <1>2, <1>3, <1>4, <1>5

\* There is no other step.
LEMMA NextSteps == ASSUME Next PROVE Step
  BY StepOfTypes, StepOfStatements, StepOfSymbols, StepOfOpening, StepOfClosing, Zenon DEF Next

\* A failure once ignored is not forgotten.
LEMMA MuffledStays ==
  ASSUME ScopesInv, Step, seen.muffled
  PROVE  seen'.muffled
<1>1. CASE Quiet
  BY <1>1, SameSeen DEF Quiet, NothingNoted
<1>2. CASE Fail
  BY <1>2 DEF Fail, ScopesInv, Noted
<1> QED
  BY <1>1, <1>2 DEF Step

\* The actions, one by one.
LEMMA NestNext ==
  ASSUME Standing, Next
  PROVE  NestInv'
<1>1. CASE Field \/ Block
  BY <1>1, InsideNests, LeavingNests
<1> QED
  BY <1>1, TokenNests, SpecifierNests, DeclaratorNests, StatementNests, JoinedNests, ArrayNests,
     UnitNests, DeclarationNests, DeclaredVariableNests, ParametersNest, TagNests,
     DeclaredParameterNests, DeclaredFunctionNests, VariableNests, StructNests, SuffixNests,
     OpeningNests, BodyNests, LeavingNests, EndOfBodyNests, Zenon DEF Next

\* The first state: one call, in the outermost scope, and no function.
LEMMA InitNests == ASSUME Init PROVE NestInv
<1>1. /\ stack = << Item("unit") >> /\ symtables = << 1, 2 >> /\ symbols = << >>
  BY DEF Init
<1>2. Len(<< 1, 2 >>) = 2 /\ << 1, 2 >>[1] = 1 /\ << 1, 2 >>[2] = 2
  OBVIOUS
<1>3. Rising(symtables)
  <2>1. \A i, j \in 1 .. 2 : i < j => i = 1 /\ j = 2
    OBVIOUS
  <2> QED
    BY <1>1, <1>2, <2>1 DEF Rising
<1>4. PICK x : x = Item("unit")
  OBVIOUS
<1>5. x.do = "unit" /\ Held(x) = 0 /\ ~ Reads(x)
  <2>1. x.do = "unit"
    BY <1>4 DEF Item
  <2> QED
    BY <2>1, ByName DEF Held, Closers, Readers
<1>6. \A i, S, B : Settled(x, i, S, B, symbols)
  <2>1. Sigs(symbols) = {}
    BY <1>1 DEF Sigs
  <2> QED
    BY <1>5, <2>1 DEF Settled, Closers
<1>7. Now(stack, Len(symtables))
  <2> DEFINE d == [n \in 1 .. 2 |-> 2]
  <2>1. IsSeq(<< x >>) /\ Len(<< x >>) = 1 /\ << x >>[1] = x
    BY One
  <2>2. Depths(<< x >>, d) /\ d[1] = 2
    BY <1>5, <2>1 DEF Depths
  <2>3. \A n \in 1 .. Len(<< x >>) : Settled(<< x >>[n], d[n], symtables, tables, symbols)
    <3>1. \A n \in 1 .. Len(<< x >>) : << x >>[n] = x
      BY One
    <3> QED
      BY <1>6, <3>1
  <2> HIDE DEF d
  <2>4. Housed(<< x >>, 2, symtables, tables, symbols)
    BY <2>1, <2>2, <2>3 DEF Housed
  <2> QED
    BY <1>1, <1>2, <1>4, <2>4 DEF Now
<1>8. ~ Reads(todo)
  <2>1. todo = x
    BY <1>1, <1>4 DEF todo
  <2> QED
    BY <1>5, <2>1
<1> QED
  BY <1>3, <1>7, <1>8 DEF NestInv

\* Whatever the program, as long as no failure has been ignored: every call that is to close
\* a scope remembers what names meant before it was opened, and in the scope of a declared
\* function's parameters there is nothing to do but to leave it.
THEOREM ScopesNest == Spec => []NestInv
<1>1. Init => NestInv
  BY InitNests
<1>2. ScopesInv /\ TypesInv /\ NestInv /\ [Next]_vars => NestInv'
  <2> SUFFICES ASSUME ScopesInv, TypesInv, NestInv, [Next]_vars PROVE NestInv'
    OBVIOUS
  <2>1. CASE UNCHANGED vars
    BY <2>1 DEF vars, scopes, NestInv, Now, AtBody, todo, Current
  <2>2. CASE Next
    <3>1. Step
      BY <2>2, NextSteps
    <3>2. CASE seen.muffled
      BY <3>1, <3>2, MuffledStays DEF NestInv
    <3>3. CASE ~ seen.muffled
      BY <2>2, <3>1, <3>3, NestNext DEF Standing, Step
    <3> QED
      BY <3>2, <3>3
  <2> QED
    BY <2>1, <2>2
<1> QED
  BY <1>1, <1>2, ScopesFollowCalls, CallsAreServed, PTL DEF Spec

\* What names mean, by the scopes that are open in a state,
LEMMA MeaningIsNow ==
  IsSeq(symtables) => Meaning = MeaningBelow(symtables, Len(symtables) + 1, tables)
  BY MeaningIs

\* and in the next one.
LEMMA MeaningIsLater ==
  (IsSeq(symtables) => Meaning = MeaningBelow(symtables, Len(symtables) + 1, tables))'
  BY MeaningIsNow, PTL

\* BlocksRestoreNames: what closes a scope finds every name with the meaning it had when the
\* scope was opened.
LEMMA NamesRestored ==
  ASSUME Standing, Step, Len(symtables') < Len(symtables)
  PROVE  Meaning' = todo.opened
<1>1. Len(symtables) \in Nat /\ IsSeq(symtables)
  BY StandingIs
<1>2. symtables' # symtables
  <2>1. CASE symtables' = symtables
    <3>1. PICK m \in Nat : m = Len(symtables)
      BY <1>1
    <3>2. m < m
      BY <2>1, <3>1
    <3> QED
      BY <3>1, <3>2
  <2> QED
    BY <2>1
<1>3. ASSUME NEW n, PushTable(n) PROVE FALSE
  <2> DEFINE S == {symtables[i] : i \in 1 .. Len(symtables)} \cup {n}
  <2>1. symtables \in Seq(S) /\ n \in S
    BY <1>1 DEF IsSeq
  <2> HIDE DEF S
  <2>2. Len(symtables') = Len(symtables) + 1
    BY <1>3, <2>1, AppendProperties DEF PushTable
  <2> QED
    BY <1>1, <2>2
<1>4. Pop /\ tables' = tables /\ todo.do \in Closers
  BY <1>2, <1>3 DEF Step, ScopeStep
<1>5. /\ Len(symtables') = Len(symtables) - 1 /\ IsSeq(symtables')
      /\ \A i \in 1 .. Len(symtables) - 1 : symtables'[i] = symtables[i]
  BY <1>4, ScopePopped
<1>6. Settled(todo, Len(symtables), symtables, tables, symbols)
  <2>1. Apart
    BY <1>4 DEF Apart, Closers
  <2> QED
    BY <2>1, HeadHoused
<1>7. PICK k \in Nat \ {0} : k = Len(symtables)
  BY <1>1, StandingIs
<1>8. todo.opened = MeaningBelow(symtables, k, tables)
  BY <1>4, <1>6, <1>7 DEF Settled
<1>9. MeaningBelow(symtables', k, tables') = MeaningBelow(symtables, k, tables)
  BY <1>4, <1>5, <1>7, MeaningAgrees
<1>10. Len(symtables') + 1 = k
  BY <1>5, <1>7
<1>11. Meaning' = MeaningBelow(symtables', Len(symtables') + 1, tables')
  BY <1>5, MeaningIsLater
<1> QED
  BY <1>8, <1>9, <1>10, <1>11

\* SignaturesFixed: nothing is put into the table of a function's parameters.
LEMMA SignaturesStay ==
  ASSUME Standing, Step, NEW f \in Functions
  PROVE  tables'[symbols[f].symtable] = tables[symbols[f].symtable]
<1>1. PICK t : t = symbols[f].symtable
  OBVIOUS
<1>2. f \in DOMAIN symbols /\ symbols[f].kind = "function"
  BY DEF Functions
<1>3. /\ SymbolsOK(symbols, Len(tables)) /\ TablesOK(tables, symbols) /\ Len(tables) \in Nat
      /\ IsSeq(tables)
  BY StandingIs
<1>4. t \in 1 .. Len(tables)
  <2>1. IsSymbol(symbols[f], symbols, Len(tables))
    BY <1>2, <1>3 DEF SymbolsOK, IsSeq
  <2>2. t \in 0 .. Len(tables) /\ t # 0
    BY <1>1, <1>2, <2>1 DEF IsSymbol
  <2> QED
    BY <1>3, <2>2
<1>5. CASE tables' = tables
  BY <1>5
<1>6. CASE PushNew
  BY <1>1, <1>3, <1>4, <1>6, OneTableMore DEF PushNew
<1>7. ASSUME NEW name, NEW class, NEW s, tables' = PutInto(name, class, s),
             todo.do \in {"tag", "enumerator", "declared_parameter", "declared", "variable"}
      PROVE  tables'[t] = tables[t]
  <2>1. Apart /\ todo.do # "end_of_body"
    BY <1>7 DEF Apart
  <2>2. Current \notin Sigs(symbols)
    BY <2>1, HeadHoused
  <2>3. t # Current
    BY <1>1, <1>2, <2>2 DEF Sigs
  <2>4. t \in DOMAIN tables
    BY <1>3, <1>4 DEF IsSeq
  <2> QED
    BY <1>7, <2>3, <2>4 DEF PutInto
<1> QED
  BY <1>1, <1>5, <1>6, <1>7 DEF Step, TableStep

\* A scope that is left leaves every name and tag the meaning it had when it was opened: what
\* struct members, parameters and blocks declare ends with them, whatever the program (unless the
\* failure of a local declaration has been ignored).
THEOREM NamesAreRestored == Spec => BlocksRestoreNames
<1>1. ScopesInv /\ TypesInv /\ NestInv /\ [Next]_vars
        => [Len(symtables') < Len(symtables) /\ ~ seen.muffled => Meaning' = todo.opened]_vars
  <2> SUFFICES ASSUME ScopesInv, TypesInv, NestInv, Next, ~ seen.muffled,
                      Len(symtables') < Len(symtables)
               PROVE  Meaning' = todo.opened
    OBVIOUS
  <2>1. Step
    BY NextSteps
  <2>2. Standing
    BY <2>1 DEF Standing, Step
  <2> QED
    BY <2>1, <2>2, NamesRestored
<1> QED
  BY <1>1, ScopesFollowCalls, CallsAreServed, ScopesNest, PTL DEF Spec, BlocksRestoreNames

\* The table of a function's parameters stays what it was when the function was declared: its
\* body, which opens it again, puts its names into a table of its own (with the same exception).
THEOREM SignaturesAreFixed == Spec => SignaturesFixed
<1>1. ScopesInv /\ TypesInv /\ NestInv /\ [Next]_vars
        => [\A f \in Functions : LET table == symbols[f].symtable IN
              tables'[table] = tables[table] \/ seen.muffled]_vars
  <2> SUFFICES ASSUME ScopesInv, TypesInv, NestInv, Next, ~ seen.muffled, NEW f \in Functions
               PROVE  tables'[symbols[f].symtable] = tables[symbols[f].symtable]
    OBVIOUS
  <2>1. Step
    BY NextSteps
  <2>2. Standing
    BY <2>1 DEF Standing, Step
  <2> QED
    BY <2>1, <2>2, SignaturesStay
<1> QED
  BY <1>1, ScopesFollowCalls, CallsAreServed, ScopesNest, PTL DEF Spec, SignaturesFixed

=============================================================================
