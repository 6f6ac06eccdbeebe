---------------------------- MODULE LayoutProofs ----------------------------
(***************************************************************************)
(* Proofs for Layout: whatever is declared, in whatever order, every local *)
(* has bytes of its own in the frame of its function and every field of a  *)
(* complete struct has bytes of its own in the struct, for every set of    *)
(* programs.                                                               *)
(*                                                                         *)
(* The invariant is LayInv.  It says of the calls on the C stack where     *)
(* each stands (Laid): how many scopes are open, what kind of declaration  *)
(* is being read, and which function's body it is part of; only so is it   *)
(* known that what is put into the scope of a struct is a field, and that  *)
(* a local is counted in the frame of the function it is written down for. *)
(* Of the symbols it says that their sizes are those of their types, that  *)
(* a scope belongs to one struct, and that a complete one is laid out from *)
(* its fields and is never opened again (Tidy).                            *)
(***************************************************************************)
EXTENDS Layout, NestingProofs

----------------------------------------------------------------------------
(* The size of a type *)

\* The bytes of what is not an array, if Y are the symbols.
Takes(p, Y) ==
  CASE p.kind \in {"int", "pointer"} -> 4
    [] p.kind = "char" -> 1
    [] p.kind \in {"alias", "tag"} -> Y[p.sym].size
    [] OTHER -> 0

\* An object of type t takes z bytes, and what it is made of is complete: n is where the
\* arrays in front end, and f holds the sizes up to there.
Sized(t, z, Y) ==
  /\ IsSeq(t) /\ t # << >> /\ t[Len(t)].kind # "array"
  /\ \E n \in 1 .. Len(t) : \E f :
       /\ z = f[1] /\ f[n] = Takes(t[n], Y) /\ t[n].kind # "array"
       /\ \A m \in 1 .. n : f[m] \in Nat
       /\ \A m \in 1 .. n - 1 : t[m].kind = "array" /\ f[m] = f[m + 1] + f[m + 1]
       /\ t[n].kind = "tag" => Y[t[n].sym].complete

\* The sizes that are known in Y are the same in Z.
SizesStand(Y, Z) ==
  \A s \in DOMAIN Y : /\ Y[s].kind \notin TagKinds => Z[s].size = Y[s].size
                      /\ Y[s].complete => Z[s].complete /\ Z[s].size = Y[s].size

\* A size that is known stays the same.
LEMMA SizedStays ==
  ASSUME NEW Y, NEW Z, SizesStand(Y, Z), NEW T, NEW t, IsParts(t, Y, T), NEW z, Sized(t, z, Y)
  PROVE  Sized(t, z, Z)
<1> DEFINE Till(n, f) ==
             /\ z = f[1] /\ f[n] = Takes(t[n], Y) /\ t[n].kind # "array"
             /\ \A m \in 1 .. n : f[m] \in Nat
             /\ \A m \in 1 .. n - 1 : t[m].kind = "array" /\ f[m] = f[m + 1] + f[m + 1]
             /\ t[n].kind = "tag" => Y[t[n].sym].complete
<1>0. PICK n \in 1 .. Len(t) : \E f : Till(n, f)
  BY DEF Sized
<1>1. PICK f : Till(n, f)
  BY <1>0
<1>2. IsPart(t[n], Y, T)
  BY DEF IsParts
<1>3. t[n].kind = "tag" => /\ t[n].sym \in DOMAIN Y /\ Y[t[n].sym].complete
                           /\ Z[t[n].sym].complete /\ Z[t[n].sym].size = Y[t[n].sym].size
  BY <1>1, <1>2 DEF IsPart, Tags, SizesStand
<1>4. t[n].kind = "alias" => Z[t[n].sym].size = Y[t[n].sym].size
  BY <1>2 DEF IsPart, SizesStand, TagKinds
<1>5. Takes(t[n], Z) = Takes(t[n], Y)
  BY <1>3, <1>4 DEF Takes
<1> QED
  BY <1>1, <1>3, <1>5 DEF Sized

\* calc_symbol_size gives it, unless it is asked too early.
LEMMA SizeIsKnown ==
  ASSUME NEW T, SymbolsOK(symbols, T), NEW type, IsFull(type, symbols, T), ~ IsEarly(type)
  PROVE  Sized(type, SizeOf(type), symbols)
<1>1. PICK f : /\ SizeOf(type) = f[1] /\ SizesFrom(f, type, 1)
               /\ \A i \in 1 .. Len(type) : f[i] \in Nat
  BY FullSizes
<1>2. IsSeq(type) /\ Len(type) \in Nat \ {0} /\ DOMAIN type = 1 .. Len(type)
  BY DEF IsFull, IsParts, IsSeq
<1>3. type # << >> /\ type[Len(type)].kind # "array"
  BY DEF IsFull, BaseKinds
<1> DEFINE D == {i \in 1 .. Len(type) : type[i].kind # "array"}
<1>4. PICK n : n = Min(D)
  OBVIOUS
<1>5. n \in D /\ \A k \in D : n <= k
  <2>1. D \in SUBSET Nat /\ Len(type) \in D
    BY <1>2, <1>3
  <2> HIDE DEF D
  <2> QED
    BY <1>4, <2>1, MinIsLeast
<1>6. n \in 1 .. Len(type) /\ type[n].kind # "array"
  BY <1>5
<1>7. \A m \in 1 .. n - 1 : m \in 1 .. Len(type) /\ type[m].kind = "array"
  BY <1>2, <1>5, <1>6
<1>8. type[n].kind = "tag" => symbols[type[n].sym].complete
  BY <1>2, <1>6, <1>7 DEF IsEarly
<1>9. \A i \in 1 .. Len(type) :
        f[i] = CASE type[i].kind = "array"   -> 2 * f[i + 1]
                 [] type[i].kind = "pointer" -> 4
                 [] OTHER -> SizeOfBase(type[i])
  BY <1>1 DEF SizesFrom
<1>10. \A m \in 1 .. n - 1 : f[m] = f[m + 1] + f[m + 1]
  <2> SUFFICES ASSUME NEW m \in 1 .. n - 1 PROVE f[m] = f[m + 1] + f[m + 1]
    OBVIOUS
  <2>1. m + 1 \in 1 .. Len(type)
    BY <1>2, <1>6
  <2>2. f[m] = 2 * f[m + 1] /\ f[m + 1] \in Nat
    BY <1>1, <1>7, <1>9, <2>1
  <2> QED
    BY <2>2
<1>11. f[n] = Takes(type[n], symbols)
  <2>1. f[n] = CASE type[n].kind = "pointer" -> 4 [] OTHER -> SizeOfBase(type[n])
    BY <1>6, <1>9
  <2> QED
    BY <2>1 DEF Takes, SizeOfBase
<1>12. \A m \in 1 .. n : f[m] \in Nat
  BY <1>1, <1>2, <1>6
<1> QED
  BY <1>1, <1>2, <1>3, <1>6, <1>7, <1>8, <1>10, <1>11, <1>12 DEF Sized

\* g holds the bytes of a type and of its elements, from the place n on.
BytesFrom(g, type, n) ==
  g = [i \in n .. Len(type) |->
         IF type[i].kind = "array" THEN g[i + 1] + g[i + 1] ELSE PartBytes(type[i])]

\* There are such bytes,
LEMMA BytesExist ==
  ASSUME NEW type, NEW L \in Nat, Len(type) = L, type[L].kind # "array"
  PROVE  \E g : BytesFrom(g, type, 1)
<1> DEFINE Of1(f, i) == IF type[i].kind = "array" THEN f[i + 1] + f[i + 1] ELSE PartBytes(type[i])
           S == {k \in Nat : k <= L => \E f : BytesFrom(f, type, L - k + 1)}
<1>1. 0 \in S
  <2> DEFINE f == [i \in L + 1 .. L |-> 0]
  <2>1. BytesFrom(f, type, L + 1)
    <3>1. \A i : i \notin L + 1 .. L
      OBVIOUS
    <3> QED
      BY <3>1 DEF BytesFrom
  <2>2. L - 0 + 1 = L + 1
    OBVIOUS
  <2> QED
    BY <2>1, <2>2
<1>2. ASSUME NEW k \in Nat, k \in S PROVE k + 1 \in S
  <2> SUFFICES ASSUME k + 1 <= L PROVE \E f : BytesFrom(f, type, L - (k + 1) + 1)
    OBVIOUS
  <2> DEFINE a == L - (k + 1) + 1
  <2>0. a \in 1 .. L /\ a + 1 = L - k + 1 /\ k <= L
    OBVIOUS
  <2>1. PICK f : BytesFrom(f, type, a + 1)
    BY <1>2, <2>0
  <2> HIDE DEF a
  <2> DEFINE g == [i \in a .. L |-> Of1(f, i)]
  <2>2. \A i \in a + 1 .. L : f[i] = Of1(f, i)
    BY <2>1 DEF BytesFrom
  <2> HIDE DEF Of1
  <2>3. \A i \in a + 1 .. L : g[i] = f[i]
    BY <2>0, <2>2
  <2>4. \A i \in a .. L : type[i].kind = "array" => i + 1 \in a + 1 .. L
    BY <2>0
  <2>5. \A i \in a .. L : type[i].kind = "array" => g[i + 1] = f[i + 1]
    BY <2>3, <2>4
  <2> HIDE DEF g
  <2>6. \A i \in a .. L : Of1(g, i) = Of1(f, i)
    BY <2>5 DEF Of1
  <2>7. g = [i \in a .. L |-> Of1(g, i)]
    BY <2>6 DEF g
  <2>8. BytesFrom(g, type, a)
    BY <2>7 DEF BytesFrom, Of1
  <2> QED
    BY <2>8 DEF a
<1>3. L \in S
  <2> HIDE DEF S
  <2> QED
    BY <1>1, <1>2, EveryNumber
<1>4. L - L + 1 = 1
  OBVIOUS
<1> QED
  BY <1>3, <1>4

\* and a size that is known is the number of them.
LEMMA KnownIsBytes ==
  ASSUME NEW type, NEW z, Sized(type, z, symbols)
  PROVE  Bytes(type) = z /\ z \in Nat
<1>1. PICK L : L = Len(type)
  OBVIOUS
<1>2. L \in Nat \ {0} /\ DOMAIN type = 1 .. L /\ type[L].kind # "array"
  BY <1>1 DEF Sized, IsSeq
<1> DEFINE Till(n, f) ==
             /\ z = f[1] /\ f[n] = Takes(type[n], symbols) /\ type[n].kind # "array"
             /\ \A m \in 1 .. n : f[m] \in Nat
             /\ \A m \in 1 .. n - 1 : type[m].kind = "array" /\ f[m] = f[m + 1] + f[m + 1]
<1>0. PICK n \in 1 .. L : \E f : Till(n, f)
  BY <1>1 DEF Sized
<1>3. PICK f : Till(n, f)
  BY <1>0
<1> DEFINE Holds(g) ==
             g = [i \in DOMAIN type |->
                    IF type[i].kind = "array" THEN g[i + 1] + g[i + 1] ELSE PartBytes(type[i])]
<1>4. PICK g : g = CHOOSE h : Holds(h)
  OBVIOUS
<1>5. BytesFrom(g, type, 1)
  <2>1. \A h : BytesFrom(h, type, 1) <=> Holds(h)
    BY <1>1, <1>2 DEF BytesFrom
  <2>2. \E h : BytesFrom(h, type, 1)
    BY <1>1, <1>2, BytesExist
  <2> HIDE DEF Holds
  <2> QED
    BY <1>4, <2>1, <2>2
<1>6. Bytes(type) = g[1]
  <2>1. Bytes(type) = (CHOOSE h : Holds(h))[1]
    BY DEF Bytes
  <2> HIDE DEF Holds
  <2> QED
    BY <1>4, <2>1
<1> HIDE DEF Holds
<1>7. \A i \in 1 .. L :
        g[i] = IF type[i].kind = "array" THEN g[i + 1] + g[i + 1] ELSE PartBytes(type[i])
  BY <1>1, <1>5 DEF BytesFrom
<1>8. g[n] = f[n]
  BY <1>3, <1>7 DEF Takes, PartBytes
<1>9. \A m \in 1 .. n - 1 : g[m] = g[m + 1] + g[m + 1]
  <2>1. \A m \in 1 .. n - 1 : m \in 1 .. L /\ type[m].kind = "array"
    BY <1>2, <1>3
  <2> QED
    BY <1>7, <2>1
<1> DEFINE S == {k \in Nat : k < n => g[n - k] = f[n - k]}
<1>10. 0 \in S
  BY <1>2, <1>8
<1>11. ASSUME NEW k \in Nat, k \in S PROVE k + 1 \in S
  <2> SUFFICES ASSUME k + 1 < n PROVE g[n - (k + 1)] = f[n - (k + 1)]
    OBVIOUS
  <2>1. n - (k + 1) \in 1 .. n - 1 /\ n - (k + 1) + 1 = n - k /\ k < n
    BY <1>2
  <2>2. g[n - (k + 1) + 1] = f[n - (k + 1) + 1]
    BY <1>11, <2>1
  <2> QED
    BY <1>3, <1>9, <2>1, <2>2
<1>12. n - 1 \in S
  <2> HIDE DEF S
  <2> QED
    BY <1>2, <1>10, <1>11, EveryNumber
<1>13. n - 1 < n /\ n - (n - 1) = 1 /\ 1 \in 1 .. n
  BY <1>2
<1> QED
  BY <1>3, <1>6, <1>12, <1>13

----------------------------------------------------------------------------
(* The sizes of fields, added up *)

\* The kinds of symbols that are given the size of their type.
Measured == {"variable", "global", "field", "alias"}

\* What was copied is still so: an object, and a name of a type, has the size of its type, and a
\* complete struct or union that of its fields, whatever was completed after it was made.
SizesAreTrue ==
  Whole => \A s \in DOMAIN symbols :
    /\ symbols[s].kind \in Measured => symbols[s].size = Bytes(symbols[s].type)
    /\ symbols[s].complete =>
         LET table == tables[symbols[s].symtable]
             size(i) == symbols[table[i].sym].size
         IN symbols[s].size = IF symbols[s].kind = "struct" THEN MapThenSumSet(size, Fields(table))
                              ELSE Max({0} \cup {size(i) : i \in Fields(table)})

\* The fields in S have a size, and have the same in Y and Z.
Weighed(Y, table, S) == \A j \in S : Y[table[j].sym].size \in Nat
SameSizes(Y, Z, table, S) == \A j \in S : Z[table[j].sym].size = Y[table[j].sym].size

LEMMA SizesAreSame == \A Y, table, S : SameSizes(Y, Y, table, S)
  BY DEF SameSizes

\* Sums of the same sizes are the same, whatever sets they are told for.
LEMMA SumsAgree ==
  ASSUME NEW Y, NEW Z, NEW table, NEW S, NEW R, R \subseteq S, IsFiniteSet(R), NEW f, NEW g,
         Sums(Y, f, table, SUBSET S), Sums(Z, g, table, SUBSET R),
         SameSizes(Y, Z, table, R)
  PROVE  g[R] = f[R]
<1> DEFINE N == {n \in Nat : \A s \in Small(R, n) : g[s] = f[s]}
           v(j) == Y[table[j].sym].size
           w(j) == Z[table[j].sym].size
<1>1. \A s \in SUBSET R :
        /\ f[s] = IF s = {} THEN 0 ELSE LET x == CHOOSE x \in s : TRUE IN v(x) + f[s \ {x}]
        /\ g[s] = IF s = {} THEN 0 ELSE LET x == CHOOSE x \in s : TRUE IN w(x) + g[s \ {x}]
  BY DEF Sums
<1>2. \A j \in R : w(j) = v(j)
  BY DEF SameSizes
<1> HIDE DEF v, w
<1>3. 0 \in N
  <2> SUFFICES ASSUME NEW s \in Small(R, 0) PROVE g[s] = f[s]
    OBVIOUS
  <2>1. s \in SUBSET R /\ Cardinality(s) <= 0
    BY DEF Small
  <2>2. IsFiniteSet(s) /\ Cardinality(s) \in Nat
    BY <2>1, FS_Subset, FS_CardinalityType
  <2>3. s = {}
    BY <2>1, <2>2, FS_EmptySet
  <2> QED
    BY <1>1, <2>1, <2>3
<1>4. ASSUME NEW n \in Nat, n \in N PROVE n + 1 \in N
  <2> SUFFICES ASSUME NEW s \in Small(R, n + 1) PROVE g[s] = f[s]
    OBVIOUS
  <2>1. s \in SUBSET R
    BY DEF Small
  <2>2. CASE s = {}
    BY <1>1, <2>1, <2>2
  <2>3. CASE s # {}
    <3>1. PICK x : x = CHOOSE y \in s : TRUE
      OBVIOUS
    <3>2. x \in R /\ s \ {x} \in Small(R, n)
      BY <2>3, <3>1, SmallerSets
    <3>3. g[s \ {x}] = f[s \ {x}] /\ w(x) = v(x)
      BY <1>2, <1>4, <3>2
    <3>4. f[s] = v(x) + f[s \ {x}] /\ g[s] = w(x) + g[s \ {x}]
      BY <1>1, <2>1, <2>3, <3>1
    <3> QED
      BY <3>3, <3>4
  <2> QED
    BY <2>2, <2>3
<1> HIDE DEF N
<1>5. Cardinality(R) \in N
  BY <1>3, <1>4, EveryNumber, FS_CardinalityType
<1>6. R \in Small(R, Cardinality(R))
  BY FS_CardinalityType DEF Small
<1> QED
  BY <1>5, <1>6 DEF N

\* Sums of some of what is summed are numbers too.
LEMMA PartialSums ==
  ASSUME NEW Y, NEW table, NEW S, IsFiniteSet(S), Weighed(Y, table, S),
         NEW f, Sums(Y, f, table, SUBSET S)
  PROVE  \A R \in SUBSET S : f[R] \in Nat
<1> SUFFICES ASSUME NEW R \in SUBSET S PROVE f[R] \in Nat
  OBVIOUS
<1>1. IsFiniteSet(R)
  BY FS_Subset
<1>2. PICK g : Sums(Y, g, table, SUBSET R)
  BY <1>1, SumsExist
<1>3. g[R] \in Nat
  <2>1. \A j \in R : Y[table[j].sym].size \in Nat
    BY DEF Weighed
  <2> QED
    BY <1>1, <1>2, <2>1, SumsAreNumbers
<1>4. g[R] = f[R]
  <2>1. R \subseteq S
    OBVIOUS
  <2> QED
    BY <1>1, <1>2, <2>1, SizesAreSame, SumsAgree
<1> QED
  BY <1>3, <1>4

\* Each of them may be the one that is added last.
AnyLast(Y, table, S, f) ==
  \A R \in SUBSET S : \A x \in R : f[R] = Y[table[x].sym].size + f[R \ {x}]

\* Any one of the fields may be added last.
LEMMA SumOfAny ==
  ASSUME NEW Y, NEW table, NEW S, IsFiniteSet(S), Weighed(Y, table, S),
         NEW f, Sums(Y, f, table, SUBSET S)
  PROVE  AnyLast(Y, table, S, f)
<1> DEFINE w(j) == Y[table[j].sym].size
           N == {n \in Nat : \A s \in Small(S, n) : \A x \in s : f[s] = w(x) + f[s \ {x}]}
<1>1. \A s \in SUBSET S :
        f[s] = IF s = {} THEN 0 ELSE LET x == CHOOSE x \in s : TRUE IN w(x) + f[s \ {x}]
  BY DEF Sums
<1>2. \A R \in SUBSET S : f[R] \in Nat
  BY PartialSums
<1>3. \A j \in S : w(j) \in Nat
  BY DEF Weighed
<1>4. 0 \in N
  <2> SUFFICES ASSUME NEW s \in Small(S, 0) PROVE s = {}
    OBVIOUS
  <2>1. s \in SUBSET S /\ Cardinality(s) <= 0
    BY DEF Small
  <2>2. IsFiniteSet(s) /\ Cardinality(s) \in Nat
    BY <2>1, FS_Subset, FS_CardinalityType
  <2> QED
    BY <2>1, <2>2, FS_EmptySet
<1> HIDE DEF w
<1>5. ASSUME NEW n \in Nat, n \in N PROVE n + 1 \in N
  <2> SUFFICES ASSUME NEW s \in Small(S, n + 1), NEW x \in s PROVE f[s] = w(x) + f[s \ {x}]
    OBVIOUS
  <2>1. PICK y : y = CHOOSE z \in s : TRUE
    OBVIOUS
  <2>2. s \in SUBSET S /\ s # {} /\ y \in s /\ y \in S /\ x \in S /\ s \ {y} \in Small(S, n)
    BY <2>1, SmallerSets DEF Small
  <2>3. f[s] = w(y) + f[s \ {y}]
    BY <1>1, <2>1, <2>2
  <2>4. CASE x # y
    <3> DEFINE r == (s \ {x}) \ {y}
    <3>1. r = (s \ {y}) \ {x} /\ r \in SUBSET S /\ x \in s \ {y} /\ y \in s \ {x}
          /\ s \ {x} \in SUBSET S
      BY <2>2, <2>4
    <3>2. s \ {x} \in Small(S, n)
      <4>1. IsFiniteSet(s) /\ Cardinality(s) \in Nat /\ Cardinality(s) <= n + 1
        BY <2>2, FS_Subset, FS_CardinalityType DEF Small
      <4>2. Cardinality(s \ {x}) = Cardinality(s) - 1
        BY <4>1, FS_RemoveElement
      <4> QED
        BY <3>1, <4>1, <4>2 DEF Small
    <3>3. f[s \ {y}] = w(x) + f[(s \ {y}) \ {x}]
      BY <1>5, <2>2, <3>1
    <3>4. f[s \ {x}] = w(y) + f[(s \ {x}) \ {y}]
      BY <1>5, <3>1, <3>2
    <3>5. f[r] \in Nat /\ w(x) \in Nat /\ w(y) \in Nat
      BY <1>2, <1>3, <2>2, <3>1
    <3>6. f[s \ {y}] = w(x) + f[r] /\ f[s \ {x}] = w(y) + f[r]
      BY <3>1, <3>3, <3>4
    <3> HIDE DEF r
    <3> QED
      BY <2>3, <3>5, <3>6
  <2> QED
    BY <2>3, <2>4
<1> HIDE DEF N
<1>6. Cardinality(S) \in N
  BY <1>4, <1>5, EveryNumber, FS_CardinalityType
<1>7. SUBSET S = Small(S, Cardinality(S))
  BY FS_Subset DEF Small
<1> QED
  BY <1>6, <1>7 DEF N, w, AnyLast

\* More fields take no less.
LEMMA SumsGrow ==
  ASSUME NEW Y, NEW table, NEW S, IsFiniteSet(S), Weighed(Y, table, S),
         NEW f, Sums(Y, f, table, SUBSET S)
  PROVE  \A Q \in SUBSET S : \A R \in SUBSET Q : f[R] <= f[Q]
<1> DEFINE N == {n \in Nat : \A s \in Small(S, n) : \A R \in SUBSET s : f[R] <= f[s]}
<1>1. \A R \in SUBSET S : f[R] \in Nat
  BY PartialSums
<1>2. \A R \in SUBSET S : \A x \in R :
        /\ f[R] = Y[table[x].sym].size + f[R \ {x}]
        /\ Y[table[x].sym].size \in Nat
  <2>1. ASSUME NEW R \in SUBSET S, NEW x \in R
        PROVE  f[R] = Y[table[x].sym].size + f[R \ {x}]
    BY SumOfAny DEF AnyLast
  <2> QED
    BY <2>1 DEF Weighed
<1>3. 0 \in N
  <2> SUFFICES ASSUME NEW s \in Small(S, 0), NEW R \in SUBSET s PROVE f[R] <= f[s]
    OBVIOUS
  <2>1. s \in SUBSET S /\ Cardinality(s) <= 0
    BY DEF Small
  <2>2. IsFiniteSet(s) /\ Cardinality(s) \in Nat
    BY <2>1, FS_Subset, FS_CardinalityType
  <2>3. s = {}
    BY <2>1, <2>2, FS_EmptySet
  <2>4. R = s
    BY <2>3
  <2> QED
    BY <1>1, <2>1, <2>4
<1>4. ASSUME NEW n \in Nat, n \in N PROVE n + 1 \in N
  <2> SUFFICES ASSUME NEW s \in Small(S, n + 1), NEW R \in SUBSET s PROVE f[R] <= f[s]
    OBVIOUS
  <2>1. s \in SUBSET S
    BY DEF Small
  <2>2. CASE R = s
    BY <1>1, <2>1, <2>2
  <2>3. CASE R # s
    <3>1. PICK x \in s : x \notin R
      BY <2>3
    <3>2. s \ {x} \in Small(S, n)
      <4>1. IsFiniteSet(s) /\ Cardinality(s) \in Nat /\ Cardinality(s) <= n + 1
        BY <2>1, FS_Subset, FS_CardinalityType DEF Small
      <4>2. Cardinality(s \ {x}) = Cardinality(s) - 1
        BY <4>1, FS_RemoveElement
      <4> QED
        BY <2>1, <4>1, <4>2 DEF Small
    <3>3. R \in SUBSET (s \ {x}) /\ s \ {x} \in SUBSET S /\ R \in SUBSET S
      BY <2>1, <3>1
    <3>4. f[R] <= f[s \ {x}]
      BY <1>4, <3>2, <3>3
    <3>5. /\ f[s] = Y[table[x].sym].size + f[s \ {x}] /\ Y[table[x].sym].size \in Nat
          /\ f[s \ {x}] \in Nat /\ f[R] \in Nat
      BY <1>1, <1>2, <2>1, <3>1, <3>3
    <3> QED
      BY <3>4, <3>5
  <2> QED
    BY <2>2, <2>3
<1> HIDE DEF N
<1>5. Cardinality(S) \in N
  BY <1>3, <1>4, EveryNumber, FS_CardinalityType
<1>6. SUBSET S = Small(S, Cardinality(S))
  BY FS_Subset DEF Small
<1> QED
  BY <1>5, <1>6 DEF N

\* The fields of a table, if Y are the symbols.
FieldsOf(table, Y) == {i \in DOMAIN table : Y[table[i].sym].kind \in VarKinds}

\* They are finitely many.
LEMMA FieldsAreFinite ==
  ASSUME NEW table, IsSeq(table), NEW Y
  PROVE  IsFiniteSet(FieldsOf(table, Y)) /\ FieldsOf(table, Y) \subseteq 1 .. Len(table)
<1>1. DOMAIN table = 1 .. Len(table) /\ Len(table) \in Nat
  BY DEF IsSeq
<1>2. FieldsOf(table, Y) \subseteq 1 .. Len(table)
  BY <1>1 DEF FieldsOf
<1>3. IsFiniteSet(1 .. Len(table))
  BY <1>1, FS_Interval
<1> QED
  BY <1>2, <1>3, FS_Subset

\* What the parser adds up.
LEMMA BeforeIsSum ==
  ASSUME NEW table, IsSeq(table), NEW i, NEW f, Sums(symbols, f, table, SUBSET Fields(table))
  PROVE  SizesBefore(table, i) = f[{j \in Fields(table) : j < i}]
<1> DEFINE S == {j \in Fields(table) : j < i}
<1>1. SizesBefore(table, i) = (CHOOSE g : Sums(symbols, g, table, SUBSET S))[S]
  BY DEF SizesBefore, MapThenSumSet, MapThenFoldSet, Sums
<1>2. IsFiniteSet(S) /\ S \subseteq Fields(table)
  <2>1. Fields(table) = FieldsOf(table, symbols)
    BY DEF Fields, FieldsOf
  <2> QED
    BY <2>1, FieldsAreFinite, FS_Subset
<1> HIDE DEF S
<1>3. PICK g : g = CHOOSE h : Sums(symbols, h, table, SUBSET S)
  OBVIOUS
<1>4. Sums(symbols, g, table, SUBSET S)
  BY <1>2, <1>3, SumsExist
<1>5. g[S] = f[S]
  BY <1>2, <1>4, SizesAreSame, SumsAgree
<1> QED
  BY <1>1, <1>3, <1>5 DEF S

\* What Layout adds up.
LEMMA AllIsSum ==
  ASSUME NEW table, IsSeq(table), NEW f, Sums(symbols, f, table, SUBSET Fields(table))
  PROVE  MapThenSumSet(LAMBDA i : symbols[table[i].sym].size, Fields(table)) = f[Fields(table)]
<1> DEFINE S == Fields(table)
<1>1. MapThenSumSet(LAMBDA i : symbols[table[i].sym].size, S)
        = (CHOOSE g : Sums(symbols, g, table, SUBSET S))[S]
  BY DEF MapThenSumSet, MapThenFoldSet, Sums
<1>2. IsFiniteSet(S)
  BY FieldsAreFinite DEF Fields, FieldsOf
<1> HIDE DEF S
<1>3. PICK g : g = CHOOSE h : Sums(symbols, h, table, SUBSET S)
  OBVIOUS
<1>4. Sums(symbols, g, table, SUBSET S)
  BY <1>2, <1>3, SumsExist
<1>5. g[S] = f[S]
  BY <1>2, <1>4, SizesAreSame, SumsAgree DEF S
<1> QED
  BY <1>1, <1>3, <1>5 DEF S

----------------------------------------------------------------------------
(* Where calls stand *)

\* A call stands under k scopes, where declarations are of the kind c, in the body of the
\* function b, or outside all where b is 0.
At(k, c, b) == [k |-> k, c |-> c, b |-> b]

\* Where the call stands that gets control when x has returned.
Below(x, e) ==
  At(e.k - Held(x),
     IF x.do \in {"field"} \cup InParameters THEN x.old
     ELSE IF x.do = "end_of_body" THEN Global ELSE e.c,
     IF x.do = "end_of_body" THEN 0 ELSE e.b)

\* The scopes of structs and unions.
Structs(Y) == {Y[s].symtable : s \in Tags(Y)} \ {0}

\* The functions in a type do not have their parameters in the scope of a struct.
Free(t, Y, T) == \A i \in 1 .. Len(t) : t[i].kind = "func" => t[i].sym \in (1 .. T) \ Structs(Y)

\* Calls that lead to declarations which are not of parameters.
DeclCalls == {"declaration", "declarators", "declared", "separator", "stmt", "else", "block"}

\* A place there may be: locals are declared in bodies, and not in structs.
Placed(e, S, Y) ==
  /\ e = At(e.k, e.c, e.b) /\ e.k \in Nat \ {0} /\ e.b \in 0 .. Len(Y)
  /\ S[e.k] \in Structs(Y) => e.c # Local
  /\ e.b = 0 => e.c # Local

\* What is about to be put in the current scope has the size of its type, and the kind of its
\* place.
Ready(r, e, Y, T) ==
  /\ r.kind \in Measured /\ IsParts(r.type, Y, T) /\ Sized(r.type, r.size, Y)
  /\ r.kind = "variable" => e.c = Local
  /\ r.function = e.b /\ ~ r.complete /\ r.symtable = 0 /\ r.locals_size = 0

\* The call x may stand at e: a struct is open and its scope is the current one, no
\* declaration is taken for one of a parameter, and parameters do not become fields.
Suits(x, e, S, Y, T) ==
  /\ Placed(e, S, Y)
  /\ x.do \in DeclCalls => e.c # "DT_PARAMETER"
  /\ x.do = "field" => S[e.k] = Y[x.tag].symtable /\ ~ Y[x.tag].complete
  /\ x.do \in InParameters => S[e.k] \notin Structs(Y)
  /\ x.do \in {"suffix", "linked"} => Free(x.inner, Y, T)
  /\ x.do = "variable" => Ready(x.symbol, e, Y, T)
  /\ x.do = "end_of_body" => e.b = x.function
  /\ x.do # "body"

\* p holds the places of the calls s.
Places(s, p, S, Y, T) ==
  \A n \in 1 .. Len(s) : p[n + 1] = Below(s[n], p[n]) /\ Suits(s[n], p[n], S, Y, T)

\* The calls s stand where they may, the first at e.
Laid(s, e, S, Y, T) ==
  IsSeq(s) /\ \E p : p[1] = e /\ p[Len(s) + 1].b = 0 /\ Places(s, p, S, Y, T)

----------------------------------------------------------------------------
\* What a call that returns leaves.
LEMMA LaidPop ==
  ASSUME NEW s, NEW e, NEW S, NEW Y, NEW T, Laid(s, e, S, Y, T), s # << >>
  PROVE  Suits(Head(s), e, S, Y, T) /\ Laid(Tail(s), Below(Head(s), e), S, Y, T)
<1> DEFINE R == {s[n] : n \in 1 .. Len(s)}
           t == Tail(s)
<1>1. s \in Seq(R) /\ Len(s) \in Nat \ {0} /\ IsSeq(t)
  <2>1. s \in Seq(R)
    BY DEF Laid, IsSeq
  <2> HIDE DEF R
  <2>2. t \in Seq(R)
    BY <2>1
  <2>3. IsSeq(t)
    BY <2>2, SeqIsSeq, Zenon
  <2> QED
    BY <2>1, <2>3
<1> HIDE DEF R
<1>2. Len(t) = Len(s) - 1 /\ Head(s) = s[1] /\ \A n \in 1 .. Len(t) : t[n] = s[n + 1]
  BY <1>1
<1> HIDE DEF t
<1>3. PICK p : p[1] = e /\ p[Len(s) + 1].b = 0 /\ Places(s, p, S, Y, T)
  BY DEF Laid
<1> DEFINE q == [n \in Nat |-> p[n + 1]]
<1>4. Suits(s[1], e, S, Y, T) /\ p[2] = Below(s[1], e)
  BY <1>1, <1>3 DEF Places
<1>5. q[1] = Below(s[1], e) /\ q[Len(t) + 1] = p[Len(s) + 1]
  BY <1>1, <1>2, <1>4
<1>6. ASSUME NEW n \in 1 .. Len(t)
      PROVE  q[n + 1] = Below(t[n], q[n]) /\ Suits(t[n], q[n], S, Y, T)
  <2>1. n + 1 \in 1 .. Len(s) /\ n \in Nat /\ n + 1 \in Nat
    BY <1>1, <1>2
  <2>2. p[n + 1 + 1] = Below(s[n + 1], p[n + 1]) /\ Suits(s[n + 1], p[n + 1], S, Y, T)
    BY <1>3, <2>1 DEF Places
  <2> QED
    BY <1>2, <2>1, <2>2
<1>7. Places(t, q, S, Y, T)
  <2> HIDE DEF q
  <2> QED
    BY <1>6 DEF Places
<1>8. Laid(t, Below(s[1], e), S, Y, T)
  <2> HIDE DEF q
  <2> QED
    BY <1>1, <1>3, <1>5, <1>7 DEF Laid
<1> QED
  BY <1>2, <1>4, <1>8 DEF t

\* The members of a list.
Among(items, A) == IsSeq(items) /\ \A n \in 1 .. Len(items) : items[n] \in A

\* Lists of one to four are among their members, and joined lists among those of both.
LEMMA TuplesAmong ==
  /\ Among(<< >>, {})
  /\ \A a : Among(<< a >>, {a})
  /\ \A a, b : Among(<< a, b >>, {a, b})
  /\ \A a, b, c : Among(<< a, b, c >>, {a, b, c})
  /\ \A a, b, c, d : Among(<< a, b, c, d >>, {a, b, c, d})
<1>1. Among(<< >>, {})
  BY DEF Among, IsSeq
<1>2. ASSUME NEW a PROVE Among(<< a >>, {a})
  <2>1. << a >> \in Seq({a})
    OBVIOUS
  <2>2. IsSeq(<< a >>)
    BY <2>1, SeqIsSeq, Zenon
  <2>3. \A n \in 1 .. Len(<< a >>) : << a >>[n] \in {a}
    OBVIOUS
  <2> QED
    BY <2>2, <2>3 DEF Among
<1>3. ASSUME NEW a, NEW b PROVE Among(<< a, b >>, {a, b})
  <2>1. << a, b >> \in Seq({a, b})
    OBVIOUS
  <2>2. IsSeq(<< a, b >>)
    BY <2>1, SeqIsSeq, Zenon
  <2>3. \A n \in 1 .. Len(<< a, b >>) : << a, b >>[n] \in {a, b}
    OBVIOUS
  <2> QED
    BY <2>2, <2>3 DEF Among
<1>4. ASSUME NEW a, NEW b, NEW c PROVE Among(<< a, b, c >>, {a, b, c})
  <2>1. << a, b, c >> \in Seq({a, b, c})
    OBVIOUS
  <2>2. IsSeq(<< a, b, c >>)
    BY <2>1, SeqIsSeq, Zenon
  <2>3. \A n \in 1 .. Len(<< a, b, c >>) : << a, b, c >>[n] \in {a, b, c}
    OBVIOUS
  <2> QED
    BY <2>2, <2>3 DEF Among
<1>5. ASSUME NEW a, NEW b, NEW c, NEW d PROVE Among(<< a, b, c, d >>, {a, b, c, d})
  <2>1. << a, b, c, d >> \in Seq({a, b, c, d})
    OBVIOUS
  <2>2. IsSeq(<< a, b, c, d >>)
    BY <2>1, SeqIsSeq, Zenon
  <2>3. \A n \in 1 .. Len(<< a, b, c, d >>) : << a, b, c, d >>[n] \in {a, b, c, d}
    OBVIOUS
  <2> QED
    BY <2>2, <2>3 DEF Among
<1> QED
  BY <1>1, <1>2, <1>3, <1>4, <1>5

LEMMA JoinedAmong ==
  ASSUME NEW u, NEW v, NEW A, NEW B, Among(u, A), Among(v, B)
  PROVE  Among(u \o v, A \cup B)
<1> DEFINE w == u \o v
<1>1. /\ IsSeq(w) /\ Len(w) = Len(u) + Len(v) /\ Len(u) \in Nat /\ Len(v) \in Nat
      /\ \A i \in 1 .. Len(u) : w[i] = u[i]
      /\ \A i \in 1 .. Len(v) : w[Len(u) + i] = v[i]
  BY Joined DEF Among
<1> HIDE DEF w
<1>2. ASSUME NEW i \in 1 .. Len(w) PROVE w[i] \in A \cup B
  <2>1. CASE i <= Len(u)
    BY <1>1, <2>1 DEF Among
  <2>2. CASE i > Len(u)
    <3>1. i - Len(u) \in 1 .. Len(v) /\ i = Len(u) + (i - Len(u))
      BY <1>1, <2>2
    <3>2. w[Len(u) + (i - Len(u))] = v[i - Len(u)]
      BY <1>1, <3>1
    <3>3. w[i] = v[i - Len(u)]
      BY <3>1, <3>2
    <3> QED
      BY <3>1, <3>3 DEF Among
  <2> QED
    BY <1>1, <2>1, <2>2
<1> QED
  BY <1>1, <1>2 DEF Among, w

\* A call that may stand at e, and leaves it so.
Sits(x, e, S, Y, T) == Suits(x, e, S, Y, T) /\ Below(x, e) = e

\* Such calls may be put in front of what stands there.
LEMMA LaidMore ==
  ASSUME NEW s, NEW e, NEW S, NEW Y, NEW T, Laid(s, e, S, Y, T), NEW items, NEW A, Among(items, A),
         \A x \in A : Sits(x, e, S, Y, T)
  PROVE  Laid(items \o s, e, S, Y, T)
<1> DEFINE w == items \o s
           L == Len(items)
<1>1. /\ IsSeq(w) /\ Len(w) = L + Len(s) /\ L \in Nat /\ Len(s) \in Nat
      /\ \A i \in 1 .. L : w[i] = items[i]
      /\ \A i \in 1 .. Len(s) : w[L + i] = s[i]
  BY Joined DEF Among, Laid
<1>2. \A i \in 1 .. L : items[i] \in A
  BY DEF Among
<1>3. PICK p : p[1] = e /\ p[Len(s) + 1].b = 0 /\ Places(s, p, S, Y, T)
  BY DEF Laid
<1> HIDE DEF w, L
<1> DEFINE q == [n \in Nat |-> IF n <= L THEN e ELSE p[n - L]]
<1>4. q[1] = e
  BY <1>1, <1>3
<1>5. q[Len(w) + 1] = p[Len(s) + 1]
  <2>1. PICK m : m = Len(w) + 1
    OBVIOUS
  <2>2. m \in Nat /\ ~ (m <= L) /\ m - L = Len(s) + 1
    BY <1>1, <2>1
  <2>3. q[m] = p[m - L]
    BY <2>2
  <2> HIDE DEF q
  <2> QED
    BY <2>1, <2>2, <2>3
<1>6. ASSUME NEW n \in 1 .. Len(w)
      PROVE  q[n + 1] = Below(w[n], q[n]) /\ Suits(w[n], q[n], S, Y, T)
  <2>1. n \in Nat /\ n + 1 \in Nat
    OBVIOUS
  <2>2. CASE n < L
    <3>1. q[n] = e /\ q[n + 1] = e /\ w[n] \in A
      BY <1>1, <1>2, <2>1, <2>2
    <3> QED
      BY <3>1 DEF Sits
  <2>3. CASE n = L
    <3>1. q[n] = e /\ q[n + 1] = p[1] /\ w[n] \in A
      <4>1. n + 1 - L = 1 /\ ~ (n + 1 <= L) /\ n <= L /\ n \in 1 .. L
        BY <1>1, <2>1, <2>3
      <4> QED
        BY <1>1, <1>2, <2>1, <4>1
    <3> QED
      BY <1>3, <3>1 DEF Sits
  <2>4. CASE n > L
    <3>1. n - L \in 1 .. Len(s) /\ n = L + (n - L) /\ n + 1 - L = n - L + 1
      BY <1>1, <2>4
    <3>2. w[L + (n - L)] = s[n - L]
      BY <1>1, <3>1
    <3>3. w[n] = s[n - L]
      BY <3>1, <3>2
    <3>4. q[n] = p[n - L] /\ q[n + 1] = p[n - L + 1]
      BY <1>1, <2>1, <2>4, <3>1
    <3>5. p[n - L + 1] = Below(s[n - L], p[n - L]) /\ Suits(s[n - L], p[n - L], S, Y, T)
      BY <1>3, <3>1 DEF Places
    <3> QED
      BY <3>3, <3>4, <3>5
  <2> QED
    BY <1>1, <2>2, <2>3, <2>4
<1> HIDE DEF q
<1>7. Places(w, q, S, Y, T)
  BY <1>6 DEF Places
<1> QED
  BY <1>1, <1>3, <1>4, <1>5, <1>7 DEF Laid, w

\* One call in front, wherever it stands.
LEMMA LaidPush ==
  ASSUME NEW s, NEW e, NEW S, NEW Y, NEW T, NEW x, Suits(x, e, S, Y, T), Laid(s, Below(x, e), S, Y, T)
  PROVE  Laid(<< x >> \o s, e, S, Y, T)
<1> DEFINE w == << x >> \o s
<1>1. /\ IsSeq(w) /\ Len(w) = 1 + Len(s) /\ Len(s) \in Nat
      /\ w[1] = x
      /\ \A i \in 1 .. Len(s) : w[1 + i] = s[i]
  <2>1. IsSeq(<< x >>) /\ Len(<< x >>) = 1 /\ << x >>[1] = x /\ IsSeq(s) /\ 1 \in 1 .. Len(<< x >>)
    BY One DEF Laid
  <2> QED
    BY <2>1, Joined
<1>2. PICK p : p[1] = Below(x, e) /\ p[Len(s) + 1].b = 0 /\ Places(s, p, S, Y, T)
  BY DEF Laid
<1> HIDE DEF w
<1> DEFINE q == [n \in Nat |-> IF n <= 1 THEN e ELSE p[n - 1]]
<1>3. q[1] = e /\ q[2] = Below(x, e)
  BY <1>2
<1>4. q[Len(w) + 1] = p[Len(s) + 1]
  <2>1. Len(w) + 1 \in Nat /\ ~ (Len(w) + 1 <= 1) /\ Len(w) + 1 - 1 = Len(s) + 1
    BY <1>1
  <2> QED
    BY <2>1
<1>5. ASSUME NEW n \in 1 .. Len(w)
      PROVE  q[n + 1] = Below(w[n], q[n]) /\ Suits(w[n], q[n], S, Y, T)
  <2>1. n \in Nat /\ n + 1 \in Nat
    OBVIOUS
  <2>2. CASE n = 1
    <3> HIDE DEF q
    <3> QED
      BY <1>1, <1>3, <2>2
  <2>3. CASE n > 1
    <3>1. n - 1 \in 1 .. Len(s) /\ n = 1 + (n - 1) /\ n + 1 - 1 = n - 1 + 1
      BY <1>1, <2>3
    <3>2. w[1 + (n - 1)] = s[n - 1]
      BY <1>1, <3>1
    <3>3. w[n] = s[n - 1]
      BY <3>1, <3>2
    <3>4. q[n] = p[n - 1] /\ q[n + 1] = p[n - 1 + 1]
      BY <2>1, <2>3, <3>1
    <3>5. p[n - 1 + 1] = Below(s[n - 1], p[n - 1]) /\ Suits(s[n - 1], p[n - 1], S, Y, T)
      BY <1>2, <3>1 DEF Places
    <3> QED
      BY <3>3, <3>4, <3>5
  <2> QED
    BY <1>1, <2>2, <2>3
<1> HIDE DEF q
<1>6. Places(w, q, S, Y, T)
  BY <1>5 DEF Places
<1> QED
  BY <1>1, <1>2, <1>3, <1>4, <1>6 DEF Laid, w

\* The parts of a place.
LEMMA AtIs ==
  \A k, c, b : At(k, c, b).k = k /\ At(k, c, b).c = c /\ At(k, c, b).b = b
  BY DEF At

LEMMA HeldIs == \A x : Held(x) \in {0, 1}
  BY DEF Held

\* What a step leaves of the first k scopes, and of what calls in them know of symbols.
Spared(k, S, Y, T, P, Z, U) ==
  /\ T \in Nat /\ U \in Nat /\ T <= U /\ Len(Y) \in Nat /\ Len(Z) \in Nat /\ Len(Y) <= Len(Z)
  /\ Grown(Y, Z) /\ SizesStand(Y, Z)
  /\ \A i \in 1 .. k : P[i] = S[i] /\ S[i] \in 1 .. T
  /\ \A t \in 1 .. T : t \in Structs(Z) => t \in Structs(Y)
  /\ \A s \in Tags(Y) : Y[s].symtable # 0 => Z[s].symtable = Y[s].symtable
  /\ \A s \in Tags(Y) : \A i \in 1 .. k : Y[s].symtable = S[i] /\ ~ Y[s].complete => ~ Z[s].complete

\* Functions stay apart from structs,
LEMMA FreeStays ==
  ASSUME NEW k, NEW S, NEW Y, NEW T, NEW P, NEW Z, NEW U, Spared(k, S, Y, T, P, Z, U),
         NEW t, Free(t, Y, T)
  PROVE  Free(t, Z, U)
<1>1. \A s \in (1 .. T) \ Structs(Y) : s \in (1 .. U) \ Structs(Z)
  BY DEF Spared
<1> QED
  BY <1>1 DEF Free

\* a place stays one,
LEMMA PlaceStays ==
  ASSUME NEW k \in Nat, NEW S, NEW Y, NEW T, NEW P, NEW Z, NEW U, Spared(k, S, Y, T, P, Z, U),
         NEW e, Placed(e, S, Y), e.k <= k
  PROVE  Placed(e, P, Z) /\ P[e.k] = S[e.k] /\ (S[e.k] \in Structs(Z) => S[e.k] \in Structs(Y))
<1>1. e.k \in 1 .. k
  BY DEF Placed
<1>2. P[e.k] = S[e.k] /\ (S[e.k] \in Structs(Z) => S[e.k] \in Structs(Y))
  BY <1>1 DEF Spared
<1>3. e.b \in 0 .. Len(Z)
  BY DEF Spared, Placed
<1> QED
  BY <1>2, <1>3 DEF Placed

\* and a call may stand where it did.
LEMMA SuitsStays ==
  ASSUME NEW k \in Nat, NEW S, NEW Y, NEW T, NEW P, NEW Z, NEW U, Spared(k, S, Y, T, P, Z, U),
         NEW e, e.k <= k, NEW x, IsItem(x, Y, T), Suits(x, e, S, Y, T)
  PROVE  Suits(x, e, P, Z, U)
<1>1. Placed(e, S, Y) /\ e.k \in 1 .. k
  BY DEF Suits, Placed
<1>2. Placed(e, P, Z) /\ P[e.k] = S[e.k] /\ (S[e.k] \in Structs(Z) => S[e.k] \in Structs(Y))
  BY <1>1, PlaceStays
<1>3. ASSUME x.do = "field" PROVE P[e.k] = Z[x.tag].symtable /\ ~ Z[x.tag].complete
  <2>1. S[e.k] = Y[x.tag].symtable /\ ~ Y[x.tag].complete
    BY <1>3 DEF Suits
  <2>2. x.tag \in Tags(Y) /\ Y[x.tag].symtable # 0
    BY <1>3 DEF IsItem, Inside
  <2> QED
    BY <1>1, <1>2, <2>1, <2>2 DEF Spared
<1>4. ASSUME x.do \in {"suffix", "linked"} PROVE Free(x.inner, Z, U)
  BY <1>4, FreeStays DEF Suits
<1>5. ASSUME x.do = "variable" PROVE Ready(x.symbol, e, Z, U)
  <2>1. Ready(x.symbol, e, Y, T)
    BY <1>5 DEF Suits
  <2>2. Sized(x.symbol.type, x.symbol.size, Z)
    <3>1. SizesStand(Y, Z)
      BY DEF Spared
    <3> QED
      BY <2>1, <3>1, SizedStays DEF Ready
  <2>3. IsParts(x.symbol.type, Z, U)
    <3>1. Grown(Y, Z) /\ T \in Nat /\ U \in Nat /\ T <= U
      BY DEF Spared
    <3> QED
      BY <2>1, <3>1, PartsGrow DEF Ready
  <2> QED
    BY <2>1, <2>2, <2>3 DEF Ready
<1> QED
  BY <1>2, <1>3, <1>4, <1>5 DEF Suits

\* All calls do.
LEMMA LaidStays ==
  ASSUME NEW k \in Nat, NEW S, NEW Y, NEW T, NEW P, NEW Z, NEW U, Spared(k, S, Y, T, P, Z, U),
         NEW s, NEW e, e.k <= k, e.k \in Nat, Laid(s, e, S, Y, T), \A n \in 1 .. Len(s) : IsItem(s[n], Y, T)
  PROVE  Laid(s, e, P, Z, U)
<1>1. IsSeq(s) /\ Len(s) \in Nat
  BY DEF Laid, IsSeq
<1>2. PICK p : p[1] = e /\ p[Len(s) + 1].b = 0 /\ Places(s, p, S, Y, T)
  BY DEF Laid
<1> DEFINE N == {n \in Nat : n + 1 <= Len(s) + 1 => p[n + 1].k <= k /\ p[n + 1].k \in Int}
<1>3. 0 \in N
  BY <1>2
<1>4. ASSUME NEW n \in Nat, n \in N PROVE n + 1 \in N
  <2> SUFFICES ASSUME n + 2 <= Len(s) + 1 PROVE p[n + 2].k <= k /\ p[n + 2].k \in Int
    OBVIOUS
  <2>1. n + 1 \in 1 .. Len(s)
    BY <1>1
  <2>2. p[n + 1].k <= k /\ p[n + 1].k \in Int
    BY <1>4, <2>1
  <2>3. p[n + 1 + 1] = Below(s[n + 1], p[n + 1])
    BY <1>2, <2>1 DEF Places
  <2>4. p[n + 1 + 1].k = p[n + 1].k - Held(s[n + 1])
    BY <2>3, AtIs DEF Below
  <2>5. n + 1 + 1 = n + 2
    OBVIOUS
  <2> QED
    BY <2>2, <2>4, <2>5, HeldIs
<1>5. \A n \in 1 .. Len(s) : p[n].k <= k
  <2> SUFFICES ASSUME NEW n \in 1 .. Len(s) PROVE p[n].k <= k
    OBVIOUS
  <2>1. n - 1 \in Nat /\ n - 1 + 1 = n /\ n <= Len(s) + 1
    BY <1>1
  <2>2. n - 1 \in N
    <3> HIDE DEF N
    <3> QED
      BY <1>3, <1>4, <2>1, EveryNumber
  <2> QED
    BY <2>1, <2>2
<1>6. ASSUME NEW n \in 1 .. Len(s) PROVE Suits(s[n], p[n], P, Z, U)
  <2>1. Suits(s[n], p[n], S, Y, T)
    BY <1>2 DEF Places
  <2> QED
    BY <1>5, <2>1, SuitsStays
<1>7. Places(s, p, P, Z, U)
  BY <1>2, <1>6 DEF Places
<1> QED
  BY <1>1, <1>2, <1>7 DEF Laid

\* A body begins where declarations are not local: those below it may be taken to stand where
\* declarations are global, as they will be when the body has ended.
LEMMA LaidGlobal ==
  ASSUME NEW s, NEW e, NEW S, NEW Y, NEW T, Laid(s, e, S, Y, T), e.c # Local, NEW g, g = At(e.k, Global, e.b)
  PROVE  Laid(s, g, S, Y, T)
<1> DEFINE Turns(x) == x.do \in {"field", "end_of_body"} \cup InParameters
<1>1. IsSeq(s) /\ Len(s) \in Nat
  BY DEF Laid, IsSeq
<1>2. PICK p : p[1] = e /\ p[Len(s) + 1].b = 0 /\ Places(s, p, S, Y, T)
  BY DEF Laid
<1> DEFINE Before(n) == \A m \in 1 .. n - 1 : ~ Turns(s[m])
           q == [n \in Nat |-> IF Before(n) THEN At(p[n].k, Global, p[n].b) ELSE p[n]]
           N == {n \in Nat : n + 1 <= Len(s) + 1 /\ Before(n + 1) => p[n + 1].c = e.c}
<1>3. 0 \in N
  BY <1>2
<1>4. ASSUME NEW n \in Nat, n \in N PROVE n + 1 \in N
  <2> SUFFICES ASSUME n + 2 <= Len(s) + 1, Before(n + 2) PROVE p[n + 2].c = e.c
    OBVIOUS
  <2>1. n + 1 \in 1 .. Len(s) /\ n + 1 \in 1 .. n + 2 - 1 /\ n + 1 <= Len(s) + 1
        /\ \A m \in 1 .. n + 1 - 1 : m \in 1 .. n + 2 - 1
    BY <1>1
  <2>2. p[n + 1].c = e.c /\ ~ Turns(s[n + 1])
    BY <1>4, <2>1
  <2>3. p[n + 1 + 1] = Below(s[n + 1], p[n + 1])
    BY <1>2, <2>1 DEF Places
  <2>4. p[n + 1 + 1].c = p[n + 1].c
    BY <2>2, <2>3, AtIs DEF Below
  <2>5. n + 1 + 1 = n + 2
    OBVIOUS
  <2> QED
    BY <2>2, <2>4, <2>5
<1>5. ASSUME NEW n \in 1 .. Len(s), Before(n) PROVE p[n].c = e.c
  <2>1. n - 1 \in Nat /\ n - 1 + 1 = n /\ n <= Len(s) + 1
    BY <1>1
  <2>2. n - 1 \in N
    <3> HIDE DEF N
    <3> QED
      BY <1>3, <1>4, <2>1, EveryNumber
  <2> QED
    BY <1>5, <2>1, <2>2
<1>6. q[1] = g
  BY <1>2
<1>7. q[Len(s) + 1].b = 0
  <2>1. Len(s) + 1 \in Nat
    BY <1>1
  <2> QED
    BY <1>2, <2>1, AtIs
<1>8. ASSUME NEW n \in 1 .. Len(s)
      PROVE  q[n + 1] = Below(s[n], q[n]) /\ Suits(s[n], q[n], S, Y, T)
  <2>1. n \in Nat /\ n + 1 \in Nat
    OBVIOUS
  <2>2. p[n + 1] = Below(s[n], p[n]) /\ Suits(s[n], p[n], S, Y, T)
    BY <1>2 DEF Places
  <2>3. CASE ~ Before(n)
    <3>1. ~ Before(n + 1)
      BY <2>3
    <3>2. q[n] = p[n] /\ q[n + 1] = p[n + 1]
      BY <2>1, <2>3, <3>1
    <3> QED
      BY <2>2, <3>2
  <2>4. CASE Before(n)
    <3>1. p[n].c = e.c /\ q[n] = At(p[n].k, Global, p[n].b)
      BY <1>5, <2>1, <2>4
    <3>2. Before(n + 1) <=> ~ Turns(s[n])
      <4>1. \A m \in 1 .. n + 1 - 1 : m \in 1 .. n - 1 \/ m = n
        OBVIOUS
      <4>2. n \in 1 .. n + 1 - 1
        OBVIOUS
      <4> QED
        BY <2>4, <4>1, <4>2
    <3>3. q[n + 1] = IF Turns(s[n]) THEN p[n + 1] ELSE At(p[n + 1].k, Global, p[n + 1].b)
      BY <2>1, <3>2
    <3> HIDE DEF q, Before
    <3>4. Below(s[n], q[n]) = IF Turns(s[n]) THEN p[n + 1] ELSE At(p[n + 1].k, Global, p[n + 1].b)
      <4>1. CASE Turns(s[n])
        BY <2>2, <3>1, <4>1, AtIs DEF Below
      <4>2. CASE ~ Turns(s[n])
        BY <2>2, <3>1, <4>2, AtIs DEF Below
      <4> QED
        BY <4>1, <4>2
    <3>5. Suits(s[n], q[n], S, Y, T)
      <4>1. q[n].k = p[n].k /\ q[n].b = p[n].b /\ q[n].c = Global
        BY <3>1, AtIs
      <4>2. Global # Local /\ Global # "DT_PARAMETER"
        BY DEF Global, Local
      <4>3. Placed(q[n], S, Y)
        BY <2>2, <3>1, <4>1, <4>2 DEF Suits, Placed
      <4>4. s[n].do = "variable" => Ready(s[n].symbol, q[n], Y, T)
        BY <2>2, <3>1, <4>1 DEF Suits, Ready
      <4> QED
        BY <2>2, <4>1, <4>2, <4>3, <4>4 DEF Suits
    <3> QED
      BY <3>3, <3>4, <3>5
  <2> QED
    BY <2>3, <2>4
<1> HIDE DEF q
<1>9. Places(s, q, S, Y, T)
  BY <1>8 DEF Places
<1> QED
  BY <1>1, <1>6, <1>7, <1>9 DEF Laid

----------------------------------------------------------------------------
(* The function of a place *)

\* Whose body a chain of calls stands in is that of the first call that ends one.
LEMMA InnermostBody ==
  ASSUME IsSeq(stack), NEW q, q[Len(stack) + 1] = 0,
         \A n \in 1 .. Len(stack) :
           IF stack[n].do = "end_of_body" THEN q[n + 1] = 0 /\ q[n] = stack[n].function
           ELSE q[n + 1] = q[n]
  PROVE  Function = q[1]
<1> DEFINE D == {i \in DOMAIN stack : stack[i].do = "end_of_body"}
<1>1. DOMAIN stack = 1 .. Len(stack) /\ Len(stack) \in Nat
  BY DEF IsSeq
<1>2. PICK m : m = IF D = {} THEN Len(stack) + 1 ELSE Min(D)
  OBVIOUS
<1>3. m \in 1 .. Len(stack) + 1 /\ \A n \in 1 .. m - 1 : n \in 1 .. Len(stack) /\ stack[n].do # "end_of_body"
  <2>1. CASE D = {}
    BY <1>1, <1>2, <2>1
  <2>2. CASE D # {}
    <3>1. D \in SUBSET Nat
      BY <1>1
    <3> HIDE DEF D
    <3>2. m \in D /\ \A k \in D : m <= k
      BY <1>2, <2>2, <3>1, MinIsLeast
    <3> USE DEF D
    <3>3. m \in 1 .. Len(stack)
      BY <1>1, <3>2
    <3>4. ASSUME NEW n \in 1 .. m - 1 PROVE n \in 1 .. Len(stack) /\ n \notin D
      <4> HIDE DEF D
      <4> QED
        BY <1>1, <3>2, <3>3
    <3> QED
      BY <1>1, <3>3, <3>4
  <2> QED
    BY <2>1, <2>2
<1> DEFINE N == {n \in Nat : n + 1 <= m => q[n + 1] = q[1]}
<1>4. 0 \in N
  OBVIOUS
<1>5. ASSUME NEW n \in Nat, n \in N PROVE n + 1 \in N
  <2> SUFFICES ASSUME n + 2 <= m PROVE q[n + 2] = q[1]
    OBVIOUS
  <2>1. n + 1 \in 1 .. m - 1 /\ n + 1 <= m /\ n + 1 + 1 = n + 2
    BY <1>3
  <2>2. q[n + 1 + 1] = q[n + 1]
    BY <1>3, <2>1
  <2> QED
    BY <1>5, <2>1, <2>2
<1>6. q[m] = q[1]
  <2>1. m - 1 \in Nat /\ m - 1 + 1 = m
    BY <1>3
  <2>2. m - 1 \in N
    <3> HIDE DEF N
    <3> QED
      BY <1>4, <1>5, <2>1, EveryNumber
  <2> QED
    BY <2>1, <2>2
<1>7. CASE D = {}
  <2>1. Function = 0
    BY <1>7 DEF Function
  <2> QED
    BY <1>2, <1>6, <1>7, <2>1
<1>8. CASE D # {}
  <2>1. Function = stack[Min(D)].function
    BY <1>8 DEF Function
  <2>2. m \in D
    <3>1. D \in SUBSET Nat
      BY <1>1
    <3> HIDE DEF D
    <3> QED
      BY <1>2, <1>8, <3>1, MinIsLeast
  <2>3. q[m] = stack[m].function
    BY <1>1, <2>2
  <2> HIDE DEF D
  <2> QED
    BY <1>2, <1>6, <1>8, <2>1, <2>3
<1> QED
  BY <1>7, <1>8

\* It is that of the place of the call at the head,
LEMMA FunctionHere ==
  ASSUME NEW e, NEW S, NEW Y, NEW T, Laid(stack, e, S, Y, T)
  PROVE  Function = e.b
<1>1. IsSeq(stack) /\ Len(stack) \in Nat
  BY DEF Laid, IsSeq
<1>2. PICK p : p[1] = e /\ p[Len(stack) + 1].b = 0 /\ Places(stack, p, S, Y, T)
  BY DEF Laid
<1> DEFINE q == [n \in Nat |-> p[n].b]
<1>3. q[1] = e.b /\ q[Len(stack) + 1] = 0
  BY <1>1, <1>2
<1>4. ASSUME NEW n \in 1 .. Len(stack)
      PROVE  IF stack[n].do = "end_of_body" THEN q[n + 1] = 0 /\ q[n] = stack[n].function
             ELSE q[n + 1] = q[n]
  <2>1. p[n + 1] = Below(stack[n], p[n]) /\ Suits(stack[n], p[n], S, Y, T)
    BY <1>2 DEF Places
  <2>2. p[n + 1].b = IF stack[n].do = "end_of_body" THEN 0 ELSE p[n].b
    BY <2>1, AtIs DEF Below
  <2>3. stack[n].do = "end_of_body" => p[n].b = stack[n].function
    BY <2>1 DEF Suits
  <2>4. q[n] = p[n].b /\ q[n + 1] = p[n + 1].b
    BY <1>1
  <2> QED
    BY <2>2, <2>3, <2>4
<1> HIDE DEF q
<1> QED
  BY <1>1, <1>3, <1>4, InnermostBody

\* and that of the place below, unless the call at the head ends a body.
LEMMA FunctionBelow ==
  ASSUME stack # << >>, IsSeq(stack), todo.do # "end_of_body",
         NEW e, NEW S, NEW Y, NEW T, Laid(Tail(stack), e, S, Y, T)
  PROVE  Function = e.b
<1> DEFINE R == {stack[n] : n \in 1 .. Len(stack)}
           t == Tail(stack)
<1>1. stack \in Seq(R) /\ Len(stack) \in Nat \ {0}
  <2>1. stack \in Seq(R)
    BY DEF IsSeq
  <2> HIDE DEF R
  <2> QED
    BY <2>1
<1> HIDE DEF R
<1>2. Len(t) = Len(stack) - 1 /\ todo = stack[1] /\ \A n \in 1 .. Len(t) : t[n] = stack[n + 1]
  BY <1>1 DEF todo
<1> HIDE DEF t
<1>3. PICK p : p[1] = e /\ p[Len(t) + 1].b = 0 /\ Places(t, p, S, Y, T)
  BY DEF Laid, t
<1> DEFINE q == [n \in Nat |-> IF n <= 1 THEN e.b ELSE p[n - 1].b]
<1>4. q[1] = e.b /\ q[2] = e.b
  BY <1>3
<1>5. q[Len(stack) + 1] = 0
  <2>1. PICK m : m = Len(stack) + 1
    OBVIOUS
  <2>2. m \in Nat /\ ~ (m <= 1) /\ m - 1 = Len(t) + 1
    BY <1>1, <1>2, <2>1
  <2>3. q[m] = p[m - 1].b
    BY <2>2
  <2> HIDE DEF q
  <2> QED
    BY <1>3, <2>1, <2>2, <2>3
<1>6. ASSUME NEW n \in 1 .. Len(stack)
      PROVE  IF stack[n].do = "end_of_body" THEN q[n + 1] = 0 /\ q[n] = stack[n].function
             ELSE q[n + 1] = q[n]
  <2>1. CASE n = 1
    <3> HIDE DEF q
    <3> QED
      BY <1>2, <1>4, <2>1
  <2>2. CASE n > 1
    <3>1. n - 1 \in 1 .. Len(t) /\ n - 1 + 1 = n /\ n \in Nat /\ n + 1 \in Nat /\ n + 1 - 1 = n - 1 + 1
      BY <1>1, <1>2, <2>2
    <3>2. p[n - 1 + 1] = Below(t[n - 1], p[n - 1]) /\ Suits(t[n - 1], p[n - 1], S, Y, T) /\ t[n - 1] = stack[n]
      BY <1>2, <1>3, <3>1 DEF Places
    <3>3. p[n - 1 + 1].b = IF stack[n].do = "end_of_body" THEN 0 ELSE p[n - 1].b
      BY <3>2, AtIs DEF Below
    <3>4. stack[n].do = "end_of_body" => p[n - 1].b = stack[n].function
      BY <3>2 DEF Suits
    <3>5. q[n] = p[n - 1].b /\ q[n + 1] = p[n - 1 + 1].b
      BY <2>2, <3>1
    <3> QED
      BY <3>3, <3>4, <3>5
  <2> QED
    BY <2>1, <2>2
<1> HIDE DEF q
<1> QED
  BY <1>4, <1>5, <1>6, InnermostBody

----------------------------------------------------------------------------
(* What has been written down of symbols *)

\* The size of what has one is that of its type.
TypesSized(Y) == \A s \in DOMAIN Y : Y[s].kind \in Measured => Sized(Y[s].type, Y[s].size, Y)

\* No symbol is in two places.
EntriesDiffer(B) ==
  \A t, u \in DOMAIN B : \A i \in DOMAIN B[t] : \A j \in DOMAIN B[u] :
    B[t][i].sym = B[u][j].sym => t = u /\ i = j

\* No scope belongs to two structs.
TagsApart(Y) ==
  \A s, u \in Tags(Y) : Y[s].symtable # 0 /\ Y[s].symtable = Y[u].symtable => s = u

\* In the scope of a struct there are no locals and no parameters; until it is complete, nothing
\* has been moved.
TagsHold(B, Y) ==
  \A s \in Tags(Y) : Y[s].symtable # 0 =>
    /\ Y[s].kind # "enum"
    /\ \A i \in DOMAIN B[Y[s].symtable] :
         /\ Y[B[Y[s].symtable][i].sym].kind \notin {"variable", "parameter"}
         /\ ~ Y[s].complete => Y[B[Y[s].symtable][i].sym].offset = 0

\* It has no size, either.
TagsOpen(Y) == \A s \in Tags(Y) : ~ Y[s].complete => Y[s].size = 0

\* The fields in the table have been laid out in the struct or union s.
Filled(s, table, Y) ==
  LET F == FieldsOf(table, Y)
      size(i) == Y[table[i].sym].size
      offset(i) == Y[table[i].sym].offset
  IN IF Y[s].kind = "struct"
     THEN /\ \E f : Sums(Y, f, table, SUBSET F) /\ Y[s].size = f[F]
          /\ \A i \in F : offset(i) \in Nat /\ offset(i) + size(i) <= Y[s].size
          /\ \A i, j \in F : i < j => offset(i) + size(i) <= offset(j)
     ELSE /\ Y[s].size = Max({0} \cup {size(i) : i \in F})
          /\ \A i \in F : offset(i) = 0 /\ size(i) <= Y[s].size

\* That of one that is complete is closed.
TagsClosed(S, B, Y) ==
  \A s \in DOMAIN Y : Y[s].complete =>
    /\ s \in Tags(Y) /\ Y[s].symtable # 0 /\ \A i \in 1 .. Len(S) : S[i] # Y[s].symtable
    /\ Filled(s, B[Y[s].symtable], Y)

\* Functions are those there are, and have frames.
Numbered(Y) == \A s \in DOMAIN Y : Y[s].function \in 0 .. Len(Y) /\ Y[s].locals_size \in Nat

\* All of it, for the scopes S, the tables B and the symbols Y.
Tidy(S, B, Y) ==
  /\ TypesSized(Y) /\ EntriesDiffer(B) /\ TagsApart(Y) /\ TagsHold(B, Y) /\ TagsOpen(Y)
  /\ TagsClosed(S, B, Y) /\ Numbered(Y)

\* The locals of f, if Y are the symbols.
LocalsOf(f, Y) == {s \in DOMAIN Y : Y[s].kind = "variable" /\ Y[s].function = f}

\* z bytes are taken in the frame of the function b, whose body is not done; each local lies in
\* the frame of its function, above or below every other.
Framed(b, z, Y) ==
  \A f \in 1 .. Len(Y) : \A v \in LocalsOf(f, Y) :
    /\ Y[v].offset \in Int /\ Y[v].offset <= 0
    /\ - (IF f = b THEN z ELSE Y[f].locals_size) <= Y[v].offset - Y[v].size
    /\ \A w \in LocalsOf(f, Y) \ {v} :
         \/ Y[v].offset <= Y[w].offset - Y[w].size
         \/ Y[w].offset <= Y[v].offset - Y[v].size

\* The place of the call at the head, in the body of b.
Where(b) == At(Len(symtables), cur_decl_type, b)

\* A function's body comes next, if it has one: nothing is in it yet.
BodyAt(b) ==
  /\ stack # << >> /\ todo.do = "body"
  /\ Laid(Tail(stack), Where(b), symtables, symbols, Len(tables))
  /\ symbols[todo.function].symtable \notin Structs(symbols)
  /\ \A s \in DOMAIN symbols : symbols[s].function # todo.function

\* The inductive invariant.
LayInv ==
  Whole =>
    /\ Free(ret.type, symbols, Len(tables)) /\ Tidy(symtables, tables, symbols)
    /\ \E b : /\ Framed(b, function_locals_size, symbols)
              /\ \/ Laid(stack, Where(b), symtables, symbols, Len(tables))
                 \/ BodyAt(b)

----------------------------------------------------------------------------
(* What follows from it *)

\* The function of the body that is being parsed.
LEMMA FunctionIs ==
  ASSUME TypesInv, NEW b,
         Laid(stack, Where(b), symtables, symbols, Len(tables)) \/ BodyAt(b)
  PROVE  Function = b
<1>1. IsSeq(stack) /\ Where(b).b = b
  BY AtIs DEF TypesInv, Manned, Staffed, Where
<1>2. CASE Laid(stack, Where(b), symtables, symbols, Len(tables))
  BY <1>1, <1>2, FunctionHere
<1>3. CASE BodyAt(b)
  BY <1>1, <1>3, FunctionBelow DEF BodyAt
<1> QED
  BY <1>2, <1>3

\* The sizes of symbols are numbers, and those of objects are known.
LEMMA SizesKnown ==
  ASSUME TypesInv, TypesSized(symbols), NEW s \in DOMAIN symbols
  PROVE  /\ symbols[s].size \in Nat
         /\ symbols[s].kind \in Measured => Bytes(symbols[s].type) = symbols[s].size
<1>1. symbols[s].size \in Nat
  BY DEF TypesInv, Steady, SymbolsOK, IsSeq, IsSymbol
<1>2. ASSUME symbols[s].kind \in Measured PROVE Bytes(symbols[s].type) = symbols[s].size
  <2>1. Sized(symbols[s].type, symbols[s].size, symbols)
    BY <1>2 DEF TypesSized
  <2> QED
    BY <2>1, KnownIsBytes
<1> QED
  BY <1>1, <1>2

\* The bytes of what has its first at o, and of what ends at o.
From(o, z)  == o .. o + z - 1
UpTo(o, z) == o - z .. o - z + z - 1

\* Those of two objects, one below the other.
LEMMA WithinFrame ==
  ASSUME NEW o \in Int, NEW z \in Int, NEW b \in Int, o <= 0, - b <= o - z
  PROVE  UpTo(o, z) \subseteq (- b) .. -1
  BY DEF UpTo

LEMMA WithinStruct ==
  ASSUME NEW o \in Int, NEW z \in Int, NEW b \in Int, 0 <= o, o + z <= b
  PROVE  From(o, z) \subseteq 0 .. b - 1
  BY DEF From

LEMMA LocalsApart ==
  ASSUME NEW o \in Int, NEW z \in Int, NEW p \in Int, NEW y \in Int, o <= p - y
  PROVE  UpTo(o, z) \cap UpTo(p, y) = {}
  BY DEF UpTo

LEMMA FieldsApart ==
  ASSUME NEW o \in Int, NEW z \in Int, NEW p \in Int, NEW y \in Int, o + z <= p
  PROVE  From(o, z) \cap From(p, y) = {}
  BY DEF From

\* The properties of Layout, of which the invariant is the reason.
LEMMA LocalsFollow ==
  ASSUME TypesInv, LayInv
  PROVE  LocalsHaveTheirPlaces
<1> SUFFICES ASSUME Whole PROVE LocalsHaveTheirPlaces
  BY DEF LocalsHaveTheirPlaces
<1>1. PICK b : /\ Framed(b, function_locals_size, symbols)
               /\ Laid(stack, Where(b), symtables, symbols, Len(tables)) \/ BodyAt(b)
  BY DEF LayInv
<1>2. Function = b
  BY <1>1, FunctionIs
<1>3. /\ TypesSized(symbols) /\ DOMAIN symbols = 1 .. Len(symbols) /\ function_locals_size \in Int
      /\ \A s \in 1 .. Len(symbols) : symbols[s].locals_size \in Int
  <2>1. TypesSized(symbols)
    BY DEF LayInv, Tidy
  <2>2. \A s \in 1 .. Len(symbols) : symbols[s].locals_size \in Int
    BY DEF LayInv, Tidy, Numbered
  <2> QED
    BY <2>1, <2>2 DEF TypesInv, Steady, SymbolsOK, IsSeq
<1> SUFFICES ASSUME NEW f \in Functions, NEW v \in Locals(f)
             PROVE  /\ LET frame == IF f = Function THEN function_locals_size ELSE symbols[f].locals_size
                       IN Place(v) \subseteq (- frame) .. -1
                    /\ \A w \in Locals(f) \ {v} : Place(v) \cap Place(w) = {}
  BY DEF LocalsHaveTheirPlaces
<1>4. f \in 1 .. Len(symbols) /\ Locals(f) = LocalsOf(f, symbols)
  BY <1>3 DEF Functions, Locals, LocalsOf
<1>5. \A w \in Locals(f) :
        /\ symbols[w].offset \in Int /\ symbols[w].offset <= 0
        /\ symbols[w].size \in Nat /\ Bytes(symbols[w].type) = symbols[w].size
  BY <1>1, <1>3, <1>4, SizesKnown DEF Framed, Locals, Measured
<1>6. \A w \in Locals(f) :
        Place(w) = UpTo(symbols[w].offset, symbols[w].size)
  BY <1>5 DEF Place, UpTo
<1>7. PICK frame \in Int : frame = IF f = b THEN function_locals_size ELSE symbols[f].locals_size
  BY <1>3, <1>4
<1>8. - frame <= symbols[v].offset - symbols[v].size
  BY <1>1, <1>4, <1>7 DEF Framed
<1>9. Place(v) \subseteq (- frame) .. -1
  <2>1. symbols[v].offset \in Int /\ symbols[v].offset <= 0 /\ symbols[v].size \in Int
    BY <1>5
  <2> QED
    BY <1>6, <1>8, <2>1, WithinFrame
<1>10. ASSUME NEW w \in Locals(f) \ {v} PROVE Place(v) \cap Place(w) = {}
  <2>1. \/ symbols[v].offset <= symbols[w].offset - symbols[w].size
        \/ symbols[w].offset <= symbols[v].offset - symbols[v].size
    BY <1>1, <1>4 DEF Framed
  <2>2. symbols[v].offset \in Int /\ symbols[w].offset \in Int /\ symbols[v].size \in Int /\ symbols[w].size \in Int
    BY <1>5
  <2>3. symbols[v].offset <= symbols[w].offset - symbols[w].size => Place(v) \cap Place(w) = {}
    BY <1>6, <2>2, LocalsApart
  <2>4. symbols[w].offset <= symbols[v].offset - symbols[v].size => Place(w) \cap Place(v) = {}
    BY <1>6, <2>2, LocalsApart
  <2> QED
    BY <2>1, <2>3, <2>4
<1> QED
  BY <1>2, <1>7, <1>9, <1>10

\* What is asked of the fields of s.
Separate(s, fields) ==
  /\ \A v \in fields : FieldPlace(v) \subseteq 0 .. symbols[s].size - 1
  /\ \A v, w \in fields :
       v # w => IF symbols[s].kind = "union" THEN symbols[v].offset = symbols[w].offset
                ELSE FieldPlace(v) \cap FieldPlace(w) = {}

LEMMA FieldsFollow ==
  ASSUME TypesInv, LayInv
  PROVE  FieldsHaveTheirPlaces
<1> SUFFICES ASSUME Whole PROVE FieldsHaveTheirPlaces
  BY DEF FieldsHaveTheirPlaces
<1>1. /\ TypesSized(symbols) /\ TagsHold(tables, symbols) /\ TagsClosed(symtables, tables, symbols)
  BY DEF LayInv, Tidy
<1> SUFFICES ASSUME NEW s \in DOMAIN symbols, symbols[s].complete,
                    NEW table, table = tables[symbols[s].symtable],
                    NEW fields, fields = {table[i].sym : i \in Fields(table)}
             PROVE  Separate(s, fields)
  <2>1. \A s \in DOMAIN symbols : symbols[s].complete =>
          Separate(s, {tables[symbols[s].symtable][i].sym : i \in Fields(tables[symbols[s].symtable])})
    <3> SUFFICES ASSUME NEW s \in DOMAIN symbols, symbols[s].complete
                 PROVE  Separate(s, {tables[symbols[s].symtable][i].sym : i \in Fields(tables[symbols[s].symtable])})
      OBVIOUS
    <3>1. PICK table : table = tables[symbols[s].symtable]
      OBVIOUS
    <3>2. PICK fields : fields = {table[i].sym : i \in Fields(table)}
      OBVIOUS
    <3> QED
      BY <3>1, <3>2
  <2> QED
    BY <2>1, Zenon DEF FieldsHaveTheirPlaces, Separate
<1>2. /\ s \in Tags(symbols) /\ symbols[s].symtable # 0 /\ symbols[s].kind # "enum"
      /\ symbols[s].symtable \in 1 .. Len(tables) /\ symbols[s].size \in Nat
      /\ Filled(s, table, symbols)
  <2>1. s \in 1 .. Len(symbols) /\ Len(tables) \in Nat
    BY DEF TypesInv, Steady, SymbolsOK, TablesOK, IsSeq
  <2>2. s \in Tags(symbols) /\ symbols[s].symtable # 0 /\ Filled(s, table, symbols)
    BY <1>1 DEF TagsClosed
  <2>3. symbols[s].kind # "enum"
    BY <1>1, <2>2 DEF TagsHold
  <2>4. IsSymbol(symbols[s], symbols, Len(tables))
    BY <2>1 DEF TypesInv, Steady, SymbolsOK
  <2> QED
    BY <2>1, <2>2, <2>3, <2>4 DEF IsSymbol
<1>3. ASSUME NEW i \in Fields(table)
      PROVE  /\ table[i].sym \in DOMAIN symbols /\ symbols[table[i].sym].kind \in Measured
             /\ symbols[table[i].sym].size \in Nat /\ i \in Nat
             /\ Bytes(symbols[table[i].sym].type) = symbols[table[i].sym].size
  <2>1. IsSeq(table) /\ \A n \in 1 .. Len(table) : IsEntry(table[n], symbols)
    BY <1>2 DEF TypesInv, Steady, TablesOK
  <2>2. i \in 1 .. Len(table) /\ i \in DOMAIN table /\ symbols[table[i].sym].kind \in VarKinds
    BY <2>1 DEF Fields, IsSeq
  <2>3. table[i].sym \in DOMAIN symbols
    BY <2>1, <2>2 DEF IsEntry
  <2>4. symbols[table[i].sym].kind \notin {"variable", "parameter"}
    BY <1>1, <1>2, <2>2 DEF TagsHold
  <2>5. symbols[table[i].sym].kind \in Measured
    BY <2>2, <2>4 DEF VarKinds, Measured
  <2> QED
    BY <1>1, <2>2, <2>3, <2>5, SizesKnown
<1>4. Fields(table) = FieldsOf(table, symbols)
  BY DEF Fields, FieldsOf
<1>5. \A i \in Fields(table) :
        FieldPlace(table[i].sym) = From(symbols[table[i].sym].offset, symbols[table[i].sym].size)
  BY <1>3 DEF FieldPlace, From
<1>6. CASE symbols[s].kind = "struct"
  <2>1. ASSUME NEW i \in Fields(table)
        PROVE  /\ symbols[table[i].sym].offset \in Nat
               /\ symbols[table[i].sym].offset + symbols[table[i].sym].size <= symbols[s].size
    BY <1>2, <1>4, <1>6 DEF Filled
  <2>2. ASSUME NEW i \in Fields(table), NEW j \in Fields(table), i < j
        PROVE  symbols[table[i].sym].offset + symbols[table[i].sym].size <= symbols[table[j].sym].offset
    BY <1>2, <1>4, <1>6, <2>2 DEF Filled
  <2>3. ASSUME NEW i \in Fields(table) PROVE FieldPlace(table[i].sym) \subseteq 0 .. symbols[s].size - 1
    <3>1. /\ symbols[table[i].sym].offset \in Int /\ 0 <= symbols[table[i].sym].offset
          /\ symbols[table[i].sym].size \in Int /\ symbols[s].size \in Int
      BY <1>2, <1>3, <2>1
    <3>2. PICK o, z, b : o = symbols[table[i].sym].offset /\ z = symbols[table[i].sym].size /\ b = symbols[s].size
      OBVIOUS
    <3>3. From(o, z) \subseteq 0 .. b - 1
      BY <2>1, <3>1, <3>2, WithinStruct
    <3> QED
      BY <1>5, <3>2, <3>3
  <2>4. ASSUME NEW i \in Fields(table), NEW j \in Fields(table), i < j
        PROVE  FieldPlace(table[i].sym) \cap FieldPlace(table[j].sym) = {}
    <3>1. /\ symbols[table[i].sym].offset \in Int /\ symbols[table[j].sym].offset \in Int
          /\ symbols[table[i].sym].size \in Int /\ symbols[table[j].sym].size \in Int
      BY <1>3, <2>1
    <3> QED
      BY <1>5, <2>2, <2>4, <3>1, FieldsApart
  <2>5. ASSUME NEW i \in Fields(table), NEW j \in Fields(table), table[i].sym # table[j].sym
        PROVE  FieldPlace(table[i].sym) \cap FieldPlace(table[j].sym) = {}
    <3>1. i \in Nat /\ j \in Nat /\ i # j
      BY <1>3, <2>5
    <3>2. i < j \/ j < i
      BY <3>1
    <3> QED
      BY <2>4, <3>2
  <2> QED
    BY <1>6, <2>3, <2>5 DEF Separate
<1>7. CASE symbols[s].kind = "union"
  <2>1. ASSUME NEW i \in Fields(table)
        PROVE  symbols[table[i].sym].offset = 0 /\ symbols[table[i].sym].size <= symbols[s].size
    BY <1>2, <1>4, <1>7 DEF Filled
  <2>2. ASSUME NEW i \in Fields(table) PROVE FieldPlace(table[i].sym) \subseteq 0 .. symbols[s].size - 1
    <3>1. /\ symbols[table[i].sym].offset \in Int /\ 0 <= symbols[table[i].sym].offset
          /\ symbols[table[i].sym].size \in Int /\ symbols[s].size \in Int
          /\ symbols[table[i].sym].offset + symbols[table[i].sym].size <= symbols[s].size
      BY <1>2, <1>3, <2>1
    <3>2. PICK o, z, b : o = symbols[table[i].sym].offset /\ z = symbols[table[i].sym].size /\ b = symbols[s].size
      OBVIOUS
    <3>3. From(o, z) \subseteq 0 .. b - 1
      BY <3>1, <3>2, WithinStruct
    <3> QED
      BY <1>5, <3>2, <3>3
  <2> QED
    BY <1>7, <2>1, <2>2 DEF Separate
<1> QED
  BY <1>2, <1>6, <1>7 DEF Tags, TagKinds

LEMMA SizesFollow ==
  ASSUME TypesInv, LayInv
  PROVE  SizesAreTrue
<1> SUFFICES ASSUME Whole, NEW s \in DOMAIN symbols
             PROVE  /\ symbols[s].kind \in Measured => symbols[s].size = Bytes(symbols[s].type)
                    /\ symbols[s].complete =>
                         LET table == tables[symbols[s].symtable]
                             size(i) == symbols[table[i].sym].size
                         IN symbols[s].size = IF symbols[s].kind = "struct" THEN MapThenSumSet(size, Fields(table))
                                              ELSE Max({0} \cup {size(i) : i \in Fields(table)})
  BY DEF SizesAreTrue
<1>1. TypesSized(symbols) /\ TagsClosed(symtables, tables, symbols)
  BY DEF LayInv, Tidy
<1>2. symbols[s].kind \in Measured => symbols[s].size = Bytes(symbols[s].type)
  BY <1>1, SizesKnown
<1>3. ASSUME symbols[s].complete, NEW table, table = tables[symbols[s].symtable]
      PROVE  symbols[s].size =
               IF symbols[s].kind = "struct" THEN MapThenSumSet(LAMBDA i : symbols[table[i].sym].size, Fields(table))
               ELSE Max({0} \cup {symbols[table[i].sym].size : i \in Fields(table)})
  <2>1. Filled(s, table, symbols) /\ symbols[s].symtable # 0
    BY <1>1, <1>3 DEF TagsClosed
  <2>2. Fields(table) = FieldsOf(table, symbols)
    BY DEF Fields, FieldsOf
  <2>3. IsSeq(table)
    <3>1. IsSymbol(symbols[s], symbols, Len(tables)) /\ Len(tables) \in Nat
      BY DEF TypesInv, Steady, SymbolsOK, TablesOK, IsSeq
    <3>2. symbols[s].symtable \in 1 .. Len(tables)
      BY <2>1, <3>1 DEF IsSymbol
    <3> QED
      BY <1>3, <3>2 DEF TypesInv, Steady, TablesOK
  <2>4. CASE symbols[s].kind = "struct"
    <3>1. PICK f : Sums(symbols, f, table, SUBSET Fields(table)) /\ symbols[s].size = f[Fields(table)]
      BY <2>1, <2>2, <2>4 DEF Filled
    <3> QED
      BY <2>3, <2>4, <3>1, AllIsSum
  <2>5. CASE symbols[s].kind # "struct"
    BY <2>1, <2>2, <2>5 DEF Filled
  <2> QED
    BY <2>4, <2>5
<1> QED
  BY <1>2, <1>3

----------------------------------------------------------------------------
(* Steps that leave scopes and symbols alone *)

\* The invariant, where the function whose body is being parsed is known, and the call at the head
\* is not one for a body.
Laying(b) ==
  /\ Standing /\ Whole /\ Free(ret.type, symbols, Len(tables)) /\ Tidy(symtables, tables, symbols)
  /\ Framed(b, function_locals_size, symbols)
  /\ Laid(stack, Where(b), symtables, symbols, Len(tables))

\* The invariant after a step, part by part.
LEMMA LayGoesOn ==
  ASSUME NEW b, Free(ret'.type, symbols', Len(tables')), Tidy(symtables', tables', symbols'),
         Framed(b, function_locals_size', symbols'),
         Laid(stack', At(Len(symtables'), cur_decl_type', b), symtables', symbols', Len(tables'))
  PROVE  LayInv'
<1>1. Where(b)' = At(Len(symtables'), cur_decl_type', b)
  BY DEF Where, At
<1> QED
  BY <1>1 DEF LayInv

\* A failure ends what is promised.
LEMMA LayFails ==
  ASSUME Standing, Fail \/ Crash
  PROVE  LayInv'
<1>1. CASE Fail
  <2> DEFINE deaf == {n \in DOMAIN stack : ~ Heeds(stack[n])}
  <2>1. seen' = [seen EXCEPT !.muffled = @ \/ deaf # {}]
    BY <1>1 DEF Fail
  <2>2. deaf # {} => seen'.muffled
    BY <2>1, StandingIs
  <2>3. deaf = {} => status' = "failed"
    BY <1>1 DEF Fail
  <2> QED
    BY <2>2, <2>3 DEF LayInv, Whole
<1>2. CASE Crash
  BY <1>2 DEF Crash, LayInv, Whole
<1> QED
  BY <1>1, <1>2

\* Where the call at the head stands, and what is below.
LEMMA HeadLaid ==
  ASSUME NEW b, Laying(b)
  PROVE  /\ Placed(Where(b), symtables, symbols)
         /\ Suits(todo, Where(b), symtables, symbols, Len(tables))
         /\ Laid(Tail(stack), Below(todo, Where(b)), symtables, symbols, Len(tables))
         /\ todo.do \notin Closers => Below(todo, Where(b)) = Where(b)
         /\ Function = b
<1>1. stack # << >> /\ Laid(stack, Where(b), symtables, symbols, Len(tables))
  BY DEF Laying, Standing
<1>2. /\ Suits(todo, Where(b), symtables, symbols, Len(tables))
      /\ Laid(Tail(stack), Below(todo, Where(b)), symtables, symbols, Len(tables))
  BY <1>1, LaidPop DEF todo
<1>3. Placed(Where(b), symtables, symbols)
  BY <1>2 DEF Suits
<1>4. ASSUME todo.do \notin Closers PROVE Below(todo, Where(b)) = Where(b)
  <2>1. Held(todo) = 0 /\ todo.do \notin {"field"} \cup InParameters /\ todo.do # "end_of_body"
    BY <1>4 DEF Held, Closers, InParameters
  <2>2. Where(b).k - 0 = Where(b).k
    BY <1>3 DEF Placed
  <2>3. Where(b) = At(Where(b).k, Where(b).c, Where(b).b)
    BY <1>3 DEF Placed
  <2> QED
    BY <2>1, <2>2, <2>3 DEF Below
<1>5. Function = b
  BY <1>1, FunctionIs DEF Laying, Standing
<1> QED
  BY <1>2, <1>3, <1>4, <1>5

\* What may be put in front of what stands there.
Here(x, b) == Sits(x, Where(b), symtables, symbols, Len(tables))
AllHere(items, b) == \E A : Among(items, A) /\ \A x \in A : Here(x, b)

\* Lists of such calls.
LEMMA HereTuples ==
  ASSUME NEW b
  PROVE  /\ AllHere(<< >>, b)
         /\ \A x : Here(x, b) => AllHere(<< x >>, b)
         /\ \A x, y : Here(x, b) /\ Here(y, b) => AllHere(<< x, y >>, b)
         /\ \A x, y, z : Here(x, b) /\ Here(y, b) /\ Here(z, b) => AllHere(<< x, y, z >>, b)
         /\ \A w, x, y, z : Here(w, b) /\ Here(x, b) /\ Here(y, b) /\ Here(z, b) => AllHere(<< w, x, y, z >>, b)
<1>1. AllHere(<< >>, b)
  <2>1. Among(<< >>, {}) /\ \A x \in {} : Here(x, b)
    BY TuplesAmong
  <2> QED
    BY <2>1 DEF AllHere
<1>2. ASSUME NEW x, Here(x, b) PROVE AllHere(<< x >>, b)
  <2>1. Among(<< x >>, {x}) /\ \A u \in {x} : Here(u, b)
    BY <1>2, TuplesAmong
  <2> QED
    BY <2>1 DEF AllHere
<1>3. ASSUME NEW x, NEW y, Here(x, b), Here(y, b) PROVE AllHere(<< x, y >>, b)
  <2>1. Among(<< x, y >>, {x, y}) /\ \A u \in {x, y} : Here(u, b)
    BY <1>3, TuplesAmong
  <2> QED
    BY <2>1 DEF AllHere
<1>4. ASSUME NEW x, NEW y, NEW z, Here(x, b), Here(y, b), Here(z, b) PROVE AllHere(<< x, y, z >>, b)
  <2>1. Among(<< x, y, z >>, {x, y, z}) /\ \A u \in {x, y, z} : Here(u, b)
    BY <1>4, TuplesAmong
  <2> QED
    BY <2>1 DEF AllHere
<1>5. ASSUME NEW w, NEW x, NEW y, NEW z, Here(w, b), Here(x, b), Here(y, b), Here(z, b)
      PROVE  AllHere(<< w, x, y, z >>, b)
  <2>1. Among(<< w, x, y, z >>, {w, x, y, z}) /\ \A u \in {w, x, y, z} : Here(u, b)
    BY <1>5, TuplesAmong
  <2> QED
    BY <2>1 DEF AllHere
<1> QED
  BY <1>1, <1>2, <1>3, <1>4, <1>5

LEMMA JoinedHere ==
  ASSUME NEW b, NEW u, NEW v, AllHere(u, b), AllHere(v, b)
  PROVE  AllHere(u \o v, b)
<1>1. PICK A : Among(u, A) /\ \A x \in A : Here(x, b)
  BY DEF AllHere
<1>2. PICK B : Among(v, B) /\ \A x \in B : Here(x, b)
  BY DEF AllHere
<1>3. Among(u \o v, A \cup B) /\ \A x \in A \cup B : Here(x, b)
  BY <1>1, <1>2, JoinedAmong
<1> QED
  BY <1>3 DEF AllHere

\* A call that knows nothing of scopes and symbols.
Easy(x) ==
  /\ x.do \notin Closers \cup {"suffix", "linked", "variable", "body"}
  /\ x.do \in DeclCalls => cur_decl_type # "DT_PARAMETER"

\* It may stand anywhere.
LEMMA EasyHere ==
  ASSUME NEW b, Placed(Where(b), symtables, symbols), NEW x, Easy(x)
  PROVE  Here(x, b)
<1>1. /\ Held(x) = 0 /\ x.do \notin {"field"} \cup InParameters
      /\ x.do \notin {"end_of_body", "suffix", "linked", "variable", "body"}
      /\ x.do \in DeclCalls => cur_decl_type # "DT_PARAMETER"
  BY DEF Easy, Held, Closers, InParameters
<1>2. Where(b).k - 0 = Where(b).k /\ Where(b) = At(Where(b).k, Where(b).c, Where(b).b)
  BY DEF Placed
<1>3. Below(x, Where(b)) = Where(b)
  BY <1>1, <1>2 DEF Below
<1>4. Where(b).c = cur_decl_type
  BY AtIs DEF Where
<1>5. Suits(x, Where(b), symtables, symbols, Len(tables))
  BY <1>1, <1>4 DEF Suits
<1> QED
  BY <1>3, <1>5 DEF Here, Sits

\* The call is replaced by such calls.
LEMMA CalmLays ==
  ASSUME NEW b, Laying(b), SameScopes, UNCHANGED << cur_decl_type, function_locals_size >>,
         todo.do \notin Closers, NEW items, AllHere(items, b), Continue(items),
         Free(ret'.type, symbols, Len(tables))
  PROVE  LayInv'
<1>1. PICK A : Among(items, A) /\ \A x \in A : Here(x, b)
  BY DEF AllHere
<1>2. Laid(Tail(stack), Where(b), symtables, symbols, Len(tables))
  BY HeadLaid
<1>3. \A x \in A : Sits(x, Where(b), symtables, symbols, Len(tables))
  BY <1>1 DEF Here
<1>4. Laid(items \o Tail(stack), Where(b), symtables, symbols, Len(tables))
  BY <1>1, <1>2, <1>3, LaidMore
<1>5. /\ symtables' = symtables /\ tables' = tables /\ symbols' = symbols
      /\ cur_decl_type' = cur_decl_type /\ function_locals_size' = function_locals_size
  BY DEF SameScopes
<1>6. Laid(stack', At(Len(symtables'), cur_decl_type', b), symtables', symbols', Len(tables'))
  BY <1>4, <1>5 DEF Continue, Where
<1>7. /\ Free(ret'.type, symbols', Len(tables')) /\ Tidy(symtables', tables', symbols')
      /\ Framed(b, function_locals_size', symbols')
  BY <1>5 DEF Laying
<1> QED
  BY <1>6, <1>7, LayGoesOn

\* The ways to go on and to return.
LEMMA CalmPasses ==
  ASSUME NEW b, Laying(b), todo.do \notin Closers
  PROVE  /\ \A items : (Taking(items) \/ Leaving(items)) /\ AllHere(items, b) => LayInv'
         /\ \A t, n : (ReturnTaking(t, n) \/ Return(t, n)) /\ Free(t, symbols, Len(tables)) => LayInv'
<1>1. ASSUME NEW items, Taking(items) \/ Leaving(items), AllHere(items, b) PROVE LayInv'
  <2>1. /\ Continue(items) /\ SameScopes /\ UNCHANGED << cur_decl_type, function_locals_size >> /\ ret' = ret
    BY <1>1 DEF Taking, Leaving, Kept, SameScopes
  <2>2. Free(ret'.type, symbols, Len(tables))
    BY <2>1 DEF Laying
  <2> QED
    BY <1>1, <2>1, <2>2, CalmLays
<1>2. ASSUME NEW t, NEW n, ReturnTaking(t, n) \/ Return(t, n), Free(t, symbols, Len(tables)) PROVE LayInv'
  <2>1. /\ Continue(<< >>) /\ SameScopes /\ UNCHANGED << cur_decl_type, function_locals_size >> /\ ret'.type = t
    BY <1>2 DEF ReturnTaking, Return, Returning, Kept, SameScopes
  <2>2. Free(ret'.type, symbols, Len(tables))
    BY <1>2, <2>1
  <2> QED
    BY <2>1, <2>2, HereTuples, CalmLays
<1> QED
  BY <1>1, <1>2

\* Types without functions are free, and so is one behind another.
LEMMA FreeTypes ==
  /\ \A t, Y, T : IsPointers(t) \/ IsDimensions(t) => IsSeq(t) /\ Free(t, Y, T)
  /\ \A t, Y, T : IsBase(t, Y, T) => IsSeq(t) /\ Free(t, Y, T)
  /\ \A a, b, Y, T : IsSeq(a) /\ IsSeq(b) /\ Free(a, Y, T) /\ Free(b, Y, T) => Free(a \o b, Y, T)
  /\ \A p, Y, T : p.kind # "func" => Free(<< p >>, Y, T)
  /\ \A Y, T : Free(<< >>, Y, T)
<1>1. \A t, Y, T : IsPointers(t) \/ IsDimensions(t) => IsSeq(t) /\ Free(t, Y, T)
  BY DEF IsPointers, IsDimensions, Free, Base
<1>2. ASSUME NEW p, p.kind # "func", NEW Y, NEW T PROVE Free(<< p >>, Y, T)
  <2>1. \A i \in 1 .. Len(<< p >>) : << p >>[i] = p
    BY One
  <2> QED
    BY <1>2, <2>1, One DEF Free
<1>3. ASSUME NEW t, NEW Y, NEW T, IsBase(t, Y, T) PROVE IsSeq(t) /\ Free(t, Y, T)
  <2>1. PICK p : t = << p >> /\ p.kind \in BaseKinds
    BY <1>3 DEF IsBase
  <2>2. p.kind # "func"
    BY <2>1 DEF BaseKinds
  <2> QED
    BY <1>2, <2>1, <2>2, One
<1>4. ASSUME NEW a, NEW b, NEW Y, NEW T, IsSeq(a), IsSeq(b), Free(a, Y, T), Free(b, Y, T)
      PROVE  Free(a \o b, Y, T)
  <2>1. /\ Len(a \o b) = Len(a) + Len(b) /\ Len(a) \in Nat /\ Len(b) \in Nat
        /\ \A i \in 1 .. Len(a) : (a \o b)[i] = a[i]
        /\ \A i \in 1 .. Len(b) : (a \o b)[Len(a) + i] = b[i]
    BY <1>4, Joined
  <2>2. PICK c : c = a \o b
    OBVIOUS
  <2>3. PICK F : F = (1 .. T) \ Structs(Y)
    OBVIOUS
  <2>4. ASSUME NEW i \in 1 .. Len(c), c[i].kind = "func" PROVE c[i].sym \in F
    <3>1. CASE i <= Len(a)
      <4>1. i \in 1 .. Len(a) /\ c[i] = a[i]
        BY <2>1, <2>2, <3>1
      <4> QED
        BY <1>4, <2>3, <2>4, <4>1 DEF Free
    <3>2. CASE i > Len(a)
      <4>1. PICK j \in 1 .. Len(b) : i = Len(a) + j
        <5>1. i - Len(a) \in 1 .. Len(b) /\ i = Len(a) + (i - Len(a))
          BY <2>1, <2>2, <3>2
        <5> QED
          BY <5>1
      <4>2. c[i] = b[j]
        BY <2>1, <2>2, <4>1
      <4> QED
        BY <1>4, <2>3, <2>4, <4>2 DEF Free
    <3> QED
      BY <2>1, <2>2, <3>1, <3>2
  <2> QED
    BY <2>2, <2>3, <2>4 DEF Free
<1>5. \A Y, T : Free(<< >>, Y, T)
  BY DEF Free
<1> QED
  BY <1>1, <1>2, <1>3, <1>4, <1>5

----------------------------------------------------------------------------
(* The actions, one by one: those that leave scopes and symbols alone *)

\* What is noted of a program.
Noting == DOMAIN seen = {"muffled", "nested", "redefined", "early"}

\* The items that are but a name, and the tokens that are expected.
LEMMA EasyItems ==
  /\ \A d : d \notin Closers \cup {"suffix", "linked", "variable", "body"} \cup DeclCalls => Easy(Item(d))
  /\ \A d \in DeclCalls \ {"block"} : cur_decl_type # "DT_PARAMETER" => Easy(Item(d))
  /\ \A t : Easy(Expect(t)) /\ Easy(Accept(t)) /\ Easy(Pointers(t))
<1>1. \A d : Item(d).do = d
  BY DEF Item
<1>2. \A t : Expect(t).do = "expect" /\ Accept(t).do = "accept" /\ Pointers(t).do = "pointers"
  BY DEF Expect, Accept, Pointers
<1>3. \A t : Easy(Expect(t)) /\ Easy(Accept(t)) /\ Easy(Pointers(t))
  BY <1>2 DEF Easy, Closers, DeclCalls
<1>4. \A d : d \notin Closers \cup {"suffix", "linked", "variable", "body"} \cup DeclCalls => Easy(Item(d))
  BY <1>1 DEF Easy
<1>5. \A d \in DeclCalls \ {"block"} : d \notin Closers \cup {"suffix", "linked", "variable", "body"}
  BY DEF DeclCalls, Closers
<1>6. \A d \in DeclCalls \ {"block"} : cur_decl_type # "DT_PARAMETER" => Easy(Item(d))
  BY <1>1, <1>5 DEF Easy
<1> QED
  BY <1>3, <1>4, <1>6

\* A declaration is not one of parameters.
LEMMA NotParameter ==
  ASSUME NEW b, Laying(b), todo.do \in DeclCalls
  PROVE  cur_decl_type # "DT_PARAMETER"
<1>1. Where(b).c = cur_decl_type
  BY AtIs DEF Where
<1> QED
  BY <1>1, HeadLaid DEF Suits

\* EXPECT, CONSUME and accept.
LEMMA TokenLays ==
  ASSUME NEW b, Laying(b), ExpectToken \/ AcceptToken
  PROVE  LayInv'
<1>1. todo.do \notin Closers
  BY DEF ExpectToken, AcceptToken, Doing, Closers
<1>2. CASE Fail
  BY <1>2, LayFails DEF Laying
<1>3. CASE ~ Fail
  <2>1. Continue(<< >>) /\ SameScopes /\ ret' = ret /\ UNCHANGED << cur_decl_type, function_locals_size >>
    BY <1>3 DEF ExpectToken, AcceptToken, Kept, SameScopes
  <2>2. Free(ret'.type, symbols, Len(tables))
    BY <2>1 DEF Laying
  <2> QED
    BY <1>1, <2>1, <2>2, HereTuples, CalmLays
<1> QED
  BY <1>2, <1>3

\* Specifiers, but for a new tag, a new constant and the fields of a struct.
LEMMA SpecifierLays ==
  ASSUME NEW b, Laying(b), Specifier \/ EnumSpecifier \/ Enumerated
  PROVE  LayInv'
<1>1. todo.do \in {"specifier", "enum", "enumerated"}
  BY DEF Specifier, EnumSpecifier, Enumerated, Doing
<1>2. todo.do \notin Closers
  BY <1>1 DEF Closers
<1>3. PICK a, t, n : /\ Easy(a) /\ Free(t, symbols, Len(tables))
                     /\ Fail \/ ReturnTaking(t, n) \/ Return(t, n) \/ Taking(<< a >>)
  <2>1. CASE Specifier
    <3> DEFINE a == [do |-> "tag", kind |-> token]
    <3>1. Easy(a)
      BY DEF Easy, Closers, DeclCalls
    <3>2. PICK t : /\ Free(t, symbols, Len(tables))
                   /\ Fail \/ ReturnTaking(t, NoName) \/ Taking(<< a >>)
      <4>1. CASE token \in {"int", "char", "void"}
        <5>1. Base(token).kind # "func"
          BY <4>1 DEF Base
        <5>2. ReturnTaking(<< Base(token) >>, NoName)
          BY <2>1, <4>1 DEF Specifier
        <5> QED
          BY <5>1, <5>2, FreeTypes
      <4>2. CASE token \notin {"int", "char", "void"}
        <5>1. PICK p : p = [kind |-> "alias", sym |-> GetSymbol(token, "SC_NAME")]
          OBVIOUS
        <5>2. Free(<< p >>, symbols, Len(tables))
          BY <5>1, FreeTypes
        <5>3. Fail \/ ReturnTaking(<< p >>, NoName) \/ Taking(<< a >>)
          BY <2>1, <4>2, <5>1 DEF Specifier, Of
        <5> QED
          BY <5>2, <5>3
      <4> QED
        BY <4>1, <4>2
    <3> HIDE DEF a
    <3> QED
      BY <3>1, <3>2
  <2>2. CASE EnumSpecifier \/ Enumerated
    <3>1. PICK p : p = [kind |-> "tag", sym |-> todo.tag]
      OBVIOUS
    <3>2. Free(<< p >>, symbols, Len(tables))
      BY <3>1, FreeTypes
    <3>3. CASE EnumSpecifier
      <4> DEFINE a == [do |-> "enumerator", tag |-> todo.tag]
      <4>1. Easy(a)
        BY DEF Easy, Closers, DeclCalls
      <4>2. Return(<< p >>, NoName) \/ Taking(<< a >>)
        BY <3>1, <3>3 DEF EnumSpecifier, Of
      <4> QED
        BY <3>2, <4>1, <4>2
    <3>4. CASE Enumerated
      <4> DEFINE a == [todo EXCEPT !.do = "enumerator"]
      <4>1. a.do = "enumerator"
        BY StandingIs DEF HasDo, Laying
      <4>2. Easy(a)
        BY <4>1 DEF Easy, Closers, DeclCalls
      <4>3. Fail \/ ReturnTaking(<< p >>, NoName) \/ Taking(<< a >>)
        BY <3>1, <3>4 DEF Enumerated, Of
      <4> QED
        BY <3>2, <4>2, <4>3
    <3> QED
      BY <2>2, <3>3, <3>4
  <2> QED
    BY <2>1, <2>2
<1>4. AllHere(<< a >>, b)
  BY <1>3, HeadLaid, EasyHere, HereTuples
<1> QED
  BY <1>2, <1>3, <1>4, CalmPasses, LayFails DEF Laying

\* A declarator that knows of functions declared in it.
LEMMA SuffixHere ==
  ASSUME NEW b, Laying(b), NEW x, x.do \in {"suffix", "linked"}, Free(x.inner, symbols, Len(tables))
  PROVE  Here(x, b)
<1>1. Placed(Where(b), symtables, symbols)
  BY HeadLaid
<1>2. Held(x) = 0 /\ x.do \notin {"field", "variable", "end_of_body", "body"} \cup InParameters \cup DeclCalls
  BY DEF Held, Closers, InParameters, DeclCalls
<1>3. Where(b).k - 0 = Where(b).k /\ Where(b) = At(Where(b).k, Where(b).c, Where(b).b)
  BY <1>1 DEF Placed
<1>4. Below(x, Where(b)) = Where(b)
  BY <1>2, <1>3 DEF Below
<1>5. Suits(x, Where(b), symtables, symbols, Len(tables))
  BY <1>1, <1>2 DEF Suits
<1> QED
  BY <1>4, <1>5 DEF Here, Sits

\* Declarators, up to the brackets.
LEMMA DeclaratorLays ==
  ASSUME NEW b, Laying(b), DeclaratorBase \/ InnerDeclarator \/ ParameterDeclarator
  PROVE  LayInv'
<1>1. todo.do \notin Closers
  BY DEF DeclaratorBase, InnerDeclarator, ParameterDeclarator, Doing, Closers
<1>2. ASSUME NEW items, Taking(items) \/ Leaving(items), AllHere(items, b) PROVE LayInv'
  BY <1>1, <1>2, CalmPasses
<1>3. \A x : Easy(x) => Here(x, b)
  BY HeadLaid, EasyHere
<1>4. ASSUME NEW o, NEW inner, NEW n, Free(inner, symbols, Len(tables))
      PROVE  AllHere(<< Suffix(o, inner, n) >>, b)
  <2>1. Suffix(o, inner, n).do = "suffix" /\ Suffix(o, inner, n).inner = inner
    BY DEF Suffix
  <2> QED
    BY <1>4, <2>1, SuffixHere, HereTuples
<1>5. CASE DeclaratorBase
  <2>1. CASE token = "*"
    <3>1. PICK o : Taking(<< Pointers(o) >>)
      BY <1>5, <2>1 DEF DeclaratorBase
    <3>2. AllHere(<< Pointers(o) >>, b)
      BY <1>3, EasyItems, HereTuples
    <3> QED
      BY <1>2, <3>1, <3>2
  <2>2. CASE token # "*" /\ token \in Names
    <3>1. Taking(<< Suffix(todo.outer, << >>, token) >>)
      BY <1>5, <2>2 DEF DeclaratorBase
    <3> QED
      BY <1>2, <1>4, <3>1, FreeTypes
  <2>3. CASE token # "*" /\ token \notin Names /\ token = "("
    <3>1. PICK x : x = [do |-> "inner", outer |-> todo.outer]
      OBVIOUS
    <3>2. Easy(x)
      BY <3>1 DEF Easy, Closers, DeclCalls
    <3>3. Taking(<< Pointers(<< >>), Expect(")"), x >>)
      BY <1>5, <2>3, <3>1 DEF DeclaratorBase
    <3>4. AllHere(<< Pointers(<< >>), Expect(")"), x >>, b)
      BY <1>3, <3>2, EasyItems, HereTuples
    <3> QED
      BY <1>2, <3>3, <3>4
  <2>4. CASE token # "*" /\ token \notin Names /\ token # "("
    <3>1. Leaving(<< Suffix(todo.outer, << >>, NoName) >>)
      BY <1>5, <2>4 DEF DeclaratorBase
    <3> QED
      BY <1>2, <1>4, <3>1, FreeTypes
  <2> QED
    BY <2>1, <2>2, <2>3, <2>4
<1>6. CASE InnerDeclarator
  <2>1. Leaving(<< Suffix(todo.outer, ret.type, ret.name) >>)
    BY <1>6 DEF InnerDeclarator
  <2>2. Free(ret.type, symbols, Len(tables))
    BY DEF Laying
  <2> QED
    BY <1>2, <1>4, <2>1, <2>2
<1>7. CASE ParameterDeclarator
  <2>1. PICK x : x = [do |-> "based", base |-> ret.type]
    OBVIOUS
  <2>2. Easy(x)
    BY <2>1 DEF Easy, Closers, DeclCalls
  <2>3. Leaving(<< Pointers(<< >>), x >>)
    BY <1>7, <2>1 DEF ParameterDeclarator, Declarator
  <2>4. AllHere(<< Pointers(<< >>), x >>, b)
    BY <1>3, <2>2, EasyItems, HereTuples
  <2> QED
    BY <1>2, <2>3, <2>4
<1> QED
  BY <1>5, <1>6, <1>7

\* The results of declarators.
LEMMA JoinedLays ==
  ASSUME NEW b, Laying(b), Linked \/ DeclaratorBased
  PROVE  LayInv'
<1>1. todo.do \in {"linked", "based"} /\ todo.do \notin Closers
  BY DEF Linked, DeclaratorBased, Doing, Closers
<1>2. IsLoose(ret.type, symbols, Len(tables)) /\ Free(ret.type, symbols, Len(tables))
  BY <1>1, StandingIs DEF Laying, Serves, Wants
<1>3. CASE Linked
  <2>1. todo.do = "linked"
    BY <1>3 DEF Linked, Doing
  <2>2. Free(todo.inner, symbols, Len(tables)) /\ IsLoose(todo.inner, symbols, Len(tables))
    BY <2>1, StandingIs, HeadLaid DEF Suits, IsItem, Laying
  <2>3. Free(todo.inner \o ret.type, symbols, Len(tables))
    BY <1>2, <2>2, FreeTypes, FreshTypes
  <2>4. Crash \/ Return(todo.inner \o ret.type, todo.name)
    BY <1>3 DEF Linked
  <2> QED
    BY <1>1, <2>3, <2>4, CalmPasses, LayFails DEF Laying
<1>4. CASE DeclaratorBased
  <2>1. todo.do = "based"
    BY <1>4 DEF DeclaratorBased, Doing
  <2>2. IsBase(todo.base, symbols, Len(tables))
    BY <2>1, StandingIs DEF IsItem, Laying
  <2>3. Free(ret.type \o todo.base, symbols, Len(tables))
    BY <1>2, <2>2, FreeTypes, FreshTypes
  <2>4. Crash \/ Return(ret.type \o todo.base, ret.name)
    BY <1>4 DEF DeclaratorBased
  <2> QED
    BY <1>1, <2>3, <2>4, CalmPasses, LayFails DEF Laying
<1> QED
  BY <1>3, <1>4

\* Arrays.
LEMMA ArrayLays ==
  ASSUME NEW b, Laying(b), ArrayDeclarator \/ ArraySize
  PROVE  LayInv'
<1>1. todo.do \in {"dimension", "size"} /\ todo.do \notin Closers
  BY DEF ArrayDeclarator, ArraySize, Doing, Closers
<1>2. ASSUME NEW items, Taking(items) \/ Leaving(items), AllHere(items, b) PROVE LayInv'
  BY <1>1, <1>2, CalmPasses
<1>3. \A x : Easy(x) => Here(x, b)
  BY HeadLaid, EasyHere
<1>4. CASE ArrayDeclarator
  <2>1. CASE token = "["
    <3>1. PICK x : x = [todo EXCEPT !.do = "size"]
      OBVIOUS
    <3>2. x.do = "size"
      BY <3>1, StandingIs DEF HasDo, Laying
    <3>3. Easy(x)
      BY <3>2 DEF Easy, Closers, DeclCalls
    <3>4. Taking(<< x >>)
      BY <1>4, <2>1, <3>1 DEF ArrayDeclarator
    <3> QED
      BY <1>2, <1>3, <3>3, <3>4, HereTuples
  <2>2. CASE token # "["
    <3>1. Return(todo.dims \o todo.outer, NoName)
      BY <1>4, <2>2 DEF ArrayDeclarator
    <3>2. IsPointers(todo.outer) /\ IsDimensions(todo.dims)
      BY <1>1, StandingIs DEF IsItem, InDeclarator, Laying
    <3>3. Free(todo.dims \o todo.outer, symbols, Len(tables))
      BY <3>2, FreeTypes
    <3> QED
      BY <1>1, <3>1, <3>3, CalmPasses
  <2> QED
    BY <2>1, <2>2
<1>5. CASE ArraySize
  <2>1. PICK x, k : /\ x = [todo EXCEPT !.do = "dimension", !.dims = Append(@, Base(k))]
                    /\ Taking(<< x >>) \/ Leaving(<< Item("expr"), Expect("]"), x >>)
    BY <1>5 DEF ArraySize
  <2>2. x.do = "dimension"
    BY <2>1, StandingIs DEF HasDo, Laying
  <2>3. Easy(x)
    BY <2>2 DEF Easy, Closers, DeclCalls
  <2>4. Easy(Item("expr")) /\ Easy(Expect("]"))
    BY EasyItems DEF Closers, DeclCalls
  <2>5. AllHere(<< x >>, b) /\ AllHere(<< Item("expr"), Expect("]"), x >>, b)
    BY <1>3, <2>3, <2>4, HereTuples
  <2> QED
    BY <1>2, <2>1, <2>5
<1> QED
  BY <1>4, <1>5

\* Statements without a scope of their own.
LEMMA StatementLays ==
  ASSUME NEW b, Laying(b),
         \/ Else \/ Do \/ Label \/ Empty \/ LocalDeclaration \/ EndOfLocal \/ Expression \/ Primary
  PROVE  LayInv'
<1>1. todo.do \in {"else", "stmt", "local", "expr"} /\ todo.do \notin Closers
  BY DEF Else, Do, Label, Empty, LocalDeclaration, EndOfLocal, Expression, Primary, Doing, Closers
<1>2. ASSUME NEW items, Taking(items) \/ Leaving(items), AllHere(items, b) PROVE LayInv'
  BY <1>1, <1>2, CalmPasses
<1>3. \A x : Easy(x) => Here(x, b)
  BY HeadLaid, EasyHere
<1>4. AllHere(<< >>, b)
  BY HereTuples
<1>5. Here(Item("local"), b) /\ Here(Item("expr"), b) /\ \A t : Here(Expect(t), b)
  BY <1>3, EasyItems DEF Closers, DeclCalls
<1>6. todo.do \in {"else", "stmt"} => Here(Item("stmt"), b) /\ Here(Item("declaration"), b)
  BY <1>3, EasyItems, NotParameter DEF DeclCalls
<1>7. CASE Else \/ Label
  <2>1. (Taking(<< Item("stmt") >>) \/ Leaving(<< >>)) /\ todo.do \in {"else", "stmt"}
    BY <1>7 DEF Else, Label, Doing
  <2>2. AllHere(<< Item("stmt") >>, b)
    BY <1>6, <2>1, HereTuples
  <2> QED
    BY <1>2, <1>4, <2>1, <2>2
<1>8. CASE Do
  <2>1. Taking(<< Item("stmt"), Expect("while"), Expect(";") >>) /\ todo.do = "stmt"
    BY <1>8 DEF Do, Doing
  <2>2. AllHere(<< Item("stmt"), Expect("while"), Expect(";") >>, b)
    BY <1>5, <1>6, <2>1, HereTuples
  <2> QED
    BY <1>2, <2>1, <2>2
<1>9. CASE Empty \/ EndOfLocal
  BY <1>2, <1>4, <1>9 DEF Empty, EndOfLocal
<1>10. CASE LocalDeclaration
  <2>1. Leaving(<< Item("declaration"), Item("local") >>) /\ todo.do = "stmt"
    BY <1>10 DEF LocalDeclaration, Doing
  <2>2. AllHere(<< Item("declaration"), Item("local") >>, b)
    BY <1>5, <1>6, <2>1, HereTuples
  <2> QED
    BY <1>2, <2>1, <2>2
<1>11. CASE Expression
  <2>1. Leaving(<< Item("expr"), Expect(";") >>)
    BY <1>11 DEF Expression
  <2>2. AllHere(<< Item("expr"), Expect(";") >>, b)
    BY <1>5, HereTuples
  <2> QED
    BY <1>2, <2>1, <2>2
<1>12. CASE Primary
  <2>1. Taking(<< >>) \/ Fail \/ Crash
    BY <1>12 DEF Primary
  <2> QED
    BY <1>2, <1>4, <2>1, LayFails DEF Laying
<1> QED
  BY <1>7, <1>8, <1>9, <1>10, <1>11, <1>12

\* Declarations and what joins their declarators.
LEMMA DeclarationLays ==
  ASSUME NEW b, Laying(b), Declaration \/ Declarators \/ Separator
  PROVE  LayInv'
<1>1. todo.do \in {"declaration", "declarators", "separator"}
  BY DEF Declaration, Declarators, Separator, Doing
<1>2. todo.do \notin Closers /\ todo.do \in DeclCalls
  BY <1>1 DEF Closers, DeclCalls
<1>3. cur_decl_type # "DT_PARAMETER"
  BY <1>2, NotParameter
<1>4. ASSUME NEW items, Taking(items) \/ Leaving(items), AllHere(items, b) PROVE LayInv'
  BY <1>2, <1>4, CalmPasses
<1>5. \A x : Easy(x) => Here(x, b)
  BY HeadLaid, EasyHere
<1>6. ASSUME NEW base, NEW typedef,
             Taking(NextDeclarator(base, typedef)) \/ Leaving(NextDeclarator(base, typedef))
      PROVE  LayInv'
  <2>1. PICK x, y : x = [do |-> "based", base |-> base]
                    /\ y = [do |-> "declared", base |-> base, typedef |-> typedef]
    OBVIOUS
  <2>2. Easy(x) /\ Easy(y) /\ Easy(Pointers(<< >>))
    BY <1>3, <2>1, EasyItems DEF Easy, Closers, DeclCalls
  <2>3. NextDeclarator(base, typedef) = << Pointers(<< >>), x, y >>
    BY <2>1, TupleConcat DEF NextDeclarator, Declarator
  <2>4. AllHere(<< Pointers(<< >>), x, y >>, b)
    BY <1>5, <2>2, HereTuples
  <2> QED
    BY <1>4, <1>6, <2>3, <2>4
<1>7. CASE Declaration
  <2>1. PICK x : x = [do |-> "declarators", typedef |-> cur_decl_type = Global /\ token = "typedef"]
    OBVIOUS
  <2>2. Here(x, b)
    BY <1>3, <1>5, <2>1 DEF Easy, Closers, DeclCalls
  <2>3. Here(Item("specifier"), b) /\ \A t : Here(Accept(t), b)
    BY <1>5, EasyItems DEF Closers, DeclCalls
  <2>4. CASE cur_decl_type = Global
    <3> DEFINE items == << Accept({"extern", "static"}), Accept({"const"}), Item("specifier"), x >>
    <3>1. items = << Accept({"extern", "static"}) >>
                  \o << Accept({"const"}), Item("specifier"), x >>
      OBVIOUS
    <3>2. Taking(items) \/ Leaving(items)
      BY <1>7, <2>1, <2>4, <3>1 DEF Declaration
    <3>3. AllHere(items, b)
      BY <2>2, <2>3, HereTuples
    <3> HIDE DEF items
    <3> QED
      BY <1>4, <3>2, <3>3
  <2>5. CASE cur_decl_type # Global
    <3> DEFINE items == << Accept({"const"}), Item("specifier"), x >>
    <3>1. items = << >> \o items
      OBVIOUS
    <3>2. Taking(items) \/ Leaving(items)
      BY <1>7, <2>1, <2>5, <3>1 DEF Declaration
    <3>3. AllHere(items, b)
      BY <2>2, <2>3, HereTuples
    <3> HIDE DEF items
    <3> QED
      BY <1>4, <3>2, <3>3
  <2> QED
    BY <2>4, <2>5
<1>8. CASE Declarators
  BY <1>4, <1>6, <1>8, HereTuples DEF Declarators
<1>9. CASE Separator
  <2>1. AllHere(<< Expect(";") >>, b)
    BY <1>5, EasyItems, HereTuples
  <2>2. Taking(NextDeclarator(todo.base, todo.typedef)) \/ Leaving(<< Expect(";") >>)
    BY <1>9 DEF Separator
  <2> QED
    BY <1>4, <1>6, <2>1, <2>2
<1> QED
  BY <1>7, <1>8, <1>9

----------------------------------------------------------------------------
(* The name that is to be put *)

\* A variable, a field or the name of a type: the size is that of the type.
LEMMA DeclaredVariableLays ==
  ASSUME NEW b, Laying(b), Noting, DeclaredVariable
  PROVE  LayInv'
<1> SUFFICES ASSUME Whole' PROVE LayInv'
  BY DEF LayInv
<1>1. todo.do = "declared" /\ todo.do \notin Closers
  BY DEF DeclaredVariable, Doing, Closers
<1>2. PICK kind : kind = VariableKind(todo.typedef)
  OBVIOUS
<1>3. PICK r : r = [Symbol(kind, ret.name, ret.type, SizeOf(ret.type)) EXCEPT !.function = Function]
  OBVIOUS
<1>4. PICK x : x = [do |-> "variable", symbol |-> r]
  OBVIOUS
<1>5. PICK y : y = [do |-> "separator", base |-> todo.base, typedef |-> todo.typedef]
  OBVIOUS
<1>6. CASE Fail
  BY <1>6, LayFails DEF Laying
<1>7. CASE ~ Fail
  <2>1. /\ Continue(<< Item("expr") >> \o << x, y >>) \/ Continue(<< x, y >>)
        /\ SameScopes /\ UNCHANGED << ret, cur_decl_type, function_locals_size >>
        /\ seen' = [seen EXCEPT !.early = @ \/ IsEarly(ret.type)]
    BY <1>2, <1>3, <1>4, <1>5, <1>7 DEF DeclaredVariable, scopes, SameScopes
  <2>2. ~ IsEarly(ret.type)
    <3>1. ~ seen'.early
      BY DEF Whole
    <3> QED
      BY <2>1, <3>1 DEF Noting
  <2>3. IsFull(ret.type, symbols, Len(tables)) /\ todo.typedef \in BOOLEAN
    BY <1>1, StandingIs DEF Laying, Serves, Wants, IsItem
  <2>4. Sized(ret.type, SizeOf(ret.type), symbols) /\ IsParts(ret.type, symbols, Len(tables))
    BY <2>2, <2>3, SizeIsKnown, StandingIs DEF Laying, IsFull
  <2>5. cur_decl_type # "DT_PARAMETER" /\ Function = b
    BY <1>1, NotParameter, HeadLaid DEF DeclCalls
  <2>6. kind \in Measured /\ (kind = "variable" => cur_decl_type = Local)
    <3>1. cur_decl_type \in DeclTypes
      BY HeadStaff DEF Laying, Standing
    <3> QED
      BY <1>2, <2>3, <2>5, <3>1 DEF VariableKind, Measured, DeclTypes
  <2>7. /\ r.kind = kind /\ r.type = ret.type /\ r.size = SizeOf(ret.type) /\ r.function = b
        /\ ~ r.complete /\ r.symtable = 0 /\ r.locals_size = 0
    BY <1>3, <2>5 DEF Symbol
  <2>8. Where(b).c = cur_decl_type /\ Where(b).b = b
    BY AtIs DEF Where
  <2>9. Ready(r, Where(b), symbols, Len(tables))
    BY <2>4, <2>6, <2>7, <2>8 DEF Ready
  <2>10. Here(x, b)
    <3>1. x.do = "variable" /\ x.symbol = r
      BY <1>4
    <3>2. /\ Held(x) = 0 /\ x.do \notin {"field"} \cup InParameters /\ x.do \notin DeclCalls
          /\ x.do \notin {"end_of_body", "suffix", "linked", "body"}
      BY <3>1 DEF Held, Closers, InParameters, DeclCalls
    <3>3. Placed(Where(b), symtables, symbols)
      BY HeadLaid
    <3>4. Where(b).k - 0 = Where(b).k /\ Where(b) = At(Where(b).k, Where(b).c, Where(b).b)
      BY <3>3 DEF Placed
    <3>5. Below(x, Where(b)) = Where(b)
      BY <3>2, <3>4 DEF Below
    <3>6. Suits(x, Where(b), symtables, symbols, Len(tables))
      BY <2>9, <3>1, <3>2, <3>3 DEF Suits
    <3> QED
      BY <3>5, <3>6 DEF Here, Sits
  <2>11. Here(y, b) /\ Here(Item("expr"), b)
    <3>1. Easy(y)
      BY <1>5, <2>5 DEF Easy, Closers
    <3>2. Easy(Item("expr"))
      BY EasyItems DEF Closers, DeclCalls
    <3> QED
      BY <3>1, <3>2, HeadLaid, EasyHere
  <2>12. AllHere(<< x, y >>, b) /\ AllHere(<< Item("expr") >> \o << x, y >>, b)
    BY <2>10, <2>11, HereTuples, JoinedHere
  <2>13. Free(ret'.type, symbols, Len(tables))
    BY <2>1 DEF Laying
  <2>14. UNCHANGED << cur_decl_type, function_locals_size >>
    BY <2>1
  <2> QED
    BY <1>1, <2>1, <2>12, <2>13, <2>14, CalmLays
<1> QED
  BY <1>6, <1>7

----------------------------------------------------------------------------
(* What is put where declarations are of another kind *)

\* What knows nothing of scopes and symbols may stand anywhere.
Simple(x, c) ==
  /\ x.do \notin Closers \cup {"suffix", "linked", "variable", "body"}
  /\ x.do \in DeclCalls => c # "DT_PARAMETER"

LEMMA SimpleSits ==
  ASSUME NEW e, NEW S, NEW Y, NEW T, Placed(e, S, Y), NEW x, Simple(x, e.c)
  PROVE  Sits(x, e, S, Y, T)
<1>1. /\ Held(x) = 0 /\ x.do \notin {"field"} \cup InParameters
      /\ x.do \notin {"end_of_body", "suffix", "linked", "variable", "body"}
      /\ x.do \in DeclCalls => e.c # "DT_PARAMETER"
  BY DEF Simple, Held, Closers, InParameters
<1>2. e.k - 0 = e.k /\ e = At(e.k, e.c, e.b)
  BY DEF Placed
<1>3. Below(x, e) = e
  BY <1>1, <1>2 DEF Below
<1>4. Suits(x, e, S, Y, T)
  BY <1>1 DEF Suits
<1> QED
  BY <1>3, <1>4 DEF Sits

LEMMA SimpleItems ==
  /\ \A c : Simple(Item("specifier"), c) /\ Simple(Item("declarator"), c) /\ Simple(Item("else"), Global)
  /\ \A c : c # "DT_PARAMETER" =>
       Simple(Item("declaration"), c) /\ Simple(Item("stmt"), c) /\ Simple(Item("else"), c)
<1>1. \A d : Item(d).do = d
  BY DEF Item
<1> QED
  BY <1>1 DEF Simple, Closers, DeclCalls, Global

\* One or two of them on the calls below.
LEMMA SimpleLaid ==
  ASSUME NEW e, NEW S, NEW Y, NEW T, Placed(e, S, Y), NEW s, Laid(s, e, S, Y, T)
  PROVE  /\ \A x : Simple(x, e.c) => Laid(<< x >> \o s, e, S, Y, T)
         /\ \A x, y : Simple(x, e.c) /\ Simple(y, e.c) => Laid(<< x, y >> \o s, e, S, Y, T)
<1>1. ASSUME NEW x, Simple(x, e.c) PROVE Laid(<< x >> \o s, e, S, Y, T)
  <2>1. Among(<< x >>, {x}) /\ \A u \in {x} : Sits(u, e, S, Y, T)
    BY <1>1, SimpleSits, TuplesAmong
  <2> QED
    BY <2>1, LaidMore
<1>2. ASSUME NEW x, NEW y, Simple(x, e.c), Simple(y, e.c) PROVE Laid(<< x, y >> \o s, e, S, Y, T)
  <2>1. Among(<< x, y >>, {x, y}) /\ \A u \in {x, y} : Sits(u, e, S, Y, T)
    BY <1>2, SimpleSits, TuplesAmong
  <2> QED
    BY <2>1, LaidMore
<1> QED
  BY <1>1, <1>2

\* Those in front of one that is not.
LEMMA InFront ==
  ASSUME NEW s, IsSeq(s), NEW x
  PROVE  /\ \A a : << a, x >> \o s = << a >> \o (<< x >> \o s)
         /\ \A a, b : << a, b, x >> \o s = << a, b >> \o (<< x >> \o s)
<1>1. IsSeq(<< x >>) /\ \A a : IsSeq(<< a >>)
  BY One
<1>2. \A a, b : IsSeq(<< a, b >>)
  BY TuplesAmong DEF Among
<1>3. ASSUME NEW a PROVE << a, x >> \o s = << a >> \o (<< x >> \o s)
  <2>1. << a >> \o << x >> = << a, x >>
    BY TupleConcat
  <2> QED
    BY <1>1, <2>1, JoinedThree
<1>4. ASSUME NEW a, NEW b PROVE << a, b, x >> \o s = << a, b >> \o (<< x >> \o s)
  <2>1. << a, b >> \o << x >> = << a, b, x >>
    BY TupleConcat
  <2> QED
    BY <1>1, <1>2, <2>1, JoinedThree
<1> QED
  BY <1>3, <1>4

\* The outermost call: the next declaration.
LEMMA UnitLays ==
  ASSUME NEW b, Laying(b), Unit
  PROVE  LayInv'
<1>1. todo.do = "unit" /\ stack # << >> /\ status = "parsing"
  BY DEF Unit, Doing
<1>2. todo.do \notin Closers
  BY <1>1 DEF Closers
<1>3. IsSeq(stack) /\ Shape(stack)
  BY <1>1 DEF Laying, Standing, ScopesInv, Balanced, Stacked
<1>4. Tail(stack) = << >>
  <2> DEFINE R == {stack[n] : n \in 1 .. Len(stack)}
  <2>1. stack \in Seq(R)
    BY <1>3 DEF IsSeq
  <2> HIDE DEF R
  <2>2. 1 \in 1 .. Len(stack) /\ todo = stack[1] /\ (Len(stack) = 1 => Tail(stack) = << >>)
    BY <1>1, <2>1, HeadAndTail DEF todo
  <2>3. Len(stack) = 1
    BY <1>1, <1>3, <2>2 DEF Shape
  <2> QED
    BY <2>2, <2>3
<1>5. PICK e : e = At(Len(symtables), Global, b)
  OBVIOUS
<1>6. /\ Placed(Where(b), symtables, symbols) /\ Laid(Tail(stack), Where(b), symtables, symbols, Len(tables))
  BY <1>2, HeadLaid
<1>7. Where(b).k = Len(symtables) /\ Where(b).b = b /\ e.k = Len(symtables) /\ e.c = Global /\ e.b = b
  BY <1>5, AtIs DEF Where
<1>8. Placed(e, symtables, symbols)
  BY <1>5, <1>6, <1>7 DEF Placed, Global, Local
<1>9. Laid(Tail(stack), e, symtables, symbols, Len(tables))
  <2>1. Where(b).b = 0
    <3>1. PICK p : p[1] = Where(b) /\ p[Len(Tail(stack)) + 1].b = 0
      BY <1>6 DEF Laid
    <3>2. Len(Tail(stack)) = 0
      BY <1>4, None, Zenon
    <3>3. Len(Tail(stack)) + 1 = 1
      BY <3>2
    <3> QED
      BY <3>1, <3>3
  <2>2. PICK p : p = [n \in Nat |-> e]
    OBVIOUS
  <2>3. Places(<< >>, p, symtables, symbols, Len(tables)) /\ p[1] = e /\ p[Len(<< >>) + 1].b = 0
    <3>1. Len(<< >>) = 0
      BY None
    <3> QED
      BY <1>7, <2>1, <2>2, <3>1 DEF Places
  <2> QED
    BY <1>4, <2>3, None DEF Laid
<1>10. CASE token = "eos"
  <2>1. stack' = << >> /\ status' = "done" /\ SameScopes
        /\ UNCHANGED << ret, cur_decl_type, function_locals_size >>
    BY <1>10 DEF Unit, scopes, SameScopes
  <2>2. Where(b)' = At(Len(symtables), cur_decl_type, b)
    BY <2>1 DEF Where, At, SameScopes
  <2>3. Laid(stack', Where(b), symtables, symbols, Len(tables))
    BY <1>4, <1>6, <2>1
  <2>4. /\ Free(ret'.type, symbols', Len(tables')) /\ Tidy(symtables', tables', symbols')
        /\ Framed(b, function_locals_size', symbols')
    BY <2>1 DEF Laying, SameScopes
  <2>5. Laid(stack', At(Len(symtables'), cur_decl_type', b), symtables', symbols', Len(tables'))
    BY <2>1, <2>3 DEF SameScopes, Where
  <2> QED
    BY <2>4, <2>5, LayGoesOn
<1>11. CASE token # "eos"
  <2>1. /\ Continue(<< Item("declaration"), todo >>) /\ cur_decl_type' = Global /\ SameScopes
        /\ UNCHANGED << ret, function_locals_size >>
    BY <1>11 DEF Unit, scopes, SameScopes
  <2>2. Simple(todo, Global) /\ Simple(Item("declaration"), Global)
    <3>1. Global # "DT_PARAMETER"
      BY DEF Global
    <3> QED
      BY <1>1, <3>1, SimpleItems DEF Simple, Closers, DeclCalls
  <2>3. Laid(<< Item("declaration"), todo >> \o Tail(stack), e, symtables, symbols, Len(tables))
    BY <1>7, <1>8, <1>9, <2>2, SimpleLaid
  <2>4. Laid(stack', At(Len(symtables'), cur_decl_type', b), symtables', symbols', Len(tables'))
    BY <1>5, <2>1, <2>3 DEF SameScopes, Continue
  <2>5. /\ Free(ret'.type, symbols', Len(tables')) /\ Tidy(symtables', tables', symbols')
        /\ Framed(b, function_locals_size', symbols')
    BY <2>1 DEF Laying, SameScopes
  <2> QED
    BY <2>4, <2>5, LayGoesOn
<1> QED
  BY <1>10, <1>11

----------------------------------------------------------------------------
(* Calls that close a scope, until they do *)

\* Such a call goes on, under its own name or another.
LEMMA AgainSuits ==
  ASSUME NEW b, Laying(b), todo.do \in {"field", "block"} \cup InParameters,
         NEW c, c = IF todo.do = "field" THEN "DT_STRUCT" ELSE cur_decl_type,
         NEW x, x = todo \/ (todo.do \in InParameters /\ \E d \in InParameters : x = [todo EXCEPT !.do = d]),
         NEW e, e = At(Len(symtables), c, b)
  PROVE  /\ Placed(e, symtables, symbols) /\ e.c = c
         /\ Laid(<< x >> \o Tail(stack), e, symtables, symbols, Len(tables))
<1>1. /\ Placed(Where(b), symtables, symbols)
      /\ Suits(todo, Where(b), symtables, symbols, Len(tables))
      /\ Laid(Tail(stack), Below(todo, Where(b)), symtables, symbols, Len(tables))
  BY HeadLaid
<1>2. /\ Where(b).k = Len(symtables) /\ Where(b).c = cur_decl_type /\ Where(b).b = b
      /\ e.k = Len(symtables) /\ e.c = c /\ e.b = b
  BY AtIs DEF Where
<1>3. Placed(e, symtables, symbols)
  BY <1>1, <1>2 DEF Placed, Local
<1>4. \/ x = todo
      \/ todo.do \in InParameters /\ x.do \in InParameters /\ x.old = todo.old
  <2>1. IsItem(todo, symbols, Len(tables)) /\ HasDo(todo)
    BY StandingIs DEF Laying
  <2>2. ASSUME todo.do \in InParameters, NEW d \in InParameters, x = [todo EXCEPT !.do = d]
        PROVE  x.do = d /\ x.old = todo.old
    BY <2>1, <2>2 DEF IsItem, HasDo
  <2> QED
    BY <2>2
<1>5. Suits(x, e, symtables, symbols, Len(tables))
  <2>1. CASE x = todo
    <3>1. todo.do \notin {"suffix", "linked", "variable", "end_of_body", "body"}
      BY DEF InParameters
    <3>2. e.c = Where(b).c \/ todo.do = "field"
      BY <1>2
    <3>3. todo.do \in DeclCalls => e.c # "DT_PARAMETER"
      BY <1>1, <1>2, <3>2 DEF Suits, DeclCalls
    <3> QED
      BY <1>1, <1>2, <1>3, <2>1, <3>1, <3>3 DEF Suits
  <2>2. CASE todo.do \in InParameters /\ x.do \in InParameters
    <3>1. /\ x.do \notin {"suffix", "linked", "variable", "end_of_body", "body", "field"}
          /\ x.do \notin DeclCalls
      BY <2>2 DEF InParameters, DeclCalls
    <3>2. symtables[e.k] \notin Structs(symbols)
      BY <1>1, <1>2, <2>2 DEF Suits
    <3> QED
      BY <1>3, <3>1, <3>2 DEF Suits
  <2> QED
    BY <1>4, <2>1, <2>2
<1>6. Below(x, e) = Below(todo, Where(b))
  <2>1. CASE x = todo
    <3>1. e.c = Where(b).c \/ todo.do = "field"
      BY <1>2
    <3> QED
      BY <1>2, <2>1, <3>1 DEF Below
  <2>2. CASE todo.do \in InParameters /\ x.do \in InParameters /\ x.old = todo.old
    <3>1. Held(x) = 1 /\ Held(todo) = 1 /\ x.do # "end_of_body" /\ todo.do # "end_of_body"
      BY <2>2 DEF Held, Closers, InParameters
    <3> QED
      BY <1>2, <2>2, <3>1 DEF Below
  <2> QED
    BY <1>4, <2>1, <2>2
<1>7. Laid(<< x >> \o Tail(stack), e, symtables, symbols, Len(tables))
  BY <1>1, <1>5, <1>6, LaidPush
<1> QED
  BY <1>2, <1>3, <1>7

\* A call that goes on behind another: the struct, block or list of parameters stays open.
LEMMA AgainLays ==
  ASSUME NEW b, Laying(b), SameScopes, UNCHANGED << ret, function_locals_size >>,
         todo.do \in {"field", "block"} \cup InParameters,
         NEW c, c = IF todo.do = "field" THEN "DT_STRUCT" ELSE cur_decl_type, cur_decl_type' = c,
         NEW x, x = todo \/ (todo.do \in InParameters /\ \E d \in InParameters : x = [todo EXCEPT !.do = d])
  PROVE  /\ Continue(<< x >>) => LayInv'
         /\ \A a : Continue(<< a, x >>) /\ Simple(a, c) => LayInv'
         /\ \A a, u : Continue(<< a, u, x >>) /\ Simple(a, c) /\ Simple(u, c) => LayInv'
<1>1. PICK e : e = At(Len(symtables), c, b)
  OBVIOUS
<1>2. /\ Placed(e, symtables, symbols) /\ e.c = c
      /\ Laid(<< x >> \o Tail(stack), e, symtables, symbols, Len(tables))
  <2>1. x = todo \/ (todo.do \in InParameters /\ \E d \in InParameters : x = [todo EXCEPT !.do = d])
    OBVIOUS
  <2> QED
    BY <1>1, <2>1, AgainSuits
<1>3. /\ symtables' = symtables /\ tables' = tables /\ symbols' = symbols
      /\ ret' = ret /\ function_locals_size' = function_locals_size
  BY DEF SameScopes
<1>4. ASSUME NEW items, Continue(items),
             Laid(items \o Tail(stack), e, symtables, symbols, Len(tables))
      PROVE  LayInv'
  <2>1. Laid(stack', At(Len(symtables'), cur_decl_type', b), symtables', symbols', Len(tables'))
    BY <1>1, <1>3, <1>4 DEF Continue
  <2>2. /\ Free(ret'.type, symbols', Len(tables')) /\ Tidy(symtables', tables', symbols')
        /\ Framed(b, function_locals_size', symbols')
    BY <1>3 DEF Laying
  <2> QED
    BY <2>1, <2>2, LayGoesOn
<1>5. ASSUME NEW a, Simple(a, c)
      PROVE  Laid(<< a, x >> \o Tail(stack), e, symtables, symbols, Len(tables))
  <2>1. << a, x >> \o Tail(stack) = << a >> \o (<< x >> \o Tail(stack))
    BY HeadLaid, InFront DEF Laid
  <2>2. Laid(<< a >> \o (<< x >> \o Tail(stack)), e, symtables, symbols, Len(tables))
    BY <1>2, <1>5, SimpleLaid
  <2> QED
    BY <2>1, <2>2
<1>6. ASSUME NEW a, NEW u, Simple(a, c), Simple(u, c)
      PROVE  Laid(<< a, u, x >> \o Tail(stack), e, symtables, symbols, Len(tables))
  <2>1. << a, u, x >> \o Tail(stack) = << a, u >> \o (<< x >> \o Tail(stack))
    BY HeadLaid, InFront DEF Laid
  <2>2. Laid(<< a, u >> \o (<< x >> \o Tail(stack)), e, symtables, symbols, Len(tables))
    BY <1>2, <1>6, SimpleLaid
  <2> QED
    BY <2>1, <2>2
<1> QED
  BY <1>2, <1>4, <1>5, <1>6

\* Parameters, fields and statements of a block, until the bracket.
LEMMA InsideLays ==
  ASSUME NEW b, Laying(b), Parameters \/ Parameter \/ ((Field \/ Block) /\ token # "}")
  PROVE  LayInv'
<1>1. PICK c : c = IF todo.do = "field" THEN "DT_STRUCT" ELSE cur_decl_type
  OBVIOUS
<1>2. CASE Parameters \/ Parameter
  <2>1. todo.do \in InParameters
    BY <1>2 DEF Parameters, Parameter, Doing, InParameters
  <2>2. todo.do \in {"field", "block"} \cup InParameters /\ todo.do # "field"
    BY <2>1 DEF InParameters
  <2>3. PICK d \in InParameters :
          \/ Taking(<< [todo EXCEPT !.do = d] >>) \/ Leaving(<< [todo EXCEPT !.do = d] >>)
          \/ Leaving(<< Item("specifier"), Item("declarator"), [todo EXCEPT !.do = d] >>)
    <3>1. CASE Parameters
      BY <3>1 DEF Parameters, InParameters
    <3>2. CASE Parameter
      BY <3>2 DEF Parameter, InParameters
    <3> QED
      BY <1>2, <3>1, <3>2
  <2>4. PICK x : x = [todo EXCEPT !.do = d]
    OBVIOUS
  <2>5. /\ SameScopes /\ UNCHANGED << ret, function_locals_size >> /\ cur_decl_type' = c
        /\ Continue(<< x >>) \/ Continue(<< Item("specifier"), Item("declarator"), x >>)
    BY <1>1, <2>2, <2>3, <2>4 DEF Taking, Leaving, Kept, SameScopes
  <2>6. Simple(Item("specifier"), c) /\ Simple(Item("declarator"), c)
    BY SimpleItems
  <2>7. todo.do \in InParameters /\ \E dd \in InParameters : x = [todo EXCEPT !.do = dd]
    BY <2>1, <2>4
  <2> QED
    BY <1>1, <2>2, <2>5, <2>6, <2>7, AgainLays
<1>3. CASE Field /\ token # "}"
  <2>1. todo.do = "field"
    BY <1>3 DEF Field, Doing
  <2>2. /\ SameScopes /\ UNCHANGED << ret, function_locals_size >> /\ cur_decl_type' = c
        /\ Continue(<< Item("declaration"), todo >>)
    BY <1>1, <1>3, <2>1 DEF Field, scopes, SameScopes
  <2>3. Simple(Item("declaration"), c)
    <3>1. c # "DT_PARAMETER"
      BY <1>1, <2>1
    <3> QED
      BY <3>1, SimpleItems
  <2>4. todo.do \in {"field", "block"} \cup InParameters
    BY <2>1
  <2> QED
    BY <1>1, <2>2, <2>3, <2>4, AgainLays
<1>4. CASE Block /\ token # "}"
  <2>1. todo.do = "block"
    BY <1>4 DEF Block, Doing
  <2>2. /\ SameScopes /\ UNCHANGED << ret, function_locals_size >> /\ cur_decl_type' = c
        /\ Continue(<< Item("stmt"), todo >>)
    BY <1>1, <1>4, <2>1 DEF Block, Leaving, Kept, SameScopes
  <2>3. Simple(Item("stmt"), c)
    <3>1. c # "DT_PARAMETER"
      BY <1>1, <2>1, NotParameter DEF DeclCalls
    <3> QED
      BY <3>1, SimpleItems
  <2>4. todo.do \in {"field", "block"} \cup InParameters
    BY <2>1
  <2> QED
    BY <1>1, <2>2, <2>3, <2>4, AgainLays
<1> QED
  BY <1>2, <1>3, <1>4

----------------------------------------------------------------------------
(* Scopes are opened *)

\* What is written down stays so when tables are added that hold nothing, and no scope of a
\* complete struct is opened again.
LEMMA TidyScopes ==
  ASSUME NEW S, NEW B, NEW Y, Tidy(S, B, Y), SymbolsOK(Y, Len(B)), NEW P, NEW C,
         \A t \in 1 .. Len(B) : C[t] = B[t], \A t \in DOMAIN C : t \in DOMAIN B \/ C[t] = << >>,
         DOMAIN B = 1 .. Len(B),
         \A s \in DOMAIN Y : Y[s].complete => \A i \in 1 .. Len(P) : P[i] # Y[s].symtable
  PROVE  Tidy(P, C, Y)
<1>1. \A s \in DOMAIN Y : Y[s].symtable # 0 => Y[s].symtable \in 1 .. Len(B)
  <2>1. \A s \in DOMAIN Y : IsSymbol(Y[s], Y, Len(B))
    BY DEF SymbolsOK, IsSeq
  <2> QED
    BY <2>1 DEF IsSymbol
<1>2. EntriesDiffer(C)
  <2>1. DOMAIN << >> = {}
    OBVIOUS
  <2>2. \A t \in DOMAIN C : \A i \in DOMAIN C[t] : t \in DOMAIN B /\ C[t] = B[t]
    BY <2>1
  <2> QED
    BY <2>2 DEF Tidy, EntriesDiffer
<1>3. TagsHold(C, Y)
  <2>1. \A s \in Tags(Y) : Y[s].symtable # 0 => C[Y[s].symtable] = B[Y[s].symtable]
    BY <1>1 DEF Tags
  <2> QED
    BY <2>1 DEF Tidy, TagsHold
<1>4. TagsClosed(P, C, Y)
  <2>1. \A s \in DOMAIN Y : Y[s].complete =>
          s \in Tags(Y) /\ Y[s].symtable # 0 /\ Filled(s, B[Y[s].symtable], Y)
    BY DEF Tidy, TagsClosed
  <2>2. \A s \in DOMAIN Y : Y[s].complete => C[Y[s].symtable] = B[Y[s].symtable]
    BY <1>1, <2>1
  <2> QED
    BY <2>1, <2>2 DEF TagsClosed
<1> QED
  BY <1>2, <1>3, <1>4 DEF Tidy

\* The scopes below the k-th and the symbols are left alone.
LEMMA SparedScopes ==
  ASSUME Standing, symbols' = symbols, Len(tables') \in Nat, Len(tables) <= Len(tables'),
         NEW k \in 0 .. Len(symtables), \A i \in 1 .. k : symtables'[i] = symtables[i]
  PROVE  Spared(k, symtables, symbols, Len(tables), symtables', symbols', Len(tables'))
<1>1. /\ Len(tables) \in Nat /\ ScopesLead /\ Len(symtables) \in Nat /\ SymbolsOK(symbols, Len(tables))
  BY StandingIs
<1>2. Len(symbols) \in Nat
  BY <1>1 DEF SymbolsOK, IsSeq
<1>3. Grown(symbols, symbols) /\ SizesStand(symbols, symbols)
  BY GrownSame DEF SizesStand
<1>4. \A i \in 1 .. k : i \in 1 .. Len(symtables)
  BY <1>1
<1>5. \A i \in 1 .. k : symtables[i] \in 1 .. Len(tables)
  BY <1>1, <1>4 DEF ScopesLead
<1> QED
  BY <1>1, <1>2, <1>3, <1>5 DEF Spared

\* The calls below.
LEMMA TailItems ==
  ASSUME Standing
  PROVE  \A n \in 1 .. Len(Tail(stack)) : IsItem(Tail(stack)[n], symbols, Len(tables))
<1>1. Staffed(Tail(stack), symbols, Len(tables))
  BY PopStaff DEF Standing, TypesInv, Manned
<1> QED
  BY <1>1 DEF Staffed

\* A scope with a table of its own.
LEMMA NewScopeLays ==
  ASSUME NEW b, Laying(b), todo.do \notin Closers, PushNew, symbols' = symbols
  PROVE  /\ Len(symtables) \in Nat /\ Len(symtables') = Len(symtables) + 1
         /\ symtables'[Len(symtables) + 1] = Len(tables) + 1
         /\ Len(tables) \in Nat /\ Len(tables') = Len(tables) + 1
         /\ Len(tables) + 1 \notin Structs(symbols)
         /\ Tidy(symtables', tables', symbols')
         /\ Free(ret.type, symbols', Len(tables'))
         /\ Spared(Len(symtables), symtables, symbols, Len(tables), symtables', symbols', Len(tables'))
         /\ Placed(Where(b), symtables', symbols')
         /\ Laid(Tail(stack), Where(b), symtables', symbols', Len(tables'))
         /\ \A c : (b = 0 => c # Local) => Placed(At(Len(symtables'), c, b), symtables', symbols')
<1>1. Standing
  BY DEF Laying
<1>2. /\ IsSeq(tables) /\ Len(tables) \in Nat /\ Len(symtables) \in Nat /\ SymbolsOK(symbols, Len(tables))
      /\ TablesOK(tables, symbols) /\ ScopesLead /\ Current \in 1 .. Len(tables)
      /\ Current = symtables[Len(symtables)]
  BY <1>1, StandingIs
<1>3. PushTable(Len(tables) + 1) /\ tables' = Append(tables, << >>)
  BY DEF PushNew
<1>4. /\ Len(symtables') = Len(symtables) + 1 /\ symtables'[Len(symtables) + 1] = Len(tables) + 1
      /\ \A i \in 1 .. Len(symtables) : symtables'[i] = symtables[i]
  <2>1. Len(tables) + 1 \in Nat /\ Len(tables) + 1 > Current
    BY <1>2
  <2> QED
    BY <1>1, <1>3, <2>1, ScopePushed
<1>5. /\ Len(tables') = Len(tables) + 1 /\ \A i \in 1 .. Len(tables) : tables'[i] = tables[i]
      /\ \A t \in DOMAIN tables' : t \in DOMAIN tables \/ tables'[t] = << >>
      /\ DOMAIN tables = 1 .. Len(tables)
  <2> DEFINE R == {tables[i] : i \in 1 .. Len(tables)} \cup {<< >>}
  <2>1. tables \in Seq(R) /\ << >> \in R
    BY <1>2 DEF IsSeq
  <2> HIDE DEF R
  <2>2. /\ Len(tables') = Len(tables) + 1 /\ \A i \in 1 .. Len(tables) : tables'[i] = tables[i]
        /\ tables'[Len(tables) + 1] = << >> /\ tables' \in Seq(R)
    BY <1>3, <2>1, AppendProperties
  <2>3. \A t \in DOMAIN tables' : t \in DOMAIN tables \/ t = Len(tables) + 1
    BY <1>2, <2>1, <2>2
  <2> QED
    BY <2>1, <2>2, <2>3
<1>6. \A s \in DOMAIN symbols : symbols[s].symtable \in 0 .. Len(tables)
  <2>0. DOMAIN symbols = 1 .. Len(symbols)
    BY <1>2 DEF SymbolsOK, IsSeq
  <2>1. \A s \in DOMAIN symbols : IsSymbol(symbols[s], symbols, Len(tables))
    BY <1>2, <2>0 DEF SymbolsOK
  <2> QED
    BY <2>1 DEF IsSymbol
<1>7. Len(tables) + 1 \notin Structs(symbols)
  BY <1>2, <1>6 DEF Structs, Tags
<1>8. Tidy(symtables', tables', symbols)
  <2>1. ASSUME NEW s \in DOMAIN symbols, symbols[s].complete, NEW i \in 1 .. Len(symtables')
        PROVE  symtables'[i] # symbols[s].symtable
    <3>1. CASE i \in 1 .. Len(symtables)
      BY <1>4, <2>1, <3>1 DEF Laying, Tidy, TagsClosed
    <3>2. CASE i = Len(symtables) + 1
      BY <1>2, <1>4, <1>6, <3>2
    <3> QED
      BY <1>2, <1>4, <3>1, <3>2
  <2>2. Tidy(symtables, tables, symbols)
    BY DEF Laying
  <2> QED
    BY <1>2, <1>5, <2>1, <2>2, TidyScopes
<1>9. Spared(Len(symtables), symtables, symbols, Len(tables), symtables', symbols', Len(tables'))
  BY <1>1, <1>2, <1>4, <1>5, SparedScopes
<1>10. Free(ret.type, symbols', Len(tables'))
  BY <1>9, FreeStays DEF Laying
<1>11. Placed(Where(b), symtables, symbols) /\ Laid(Tail(stack), Where(b), symtables, symbols, Len(tables))
  BY HeadLaid
<1>12. Where(b).k = Len(symtables) /\ Where(b).c = cur_decl_type /\ Where(b).b = b
  BY AtIs DEF Where
<1>13. Where(b).k <= Len(symtables) /\ Where(b).k \in Nat
  BY <1>2, <1>12
<1>14. Placed(Where(b), symtables', symbols')
  BY <1>2, <1>9, <1>11, <1>13, PlaceStays
<1>15. Laid(Tail(stack), Where(b), symtables', symbols', Len(tables'))
  <2>1. PICK s : s = Tail(stack)
    OBVIOUS
  <2>2. \A n \in 1 .. Len(s) : IsItem(s[n], symbols, Len(tables))
    BY <1>1, <2>1, TailItems
  <2>3. Laid(s, Where(b), symtables, symbols, Len(tables))
    BY <1>11, <2>1
  <2>4. Laid(s, Where(b), symtables', symbols', Len(tables'))
    BY <1>2, <1>9, <1>13, <2>2, <2>3, LaidStays
  <2> QED
    BY <2>1, <2>4
<1>16. ASSUME NEW c, b = 0 => c # Local PROVE Placed(At(Len(symtables'), c, b), symtables', symbols')
  <2>1. PICK e : e = At(Len(symtables'), c, b)
    OBVIOUS
  <2>2. e.k = Len(symtables) + 1 /\ e.c = c /\ e.b = b
    BY <1>4, <2>1, AtIs
  <2>3. e = At(e.k, e.c, e.b)
    BY <2>1, AtIs
  <2>4. symtables'[e.k] \notin Structs(symbols')
    BY <1>4, <1>7, <2>2
  <2>5. e.k \in Nat \ {0}
    BY <1>2, <2>2
  <2>6. e.b \in 0 .. Len(symbols')
    BY <1>11, <1>12, <2>2 DEF Placed
  <2>7. Placed(e, symtables', symbols')
    BY <1>16, <2>2, <2>3, <2>4, <2>5, <2>6 DEF Placed
  <2> QED
    BY <2>1, <2>7
<1> QED
  BY <1>2, <1>4, <1>5, <1>7, <1>8, <1>9, <1>10, <1>14, <1>15, <1>16

\* Statements with a scope of their own.
LEMMA OpeningLays ==
  ASSUME NEW b, Laying(b), Compound \/ Nested
  PROVE  LayInv'
<1>1. todo.do = "stmt" /\ todo.do \notin Closers /\ todo.do \in DeclCalls
  BY DEF Compound, Nested, Doing, Closers, DeclCalls
<1>2. cur_decl_type # "DT_PARAMETER"
  BY <1>1, NotParameter
<1>3. PICK y \in {Close, [Close EXCEPT !.do = "block"]} :
        \/ Opening(<< y >>) \/ Opening(<< Item("stmt"), y >>)
        \/ Opening(<< Item("stmt"), y, Item("else") >>)
  BY DEF Compound, Nested
<1>4. y.do \in {"close", "block"}
  BY DEF Close
<1>5. PushNew /\ UNCHANGED << ret, symbols, cur_decl_type, function_locals_size >>
  BY <1>3 DEF Opening
<1>6. PICK e : e = At(Len(symtables'), cur_decl_type, b)
  OBVIOUS
<1>7. /\ Len(symtables) \in Nat /\ Len(symtables') = Len(symtables) + 1
      /\ Tidy(symtables', tables', symbols') /\ Free(ret.type, symbols', Len(tables'))
      /\ Placed(Where(b), symtables', symbols')
      /\ Laid(Tail(stack), Where(b), symtables', symbols', Len(tables'))
      /\ \A c : (b = 0 => c # Local) => Placed(At(Len(symtables'), c, b), symtables', symbols')
  BY <1>1, <1>5, NewScopeLays
<1>8. /\ Where(b).c = cur_decl_type /\ Where(b).b = b /\ Where(b).k = Len(symtables)
      /\ e.k = Len(symtables) + 1 /\ e.c = cur_decl_type /\ e.b = b
  BY <1>6, <1>7, AtIs DEF Where
<1>9. Placed(e, symtables', symbols')
  <2>1. b = 0 => cur_decl_type # Local
    BY <1>7, <1>8 DEF Placed
  <2> QED
    BY <1>6, <1>7, <2>1
<1>10. Suits(y, e, symtables', symbols', Len(tables')) /\ Below(y, e) = Where(b)
  <2>1. Held(y) = 1
    BY <1>4 DEF Held, Closers
  <2>2. y.do \notin {"field", "end_of_body", "suffix", "linked", "variable", "body"} \cup InParameters
    BY <1>4 DEF InParameters
  <2>3. e.k - 1 = Len(symtables)
    BY <1>7, <1>8
  <2>4. Below(y, e) = Where(b)
    BY <1>8, <2>1, <2>2, <2>3 DEF Below, Where
  <2> QED
    BY <1>2, <1>8, <1>9, <2>2, <2>4 DEF Suits
<1>11. ASSUME NEW s, Laid(s, Where(b), symtables', symbols', Len(tables'))
       PROVE  Laid(<< y >> \o s, e, symtables', symbols', Len(tables'))
  BY <1>10, <1>11, LaidPush
<1>12. Simple(Item("stmt"), e.c) /\ Simple(Item("else"), Where(b).c)
  BY <1>2, <1>8, SimpleItems
<1>13. ASSUME NEW s, Laid(s, Where(b), symtables', symbols', Len(tables'))
       PROVE  Laid(<< Item("stmt"), y >> \o s, e, symtables', symbols', Len(tables'))
  <2>1. Laid(<< y >> \o s, e, symtables', symbols', Len(tables'))
    BY <1>11, <1>13
  <2>2. << Item("stmt"), y >> \o s = << Item("stmt") >> \o (<< y >> \o s)
    BY <1>13, InFront DEF Laid
  <2> QED
    BY <1>9, <1>12, <2>1, <2>2, SimpleLaid
<1>14. Laid(<< Item("stmt"), y, Item("else") >> \o Tail(stack), e, symtables', symbols', Len(tables'))
  <2>1. PICK z : z = Item("else")
    OBVIOUS
  <2>2. Laid(<< z >> \o Tail(stack), Where(b), symtables', symbols', Len(tables'))
    BY <1>7, <1>12, <2>1, SimpleLaid
  <2>3. << Item("stmt"), y, z >> \o Tail(stack) = << Item("stmt"), y >> \o (<< z >> \o Tail(stack))
    BY <1>7, InFront DEF Laid
  <2>4. Laid(<< Item("stmt"), y >> \o (<< z >> \o Tail(stack)), e, symtables', symbols', Len(tables'))
    BY <1>13, <2>2
  <2> QED
    BY <2>1, <2>3, <2>4
<1>15. Laid(stack', e, symtables', symbols', Len(tables'))
  <2>1. CASE Opening(<< y >>)
    BY <1>7, <1>11, <2>1 DEF Opening, Continue
  <2>2. CASE Opening(<< Item("stmt"), y >>)
    BY <1>7, <1>13, <2>2 DEF Opening, Continue
  <2>3. CASE Opening(<< Item("stmt"), y, Item("else") >>)
    BY <1>14, <2>3 DEF Opening, Continue
  <2> QED
    BY <1>3, <2>1, <2>2, <2>3
<1>16. Laid(stack', At(Len(symtables'), cur_decl_type', b), symtables', symbols', Len(tables'))
  BY <1>5, <1>6, <1>15
<1>17. Framed(b, function_locals_size', symbols') /\ Free(ret'.type, symbols', Len(tables'))
  BY <1>5, <1>7 DEF Laying
<1> QED
  BY <1>7, <1>16, <1>17, LayGoesOn

\* The brackets behind a name: an array, or the scope of a function's parameters.
LEMMA SuffixLays ==
  ASSUME NEW b, Laying(b), DeclaratorSuffix
  PROVE  LayInv'
<1>1. todo.do = "suffix" /\ todo.do \notin Closers
  BY DEF DeclaratorSuffix, Doing, Closers
<1>2. PICK z : z = [do |-> "linked", inner |-> todo.inner, name |-> todo.name]
  OBVIOUS
<1>3. z.do = "linked" /\ z.inner = todo.inner
  BY <1>2
<1>4. Free(todo.inner, symbols, Len(tables))
  BY <1>1, HeadLaid DEF Suits
<1>5. IsPointers(todo.outer)
  BY <1>1, StandingIs DEF IsItem, InDeclarator, Laying
<1>6. Here(z, b)
  BY <1>3, <1>4, SuffixHere
<1>7. CASE token = "["
  <2>1. PICK x : x = [do |-> "dimension", dims |-> << >>, outer |-> todo.outer]
    OBVIOUS
  <2>2. Here(x, b)
    <3>1. Easy(x)
      BY <2>1 DEF Easy, Closers, DeclCalls
    <3> QED
      BY <3>1, HeadLaid, EasyHere
  <2>3. Leaving(<< x, z >>)
    BY <1>2, <1>7, <2>1 DEF DeclaratorSuffix
  <2> QED
    BY <1>1, <1>6, <2>2, <2>3, HereTuples, CalmPasses
<1>8. CASE token # "[" /\ token # "("
  <2>1. /\ Continue(<< z >>) /\ SameScopes /\ UNCHANGED << cur_decl_type, function_locals_size >>
        /\ ret'.type = todo.outer
    BY <1>2, <1>8 DEF DeclaratorSuffix, Returning, Kept, SameScopes
  <2>2. Free(ret'.type, symbols, Len(tables))
    BY <1>5, <2>1, FreeTypes
  <2>3. UNCHANGED << cur_decl_type, function_locals_size >>
    BY <2>1
  <2>4. AllHere(<< z >>, b)
    BY <1>6, HereTuples
  <2> QED
    BY <1>1, <2>1, <2>2, <2>3, <2>4, CalmLays
<1>9. CASE token = "("
  <2>1. PICK x : x = [do |-> "parameters", outer |-> todo.outer, old |-> cur_decl_type, opened |-> Meaning]
    OBVIOUS
  <2>2. /\ PushNew /\ cur_decl_type' = "DT_PARAMETER" /\ Continue(<< x, z >>)
        /\ UNCHANGED << ret, symbols, function_locals_size >>
    BY <1>2, <1>9, <2>1 DEF DeclaratorSuffix
  <2>3. PICK e : e = At(Len(symtables'), "DT_PARAMETER", b)
    OBVIOUS
  <2>4. /\ Len(symtables) \in Nat /\ Len(symtables') = Len(symtables) + 1
        /\ symtables'[Len(symtables) + 1] = Len(tables) + 1
        /\ Len(tables) + 1 \notin Structs(symbols)
        /\ Tidy(symtables', tables', symbols') /\ Free(ret.type, symbols', Len(tables'))
        /\ Spared(Len(symtables), symtables, symbols, Len(tables), symtables', symbols', Len(tables'))
        /\ Placed(Where(b), symtables', symbols')
        /\ Laid(Tail(stack), Where(b), symtables', symbols', Len(tables'))
        /\ \A c : (b = 0 => c # Local) => Placed(At(Len(symtables'), c, b), symtables', symbols')
    <3>1. symbols' = symbols /\ PushNew
      BY <2>2
    <3> QED
      BY <1>1, <3>1, NewScopeLays
  <2>5. /\ Where(b) = At(Len(symtables), cur_decl_type, b)
        /\ e.k = Len(symtables) + 1 /\ e.c = "DT_PARAMETER" /\ e.b = b
    BY <2>3, <2>4, AtIs DEF Where
  <2>6. Placed(e, symtables', symbols')
    BY <2>3, <2>4 DEF Local
  <2>7. Laid(<< z >> \o Tail(stack), Where(b), symtables', symbols', Len(tables'))
    <3>1. Free(z.inner, symbols', Len(tables'))
      BY <1>3, <1>4, <2>4, FreeStays
    <3>2. /\ Held(z) = 0
          /\ z.do \notin {"field", "variable", "end_of_body", "body"} \cup InParameters \cup DeclCalls
      BY <1>3 DEF Held, Closers, InParameters, DeclCalls
    <3>3. Suits(z, Where(b), symtables', symbols', Len(tables'))
      BY <2>4, <3>1, <3>2 DEF Suits
    <3>4. Below(z, Where(b)) = Where(b)
      <4>1. Where(b).k - 0 = Where(b).k /\ Where(b) = At(Where(b).k, Where(b).c, Where(b).b)
        BY <2>4 DEF Placed
      <4> QED
        BY <3>2, <4>1 DEF Below
    <3> QED
      BY <2>4, <3>3, <3>4, LaidPush
  <2>8. Laid(<< x >> \o (<< z >> \o Tail(stack)), e, symtables', symbols', Len(tables'))
    <3>1. x.do = "parameters" /\ x.old = cur_decl_type
      BY <2>1
    <3>2. /\ Held(x) = 1 /\ x.do \in InParameters
          /\ x.do \notin {"field", "suffix", "linked", "variable", "end_of_body", "body"} \cup DeclCalls
      BY <3>1 DEF Held, Closers, InParameters, DeclCalls
    <3>3. e.k - 1 = Len(symtables)
      BY <2>4, <2>5
    <3>4. Below(x, e) = Where(b)
      BY <2>5, <3>1, <3>2, <3>3 DEF Below
    <3>5. symtables'[e.k] \notin Structs(symbols')
      BY <2>2, <2>4, <2>5
    <3>6. Suits(x, e, symtables', symbols', Len(tables'))
      BY <2>6, <3>2, <3>5 DEF Suits
    <3> QED
      BY <2>7, <3>4, <3>6, LaidPush
  <2>9. << x, z >> \o Tail(stack) = << x >> \o (<< z >> \o Tail(stack))
    BY <2>4, InFront DEF Laid
  <2>10. Laid(stack', At(Len(symtables'), cur_decl_type', b), symtables', symbols', Len(tables'))
    BY <2>2, <2>3, <2>8, <2>9 DEF Continue
  <2>11. Framed(b, function_locals_size', symbols') /\ Free(ret'.type, symbols', Len(tables'))
    BY <2>2, <2>4 DEF Laying
  <2> QED
    BY <2>4, <2>10, <2>11, LayGoesOn
<1> QED
  BY <1>7, <1>8, <1>9

----------------------------------------------------------------------------
(* Bodies *)

\* All calls but the outermost stand over another.
LEMMA TailStands ==
  ASSUME Standing, todo.do # "unit"
  PROVE  /\ Tail(stack) # << >> /\ IsSeq(Tail(stack))
         /\ todo.do \in {"body", "end_of_body"} => Head(Tail(stack)).do = "separator"
<1>1. IsSeq(stack) /\ Shape(stack)
  BY DEF Standing, ScopesInv, Balanced, Stacked
<1> DEFINE R == {stack[n] : n \in 1 .. Len(stack)}
<1>2. stack \in Seq(R) /\ stack # << >>
  BY <1>1 DEF IsSeq, Standing
<1> HIDE DEF R
<1>3. /\ 1 \in 1 .. Len(stack) /\ todo = stack[1]
      /\ Len(stack) # 1 => Tail(stack) # << >> /\ Head(Tail(stack)) = stack[1 + 1]
  BY <1>2, HeadAndTail DEF todo
<1>4. /\ Len(stack) # 1 /\ todo.do \in {"body", "end_of_body"} => stack[1 + 1].do = "separator"
  BY <1>1, <1>3 DEF Shape
<1>5. IsSeq(Tail(stack))
  <2>1. PICK t : t = Tail(stack)
    OBVIOUS
  <2>2. t \in Seq(R)
    BY <1>2, <2>1
  <2>3. IsSeq(t)
    BY <2>2, SeqIsSeq, Zenon
  <2> QED
    BY <2>1, <2>3
<1>6. Len(stack) # 1
  <2>1. (stack[1].do = "unit") <=> (1 = Len(stack))
    BY <1>1, <1>3 DEF Shape
  <2> QED
    BY <1>3, <2>1
<1> QED
  BY <1>3, <1>4, <1>5, <1>6

\* What is known before a body, or where there is none.
Announced(b) ==
  /\ Standing /\ Whole /\ Free(ret.type, symbols, Len(tables)) /\ Tidy(symtables, tables, symbols)
  /\ Framed(b, function_locals_size, symbols) /\ BodyAt(b)

\* The body of a function: its frame is empty.
LEMMA BodyLays ==
  ASSUME NEW b, Announced(b), Noting, FunctionBody
  PROVE  LayInv'
<1> SUFFICES ASSUME Whole' PROVE LayInv'
  BY DEF LayInv
<1>1. Standing /\ todo.do = "body" /\ todo.do \notin Closers /\ todo.do # "end_of_body"
  BY DEF FunctionBody, Doing, Closers, Announced
<1>2. Laid(Tail(stack), Where(b), symtables, symbols, Len(tables))
  BY DEF Announced, BodyAt
<1>3. Tail(stack) # << >>
  BY <1>1, TailStands
<1>4. Placed(Where(b), symtables, symbols)
  BY <1>2, <1>3, LaidPop DEF Suits
<1>5. Where(b).k = Len(symtables) /\ Where(b).c = cur_decl_type /\ Where(b).b = b
  BY AtIs DEF Where
<1>6. CASE token # "{"
  <2>1. /\ Continue(<< >>) /\ SameScopes /\ UNCHANGED << ret, cur_decl_type, function_locals_size >>
    BY <1>6 DEF FunctionBody, Leaving, Kept, SameScopes
  <2>2. Laid(<< >> \o Tail(stack), Where(b), symtables, symbols, Len(tables))
    <3>1. Among(<< >>, {}) /\ \A x \in {} : Sits(x, Where(b), symtables, symbols, Len(tables))
      BY TuplesAmong
    <3> QED
      BY <1>2, <3>1, LaidMore
  <2>3. Laid(stack', At(Len(symtables'), cur_decl_type', b), symtables', symbols', Len(tables'))
    BY <2>1, <2>2 DEF Continue, SameScopes, Where
  <2>4. /\ Free(ret'.type, symbols', Len(tables')) /\ Tidy(symtables', tables', symbols')
        /\ Framed(b, function_locals_size', symbols')
    BY <2>1 DEF Announced, SameScopes
  <2> QED
    BY <2>3, <2>4, LayGoesOn
<1>7. CASE token = "{"
  <2>1. PICK f : f = todo.function
    OBVIOUS
  <2>2. PICK x : x = [do |-> "end_of_body", function |-> f, opened |-> Meaning]
    OBVIOUS
  <2>3. PICK n : n = symbols[f].symtable
    OBVIOUS
  <2>4. /\ PushTable(n) /\ function_locals_size' = 0 /\ cur_decl_type' = Local
        /\ Continue(<< Item("stmt"), x >>) /\ UNCHANGED << ret, tables, symbols >>
        /\ seen' = [seen EXCEPT !.nested = @ \/ Function # 0]
    BY <1>7, <2>1, <2>2, <2>3 DEF FunctionBody
  <2>5. /\ f \in DOMAIN symbols /\ symbols[f].kind = "function" /\ n > Current
        /\ Current = symtables[Len(symtables)]
    <3>1. Apart
      BY <1>1 DEF Apart
    <3> QED
      BY <1>1, <2>1, <2>3, <3>1, HeadHoused, StandingIs DEF Settled
  <2>6. /\ IsSeq(tables) /\ Len(tables) \in Nat /\ Len(symtables) \in Nat /\ SymbolsOK(symbols, Len(tables))
        /\ ScopesLead /\ Current \in 1 .. Len(tables) /\ TablesOK(tables, symbols)
    BY <1>1, StandingIs
  <2>7. f \in 1 .. Len(symbols) /\ n \in 1 .. Len(tables) /\ Len(symbols) \in Nat
    <3>1. DOMAIN symbols = 1 .. Len(symbols) /\ Len(symbols) \in Nat
      BY <2>6 DEF SymbolsOK, IsSeq
    <3>2. IsSymbol(symbols[f], symbols, Len(tables))
      BY <2>5, <2>6, <3>1 DEF SymbolsOK
    <3> QED
      BY <2>3, <2>5, <2>6, <3>1, <3>2 DEF IsSymbol
  <2>8. b = 0
    <3>1. ~ seen'.nested
      BY DEF Whole
    <3>2. Function = 0
      BY <2>4, <3>1 DEF Noting
    <3>3. Function = Where(b).b
      <4>1. stack # << >> /\ IsSeq(stack)
        BY <1>1 DEF Standing, TypesInv, Manned, Staffed
      <4> QED
        BY <1>1, <1>2, <4>1, FunctionBelow
    <3> QED
      BY <1>5, <3>2, <3>3
  <2>9. n \notin Structs(symbols) /\ \A s \in DOMAIN symbols : symbols[s].function # f
    BY <2>1, <2>3 DEF Announced, BodyAt
  <2>10. /\ Len(symtables') = Len(symtables) + 1 /\ symtables'[Len(symtables) + 1] = n
         /\ \A i \in 1 .. Len(symtables) : symtables'[i] = symtables[i]
    <3>1. n \in Nat
      BY <2>6, <2>7
    <3> QED
      BY <1>1, <2>4, <2>5, <3>1, ScopePushed
  <2>11. Spared(Len(symtables), symtables, symbols, Len(tables), symtables', symbols', Len(tables'))
    BY <1>1, <2>4, <2>6, <2>10, SparedScopes
  <2>12. PICK g : g = At(Len(symtables), Global, 0)
    OBVIOUS
  <2>13. g.k = Len(symtables) /\ g.c = Global /\ g.b = 0
    BY <2>12, AtIs
  <2>14. Laid(Tail(stack), g, symtables', symbols', Len(tables'))
    <3>1. PICK s : s = Tail(stack)
      OBVIOUS
    <3>2. \A i \in 1 .. Len(s) : IsItem(s[i], symbols, Len(tables))
      BY <1>1, <3>1, TailItems
    <3>3. Laid(s, g, symtables, symbols, Len(tables))
      <4>1. Where(b).c # Local
        BY <1>4, <1>5, <2>8 DEF Placed
      <4>2. g = At(Where(b).k, Global, Where(b).b)
        BY <1>5, <2>8, <2>12
      <4> QED
        BY <1>2, <3>1, <4>1, <4>2, LaidGlobal
    <3>4. g.k \in Nat /\ g.k <= Len(symtables)
      BY <2>6, <2>13
    <3>5. Laid(s, g, symtables', symbols', Len(tables'))
      BY <2>6, <2>11, <3>2, <3>3, <3>4, LaidStays
    <3> QED
      BY <3>1, <3>5
  <2>15. PICK e : e = At(Len(symtables) + 1, Local, f)
    OBVIOUS
  <2>16. e.k = Len(symtables) + 1 /\ e.c = Local /\ e.b = f
    BY <2>15, AtIs
  <2>17. Placed(e, symtables', symbols')
    <3>1. e = At(e.k, e.c, e.b)
      BY <2>15, <2>16
    <3>2. e.k \in Nat \ {0} /\ e.b \in 0 .. Len(symbols') /\ e.b # 0
      BY <2>4, <2>6, <2>7, <2>16
    <3>3. symtables'[e.k] \notin Structs(symbols')
      BY <2>4, <2>9, <2>10, <2>16
    <3> QED
      BY <3>1, <3>2, <3>3 DEF Placed
  <2>18. Laid(<< x >> \o Tail(stack), e, symtables', symbols', Len(tables'))
    <3>1. x.do = "end_of_body" /\ x.function = f
      BY <2>2
    <3>2. /\ Held(x) = 1
          /\ x.do \notin {"field", "suffix", "linked", "variable", "body"} \cup DeclCalls \cup InParameters
      BY <3>1 DEF Held, Closers, DeclCalls, InParameters
    <3>3. e.k - 1 = Len(symtables)
      BY <2>6, <2>16
    <3>4. Below(x, e) = g
      BY <2>12, <3>1, <3>2, <3>3 DEF Below
    <3>5. Suits(x, e, symtables', symbols', Len(tables'))
      BY <2>16, <2>17, <3>1, <3>2 DEF Suits
    <3> QED
      BY <2>14, <3>4, <3>5, LaidPush
  <2>19. Laid(stack', At(Len(symtables'), cur_decl_type', f), symtables', symbols', Len(tables'))
    <3>1. Simple(Item("stmt"), e.c)
      <4>1. e.c # "DT_PARAMETER"
        BY <2>16 DEF Local
      <4> QED
        BY <4>1, SimpleItems
    <3>2. Laid(<< Item("stmt") >> \o (<< x >> \o Tail(stack)), e, symtables', symbols', Len(tables'))
      BY <2>17, <2>18, <3>1, SimpleLaid
    <3>3. << Item("stmt"), x >> \o Tail(stack) = << Item("stmt") >> \o (<< x >> \o Tail(stack))
      BY <2>14, InFront DEF Laid
    <3> QED
      BY <2>4, <2>10, <2>15, <3>2, <3>3 DEF Continue
  <2>20. Framed(f, function_locals_size', symbols')
    <3>1. LocalsOf(f, symbols) = {}
      BY <2>9 DEF LocalsOf
    <3>2. Framed(0, function_locals_size, symbols)
      BY <2>8 DEF Announced
    <3>3. ASSUME NEW h \in 1 .. Len(symbols), NEW v \in LocalsOf(h, symbols) PROVE h # f /\ h # 0
      BY <3>1, <3>3
    <3>4. Framed(f, 0, symbols)
      BY <3>2, <3>3 DEF Framed
    <3> QED
      BY <2>4, <3>4
  <2>21. Tidy(symtables', tables', symbols')
    <3>1. ASSUME NEW s \in DOMAIN symbols, symbols[s].complete, NEW i \in 1 .. Len(symtables')
          PROVE  symtables'[i] # symbols[s].symtable
      <4>1. CASE i \in 1 .. Len(symtables)
        BY <2>10, <3>1, <4>1 DEF Announced, Tidy, TagsClosed
      <4>2. CASE i = Len(symtables) + 1
        <5>1. symbols[s].symtable \in Structs(symbols)
          BY <3>1 DEF Announced, Tidy, TagsClosed, Structs
        <5> QED
          BY <2>9, <2>10, <4>2, <5>1
      <4> QED
        BY <2>6, <2>10, <4>1, <4>2
    <3>2. DOMAIN tables = 1 .. Len(tables)
      BY <2>6 DEF IsSeq
    <3>3. Tidy(symtables, tables, symbols)
      BY DEF Announced
    <3>4. Tidy(symtables', tables, symbols)
      BY <2>6, <3>1, <3>2, <3>3, TidyScopes
    <3> QED
      BY <2>4, <3>4
  <2>22. Free(ret'.type, symbols', Len(tables'))
    BY <2>4 DEF Announced
  <2> QED
    BY <2>19, <2>20, <2>21, <2>22, LayGoesOn
<1> QED
  BY <1>6, <1>7

----------------------------------------------------------------------------
(* Scopes are left *)

\* Sums of sizes that stay the same stay what they are,
LEMMA SumsSame ==
  ASSUME NEW Y, NEW Z, NEW table, NEW S, SameSizes(Y, Z, table, S), NEW f, Sums(Y, f, table, SUBSET S)
  PROVE  Sums(Z, f, table, SUBSET S)
<1>1. ASSUME NEW r \in SUBSET S, r # {}, NEW x, x = CHOOSE y \in r : TRUE
      PROVE  Z[table[x].sym].size = Y[table[x].sym].size
  <2>1. x \in r
    BY <1>1
  <2> QED
    BY <2>1 DEF SameSizes
<1> DEFINE Added(W) == [s \in SUBSET S |->
         IF s = {} THEN 0
         ELSE LET x == CHOOSE x \in s : TRUE IN W[table[x].sym].size + f[s \ {x}]]
<1>2. Added(Z) = Added(Y)
  BY <1>1
<1> QED
  BY <1>2 DEF Sums

\* and so do structs whose fields stay where they are.
LEMMA FilledStays ==
  ASSUME NEW s, NEW table, NEW Y, NEW Z, Filled(s, table, Y), Z[s].kind = Y[s].kind, Z[s].size = Y[s].size,
         FieldsOf(table, Z) = FieldsOf(table, Y),
         \A i \in FieldsOf(table, Y) : /\ Z[table[i].sym].size = Y[table[i].sym].size
                                       /\ Z[table[i].sym].offset = Y[table[i].sym].offset
  PROVE  Filled(s, table, Z)
<1>1. PICK F : F = FieldsOf(table, Y)
  OBVIOUS
<1>2. \A i \in F : /\ Z[table[i].sym].size = Y[table[i].sym].size
                   /\ Z[table[i].sym].offset = Y[table[i].sym].offset
  BY <1>1
<1>3. CASE Y[s].kind = "struct"
  <2>1. PICK f : Sums(Y, f, table, SUBSET F) /\ Y[s].size = f[F]
    BY <1>1, <1>3 DEF Filled
  <2>2. SameSizes(Y, Z, table, F)
    BY <1>2 DEF SameSizes
  <2>3. Sums(Z, f, table, SUBSET F)
    BY <2>1, <2>2, SumsSame
  <2>4. /\ \A i \in F : Y[table[i].sym].offset \in Nat /\ Y[table[i].sym].offset + Y[table[i].sym].size <= Y[s].size
        /\ \A i, j \in F : i < j => Y[table[i].sym].offset + Y[table[i].sym].size <= Y[table[j].sym].offset
    BY <1>1, <1>3 DEF Filled
  <2>5. /\ \A i \in F : Z[table[i].sym].offset \in Nat /\ Z[table[i].sym].offset + Z[table[i].sym].size <= Z[s].size
        /\ \A i, j \in F : i < j => Z[table[i].sym].offset + Z[table[i].sym].size <= Z[table[j].sym].offset
    BY <1>2, <2>4
  <2>6. Z[s].size = f[F] /\ Z[s].kind = "struct" /\ F = FieldsOf(table, Z)
    BY <1>1, <1>3, <2>1
  <2> QED
    BY <2>3, <2>5, <2>6 DEF Filled
<1>4. CASE Y[s].kind # "struct"
  <2>1. /\ Y[s].size = Max({0} \cup {Y[table[i].sym].size : i \in F})
        /\ \A i \in F : Y[table[i].sym].offset = 0 /\ Y[table[i].sym].size <= Y[s].size
    BY <1>1, <1>4 DEF Filled
  <2>2. {Z[table[i].sym].size : i \in F} = {Y[table[i].sym].size : i \in F}
    BY <1>2
  <2>3. /\ Z[s].size = Max({0} \cup {Z[table[i].sym].size : i \in F})
        /\ \A i \in F : Z[table[i].sym].offset = 0 /\ Z[table[i].sym].size <= Z[s].size
    BY <1>2, <2>1, <2>2
  <2>4. Z[s].kind # "struct" /\ F = FieldsOf(table, Z)
    BY <1>1, <1>4
  <2> QED
    BY <2>3, <2>4 DEF Filled
<1> QED
  BY <1>3, <1>4

\* The symbols Z are those of Y, but for the bytes of frames.
Alike(Y, Z) ==
  /\ IsSeq(Y) /\ DOMAIN Z = DOMAIN Y /\ Len(Z) = Len(Y)
  /\ \A s \in DOMAIN Y :
       /\ Z[s].kind = Y[s].kind /\ Z[s].type = Y[s].type /\ Z[s].size = Y[s].size
       /\ Z[s].offset = Y[s].offset /\ Z[s].symtable = Y[s].symtable
       /\ Z[s].complete = Y[s].complete /\ Z[s].function = Y[s].function
       /\ Z[s].locals_size \in Nat

\* What is written down stays true.
LEMMA TidyAlike ==
  ASSUME NEW S, NEW B, NEW Y, NEW Z, Tidy(S, B, Y), Alike(Y, Z), TablesOK(B, Y), SymbolsOK(Y, Len(B))
  PROVE  Tidy(S, B, Z)
<1>1. SizesStand(Y, Z) /\ Tags(Z) = Tags(Y) /\ DOMAIN Z = DOMAIN Y /\ DOMAIN Y = 1 .. Len(Y)
  BY DEF Alike, SizesStand, Tags, IsSeq
<1>2. TypesSized(Z)
  <2>1. ASSUME NEW s \in DOMAIN Y, Y[s].kind \in Measured PROVE Sized(Y[s].type, Y[s].size, Z)
    <3>1. Sized(Y[s].type, Y[s].size, Y)
      BY <2>1 DEF Tidy, TypesSized
    <3>2. IsParts(Y[s].type, Y, Len(B))
      BY <1>1 DEF SymbolsOK, IsSymbol
    <3> QED
      BY <1>1, <3>1, <3>2, SizedStays
  <2> QED
    BY <1>1, <2>1 DEF TypesSized, Alike
<1>3. \A s \in DOMAIN Y : Y[s].symtable # 0 => Y[s].symtable \in DOMAIN B
  <2>1. \A s \in DOMAIN Y : IsSymbol(Y[s], Y, Len(B))
    BY <1>1 DEF SymbolsOK
  <2>2. DOMAIN B = 1 .. Len(B) /\ Len(B) \in Nat
    BY DEF TablesOK, IsSeq
  <2> QED
    BY <2>1, <2>2 DEF IsSymbol
<1>4. \A t \in DOMAIN B : \A i \in DOMAIN B[t] : B[t][i].sym \in DOMAIN Y
  <2>1. DOMAIN B = 1 .. Len(B)
    BY DEF TablesOK, IsSeq
  <2>2. ASSUME NEW t \in DOMAIN B, NEW i \in DOMAIN B[t] PROVE B[t][i].sym \in DOMAIN Y
    <3>1. PICK c : c = B[t]
      OBVIOUS
    <3>2. IsSeq(c) /\ \A j \in 1 .. Len(c) : IsEntry(c[j], Y)
      BY <2>1, <3>1 DEF TablesOK
    <3>3. DOMAIN c = 1 .. Len(c)
      BY <3>2 DEF IsSeq
    <3> QED
      BY <3>1, <3>2, <3>3 DEF IsEntry
  <2> QED
    BY <2>2
<1>5. TagsApart(Z)
  BY <1>1 DEF Tidy, TagsApart, Alike, Tags
<1>6. TagsHold(B, Z)
  BY <1>1, <1>3, <1>4 DEF Tidy, TagsHold, Alike, Tags
<1>7. TagsOpen(Z)
  BY <1>1 DEF Tidy, TagsOpen, Alike, Tags
<1>8. TagsClosed(S, B, Z)
  <2>1. ASSUME NEW s \in DOMAIN Y, Y[s].complete PROVE Filled(s, B[Y[s].symtable], Z)
    <3>1. PICK table : table = B[Y[s].symtable]
      OBVIOUS
    <3>2. Filled(s, table, Y) /\ Y[s].symtable # 0
      BY <2>1, <3>1 DEF Tidy, TagsClosed
    <3>3. \A i \in DOMAIN table : table[i].sym \in DOMAIN Y
      BY <1>3, <1>4, <3>1, <3>2
    <3>4. FieldsOf(table, Z) = FieldsOf(table, Y)
      BY <3>3 DEF FieldsOf, Alike
    <3>5. \A i \in FieldsOf(table, Y) : /\ Z[table[i].sym].size = Y[table[i].sym].size
                                        /\ Z[table[i].sym].offset = Y[table[i].sym].offset
      BY <3>3 DEF FieldsOf, Alike
    <3>6. Z[s].kind = Y[s].kind /\ Z[s].size = Y[s].size
      BY DEF Alike
    <3> QED
      BY <3>1, <3>2, <3>4, <3>5, <3>6, FilledStays
  <2>2. \A s \in DOMAIN Y : Y[s].complete =>
          s \in Tags(Y) /\ Y[s].symtable # 0 /\ \A i \in 1 .. Len(S) : S[i] # Y[s].symtable
    BY DEF Tidy, TagsClosed
  <2> QED
    BY <1>1, <2>1, <2>2 DEF TagsClosed, Alike
<1>9. Numbered(Z)
  BY <1>1 DEF Tidy, Numbered, Alike
<1>10. EntriesDiffer(B)
  BY DEF Tidy
<1> QED
  BY <1>2, <1>5, <1>6, <1>7, <1>8, <1>9, <1>10 DEF Tidy

\* The scopes below the k-th are left alone, and all that places depend on.
LEMMA SparedAlike ==
  ASSUME Standing, Alike(symbols, symbols'), tables' = tables,
         NEW k \in 0 .. Len(symtables), \A i \in 1 .. k : symtables'[i] = symtables[i]
  PROVE  Spared(k, symtables, symbols, Len(tables), symtables', symbols', Len(tables'))
<1>1. /\ Len(tables) \in Nat /\ ScopesLead /\ Len(symtables) \in Nat /\ SymbolsOK(symbols, Len(tables))
  BY StandingIs
<1>2. Len(symbols) \in Nat /\ Len(symbols') = Len(symbols)
  BY <1>1 DEF SymbolsOK, IsSeq, Alike
<1>3. /\ Grown(symbols, symbols') /\ SizesStand(symbols, symbols') /\ Tags(symbols') = Tags(symbols)
      /\ Structs(symbols') = Structs(symbols)
  BY DEF Grown, SizesStand, Alike, Tags, Structs
<1>4. \A i \in 1 .. k : i \in 1 .. Len(symtables)
  BY <1>1
<1>5. \A i \in 1 .. k : symtables[i] \in 1 .. Len(tables)
  BY <1>1, <1>4 DEF ScopesLead
<1>6. \A s \in Tags(symbols) : symbols'[s].symtable = symbols[s].symtable /\ symbols'[s].complete = symbols[s].complete
  BY DEF Alike, Tags
<1> QED
  BY <1>1, <1>2, <1>3, <1>5, <1>6 DEF Spared

LEMMA AlikeSame ==
  ASSUME Standing, NEW b, Tidy(symtables, tables, symbols)
  PROVE  Alike(symbols, symbols)
<1>1. SymbolsOK(symbols, Len(tables))
  BY StandingIs
<1> QED
  BY <1>1 DEF Alike, Tidy, Numbered, SymbolsOK

\* The innermost scope is left, with the call that was to close it.
LEMMA ScopeLeft ==
  ASSUME NEW b, Laying(b), todo.do \in Closers, Pop, Alike(symbols, symbols'), tables' = tables
  PROVE  /\ Len(symtables') = Len(symtables) - 1 /\ Len(symtables) - 1 \in Nat
         /\ Tidy(symtables', tables', symbols')
         /\ Spared(Len(symtables) - 1, symtables, symbols, Len(tables), symtables', symbols', Len(tables'))
         /\ Free(ret.type, symbols', Len(tables'))
         /\ Laid(Tail(stack), Below(todo, Where(b)), symtables', symbols', Len(tables'))
         /\ Below(todo, Where(b)).k = Len(symtables) - 1 /\ Below(todo, Where(b)).k \in Nat
<1>1. Standing
  BY DEF Laying
<1>2. /\ IsSeq(tables) /\ Len(tables) \in Nat /\ Len(symtables) \in Nat /\ SymbolsOK(symbols, Len(tables))
      /\ TablesOK(tables, symbols) /\ Len(symtables) >= 2
  BY <1>1, StandingIs
<1>3. PICK k : k = Len(symtables) - 1
  OBVIOUS
<1>4. /\ Len(symtables') = k /\ k \in Nat /\ k \in 0 .. Len(symtables)
      /\ \A i \in 1 .. k : symtables'[i] = symtables[i] /\ i \in 1 .. Len(symtables)
  BY <1>1, <1>2, <1>3, ScopePopped
<1>5. Tidy(symtables', tables, symbols)
  <2>1. ASSUME NEW s \in DOMAIN symbols, symbols[s].complete, NEW i \in 1 .. Len(symtables')
        PROVE  symtables'[i] # symbols[s].symtable
    BY <1>4, <2>1 DEF Laying, Tidy, TagsClosed
  <2>2. DOMAIN tables = 1 .. Len(tables) /\ Tidy(symtables, tables, symbols)
    BY <1>2 DEF IsSeq, Laying
  <2> QED
    BY <1>2, <2>1, <2>2, TidyScopes
<1>6. Tidy(symtables', tables', symbols')
  BY <1>2, <1>5, TidyAlike
<1>7. Spared(k, symtables, symbols, Len(tables), symtables', symbols', Len(tables'))
  BY <1>1, <1>4, SparedAlike
<1>8. Free(ret.type, symbols', Len(tables'))
  BY <1>7, FreeStays DEF Laying
<1>9. PICK e : e = Below(todo, Where(b))
  OBVIOUS
<1>10. e.k = k
  BY <1>3, <1>9, AtIs DEF Below, Where, Held
<1>11. Laid(Tail(stack), e, symtables', symbols', Len(tables'))
  <2>1. PICK s : s = Tail(stack)
    OBVIOUS
  <2>2. \A n \in 1 .. Len(s) : IsItem(s[n], symbols, Len(tables))
    BY <1>1, <2>1, TailItems
  <2>3. Laid(s, e, symtables, symbols, Len(tables))
    BY <1>9, <2>1, HeadLaid
  <2>4. e.k <= k /\ e.k \in Nat
    BY <1>4, <1>10
  <2>5. Laid(s, e, symtables', symbols', Len(tables'))
    BY <1>4, <1>7, <2>2, <2>3, <2>4, LaidStays
  <2> QED
    BY <2>1, <2>5
<1> QED
  BY <1>3, <1>4, <1>6, <1>7, <1>8, <1>9, <1>10, <1>11

\* What is at the head stands in the current scope.
LEMMA WhereIs ==
  ASSUME NEW b
  PROVE  Where(b).k = Len(symtables) /\ Where(b).c = cur_decl_type /\ Where(b).b = b
  BY AtIs DEF Where

\* Nothing in front.
LEMMA NothingInFront ==
  ASSUME NEW s, NEW e, NEW S, NEW Y, NEW T, Laid(s, e, S, Y, T)
  PROVE  Laid(<< >> \o s, e, S, Y, T)
<1>1. Among(<< >>, {}) /\ \A x \in {} : Sits(x, e, S, Y, T)
  BY TuplesAmong
<1> QED
  BY <1>1, LaidMore

\* The end of a block, and of a statement with a scope of its own.
LEMMA StatementCloses ==
  ASSUME NEW b, Laying(b), (Block /\ token = "}") \/ EndOfNested
  PROVE  LayInv'
<1>1. todo.do \in {"block", "close"} /\ todo.do \in Closers
  BY DEF Block, EndOfNested, Doing, Closers
<1>2. /\ Pop /\ Continue(<< >>) /\ UNCHANGED << ret, tables, symbols, cur_decl_type, function_locals_size >>
  BY DEF Block, EndOfNested
<1>3. Standing /\ Tidy(symtables, tables, symbols)
  BY DEF Laying
<1>4. Alike(symbols, symbols')
  BY <1>2, <1>3, AlikeSame
<1>5. /\ Len(symtables') = Len(symtables) - 1 /\ Tidy(symtables', tables', symbols')
      /\ Free(ret.type, symbols', Len(tables'))
      /\ Laid(Tail(stack), Below(todo, Where(b)), symtables', symbols', Len(tables'))
  BY <1>1, <1>2, <1>4, ScopeLeft
<1>6. Below(todo, Where(b)) = At(Len(symtables'), cur_decl_type', b)
  <2>1. todo.do \notin {"field", "end_of_body"} \cup InParameters
    BY <1>1 DEF InParameters
  <2>2. Held(todo) = 1 /\ todo.do # "end_of_body" /\ cur_decl_type' = cur_decl_type
    BY <1>1, <1>2 DEF Held
  <2>3. Where(b).k = Len(symtables) /\ Where(b).c = cur_decl_type /\ Where(b).b = b
    BY WhereIs
  <2> QED
    BY <1>5, <2>1, <2>2, <2>3 DEF Below
<1>7. Laid(stack', At(Len(symtables'), cur_decl_type', b), symtables', symbols', Len(tables'))
  BY <1>2, <1>5, <1>6, NothingInFront DEF Continue
<1>8. Framed(b, function_locals_size', symbols') /\ Free(ret'.type, symbols', Len(tables'))
  BY <1>2, <1>5 DEF Laying
<1> QED
  BY <1>5, <1>7, <1>8, LayGoesOn

\* The end of parameters: a function's type is behind what stands around its name.
LEMMA ParametersClose ==
  ASSUME NEW b, Laying(b), FunctionDeclarator
  PROVE  LayInv'
<1>1. todo.do = "parameters_end" /\ todo.do \in Closers /\ todo.do \in InParameters
  BY DEF FunctionDeclarator, Doing, Closers, InParameters
<1>2. Standing /\ Tidy(symtables, tables, symbols)
  BY DEF Laying
<1>3. CASE token # ")"
  BY <1>2, <1>3, LayFails DEF FunctionDeclarator
<1>4. CASE token = ")"
  <2>1. /\ Pop /\ Continue(<< >>) /\ UNCHANGED << tables, symbols, function_locals_size >>
        /\ cur_decl_type' = todo.old /\ Returning(Of("func", Current) \o todo.outer, NoName)
    BY <1>4 DEF FunctionDeclarator
  <2>2. Alike(symbols, symbols')
    BY <1>2, <2>1, AlikeSame
  <2>3. /\ Len(symtables') = Len(symtables) - 1 /\ Tidy(symtables', tables', symbols')
        /\ Laid(Tail(stack), Below(todo, Where(b)), symtables', symbols', Len(tables'))
    BY <1>1, <2>1, <2>2, ScopeLeft
  <2>4. Below(todo, Where(b)) = At(Len(symtables'), cur_decl_type', b)
    BY <1>1, <2>1, <2>3, AtIs DEF Below, Where, Held
  <2>5. Laid(stack', At(Len(symtables'), cur_decl_type', b), symtables', symbols', Len(tables'))
    BY <2>1, <2>3, <2>4, NothingInFront DEF Continue
  <2>6. Free(ret'.type, symbols', Len(tables'))
    <3>1. IsPointers(todo.outer)
      <4>1. IsItem(todo, symbols, Len(tables))
        BY <1>2, StandingIs
      <4> QED
        BY <1>1, <4>1 DEF IsItem, InDeclarator
    <3>2. IsSeq(todo.outer) /\ Free(todo.outer, symbols, Len(tables))
      BY <3>1, FreeTypes
    <3>3. Current \in (1 .. Len(tables)) \ Structs(symbols)
      <4>1. Suits(todo, Where(b), symtables, symbols, Len(tables)) /\ Where(b).k = Len(symtables)
        BY HeadLaid, AtIs DEF Where
      <4>2. Current = symtables[Len(symtables)] /\ Current \in 1 .. Len(tables)
        BY <1>2, StandingIs
      <4> QED
        BY <1>1, <4>1, <4>2 DEF Suits
    <3>4. IsSeq(Of("func", Current)) /\ Free(Of("func", Current), symbols, Len(tables))
      <4>1. PICK p : p = [kind |-> "func", sym |-> Current]
        OBVIOUS
      <4>2. \A i \in 1 .. Len(<< p >>) : << p >>[i] = p
        BY One
      <4>3. p.sym = Current
        BY <4>1
      <4>4. Free(<< p >>, symbols, Len(tables))
        BY <3>3, <4>2, <4>3 DEF Free
      <4>5. Of("func", Current) = << p >>
        BY <4>1 DEF Of
      <4> QED
        BY <4>4, <4>5, One
    <3>5. Free(Of("func", Current) \o todo.outer, symbols, Len(tables))
      BY <3>2, <3>4, FreeTypes
    <3> QED
      BY <2>1, <3>5 DEF Returning
  <2>7. Framed(b, function_locals_size', symbols')
    BY <2>1 DEF Laying
  <2> QED
    BY <2>3, <2>5, <2>6, <2>7, LayGoesOn
<1> QED
  BY <1>3, <1>4

\* The end of a body: the frame is as large as it has become.
LEMMA EndOfBodyLays ==
  ASSUME NEW b, Laying(b), EndOfBody
  PROVE  LayInv'
<1>1. todo.do = "end_of_body" /\ todo.do \in Closers
  BY DEF EndOfBody, Doing, Closers
<1>2. Standing /\ Tidy(symtables, tables, symbols) /\ Framed(b, function_locals_size, symbols)
  BY DEF Laying
<1>3. todo.function = b
  BY <1>1, HeadLaid, AtIs DEF Suits, Where
<1>4. /\ symbols' = [symbols EXCEPT ![b].locals_size = function_locals_size]
      /\ Pop /\ cur_decl_type' = Global /\ stack' = Tail(Tail(stack))
      /\ UNCHANGED << ret, tables, function_locals_size >>
  BY <1>3 DEF EndOfBody
<1>5. /\ SymbolsOK(symbols, Len(tables)) /\ function_locals_size \in Nat
      /\ DOMAIN symbols = 1 .. Len(symbols) /\ Len(symbols) \in Nat /\ IsSeq(symbols)
  <2>1. SymbolsOK(symbols, Len(tables))
    BY <1>2, StandingIs
  <2> QED
    BY <1>2, <2>1 DEF SymbolsOK, IsSeq, Standing, TypesInv, Steady
<1>6. b \in DOMAIN symbols
  <2>1. IsItem(todo, symbols, Len(tables))
    BY <1>2, StandingIs
  <2> QED
    BY <1>1, <1>3, <2>1 DEF IsItem
<1>7. ASSUME NEW s \in DOMAIN symbols
      PROVE  /\ symbols'[s].kind = symbols[s].kind /\ symbols'[s].type = symbols[s].type
             /\ symbols'[s].size = symbols[s].size /\ symbols'[s].offset = symbols[s].offset
             /\ symbols'[s].symtable = symbols[s].symtable /\ symbols'[s].complete = symbols[s].complete
             /\ symbols'[s].function = symbols[s].function
             /\ symbols'[s].locals_size = IF s = b THEN function_locals_size ELSE symbols[s].locals_size
  <2>1. DOMAIN symbols[s] = SymbolFields
    BY <1>5 DEF SymbolsOK, IsSymbol
  <2>2. symbols'[s] = IF s = b THEN [symbols[s] EXCEPT !.locals_size = function_locals_size] ELSE symbols[s]
    BY <1>4
  <2> QED
    BY <2>1, <2>2 DEF SymbolFields
<1>8. DOMAIN symbols' = DOMAIN symbols /\ Len(symbols') = Len(symbols)
  <2>1. DOMAIN symbols' = 1 .. Len(symbols)
    BY <1>4, <1>5
  <2>2. Len(symbols') = Len(symbols)
    <3> DEFINE V == {symbols[n] : n \in 1 .. Len(symbols)} \cup {symbols'[n] : n \in 1 .. Len(symbols)}
    <3>1. symbols \in Seq(V)
      BY <1>5 DEF IsSeq
    <3>2. \A n \in 1 .. Len(symbols) : symbols'[n] \in V
      OBVIOUS
    <3>3. symbols' \in [1 .. Len(symbols) -> V]
      BY <1>4, <2>1, <3>2
    <3> HIDE DEF V
    <3>4. symbols' \in Seq(V)
      BY <1>5, <3>3
    <3> QED
      BY <1>5, <2>1, <3>4
  <2> QED
    BY <1>5, <2>1, <2>2
<1>9. \A s \in DOMAIN symbols : symbols'[s].locals_size \in Nat
  BY <1>2, <1>5, <1>7 DEF Tidy, Numbered
<1>10. Alike(symbols, symbols')
  BY <1>5, <1>7, <1>8, <1>9 DEF Alike
<1>11. /\ Len(symtables') = Len(symtables) - 1 /\ Len(symtables) - 1 \in Nat
       /\ Tidy(symtables', tables', symbols') /\ Free(ret.type, symbols', Len(tables'))
       /\ Laid(Tail(stack), Below(todo, Where(b)), symtables', symbols', Len(tables'))
  BY <1>1, <1>4, <1>10, ScopeLeft
<1>12. PICK e : e = At(Len(symtables'), Global, 0)
  OBVIOUS
<1>13. e.k = Len(symtables') /\ e.c = Global /\ e.b = 0 /\ Below(todo, Where(b)) = e
  <2>1. todo.do \notin {"field"} \cup InParameters
    BY <1>1 DEF InParameters
  <2> QED
    BY <1>1, <1>11, <1>12, <2>1, AtIs DEF Below, Where, Held
<1>14. Laid(Tail(Tail(stack)), e, symtables', symbols', Len(tables'))
  <2>1. PICK s : s = Tail(stack)
    OBVIOUS
  <2>2. s # << >> /\ Head(s).do = "separator"
    BY <1>1, <1>2, <2>1, TailStands
  <2>3. Laid(Tail(s), Below(Head(s), e), symtables', symbols', Len(tables'))
    BY <1>11, <1>13, <2>1, <2>2, LaidPop
  <2>4. Below(Head(s), e) = e
    <3>1. Held(Head(s)) = 0 /\ Head(s).do \notin {"field", "end_of_body"} \cup InParameters
      BY <2>2 DEF Held, Closers, InParameters
    <3>2. e.k - 0 = e.k
      BY <1>11, <1>13
    <3> QED
      BY <1>12, <1>13, <3>1, <3>2 DEF Below
  <2> QED
    BY <2>1, <2>3, <2>4
<1>15. Laid(stack', At(Len(symtables'), cur_decl_type', 0), symtables', symbols', Len(tables'))
  BY <1>4, <1>12, <1>14
<1>16. Framed(0, function_locals_size', symbols')
  <2> SUFFICES ASSUME NEW f \in 1 .. Len(symbols), NEW v \in LocalsOf(f, symbols')
               PROVE  /\ symbols'[v].offset \in Int /\ symbols'[v].offset <= 0
                      /\ - symbols'[f].locals_size <= symbols'[v].offset - symbols'[v].size
                      /\ \A w \in LocalsOf(f, symbols') \ {v} :
                           \/ symbols'[v].offset <= symbols'[w].offset - symbols'[w].size
                           \/ symbols'[w].offset <= symbols'[v].offset - symbols'[v].size
    BY <1>8 DEF Framed
  <2>1. LocalsOf(f, symbols') = LocalsOf(f, symbols)
    BY <1>7, <1>8 DEF LocalsOf
  <2>2. LocalsOf(f, symbols) \subseteq DOMAIN symbols /\ f \in DOMAIN symbols
    BY <1>5 DEF LocalsOf
  <2>3. symbols'[f].locals_size = IF f = b THEN function_locals_size ELSE symbols[f].locals_size
    BY <1>7, <2>2
  <2> QED
    BY <1>2, <1>7, <2>1, <2>2, <2>3 DEF Framed
<1> QED
  BY <1>4, <1>11, <1>15, <1>16, LayGoesOn

----------------------------------------------------------------------------
(* A symbol is put into the current scope *)

\* One entry is new, and it is for the symbol s.
OneNew(old, new, s) ==
  \E m : \A i \in DOMAIN new : IF i = m THEN new[i].sym = s ELSE i \in DOMAIN old /\ new[i] = old[i]

\* The entries of its table are those it had, but for one.
LEMMA PutEntries ==
  ASSUME TablesOK(tables, symbols), Current \in 1 .. Len(tables), NEW name, NEW class, NEW s
  PROVE  OneNew(tables[Current], PutInto(name, class, s)[Current], s)
<1> DEFINE e == [name |-> name, class |-> class, sym |-> s]
           at == IF name = NoName THEN {} ELSE Entry(Current, name, class)
<1>1. PICK old : old = tables[Current]
  OBVIOUS
<1>2. IsSeq(old)
  BY <1>1 DEF TablesOK
<1> DEFINE new == IF at = {} THEN Append(old, e) ELSE [old EXCEPT ![Min(at)] = e]
           R == {old[n] : n \in 1 .. Len(old)} \cup {e}
<1>3. old \in Seq(R) /\ e \in R
  <2>1. old \in Seq({old[n] : n \in 1 .. Len(old)})
    BY <1>2 DEF IsSeq
  <2> QED
    BY <2>1
<1>4. PutInto(name, class, s)[Current] = new
  <2>1. PutInto(name, class, s) = [tables EXCEPT ![Current] = new]
    BY <1>1 DEF PutInto
  <2>2. Current \in DOMAIN tables
    BY DEF TablesOK, IsSeq
  <2> QED
    BY <2>1, <2>2
<1>5. \E m : \A i \in DOMAIN new : IF i = m THEN new[i] = e ELSE i \in DOMAIN old /\ new[i] = old[i]
  <2>1. CASE at = {}
    <3> DEFINE a == Append(old, e)
    <3> HIDE DEF R
    <3>1. /\ Len(a) = Len(old) + 1 /\ Len(old) \in Nat /\ DOMAIN a = 1 .. Len(old) + 1
          /\ \A i \in 1 .. Len(old) : a[i] = old[i]
          /\ a[Len(old) + 1] = e /\ DOMAIN old = 1 .. Len(old)
      BY <1>3, AppendProperties
    <3>2. new = a
      BY <2>1
    <3> HIDE DEF a, e, new
    <3>3. \A i \in DOMAIN a : IF i = Len(old) + 1 THEN a[i] = e ELSE i \in DOMAIN old /\ a[i] = old[i]
      BY <3>1
    <3> QED
      BY <3>2, <3>3
  <2>2. CASE at # {}
    <3> DEFINE a == [old EXCEPT ![Min(at)] = e]
    <3>1. new = a
      BY <2>2
    <3>2. \A i \in DOMAIN a : IF i = Min(at) THEN a[i] = e ELSE i \in DOMAIN old /\ a[i] = old[i]
      OBVIOUS
    <3> HIDE DEF a, new
    <3> QED
      BY <3>1, <3>2
  <2> QED
    BY <2>1, <2>2
<1> HIDE DEF new
<1>6. e.sym = s
  OBVIOUS
<1> HIDE DEF e
<1>7. OneNew(old, new, s)
  BY <1>5, <1>6 DEF OneNew
<1> QED
  BY <1>1, <1>4, <1>7

\* What may be put there.
MayBePut(r) ==
  /\ IsSymbol(r, symbols, Len(tables))
  /\ r.kind \in Measured => Sized(r.type, r.size, symbols)
  /\ r.kind \in TagKinds => r.symtable = 0 /\ r.size = 0
  /\ ~ r.complete /\ r.function \in 0 .. Len(symbols) /\ r.locals_size \in Nat
  /\ Current \in Structs(symbols) => r.kind \notin {"variable", "parameter"} /\ r.offset = 0

\* It is put under some name.
Putting(r) ==
  /\ symbols' = Append(symbols, r) /\ symtables' = symtables
  /\ \E name, class : /\ tables' = PutInto(name, class, Len(symbols) + 1)
                      /\ class = "SC_TAG" => r.kind \in TagKinds

\* There is one symbol more.
LEMMA PutMore ==
  ASSUME Standing, NEW r, MayBePut(r), Putting(r)
  PROVE  /\ Len(symbols) \in Nat /\ Len(symbols') = Len(symbols) + 1
         /\ DOMAIN symbols = 1 .. Len(symbols) /\ DOMAIN symbols' = 1 .. Len(symbols) + 1
         /\ symbols'[Len(symbols) + 1] = r /\ \A s \in 1 .. Len(symbols) : symbols'[s] = symbols[s]
         /\ SymbolsOK(symbols', Len(tables)) /\ Grown(symbols, symbols')
         /\ SizesStand(symbols, symbols')
         /\ Len(tables') = Len(tables) /\ TablesOK(tables', symbols')
         /\ DOMAIN tables = 1 .. Len(tables) /\ DOMAIN tables' = 1 .. Len(tables)
         /\ \A t \in 1 .. Len(tables) : t # Current => tables'[t] = tables[t]
<1>1. /\ Len(tables) \in Nat /\ SymbolsOK(symbols, Len(tables)) /\ TablesOK(tables, symbols)
      /\ Current \in 1 .. Len(tables)
  BY StandingIs
<1>2. IsSymbol(r, symbols, Len(tables)) /\ symbols' = Append(symbols, r)
  BY DEF MayBePut, Putting
<1>3. /\ Len(symbols) \in Nat /\ Len(symbols') = Len(symbols) + 1
      /\ DOMAIN symbols = 1 .. Len(symbols) /\ DOMAIN symbols' = 1 .. Len(symbols) + 1
      /\ symbols'[Len(symbols) + 1] = r /\ \A s \in 1 .. Len(symbols) : symbols'[s] = symbols[s]
      /\ SymbolsOK(symbols', Len(tables)) /\ Grown(symbols, symbols')
  BY <1>1, <1>2, OneSymbolMore
<1>4. SizesStand(symbols, symbols')
  BY <1>3 DEF SizesStand
<1>5. PICK name, class : /\ tables' = PutInto(name, class, Len(symbols) + 1)
                         /\ class = "SC_TAG" => r.kind \in TagKinds
  BY DEF Putting
<1>6. PICK n : n = Len(symbols) + 1
  OBVIOUS
<1>7. n \in DOMAIN symbols' /\ symbols'[n] = r
  BY <1>3, <1>6
<1>8. class = "SC_TAG" => n \in Tags(symbols')
  BY <1>5, <1>7 DEF Tags
<1>9. TablesOK(tables, symbols')
  BY <1>1, <1>3, StaffGrows
<1>10. /\ Len(tables') = Len(tables) /\ TablesOK(tables', symbols')
       /\ \A t \in 1 .. Len(tables) : t # Current => tables'[t] = tables[t]
  <2>1. tables' = PutInto(name, class, n)
    BY <1>5, <1>6
  <2>2. PICK Z : Z = symbols'
    OBVIOUS
  <2>3. TablesOK(tables, Z) /\ n \in DOMAIN Z /\ (class = "SC_TAG" => n \in Tags(Z))
    BY <1>7, <1>8, <1>9, <2>2
  <2>4. /\ TablesOK(PutInto(name, class, n), Z) /\ Len(PutInto(name, class, n)) = Len(tables)
        /\ \A t \in 1 .. Len(tables) : t # Current => PutInto(name, class, n)[t] = tables[t]
    BY <1>1, <2>3, PutIntoKeeps
  <2> QED
    BY <2>1, <2>2, <2>4
<1>11. DOMAIN tables = 1 .. Len(tables) /\ DOMAIN tables' = 1 .. Len(tables)
  <2>1. IsSeq(tables) /\ IsSeq(tables')
    BY <1>1, <1>10 DEF TablesOK
  <2> QED
    BY <1>10, <2>1 DEF IsSeq
<1> QED
  BY <1>3, <1>4, <1>10, <1>11

\* No scope becomes that of a struct.
LEMMA PutStructs ==
  ASSUME Standing, NEW r, MayBePut(r), Putting(r)
  PROVE  /\ Structs(symbols') = Structs(symbols)
         /\ \A s \in Tags(symbols') : symbols'[s].symtable # 0 => s \in Tags(symbols)
         /\ \A s \in Tags(symbols) : s \in Tags(symbols') /\ symbols'[s] = symbols[s]
<1>1. /\ Len(symbols) \in Nat /\ DOMAIN symbols = 1 .. Len(symbols) /\ DOMAIN symbols' = 1 .. Len(symbols) + 1
      /\ symbols'[Len(symbols) + 1] = r /\ \A s \in 1 .. Len(symbols) : symbols'[s] = symbols[s]
  BY PutMore
<1>2. \A s \in Tags(symbols') : symbols'[s].symtable # 0 => s \in Tags(symbols)
  <2>1. ASSUME NEW s \in DOMAIN symbols', s \notin DOMAIN symbols PROVE symbols'[s] = r
    BY <1>1, <2>1
  <2>2. r.kind \in TagKinds => r.symtable = 0
    BY DEF MayBePut
  <2> QED
    BY <1>1, <2>1, <2>2 DEF Tags
<1>3. \A s \in Tags(symbols) : s \in Tags(symbols') /\ symbols'[s] = symbols[s]
  BY <1>1 DEF Tags
<1>4. Structs(symbols') = Structs(symbols)
  BY <1>2, <1>3 DEF Structs
<1> QED
  BY <1>2, <1>3, <1>4

\* What is written down stays true,
LEMMA TidyPut ==
  ASSUME Standing, Tidy(symtables, tables, symbols), NEW r, MayBePut(r), Putting(r)
  PROVE  Tidy(symtables', tables', symbols')
<1>1. /\ Len(symbols) \in Nat /\ Len(symbols') = Len(symbols) + 1
      /\ DOMAIN symbols = 1 .. Len(symbols) /\ DOMAIN symbols' = 1 .. Len(symbols) + 1
      /\ symbols'[Len(symbols) + 1] = r /\ \A s \in 1 .. Len(symbols) : symbols'[s] = symbols[s]
      /\ SymbolsOK(symbols', Len(tables)) /\ Grown(symbols, symbols')
      /\ SizesStand(symbols, symbols')
      /\ Len(tables') = Len(tables) /\ TablesOK(tables', symbols')
      /\ DOMAIN tables = 1 .. Len(tables) /\ DOMAIN tables' = 1 .. Len(tables)
      /\ \A t \in 1 .. Len(tables) : t # Current => tables'[t] = tables[t]
  BY PutMore
<1>2. /\ \A s \in Tags(symbols') : symbols'[s].symtable # 0 => s \in Tags(symbols)
      /\ \A s \in Tags(symbols) : s \in Tags(symbols') /\ symbols'[s] = symbols[s]
  BY PutStructs
<1>3. /\ Len(tables) \in Nat /\ SymbolsOK(symbols, Len(tables)) /\ TablesOK(tables, symbols)
      /\ Current \in 1 .. Len(tables) /\ Current = symtables[Len(symtables)] /\ Len(symtables) \in Nat
      /\ Len(symtables) >= 2
  BY StandingIs
<1>4. PICK n : n = Len(symbols) + 1
  OBVIOUS
<1>5. n \notin DOMAIN symbols /\ symbols'[n] = r
  BY <1>1, <1>4
<1>6. PICK m : \A i \in DOMAIN tables'[Current] :
                 IF i = m THEN tables'[Current][i].sym = n
                 ELSE i \in DOMAIN tables[Current] /\ tables'[Current][i] = tables[Current][i]
  <2>1. PICK name, class : tables' = PutInto(name, class, n)
    BY <1>4 DEF Putting
  <2>2. OneNew(tables[Current], PutInto(name, class, n)[Current], n)
    BY <1>3, PutEntries
  <2>3. OneNew(tables[Current], tables'[Current], n)
    BY <2>1, <2>2
  <2> QED
    BY <2>3 DEF OneNew
<1>7. \A t \in 1 .. Len(tables) : \A i \in DOMAIN tables'[t] :
        \/ t = Current /\ i = m /\ tables'[t][i].sym = n
        \/ i \in DOMAIN tables[t] /\ tables'[t][i] = tables[t][i] /\ tables'[t][i].sym \in DOMAIN symbols
  <2>1. ASSUME NEW t \in 1 .. Len(tables), NEW i \in DOMAIN tables[t] PROVE tables[t][i].sym \in DOMAIN symbols
    <3>1. PICK c : c = tables[t]
      OBVIOUS
    <3>2. IsSeq(c) /\ \A j \in 1 .. Len(c) : IsEntry(c[j], symbols)
      BY <1>3, <3>1 DEF TablesOK
    <3>3. DOMAIN c = 1 .. Len(c)
      BY <3>2 DEF IsSeq
    <3> QED
      BY <3>1, <3>2, <3>3 DEF IsEntry
  <2> QED
    BY <1>1, <1>6, <2>1
<1>8. TypesSized(symbols')
  <2>1. ASSUME NEW s \in DOMAIN symbols', symbols'[s].kind \in Measured
        PROVE  Sized(symbols'[s].type, symbols'[s].size, symbols')
    <3>1. PICK t, z : t = symbols'[s].type /\ z = symbols'[s].size
      OBVIOUS
    <3>2. Sized(t, z, symbols) /\ IsParts(t, symbols, Len(tables))
      <4>1. CASE s \in DOMAIN symbols
        <5>1. symbols'[s] = symbols[s] /\ IsSymbol(symbols[s], symbols, Len(tables))
          BY <1>1, <1>3, <4>1 DEF SymbolsOK
        <5> QED
          BY <2>1, <3>1, <4>1, <5>1 DEF Tidy, TypesSized, IsSymbol
      <4>2. CASE s \notin DOMAIN symbols
        <5>1. symbols'[s] = r
          BY <1>1, <4>2
        <5> QED
          BY <2>1, <3>1, <5>1 DEF MayBePut, IsSymbol
      <4> QED
        BY <4>1, <4>2
    <3> QED
      BY <1>1, <3>1, <3>2, SizedStays
  <2> QED
    BY <2>1 DEF TypesSized
<1>9. EntriesDiffer(tables')
  <2> SUFFICES ASSUME NEW t \in 1 .. Len(tables), NEW u \in 1 .. Len(tables),
                      NEW i \in DOMAIN tables'[t], NEW j \in DOMAIN tables'[u],
                      tables'[t][i].sym = tables'[u][j].sym
               PROVE  t = u /\ i = j
    BY <1>1 DEF EntriesDiffer
  <2>1. \/ t = Current /\ i = m /\ tables'[t][i].sym = n
        \/ i \in DOMAIN tables[t] /\ tables'[t][i] = tables[t][i] /\ tables'[t][i].sym \in DOMAIN symbols
    BY <1>7
  <2>2. \/ u = Current /\ j = m /\ tables'[u][j].sym = n
        \/ j \in DOMAIN tables[u] /\ tables'[u][j] = tables[u][j] /\ tables'[u][j].sym \in DOMAIN symbols
    BY <1>7
  <2>3. \A a, c \in 1 .. Len(tables) : \A k \in DOMAIN tables[a] : \A l \in DOMAIN tables[c] :
          tables[a][k].sym = tables[c][l].sym => a = c /\ k = l
    BY <1>1 DEF Tidy, EntriesDiffer
  <2> QED
    BY <1>5, <2>1, <2>2, <2>3
<1>10. TagsApart(symbols')
  BY <1>2 DEF Tidy, TagsApart
<1>11. TagsHold(tables', symbols')
  <2> SUFFICES ASSUME NEW s \in Tags(symbols'), symbols'[s].symtable # 0
               PROVE  /\ symbols'[s].kind # "enum"
                      /\ \A i \in DOMAIN tables'[symbols'[s].symtable] :
                           LET k == tables'[symbols'[s].symtable][i].sym
                           IN /\ symbols'[k].kind \notin {"variable", "parameter"}
                              /\ ~ symbols'[s].complete => symbols'[k].offset = 0
    BY DEF TagsHold
  <2>1. s \in Tags(symbols) /\ symbols'[s] = symbols[s] /\ s \in DOMAIN symbols
    BY <1>2 DEF Tags
  <2>2. PICK t : t = symbols[s].symtable
    OBVIOUS
  <2>3. t \in 1 .. Len(tables) /\ t \in Structs(symbols)
    <3>1. IsSymbol(symbols[s], symbols, Len(tables))
      BY <1>1, <1>3, <2>1 DEF SymbolsOK
    <3> QED
      BY <1>3, <2>1, <2>2, <3>1 DEF IsSymbol, Structs
  <2>4. symbols[s].kind # "enum"
    BY <2>1 DEF Tidy, TagsHold
  <2>5. ASSUME NEW i \in DOMAIN tables'[t]
        PROVE  /\ symbols'[tables'[t][i].sym].kind \notin {"variable", "parameter"}
               /\ ~ symbols[s].complete => symbols'[tables'[t][i].sym].offset = 0
    <3>1. CASE t = Current /\ i = m /\ tables'[t][i].sym = n
      BY <1>5, <2>3, <3>1 DEF MayBePut
    <3>2. CASE i \in DOMAIN tables[t] /\ tables'[t][i] = tables[t][i] /\ tables'[t][i].sym \in DOMAIN symbols
      <4>1. symbols'[tables'[t][i].sym] = symbols[tables[t][i].sym]
        BY <1>1, <3>2
      <4> QED
        BY <2>1, <2>2, <3>2, <4>1 DEF Tidy, TagsHold
    <3> QED
      BY <1>7, <2>3, <3>1, <3>2
  <2> QED
    BY <2>1, <2>2, <2>4, <2>5
<1>12. TagsOpen(symbols')
  <2>1. ASSUME NEW s \in Tags(symbols'), ~ symbols'[s].complete PROVE symbols'[s].size = 0
    <3>1. CASE s \in DOMAIN symbols
      <4>1. symbols'[s] = symbols[s] /\ s \in Tags(symbols)
        BY <1>1, <3>1 DEF Tags
      <4> QED
        BY <2>1, <4>1 DEF Tidy, TagsOpen
    <3>2. CASE s \notin DOMAIN symbols
      <4>1. symbols'[s] = r /\ r.kind \in TagKinds
        BY <1>1, <3>2 DEF Tags
      <4> QED
        BY <4>1 DEF MayBePut
    <3> QED
      BY <3>1, <3>2
  <2> QED
    BY <2>1 DEF TagsOpen
<1>13. TagsClosed(symtables', tables', symbols')
  <2> SUFFICES ASSUME NEW s \in DOMAIN symbols', symbols'[s].complete
               PROVE  /\ s \in Tags(symbols') /\ symbols'[s].symtable # 0
                      /\ \A i \in 1 .. Len(symtables') : symtables'[i] # symbols'[s].symtable
                      /\ Filled(s, tables'[symbols'[s].symtable], symbols')
    BY DEF TagsClosed
  <2>1. s \in DOMAIN symbols /\ symbols'[s] = symbols[s]
    <3>1. s \notin DOMAIN symbols => symbols'[s] = r
      BY <1>1
    <3> QED
      BY <1>1, <3>1 DEF MayBePut
  <2>2. /\ s \in Tags(symbols) /\ symbols[s].symtable # 0
        /\ \A i \in 1 .. Len(symtables) : symtables[i] # symbols[s].symtable
        /\ Filled(s, tables[symbols[s].symtable], symbols)
    BY <2>1 DEF Tidy, TagsClosed
  <2>3. PICK table : table = tables[symbols[s].symtable]
    OBVIOUS
  <2>4. symbols[s].symtable \in 1 .. Len(tables) /\ symbols[s].symtable # Current
    <3>1. IsSymbol(symbols[s], symbols, Len(tables))
      BY <1>1, <1>3, <2>1 DEF SymbolsOK
    <3>2. Len(symtables) \in 1 .. Len(symtables)
      BY <1>3
    <3> QED
      BY <1>3, <2>2, <3>1, <3>2 DEF IsSymbol
  <2>5. tables'[symbols[s].symtable] = table
    BY <1>1, <2>3, <2>4
  <2>6. \A i \in DOMAIN table : symbols'[table[i].sym] = symbols[table[i].sym]
    BY <1>1, <1>5, <1>7, <2>3, <2>4, <2>5
  <2>7. FieldsOf(table, symbols') = FieldsOf(table, symbols)
    BY <2>6 DEF FieldsOf
  <2>8. \A i \in FieldsOf(table, symbols) : symbols'[table[i].sym] = symbols[table[i].sym]
    BY <2>6 DEF FieldsOf
  <2>9. Filled(s, table, symbols')
    BY <2>1, <2>2, <2>3, <2>7, <2>8, FilledStays
  <2>10. symtables' = symtables
    BY DEF Putting
  <2> QED
    BY <1>2, <2>1, <2>2, <2>5, <2>9, <2>10
<1>14. Numbered(symbols')
  <2>1. ASSUME NEW s \in DOMAIN symbols'
        PROVE  symbols'[s].function \in 0 .. Len(symbols') /\ symbols'[s].locals_size \in Nat
    <3>1. CASE s \in DOMAIN symbols
      <4>1. symbols'[s] = symbols[s]
        BY <1>1, <3>1
      <4>2. symbols[s].function \in 0 .. Len(symbols) /\ symbols[s].locals_size \in Nat
        BY <3>1 DEF Tidy, Numbered
      <4> QED
        BY <1>1, <4>1, <4>2
    <3>2. CASE s \notin DOMAIN symbols
      <4>1. symbols'[s] = r
        BY <1>1, <3>2
      <4>2. r.function \in 0 .. Len(symbols) /\ r.locals_size \in Nat
        BY DEF MayBePut
      <4> QED
        BY <1>1, <4>1, <4>2
    <3> QED
      BY <3>1, <3>2
  <2> QED
    BY <2>1 DEF Numbered
<1> QED
  BY <1>8, <1>9, <1>10, <1>11, <1>12, <1>13, <1>14 DEF Tidy

\* and no call below notices.
LEMMA SparedPut ==
  ASSUME Standing, NEW r, MayBePut(r), Putting(r)
  PROVE  Spared(Len(symtables), symtables, symbols, Len(tables), symtables', symbols', Len(tables'))
<1>1. /\ Len(symbols) \in Nat /\ Len(symbols') = Len(symbols) + 1 /\ Grown(symbols, symbols')
      /\ SizesStand(symbols, symbols') /\ Len(tables') = Len(tables)
  BY PutMore
<1>2. /\ Structs(symbols') = Structs(symbols)
      /\ \A s \in Tags(symbols) : s \in Tags(symbols') /\ symbols'[s] = symbols[s]
  BY PutStructs
<1>3. /\ Len(tables) \in Nat /\ ScopesLead /\ Len(symtables) \in Nat
  BY StandingIs
<1>4. symtables' = symtables /\ \A i \in 1 .. Len(symtables) : symtables[i] \in 1 .. Len(tables)
  BY <1>3 DEF ScopesLead, Putting
<1>5. Len(symbols) <= Len(symbols') /\ Len(symbols') \in Nat /\ Len(tables) <= Len(tables')
  BY <1>1, <1>3
<1> QED
  BY <1>1, <1>2, <1>3, <1>4, <1>5 DEF Spared

\* The calls below stand where they did, and of the frames only a local can ask for more.
LEMMA PutLays ==
  ASSUME NEW b, Laying(b), NEW r, MayBePut(r), Putting(r)
  PROVE  /\ Tidy(symtables', tables', symbols') /\ Free(ret.type, symbols', Len(tables'))
         /\ Placed(Where(b), symtables', symbols') /\ Len(symtables') = Len(symtables)
         /\ Laid(Tail(stack), Below(todo, Where(b)), symtables', symbols', Len(tables'))
         /\ r.kind # "variable" => Framed(b, function_locals_size, symbols')
<1>1. /\ Standing /\ Free(ret.type, symbols, Len(tables)) /\ Tidy(symtables, tables, symbols)
      /\ Framed(b, function_locals_size, symbols)
  BY DEF Laying
<1>2. Tidy(symtables', tables', symbols')
  BY <1>1, TidyPut
<1>3. /\ Spared(Len(symtables), symtables, symbols, Len(tables), symtables', symbols', Len(tables'))
      /\ Len(symtables) \in Nat
  BY <1>1, SparedPut, StandingIs
<1>4. PICK Z, P, U, k : Z = symbols' /\ P = symtables' /\ U = Len(tables') /\ k = Len(symtables)
  OBVIOUS
<1>5. k \in Nat /\ Spared(k, symtables, symbols, Len(tables), P, Z, U)
  BY <1>3, <1>4
<1>6. Free(ret.type, Z, U)
  BY <1>1, <1>5, FreeStays
<1>7. Placed(Where(b), P, Z)
  <2>1. PICK e : e = Where(b)
    OBVIOUS
  <2>2. Placed(e, symtables, symbols) /\ e.k <= k
    <3>1. e.k = k
      BY <1>4, <2>1, WhereIs
    <3> QED
      BY <1>5, <2>1, <3>1, HeadLaid
  <2> QED
    BY <1>5, <2>1, <2>2, PlaceStays
<1>8. Laid(Tail(stack), Below(todo, Where(b)), P, Z, U)
  <2>1. PICK e : e = Below(todo, Where(b))
    OBVIOUS
  <2>2. PICK s : s = Tail(stack)
    OBVIOUS
  <2>3. Laid(s, e, symtables, symbols, Len(tables)) /\ \A n \in 1 .. Len(s) : IsItem(s[n], symbols, Len(tables))
    BY <1>1, <2>1, <2>2, HeadLaid, TailItems
  <2>4. e.k = k - Held(todo)
    BY <1>4, <2>1, WhereIs, AtIs DEF Below
  <2>5. Len(symtables) >= 2
    BY <1>1, StandingIs
  <2>6. e.k <= k /\ e.k \in Nat
    BY <1>4, <1>5, <2>4, <2>5, HeldIs
  <2> QED
    BY <1>5, <2>1, <2>2, <2>3, <2>6, LaidStays
<1>9. ASSUME r.kind # "variable" PROVE Framed(b, function_locals_size, symbols')
  <2>1. /\ Len(symbols) \in Nat /\ DOMAIN symbols = 1 .. Len(symbols) /\ DOMAIN symbols' = 1 .. Len(symbols) + 1
        /\ Len(symbols') = Len(symbols) + 1
        /\ symbols'[Len(symbols) + 1] = r /\ \A s \in 1 .. Len(symbols) : symbols'[s] = symbols[s]
    BY <1>1, PutMore
  <2>2. ASSUME NEW f, NEW v \in LocalsOf(f, symbols')
        PROVE  v \in LocalsOf(f, symbols) /\ symbols'[v] = symbols[v]
    BY <1>9, <2>1, <2>2 DEF LocalsOf
  <2> SUFFICES ASSUME NEW f \in 1 .. Len(symbols) + 1, NEW v \in LocalsOf(f, symbols')
               PROVE  /\ symbols'[v].offset \in Int /\ symbols'[v].offset <= 0
                      /\ - (IF f = b THEN function_locals_size ELSE symbols'[f].locals_size)
                           <= symbols'[v].offset - symbols'[v].size
                      /\ \A w \in LocalsOf(f, symbols') \ {v} :
                           \/ symbols'[v].offset <= symbols'[w].offset - symbols'[w].size
                           \/ symbols'[w].offset <= symbols'[v].offset - symbols'[v].size
    BY <2>1 DEF Framed
  <2>3. v \in LocalsOf(f, symbols) /\ symbols'[v] = symbols[v]
    BY <2>2
  <2>4. f \in 1 .. Len(symbols)
    <3>1. v \in DOMAIN symbols /\ symbols[v].function = f
      BY <2>3 DEF LocalsOf
    <3>2. symbols[v].function \in 0 .. Len(symbols)
      BY <1>1, <3>1 DEF Tidy, Numbered
    <3> QED
      BY <2>1, <3>1, <3>2
  <2>5. symbols'[f] = symbols[f]
    BY <2>1, <2>4
  <2>6. \A w \in LocalsOf(f, symbols') \ {v} : w \in LocalsOf(f, symbols) \ {v} /\ symbols'[w] = symbols[w]
    BY <2>2
  <2> QED
    BY <1>1, <2>3, <2>4, <2>5, <2>6 DEF Framed
<1>10. Len(symtables') = Len(symtables)
  BY DEF Putting
<1> QED
  BY <1>2, <1>4, <1>6, <1>7, <1>8, <1>9, <1>10

\* A symbol that is made as it is put.
LEMMA SymbolHas ==
  ASSUME NEW kind, NEW name, NEW type, NEW size, NEW r, r = Symbol(kind, name, type, size)
  PROVE  /\ r.kind = kind /\ r.name = name /\ r.type = type /\ r.size = size /\ r.offset = 0
         /\ r.symtable = 0 /\ ~ r.complete /\ r.function = 0 /\ r.locals_size = 0
  BY DEF Symbol

\* It may be put if it is neither an object nor the name of a type, and no parameter of a struct.
LEMMA NewMayBePut ==
  ASSUME Standing, NEW kind, kind \notin Measured, NEW name, NEW type, NEW r, r = Symbol(kind, name, type, 0),
         IsSymbol(r, symbols, Len(tables)), Current \in Structs(symbols) => kind # "parameter"
  PROVE  MayBePut(r) /\ r.kind # "variable"
<1>1. /\ r.kind = kind /\ r.size = 0 /\ r.offset = 0 /\ r.symtable = 0 /\ ~ r.complete
      /\ r.function = 0 /\ r.locals_size = 0
  BY SymbolHas
<1>2. Len(symbols) \in Nat
  BY StandingIs DEF SymbolsOK, IsSeq
<1>3. 0 \in 0 .. Len(symbols)
  BY <1>2
<1> QED
  BY <1>1, <1>3 DEF MayBePut, Measured

\* The call goes on with one that may stand anywhere, or returns.
LEMMA PutContinues ==
  ASSUME NEW b, Laying(b), NEW r, MayBePut(r), r.kind # "variable", Putting(r), todo.do \notin Closers,
         UNCHANGED << ret, cur_decl_type, function_locals_size >>,
         NEW x, Simple(x, cur_decl_type), Continue(<< x >>)
  PROVE  LayInv'
<1>1. /\ Tidy(symtables', tables', symbols') /\ Free(ret.type, symbols', Len(tables'))
      /\ Placed(Where(b), symtables', symbols') /\ Len(symtables') = Len(symtables)
      /\ Laid(Tail(stack), Below(todo, Where(b)), symtables', symbols', Len(tables'))
      /\ Framed(b, function_locals_size, symbols')
  BY PutLays
<1>2. PICK e : e = Where(b)
  OBVIOUS
<1>3. e = At(Len(symtables'), cur_decl_type', b) /\ e.c = cur_decl_type
  BY <1>1, <1>2, WhereIs DEF Where
<1>4. Below(todo, Where(b)) = e
  BY <1>2, HeadLaid
<1>5. PICK s : s = Tail(stack)
  OBVIOUS
<1>6. Laid(<< x >> \o s, e, symtables', symbols', Len(tables'))
  <2>1. PICK P, Z, U : P = symtables' /\ Z = symbols' /\ U = Len(tables')
    OBVIOUS
  <2>2. Placed(e, P, Z) /\ Laid(s, e, P, Z, U) /\ Simple(x, e.c)
    BY <1>1, <1>2, <1>3, <1>4, <1>5, <2>1
  <2> QED
    BY <2>1, <2>2, SimpleLaid
<1>7. Laid(stack', At(Len(symtables'), cur_decl_type', b), symtables', symbols', Len(tables'))
  BY <1>3, <1>5, <1>6 DEF Continue
<1>8. Free(ret'.type, symbols', Len(tables')) /\ Framed(b, function_locals_size', symbols')
  BY <1>1
<1> QED
  BY <1>1, <1>7, <1>8, LayGoesOn

\* A tag, which may be new.
LEMMA StructuredLays ==
  ASSUME NEW b, Laying(b), StructuredSpecifier
  PROVE  LayInv'
<1>1. todo.do = "tag" /\ todo.do \notin Closers
  BY DEF StructuredSpecifier, Doing, Closers
<1>2. Standing /\ Free(ret.type, symbols, Len(tables))
  BY DEF Laying
<1>3. PICK known : known = IF token \in Names THEN GetSymbol(token, "SC_TAG") ELSE 0
  OBVIOUS
<1>4. PICK name : name = IF token \in Names THEN token ELSE NoName
  OBVIOUS
<1>5. PICK n : n = IF known # 0 THEN known ELSE Len(symbols) + 1
  OBVIOUS
<1>6. PICK x : x = [do |-> IF todo.kind = "enum" THEN "enum" ELSE "struct", tag |-> n, kind |-> todo.kind]
  OBVIOUS
<1>7. /\ Continue(<< x >>) /\ UNCHANGED << ret, symtables, cur_decl_type, function_locals_size >>
      /\ IF known # 0 THEN UNCHANGED << symbols, tables >>
         ELSE /\ symbols' = Append(symbols, Symbol(todo.kind, name, << >>, 0))
              /\ tables' = PutInto(name, "SC_TAG", n)
  BY <1>3, <1>4, <1>5, <1>6 DEF StructuredSpecifier
<1>8. x.do \in {"enum", "struct"}
  BY <1>6
<1>9. CASE known # 0
  <2>1. SameScopes /\ Free(ret'.type, symbols, Len(tables))
    BY <1>2, <1>7, <1>9 DEF SameScopes
  <2>2. Easy(x)
    BY <1>8 DEF Easy, Closers, DeclCalls
  <2>3. AllHere(<< x >>, b)
    BY <2>2, HeadLaid, EasyHere, HereTuples
  <2>4. UNCHANGED << cur_decl_type, function_locals_size >>
    BY <1>7
  <2> QED
    BY <1>1, <1>7, <2>1, <2>3, <2>4, CalmLays
<1>10. CASE known = 0
  <2>1. PICK r : r = Symbol(todo.kind, name, << >>, 0)
    OBVIOUS
  <2>2. todo.kind \in TagKinds
    BY <1>1, <1>2, StandingIs DEF IsItem
  <2>3. IsSymbol(r, symbols, Len(tables))
    <3>1. todo.kind \in Kinds \ {"function"}
      BY <2>2 DEF TagKinds, Kinds
    <3> QED
      BY <1>2, <2>1, <3>1, NewSymbolIs DEF Standing
  <2>4. todo.kind \notin Measured /\ todo.kind # "parameter"
    BY <2>2 DEF TagKinds, Measured
  <2>5. MayBePut(r) /\ r.kind # "variable" /\ r.kind \in TagKinds
    BY <1>2, <2>1, <2>2, <2>3, <2>4, NewMayBePut, SymbolHas
  <2>6. Putting(r)
    <3>1. tables' = PutInto(name, "SC_TAG", Len(symbols) + 1)
      BY <1>5, <1>7, <1>10
    <3>2. symbols' = Append(symbols, r) /\ symtables' = symtables
      BY <1>7, <1>10, <2>1
    <3> QED
      BY <2>5, <3>1, <3>2 DEF Putting
  <2>7. Simple(x, cur_decl_type)
    BY <1>8 DEF Simple, Closers, DeclCalls
  <2>8. UNCHANGED << ret, cur_decl_type, function_locals_size >>
    BY <1>7
  <2> QED
    BY <1>1, <1>7, <2>5, <2>6, <2>7, <2>8, PutContinues
<1> QED
  BY <1>9, <1>10

\* The constants of an enum.
LEMMA EnumeratorLays ==
  ASSUME NEW b, Laying(b), Enumerator
  PROVE  LayInv'
<1>1. todo.do = "enumerator" /\ todo.do \notin Closers
  BY DEF Enumerator, Doing, Closers
<1>2. Standing /\ todo.tag \in Tags(symbols)
  BY <1>1, StandingIs DEF Laying, IsItem, Inside
<1>3. CASE token = "}"
  <2>1. ReturnTaking(Of("tag", todo.tag), NoName)
    BY <1>3 DEF Enumerator
  <2>2. Free(Of("tag", todo.tag), symbols, Len(tables))
    BY FreeTypes DEF Of
  <2> QED
    BY <1>1, <2>1, <2>2, CalmPasses
<1>4. CASE token # "}" /\ token \notin Names
  BY <1>2, <1>4, LayFails DEF Enumerator
<1>5. CASE token # "}" /\ token \in Names
  <2>1. PICK r : r = Symbol("enum_const", token, Of("tag", todo.tag), 0)
    OBVIOUS
  <2>2. IsSymbol(r, symbols, Len(tables))
    <3>1. IsParts(Of("tag", todo.tag), symbols, Len(tables))
      BY <1>2, BasesAre, BaseParts
    <3>2. Len(tables) \in Nat /\ "enum_const" \in Kinds \ {"function"} /\ 0 \in Nat
      BY <1>2, StandingIs DEF Kinds
    <3> QED
      BY <2>1, <3>1, <3>2, SymbolIs
  <2>3. MayBePut(r) /\ r.kind # "variable" /\ r.kind = "enum_const"
    BY <1>2, <2>1, <2>2, NewMayBePut, SymbolHas DEF Measured
  <2>4. Putting(r)
    <3>1. tables' = PutInto(token, "SC_NAME", Len(symbols) + 1)
      BY <1>5 DEF Enumerator
    <3>2. symbols' = Append(symbols, r) /\ symtables' = symtables
      BY <1>5, <2>1 DEF Enumerator
    <3> QED
      BY <3>1, <3>2 DEF Putting
  <2>5. PICK x : x = [todo EXCEPT !.do = "enumerated"]
    OBVIOUS
  <2>6. Continue(<< x >>)
    BY <1>5, <2>5 DEF Enumerator
  <2>7. Simple(x, cur_decl_type)
    <3>1. x.do = "enumerated"
      BY <1>2, <2>5, StandingIs DEF HasDo
    <3> QED
      BY <3>1 DEF Simple, Closers, DeclCalls
  <2>8. UNCHANGED << ret, cur_decl_type, function_locals_size >>
    BY <1>5 DEF Enumerator
  <2> QED
    BY <1>1, <2>3, <2>4, <2>6, <2>7, <2>8, PutContinues
<1> QED
  BY <1>3, <1>4, <1>5

\* What stands below a declarator's parameters is not in the scope of a struct.
LEMMA ParameterLays ==
  ASSUME NEW b, Laying(b), DeclaredParameter
  PROVE  LayInv'
<1>1. todo.do = "declared_parameter" /\ todo.do \in InParameters
  BY DEF DeclaredParameter, Doing, InParameters
<1>2. Standing /\ IsItem(todo, symbols, Len(tables))
  BY StandingIs DEF Laying
<1>3. PICK r : r = Symbol("parameter", ret.name, ret.type, 0)
  OBVIOUS
<1>4. PICK d : d = IF token = "," THEN "parameter" ELSE "parameters_end"
  OBVIOUS
<1>5. PICK x : x = [todo EXCEPT !.do = d]
  OBVIOUS
<1>6. /\ Continue(<< x >>) /\ UNCHANGED << ret, symtables, cur_decl_type, function_locals_size >>
      /\ symbols' = Append(symbols, r) /\ tables' = PutInto(ret.name, "SC_NAME", Len(symbols) + 1)
  BY <1>3, <1>4, <1>5 DEF DeclaredParameter
<1>7. Putting(r)
  <2>1. symbols' = Append(symbols, r) /\ symtables' = symtables
    BY <1>6
  <2>2. tables' = PutInto(ret.name, "SC_NAME", Len(symbols) + 1)
    BY <1>6
  <2> QED
    BY <2>1, <2>2 DEF Putting
<1>8. Current \notin Structs(symbols)
  <2>1. Suits(todo, Where(b), symtables, symbols, Len(tables)) /\ Where(b).k = Len(symtables)
    BY HeadLaid, WhereIs
  <2>2. Current = symtables[Len(symtables)]
    BY <1>2, StandingIs
  <2> QED
    BY <1>1, <2>1, <2>2 DEF Suits
<1>9. MayBePut(r) /\ r.kind # "variable"
  <2>1. IsParts(ret.type, symbols, Len(tables))
    <3>1. IsFull(ret.type, symbols, Len(tables))
      BY <1>1, <1>2, StandingIs DEF Serves, Wants
    <3> QED
      BY <3>1 DEF IsFull
  <2>2. Len(tables) \in Nat /\ "parameter" \in Kinds \ {"function"} /\ 0 \in Nat
    BY <1>2, StandingIs DEF Kinds, VarKinds
  <2>3. IsSymbol(r, symbols, Len(tables))
    BY <1>3, <2>1, <2>2, SymbolIs
  <2> QED
    BY <1>2, <1>3, <1>8, <2>3, NewMayBePut DEF Measured
<1>10. /\ Tidy(symtables', tables', symbols') /\ Free(ret.type, symbols', Len(tables'))
       /\ Placed(Where(b), symtables', symbols') /\ Len(symtables') = Len(symtables)
       /\ Laid(Tail(stack), Below(todo, Where(b)), symtables', symbols', Len(tables'))
       /\ Framed(b, function_locals_size, symbols')
  BY <1>7, <1>9, PutLays
<1>11. PICK e : e = Where(b)
  OBVIOUS
<1>12. e = At(Len(symtables'), cur_decl_type', b) /\ e.k = Len(symtables)
  BY <1>6, <1>10, <1>11, WhereIs DEF Where
<1>13. x.do = d /\ d \in InParameters /\ x.old = todo.old
  BY <1>1, <1>2, <1>4, <1>5 DEF IsItem, HasDo, InParameters
<1>14. Below(x, e) = Below(todo, e)
  <2>1. Held(x) = Held(todo)
    BY <1>1, <1>13 DEF Held, Closers, InParameters
  <2>2. x.do # "end_of_body" /\ todo.do # "end_of_body"
    BY <1>1, <1>13 DEF InParameters
  <2> QED
    BY <1>1, <1>13, <2>1, <2>2 DEF Below
<1>15. Current \notin Structs(symbols')
  BY <1>2, <1>7, <1>8, <1>9, PutStructs
<1>16. PICK P, Z, U, s : P = symtables' /\ Z = symbols' /\ U = Len(tables') /\ s = Tail(stack)
  OBVIOUS
<1>17. Suits(x, e, P, Z, U)
  <2>1. Placed(e, P, Z)
    BY <1>10, <1>11, <1>16
  <2>2. P[e.k] \notin Structs(Z)
    <3>1. Current = symtables[Len(symtables)]
      BY <1>2, StandingIs
    <3> QED
      BY <1>6, <1>12, <1>15, <1>16, <3>1
  <2>3. /\ x.do \notin DeclCalls /\ x.do # "field" /\ x.do \notin {"suffix", "linked"}
        /\ x.do # "variable" /\ x.do # "end_of_body" /\ x.do # "body"
    BY <1>13 DEF DeclCalls, InParameters
  <2> QED
    BY <2>1, <2>2, <2>3 DEF Suits
<1>18. Laid(<< x >> \o s, e, P, Z, U)
  <2>1. Laid(s, Below(x, e), P, Z, U)
    BY <1>10, <1>11, <1>14, <1>16
  <2> QED
    BY <1>17, <2>1, LaidPush
<1>19. Laid(stack', At(Len(symtables'), cur_decl_type', b), symtables', symbols', Len(tables'))
  BY <1>6, <1>12, <1>16, <1>18 DEF Continue
<1>20. Free(ret'.type, symbols', Len(tables')) /\ Framed(b, function_locals_size', symbols')
  BY <1>6, <1>10
<1> QED
  BY <1>10, <1>19, <1>20, LayGoesOn

----------------------------------------------------------------------------
(* Functions and objects *)

\* A function's body may come next.
LEMMA BodyComes ==
  ASSUME NEW b, Free(ret'.type, symbols', Len(tables')), Tidy(symtables', tables', symbols'),
         Framed(b, function_locals_size', symbols'),
         stack' # << >>, Head(stack').do = "body",
         Laid(Tail(stack'), At(Len(symtables'), cur_decl_type', b), symtables', symbols', Len(tables')),
         symbols'[Head(stack').function].symtable \notin Structs(symbols'),
         \A s \in DOMAIN symbols' : symbols'[s].function # Head(stack').function
  PROVE  LayInv'
<1>1. BodyAt(b)'
  BY DEF BodyAt, Where, todo
<1> QED
  BY <1>1 DEF LayInv

\* A function is declared: nothing is in it yet, and its parameters are in no struct.
LEMMA DeclaredFunctionLays ==
  ASSUME NEW b, Laying(b), DeclaredFunction
  PROVE  LayInv'
<1>1. todo.do = "declared" /\ todo.do \notin Closers /\ todo.do \in DeclCalls
  BY DEF DeclaredFunction, Doing, Closers, DeclCalls
<1>2. Standing /\ Free(ret.type, symbols, Len(tables)) /\ Tidy(symtables, tables, symbols)
  BY DEF Laying
<1>3. CASE Fail
  BY <1>2, <1>3, LayFails
<1>4. CASE ~ Fail
  <2>1. PICK r : r = [Symbol("function", ret.name, Tail(ret.type), 0) EXCEPT !.symtable = Head(ret.type).sym]
    OBVIOUS
  <2>2. PICK n : n = Len(symbols) + 1
    OBVIOUS
  <2>3. PICK x : x = [do |-> "body", function |-> n]
    OBVIOUS
  <2>4. PICK y : y = [do |-> "separator", base |-> todo.base, typedef |-> todo.typedef]
    OBVIOUS
  <2>5. /\ Continue(<< x, y >>) /\ UNCHANGED << ret, symtables, cur_decl_type, function_locals_size >>
        /\ symbols' = Append(symbols, r) /\ tables' = PutInto(ret.name, "SC_NAME", Len(symbols) + 1)
    BY <1>4, <2>1, <2>2, <2>3, <2>4 DEF DeclaredFunction
  <2>6. Putting(r)
    <3>1. symbols' = Append(symbols, r) /\ symtables' = symtables
      BY <2>5
    <3>2. tables' = PutInto(ret.name, "SC_NAME", Len(symbols) + 1)
      BY <2>5
    <3> QED
      BY <3>1, <3>2 DEF Putting
  <2>7. Head(ret.type).kind = "func" /\ IsFull(ret.type, symbols, Len(tables))
    BY <1>1, <1>2, StandingIs DEF DeclaredFunction, Serves, Wants
  <2>8. IsParts(Tail(ret.type), symbols, Len(tables)) /\ IsPart(Head(ret.type), symbols, Len(tables))
    BY <2>7, TailIsParts
  <2>9. Head(ret.type).sym \in (1 .. Len(tables)) \ Structs(symbols)
    <3>1. PICK t : t = ret.type
      OBVIOUS
    <3>2. t # << >> /\ IsSeq(t)
      BY <2>7, <3>1 DEF IsFull, IsParts
    <3>3. 1 \in 1 .. Len(t) /\ Head(t) = t[1]
      BY <3>2, HeadAndTail DEF IsSeq
    <3> QED
      BY <1>2, <2>7, <3>1, <3>3 DEF Free
  <2>10. /\ r.kind = "function" /\ r.type = Tail(ret.type) /\ r.size = 0 /\ r.offset = 0
         /\ r.symtable = Head(ret.type).sym /\ ~ r.complete /\ r.function = 0 /\ r.locals_size = 0
         /\ DOMAIN r = SymbolFields
    BY <2>1 DEF Symbol, SymbolFields
  <2>11. Len(tables) \in Nat /\ Len(symbols) \in Nat
    BY <1>2, StandingIs DEF SymbolsOK, IsSeq
  <2>12. IsSymbol(r, symbols, Len(tables))
    <3>1. r.symtable \in 0 .. Len(tables) /\ r.symtable # 0
      BY <2>9, <2>10, <2>11
    <3> QED
      BY <2>8, <2>10, <3>1 DEF IsSymbol, Kinds
  <2>13. MayBePut(r) /\ r.kind # "variable"
    <3>1. 0 \in 0 .. Len(symbols)
      BY <2>11
    <3> QED
      BY <2>10, <2>12, <3>1 DEF MayBePut, Measured, TagKinds
  <2>14. /\ Tidy(symtables', tables', symbols') /\ Free(ret.type, symbols', Len(tables'))
         /\ Placed(Where(b), symtables', symbols') /\ Len(symtables') = Len(symtables)
         /\ Laid(Tail(stack), Below(todo, Where(b)), symtables', symbols', Len(tables'))
         /\ Framed(b, function_locals_size, symbols')
    BY <2>6, <2>13, PutLays
  <2>15. PICK e, s : e = Where(b) /\ s = Tail(stack)
    OBVIOUS
  <2>16. e = At(Len(symtables'), cur_decl_type', b) /\ e.c = cur_decl_type /\ Below(todo, Where(b)) = e
    BY <1>1, <2>5, <2>14, <2>15, WhereIs, HeadLaid DEF Where
  <2>17. Laid(<< y >> \o s, e, symtables', symbols', Len(tables'))
    <3>1. Simple(y, e.c)
      <4>1. cur_decl_type # "DT_PARAMETER"
        BY <1>1, NotParameter
      <4> QED
        BY <2>4, <2>16, <4>1 DEF Simple, Closers, DeclCalls
    <3>2. PICK P, Z, U : P = symtables' /\ Z = symbols' /\ U = Len(tables')
      OBVIOUS
    <3>3. Placed(e, P, Z) /\ Laid(s, e, P, Z, U)
      BY <2>14, <2>15, <2>16, <3>2
    <3> QED
      BY <3>1, <3>2, <3>3, SimpleLaid
  <2>18. stack' # << >> /\ Head(stack') = x /\ Tail(stack') = << y >> \o s
    <3>1. IsSeq(s)
      BY <2>14, <2>15 DEF Laid
    <3>2. << x, y >> \o s = << x >> \o (<< y >> \o s) /\ IsSeq(<< y >> \o s)
      BY <3>1, PairOver
    <3>3. PICK t : t = << y >> \o s
      OBVIOUS
    <3>4. << x >> \o t # << >> /\ Head(<< x >> \o t) = x /\ Tail(<< x >> \o t) = t
      <4>1. IsSeq(t)
        BY <3>2, <3>3
      <4> QED
        BY <4>1 DEF IsSeq
    <3> QED
      BY <2>5, <2>15, <3>2, <3>3, <3>4 DEF Continue
  <2>19. /\ DOMAIN symbols = 1 .. Len(symbols) /\ DOMAIN symbols' = 1 .. Len(symbols) + 1
         /\ symbols'[n] = r /\ \A i \in 1 .. Len(symbols) : symbols'[i] = symbols[i]
         /\ Structs(symbols') = Structs(symbols)
    BY <1>2, <2>2, <2>6, <2>13, PutMore, PutStructs
  <2>20. symbols'[n].symtable \notin Structs(symbols')
    BY <2>9, <2>10, <2>19
  <2>21. \A i \in DOMAIN symbols' : symbols'[i].function # n
    <3> SUFFICES ASSUME NEW i \in DOMAIN symbols' PROVE symbols'[i].function # n
      OBVIOUS
    <3>1. CASE i \in 1 .. Len(symbols)
      <4>1. symbols[i].function \in 0 .. Len(symbols) /\ symbols'[i] = symbols[i]
        BY <1>2, <2>19, <3>1 DEF Tidy, Numbered
      <4> QED
        BY <2>2, <2>11, <4>1
    <3>2. CASE i \notin 1 .. Len(symbols)
      <4>1. symbols'[i] = r
        BY <2>2, <2>11, <2>19, <3>2
      <4> QED
        BY <2>2, <2>10, <2>11, <4>1
    <3> QED
      BY <3>1, <3>2
  <2>22. x.do = "body" /\ x.function = n
    BY <2>3
  <2>23. /\ Free(ret'.type, symbols', Len(tables')) /\ Framed(b, function_locals_size', symbols')
         /\ Laid(Tail(stack'), At(Len(symtables'), cur_decl_type', b), symtables', symbols', Len(tables'))
    BY <2>5, <2>14, <2>16, <2>17, <2>18
  <2>24. Head(stack').do = "body" /\ Head(stack').function = n
    BY <2>18, <2>22
  <2> QED
    BY <2>14, <2>18, <2>20, <2>21, <2>23, <2>24, BodyComes
<1> QED
  BY <1>3, <1>4

\* A local is put behind the others of its function.
LEMMA FrameGrows ==
  ASSUME NEW b, NEW z \in Nat, NEW Y, NEW Z, NEW N \in Nat, DOMAIN Y = 1 .. N, DOMAIN Z = 1 .. N + 1,
         Len(Y) = N, Len(Z) = N + 1, \A s \in 1 .. N : Z[s] = Y[s],
         Framed(b, z, Y), Numbered(Y), NEW r, Z[N + 1] = r, r.size \in Nat, b \in 0 .. N, r.function = b,
         NEW y, y = z \/ y = z + r.size,
         r.kind = "variable" => b # 0 /\ y = z + r.size /\ r.offset = - z,
         \A s \in DOMAIN Y : Y[s].size \in Nat
  PROVE  Framed(b, y, Z)
<1>1. y \in Nat /\ z <= y
  OBVIOUS
<1>2. ASSUME NEW f, NEW v \in LocalsOf(f, Z)
      PROVE  \/ v \in LocalsOf(f, Y) /\ Z[v] = Y[v] /\ f \in 0 .. N
             \/ v = N + 1 /\ Z[v] = r /\ r.kind = "variable" /\ f = b
  <2>1. v \in 1 .. N + 1 /\ Z[v].kind = "variable" /\ Z[v].function = f
    BY <1>2 DEF LocalsOf
  <2>2. CASE v \in 1 .. N
    <3>1. Z[v] = Y[v] /\ Y[v].function \in 0 .. N
      BY <2>2 DEF Numbered
    <3> QED
      BY <2>1, <2>2, <3>1 DEF LocalsOf
  <2>3. CASE v \notin 1 .. N
    <3>1. v = N + 1
      BY <2>1, <2>3
    <3> QED
      BY <2>1, <3>1
  <2> QED
    BY <2>2, <2>3
<1> SUFFICES ASSUME NEW f \in 1 .. N + 1, NEW v \in LocalsOf(f, Z)
             PROVE  /\ Z[v].offset \in Int /\ Z[v].offset <= 0
                    /\ - (IF f = b THEN y ELSE Z[f].locals_size) <= Z[v].offset - Z[v].size
                    /\ \A w \in LocalsOf(f, Z) \ {v} :
                         \/ Z[v].offset <= Z[w].offset - Z[w].size
                         \/ Z[w].offset <= Z[v].offset - Z[v].size
  BY DEF Framed
<1>3. f \in 1 .. N
  <2>1. f \in 0 .. N
    BY <1>2
  <2> QED
    BY <2>1
<1>4. Z[f] = Y[f] /\ Y[f].locals_size \in Nat
  BY <1>3 DEF Numbered
<1>5. ASSUME NEW u \in LocalsOf(f, Y)
      PROVE  /\ Y[u].offset \in Int /\ Y[u].offset <= 0 /\ Y[u].size \in Nat
             /\ - (IF f = b THEN z ELSE Y[f].locals_size) <= Y[u].offset - Y[u].size
             /\ \A w \in LocalsOf(f, Y) \ {u} :
                  \/ Y[u].offset <= Y[w].offset - Y[w].size
                  \/ Y[w].offset <= Y[u].offset - Y[u].size
  <2>1. u \in DOMAIN Y
    BY DEF LocalsOf
  <2> QED
    BY <1>3, <2>1 DEF Framed
<1>6. CASE v \in LocalsOf(f, Y) /\ Z[v] = Y[v]
  <2>1. PICK o, i : o = Y[v].offset /\ i = Y[v].size
    OBVIOUS
  <2>2. /\ o \in Int /\ o <= 0 /\ i \in Nat /\ - (IF f = b THEN z ELSE Y[f].locals_size) <= o - i
    BY <1>5, <1>6, <2>1
  <2>3. - (IF f = b THEN y ELSE Z[f].locals_size) <= o - i
    <3>1. CASE f = b
      <4>1. - z <= o - i
        BY <2>2, <3>1
      <4>2. - y <= o - i
        BY <1>1, <2>2, <4>1
      <4> QED
        BY <3>1, <4>2
    <3>2. CASE f # b
      BY <1>4, <2>2, <3>2
    <3> QED
      BY <3>1, <3>2
  <2>4. ASSUME NEW w \in LocalsOf(f, Z) \ {v}
        PROVE  o <= Z[w].offset - Z[w].size \/ Z[w].offset <= o - i
    <3>1. CASE w \in LocalsOf(f, Y) /\ Z[w] = Y[w]
      BY <1>5, <1>6, <2>1, <2>4, <3>1
    <3>2. CASE Z[w] = r /\ r.kind = "variable" /\ f = b
      BY <2>2, <3>2
    <3> QED
      BY <1>2, <2>4, <3>1, <3>2
  <2> QED
    BY <1>6, <2>1, <2>2, <2>3, <2>4
<1>7. CASE v = N + 1 /\ Z[v] = r /\ r.kind = "variable" /\ f = b
  <2>1. PICK i : i = r.size
    OBVIOUS
  <2>2. Z[v].offset = - z /\ Z[v].size = i /\ y = z + i /\ i \in Nat
    BY <1>7, <2>1
  <2>3. - z \in Int /\ - z <= 0 /\ - y <= (- z) - i
    BY <2>2
  <2>4. ASSUME NEW w \in LocalsOf(f, Z) \ {v}
        PROVE  - z <= Z[w].offset - Z[w].size
    <3>1. w \in LocalsOf(f, Y) /\ Z[w] = Y[w]
      BY <1>2, <1>7, <2>4
    <3> QED
      BY <1>5, <1>7, <3>1
  <2> QED
    BY <1>7, <2>2, <2>3, <2>4
<1> QED
  BY <1>2, <1>6, <1>7

\* An object, or the name of a type, is put.
LEMMA VariableLays ==
  ASSUME NEW b, Laying(b), Variable
  PROVE  LayInv'
<1>1. todo.do = "variable" /\ todo.do \notin Closers
  BY DEF Variable, Doing, Closers
<1>2. Standing /\ Free(ret.type, symbols, Len(tables)) /\ Tidy(symtables, tables, symbols)
      /\ Framed(b, function_locals_size, symbols)
  BY DEF Laying
<1>3. PICK u : u = todo.symbol
  OBVIOUS
<1>4. PICK o : o = IF cur_decl_type = Local THEN - function_locals_size ELSE 0
  OBVIOUS
<1>5. PICK r : r = [u EXCEPT !.offset = o]
  OBVIOUS
<1>6. /\ Continue(<< >>) /\ UNCHANGED << ret, symtables, cur_decl_type >>
      /\ symbols' = Append(symbols, r) /\ tables' = PutInto(u.name, "SC_NAME", Len(symbols) + 1)
      /\ function_locals_size' = function_locals_size + IF cur_decl_type = Local THEN u.size ELSE 0
  BY <1>3, <1>4, <1>5 DEF Variable
<1>7. Putting(r)
  <2>1. symbols' = Append(symbols, r) /\ symtables' = symtables
    BY <1>6
  <2>2. tables' = PutInto(u.name, "SC_NAME", Len(symbols) + 1)
    BY <1>6
  <2> QED
    BY <2>1, <2>2 DEF Putting
<1>8. /\ Where(b).c = cur_decl_type /\ Where(b).b = b /\ Where(b).k = Len(symtables)
  BY WhereIs
<1>9. Ready(u, Where(b), symbols, Len(tables)) /\ IsSymbol(u, symbols, Len(tables))
  <2>1. Suits(todo, Where(b), symtables, symbols, Len(tables)) /\ IsItem(todo, symbols, Len(tables))
    BY <1>2, HeadLaid, StandingIs
  <2> QED
    BY <1>1, <1>3, <2>1 DEF Suits, IsItem
<1>10. /\ r.kind = u.kind /\ r.type = u.type /\ r.size = u.size /\ r.symtable = u.symtable
       /\ r.complete = u.complete /\ r.function = u.function /\ r.locals_size = u.locals_size
       /\ r.offset = o /\ DOMAIN r = SymbolFields
  BY <1>5, <1>9 DEF IsSymbol, SymbolFields
<1>11. /\ Placed(Where(b), symtables, symbols) /\ Current = symtables[Len(symtables)]
  BY <1>2, HeadLaid, StandingIs
<1>12. Current \in Structs(symbols) => cur_decl_type # Local
  BY <1>8, <1>11 DEF Placed
<1>13. b \in 0 .. Len(symbols) /\ (b = 0 => cur_decl_type # Local)
  BY <1>8, <1>11 DEF Placed
<1>14. IsSymbol(r, symbols, Len(tables))
  BY <1>9, <1>10 DEF IsSymbol
<1>15. /\ r.kind \in Measured /\ Sized(r.type, r.size, symbols) /\ (r.kind = "variable" => cur_decl_type = Local)
       /\ r.function = b /\ ~ r.complete /\ r.symtable = 0 /\ r.locals_size = 0 /\ r.size \in Nat
  BY <1>8, <1>9, <1>10 DEF Ready, IsSymbol
<1>16. MayBePut(r)
  <2>1. Current \in Structs(symbols) => r.kind \notin {"variable", "parameter"} /\ r.offset = 0
    BY <1>4, <1>10, <1>12, <1>15 DEF Measured
  <2>2. r.kind \notin TagKinds
    BY <1>15 DEF TagKinds, Measured
  <2> QED
    BY <1>13, <1>14, <1>15, <2>1, <2>2 DEF MayBePut
<1>17. /\ Tidy(symtables', tables', symbols') /\ Free(ret.type, symbols', Len(tables'))
       /\ Len(symtables') = Len(symtables)
       /\ Laid(Tail(stack), Below(todo, Where(b)), symtables', symbols', Len(tables'))
  BY <1>7, <1>16, PutLays
<1>18. At(Len(symtables'), cur_decl_type', b) = Below(todo, Where(b))
  BY <1>1, <1>6, <1>17, HeadLaid DEF Where
<1>19. Laid(stack', At(Len(symtables'), cur_decl_type', b), symtables', symbols', Len(tables'))
  <2>1. PICK e, s, P, Z, U : /\ e = Below(todo, Where(b)) /\ s = Tail(stack)
                             /\ P = symtables' /\ Z = symbols' /\ U = Len(tables')
    OBVIOUS
  <2>2. Laid(<< >> \o s, e, P, Z, U)
    BY <1>17, <2>1, NothingInFront
  <2> QED
    BY <1>6, <1>18, <2>1, <2>2 DEF Continue
<1>20. Framed(b, function_locals_size', symbols')
  <2>1. PICK Z, y, N, z : Z = symbols' /\ y = function_locals_size' /\ N = Len(symbols) /\ z = function_locals_size
    OBVIOUS
  <2>2. /\ N \in Nat /\ DOMAIN symbols = 1 .. N /\ DOMAIN Z = 1 .. N + 1 /\ Len(Z) = N + 1
        /\ Z[N + 1] = r /\ \A s \in 1 .. N : Z[s] = symbols[s]
    BY <1>2, <1>7, <1>16, <2>1, PutMore
  <2>3. z \in Nat
    BY <1>2, <2>1 DEF Standing, TypesInv, Steady
  <2>4. y = z + IF cur_decl_type = Local THEN r.size ELSE 0
    BY <1>6, <1>10, <2>1
  <2>5. y = z \/ y = z + r.size
    BY <1>15, <2>3, <2>4
  <2>6. r.kind = "variable" => b # 0 /\ y = z + r.size /\ r.offset = - z
    BY <1>4, <1>10, <1>13, <1>15, <2>1, <2>4
  <2>7. \A s \in DOMAIN symbols : symbols[s].size \in Nat
    <3>1. SymbolsOK(symbols, Len(tables))
      BY <1>2, StandingIs
    <3> QED
      BY <2>1, <2>2, <3>1 DEF SymbolsOK, IsSymbol
  <2>8. Framed(b, z, symbols) /\ Numbered(symbols) /\ Len(symbols) = N /\ b \in 0 .. N /\ r.function = b
    BY <1>2, <1>13, <1>15, <2>1 DEF Tidy
  <2>9. Framed(b, y, Z)
    BY <1>15, <2>2, <2>3, <2>5, <2>6, <2>7, <2>8, FrameGrows
  <2> QED
    BY <2>1, <2>9
<1>21. Free(ret'.type, symbols', Len(tables'))
  BY <1>6, <1>17
<1> QED
  BY <1>17, <1>19, <1>20, <1>21, LayGoesOn

----------------------------------------------------------------------------
(* The scope of a struct *)

\* Two lengths are one.
LEMMA LengthIs ==
  ASSUME NEW m \in Nat, NEW n \in Nat, 1 .. m = 1 .. n
  PROVE  m = n
<1>1. CASE m = 0
  <2>1. 1 .. m = {}
    BY <1>1
  <2>2. n # 0 => 1 \in 1 .. n
    OBVIOUS
  <2> QED
    BY <1>1, <2>1, <2>2
<1>2. CASE m # 0
  <2>1. m \in 1 .. n
    BY <1>2
  <2>2. n \in 1 .. m
    BY <2>1
  <2> QED
    BY <2>1, <2>2
<1> QED
  BY <1>1, <1>2

\* The symbols Z are those of Y, but for the scope of g, which is the m-th table.
Scoped(Y, Z, g, m) ==
  /\ DOMAIN Z = DOMAIN Y /\ Len(Z) = Len(Y)
  /\ \A s \in DOMAIN Y :
       /\ Z[s].kind = Y[s].kind /\ Z[s].type = Y[s].type /\ Z[s].size = Y[s].size
       /\ Z[s].offset = Y[s].offset /\ Z[s].complete = Y[s].complete
       /\ Z[s].function = Y[s].function /\ Z[s].locals_size = Y[s].locals_size
       /\ Z[s].symtable = IF s = g THEN m ELSE Y[s].symtable

\* A struct that has no scope gets one, in which there is nothing.
LEMMA TidyStruct ==
  ASSUME NEW S, NEW B, NEW Y, Tidy(S, B, Y), TablesOK(B, Y), SymbolsOK(Y, Len(B)),
         NEW P, NEW C, NEW Z, NEW g \in Tags(Y), Y[g].symtable = 0, Y[g].kind # "enum",
         NEW m, m = Len(B) + 1, Scoped(Y, Z, g, m), DOMAIN C = 1 .. m, C[m] = << >>,
         \A t \in 1 .. Len(B) : C[t] = B[t],
         \A i \in 1 .. Len(P) : P[i] = m \/ \E j \in 1 .. Len(S) : P[i] = S[j]
  PROVE  Tidy(P, C, Z)
<1>1. /\ DOMAIN Z = DOMAIN Y /\ DOMAIN Y = 1 .. Len(Y) /\ DOMAIN B = 1 .. Len(B) /\ Len(B) \in Nat
      /\ Tags(Z) = Tags(Y) /\ g \in DOMAIN Y /\ m \in Nat \ {0} /\ m \notin 1 .. Len(B)
      /\ \A s \in DOMAIN Y : Y[s].symtable \in 0 .. Len(B)
  <2>1. DOMAIN Y = 1 .. Len(Y) /\ DOMAIN B = 1 .. Len(B) /\ Len(B) \in Nat
    BY DEF SymbolsOK, TablesOK, IsSeq
  <2>2. \A s \in DOMAIN Y : Y[s].symtable \in 0 .. Len(B)
    BY <2>1 DEF SymbolsOK, IsSymbol
  <2>3. m \in Nat \ {0} /\ m \notin 1 .. Len(B)
    BY <2>1
  <2> QED
    BY <2>1, <2>2, <2>3 DEF Scoped, Tags
<1>2. ~ Y[g].complete
  BY <1>1 DEF Tidy, TagsClosed
<1>3. \A t \in DOMAIN B : \A i \in DOMAIN B[t] : B[t][i].sym \in DOMAIN Y
  <2>1. ASSUME NEW t \in DOMAIN B, NEW i \in DOMAIN B[t] PROVE B[t][i].sym \in DOMAIN Y
    <3>1. PICK c : c = B[t]
      OBVIOUS
    <3>2. IsSeq(c) /\ \A j \in 1 .. Len(c) : IsEntry(c[j], Y)
      BY <1>1, <3>1 DEF TablesOK
    <3>3. DOMAIN c = 1 .. Len(c)
      BY <3>2 DEF IsSeq
    <3> QED
      BY <3>1, <3>2, <3>3 DEF IsEntry
  <2> QED
    BY <2>1
<1>4. DOMAIN C[m] = {}
  <2>1. DOMAIN << >> = {}
    OBVIOUS
  <2> QED
    BY <2>1
<1>5. \A t \in DOMAIN C : \A i \in DOMAIN C[t] : t \in DOMAIN B /\ C[t] = B[t]
  <2>1. ASSUME NEW t \in DOMAIN C, t # m PROVE t \in DOMAIN B /\ C[t] = B[t]
    BY <1>1, <2>1
  <2> QED
    BY <1>4, <2>1
<1>6. TypesSized(Z)
  <2>1. SizesStand(Y, Z)
    BY <1>1 DEF Scoped, SizesStand
  <2>2. ASSUME NEW s \in DOMAIN Y, Y[s].kind \in Measured PROVE Sized(Y[s].type, Y[s].size, Z)
    <3>1. Sized(Y[s].type, Y[s].size, Y)
      BY <2>2 DEF Tidy, TypesSized
    <3>2. IsParts(Y[s].type, Y, Len(B))
      BY <1>1 DEF SymbolsOK, IsSymbol
    <3> QED
      BY <2>1, <3>1, <3>2, SizedStays
  <2> QED
    BY <1>1, <2>2 DEF TypesSized, Scoped
<1>7. EntriesDiffer(C)
  BY <1>5 DEF Tidy, EntriesDiffer
<1>8. \A s \in DOMAIN Y : s # g => Z[s].symtable = Y[s].symtable /\ Z[s].symtable # m
  BY <1>1 DEF Scoped
<1>9. Z[g].symtable = m
  BY <1>1 DEF Scoped
<1>10. TagsApart(Z)
  <2> SUFFICES ASSUME NEW s \in Tags(Y), NEW u \in Tags(Y), Z[s].symtable # 0, Z[s].symtable = Z[u].symtable
               PROVE  s = u
    BY <1>1 DEF TagsApart
  <2>1. s \in DOMAIN Y /\ u \in DOMAIN Y
    BY DEF Tags
  <2>2. s # g /\ u # g => s = u
    BY <1>8, <2>1 DEF Tidy, TagsApart
  <2> QED
    BY <1>8, <1>9, <2>1, <2>2
<1>11. TagsHold(C, Z)
  <2> SUFFICES ASSUME NEW s \in Tags(Y), Z[s].symtable # 0
               PROVE  /\ Z[s].kind # "enum"
                      /\ \A i \in DOMAIN C[Z[s].symtable] :
                           /\ Z[C[Z[s].symtable][i].sym].kind \notin {"variable", "parameter"}
                           /\ ~ Z[s].complete => Z[C[Z[s].symtable][i].sym].offset = 0
    BY <1>1 DEF TagsHold
  <2>1. s \in DOMAIN Y
    BY DEF Tags
  <2>2. CASE s = g
    BY <1>1, <1>4, <1>9, <2>2 DEF Scoped
  <2>3. CASE s # g
    <3>1. PICK t : t = Y[s].symtable
      OBVIOUS
    <3>2. Z[s].symtable = t /\ t \in DOMAIN B /\ C[t] = B[t] /\ t # 0
      BY <1>1, <1>8, <2>1, <2>3, <3>1
    <3>3. /\ Y[s].kind # "enum"
          /\ \A i \in DOMAIN B[t] : /\ Y[B[t][i].sym].kind \notin {"variable", "parameter"}
                                    /\ ~ Y[s].complete => Y[B[t][i].sym].offset = 0
      BY <3>1, <3>2 DEF Tidy, TagsHold
    <3>4. Z[s].kind = Y[s].kind /\ Z[s].complete = Y[s].complete
      BY <2>1 DEF Scoped
    <3>5. \A i \in DOMAIN B[t] : Z[B[t][i].sym].kind = Y[B[t][i].sym].kind /\ Z[B[t][i].sym].offset = Y[B[t][i].sym].offset
      BY <1>3, <3>2 DEF Scoped
    <3> QED
      BY <3>2, <3>3, <3>4, <3>5
  <2> QED
    BY <2>2, <2>3
<1>12. TagsOpen(Z)
  BY <1>1 DEF Tidy, TagsOpen, Scoped, Tags
<1>13. TagsClosed(P, C, Z)
  <2> SUFFICES ASSUME NEW s \in DOMAIN Y, Z[s].complete
               PROVE  /\ s \in Tags(Z) /\ Z[s].symtable # 0 /\ \A i \in 1 .. Len(P) : P[i] # Z[s].symtable
                      /\ Filled(s, C[Z[s].symtable], Z)
    BY <1>1 DEF TagsClosed
  <2>1. Y[s].complete /\ s # g
    BY <1>2 DEF Scoped
  <2>2. Z[s].symtable = Y[s].symtable /\ Z[s].symtable # m
    BY <1>8, <2>1
  <2>3. PICK table : table = B[Y[s].symtable]
    OBVIOUS
  <2>4. /\ s \in Tags(Y) /\ Y[s].symtable # 0 /\ \A i \in 1 .. Len(S) : S[i] # Y[s].symtable
        /\ Filled(s, table, Y)
    BY <2>1, <2>3 DEF Tidy, TagsClosed
  <2>5. Y[s].symtable \in DOMAIN B /\ C[Y[s].symtable] = table
    BY <1>1, <2>3, <2>4
  <2>6. \A i \in DOMAIN table : table[i].sym \in DOMAIN Y
    BY <1>3, <2>3, <2>5
  <2>7. FieldsOf(table, Z) = FieldsOf(table, Y)
    BY <2>6 DEF FieldsOf, Scoped
  <2>8. \A i \in FieldsOf(table, Y) : /\ Z[table[i].sym].size = Y[table[i].sym].size
                                      /\ Z[table[i].sym].offset = Y[table[i].sym].offset
    BY <2>6 DEF FieldsOf, Scoped
  <2>9. Z[s].kind = Y[s].kind /\ Z[s].size = Y[s].size
    BY DEF Scoped
  <2>10. Filled(s, table, Z)
    BY <2>4, <2>7, <2>8, <2>9, FilledStays
  <2> QED
    BY <1>1, <2>2, <2>4, <2>5, <2>10
<1>14. Numbered(Z)
  BY <1>1 DEF Tidy, Numbered, Scoped
<1> QED
  BY <1>6, <1>7, <1>10, <1>11, <1>12, <1>13, <1>14 DEF Tidy

\* The braces of a struct.
LEMMA StructLays ==
  ASSUME NEW b, Laying(b), Noting, StructSpecifier
  PROVE  LayInv'
<1> SUFFICES ASSUME Whole' PROVE LayInv'
  BY DEF LayInv
<1>1. todo.do = "struct" /\ todo.do \notin Closers
  BY DEF StructSpecifier, Doing, Closers
<1>2. Standing /\ Free(ret.type, symbols, Len(tables)) /\ Tidy(symtables, tables, symbols)
      /\ Framed(b, function_locals_size, symbols)
  BY DEF Laying
<1>3. CASE token # "{"
  <2>1. Return(Of("tag", todo.tag), NoName)
    BY <1>3 DEF StructSpecifier
  <2>2. Free(Of("tag", todo.tag), symbols, Len(tables))
    BY FreeTypes DEF Of
  <2> QED
    BY <1>1, <2>1, <2>2, CalmPasses
<1>4. CASE token = "{"
  <2>1. PICK g, m : g = todo.tag /\ m = Len(tables) + 1
    OBVIOUS
  <2>2. PICK x : x = [do |-> "field", tag |-> g, old |-> cur_decl_type, opened |-> Meaning]
    OBVIOUS
  <2>3. PICK y : y = Item("declaration")
    OBVIOUS
  <2>4. /\ PushNew /\ symbols' = [symbols EXCEPT ![g].symtable = m]
        /\ seen' = [seen EXCEPT !.redefined = @ \/ symbols[g].symtable # 0 \/ symbols[g].kind # todo.kind]
        /\ cur_decl_type' = "DT_STRUCT" /\ Continue(<< y, x >>) /\ UNCHANGED << ret, function_locals_size >>
    BY <1>4, <2>1, <2>2, <2>3 DEF StructSpecifier
  <2>5. symbols[g].symtable = 0 /\ symbols[g].kind = todo.kind
    <3>1. ~ seen'.redefined
      BY DEF Whole
    <3> QED
      BY <2>4, <3>1 DEF Noting
  <2>6. g \in Tags(symbols) /\ todo.kind # "enum" /\ g \in DOMAIN symbols
    BY <1>1, <1>2, <2>1, StandingIs DEF IsItem, Inside, Tags
  <2>7. /\ SymbolsOK(symbols, Len(tables)) /\ TablesOK(tables, symbols) /\ ScopesLead
        /\ IsSeq(tables) /\ Len(tables) \in Nat /\ Len(symtables) \in Nat
        /\ Current \in 1 .. Len(tables) /\ Current = symtables[Len(symtables)]
    BY <1>2, StandingIs
  <2>8. /\ DOMAIN symbols = 1 .. Len(symbols) /\ Len(symbols) \in Nat
        /\ \A s \in DOMAIN symbols : DOMAIN symbols[s] = SymbolFields /\ symbols[s].symtable \in 0 .. Len(tables)
    BY <2>7 DEF SymbolsOK, IsSymbol, IsSeq
  <2>9. SymbolsOK(symbols', Len(tables'))
    <3>1. TypesInv'
      BY <1>2, StructTypes DEF Standing
    <3> QED
      BY <3>1 DEF TypesInv, Steady
  <2>10. Scoped(symbols, symbols', g, m)
    <3>1. DOMAIN symbols' = DOMAIN symbols
      BY <2>4
    <3>2. Len(symbols') = Len(symbols)
      <4>1. PICK k, n : k = Len(symbols') /\ n = Len(symbols)
        OBVIOUS
      <4>2. k \in Nat /\ n \in Nat /\ 1 .. k = 1 .. n
        BY <2>8, <2>9, <3>1, <4>1 DEF SymbolsOK, IsSeq
      <4> QED
        BY <4>1, <4>2, LengthIs
    <3>3. ASSUME NEW s \in DOMAIN symbols
          PROVE  symbols'[s] = IF s = g THEN [symbols[s] EXCEPT !.symtable = m] ELSE symbols[s]
      BY <2>4
    <3> QED
      BY <2>8, <3>1, <3>2, <3>3 DEF Scoped, SymbolFields
  <2>11. PushTable(m) /\ tables' = Append(tables, << >>)
    BY <2>1, <2>4 DEF PushNew
  <2>12. /\ Len(symtables') = Len(symtables) + 1 /\ symtables'[Len(symtables) + 1] = m
         /\ \A i \in 1 .. Len(symtables) : symtables'[i] = symtables[i]
    <3>1. m \in Nat /\ m > Current
      BY <2>1, <2>7
    <3> QED
      BY <1>2, <2>11, <3>1, ScopePushed
  <2>13. /\ Len(tables') = m /\ DOMAIN tables' = 1 .. m /\ tables'[m] = << >>
         /\ \A i \in 1 .. Len(tables) : tables'[i] = tables[i]
    <3> DEFINE R == {tables[i] : i \in 1 .. Len(tables)} \cup {<< >>}
    <3>1. tables \in Seq(R) /\ << >> \in R
      BY <2>7 DEF IsSeq
    <3> HIDE DEF R
    <3>2. /\ Len(tables') = Len(tables) + 1 /\ \A i \in 1 .. Len(tables) : tables'[i] = tables[i]
          /\ tables'[Len(tables) + 1] = << >> /\ tables' \in Seq(R)
      BY <2>11, <3>1, AppendProperties
    <3> QED
      BY <2>1, <3>2
  <2>14. Tidy(symtables', tables', symbols')
    <3>1. PICK P, C, Z : P = symtables' /\ C = tables' /\ Z = symbols'
      OBVIOUS
    <3>2. \A i \in 1 .. Len(P) : P[i] = m \/ \E j \in 1 .. Len(symtables) : P[i] = symtables[j]
      BY <2>7, <2>12, <3>1
    <3>3. symbols[g].kind # "enum"
      BY <2>5, <2>6
    <3>4. Scoped(symbols, Z, g, m) /\ DOMAIN C = 1 .. m /\ C[m] = << >> /\ \A t \in 1 .. Len(tables) : C[t] = tables[t]
      BY <2>10, <2>13, <3>1
    <3>5. Tidy(P, C, Z)
      BY <1>2, <2>1, <2>5, <2>6, <2>7, <3>2, <3>3, <3>4, TidyStruct
    <3> QED
      BY <3>1, <3>5
  <2>15. ~ symbols[g].complete
    BY <1>2, <2>5, <2>6 DEF Tidy, TagsClosed
  <2>16. Spared(Len(symtables), symtables, symbols, Len(tables), symtables', symbols', Len(tables'))
    <3>1. /\ DOMAIN symbols' = DOMAIN symbols /\ Len(symbols') = Len(symbols)
          /\ \A s \in DOMAIN symbols :
               /\ symbols'[s].kind = symbols[s].kind /\ symbols'[s].size = symbols[s].size
               /\ symbols'[s].complete = symbols[s].complete
               /\ symbols'[s].symtable = IF s = g THEN m ELSE symbols[s].symtable
      BY <2>10 DEF Scoped
    <3>2. m # 0 /\ m \notin 1 .. Len(tables) /\ Len(tables') \in Nat /\ Len(tables) <= Len(tables')
      BY <2>1, <2>7, <2>13
    <3>3. Grown(symbols, symbols') /\ SizesStand(symbols, symbols')
      BY <2>5, <3>1, <3>2 DEF Grown, SizesStand
    <3>4. Tags(symbols') = Tags(symbols)
      BY <3>1 DEF Tags
    <3>5. ASSUME NEW t \in 1 .. Len(tables), t \in Structs(symbols') PROVE t \in Structs(symbols)
      <4>1. PICK s \in Tags(symbols) : symbols'[s].symtable = t
        BY <3>4, <3>5 DEF Structs
      <4>2. s \in DOMAIN symbols /\ t # 0
        BY <2>7 DEF Tags
      <4>3. s # g
        BY <3>1, <3>2, <4>1, <4>2
      <4> QED
        BY <3>1, <4>1, <4>2, <4>3 DEF Structs
    <3>6. \A s \in Tags(symbols) : /\ symbols[s].symtable # 0 => symbols'[s].symtable = symbols[s].symtable
                                   /\ ~ symbols[s].complete => ~ symbols'[s].complete
      BY <2>5, <3>1 DEF Tags
    <3>7. \A i \in 1 .. Len(symtables) : symtables'[i] = symtables[i] /\ symtables[i] \in 1 .. Len(tables)
      BY <2>7, <2>12 DEF ScopesLead
    <3>8. Len(symbols) <= Len(symbols')
      BY <2>8, <3>1
    <3> QED
      BY <2>7, <2>8, <3>1, <3>2, <3>3, <3>5, <3>6, <3>7, <3>8 DEF Spared
  <2>17. PICK P, Z, U, k : P = symtables' /\ Z = symbols' /\ U = Len(tables') /\ k = Len(symtables)
    OBVIOUS
  <2>18. k \in Nat /\ Spared(k, symtables, symbols, Len(tables), P, Z, U)
    BY <2>7, <2>16, <2>17
  <2>19. Free(ret.type, Z, U)
    BY <1>2, <2>18, FreeStays
  <2>20. PICK h, e, s : h = Where(b) /\ e = At(Len(symtables'), "DT_STRUCT", b) /\ s = Tail(stack)
    OBVIOUS
  <2>21. /\ h.k = k /\ h.c = cur_decl_type /\ h.b = b /\ h = At(k, cur_decl_type, b)
         /\ e.k = k + 1 /\ e.c = "DT_STRUCT" /\ e.b = b /\ e = At(e.k, e.c, e.b)
    BY <2>12, <2>17, <2>20, WhereIs, AtIs DEF Where
  <2>22. Placed(h, symtables, symbols) /\ Laid(s, h, symtables, symbols, Len(tables))
    BY <1>1, <2>20, HeadLaid
  <2>23. Laid(s, h, P, Z, U)
    <3>1. h.k <= k /\ h.k \in Nat
      BY <2>18, <2>21
    <3>2. \A n \in 1 .. Len(s) : IsItem(s[n], symbols, Len(tables))
      BY <1>2, <2>20, TailItems
    <3> QED
      BY <2>18, <2>22, <3>1, <3>2, LaidStays
  <2>24. Placed(e, P, Z)
    <3>1. b \in 0 .. Len(Z)
      BY <2>10, <2>17, <2>21, <2>22 DEF Placed, Scoped
    <3>2. e.k \in Nat \ {0} /\ e.c # Local
      BY <2>18, <2>21 DEF Local
    <3> QED
      BY <2>21, <3>1, <3>2 DEF Placed
  <2>25. x.do = "field" /\ x.tag = g /\ x.old = cur_decl_type
    BY <2>2
  <2>26. Below(x, e) = h
    <3>1. Held(x) = 1
      BY <2>25 DEF Held, Closers
    <3>2. e.k - 1 = k
      BY <2>18, <2>21
    <3> QED
      BY <2>21, <2>25, <3>1, <3>2 DEF Below
  <2>27. Suits(x, e, P, Z, U)
    <3>1. P[e.k] = m /\ Z[g].symtable = m /\ ~ Z[g].complete
      BY <2>6, <2>10, <2>12, <2>15, <2>17, <2>21 DEF Scoped
    <3> QED
      BY <2>24, <2>25, <3>1 DEF Suits, DeclCalls, InParameters
  <2>28. Laid(<< x >> \o s, e, P, Z, U)
    BY <2>23, <2>26, <2>27, LaidPush
  <2>29. Laid(<< y, x >> \o s, e, P, Z, U)
    <3>1. << y, x >> \o s = << y >> \o (<< x >> \o s)
      BY <2>23, InFront DEF Laid
    <3>2. Simple(y, e.c)
      BY <2>3, <2>21, SimpleItems
    <3>3. PICK r : r = << x >> \o s
      OBVIOUS
    <3>4. Laid(<< y >> \o r, e, P, Z, U)
      BY <2>24, <2>28, <3>2, <3>3, SimpleLaid
    <3> QED
      BY <3>1, <3>3, <3>4
  <2>30. Laid(stack', At(Len(symtables'), cur_decl_type', b), symtables', symbols', Len(tables'))
    BY <2>4, <2>17, <2>20, <2>29 DEF Continue
  <2>31. Framed(b, function_locals_size, symbols')
    <3>1. \A f : LocalsOf(f, symbols') = LocalsOf(f, symbols)
      BY <2>10 DEF LocalsOf, Scoped
    <3>2. \A f, v : v \in LocalsOf(f, symbols) => v \in DOMAIN symbols
      BY DEF LocalsOf
    <3>3. \A f, v : v \in LocalsOf(f, symbols) => symbols'[v].offset = symbols[v].offset /\ symbols'[v].size = symbols[v].size
      BY <2>10, <3>2 DEF Scoped
    <3>4. \A f \in 1 .. Len(symbols) : symbols'[f].locals_size = symbols[f].locals_size
      BY <2>8, <2>10 DEF Scoped
    <3>5. Len(symbols') = Len(symbols)
      BY <2>10 DEF Scoped
    <3> QED
      BY <1>2, <3>1, <3>3, <3>4, <3>5 DEF Framed
  <2>32. Free(ret'.type, symbols', Len(tables')) /\ Framed(b, function_locals_size', symbols')
    BY <2>4, <2>17, <2>19, <2>31
  <2> QED
    BY <2>14, <2>30, <2>32, LayGoesOn
<1> QED
  BY <1>3, <1>4

----------------------------------------------------------------------------
(* A struct is complete *)

\* The symbols Z are those of Y, but for the size of g, which is complete, and for offsets.
Completed(Y, Z, g) ==
  /\ DOMAIN Z = DOMAIN Y /\ Len(Z) = Len(Y) /\ Z[g].complete
  /\ \A s \in DOMAIN Y :
       /\ Z[s].kind = Y[s].kind /\ Z[s].type = Y[s].type /\ Z[s].symtable = Y[s].symtable
       /\ Z[s].function = Y[s].function /\ Z[s].locals_size = Y[s].locals_size
       /\ s # g => Z[s].size = Y[s].size /\ Z[s].complete = Y[s].complete

\* The fields are moved, if they are those of a struct, and nothing else is.
Moved(Y, Z, g, table, f) ==
  LET F == FieldsOf(table, Y) IN
  IF Y[g].kind = "struct"
  THEN /\ Z[g].size = f[F]
       /\ \A i \in F : Z[table[i].sym].offset = f[{j \in F : j < i}]
       /\ \A s \in DOMAIN Y : (\A i \in F : table[i].sym # s) => Z[s].offset = Y[s].offset
  ELSE /\ Z[g].size = Max({0} \cup {Y[table[i].sym].size : i \in F})
       /\ \A s \in DOMAIN Y : Z[s].offset = Y[s].offset

\* The size of a union, from the fields in a table.
Widest(g, table) == Max({symbols[g].size} \cup {symbols[table[i].sym].size : i \in Fields(table)})

\* What LaidOut makes of a union,
LEMMA UnionLaidOut ==
  ASSUME NEW g, symbols[g].kind # "struct"
  PROVE  LaidOut(g) = [symbols EXCEPT ![g] = [@ EXCEPT !.size = Widest(g, tables[symbols[g].symtable]), !.complete = TRUE]]
  BY DEF LaidOut, Widest

\* and what of any: only the size of what is complete, and the offsets of its fields.
LEMMA LaidOutIs ==
  ASSUME NEW T \in Nat, T = Len(tables), SymbolsOK(symbols, T), TablesOK(tables, symbols),
         NEW g \in Tags(symbols), symbols[g].symtable # 0, symbols[g].size = 0,
         NEW table, table = tables[symbols[g].symtable],
         \A i, j \in DOMAIN table : table[i].sym = table[j].sym => i = j,
         NEW f, Sums(symbols, f, table, SUBSET Fields(table)), NEW Z, Z = LaidOut(g)
  PROVE  Completed(symbols, Z, g) /\ Moved(symbols, Z, g, table, f)
<1>1. /\ DOMAIN symbols = 1 .. Len(symbols) /\ Len(symbols) \in Nat /\ IsSeq(symbols) /\ g \in DOMAIN symbols
      /\ \A n \in DOMAIN symbols : DOMAIN symbols[n] = SymbolFields
  <2>1. IsSeq(symbols) /\ \A n \in 1 .. Len(symbols) : IsSymbol(symbols[n], symbols, T)
    BY DEF SymbolsOK
  <2>2. DOMAIN symbols = 1 .. Len(symbols) /\ Len(symbols) \in Nat
    BY <2>1 DEF IsSeq
  <2> QED
    BY <2>1, <2>2 DEF IsSymbol, Tags
<1>2. symbols[g].symtable \in 1 .. Len(tables)
  BY <1>1 DEF SymbolsOK, IsSymbol
<1>3. IsSeq(table) /\ \A i \in 1 .. Len(table) : table[i].sym \in DOMAIN symbols
  BY <1>2 DEF TablesOK, IsEntry
<1>4. DOMAIN table = 1 .. Len(table) /\ Len(table) \in Nat
  BY <1>3 DEF IsSeq
<1>5. PICK F : F = Fields(table)
  OBVIOUS
<1>6. FieldsOf(table, symbols) = F /\ F \subseteq DOMAIN table
  BY <1>5 DEF Fields, FieldsOf
<1>7. \A i \in F : table[i].sym # g /\ table[i].sym \in DOMAIN symbols
  <2>1. \A i \in F : symbols[table[i].sym].kind \in VarKinds
    BY <1>5 DEF Fields
  <2>2. symbols[g].kind \notin VarKinds
    BY DEF Tags, TagKinds, VarKinds
  <2> QED
    BY <1>3, <1>4, <1>6, <2>1, <2>2
<1>8. DOMAIN Z = DOMAIN symbols /\ Len(Z) = Len(symbols)
  <2>1. SymbolsOK(Z, T)
    BY <1>1, LaidOutKeeps
  <2>2. DOMAIN Z = DOMAIN symbols
    <3>1. CASE symbols[g].kind = "struct"
      BY <3>1 DEF LaidOut
    <3>2. CASE symbols[g].kind # "struct"
      BY <3>2 DEF LaidOut
    <3> QED
      BY <3>1, <3>2
  <2>3. PICK m, n : m = Len(Z) /\ n = Len(symbols)
    OBVIOUS
  <2>4. m \in Nat /\ n \in Nat /\ 1 .. m = 1 .. n
    BY <1>1, <2>1, <2>2, <2>3 DEF SymbolsOK, IsSeq
  <2> QED
    BY <2>2, <2>3, <2>4, LengthIs
<1>9. CASE symbols[g].kind = "struct"
  <2>1. PICK z : z = SizesBefore(table, Len(table) + 1)
    OBVIOUS
  <2>2. Z = [n \in DOMAIN symbols |->
           IF n = g
           THEN [symbols[n] EXCEPT !.size = @ + z, !.complete = TRUE]
           ELSE IF \E i \in F : table[i].sym = n
           THEN [symbols[n] EXCEPT !.offset = symbols[g].size
                                     + SizesBefore(table, CHOOSE i \in F : table[i].sym = n)]
           ELSE symbols[n]]
    BY <1>5, <1>9, <2>1 DEF LaidOut
  <2>3. Z[g] = [symbols[g] EXCEPT !.size = @ + z, !.complete = TRUE]
    BY <1>1, <2>2
  <2>4. z = f[F]
    <3>1. {j \in F : j < Len(table) + 1} = F
      BY <1>4, <1>6
    <3>2. PICK k : k = Len(table) + 1
      OBVIOUS
    <3>3. SizesBefore(table, k) = f[{j \in F : j < k}]
      BY <1>3, <1>5, BeforeIsSum
    <3>4. z = f[{j \in F : j < k}]
      BY <2>1, <3>2, <3>3
    <3> QED
      BY <1>5, <3>1, <3>2, <3>4
  <2>5. /\ Z[g].complete /\ Z[g].size = 0 + z /\ Z[g].offset = symbols[g].offset /\ Z[g].kind = symbols[g].kind
        /\ Z[g].type = symbols[g].type /\ Z[g].symtable = symbols[g].symtable
        /\ Z[g].function = symbols[g].function /\ Z[g].locals_size = symbols[g].locals_size
    BY <1>1, <2>3 DEF SymbolFields
  <2>6. f[F] \in Nat
    <3>1. \A j \in F : symbols[table[j].sym].size \in Nat
      BY <1>1, <1>7 DEF SymbolsOK, IsSymbol
    <3>2. IsFiniteSet(F)
      BY <1>3, <1>6, FieldsAreFinite
    <3> QED
      BY <1>5, <3>1, <3>2, SumsAreNumbers
  <2>7. ASSUME NEW i \in F
        PROVE  Z[table[i].sym] = [symbols[table[i].sym] EXCEPT !.offset = 0 + f[{j \in F : j < i}]]
    <3>1. PICK n : n = table[i].sym
      OBVIOUS
    <3>2. (CHOOSE k \in F : table[k].sym = n) = i
      BY <1>6, <3>1
    <3>3. PICK k : k = CHOOSE h \in F : table[h].sym = n
      OBVIOUS
    <3>4. Z[n] = [symbols[n] EXCEPT !.offset = symbols[g].size + SizesBefore(table, k)]
      <4>1. n \in DOMAIN symbols /\ n # g /\ \E h \in F : table[h].sym = n
        BY <1>7, <3>1
      <4>2. PICK o : o = symbols[g].size + SizesBefore(table, CHOOSE h \in F : table[h].sym = n)
        OBVIOUS
      <4>3. Z[n] = [symbols[n] EXCEPT !.offset = o]
        BY <2>2, <4>1, <4>2
      <4> QED
        BY <3>3, <4>2, <4>3
    <3>5. SizesBefore(table, i) = f[{j \in F : j < i}]
      BY <1>3, <1>5, BeforeIsSum
    <3> QED
      BY <3>1, <3>2, <3>3, <3>4, <3>5
  <2>8. \A i \in F : f[{j \in F : j < i}] \in Nat
    <3>1. \A j \in F : symbols[table[j].sym].size \in Nat
      BY <1>1, <1>7 DEF SymbolsOK, IsSymbol
    <3>2. IsFiniteSet(F) /\ Weighed(symbols, table, F)
      BY <1>3, <1>6, <3>1, FieldsAreFinite DEF Weighed
    <3>3. \A R \in SUBSET F : f[R] \in Nat
      BY <1>5, <3>2, PartialSums
    <3>4. \A i \in F : {j \in F : j < i} \in SUBSET F
      OBVIOUS
    <3> QED
      BY <3>3, <3>4
  <2>9. ASSUME NEW i \in F
        PROVE  /\ Z[table[i].sym].offset = f[{j \in F : j < i}]
               /\ \A c \in SymbolFields \ {"offset"} : Z[table[i].sym][c] = symbols[table[i].sym][c]
    <3>1. PICK n, o : n = table[i].sym /\ o = f[{j \in F : j < i}]
      OBVIOUS
    <3>2. o \in Nat /\ Z[n] = [symbols[n] EXCEPT !.offset = 0 + o] /\ DOMAIN symbols[n] = SymbolFields
      BY <1>1, <1>7, <2>7, <2>8, <3>1
    <3>3. 0 + o = o
      BY <3>2
    <3>4. Z[n].offset = o /\ \A c \in SymbolFields \ {"offset"} : Z[n][c] = symbols[n][c]
      BY <3>2, <3>3 DEF SymbolFields
    <3> QED
      BY <3>1, <3>4
  <2>10. ASSUME NEW n \in DOMAIN symbols, n # g, \A i \in F : table[i].sym # n PROVE Z[n] = symbols[n]
    <3>1. ~ \E i \in F : table[i].sym = n
      BY <2>10
    <3> QED
      BY <2>2, <2>10, <3>1
  <2>11. ASSUME NEW n \in DOMAIN symbols, n # g
         PROVE  \A c \in SymbolFields \ {"offset"} : Z[n][c] = symbols[n][c]
    <3>1. CASE \A i \in F : table[i].sym # n
      BY <2>10, <2>11, <3>1
    <3>2. CASE ~ \A i \in F : table[i].sym # n
      <4>1. PICK i \in F : table[i].sym = n
        BY <3>2
      <4> QED
        BY <2>9, <4>1
    <3> QED
      BY <3>1, <3>2
  <2>12. Completed(symbols, Z, g)
    <3>1. \A n \in DOMAIN symbols :
            /\ Z[n].kind = symbols[n].kind /\ Z[n].type = symbols[n].type /\ Z[n].symtable = symbols[n].symtable
            /\ Z[n].function = symbols[n].function /\ Z[n].locals_size = symbols[n].locals_size
            /\ n # g => Z[n].size = symbols[n].size /\ Z[n].complete = symbols[n].complete
      BY <2>5, <2>11 DEF SymbolFields
    <3> QED
      BY <1>8, <2>5, <3>1 DEF Completed
  <2>13. Moved(symbols, Z, g, table, f)
    <3>1. Z[g].size = f[F]
      BY <2>4, <2>5, <2>6
    <3>2. \A i \in F : Z[table[i].sym].offset = f[{j \in F : j < i}]
      BY <2>9
    <3>3. \A n \in DOMAIN symbols : (\A i \in F : table[i].sym # n) => Z[n].offset = symbols[n].offset
      BY <2>5, <2>10
    <3> QED
      BY <1>6, <1>9, <3>1, <3>2, <3>3 DEF Moved
  <2> QED
    BY <2>12, <2>13
<1>10. CASE symbols[g].kind # "struct"
  <2>1. PICK m : m = Widest(g, table)
    OBVIOUS
  <2>2. Z = [symbols EXCEPT ![g] = [@ EXCEPT !.size = m, !.complete = TRUE]]
    BY <1>10, <2>1, UnionLaidOut
  <2>3. Z[g] = [symbols[g] EXCEPT !.size = m, !.complete = TRUE]
    BY <1>1, <2>2
  <2>4. \A n \in DOMAIN symbols : n # g => Z[n] = symbols[n]
    BY <2>2
  <2>5. /\ Z[g].complete /\ Z[g].size = m /\ Z[g].offset = symbols[g].offset /\ Z[g].kind = symbols[g].kind
        /\ Z[g].type = symbols[g].type /\ Z[g].symtable = symbols[g].symtable
        /\ Z[g].function = symbols[g].function /\ Z[g].locals_size = symbols[g].locals_size
    BY <1>1, <2>3 DEF SymbolFields
  <2>6. Completed(symbols, Z, g)
    BY <1>8, <2>4, <2>5 DEF Completed
  <2>7. m = Max({0} \cup {symbols[table[i].sym].size : i \in F})
    BY <1>5, <2>1 DEF Widest
  <2>8. Moved(symbols, Z, g, table, f)
    <3>1. \A n \in DOMAIN symbols : Z[n].offset = symbols[n].offset
      BY <2>4, <2>5
    <3> QED
      BY <1>6, <1>10, <2>5, <2>7, <3>1 DEF Moved
  <2> QED
    BY <2>6, <2>8
<1> QED
  BY <1>9, <1>10

\* The fields lie one behind the other, or all at the beginning.
LEMMA FilledLaid ==
  ASSUME NEW g \in Tags(symbols), NEW table, IsSeq(table), NEW Z, Completed(symbols, Z, g),
         \A i \in 1 .. Len(table) : /\ table[i].sym \in DOMAIN symbols
                                    /\ symbols[table[i].sym].size \in Nat /\ symbols[table[i].sym].offset = 0,
         NEW f, Sums(symbols, f, table, SUBSET Fields(table)), Moved(symbols, Z, g, table, f)
  PROVE  Filled(g, table, Z)
<1>1. PICK F : F = FieldsOf(table, symbols)
  OBVIOUS
<1>2. F = Fields(table) /\ F \subseteq 1 .. Len(table) /\ IsFiniteSet(F) /\ Len(table) \in Nat
  BY <1>1, FieldsAreFinite DEF Fields, FieldsOf, IsSeq
<1>3. g \in DOMAIN symbols /\ \A i \in F : table[i].sym # g /\ table[i].sym \in DOMAIN symbols
  BY <1>1, <1>2 DEF FieldsOf, Tags, TagKinds, VarKinds
<1>4. FieldsOf(table, Z) = F
  <2>1. \A i \in DOMAIN table : table[i].sym \in DOMAIN symbols
    BY DEF IsSeq
  <2> QED
    BY <1>1, <2>1 DEF FieldsOf, Completed
<1>5. \A i \in F : Z[table[i].sym].size = symbols[table[i].sym].size /\ symbols[table[i].sym].size \in Nat
  BY <1>2, <1>3 DEF Completed
<1>6. Z[g].kind = symbols[g].kind
  BY <1>3 DEF Completed
<1>7. CASE symbols[g].kind = "struct"
  <2>1. /\ Sums(symbols, f, table, SUBSET F) /\ Z[g].size = f[F]
        /\ \A i \in F : Z[table[i].sym].offset = f[{j \in F : j < i}]
    BY <1>1, <1>2, <1>7 DEF Moved
  <2>2. Weighed(symbols, table, F) /\ SameSizes(symbols, Z, table, F)
    BY <1>5 DEF Weighed, SameSizes
  <2>3. Sums(Z, f, table, SUBSET F)
    BY <2>1, <2>2, SumsSame
  <2>8. \A R \in SUBSET F : \A x \in R : f[R] = symbols[table[x].sym].size + f[R \ {x}]
    <3>1. AnyLast(symbols, table, F, f)
      BY <1>2, <2>1, <2>2, SumOfAny
    <3> QED
      BY <3>1 DEF AnyLast
  <2>4. ASSUME NEW i \in F, NEW R, R = {j \in F : j <= i}
        PROVE  /\ R \in SUBSET F /\ Z[table[i].sym].offset \in Nat
               /\ Z[table[i].sym].offset + Z[table[i].sym].size = f[R]
    <3>1. PICK Q : Q = {j \in F : j < i}
      OBVIOUS
    <3>2. Q \in SUBSET F /\ R \in SUBSET F /\ i \in R /\ R \ {i} = Q
      BY <1>2, <2>4, <3>1
    <3>3. f[Q] \in Nat
      BY <1>2, <2>1, <2>2, <3>2, PartialSums
    <3>4. f[R] = symbols[table[i].sym].size + f[R \ {i}]
      BY <2>8, <3>2
    <3>5. Z[table[i].sym].offset = f[Q]
      BY <2>1, <3>1
    <3>6. PICK p, q, r : p = Z[table[i].sym].offset /\ q = Z[table[i].sym].size /\ r = symbols[table[i].sym].size
      OBVIOUS
    <3>7. f[R] = q + p /\ q \in Nat /\ p \in Nat
      BY <1>5, <3>2, <3>3, <3>4, <3>5, <3>6
    <3> QED
      BY <3>2, <3>6, <3>7
  <2>5. \A Q \in SUBSET F : \A R \in SUBSET Q : f[R] <= f[Q]
    BY <1>2, <2>1, <2>2, SumsGrow
  <2>6. ASSUME NEW i \in F
        PROVE  Z[table[i].sym].offset \in Nat /\ Z[table[i].sym].offset + Z[table[i].sym].size <= Z[g].size
    <3>1. PICK R : R = {j \in F : j <= i}
      OBVIOUS
    <3>2. R \in SUBSET F /\ f[R] <= f[F]
      BY <2>5, <3>1
    <3> QED
      BY <2>1, <2>4, <3>1, <3>2
  <2>7. ASSUME NEW i \in F, NEW k \in F, i < k
        PROVE  Z[table[i].sym].offset + Z[table[i].sym].size <= Z[table[k].sym].offset
    <3>1. PICK R, Q : R = {j \in F : j <= i} /\ Q = {j \in F : j < k}
      OBVIOUS
    <3>2. R \in SUBSET Q /\ Q \in SUBSET F
      BY <1>2, <2>7, <3>1
    <3>3. f[R] <= f[Q]
      BY <2>5, <3>2
    <3>4. Z[table[k].sym].offset = f[Q]
      BY <2>1, <3>1
    <3>5. Z[table[i].sym].offset + Z[table[i].sym].size = f[R]
      BY <2>4, <3>1
    <3> QED
      BY <3>3, <3>4, <3>5
  <2> QED
    BY <1>4, <1>6, <1>7, <2>1, <2>3, <2>6, <2>7 DEF Filled
<1>8. CASE symbols[g].kind # "struct"
  <2>1. PICK m : m = Max({0} \cup {symbols[table[i].sym].size : i \in Fields(table)})
    OBVIOUS
  <2>2. Z[g].size = m /\ \A s \in DOMAIN symbols : Z[s].offset = symbols[s].offset
    <3>1. Z[g].size = Max({0} \cup {symbols[table[i].sym].size : i \in F})
      BY <1>1, <1>8 DEF Moved
    <3> QED
      BY <1>2, <1>8, <2>1, <3>1 DEF Moved
  <2>3. \A i \in F : symbols[table[i].sym].size <= m
    <3>1. 0 \in Nat /\ \A i \in 1 .. Len(table) : symbols[table[i].sym].size \in Nat
      OBVIOUS
    <3> QED
      BY <1>2, <2>1, <3>1, WidestIsNumber
  <2>4. {Z[table[i].sym].size : i \in F} = {symbols[table[i].sym].size : i \in F}
    BY <1>5
  <2>5. Z[g].size = Max({0} \cup {Z[table[i].sym].size : i \in F})
    BY <1>2, <2>1, <2>2, <2>4
  <2>6. \A i \in F : Z[table[i].sym].offset = 0 /\ Z[table[i].sym].size <= Z[g].size
    BY <1>2, <1>3, <1>5, <2>2, <2>3
  <2> QED
    BY <1>4, <1>6, <1>8, <2>5, <2>6 DEF Filled
<1> QED
  BY <1>7, <1>8

\* What is written down stays true: nothing else has moved.
LEMMA TidyLaid ==
  ASSUME NEW S, NEW P, Tidy(S, tables, symbols), TablesOK(tables, symbols), SymbolsOK(symbols, Len(tables)),
         NEW g \in Tags(symbols), ~ symbols[g].complete, symbols[g].symtable # 0,
         NEW table, table = tables[symbols[g].symtable], NEW Z, Completed(symbols, Z, g),
         NEW f, Sums(symbols, f, table, SUBSET Fields(table)), Moved(symbols, Z, g, table, f),
         \A i \in 1 .. Len(P) : P[i] # symbols[g].symtable /\ \E j \in 1 .. Len(S) : P[i] = S[j]
  PROVE  Tidy(P, tables, Z)
<1>1. /\ DOMAIN Z = DOMAIN symbols /\ DOMAIN symbols = 1 .. Len(symbols) /\ DOMAIN tables = 1 .. Len(tables)
      /\ Len(tables) \in Nat /\ Tags(Z) = Tags(symbols) /\ g \in DOMAIN symbols /\ Len(Z) = Len(symbols)
  BY DEF SymbolsOK, TablesOK, IsSeq, Completed, Tags
<1>2. \A s \in DOMAIN symbols : symbols[s].size \in Nat /\ (symbols[s].symtable # 0 => symbols[s].symtable \in DOMAIN tables)
  <2>1. \A s \in DOMAIN symbols : IsSymbol(symbols[s], symbols, Len(tables))
    BY <1>1 DEF SymbolsOK
  <2> QED
    BY <1>1, <2>1 DEF IsSymbol
<1>3. \A t \in DOMAIN tables : \A i \in DOMAIN tables[t] : tables[t][i].sym \in DOMAIN symbols
  <2>1. ASSUME NEW t \in DOMAIN tables, NEW i \in DOMAIN tables[t] PROVE tables[t][i].sym \in DOMAIN symbols
    <3>1. PICK c : c = tables[t]
      OBVIOUS
    <3>2. IsSeq(c) /\ \A j \in 1 .. Len(c) : IsEntry(c[j], symbols)
      BY <1>1, <3>1 DEF TablesOK
    <3>3. DOMAIN c = 1 .. Len(c)
      BY <3>2 DEF IsSeq
    <3> QED
      BY <3>1, <3>2, <3>3 DEF IsEntry
  <2> QED
    BY <2>1
<1>4. PICK T : T = symbols[g].symtable
  OBVIOUS
<1>5. T \in DOMAIN tables /\ table = tables[T] /\ IsSeq(table) /\ DOMAIN table = 1 .. Len(table)
  BY <1>1, <1>2, <1>4 DEF TablesOK, IsSeq
<1>6. \A s \in DOMAIN symbols :
        /\ Z[s].kind = symbols[s].kind /\ Z[s].type = symbols[s].type /\ Z[s].symtable = symbols[s].symtable
        /\ Z[s].function = symbols[s].function /\ Z[s].locals_size = symbols[s].locals_size
        /\ s # g => Z[s].size = symbols[s].size /\ Z[s].complete = symbols[s].complete
  BY DEF Completed
<1>7. Z[g].complete
  BY DEF Completed
\* Only fields of g move.
<1>8. ASSUME NEW t \in DOMAIN tables, t # T, NEW i \in DOMAIN tables[t]
      PROVE  Z[tables[t][i].sym].offset = symbols[tables[t][i].sym].offset
  <2>1. PICK s : s = tables[t][i].sym
    OBVIOUS
  <2>2. s \in DOMAIN symbols
    BY <1>3, <2>1
  <2>3. \A j \in DOMAIN table : table[j].sym # s
    BY <1>5, <1>8, <2>1 DEF Tidy, EntriesDiffer
  <2>4. FieldsOf(table, symbols) \subseteq DOMAIN table
    BY DEF FieldsOf
  <2>5. Z[s].offset = symbols[s].offset
    <3>1. CASE symbols[g].kind = "struct"
      BY <2>2, <2>3, <2>4, <3>1 DEF Moved
    <3>2. CASE symbols[g].kind # "struct"
      BY <2>2, <3>2 DEF Moved
    <3> QED
      BY <3>1, <3>2
  <2> QED
    BY <2>1, <2>5
<1>9. \A s \in Tags(symbols) : symbols[s].symtable = T => s = g
  BY <1>4 DEF Tidy, TagsApart
<1>10. TypesSized(Z)
  <2>1. SizesStand(symbols, Z)
    BY <1>1, <1>6 DEF SizesStand, Tags
  <2>2. ASSUME NEW s \in DOMAIN symbols, symbols[s].kind \in Measured
        PROVE  Sized(symbols[s].type, symbols[s].size, Z)
    <3>1. Sized(symbols[s].type, symbols[s].size, symbols)
      BY <2>2 DEF Tidy, TypesSized
    <3>2. IsParts(symbols[s].type, symbols, Len(tables))
      BY <1>1 DEF SymbolsOK, IsSymbol
    <3> QED
      BY <2>1, <3>1, <3>2, SizedStays
  <2>3. symbols[g].kind \notin Measured
    BY DEF Tags, TagKinds, Measured
  <2> QED
    BY <1>1, <1>6, <2>2, <2>3 DEF TypesSized
<1>11. EntriesDiffer(tables)
  BY DEF Tidy
<1>12. TagsApart(Z)
  BY <1>1, <1>6 DEF Tidy, TagsApart, Tags
<1>13. TagsHold(tables, Z)
  <2> SUFFICES ASSUME NEW s \in Tags(symbols), Z[s].symtable # 0
               PROVE  /\ Z[s].kind # "enum"
                      /\ \A i \in DOMAIN tables[Z[s].symtable] :
                           /\ Z[tables[Z[s].symtable][i].sym].kind \notin {"variable", "parameter"}
                           /\ ~ Z[s].complete => Z[tables[Z[s].symtable][i].sym].offset = 0
    BY <1>1 DEF TagsHold
  <2>1. PICK t : t = symbols[s].symtable
    OBVIOUS
  <2>2. s \in DOMAIN symbols /\ Z[s].symtable = t /\ t \in DOMAIN tables /\ Z[s].kind = symbols[s].kind
    BY <1>2, <1>6, <2>1 DEF Tags
  <2>3. /\ symbols[s].kind # "enum"
        /\ \A i \in DOMAIN tables[t] : /\ symbols[tables[t][i].sym].kind \notin {"variable", "parameter"}
                                       /\ ~ symbols[s].complete => symbols[tables[t][i].sym].offset = 0
    BY <2>1, <2>2 DEF Tidy, TagsHold
  <2>4. \A i \in DOMAIN tables[t] : Z[tables[t][i].sym].kind = symbols[tables[t][i].sym].kind
    BY <1>3, <1>6, <2>2
  <2>5. ASSUME ~ Z[s].complete, NEW i \in DOMAIN tables[t] PROVE Z[tables[t][i].sym].offset = 0
    <3>1. s # g /\ ~ symbols[s].complete
      BY <1>6, <1>7, <2>2, <2>5
    <3>2. t # T
      BY <1>9, <2>1, <3>1
    <3> QED
      BY <1>8, <2>2, <2>3, <2>5, <3>1, <3>2
  <2> QED
    BY <2>2, <2>3, <2>4, <2>5
<1>14. TagsOpen(Z)
  <2>1. ASSUME NEW s \in Tags(symbols), ~ Z[s].complete PROVE Z[s].size = 0
    <3>1. s # g /\ s \in DOMAIN symbols
      BY <1>7, <2>1 DEF Tags
    <3> QED
      BY <1>6, <2>1, <3>1 DEF Tidy, TagsOpen
  <2> QED
    BY <1>1, <2>1 DEF TagsOpen
<1>15. TagsClosed(P, tables, Z)
  <2> SUFFICES ASSUME NEW s \in DOMAIN symbols, Z[s].complete
               PROVE  /\ s \in Tags(Z) /\ Z[s].symtable # 0 /\ \A i \in 1 .. Len(P) : P[i] # Z[s].symtable
                      /\ Filled(s, tables[Z[s].symtable], Z)
    BY <1>1 DEF TagsClosed
  <2>1. CASE s = g
    <3>1. \A i \in 1 .. Len(table) :
            /\ table[i].sym \in DOMAIN symbols
            /\ symbols[table[i].sym].size \in Nat /\ symbols[table[i].sym].offset = 0
      BY <1>2, <1>3, <1>4, <1>5 DEF Tidy, TagsHold
    <3>2. Filled(g, table, Z)
      BY <1>5, <3>1, FilledLaid
    <3> QED
      BY <1>1, <1>4, <1>5, <1>6, <2>1, <3>2
  <2>2. CASE s # g
    <3>1. symbols[s].complete /\ Z[s].symtable = symbols[s].symtable
      BY <1>6, <2>2
    <3>2. PICK t, c : t = symbols[s].symtable /\ c = tables[t]
      OBVIOUS
    <3>3. /\ s \in Tags(symbols) /\ t # 0 /\ \A i \in 1 .. Len(S) : S[i] # t
          /\ Filled(s, c, symbols)
      BY <3>1, <3>2 DEF Tidy, TagsClosed
    <3>4. t \in DOMAIN tables /\ t # T
      BY <1>2, <1>9, <2>2, <3>2, <3>3
    <3>5. \A i \in DOMAIN c : c[i].sym \in DOMAIN symbols /\ Z[c[i].sym].offset = symbols[c[i].sym].offset
      BY <1>3, <1>8, <3>2, <3>4
    <3>6. FieldsOf(c, Z) = FieldsOf(c, symbols)
      BY <1>6, <3>5 DEF FieldsOf
    <3>7. \A i \in FieldsOf(c, symbols) : /\ Z[c[i].sym].size = symbols[c[i].sym].size
                                          /\ Z[c[i].sym].offset = symbols[c[i].sym].offset
      <4>1. \A i \in FieldsOf(c, symbols) : i \in DOMAIN c /\ c[i].sym # g
        BY DEF FieldsOf, Tags, TagKinds, VarKinds
      <4> QED
        BY <1>6, <3>5, <4>1
    <3>8. Filled(s, c, Z)
      BY <1>6, <2>2, <3>3, <3>6, <3>7, FilledStays
    <3> QED
      BY <1>1, <3>1, <3>2, <3>3, <3>8
  <2> QED
    BY <2>1, <2>2
<1>16. Numbered(Z)
  BY <1>1, <1>6 DEF Tidy, Numbered
<1> QED
  BY <1>10, <1>11, <1>12, <1>13, <1>14, <1>15, <1>16 DEF Tidy

\* The symbols keep their number, and calls below do not notice: the scope that is left is not
\* one of theirs.
LEMMA SparedLaid ==
  ASSUME Standing, NEW g \in Tags(symbols), symbols[g].symtable = Current, ~ symbols[g].complete,
         tables' = tables, Completed(symbols, symbols', g),
         NEW k \in Nat, k = Len(symtables) - 1, \A i \in 1 .. k : symtables'[i] = symtables[i]
  PROVE  Spared(k, symtables, symbols, Len(tables), symtables', symbols', Len(tables'))
<1>1. /\ SymbolsOK(symbols, Len(tables)) /\ ScopesLead /\ Len(tables) \in Nat /\ Len(symtables) \in Nat
      /\ Current = symtables[Len(symtables)] /\ Rising(symtables)
  BY StandingIs
<1>2. Len(symbols) \in Nat /\ Len(symbols') = Len(symbols) /\ DOMAIN symbols' = DOMAIN symbols
  BY <1>1 DEF SymbolsOK, IsSeq, Completed
<1>3. \A s \in DOMAIN symbols :
        /\ symbols'[s].kind = symbols[s].kind /\ symbols'[s].symtable = symbols[s].symtable
        /\ s # g => symbols'[s].size = symbols[s].size /\ symbols'[s].complete = symbols[s].complete
  BY DEF Completed
<1>4. symbols[g].kind \in TagKinds /\ g \in DOMAIN symbols
  BY DEF Tags
<1>5. Grown(symbols, symbols') /\ SizesStand(symbols, symbols')
  BY <1>2, <1>3, <1>4 DEF Grown, SizesStand
<1>6. Tags(symbols') = Tags(symbols) /\ Structs(symbols') = Structs(symbols)
  <2>1. Tags(symbols') = Tags(symbols)
    BY <1>2, <1>3 DEF Tags
  <2>2. \A s \in Tags(symbols) : symbols'[s].symtable = symbols[s].symtable
    BY <1>3 DEF Tags
  <2> QED
    BY <2>1, <2>2 DEF Structs
<1>7. ASSUME NEW i \in 1 .. k
      PROVE  symtables[i] \in 1 .. Len(tables) /\ symtables[i] # Current
  <2>1. i \in 1 .. Len(symtables) /\ Len(symtables) \in 1 .. Len(symtables) /\ i < Len(symtables)
    BY <1>1
  <2>2. symtables[i] < Current /\ symtables[i] \in 1 .. Len(tables) /\ Current \in 1 .. Len(tables)
    BY <1>1, <2>1 DEF Rising, ScopesLead
  <2> QED
    BY <1>1, <2>2
<1>8. \A s \in Tags(symbols) : symbols'[s].symtable = symbols[s].symtable
  BY <1>3 DEF Tags
<1>9. ASSUME NEW s \in Tags(symbols), NEW i \in 1 .. k, symbols[s].symtable = symtables[i], ~ symbols[s].complete
      PROVE  ~ symbols'[s].complete
  <2>1. s # g /\ s \in DOMAIN symbols
    BY <1>7, <1>9 DEF Tags
  <2> QED
    BY <1>3, <1>9, <2>1
<1>10. Len(symbols) <= Len(symbols') /\ Len(tables') = Len(tables) /\ Len(tables) <= Len(tables)
  BY <1>1, <1>2
<1> QED
  BY <1>1, <1>2, <1>5, <1>6, <1>7, <1>8, <1>9, <1>10 DEF Spared

\* The last token of the fields of a struct.
AtBrace == token = "}"

\* The end of a struct.
LEMMA FieldLays ==
  ASSUME NEW b, Laying(b), Field, AtBrace
  PROVE  LayInv'
<1>1. todo.do = "field" /\ todo.do \in Closers
  BY DEF Field, Doing, Closers
<1>2. /\ Standing /\ Free(ret.type, symbols, Len(tables)) /\ Tidy(symtables, tables, symbols)
      /\ Framed(b, function_locals_size, symbols)
  BY DEF Laying
<1>3. PICK g : g = todo.tag
  OBVIOUS
<1>4. /\ Pop /\ Continue(<< >>) /\ Returning(Of("tag", g), NoName)
      /\ symbols' = LaidOut(g) /\ cur_decl_type' = todo.old /\ UNCHANGED << tables, function_locals_size >>
  BY <1>3 DEF Field, AtBrace
<1>5. /\ SymbolsOK(symbols, Len(tables)) /\ TablesOK(tables, symbols) /\ ScopesLead /\ Rising(symtables)
      /\ IsSeq(tables) /\ Len(tables) \in Nat /\ Len(symtables) \in Nat /\ Len(symtables) >= 2
      /\ Current \in 1 .. Len(tables) /\ Current = symtables[Len(symtables)]
  BY <1>2, StandingIs
<1>6. g \in Tags(symbols) /\ g \in DOMAIN symbols
  BY <1>1, <1>2, <1>3, StandingIs DEF IsItem, Inside, Tags
<1>7. symbols[g].symtable = Current /\ ~ symbols[g].complete
  <2>1. Suits(todo, Where(b), symtables, symbols, Len(tables)) /\ Where(b).k = Len(symtables)
    BY HeadLaid, AtIs DEF Where
  <2> QED
    BY <1>1, <1>3, <1>5, <2>1 DEF Suits
<1>8. symbols[g].symtable # 0 /\ symbols[g].size = 0
  <2>1. symbols[g].symtable # 0
    BY <1>5, <1>7
  <2>2. \A s \in Tags(symbols) : ~ symbols[s].complete => symbols[s].size = 0
    BY <1>2 DEF Tidy, TagsOpen
  <2> QED
    BY <1>6, <1>7, <2>1, <2>2
<1>9. PICK table : table = tables[symbols[g].symtable]
  OBVIOUS
<1>10. IsSeq(table)
  BY <1>5, <1>7, <1>9 DEF TablesOK
<1>11. \A i, j \in DOMAIN table : table[i].sym = table[j].sym => i = j
  <2>1. Current \in DOMAIN tables
    <3>1. DOMAIN tables = 1 .. Len(tables)
      BY <1>5 DEF IsSeq
    <3> QED
      BY <1>5, <3>1
  <2>2. \A t, u \in DOMAIN tables : \A i \in DOMAIN tables[t] : \A j \in DOMAIN tables[u] :
          tables[t][i].sym = tables[u][j].sym => t = u /\ i = j
    BY <1>2 DEF Tidy, EntriesDiffer
  <2>3. table = tables[Current]
    BY <1>7, <1>9
  <2> QED
    BY <2>1, <2>2, <2>3
<1>12. IsFiniteSet(Fields(table))
  <2>1. FieldsOf(table, symbols) = Fields(table)
    BY DEF Fields, FieldsOf
  <2> QED
    BY <1>10, <2>1, FieldsAreFinite
<1>13. PICK f : Sums(symbols, f, table, SUBSET Fields(table))
  BY <1>12, SumsExist
<1>14. PICK Z : Z = symbols'
  OBVIOUS
<1>15. Completed(symbols, Z, g) /\ Moved(symbols, Z, g, table, f)
  <2>1. Z = LaidOut(g)
    BY <1>4, <1>14
  <2>2. PICK T : T = Len(tables)
    OBVIOUS
  <2>3. T \in Nat /\ SymbolsOK(symbols, T)
    BY <1>5, <2>2
  <2> QED
    BY <1>5, <1>6, <1>8, <1>9, <1>11, <1>13, <2>1, <2>2, <2>3, LaidOutIs
<1>16. PICK k : k = Len(symtables) - 1
  OBVIOUS
<1>17. /\ Len(symtables') = k /\ k \in Nat
       /\ \A i \in 1 .. k : symtables'[i] = symtables[i] /\ i \in 1 .. Len(symtables)
  <2>1. Standing /\ Pop /\ todo.do \in Closers
    BY <1>1, <1>2, <1>4
  <2>2. Len(symtables) - 1 \in Nat /\ \A i \in 1 .. Len(symtables) - 1 : i \in 1 .. Len(symtables)
    BY <1>5
  <2>3. Len(symtables') = Len(symtables) - 1 /\ \A i \in 1 .. Len(symtables) - 1 : symtables'[i] = symtables[i]
    BY <2>1, ScopePopped
  <2> QED
    BY <1>16, <2>2, <2>3
<1>18. PICK P : P = symtables'
  OBVIOUS
<1>19. \A i \in 1 .. Len(P) : P[i] # symbols[g].symtable /\ \E j \in 1 .. Len(symtables) : P[i] = symtables[j]
  <2> SUFFICES ASSUME NEW i \in 1 .. k PROVE symtables[i] # Current
    BY <1>7, <1>17, <1>18
  <2>1. i \in 1 .. Len(symtables) /\ Len(symtables) \in 1 .. Len(symtables) /\ i < Len(symtables)
    BY <1>5, <1>16, <1>17
  <2>2. symtables[i] < Current /\ symtables[i] \in 1 .. Len(tables) /\ Current \in 1 .. Len(tables)
    BY <1>5, <2>1 DEF Rising, ScopesLead
  <2> QED
    BY <1>5, <2>2
<1>20. Tidy(P, tables, Z)
  BY <1>2, <1>5, <1>6, <1>7, <1>8, <1>9, <1>13, <1>15, <1>19, TidyLaid
<1>21. Tidy(symtables', tables', symbols')
  BY <1>4, <1>14, <1>18, <1>20
<1>22. Spared(k, symtables, symbols, Len(tables), symtables', symbols', Len(tables'))
  <2>1. Completed(symbols, symbols', g) /\ tables' = tables
    BY <1>4, <1>14, <1>15
  <2>2. \A i \in 1 .. k : symtables'[i] = symtables[i]
    BY <1>17
  <2> QED
    BY <1>2, <1>6, <1>7, <1>16, <1>17, <2>1, <2>2, SparedLaid
<1>23. PICK e, U : e = Below(todo, Where(b)) /\ U = Len(tables')
  OBVIOUS
<1>24. e = At(k, todo.old, b) /\ e.k = k
  <2>1. Held(todo) = 1 /\ todo.do # "end_of_body" /\ todo.do \in {"field"} \cup InParameters
    BY <1>1 DEF Held
  <2>2. Where(b).k = Len(symtables) /\ Where(b).b = b
    BY WhereIs
  <2>3. e = At(Where(b).k - Held(todo), todo.old, Where(b).b)
    BY <1>23, <2>1 DEF Below
  <2> QED
    BY <1>16, <2>1, <2>2, <2>3, AtIs
<1>25. Laid(Tail(stack), e, P, Z, U)
  <2>1. PICK s : s = Tail(stack)
    OBVIOUS
  <2>2. \A n \in 1 .. Len(s) : IsItem(s[n], symbols, Len(tables))
    BY <1>2, <2>1, TailItems
  <2>3. Laid(s, e, symtables, symbols, Len(tables))
    BY <1>23, <2>1, HeadLaid
  <2>4. e.k <= k /\ e.k \in Nat
    BY <1>17, <1>24
  <2>5. Spared(k, symtables, symbols, Len(tables), P, Z, U)
    BY <1>14, <1>18, <1>22, <1>23
  <2> QED
    BY <1>17, <2>1, <2>2, <2>3, <2>4, <2>5, LaidStays
<1>26. Laid(stack', At(Len(symtables'), cur_decl_type', b), symtables', symbols', Len(tables'))
  BY <1>4, <1>14, <1>17, <1>18, <1>23, <1>24, <1>25, NothingInFront DEF Continue
<1>27. Framed(b, function_locals_size', symbols')
  <2>1. DOMAIN Z = DOMAIN symbols /\ Len(Z) = Len(symbols)
    BY <1>15 DEF Completed
  <2>2. \A s \in DOMAIN symbols : /\ Z[s].kind = symbols[s].kind /\ Z[s].function = symbols[s].function
                                  /\ Z[s].locals_size = symbols[s].locals_size
                                  /\ s # g => Z[s].size = symbols[s].size
    BY <1>15 DEF Completed
  <2>3. \A h : LocalsOf(h, Z) = LocalsOf(h, symbols)
    BY <2>1, <2>2 DEF LocalsOf
  <2>4. \A i \in Fields(table) : symbols[table[i].sym].kind # "variable"
    <3>1. \A i \in DOMAIN table : symbols[table[i].sym].kind \notin {"variable", "parameter"}
      BY <1>2, <1>6, <1>8, <1>9 DEF Tidy, TagsHold
    <3> QED
      BY <3>1 DEF Fields
  <2>5. ASSUME NEW h, NEW v \in LocalsOf(h, symbols)
        PROVE  Z[v].offset = symbols[v].offset /\ Z[v].size = symbols[v].size
    <3>1. v \in DOMAIN symbols /\ symbols[v].kind = "variable"
      BY DEF LocalsOf
    <3>2. v # g
      BY <1>6, <3>1 DEF Tags, TagKinds
    <3>3. \A i \in FieldsOf(table, symbols) : table[i].sym # v
      BY <2>4, <3>1 DEF Fields, FieldsOf
    <3>4. Z[v].offset = symbols[v].offset
      <4>1. CASE symbols[g].kind = "struct"
        BY <1>15, <3>1, <3>3, <4>1 DEF Moved
      <4>2. CASE symbols[g].kind # "struct"
        BY <1>15, <3>1, <4>2 DEF Moved
      <4> QED
        BY <4>1, <4>2
    <3> QED
      BY <2>2, <3>1, <3>2, <3>4
  <2>6. \A h \in 1 .. Len(symbols) : Z[h].locals_size = symbols[h].locals_size
    <3>1. DOMAIN symbols = 1 .. Len(symbols)
      BY <1>5 DEF SymbolsOK, IsSeq
    <3> QED
      BY <2>2, <3>1
  <2>7. Framed(b, function_locals_size, Z)
    BY <1>2, <2>1, <2>3, <2>5, <2>6 DEF Framed
  <2> QED
    BY <1>4, <1>14, <2>7
<1>28. Free(ret'.type, symbols', Len(tables'))
  <2>1. ret'.type = Of("tag", g)
    BY <1>4 DEF Returning
  <2>2. \A Y, T : Free(Of("tag", g), Y, T)
    BY FreeTypes DEF Of
  <2> QED
    BY <2>1, <2>2
<1> QED
  BY <1>21, <1>26, <1>27, <1>28, LayGoesOn

----------------------------------------------------------------------------
(* Every step *)

\* What is promised later has been promised all along.
LEMMA WholeBefore ==
  ASSUME Noting, Step, Whole'
  PROVE  Whole
<1>1. status = "parsing"
  BY DEF Step
<1>2. ~ (seen'.muffled \/ seen'.nested \/ seen'.redefined \/ seen'.early)
  BY DEF Whole
<1>3. ~ (seen.muffled \/ seen.nested \/ seen.redefined \/ seen.early)
  <2>1. CASE UNCHANGED seen
    BY <1>2, <2>1
  <2>2. ASSUME NEW b, seen' = [seen EXCEPT !.nested = @ \/ b] PROVE ~ (seen.muffled \/ seen.nested \/ seen.redefined \/ seen.early)
    BY <1>2, <2>2 DEF Noting
  <2>3. ASSUME NEW b, seen' = [seen EXCEPT !.redefined = @ \/ b] PROVE ~ (seen.muffled \/ seen.nested \/ seen.redefined \/ seen.early)
    BY <1>2, <2>3 DEF Noting
  <2>4. ASSUME NEW b, seen' = [seen EXCEPT !.early = @ \/ b] PROVE ~ (seen.muffled \/ seen.nested \/ seen.redefined \/ seen.early)
    BY <1>2, <2>4 DEF Noting
  <2>5. CASE Fail
    <3>1. PICK b : seen' = [seen EXCEPT !.muffled = @ \/ b]
      BY <2>5 DEF Fail
    <3> QED
      BY <1>2, <3>1 DEF Noting
  <2> QED
    BY <2>1, <2>2, <2>3, <2>4, <2>5 DEF Step, Quiet
<1> QED
  BY <1>1, <1>3 DEF Whole

\* There are always the same four notes.
LEMMA NotingStays ==
  ASSUME Noting, Step
  PROVE  Noting'
<1>1. CASE Fail
  BY <1>1 DEF Fail, Noting
<1>2. CASE Quiet
  BY <1>2 DEF Quiet, Noting
<1> QED
  BY <1>1, <1>2 DEF Step

\* Where there is no body to come, no body begins.
LEMMA NoBodyHere ==
  ASSUME NEW b, Laying(b)
  PROVE  ~ FunctionBody
<1>1. Suits(todo, Where(b), symtables, symbols, Len(tables))
  BY HeadLaid
<1> QED
  BY <1>1 DEF Suits, FunctionBody, Doing

\* The actions, one by one.
LEMMA LayingNext ==
  ASSUME NEW b, Laying(b), Noting, Next
  PROVE  LayInv'
<1>1. CASE Field \/ Block
  <2>1. CASE token # "}"
    BY <1>1, <2>1, InsideLays
  <2>2. CASE token = "}"
    BY <1>1, <2>2, FieldLays, StatementCloses DEF AtBrace
  <2> QED
    BY <2>1, <2>2
<1> QED
  BY <1>1, TokenLays, SpecifierLays, DeclaratorLays, JoinedLays, ArrayLays, StatementLays, DeclarationLays,
     DeclaredVariableLays, UnitLays, InsideLays, OpeningLays, SuffixLays, StatementCloses, ParametersClose,
     EndOfBodyLays, StructuredLays, EnumeratorLays, ParameterLays, DeclaredFunctionLays, VariableLays,
     StructLays, NoBodyHere, Zenon DEF Next

\* Only FunctionBody is done by a call for a body.
LEMMA BodyNext ==
  ASSUME NEW b, Announced(b), Noting, Next
  PROVE  LayInv'
<1>1. todo.do = "body"
  BY DEF Announced, BodyAt
<1>2. FunctionBody
  <2>1. \A d : Doing(d) => d = "body"
    BY <1>1 DEF Doing
  <2>2. ~ \/ ExpectToken \/ AcceptToken \/ Specifier \/ StructuredSpecifier \/ StructSpecifier \/ Field
          \/ EnumSpecifier \/ Enumerator \/ Enumerated
    BY <2>1 DEF ExpectToken, AcceptToken, Specifier, StructuredSpecifier, StructSpecifier, Field,
                EnumSpecifier, Enumerator, Enumerated
  <2>3. ~ \/ DeclaratorBase \/ InnerDeclarator \/ DeclaratorSuffix \/ Linked \/ DeclaratorBased
          \/ ArrayDeclarator \/ ArraySize \/ Parameters \/ Parameter \/ ParameterDeclarator
          \/ DeclaredParameter \/ FunctionDeclarator
    BY <2>1 DEF DeclaratorBase, InnerDeclarator, DeclaratorSuffix, Linked, DeclaratorBased,
                ArrayDeclarator, ArraySize, Parameters, Parameter, ParameterDeclarator,
                DeclaredParameter, FunctionDeclarator
  <2>4. ~ \/ Unit \/ Declaration \/ Declarators \/ DeclaredFunction \/ DeclaredVariable \/ Variable
          \/ Separator \/ EndOfBody
    BY <2>1 DEF Unit, Declaration, Declarators, DeclaredFunction, DeclaredVariable, Variable, Separator, EndOfBody
  <2>5. ~ \/ Compound \/ Block \/ Nested \/ EndOfNested \/ Else \/ Do \/ Label \/ Empty
          \/ LocalDeclaration \/ EndOfLocal \/ Expression \/ Primary
    BY <1>1 DEF Compound, Block, Nested, EndOfNested, Else, Do, Label, Empty, LocalDeclaration, EndOfLocal,
                Expression, Primary, Doing
  <2> QED
    BY <2>2, <2>3, <2>4, <2>5 DEF Next
<1> QED
  BY <1>2, BodyLays

\* The invariant is kept.
LEMMA LayNext ==
  ASSUME ScopesInv, TypesInv, NestInv, Noting, LayInv, Next
  PROVE  LayInv'
<1> SUFFICES ASSUME Whole' PROVE LayInv'
  BY DEF LayInv
<1>1. Step
  BY NextSteps
<1>2. Whole
  BY <1>1, WholeBefore
<1>3. Standing
  BY <1>1, <1>2 DEF Standing, Step, Whole
<1>4. PICK b : /\ Framed(b, function_locals_size, symbols)
               /\ \/ Laid(stack, Where(b), symtables, symbols, Len(tables))
                  \/ BodyAt(b)
  BY <1>2 DEF LayInv
<1>5. Free(ret.type, symbols, Len(tables)) /\ Tidy(symtables, tables, symbols)
  BY <1>2 DEF LayInv
<1>6. CASE Laid(stack, Where(b), symtables, symbols, Len(tables))
  <2>1. Laying(b)
    BY <1>2, <1>3, <1>4, <1>5, <1>6 DEF Laying
  <2> QED
    BY <2>1, LayingNext
<1>7. CASE BodyAt(b)
  <2>1. Announced(b)
    BY <1>2, <1>3, <1>4, <1>5, <1>7 DEF Announced
  <2> QED
    BY <2>1, BodyNext
<1> QED
  BY <1>4, <1>6, <1>7

\* The first state: one call, outside all functions, and no symbol.
LEMMA InitLays == ASSUME Init PROVE LayInv /\ Noting
<1>1. /\ stack = << Item("unit") >> /\ symtables = << 1, 2 >> /\ tables = << << >>, << >> >>
      /\ symbols = << >> /\ ret = Nothing /\ cur_decl_type = Global /\ function_locals_size = 0
      /\ seen = [muffled |-> FALSE, nested |-> FALSE, redefined |-> FALSE, early |-> FALSE]
  BY DEF Init
<1>2. Noting
  BY <1>1 DEF Noting
<1>3. DOMAIN symbols = {} /\ Tags(symbols) = {} /\ Structs(symbols) = {} /\ Len(symbols) = 0
  <2>1. DOMAIN << >> = {} /\ Len(<< >>) = 0
    OBVIOUS
  <2> QED
    BY <1>1, <2>1 DEF Tags, Structs
<1>4. \A t \in DOMAIN tables : DOMAIN tables[t] = {}
  <2>1. DOMAIN << << >>, << >> >> = 1 .. 2 /\ DOMAIN << >> = {}
    OBVIOUS
  <2>2. \A t \in 1 .. 2 : << << >>, << >> >>[t] = << >>
    OBVIOUS
  <2> QED
    BY <1>1, <2>1, <2>2
<1>5. Tidy(symtables, tables, symbols)
  BY <1>3, <1>4 DEF Tidy, TypesSized, EntriesDiffer, TagsApart, TagsHold, TagsOpen, TagsClosed, Numbered
<1>6. Framed(0, function_locals_size, symbols)
  BY <1>3 DEF Framed
<1>7. Free(ret.type, symbols, Len(tables))
  BY <1>1, FreeTypes DEF Nothing
<1>8. PICK e : e = Where(0)
  OBVIOUS
<1>9. e = At(2, Global, 0) /\ e.k = 2 /\ e.c = Global /\ e.b = 0
  <2>1. Len(<< 1, 2 >>) = 2
    OBVIOUS
  <2> QED
    BY <1>1, <1>8, <2>1, AtIs DEF Where
<1>10. PICK x : x = Item("unit")
  OBVIOUS
<1>11. x.do = "unit"
  BY <1>10 DEF Item
<1>12. Placed(e, symtables, symbols)
  <2>1. e.k \in Nat \ {0} /\ e.b \in 0 .. Len(symbols) /\ e.c # Local
    BY <1>3, <1>9 DEF Global, Local
  <2> QED
    BY <1>3, <1>9, <2>1 DEF Placed
<1>13. Suits(x, e, symtables, symbols, Len(tables))
  BY <1>11, <1>12 DEF Suits, DeclCalls, InParameters
<1>14. Below(x, e) = e
  <2>1. Held(x) = 0 /\ x.do \notin {"field", "end_of_body"} \cup InParameters
    BY <1>11 DEF Held, Closers, InParameters
  <2>2. e.k - 0 = e.k
    BY <1>9
  <2> QED
    BY <1>9, <2>1, <2>2 DEF Below
<1>15. Laid(stack, e, symtables, symbols, Len(tables))
  <2>1. IsSeq(stack) /\ Len(stack) = 1 /\ stack[1] = x
    BY <1>1, <1>10, One
  <2> DEFINE p == [n \in 1 .. 2 |-> e]
  <2>2. p[1] = e /\ p[2] = e
    OBVIOUS
  <2> HIDE DEF p
  <2>3. Places(stack, p, symtables, symbols, Len(tables))
    <3>1. \A n \in 1 .. 1 : n = 1 /\ n + 1 = 2
      OBVIOUS
    <3> QED
      BY <1>13, <1>14, <2>1, <2>2, <3>1 DEF Places
  <2> QED
    BY <1>9, <2>1, <2>2, <2>3 DEF Laid
<1> QED
  BY <1>2, <1>5, <1>6, <1>7, <1>8, <1>15 DEF LayInv

\* LayInv holds whatever is parsed: what is known of places, sizes, scopes and calls while no slip
\* of the parser (a failure that was ignored, a function in a function, a struct defined again, an
\* array of what is incomplete) has been met.
THEOREM LayoutIsKept == Spec => [](Noting /\ LayInv)
<1>1. Init => Noting /\ LayInv
  BY InitLays
<1>2. ScopesInv /\ TypesInv /\ NestInv /\ Noting /\ LayInv /\ [Next]_vars => Noting' /\ LayInv'
  <2> SUFFICES ASSUME ScopesInv, TypesInv, NestInv, Noting, LayInv, [Next]_vars PROVE Noting' /\ LayInv'
    OBVIOUS
  <2>1. CASE UNCHANGED vars
    BY <2>1 DEF vars, scopes, Noting, LayInv, Whole, BodyAt, Where, todo
  <2>2. CASE Next
    BY <2>2, NextSteps, NotingStays, LayNext
  <2> QED
    BY <2>1, <2>2
<1> QED
  BY <1>1, <1>2, ScopesFollowCalls, CallsAreServed, ScopesNest, PTL DEF Spec

\* Every local has bytes of its own, enough for its type, in the frame its function asks for:
\* parse_variable's running function_locals_size and FunctionBody's reset never put two of them
\* in one place, whatever blocks, structs and parameters are declared in between.
THEOREM LocalsDoNotOverlap == Spec => []LocalsHaveTheirPlaces
<1>1. TypesInv /\ LayInv => LocalsHaveTheirPlaces
  BY LocalsFollow
<1> QED
  BY <1>1, LayoutIsKept, CallsAreServed, PTL

\* Every field of a complete struct has bytes of its own, enough for its type, within the size the
\* struct is given when its "}" is read, and those of a union begin together: nothing that is
\* declared later moves a field or makes its type larger.
THEOREM FieldsDoNotOverlap == Spec => []FieldsHaveTheirPlaces
<1>1. TypesInv /\ LayInv => FieldsHaveTheirPlaces
  BY FieldsFollow
<1> QED
  BY <1>1, LayoutIsKept, CallsAreServed, PTL

\* The sizes that are copied into symbols stay those of their types, and a complete struct's that
\* of its fields, whatever is completed afterwards.
THEOREM SizesAreKept == Spec => []SizesAreTrue
<1>1. TypesInv /\ LayInv => SizesAreTrue
  BY SizesFollow
<1> QED
  BY <1>1, LayoutIsKept, CallsAreServed, PTL

=============================================================================
