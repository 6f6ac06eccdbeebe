--------------------------- MODULE SymtableProofs ---------------------------
(***************************************************************************)
(* The hash table and the list of its nodes are one ordered map, for every *)
(* set of names whose hashes are ints and every number of buckets that     *)
(* divides the least int.                                                  *)
(*                                                                         *)
(* That no key is there twice depends on a look-up finding what was set,   *)
(* and so on NodesOnTheirChain and on the hash a node keeps being that of  *)
(* its key (HashesAreOfKeys); the list needs nothing of the buckets.       *)
(***************************************************************************)
EXTENDS Symtable, SequenceTheorems, TLAPS

HashesAreOfKeys == \A n \in DOMAIN nodes : nodes[n].hash = ComputeHash(nodes[n].key)

IInv == TypeOK /\ HashesAreOfKeys /\ NodesOnTheirChain /\ ListInOrder /\ KeysAreUnique

-----------------------------------------------------------------------------

\* Every name has a bucket inside the array (symtable.c:95 indexes it with what the
\* remainder of C gives).
LEMMA BucketInArray ==
  ASSUME NEW key \in Names
  PROVE  BucketOf(ComputeHash(key)) \in Buckets
<1>1. ASSUME NEW hash, hash = MinWord PROVE BucketOf(hash) \in Buckets
  BY <1>1, CapacityAssumption DEF BucketOf, Buckets
<1>2. ASSUME NEW hash \in Nat PROVE BucketOf(hash) \in Buckets
  <2>1. Rem(hash, Capacity) = hash - Capacity * (hash \div Capacity)
    BY CapacityAssumption DEF Rem, Quot, Sign, Abs
  <2>2. \A a \in Nat, b \in Nat \ {0} : a - b * (a \div b) \in 0 .. b - 1
    OBVIOUS
  <2> QED
    BY <2>1, <2>2, CapacityAssumption DEF BucketOf, Buckets
<1>3. ComputeHash(key) = MinWord \/ ComputeHash(key) \in Nat
  <2>1. 0 .. MaxWord \subseteq Nat
    OBVIOUS
  <2> QED
    BY <2>1, HashAssumption
<1> QED
  BY <1>1, <1>2, <1>3

\* A look-up misses nothing: a node of that key is on the chain it goes through.
LEMMA LookUpIsComplete ==
  ASSUME IInv, NEW key \in Names, NEW key2 \in Classes, Absent(key, key2), NEW m \in DOMAIN nodes
  PROVE  ~(nodes[m].key = key /\ nodes[m].key2 = key2)
<1> SUFFICES ASSUME nodes[m].key = key, nodes[m].key2 = key2 PROVE FALSE
  OBVIOUS
<1>1. PICK k \in DOMAIN Chain(key) : Chain(key)[k] = m
  BY BucketInArray DEF IInv, NodesOnTheirChain, Chain
<1>2. IsFor(nodes[m], key, key2)
  BY DEF IInv, HashesAreOfKeys, IsFor
<1> QED
  BY <1>1, <1>2 DEF Absent

\* What a look-up finds is a node, and it has that key.
LEMMA LookUpIsSound ==
  ASSUME IInv, NEW key \in Names, NEW key2 \in Classes, NEW n, FoundAt(n, key, key2)
  PROVE  /\ Chain(key)[n] \in DOMAIN nodes
         /\ nodes[Chain(key)[n]].key = key /\ nodes[Chain(key)[n]].key2 = key2
<1>1. Chain(key) \in Seq(DOMAIN nodes)
  BY BucketInArray DEF IInv, TypeOK, Chain
<1>2. n \in DOMAIN Chain(key) /\ IsFor(nodes[Chain(key)[n]], key, key2)
  BY DEF FoundAt
<1> QED
  BY <1>1, <1>2 DEF IsFor

Prepend(x, s) == << x >> \o s
Holds(s, y)   == \E k \in DOMAIN s : s[k] = y

\* A sequence with an element put before it.
LEMMA Prepending ==
  ASSUME NEW S, NEW s \in Seq(S), NEW x \in S
  PROVE  /\ Prepend(x, s) \in Seq(S)
         /\ \A y : Holds(Prepend(x, s), y) <=> (y = x \/ Holds(s, y))
<1> DEFINE t == << x >> \o s
<1>1. << x >> \in Seq(S) /\ Len(<< x >>) = 1 /\ << x >>[1] = x
  OBVIOUS
<1>2. /\ t \in Seq(S) /\ Len(t) = 1 + Len(s)
      /\ \A k \in 1 .. 1 + Len(s) : t[k] = IF k <= 1 THEN << x >>[k] ELSE s[k - 1]
  BY <1>1, ConcatProperties
<1> HIDE DEF t
<1>3. DOMAIN t = 1 .. 1 + Len(s) /\ DOMAIN s = 1 .. Len(s) /\ Len(s) \in Nat
  BY <1>2
<1>4. 1 \in DOMAIN t /\ t[1] = x
  BY <1>1, <1>2, <1>3
<1>5. \A k \in DOMAIN s : k + 1 \in DOMAIN t /\ t[k + 1] = s[k]
  BY <1>2, <1>3
<1>6. \A k \in DOMAIN t : k # 1 => k - 1 \in DOMAIN s /\ t[k] = s[k - 1]
  <2> SUFFICES ASSUME NEW k \in DOMAIN t, k # 1 PROVE k - 1 \in DOMAIN s /\ t[k] = s[k - 1]
    OBVIOUS
  <2>1. k \in 1 .. 1 + Len(s) /\ k - 1 \in 1 .. Len(s) /\ ~(k <= 1)
    BY <1>3
  <2> QED
    BY <1>2, <1>3, <2>1
<1>7. ASSUME NEW y PROVE Holds(t, y) <=> (y = x \/ Holds(s, y))
  <2>1. ASSUME NEW k \in DOMAIN t, t[k] = y PROVE y = x \/ Holds(s, y)
    <3>1. CASE k = 1
      BY <1>4, <2>1, <3>1
    <3>2. CASE k # 1
      BY <1>6, <2>1, <3>2 DEF Holds
    <3> QED
      BY <3>1, <3>2
  <2>2. y = x => Holds(t, y)
    BY <1>4 DEF Holds
  <2>3. ASSUME NEW k \in DOMAIN s, s[k] = y PROVE Holds(t, y)
    BY <1>5, <2>3 DEF Holds
  <2> QED
    BY <2>1, <2>2, <2>3 DEF Holds
<1> QED
  BY <1>2, <1>7 DEF t, Prepend

LEMMA InvInit == Init => IInv
  BY ValuesAssumption DEF Init, IInv, TypeOK, HashesAreOfKeys, NodesOnTheirChain, ListInOrder,
     KeysAreUnique

-----------------------------------------------------------------------------

Entries == [n \in DOMAIN nodes |-> NodeAt(n)]

\* The answer of an operation is of its type.
LEMMA AnswerIsTyped ==
  ASSUME NEW key \in Names, NEW key2 \in Classes, NEW value \in Values \cup {NoValue}
  PROVE  About(key, key2, value) \in Answer
BY DEF About, Answer

\* A node is what the map has as an entry.
LEMMA EntryOfNode ==
  \A n : /\ NodeAt(n).key = nodes[n].key /\ NodeAt(n).key2 = nodes[n].key2
        /\ NodeAt(n).value = nodes[n].value
BY DEF NodeAt, About

\* symtable_set of a key that is there touches the value of one node.
LEMMA SetValueStep ==
  ASSUME IInv, NEW key \in Names, NEW key2 \in Classes, NEW value \in Values,
         SetValue(key, key2, value)
  PROVE  IInv' /\ Map!Overwrite(key, key2, value)
<1>1. PICK n : FoundAt(n, key, key2) /\ nodes' = [nodes EXCEPT ![Chain(key)[n]].value = value]
  BY DEF SetValue
<1> DEFINE m == Chain(key)[n]
<1>2. m \in DOMAIN nodes /\ nodes[m].key = key /\ nodes[m].key2 = key2
  BY <1>1, LookUpIsSound
<1> HIDE DEF m
<1>3. /\ UNCHANGED << buckets, list_next, list_head, list_tail, size, iter >>
      /\ answer' = About(key, key2, value) /\ answer' \in Answer
  BY AnswerIsTyped DEF SetValue
<1>4. nodes' = [nodes EXCEPT ![m] = [nodes[m] EXCEPT !.value = value]]
  BY <1>1 DEF m
<1>5. nodes[m] \in Node /\ [nodes[m] EXCEPT !.value = value] \in Node
  <2>1. nodes[m] \in Node
    BY <1>2 DEF IInv, TypeOK
  <2> QED
    BY <2>1 DEF Node
<1>6. /\ DOMAIN nodes' = DOMAIN nodes /\ Len(nodes') = Len(nodes)
      /\ \A k \in DOMAIN nodes : /\ nodes'[k].hash = nodes[k].hash
                                /\ nodes'[k].key = nodes[k].key
                                /\ nodes'[k].key2 = nodes[k].key2
                                /\ nodes'[k].value = IF k = m THEN value ELSE nodes[k].value
  BY <1>2, <1>4, <1>5 DEF IInv, TypeOK, Node
<1>7. TypeOK'
  BY <1>2, <1>3, <1>4, <1>5, <1>6 DEF IInv, TypeOK
<1>8. HashesAreOfKeys' /\ NodesOnTheirChain' /\ ListInOrder' /\ KeysAreUnique'
  BY <1>3, <1>6 DEF IInv, HashesAreOfKeys, NodesOnTheirChain, ListInOrder, KeysAreUnique
<1>9. Map!Overwrite(key, key2, value)
  <2>1. Entries[m].key = key /\ Entries[m].key2 = key2
    BY <1>2, EntryOfNode DEF Entries
  <2>2. Entries' = [Entries EXCEPT ![m].value = value]
    BY <1>2, <1>6 DEF Entries, NodeAt, About
  <2>3. answer' = Map!Entry(key, key2, value)
    BY <1>3 DEF About, Map!Entry
  <2> QED
    BY <1>2, <1>3, <2>1, <2>2, <2>3 DEF Entries, Map!Overwrite, Map!HasKey
<1> QED
  BY <1>7, <1>8, <1>9 DEF IInv

\* symtable_set of a new key.
LEMMA SetNewStep ==
  ASSUME IInv, NEW key \in Names, NEW key2 \in Classes, NEW value \in Values,
         SetNew(key, key2, value)
  PROVE  IInv' /\ Map!Add(key, key2, value)
<1> DEFINE node  == Len(nodes) + 1
           fresh == [hash |-> ComputeHash(key), key |-> key, key2 |-> key2, value |-> value]
           b     == BucketOf(ComputeHash(key))
<1>1. /\ Absent(key, key2) /\ Len(nodes) < MaxSize
      /\ nodes' = Append(nodes, fresh)
      /\ buckets' = [buckets EXCEPT ![b] = << node >> \o @]
      /\ list_tail' = node /\ size' = size + 1 /\ UNCHANGED iter
      /\ answer' = About(key, key2, value) /\ answer' \in Answer
  BY AnswerIsTyped DEF SetNew, Chained
<1>2. b \in Buckets
  BY BucketInArray
<1>3. fresh \in Node
  BY HashAssumption DEF Node
<1>4. /\ Len(nodes) \in Nat /\ DOMAIN nodes = 1 .. Len(nodes)
      /\ Len(nodes') = node /\ DOMAIN nodes' = 1 .. node
      /\ \A n \in DOMAIN nodes : nodes'[n] = nodes[n]
      /\ nodes'[node] = fresh
  BY <1>1, <1>3 DEF IInv, TypeOK
<1>5. \A m \in DOMAIN nodes : ~(nodes[m].key = key /\ nodes[m].key2 = key2)
  BY <1>1, LookUpIsComplete
<1>6. KeysAreUnique'
  BY <1>4, <1>5 DEF IInv, KeysAreUnique
<1>7. HashesAreOfKeys'
  BY <1>4 DEF IInv, HashesAreOfKeys
<1>8. ASSUME NEW c \in Buckets
      PROVE  /\ buckets'[c] \in Seq(DOMAIN nodes')
             /\ \A n : Holds(buckets'[c], n) <=> (c = b /\ n = node) \/ Holds(buckets[c], n)
  <2>1. buckets[c] \in Seq(DOMAIN nodes')
    BY <1>4, SeqMonotonic DEF IInv, TypeOK
  <2>2. CASE c # b
    BY <1>1, <1>2, <2>1, <2>2 DEF IInv, TypeOK
  <2>3. CASE c = b
    <3>1. buckets'[c] = Prepend(node, buckets[c])
      BY <1>1, <1>2, <2>3 DEF IInv, TypeOK, Prepend
    <3> DEFINE chain == buckets[c]
               made  == DOMAIN nodes'
    <3>2. chain \in Seq(made) /\ node \in made
      BY <1>4, <2>1
    <3> HIDE DEF chain, made
    <3>3. /\ Prepend(node, chain) \in Seq(made)
          /\ \A y : Holds(Prepend(node, chain), y) <=> (y = node \/ Holds(chain, y))
      BY <3>2, Prepending
    <3> QED
      BY <2>3, <3>1, <3>3 DEF chain, made
  <2> QED
    BY <2>2, <2>3
<1>9. NodesOnTheirChain'
  <2> SUFFICES ASSUME NEW n \in DOMAIN nodes', NEW c \in Buckets
               PROVE  Holds(buckets'[c], n) <=> c = BucketOf(ComputeHash(nodes'[n].key))
    BY DEF NodesOnTheirChain, Holds
  <2>1. CASE n = node
    <3>1. ~Holds(buckets[c], node)
      <4>1. buckets[c] \in Seq(DOMAIN nodes)
        BY DEF IInv, TypeOK
      <4>2. \A k \in DOMAIN buckets[c] : buckets[c][k] \in DOMAIN nodes
        BY <4>1
      <4>3. node \notin DOMAIN nodes
        BY <1>4 DEF IInv, TypeOK
      <4> QED
        BY <4>2, <4>3 DEF Holds
    <3>2. Holds(buckets'[c], node) <=> c = b
      BY <1>8, <3>1
    <3>3. nodes'[node].key = key
      BY <1>4
    <3> HIDE DEF node
    <3> QED
      BY <2>1, <3>2, <3>3
  <2>2. CASE n \in DOMAIN nodes
    <3>1. n # node /\ nodes'[n] = nodes[n]
      BY <1>4, <2>2
    <3>2. Holds(buckets[c], n) <=> c = BucketOf(ComputeHash(nodes[n].key))
      BY <2>2 DEF IInv, NodesOnTheirChain, Holds
    <3>3. Holds(buckets'[c], n) <=> Holds(buckets[c], n)
      BY <1>8, <3>1
    <3> QED
      BY <3>1, <3>2, <3>3
  <2> QED
    BY <1>4, <2>1, <2>2
<1>10. ListInOrder' /\ list_next' \in Seq(0 .. node) /\ Len(list_next') = node
       /\ {list_head, list_tail}' \subseteq 0 .. node
  <2>1. /\ list_next \in Seq(0 .. node) /\ Len(list_next) = Len(nodes)
        /\ size = Len(nodes) /\ list_tail = size
        /\ list_head = (IF size = 0 THEN 0 ELSE 1)
        /\ \A n \in 1 .. Len(nodes) : list_next[n] = (IF n < size THEN n + 1 ELSE 0)
    BY <1>4 DEF IInv, TypeOK, ListInOrder
  <2>2. CASE size = 0
    <3>1. list_head' = 1 /\ list_next' = Append(list_next, 0)
      BY <1>4, <2>1, <2>2 DEF SetNew, Threaded
    <3> QED
      BY <1>1, <1>4, <2>1, <2>2, <3>1 DEF ListInOrder
  <2>3. CASE size # 0
    <3>1. list_head = 1 /\ list_tail = size
      BY <2>1, <2>3
    <3>2. list_next' = Threaded(node) /\ list_head' = 1
      BY <3>1 DEF SetNew
    <3>3. list_next' = Append([list_next EXCEPT ![size] = node], 0)
      BY <3>1, <3>2 DEF Threaded
    <3>4. list_head' = 1
      BY <3>2
    <3> QED
      BY <1>1, <1>4, <2>1, <2>3, <3>3, <3>4 DEF ListInOrder
  <2> QED
    BY <2>2, <2>3
<1>11. TypeOK'
  <2>1. nodes' \in Seq(Node)
    BY <1>1, <1>3 DEF IInv, TypeOK
  <2>2. buckets' \in [Buckets -> Seq(DOMAIN nodes')]
    <3>1. DOMAIN buckets' = Buckets /\ buckets' = [c \in Buckets |-> buckets'[c]]
      BY <1>1, <1>2 DEF IInv, TypeOK
    <3> QED
      BY <1>8, <3>1
  <2>3. size' \in Nat /\ iter' \in 0 .. node /\ answer' \in Answer
    BY <1>1, <1>4 DEF IInv, TypeOK
  <2> QED
    BY <1>4, <1>10, <2>1, <2>2, <2>3 DEF TypeOK
<1>12. Map!Add(key, key2, value)
  <2>1. DOMAIN Entries = DOMAIN nodes /\ Len(Entries) = Len(nodes)
    BY <1>4 DEF Entries
  <2>2. ~Map!KeyIsSet(key, key2)
    BY <1>5, EntryOfNode DEF Map!KeyIsSet, Map!HasKey
  <2>3. answer' = Map!Entry(key, key2, value)
    BY <1>1 DEF About, Map!Entry
  <2>4. Entries' = Append(Entries, Map!Entry(key, key2, value))
    BY <1>4, <2>1 DEF Entries, NodeAt, About, Map!Entry
  <2> QED
    BY <1>1, <2>1, <2>2, <2>3, <2>4 DEF Map!Add, Entries
<1> QED
  BY <1>6, <1>7, <1>9, <1>10, <1>11, <1>12 DEF IInv

\* A step keeps the invariant and is one of the ordered map, or leaves it as it is.
LEMMA StepOfMap == IInv /\ [Next]_vars => IInv' /\ [Map!Next]_(Map!vars)
<1> SUFFICES ASSUME IInv, [Next]_vars PROVE IInv' /\ [Map!Next]_(Map!vars)
  OBVIOUS
<1>1. ASSUME UNCHANGED << nodes, buckets, list_next, list_head, list_tail, size >>,
             iter' \in 0 .. Len(nodes), answer' \in Answer \cup {NoValue}
      PROVE  IInv'
  BY <1>1 DEF IInv, TypeOK, HashesAreOfKeys, NodesOnTheirChain, ListInOrder, KeysAreUnique
<1>2. \A n \in DOMAIN nodes : nodes[n].value \in Values
  <2>1. \A n \in DOMAIN nodes : nodes[n] \in Node
    BY DEF IInv, TypeOK
  <2> QED
    BY <2>1 DEF Node
<1>3. ASSUME NEW key \in Names, NEW key2 \in Classes, Get(key, key2)
      PROVE  IInv' /\ Map!Get(key, key2)
  <2>1. UNCHANGED << nodes, buckets, list_next, list_head, list_tail, size, iter >>
    BY <1>3 DEF Get
  <2>2. CASE Absent(key, key2) /\ answer' = About(key, key2, NoValue)
    <3>1. ~Map!KeyIsSet(key, key2)
      BY <2>2, LookUpIsComplete, EntryOfNode DEF Map!KeyIsSet, Map!HasKey
    <3>2. answer' = Map!Entry(key, key2, NoValue) /\ answer' \in Answer
      BY <2>2, AnswerIsTyped DEF About, Map!Entry
    <3> QED
      BY <1>1, <2>1, <3>1, <3>2 DEF Map!Get, IInv, TypeOK, NodeAt, About
  <2>3. ASSUME NEW n \in DOMAIN Chain(key), FoundAt(n, key, key2),
               answer' = About(key, key2, nodes[Chain(key)[n]].value)
        PROVE  IInv' /\ Map!Get(key, key2)
    <3> DEFINE m == Chain(key)[n]
    <3>1. m \in DOMAIN nodes /\ nodes[m].key = key /\ nodes[m].key2 = key2
      BY <2>3, LookUpIsSound
    <3>2. answer' = About(key, key2, nodes[m].value)
      BY <2>3
    <3> HIDE DEF m
    <3>3. answer' = NodeAt(m) /\ answer' \in Answer
      <4>1. nodes[m].value \in Values \cup {NoValue}
        BY <1>2, <3>1
      <4> QED
        BY <3>1, <3>2, <4>1, AnswerIsTyped DEF NodeAt
    <3>4. Map!Get(key, key2)
      BY <2>1, <3>1, <3>3 DEF Map!Get, Map!HasKey, NodeAt, About
    <3> QED
      BY <1>1, <2>1, <3>3, <3>4 DEF IInv, TypeOK
  <2> QED
    BY <1>3, <2>2, <2>3 DEF Get
<1>4. CASE IterFirst
  <2>1. Map!First
    BY <1>4 DEF IterFirst, Map!First, IInv, TypeOK, ListInOrder, NodeAt, About
  <2> QED
    BY <1>1, <1>4, <2>1 DEF IterFirst, IInv, TypeOK, Map!Next
<1>5. CASE IterNext
  <2>1. iter \in DOMAIN nodes
    BY <1>5 DEF IterNext, IInv, TypeOK
  <2>2. iter' = (IF iter < Len(nodes) THEN iter + 1 ELSE 0)
    BY <1>5, <2>1 DEF IterNext, IInv, ListInOrder
  <2>3. Map!Advance
    BY <1>5, <2>1, <2>2 DEF IterNext, Map!Advance, IInv, TypeOK, NodeAt, About
  <2>4. iter' \in 0 .. Len(nodes) /\ answer' \in Answer
    <3>1. nodes[iter].key \in Names /\ nodes[iter].key2 \in Classes
      <4>1. nodes[iter] \in Node
        BY <2>1 DEF IInv, TypeOK
      <4> QED
        BY <4>1 DEF Node
    <3> QED
      <4>1. nodes[iter].value \in Values \cup {NoValue}
        BY <1>2, <2>1
      <4>2. answer' \in Answer
        BY <1>5, <3>1, <4>1, AnswerIsTyped DEF IterNext, NodeAt
      <4> QED
        BY <2>1, <2>2, <4>2 DEF IInv, TypeOK
  <2> QED
    BY <1>1, <1>2, <1>5, <2>1, <2>3, <2>4 DEF IterNext, Map!Next
<1>6. CASE UNCHANGED vars
  BY <1>1, <1>6 DEF vars, Map!vars, IInv, TypeOK, NodeAt, About
<1> QED
  BY <1>3, <1>4, <1>5, <1>6, SetValueStep, SetNewStep DEF Next, Map!Next

\* Every chain, the list and every iterator leads to a node that has been made or to NULL,
\* whatever is added while an iterator is on its way (symtable.c:123-155).
THEOREM TypeCorrect == Spec => []TypeOK
<1>1. IInv => TypeOK
  BY DEF IInv
<1> QED
  BY InvInit, StepOfMap, <1>1, PTL DEF Spec

\* The list of the nodes is in the order in which their keys were first set: parameters
\* are laid out, and globals compiled, in that order (symtable.c:131-140).
THEOREM ListStaysInOrder == Spec => []ListInOrder
<1>1. IInv => ListInOrder
  BY DEF IInv
<1> QED
  BY InvInit, StepOfMap, <1>1, PTL DEF Spec

\* Every node is on the chain its hash leads to, and on no other (symtable.c:128-129).
THEOREM NodesStayOnTheirChain == Spec => []NodesOnTheirChain
<1>1. IInv => NodesOnTheirChain
  BY DEF IInv
<1> QED
  BY InvInit, StepOfMap, <1>1, PTL DEF Spec

\* No key is ever there twice (symtable.c:117-121).
THEOREM KeysStayUnique == Spec => []KeysAreUnique
<1>1. IInv => KeysAreUnique
  BY DEF IInv
<1> QED
  BY InvInit, StepOfMap, <1>1, PTL DEF Spec

\* Buckets, chains and list are one ordered map.
THEOREM SymtableIsMap == Spec => ImplementsMap
<1>1. Init => Map!Init
  BY DEF Init, Map!Init
<1> QED
  BY InvInit, StepOfMap, <1>1, PTL DEF Spec, ImplementsMap, Map!Spec
=============================================================================
