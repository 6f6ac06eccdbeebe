------------------------------ MODULE Symtable ------------------------------
(***************************************************************************)
(* symtable.c: a hash table of nodes, chained from buckets, and a linked   *)
(* list of the same nodes in the order they were made.                     *)
(*                                                                         *)
(* A node is known by the number of nodes made before it plus one; 0 is    *)
(* NULL.  symtable_set makes a list node along with every node, which is   *)
(* known by the same number.  A name is a sequence of characters.          *)
(***************************************************************************)
EXTENDS Word, Sequences, SequencesExt

CONSTANTS Names, Classes, Values, NoValue, MaxSize,
          Capacity,      \* of the buckets: SYMTABLE_DEFAULT_SIZE
          CharMin        \* CHAR_MIN

VARIABLES nodes,         \* every node: hash, key, key2, value
          buckets,       \* the chain of every bucket, its head first
          list_next,     \* the list nodes' next
          list_head,
          list_tail,
          size,
          iter,          \* a client's symtable_iter_t
          answer         \* the key the last operation was about, and its value

vars == << nodes, buckets, list_next, list_head, list_tail, size, iter, answer >>

\* abs of the least int is the least int again.
AbsInt(v) == Wrap(Abs(v))

ComputeHash(key) == AbsInt(FoldLeft(LAMBDA hash, c : Wrap(hash * 31 + c + CharMin), 17, key))

\* The remainder of C has the sign of the hash.
BucketOf(hash) == Rem(hash, Capacity)

\* compute_hash returns an int.
ASSUME HashAssumption == \A key \in Names : ComputeHash(key) \in {MinWord} \cup 0 .. MaxWord

\* The least int would be a negative index if the capacity, 16 in jacc, did not divide it.
ASSUME CapacityAssumption == Capacity \in Nat \ {0} /\ Rem(MinWord, Capacity) = 0

ASSUME ValuesAssumption == MaxSize \in Nat /\ NoValue \notin Values

Buckets == 0 .. Capacity - 1

Init ==
  /\ nodes = << >> /\ buckets = [b \in Buckets |-> << >>]
  /\ list_next = << >> /\ list_head = 0 /\ list_tail = 0 /\ size = 0
  /\ iter = 0 /\ answer = NoValue

\* A slip: the class is not compared.
IsForAnyClass(node, key, key2) == node.hash = ComputeHash(key) /\ node.key = key

\* find_node: where the first node of the chain with that hash, class and name is.
IsFor(node, key, key2) ==
  node.hash = ComputeHash(key) /\ node.key2 = key2 /\ node.key = key

Chain(key) == buckets[BucketOf(ComputeHash(key))]

FoundAt(n, key, key2) ==
  /\ n \in DOMAIN Chain(key)
  /\ IsFor(nodes[Chain(key)[n]], key, key2)
  /\ \A m \in 1 .. n - 1 : ~IsFor(nodes[Chain(key)[m]], key, key2)

\* A slip: only the head of the chain is looked at.
AbsentFromHead(key, key2) ==
  Chain(key) # << >> => ~IsFor(nodes[Head(Chain(key))], key, key2)

Absent(key, key2) == \A n \in DOMAIN Chain(key) : ~IsFor(nodes[Chain(key)[n]], key, key2)

About(key, key2, value) == [key |-> key, key2 |-> key2, value |-> value]

Get(key, key2) ==
  /\ \/ \E n \in DOMAIN Chain(key) :
          FoundAt(n, key, key2) /\ answer' = About(key, key2, nodes[Chain(key)[n]].value)
     \/ Absent(key, key2) /\ answer' = About(key, key2, NoValue)
  /\ UNCHANGED << nodes, buckets, list_next, list_head, list_tail, size, iter >>

\* symtable_set of a key that is there.
SetValue(key, key2, value) ==
  /\ \E n \in DOMAIN Chain(key) :
       FoundAt(n, key, key2) /\ nodes' = [nodes EXCEPT ![Chain(key)[n]].value = value]
  /\ answer' = About(key, key2, value)
  /\ UNCHANGED << buckets, list_next, list_head, list_tail, size, iter >>

\* A slip: what was on the chain is not linked behind its new head.
ChainedAlone(node, chain) == << node >>

Chained(node, chain) == << node >> \o chain

\* A slip: the list is continued from its head.
ThreadedFromHead(node) ==
  IF list_head = 0 THEN Append(list_next, 0)
                   ELSE Append([list_next EXCEPT ![list_head] = node], 0)

\* list_tail->next is the new list node, whose next is NULL.
Threaded(node) ==
  IF list_head = 0 THEN Append(list_next, 0)
                   ELSE Append([list_next EXCEPT ![list_tail] = node], 0)

\* symtable_set of a new key: the new node heads its chain and ends the list.
SetNew(key, key2, value) ==
  LET node == Len(nodes) + 1
  IN  /\ Absent(key, key2) /\ Len(nodes) < MaxSize
      /\ nodes' = Append(nodes, [hash |-> ComputeHash(key), key |-> key, key2 |-> key2,
                                 value |-> value])
      /\ buckets' = [buckets EXCEPT ![BucketOf(ComputeHash(key))] = Chained(node, @)]
      /\ list_next' = Threaded(node)
      /\ list_head' = (IF list_head = 0 THEN node ELSE list_head)
      /\ list_tail' = node
      /\ size' = size + 1
      /\ answer' = About(key, key2, value)
      /\ UNCHANGED iter

IterFirst ==
  /\ iter' = list_head
  /\ UNCHANGED << nodes, buckets, list_next, list_head, list_tail, size, answer >>

\* symtable_iter_key, symtable_iter_key2 and symtable_iter_value.
NodeAt(n) == About(nodes[n].key, nodes[n].key2, nodes[n].value)

\* A slip: the list nodes are taken for an array.
IterNextCell ==
  /\ iter # 0
  /\ answer' = NodeAt(iter)
  /\ iter' = iter + 1
  /\ UNCHANGED << nodes, buckets, list_next, list_head, list_tail, size >>

\* A client looks at the node an iterator is at and moves on.
IterNext ==
  /\ iter # 0
  /\ answer' = NodeAt(iter)
  /\ iter' = list_next[iter]
  /\ UNCHANGED << nodes, buckets, list_next, list_head, list_tail, size >>

Next ==
  \/ \E key \in Names, key2 \in Classes :
       \/ Get(key, key2)
       \/ \E value \in Values : SetValue(key, key2, value) \/ SetNew(key, key2, value)
  \/ IterFirst \/ IterNext

Spec == Init /\ [][Next]_vars

(***************************************************************************)
(* Properties                                                              *)
(***************************************************************************)

Node == [hash : {MinWord} \cup 0 .. MaxWord, key : Names, key2 : Classes, value : Values]

Answer == [key : Names, key2 : Classes, value : Values \cup {NoValue}]

\* Every link of the table leads to a node that has been made, or is NULL.
TypeOK ==
  /\ nodes \in Seq(Node)
  /\ buckets \in [Buckets -> Seq(DOMAIN nodes)]
  /\ list_next \in Seq(0 .. Len(nodes)) /\ Len(list_next) = Len(nodes)
  /\ {list_head, list_tail, iter} \subseteq 0 .. Len(nodes)
  /\ size \in Nat
  /\ answer \in Answer \cup {NoValue}

\* The table and the list hold the same nodes: a node is on the chain of its own hash,
\* which is inside the array of buckets, and nowhere else.
NodesOnTheirChain ==
  \A n \in DOMAIN nodes : \A b \in Buckets :
    (\E k \in DOMAIN buckets[b] : buckets[b][k] = n) <=> b = BucketOf(ComputeHash(nodes[n].key))

\* The list starts at the first node and goes through all of them in the order in which
\* their keys were first set: parameters are laid out, and globals compiled, in that order.
ListInOrder ==
  /\ size = Len(nodes)
  /\ list_head = (IF size = 0 THEN 0 ELSE 1)
  /\ list_tail = size
  /\ \A n \in DOMAIN nodes : list_next[n] = (IF n < size THEN n + 1 ELSE 0)

\* No key is there twice: a second symtable_set of it is seen by every later look-up and
\* by every iterator.
KeysAreUnique ==
  \A m, n \in DOMAIN nodes :
    nodes[m].key = nodes[n].key /\ nodes[m].key2 = nodes[n].key2 => m = n

\* The table is the ordered map: look-ups through the buckets and iterations along the
\* list give the answers one sequence of entries gives.
Map == INSTANCE OrderedMap
         WITH entries <- [n \in DOMAIN nodes |-> NodeAt(n)], cursor <- iter
ImplementsMap == Map!Spec
=============================================================================
