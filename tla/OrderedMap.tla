----------------------------- MODULE OrderedMap -----------------------------
(***************************************************************************)
(* What symtable.h promises: a map from (name, class) to a value that      *)
(* remembers the order in which its keys were first set, and a cursor over *)
(* it in that order that sees what is added behind it.                     *)
(***************************************************************************)
EXTENDS Integers, Sequences

CONSTANTS Names, Classes, Values,
          NoValue,       \* NULL
          MaxSize        \* a bound on the number of keys

VARIABLES entries,       \* [key, key2, value], oldest key first
          cursor,        \* the entry an iterator is at, 0 once it is past the last
          answer         \* the key the last operation was about, and its value

vars == << entries, cursor, answer >>

Entry(key, key2, value) == [key |-> key, key2 |-> key2, value |-> value]

HasKey(n, key, key2) == entries[n].key = key /\ entries[n].key2 = key2
KeyIsSet(key, key2)  == \E n \in DOMAIN entries : HasKey(n, key, key2)

Init == entries = << >> /\ cursor = 0 /\ answer = NoValue

Overwrite(key, key2, value) ==
  /\ \E n \in DOMAIN entries :
       HasKey(n, key, key2) /\ entries' = [entries EXCEPT ![n].value = value]
  /\ answer' = Entry(key, key2, value)
  /\ UNCHANGED cursor

Add(key, key2, value) ==
  /\ ~KeyIsSet(key, key2) /\ Len(entries) < MaxSize
  /\ entries' = Append(entries, Entry(key, key2, value))
  /\ answer' = Entry(key, key2, value)
  /\ UNCHANGED cursor

Get(key, key2) ==
  /\ \/ \E n \in DOMAIN entries : HasKey(n, key, key2) /\ answer' = entries[n]
     \/ ~KeyIsSet(key, key2) /\ answer' = Entry(key, key2, NoValue)
  /\ UNCHANGED << entries, cursor >>

First == cursor' = (IF entries = << >> THEN 0 ELSE 1) /\ UNCHANGED << entries, answer >>

Advance ==
  /\ cursor # 0
  /\ answer' = entries[cursor]
  /\ cursor' = (IF cursor < Len(entries) THEN cursor + 1 ELSE 0)
  /\ UNCHANGED entries

Next ==
  \/ \E key \in Names, key2 \in Classes :
       \/ Get(key, key2)
       \/ \E value \in Values : Overwrite(key, key2, value) \/ Add(key, key2, value)
  \/ First \/ Advance

Spec == Init /\ [][Next]_vars
=============================================================================
