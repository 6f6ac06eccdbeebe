------------------------------ MODULE NodePool ------------------------------
(***************************************************************************)
(* Who frees what the parser allocates.  A node, the text of a name or of  *)
(* a string in the tree, and a scope's table go into parser_pull when they *)
(* are made.  Not so the array of a list, a table's insides, and symbols   *)
(* with their names.  A compound statement frees the node of an empty      *)
(* statement at once; an error frees what the pull holds, or forgets it; a *)
(* tree that is complete belongs to the caller, who frees its nodes.  (A   *)
(* tree shares no node when no types are computed, which is so at the two  *)
(* entries that give a tree back.)                                         *)
(***************************************************************************)
EXTENDS Pull

CONSTANTS Entries,      \* the entry points of the parser that are looked at
          Statements    \* those whose input holds statements

\* In an expression a statement can only be the body of a function that is declared among
\* the fields of a struct, in the type of a cast.
ASSUME EntriesAssumption ==
  /\ Entries \subseteq {"parse_expr", "parse_stmt", "parse"}
  /\ Entries \ {"parse_expr"} \subseteq Statements /\ Statements \subseteq Entries

VARIABLES heap,         \* what malloc has placed at a pointer, or "free"
          items,        \* the array of the list at a pointer (list_node.items)
          entry,        \* the function the caller has called
          phase,        \* how far it and the caller have come
          faulty        \* free has been given a pointer that malloc did not hold

vars == << blocks, freed, heap, items, entry, phase, faulty >>

Phases == {"parsing", "failed", "rejected", "parsed", "discarded", "destroyed"}

\* A node's text counts as a node: it is pulled, and freed with the tree, as a node is.  What
\* nobody frees is "loose": symbols, their names, the insides of a table.  What is outside
\* all scopes is declared in symtables[0], or in symtables[1] of a program; "link" is what
\* symtable_destroy frees of what is in there (of the tables themselves nothing is said).
NodeKinds == {"node", "nop", "list"}
Kinds == NodeKinds \cup {"free", "table", "array", "link", "loose"}

Links == {p \in Ptrs : heap[p] = "link"}
Live == {p \in Ptrs : heap[p] # "free"}
Tracked == {p \in Ptrs : heap[p] \in NodeKinds \cup {"table"}}

Init ==
  /\ PullInit
  /\ heap = [p \in Ptrs |-> "free"] /\ items = [p \in Ptrs |-> p]
  /\ entry \in Entries /\ phase = "parsing" /\ faulty = FALSE

\* Free the pointers of s, one after the other.
FreeAll(s) ==
  /\ heap' = [p \in Ptrs |-> IF p \in Range(s) THEN "free" ELSE heap[p]]
  /\ faulty' = (faulty \/ ~IsInjective(s) \/ ~(Range(s) \subseteq Live))

\* A node, or its text; only statements make empty statements.
Alloc(p, kind) ==
  /\ phase = "parsing" /\ heap[p] = "free"
  /\ kind = "nop" => entry \in Statements
  /\ heap' = [heap EXCEPT ![p] = kind]
  /\ Add(p)
  /\ UNCHANGED << items, entry, phase, faulty >>

\* alloc_list_node: the arguments of a call, or a compound statement.
AllocList(p, array) ==
  /\ phase = "parsing" /\ heap[p] = "free" /\ heap[array] = "free" /\ p # array
  /\ heap' = [heap EXCEPT ![p] = "list", ![array] = "array"]
  /\ items' = [items EXCEPT ![p] = array]
  /\ Add(p)
  /\ UNCHANGED << entry, phase, faulty >>

\* list_node_ensure_capacity: realloc moves the array (or leaves it where it is).
GrowList(p, array) ==
  /\ phase = "parsing" /\ heap[p] = "list" /\ heap[array] = "free"
  /\ heap' = [heap EXCEPT ![items[p]] = "free", ![array] = "array"]
  /\ items' = [items EXCEPT ![p] = array]
  /\ UNCHANGED << blocks, freed, entry, phase, faulty >>

\* A scope, of statements, fields or parameters, or of the arguments of a call.
PushSymtable(p, buckets) ==
  /\ phase = "parsing" /\ heap[p] = "free" /\ heap[buckets] = "free" /\ p # buckets
  /\ heap' = [heap EXCEPT ![p] = "table", ![buckets] = "loose"]
  /\ Add(p)
  /\ UNCHANGED << items, entry, phase, faulty >>

\* A slip: what is declared goes into the pull, too.
DeclarePulled(p) ==
  /\ phase = "parsing" /\ heap[p] = "free"
  /\ heap' = [heap EXCEPT ![p] = "loose"]
  /\ Add(p)
  /\ UNCHANGED << items, entry, phase, faulty >>

\* A symbol, its name, or a table's node for it.  (One allocated for a tag that is known is
\* freed again before anything else happens.)
Declare(p) ==
  /\ phase = "parsing" /\ heap[p] = "free"
  /\ heap' = [heap EXCEPT ![p] = "loose"]
  /\ UNCHANGED << blocks, freed, items, entry, phase, faulty >>

\* put_symbol outside all scopes: a node of a chain, which symtable_destroy frees for a
\* program only, and one of the list.
DeclareOutside(p, link) ==
  /\ phase = "parsing" /\ heap[p] = "free" /\ heap[link] = "free" /\ p # link
  /\ heap' = [heap EXCEPT ![p] = IF entry = "parse" THEN "link" ELSE "loose",
                          ![link] = "link"]
  /\ UNCHANGED << blocks, freed, items, entry, phase, faulty >>

\* parse_stmt: a compound statement drops an empty statement, or a declaration that gives one.
DropEmptyStatement(p) ==
  /\ phase = "parsing" /\ heap[p] = "nop"
  /\ FreeAll(<< p >>)
  /\ UNCHANGED << blocks, freed, items, entry, phase >>

\* A slip: parser_parse frees what has been allocated, too.
FailFreesAll ==
  /\ phase = "parsing" /\ phase' = "failed"
  /\ FreeObjects /\ FreeAll(Contents)
  /\ UNCHANGED << items, entry >>

\* An error: safe_parsing frees what the pull holds, parser_parse forgets it.
Fail ==
  /\ phase = "parsing" /\ phase' = "failed"
  /\ \/ entry \in {"parse_expr", "parse_stmt"} /\ FreeObjects /\ FreeAll(Contents)
     \/ entry = "parse" /\ Clear /\ UNCHANGED << heap, faulty >>
  /\ UNCHANGED << items, entry >>

Finish ==
  /\ phase = "parsing" /\ phase' = "parsed"
  /\ Clear
  /\ UNCHANGED << heap, items, entry, faulty >>

\* safe_parsing: a tree that something follows is neither given back nor freed.
RejectTrailing ==
  /\ phase = "parsing" /\ entry # "parse" /\ phase' = "rejected"
  /\ UNCHANGED << blocks, freed, heap, items, entry, faulty >>

\* parser_free_node of the tree, which need not reach every node that was made: a list's
\* array is freed, the nodes in it are not.
Discard ==
  /\ phase = "parsed" /\ entry # "parse" /\ phase' = "discarded"
  /\ \E tree \in SUBSET {p \in Ptrs : heap[p] \in NodeKinds} :
       LET lists == SetToSeq({p \in tree : heap[p] = "list"})
       IN  FreeAll(SetToSeq(tree) \o [n \in DOMAIN lists |-> items[lists[n]]])
  /\ UNCHANGED << blocks, freed, items, entry >>

\* symtable_destroy of the table of a program, whose trees are not freed.
DiscardProgram ==
  /\ phase = "parsed" /\ entry = "parse" /\ phase' = "discarded"
  /\ FreeAll(SetToSeq(Links))
  /\ UNCHANGED << blocks, freed, items, entry >>

\* parser_destroy: symtables[0] goes, but for the nodes in its chains; the pull is emptied.
Destroy ==
  /\ phase \in {"failed", "rejected", "discarded"} /\ phase' = "destroyed"
  /\ IF entry = "parse" THEN UNCHANGED << heap, faulty >> ELSE FreeAll(SetToSeq(Links))
  /\ Clear
  /\ UNCHANGED << items, entry >>

Next ==
  \/ \E p \in Ptrs : Declare(p) \/ DropEmptyStatement(p)
  \/ \E p \in Ptrs, kind \in {"node", "nop"} : Alloc(p, kind)
  \/ \E p, list \in Ptrs : AllocList(list, p) \/ GrowList(list, p)
  \/ \E p, q \in Ptrs : PushSymtable(p, q) \/ DeclareOutside(p, q)
  \/ Fail \/ Finish \/ RejectTrailing \/ Discard \/ DiscardProgram \/ Destroy

Spec == Init /\ [][Next]_vars

(***************************************************************************)
(* Properties                                                              *)
(***************************************************************************)

\* What is on the heap is of a kind the parser allocates.
TypeOK ==
  /\ PullTypeOK
  /\ heap \in [Ptrs -> Kinds] /\ items \in [Ptrs -> Ptrs]
  /\ entry \in Entries /\ phase \in Phases /\ faulty \in BOOLEAN

\* Nothing is freed twice, by whoever owns it: a compound statement, the pull, the caller's
\* parser_free_node and symtable_destroy, parser_destroy.
FreedOnce == ~faulty

\* An error of an expression or a statement frees every node and table there is, and nothing
\* else where no empty statement has been freed: not what has come to be part of
\* symtables[0], over which parser_destroy still goes.  (The arrays of lists, the insides of
\* tables, symbols and names stay allocated: they never are in the pull.)
ErrorFreesNodes ==
  [][ phase = "parsing" /\ phase' = "failed" =>
        /\ entry # "parse" => \A p \in Tracked : heap'[p] = "free"
        /\ (entry \in Statements => entry = "parse") =>
             \A p \in Live \ Tracked : heap'[p] = heap[p] ]_vars
=============================================================================
