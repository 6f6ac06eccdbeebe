------------------------------- MODULE Layout -------------------------------
(***************************************************************************)
(* Where Declarations puts what it declares: the bytes of locals in the    *)
(* frame of their function and of fields in their struct.                  *)
(***************************************************************************)
EXTENDS Declarations

\* The bytes of what is not an array, from the sizes types have now.
PartBytes(p) ==
  CASE p.kind \in {"int", "pointer"} -> 4
    [] p.kind = "char" -> 1
    [] p.kind \in {"alias", "tag"} -> symbols[p.sym].size
    [] OTHER -> 0

\* The bytes of an object: an array is two of its elements.
Bytes(type) ==
  LET bytes[n \in DOMAIN type] ==
        IF type[n].kind = "array" THEN bytes[n + 1] + bytes[n + 1] ELSE PartBytes(type[n])
  IN bytes[1]

Whole == /\ status \in {"parsing", "done"}
         /\ ~ (seen.muffled \/ seen.nested \/ seen.redefined \/ seen.early)

\* The bytes of a local, from the frame pointer: the generator takes offset - size for its first.
Place(s) ==
  LET first == symbols[s].offset - symbols[s].size IN first .. first + Bytes(symbols[s].type) - 1

Locals(f) == {s \in DOMAIN symbols : symbols[s].kind = "variable" /\ symbols[s].function = f}

\* Every local of a function has bytes of its own in the frame the function asks for, enough for
\* its type, whatever blocks and declarations it stands between.
LocalsHaveTheirPlaces ==
  Whole => \A f \in Functions : \A v \in Locals(f) :
    /\ LET frame == IF f = Function THEN function_locals_size ELSE symbols[f].locals_size
       IN Place(v) \subseteq (- frame) .. -1
    /\ \A w \in Locals(f) \ {v} : Place(v) \cap Place(w) = {}

FieldPlace(s) == symbols[s].offset .. symbols[s].offset + Bytes(symbols[s].type) - 1

\* A complete struct has room for every field and none shares a byte with another; those of a
\* union all start at its first byte.
FieldsHaveTheirPlaces ==
  Whole => \A s \in DOMAIN symbols :
    symbols[s].complete =>
      LET table == tables[symbols[s].symtable]
          fields == {table[i].sym : i \in Fields(table)}
      IN /\ \A v \in fields : FieldPlace(v) \subseteq 0 .. symbols[s].size - 1
         /\ \A v, w \in fields :
              v # w => IF symbols[s].kind = "union" THEN symbols[v].offset = symbols[w].offset
                       ELSE FieldPlace(v) \cap FieldPlace(w) = {}
=============================================================================
