---------------------------- MODULE Declarations ----------------------------
(***************************************************************************)
(* parser.c: declarations, declarators, statements and the stack of        *)
(* scopes, while a program is parsed by recursive descent.                 *)
(*                                                                         *)
(* "stack" is what the C stack holds: what is left to be done by the calls *)
(* that have not returned, the next thing first.  A call is replaced by    *)
(* what its body does; "ret" is what the last one returned.  The parser    *)
(* asks for a token when it consumes one, so that the program is made up   *)
(* as it is read.                                                          *)
(*                                                                         *)
(* An expression is one token, a name or a number; "while", "for", "if"    *)
(* and "switch" stand for the keyword with its parenthesis, "label" for    *)
(* the three kinds of label with their colon.                              *)
(*                                                                         *)
(* A type is the sequence of its constructors, the outermost first and the *)
(* base type last: base_type links them in the code.                       *)
(*                                                                         *)
(* Two things are history.  What is to close a scope holds in "opened" what *)
(* every name meant when it was opened.  "seen" records what the code does  *)
(* not do right, as the README says, and what some promises end with: a    *)
(* failure some caller ignored (muffled), a function inside a function     *)
(* (nested), a struct defined under a tag that has a definition or belongs *)
(* to another kind of type (redefined), and the size of a type asked for   *)
(* before it is known (early).                                             *)
(***************************************************************************)
EXTENDS Integers, Sequences, SequencesExt, FiniteSetsExt

CONSTANTS Names, NoName,
          Programs       \* sets of programs: first tokens, the others, and how many of these

ASSUME NamesAssumption == NoName \notin Names

VARIABLES token, text,   \* the token the parser looks at, and what may follow
          stack, ret, status,
          symtables,     \* the stack of scopes: places in tables, current_symtable last
          tables,        \* every symtable made: its keys, classes and symbols in order
          symbols,       \* every symbol put into one
          cur_decl_type, function_locals_size,
          seen           \* history: what makes the code's promises void

scopes == << symtables, tables, symbols >>
vars == << token, text, stack, ret, status, scopes, cur_decl_type, function_locals_size, seen >>

Tokens(t) == IF t.first # << >> THEN {Head(t.first)}
             ELSE {"eos"} \cup IF t.more > 0 THEN t.others ELSE {}

After(t) == IF t.first # << >> THEN [t EXCEPT !.first = Tail(@)] ELSE [t EXCEPT !.more = @ - 1]

NextToken == token' \in Tokens(text) /\ text' = After(text)
SameToken == UNCHANGED << token, text >>

Item(do) == [do |-> do]
Expect(t) == [do |-> "expect", types |-> {t}]
Accept(ts) == [do |-> "accept", types |-> ts]

todo == Head(stack)
Doing(do) == status = "parsing" /\ stack # << >> /\ todo.do = do
Continue(items) == stack' = items \o Tail(stack) /\ status' = status

Global == "DT_GLOBAL"
Local  == "DT_LOCAL"

Nothing == [type |-> << >>, name |-> NoName]

Init ==
  /\ \E t \in Programs : token \in Tokens(t) /\ text = After(t)
  /\ stack = << Item("unit") >> /\ ret = Nothing /\ status = "parsing"
  /\ symtables = << 1, 2 >> /\ tables = << << >>, << >> >> /\ symbols = << >>
  /\ cur_decl_type = Global /\ function_locals_size = 0
  /\ seen = [muffled |-> FALSE, nested |-> FALSE, redefined |-> FALSE, early |-> FALSE]

----------------------------------------------------------------------------
(* The stack of scopes *)

Current == Last(symtables)

Entry(table, name, class) ==
  {i \in DOMAIN tables[table] : tables[table][i].name = name /\ tables[table][i].class = class}

Found(name, class) ==
  {i \in DOMAIN symtables : Entry(symtables[i], name, class) # {}}

\* A slip: the name is given its new meaning in the scope where it has one.
PutWhereFound(name, class, s) ==
  LET table == IF name = NoName \/ Found(name, class) = {} THEN Current
               ELSE symtables[Max(Found(name, class))]
      at == IF name = NoName THEN {} ELSE Entry(table, name, class)
      e  == [name |-> name, class |-> class, sym |-> s]
  IN [tables EXCEPT ![table] =
        IF at = {} THEN Append(@, e) ELSE [@ EXCEPT ![Min(at)] = e]]

\* symtable_set: in the place of the symbol of that name, or behind all.  Made up names
\* are all different.
PutInto(name, class, s) ==
  LET at == IF name = NoName THEN {} ELSE Entry(Current, name, class)
      e  == [name |-> name, class |-> class, sym |-> s]
  IN [tables EXCEPT ![Current] =
        IF at = {} THEN Append(@, e) ELSE [@ EXCEPT ![Min(at)] = e]]

\* get_symbol: from the innermost scope outward; 0 is NULL.
GetSymbol(name, class) ==
  IF Found(name, class) = {} THEN 0
  ELSE LET table == symtables[Max(Found(name, class))]
       IN tables[table][Min(Entry(table, name, class))].sym

Classes == {"SC_NAME", "SC_TAG"}
Meaning == [n \in Names |-> [c \in Classes |-> GetSymbol(n, c)]]

PushTable(n) == symtables' = Append(symtables, n)
PushNew == tables' = Append(tables, << >>) /\ PushTable(Len(tables) + 1)
Pop == symtables' = Front(symtables)

----------------------------------------------------------------------------
(* Types *)

Base(kind) == [kind |-> kind, sym |-> 0]
Of(kind, s) == << [kind |-> kind, sym |-> s] >>

SizeOfBase(b) ==
  CASE b.kind = "int"  -> 4
    [] b.kind = "char" -> 1
    [] b.kind \in {"tag", "alias"} -> symbols[b.sym].size
    [] OTHER -> 0

\* A slip: an array takes the place of an element.
SizeOfElement(type) ==
  LET size[n \in DOMAIN type] ==
        CASE type[n].kind = "pointer" -> 4
          [] type[n].kind = "array"   -> size[n + 1]
          [] OTHER -> SizeOfBase(type[n])
  IN size[1]

\* calc_symbol_size.  An array has two elements here; "open" is one whose size is not a number.
SizeOf(type) ==
  LET size[n \in DOMAIN type] ==
        CASE type[n].kind = "array"   -> 2 * size[n + 1]
          [] type[n].kind = "pointer" -> 4
          [] OTHER -> SizeOfBase(type[n])
  IN size[1]

Symbol(kind, name, type, size) ==
  [kind |-> kind, name |-> name, type |-> type, size |-> size, offset |-> 0,
   symtable |-> 0, complete |-> FALSE, function |-> 0, locals_size |-> 0]

IsTypeName(name) ==
  LET s == GetSymbol(name, "SC_NAME") IN s # 0 /\ symbols[s].kind = "alias"

\* A slip: "typedef" too, which parse_declaration takes at the outermost level alone.
IsTypeStart(t) ==
  t \in {"int", "char", "void", "struct", "union", "enum", "typedef"} \/ (t \in Names /\ IsTypeName(t))

\* is_parse_type_specifier
IsParseTypeSpecifier(t) ==
  t \in {"int", "char", "void", "struct", "union", "enum"} \/ (t \in Names /\ IsTypeName(t))

----------------------------------------------------------------------------
(* Failure: each caller returns NULL at once, and nothing is put back.  Two *)
(* do not look at what they were returned: parse_stmt, of a declaration,    *)
(* and parse_declarator_base, of what is behind an inner declarator.        *)

Heeds(item) == item.do # "local" /\ (item.do = "linked" => item.inner = << >>)

\* A slip: every caller gives up.
FailAll ==
  /\ stack' = << >> /\ status' = "failed" /\ ret' = Nothing /\ SameToken
  /\ UNCHANGED << scopes, cur_decl_type, function_locals_size, seen >>

Fail ==
  LET deaf == {n \in DOMAIN stack : ~ Heeds(stack[n])} IN
  /\ IF deaf = {} THEN stack' = << >> /\ status' = "failed"
     ELSE stack' = SubSeq(stack, Min(deaf), Len(stack)) /\ status' = status
  /\ ret' = [type |-> << Base("null") >>, name |-> NoName]
  /\ seen' = [seen EXCEPT !.muffled = @ \/ deaf # {}]
  /\ SameToken /\ UNCHANGED << scopes, cur_decl_type, function_locals_size >>

\* A NULL is followed.
Crash ==
  /\ status' = "crashed" /\ stack' = << >> /\ SameToken
  /\ UNCHANGED << ret, scopes, cur_decl_type, function_locals_size, seen >>

Kept == << symtables, tables, symbols, cur_decl_type, function_locals_size, seen >>

\* The steps that do nothing but look at the token: EXPECT and CONSUME, accept.
ExpectToken ==
  /\ Doing("expect")
  /\ IF token \in todo.types THEN NextToken /\ Continue(<< >>) /\ UNCHANGED << ret, Kept >>
     ELSE Fail

AcceptToken ==
  /\ Doing("accept") /\ Continue(<< >>) /\ UNCHANGED << ret, Kept >>
  /\ IF token \in todo.types THEN NextToken ELSE SameToken

\* The token is consumed, or not, and the work goes on with these items.
Taking(items)  == NextToken /\ Continue(items) /\ UNCHANGED << ret, Kept >>
Leaving(items) == SameToken /\ Continue(items) /\ UNCHANGED << ret, Kept >>

Returning(type, name) == ret' = [type |-> type, name |-> name]

\* The call returns this, having consumed the token or not.
ReturnTaking(type, name) == NextToken /\ Continue(<< >>) /\ Returning(type, name) /\ UNCHANGED Kept
Return(type, name)       == SameToken /\ Continue(<< >>) /\ Returning(type, name) /\ UNCHANGED Kept

----------------------------------------------------------------------------
(* Specifiers *)

Specifier ==
  /\ Doing("specifier")
  /\ IF token \in {"int", "char", "void"}
     THEN ReturnTaking(<< Base(token) >>, NoName)
     ELSE IF token \in Names /\ IsTypeName(token)
     THEN ReturnTaking(Of("alias", GetSymbol(token, "SC_NAME")), NoName)
     ELSE IF token \in {"struct", "union", "enum"} THEN Taking(<< [do |-> "tag", kind |-> token] >>)
     ELSE Fail

\* parse_structured_specifier_start: a tag any scope knows is that type, whatever its kind;
\* another, or none, is a new and incomplete one.
StructuredSpecifier ==
  /\ Doing("tag")
  /\ LET named == token \in Names
         known == IF named THEN GetSymbol(token, "SC_TAG") ELSE 0
         name  == IF named THEN token ELSE NoName
         s     == IF known # 0 THEN known ELSE Len(symbols) + 1
     IN /\ IF named THEN NextToken ELSE SameToken
        /\ Continue(<< [do |-> IF todo.kind = "enum" THEN "enum" ELSE "struct",
                        tag |-> s, kind |-> todo.kind] >>)
        /\ IF known # 0 THEN UNCHANGED << symbols, tables >>
           ELSE /\ symbols' = Append(symbols, Symbol(todo.kind, name, << >>, 0))
                /\ tables' = PutInto(name, "SC_TAG", s)
        /\ UNCHANGED << ret, symtables, cur_decl_type, function_locals_size, seen >>

\* parse_struct_or_union_specifier: the fields are the names of a scope of their own.
StructSpecifier ==
  /\ Doing("struct")
  /\ IF token # "{"
     THEN Return(Of("tag", todo.tag), NoName)
     ELSE /\ NextToken /\ PushNew
          /\ symbols' = [symbols EXCEPT ![todo.tag].symtable = Len(tables) + 1]
          /\ seen' = [seen EXCEPT !.redefined = @ \/ symbols[todo.tag].symtable # 0
                                                \/ symbols[todo.tag].kind # todo.kind]
          /\ cur_decl_type' = "DT_STRUCT"
          /\ Continue(<< Item("declaration"),
                         [do |-> "field", tag |-> todo.tag, old |-> cur_decl_type, opened |-> Meaning] >>)
          /\ UNCHANGED << ret, function_locals_size >>

VarKinds == {"variable", "global", "field", "parameter"}

Fields(table) == {i \in DOMAIN table : symbols[table[i].sym].kind \in VarKinds}

\* A slip: the offset is taken after the size is added.
SizesThrough(table, i) ==
  MapThenSumSet(LAMBDA j : symbols[table[j].sym].size, {j \in Fields(table) : j <= i})

SizesBefore(table, i) ==
  MapThenSumSet(LAMBDA j : symbols[table[j].sym].size, {j \in Fields(table) : j < i})

\* The fields in the order they were put, each behind the ones before it.  A union's stay at 0.
LaidOut(s) ==
  LET table == tables[symbols[s].symtable]
      size  == symbols[s].size
      at(n) == CHOOSE i \in Fields(table) : table[i].sym = n
  IN IF symbols[s].kind = "struct"
     THEN [n \in DOMAIN symbols |->
             IF n = s
             THEN [symbols[n] EXCEPT !.size = @ + SizesBefore(table, Len(table) + 1), !.complete = TRUE]
             ELSE IF \E i \in Fields(table) : table[i].sym = n
             THEN [symbols[n] EXCEPT !.offset = size + SizesBefore(table, at(n))]
             ELSE symbols[n]]
     ELSE [symbols EXCEPT ![s].size = Max({@} \cup {symbols[table[i].sym].size : i \in Fields(table)}),
                          ![s].complete = TRUE]

Field ==
  /\ Doing("field")
  /\ IF token = "}"
     THEN /\ NextToken /\ Pop /\ Continue(<< >>) /\ Returning(Of("tag", todo.tag), NoName)
          /\ symbols' = LaidOut(todo.tag) /\ cur_decl_type' = todo.old
          /\ UNCHANGED << tables, function_locals_size, seen >>
     ELSE /\ SameToken /\ Continue(<< Item("declaration"), todo >>)
          /\ cur_decl_type' = "DT_STRUCT"
          /\ UNCHANGED << ret, scopes, function_locals_size, seen >>

\* parse_enum_specifier: its names belong to the scope it stands in; the type stays incomplete.
EnumSpecifier ==
  /\ Doing("enum")
  /\ IF token = "{" THEN Taking(<< [do |-> "enumerator", tag |-> todo.tag] >>)
     ELSE Return(Of("tag", todo.tag), NoName)

Enumerator ==
  /\ Doing("enumerator")
  /\ IF token = "}"
     THEN ReturnTaking(Of("tag", todo.tag), NoName)
     ELSE IF token \in Names
     THEN /\ NextToken /\ Continue(<< [todo EXCEPT !.do = "enumerated"] >>)
          /\ symbols' = Append(symbols, Symbol("enum_const", token, Of("tag", todo.tag), 0))
          /\ tables' = PutInto(token, "SC_NAME", Len(symbols) + 1)
          /\ UNCHANGED << ret, symtables, cur_decl_type, function_locals_size, seen >>
     ELSE Fail

Enumerated ==
  /\ Doing("enumerated")
  /\ IF token = "," THEN Taking(<< [todo EXCEPT !.do = "enumerator"] >>)
     ELSE IF token = "}"
     THEN ReturnTaking(Of("tag", todo.tag), NoName)
     ELSE Fail

----------------------------------------------------------------------------
(* Declarators: what stands around the name, from the inside outward.      *)

Pointers(outer) == [do |-> "pointers", outer |-> outer]
Suffix(outer, inner, name) == [do |-> "suffix", outer |-> outer, inner |-> inner, name |-> name]
Declarator(base) == << Pointers(<< >>), [do |-> "based", base |-> base] >>

\* A slip: the NULL becomes a part of the type.
BrokenNot(type) == FALSE

Broken(type) == type # << >> /\ Last(type).kind = "null"

\* parse_declarator_base, up to the brackets behind.
DeclaratorBase ==
  /\ Doing("pointers")
  /\ IF token = "*" THEN Taking(<< Pointers(<< Base("pointer") >> \o todo.outer) >>)
     ELSE IF token \in Names THEN Taking(<< Suffix(todo.outer, << >>, token) >>)
     ELSE IF token = "("
     THEN Taking(<< Pointers(<< >>), Expect(")"), [do |-> "inner", outer |-> todo.outer] >>)
     ELSE Leaving(<< Suffix(todo.outer, << >>, NoName) >>)

InnerDeclarator ==
  /\ Doing("inner")
  /\ Leaving(<< Suffix(todo.outer, ret.type, ret.name) >>)

\* "linked" is where the result of the brackets is put behind the inner declarator.
DeclaratorSuffix ==
  /\ Doing("suffix")
  /\ LET linked == [do |-> "linked", inner |-> todo.inner, name |-> todo.name] IN
     IF token = "["
     THEN Leaving(<< [do |-> "dimension", dims |-> << >>, outer |-> todo.outer], linked >>)
     ELSE IF token = "("
     THEN /\ NextToken /\ PushNew /\ cur_decl_type' = "DT_PARAMETER"
          /\ Continue(<< [do |-> "parameters", outer |-> todo.outer,
                          old |-> cur_decl_type, opened |-> Meaning], linked >>)
          /\ UNCHANGED << ret, symbols, function_locals_size, seen >>
     ELSE SameToken /\ Continue(<< linked >>) /\ Returning(todo.outer, NoName) /\ UNCHANGED Kept

Linked ==
  /\ Doing("linked")
  /\ IF Broken(todo.inner) THEN Crash
     ELSE Return(todo.inner \o ret.type, todo.name)

\* parse_declarator: the base type goes behind all.
DeclaratorBased ==
  /\ Doing("based")
  /\ IF Broken(ret.type) THEN Crash
     ELSE Return(ret.type \o todo.base, ret.name)

\* parse_array_declarator: two elements where the number is one, unknown otherwise.
ArrayDeclarator ==
  /\ Doing("dimension")
  /\ IF token = "[" THEN Taking(<< [todo EXCEPT !.do = "size"] >>)
     ELSE Return(todo.dims \o todo.outer, NoName)

ArraySize ==
  /\ Doing("size")
  /\ LET dimension(kind) == [todo EXCEPT !.do = "dimension", !.dims = Append(@, Base(kind))] IN
     IF token = "]" THEN Taking(<< dimension("open") >>)
     ELSE Leaving(<< Item("expr"), Expect("]"), dimension(IF token = "num" THEN "array" ELSE "open") >>)

\* parse_function_declarator: the parameters are the names of a scope of their own.
Parameters ==
  /\ Doing("parameters")
  /\ Leaving(<< [todo EXCEPT !.do = IF token = ")" THEN "parameters_end" ELSE "parameter"] >>)

Parameter ==
  /\ Doing("parameter")
  /\ IF token = "..." THEN Taking(<< [todo EXCEPT !.do = "parameters_end"] >>)
     ELSE Leaving(<< Item("specifier"), Item("declarator"), [todo EXCEPT !.do = "declared_parameter"] >>)

ParameterDeclarator == Doing("declarator") /\ Leaving(Declarator(ret.type))

DeclaredParameter ==
  /\ Doing("declared_parameter")
  /\ symbols' = Append(symbols, Symbol("parameter", ret.name, ret.type, 0))
  /\ tables' = PutInto(ret.name, "SC_NAME", Len(symbols) + 1)
  /\ IF token = "," THEN NextToken /\ Continue(<< [todo EXCEPT !.do = "parameter"] >>)
     ELSE SameToken /\ Continue(<< [todo EXCEPT !.do = "parameters_end"] >>)
  /\ UNCHANGED << ret, symtables, cur_decl_type, function_locals_size, seen >>

FunctionDeclarator ==
  /\ Doing("parameters_end")
  /\ IF token # ")" THEN Fail
     ELSE /\ NextToken /\ Pop /\ Continue(<< >>) /\ cur_decl_type' = todo.old
          /\ Returning(Of("func", Current) \o todo.outer, NoName)
          /\ UNCHANGED << tables, symbols, function_locals_size, seen >>

----------------------------------------------------------------------------
(* Declarations: parser_parse, parse_declaration *)

Unit ==
  /\ Doing("unit")
  /\ IF token = "eos"
     THEN /\ stack' = << >> /\ status' = "done" /\ SameToken
          /\ UNCHANGED << ret, scopes, cur_decl_type, function_locals_size, seen >>
     ELSE /\ SameToken /\ Continue(<< Item("declaration"), todo >>) /\ cur_decl_type' = Global
          /\ UNCHANGED << ret, scopes, function_locals_size, seen >>

Declaration ==
  /\ Doing("declaration")
  /\ LET typedef == cur_decl_type = Global /\ token = "typedef"
         items == (IF cur_decl_type = Global THEN << Accept({"extern", "static"}) >> ELSE << >>)
                  \o << Accept({"const"}), Item("specifier"), [do |-> "declarators", typedef |-> typedef] >>
     IN IF typedef THEN Taking(items) ELSE Leaving(items)

NextDeclarator(base, typedef) ==
  Declarator(base) \o << [do |-> "declared", base |-> base, typedef |-> typedef] >>

Declarators ==
  /\ Doing("declarators")
  /\ IF token = ";" THEN Taking(<< >>) ELSE Leaving(NextDeclarator(ret.type, todo.typedef))

IsIncomplete(type) == Head(type).kind = "tag" /\ ~ symbols[Head(type).sym].complete

\* Its size is asked for before it is known: behind "[]" or "typedef" nobody minds.
IsEarly(type) ==
  \E n \in DOMAIN type :
    /\ \A m \in 1 .. n - 1 : type[m].kind = "array"
    /\ type[n].kind = "tag" /\ ~ symbols[type[n].sym].complete

VariableKind(typedef) ==
  CASE typedef -> "alias"
    [] ~ typedef /\ cur_decl_type = "DT_STRUCT" -> "field"
    [] ~ typedef /\ cur_decl_type = Global -> "global"
    [] OTHER -> "variable"

\* The function whose body is being parsed: the innermost one on the C stack; 0 outside all.
Function ==
  LET bodies == {i \in DOMAIN stack : stack[i].do = "end_of_body"}
  IN IF bodies = {} THEN 0 ELSE stack[Min(bodies)].function

DeclaredFunction ==
  /\ Doing("declared") /\ Head(ret.type).kind = "func"
  /\ IF (~ todo.typedef /\ IsIncomplete(Tail(ret.type))) \/ ret.name = NoName THEN Fail
     ELSE LET function == [Symbol("function", ret.name, Tail(ret.type), 0)
                             EXCEPT !.symtable = Head(ret.type).sym]
          IN /\ symbols' = Append(symbols, function)
             /\ tables' = PutInto(ret.name, "SC_NAME", Len(symbols) + 1)
             /\ SameToken
             /\ Continue(<< [do |-> "body", function |-> Len(symbols) + 1],
                            [do |-> "separator", base |-> todo.base, typedef |-> todo.typedef] >>)
             /\ UNCHANGED << ret, symtables, cur_decl_type, function_locals_size, seen >>

\* The name is put when the initializer is parsed.
DeclaredVariable ==
  /\ Doing("declared") /\ Head(ret.type).kind # "func"
  /\ LET kind == VariableKind(todo.typedef)
         variable == [Symbol(kind, ret.name, ret.type, SizeOf(ret.type)) EXCEPT !.function = Function]
         items == << [do |-> "variable", symbol |-> variable],
                     [do |-> "separator", base |-> todo.base, typedef |-> todo.typedef] >>
     IN IF \/ ~ todo.typedef /\ IsIncomplete(ret.type)
           \/ kind \in VarKinds /\ Head(ret.type).kind = "void"
           \/ ret.name = NoName
        THEN Fail
        ELSE /\ IF token = "=" THEN NextToken /\ Continue(<< Item("expr") >> \o items)
                ELSE SameToken /\ Continue(items)
             /\ seen' = [seen EXCEPT !.early = @ \/ IsEarly(ret.type)]
             /\ UNCHANGED << ret, scopes, cur_decl_type, function_locals_size >>

Variable ==
  /\ Doing("variable")
  /\ LET local == cur_decl_type = Local IN
     /\ symbols' = Append(symbols, [todo.symbol EXCEPT !.offset = IF local THEN - function_locals_size ELSE 0])
     /\ function_locals_size' = function_locals_size + IF local THEN todo.symbol.size ELSE 0
  /\ tables' = PutInto(todo.symbol.name, "SC_NAME", Len(symbols) + 1)
  /\ SameToken /\ Continue(<< >>) /\ UNCHANGED << ret, symtables, cur_decl_type, seen >>

Separator ==
  /\ Doing("separator")
  /\ IF token = "," THEN Taking(NextDeclarator(todo.base, todo.typedef)) ELSE Leaving(<< Expect(";") >>)

FunctionBody ==
  /\ Doing("body")
  /\ IF token # "{" THEN Leaving(<< >>)
     ELSE /\ PushTable(symbols[todo.function].symtable)
          /\ function_locals_size' = 0 /\ cur_decl_type' = Local
          /\ Continue(<< Item("stmt"),
                         [do |-> "end_of_body", function |-> todo.function, opened |-> Meaning] >>)
          /\ seen' = [seen EXCEPT !.nested = @ \/ Function # 0]
          /\ SameToken /\ UNCHANGED << ret, tables, symbols >>

\* A body ends the declaration: the separator behind it is dropped.
EndOfBody ==
  /\ Doing("end_of_body")
  /\ symbols' = [symbols EXCEPT ![todo.function].locals_size = function_locals_size]
  /\ Pop /\ cur_decl_type' = Global
  /\ stack' = Tail(Tail(stack)) /\ status' = status
  /\ SameToken /\ UNCHANGED << ret, tables, function_locals_size, seen >>

----------------------------------------------------------------------------
(* Statements *)

Close == [do |-> "close", opened |-> Meaning]

\* A statement with a scope of its own: the rest, then what ends the scope.
Opening(items) ==
  /\ NextToken /\ PushNew /\ Continue(items)
  /\ UNCHANGED << ret, symbols, cur_decl_type, function_locals_size, seen >>

\* A slip: the names of a body are put with the parameters.
CompoundUnscoped ==
  /\ Doing("stmt") /\ token = "{" /\ Taking(<< [Close EXCEPT !.do = "block"] >>)

Compound == Doing("stmt") /\ token = "{" /\ Opening(<< [Close EXCEPT !.do = "block"] >>)

Block ==
  /\ Doing("block")
  /\ IF token # "}" THEN Leaving(<< Item("stmt"), todo >>)
     ELSE /\ NextToken /\ Pop /\ Continue(<< >>)
          /\ UNCHANGED << ret, tables, symbols, cur_decl_type, function_locals_size, seen >>

\* while, for, switch; if, with what may follow its scope.
Nested ==
  /\ Doing("stmt")
  /\ \/ token \in {"while", "for", "switch"} /\ Opening(<< Item("stmt"), Close >>)
     \/ token = "if" /\ Opening(<< Item("stmt"), Close, Item("else") >>)

\* A slip: the scope stays.
EndOfNestedForgotten == Doing("close") /\ Leaving(<< >>)

EndOfNested ==
  /\ Doing("close") /\ Pop /\ Continue(<< >>) /\ SameToken
  /\ UNCHANGED << ret, tables, symbols, cur_decl_type, function_locals_size, seen >>

Else == Doing("else") /\ IF token = "else" THEN Taking(<< Item("stmt") >>) ELSE Leaving(<< >>)

\* The scope of a do is that of its condition, where nothing is declared.
Do == Doing("stmt") /\ token = "do" /\ Taking(<< Item("stmt"), Expect("while"), Expect(";") >>)

Label == Doing("stmt") /\ token = "label" /\ Taking(<< Item("stmt") >>)
Empty == Doing("stmt") /\ token = ";" /\ Taking(<< >>)

StatementStarts == {"{", "while", "for", "switch", "if", "do", "label", ";"}

LocalDeclaration ==
  /\ Doing("stmt") /\ token \notin StatementStarts /\ IsParseTypeSpecifier(token)
  /\ Leaving(<< Item("declaration"), Item("local") >>)

EndOfLocal == Doing("local") /\ Leaving(<< >>)

Expression ==
  /\ Doing("stmt") /\ token \notin StatementStarts /\ ~ IsParseTypeSpecifier(token)
  /\ Leaving(<< Item("expr"), Expect(";") >>)

\* parse_primary_expr: the kind of a name nobody declared is read through a NULL.
Primary ==
  /\ Doing("expr")
  /\ IF token = "num" THEN Taking(<< >>)
     ELSE IF token \in Names
     THEN LET s == GetSymbol(token, "SC_NAME") IN
          IF s = 0 THEN Crash
          ELSE IF symbols[s].kind \in VarKinds \cup {"function"} THEN Taking(<< >>) ELSE Fail
     ELSE Fail

Next ==
  \/ ExpectToken \/ AcceptToken
  \/ Specifier \/ StructuredSpecifier \/ StructSpecifier \/ Field
  \/ EnumSpecifier \/ Enumerator \/ Enumerated
  \/ DeclaratorBase \/ InnerDeclarator \/ DeclaratorSuffix \/ Linked \/ DeclaratorBased
  \/ ArrayDeclarator \/ ArraySize \/ Parameters \/ Parameter \/ ParameterDeclarator
  \/ DeclaredParameter \/ FunctionDeclarator
  \/ Unit \/ Declaration \/ Declarators \/ DeclaredFunction \/ DeclaredVariable \/ Variable
  \/ Separator \/ FunctionBody \/ EndOfBody
  \/ Compound \/ Block \/ Nested \/ EndOfNested \/ Else \/ Do \/ Label \/ Empty
  \/ LocalDeclaration \/ EndOfLocal \/ Expression \/ Primary

Spec == Init /\ [][Next]_vars /\ WF_vars(Next)

----------------------------------------------------------------------------
(* What is promised *)

Functions == {s \in DOMAIN symbols : symbols[s].kind = "function"}
Kinds == VarKinds \cup {"alias", "function", "enum_const", "struct", "union", "enum"}
TypeKinds == {"int", "char", "void", "tag", "alias", "pointer", "array", "open", "func"}

\* The parser's state: the two outermost scopes are never left, every name denotes a symbol,
\* and no symbol is left with the NULL of a failed declarator in its type.
TypeOK ==
  /\ status \in {"parsing", "done", "failed", "crashed"}
  /\ (status = "parsing") = (stack # << >>)
  /\ cur_decl_type \in {Global, Local, "DT_STRUCT", "DT_PARAMETER"}
  /\ function_locals_size \in Nat
  /\ SubSeq(symtables, 1, 2) = << 1, 2 >> /\ Range(symtables) \subseteq DOMAIN tables
  /\ \A t \in DOMAIN tables : \A i \in DOMAIN tables[t] : tables[t][i].sym \in DOMAIN symbols
  /\ \A s \in DOMAIN symbols :
       /\ symbols[s].kind \in Kinds /\ symbols[s].size \in Nat
       /\ \A i \in DOMAIN symbols[s].type : symbols[s].type[i].kind \in TypeKinds

\* Between two declarations of the outermost level the stack of scopes is what parser_parse
\* made it, whatever was opened on the way (unless a failure was ignored).
ScopesBalanced ==
  stack # << >> /\ todo.do = "unit" /\ ~ seen.muffled => symtables = << 1, 2 >>

\* What a declaration inside a scope does to names ends with it: when a scope is left, every
\* name and tag means what it meant when the scope was opened.
BlocksRestoreNames ==
  [][Len(symtables') < Len(symtables) /\ ~ seen.muffled => Meaning' = todo.opened]_vars

\* The parameters of a declared function are never added to or replaced, not by its own body:
\* calls count and convert their arguments by that scope.
SignaturesFixed ==
  [][\A f \in Functions : LET table == symbols[f].symtable IN
       tables'[table] = tables[table] \/ seen.muffled]_vars

\* The parser comes to an end with every program.
Termination == <>(status # "parsing")

=============================================================================
