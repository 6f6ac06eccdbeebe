--------------------------- MODULE MCDeclarations ---------------------------
(***************************************************************************)
(* Programs for Declarations: a beginning that leads to the case, and all  *)
(* that a few tokens more can make of it.                                  *)
(***************************************************************************)
EXTENDS Layout

Program(first, others, more) == [first |-> first, others |-> others, more |-> more]

Main == << "int", "f", "(", ")", "{" >>

MCNames == {"a", "b", "f"}

MCPrograms ==
  { \* locals of several sizes, in blocks
    Program(Main \o << "char", "a">>, {"int", ";", "b", "{", "}", ","}, 9),
    \* arrays
    Program(Main \o << "char", "a", "[" >>, {"num", "]", "[", ";", "int", "b", "}"}, 7),
    \* statements with scopes of their own
    Program(Main, {"while", "if", "else", "do", "label", "int", "a", "num", ";", "}"}, 6),
    \* structs, unions and enums, by tag and by fields
    Program(<< >>, {"struct", "union", "enum", "a", "b", "int", "{", "}", ";"}, 7),
    \* a struct under the tag of an enum
    Program(<< "enum", "a", ";", "struct", "a", "{", "int", "a" >>, {";", "int", "b", "}"}, 6),
    \* a struct of two fields and what uses it
    Program(<< "struct", "a", "{", "int", "a", ";", "char">>,
            {"b", ";", "}", "struct", "a", "*", "[", "num", "]"}, 8),
    \* declarators
    Program(<< "int" >>, {"*", "(", ")", "[", "]", "num", "a", ";", ","}, 6),
    \* parameters, and a body behind them
    Program(<< "int", "f", "(", "int" >>, {"a", "b", "int", ")", ",", "...", "{", ";", "}"}, 8),
    \* a name of a type, and blocks that take it for something else
    Program(<< "typedef", "int", "a", ";" >> \o Main, {"a", "b", ";", "{", "}", "int", "typedef"}, 7),
    \* enumerators, and a block that uses and hides them
    Program(<< "enum", "{" >>, {"a", "b", ",", "}", ";", "int"}, 6),
    \* two blocks, a struct in one
    Program(Main \o << "int", "a", ";", "{", "struct", "a", "{", "char", "b", ";", "}">>,
            {"a", "b", ";", "{", "}", "int"}, 7),
    \* a declaration that fails in a block
    Program(Main \o << "int", "a", ";", "{", "struct", "b", "{", "void" >>,
            {"a", "b", ";", "}", "int"}, 7),
    \* a declarator that fails behind an inner one
    Program(<< "int", "(", "*", "a", ")" >>, {"(", ")", "[", "]", "num", "int", "a", ";"}, 5),
    \* a function in a function
    Program(Main \o << "int", "b", "(", ")", "{", "int", "a">>, {";", "}", "int", "a", "extern"}, 7),
    \* initializers, and what stands before a type
    Program(<< >>, {"extern", "static", "const", "typedef", "int", "a", "=", "num", ";"}, 7),
    \* a type used before it is defined
    Program(<< "struct", "a", ";" >>, {"typedef", "struct", "a", "b", ";", "*"}, 7)
  }
=============================================================================
