# jacc in TLA+

jacc is a compiler of a subset of C to 32-bit x86 assembler (fasm, Windows). It is
sequential: one process reads one file, and nothing is persisted. What is hard in it is
not concurrency but long sequences of legal steps over shared mutable state: a peephole
optimizer that rewrites one array in place, thirteen passes that each look right alone, a
code generator that keeps a machine stack and an FPU stack balanced by convention, and
hand-written containers and ownership rules under the parser.

Paths below are relative to the repository; the sources are in `src/`.

## Contents

1. The system: inventory
2. The modules and how they correspond to the code
3. The runs, their bounds and what they show
4. What is proved
5. Disagreements between code and documentation
6. What the model leaves out
7. Plan

## 1. The system: inventory

| Component | State | Operations | Correct when |
|---|---|---|---|
| Lexer `lexer.c` | stream buffer of refills, `cur_char`/`next_char`, line and column, text and value buffers | `get_char`, `lexer_next_token`, `lexer_token_value` | every character read once, in order; the longest token there is, with its own text, value and position |
| Buffer `buffer.c` | block, `used`, `size` | append, append string, reset, ensure capacity, copy | the text lies in memory and is what was appended |
| Parser, declarations and scopes `parser.c` | the token, stack of symbol tables, `cur_decl_type`, `function_locals_size`, initializer list | one `parse_*` function per rule | scopes are balanced; names resolve to the innermost symbol and mean what they did behind a block; locals and fields do not overlap |
| Parser, expressions `parser.c` | the token | `parse_expr` for eleven levels, `?:`, assignment, postfix, unary, primary | the tree is that of `grammar.txt`; what is not in it is refused |
| Parser, types `parser.c` | `type_sym` of each node | `set_binary_expr_type`, conversions, `is_lvalue`, ... | operands have the types the generator relies on |
| Parser, ownership `parser.c`, `main.c` | `parser_pull` | allocation of nodes and tables, `safe_parsing`, `parser_free_node` | each node freed once; an error frees the nodes and tables made so far, and nothing else |
| Symbol table `symtable.c` | buckets with chains, a linked list of the nodes in insertion order | get, set, first, next, value | a map with an insertion order; an iterator would see what is added behind it, though jacc adds nothing during a walk |
| Pull `pull.c` | chain of blocks of pointers | add, clear, free objects | a bag of pointers; the head block always has room |
| Generator `generator.c` | opcode list, data list, label counter, current function | one `generate_*` function per kind of node | the code prints what the program prints; both stacks balanced |
| Optimizer `optimizer.c` | the opcode list, read index, write index, frame, flags | thirteen passes in rounds | terminates; windows inside the list; labels kept; meaning kept |
| Driver, log, memory `main.c`, `log.c`, `memory.c` | - | calls the phases, prints | pure input and output |

How they interact: `cmd_parse_expr` (main.c) calls `parser_parse`, which draws tokens from
the lexer and records every node and every table in the pull; names live in a stack of symbol
tables. The resulting table goes to `generator_process`, which walks its functions in
insertion order and appends commands to a list; `optimizer_optimize` rewrites that list in
place; `generator_print_code` prints it. Calls are plain C calls; all sharing is through
the tree, the tables and the lists.

The behaviours that are hard to test, each with its line and the properties that cover it,
are the `hazards` of `PROJECT.json`.

## 2. The modules

Dependencies (an arrow reads "extends or instantiates"):

    MCLexer -> Lexer -> CharStream
                        Lexemes -> Word
    MCExpressions -> Expressions
    MCDeclarations -> Layout -> Declarations
    MCOptimizer -> Optimizer -> Peephole -> Asm, Word        Optimizer -> Rewriting (abstract)
    MCCompiler, MCFindings -> Compiler -> Generator -> Asm, TypedTree
                              Compiler -> Machine, CSemantics, Optimizer
    MCOptimizer, MCCompiler, MCFindings -> Samples -> TypedTree
    MCSymtable -> Symtable -> Word, OrderedMap (abstract)
    MCBuffer -> Buffer -> Text (abstract)
    MCNodePool -> NodePool -> Pull -> Tracker (abstract)

Proofs: `BufferProofs`, `SymtableProofs`, `NodePoolProofs`, `OptimizerProofs`, `LexerProofs`,
`DeclarationsProofs` extend the module they are named for; `NestingProofs` extends
DeclarationsProofs, and `LayoutProofs` Layout and NestingProofs.

**CharStream** - the lexer's input: blocks of the file (`ReadStream`), the window of two
characters (`GetChar`), the text collected for a token, line and column. The static
variables of `lexer.c` are one record, because most functions call `get_char` several
times. `WindowOnFile` relates the record to the file. A file holds no 0 character; the end
of the file is read as 0 for ever.

**Lexemes** - the classes of characters, and the reference for the lexer: which texts are a
name, a number, a string, a comment, an operator, and what their value is. It is written
from C's rules and jacc's own (the whole part of a float has no needless 0 before it),
without looking at how the lexer gets there.

**Lexer** - `lexer_init` and `lexer_next_token` called until it returns 0, as `cmd_lex` and
the parser do. `mode` is the function the lexer is in; each turn of a loop over characters
is an action, and what is read without a loop is one. The value of a float is the text
handed to `sscanf`. `FirstTypes` is what the first caller's struct may hold as a type: the
lexer reads it. Left out: `'\v'` as white space, and characters above 127.

**Declarations** - `parser_parse` down to the tokens: specifiers, declarators, structs,
unions, enums, typedefs, parameters, function bodies, statements, the stack of scopes. The C
stack is a sequence of things to do, `stack`; an action replaces the first by what its
function does. An action's name is that of the `parse_*` function, or of what is left of one
behind a call. Failure (`Fail`) drops the calls up to the one that ignores it. An
expression is one token, since `Expressions` has the rest, and `while`, `if`, ... stand for
the keyword with its parenthesised condition; arrays are of two elements. The tokens are
chosen while they are asked for. `seen` marks the runs where the code itself does not keep
its promises (section 6).

**Layout** - where `Declarations` puts things: the bytes C asks for of a type (`Bytes`), and
what that says of the offsets of locals in a frame and of fields in a struct.

**Expressions** - `parse_expr` and what it calls, as operators of a token string and a
place; `Grammar` is the reference, an enumeration of the trees `grammar.txt` allows for a
token string. Names and types are not looked at (`TypedTree` has the types).

**Asm** - operands and commands: `asm_operand_t`, `asm_command_t`, the operand
constructors. A command holds only the operands its opcode takes. A text line is a label
or, for "; unknown ... node", a `Comment`; other comment text never matches a pass and is
left out.

**Peephole** - the thirteen passes. `XMatches(w)` is the condition of `opt_x`, `X(w)` what
it leaves of the window; `Passes`, `FrameSize`, `Matches` and `Rewritten` are the table.

**Optimizer** - the loop of `optimizer_optimize` as a state machine: `StartRound`/`Return`
are the outer loop, `KeepText`, `SkipNop`, `OpenFrame` one turn of the scan, `ApplyPass`
the loop over passes, `KeepFrame`/`KeepCommand` the writing back, `EndRound` the new
count. `data` is the whole array, its stale tail included. `Live` is the program the array
stands for: what the round has kept and what it has not read yet.

**Rewriting** - the abstract specification: one window of consecutive commands is replaced
per step until no pass accepts any window. The table of passes is its parameter, given
by Peephole's.

**TypedTree** - one constructor per kind of expression and statement, which returns the
node the parser would build or `Rejected`: conversions, pointer arithmetic, decay of
arrays, member offsets, frame offsets.

**Generator** - every `generate_*` function as an operator from the code state before it
to the code state after it (opcode list, data list, label counter, labels of globals,
return label). The listings this module yields have been compared, command by command,
with the output of the compiled program for all the sample programs.

**Machine** (external: not in the repository) - the processor, FPU and `printf` that the
listing runs on: memory of 4-byte cells with a stack and a data section, registers, three
flag conditions, an FPU stack of eight. Touching a cell outside memory, or leaving the code,
ends the run with an error. Popping an empty FPU stack does nothing and its registers read
as `NotANumber`, as does what is pushed onto a full one.

**CSemantics** - the meaning C gives to a typed tree, written without looking at the
generator: it knows locations, names, output and return, and no registers or stack. It is
the reference of `RoundsPreserveMeaning`.

**Compiler** - composition: the generator's list, the optimizer's steps on it, then the
machine's steps on the result.

**Samples** - the programs the runs use, as families: integer expressions, updates, control
flow, pointers and data, doubles, functions.

**Symtable** / **OrderedMap** - the hash table with its chains and list; the map with an
insertion order and a cursor. A node is known by its number. `answer` names the key an
operation was about and its value, so that a value given for the wrong key is seen. The word width and the
capacity are parameters, so that the least int is a hash some short name has.

**Buffer** / **Text** - the growing array with the true size of its block (`memory`), which
`size` does not follow once it has grown, and the client that prints into it
(`lexer_token_value`); the text.

**Pull** / **Tracker** - the chain of blocks; the bag of pointers.

**NodePool** - the pull, the heap and the caller: who frees what on success, on an error, for
an empty statement, and at the end. `heap` says what malloc has placed at a pointer. In the
pull are nodes, the texts of names and strings in the tree, and tables, also those of a call's
arguments. Not in the pull are the array of a list (`items`), which moves as the list grows and is
freed with the list by `parser_free_node`; symbols with their names and the insides of tables,
which nobody frees (`loose`); and the nodes of the outermost table, which `symtable_destroy`
frees (`link`). So an error, as in `f(1`, leaves an array and a table's buckets allocated.
`Entries` are the functions a caller may call, `Statements` those whose input holds
statements: that of `parse_expr` does only where the type of a cast is a struct in which a
function with a body is declared.

Operators whose comment begins with "A slip" are the plausible mistakes each property
is shown to catch; no specification uses them.

## 3. The runs

Deadlock is checked except where the program ends (optimizer, compiler, ownership, lexer,
parser).

| Run | Bounds | What it asks |
|---|---|---|
| MCOptimizer | lists of about 40 programs of one or two statements; every pass fires | `WindowInBounds`, `CompactBetweenRounds`, `LinesKept`, `PassesShrink`, `Termination`, refinement of Rewriting |
| MCCompiler | about 1,300 programs: all expressions of one operator and a choice of two nested ones over `int a, b, c`; assignments, compound assignments, increments; if/while/do/for/?: over four conditions; arrays, structs, pointers; double arithmetic, conversions, comparisons; calls with two parameters of either size and arguments of four kinds, recursion to depth 4, globals | `RoundsPreserveMeaning`, `FrameBalanced`, `FpuBalanced` |
| MCSymtable | three names: two with the same hash, one whose hash is the least int; two classes; up to 3 keys; 4 buckets | chains, list, uniqueness, refinement of OrderedMap |
| MCBuffer | initial size 2, up to 4 characters of 2 | `TextInMemory`, refinement of Text |
| MCNodePool | 5 pointers up to symmetry, blocks of 2, 3 blocks; an expression without statements and a program | `FreedOnce`, `ErrorFreesNodes`; under them `HeadHasRoom` and the refinement of Tracker |
| MCLexer | all files of up to 2 to 5 characters over twelve small alphabets, one for each kind of token, some behind a prefix that leads to the case; blocks of 3; 8-bit ints; names of up to 3 characters; the first struct holds "ERROR" (parser) or "COMMENT" | `WindowOnFile`, `NotPastEnd`, `TokensCoverFile`, `PositionsAreTrue`, `MaximalMunch`, `ValuesAreRead`, `NumbersRefusedRightly`, `Termination` |
| MCDeclarations | sixteen beginnings of programs, each followed by 5 to 9 tokens of a few | `ScopesBalanced`, `LocalsHaveTheirPlaces`, `FieldsHaveTheirPlaces`, `BlocksRestoreNames`, `SignaturesFixed`, `Termination` |
| MCExpressions | four operands joined by any three of 15 operators of all levels; all strings of up to 7, 6 and 7 tokens over three alphabets | `GrammarIsParsed`, `OnlyGrammarIsParsed` |

Why the bounds are enough: a pass looks at no more than four commands, so two statements
meet in every window there is; a chain of two nodes and a list of three have a head, a
middle and an end; blocks of two pointers and three of them have a full, a partial and an empty one;
five pointers are a list with its array, the place the array moves to, and a table with its buckets
or a declaration with its node beside them (nothing tells one pointer from another, so that
`Symmetry` is sound: the run has no liveness property);
three characters to a block of the stream put the refill before, inside and behind tokens and look-aheads
of one; 8 bits overflow with three digits; a chain of four operands has every pair of levels
in every order and every pair of ternaries; the sixteen beginnings of programs lead to a
second scope, a second declaration, a nested declarator, a failure in a block, and the
tokens behind them to what may follow; a
buffer twice its first size is reallocated both to more and to less than it has. In the
compiler's runs `WordBits` is 15: the stack (160 bytes) and data of the samples fit it, the
constants stay far from its ends, and overflow is left to C's own rule that it is
undefined. `Fuel` bounds a run to 2^11 instructions, above what any sample needs; a run
that does not exit within it counts as wrong. Uninitialized memory and registers hold one
value, `Junk`, which no sample computes: a program whose output depends on it is seen.

`RoundsPreserveMeaning` runs the list to its end at every round boundary in one step of
evaluation; after the last round the machine also steps as actions, so that `FrameBalanced`
and `FpuBalanced` look at every instruction.

Fairness: `WF_vars(Next)` in Optimizer (and Compiler), Lexer and Declarations: the program
is one thread, which runs until it returns. It is needed for `Termination` only, which in
Lexer says that no file, closed or not, keeps the lexer reading at its end, and in
Declarations that no list of declarations, parameters or statements is read without
consuming tokens. No other module has a liveness property.

The models of the lexer and the parser have been compared with the compiled ones: for the
1,030,028 programs of the families of MCDeclarations the status and every symbol's kind,
size and offset agree, but for 11 in which `a = 2 = 2` goes on as an assignment, which is
not one token; for 61,953 token strings of MCExpressions acceptance and trees agree.

The samples leave out what section 5 lists as wrong, and what follows, which the generator
compiles wrongly or not at all and no document promises: `&&` and `||` evaluate both
operands; a comma expression is an unknown node; arithmetic on `char` emits nothing; a
ternary whose branch is a bare variable is rejected; `(a + b) * 0` becomes a shift by 0,
since 0 passes for a power of two; `for (;;)` with no condition pops a
value nobody pushed; `return d;` of a double variable returns nothing; the right operand
of a double operator cannot itself hold the FPU (`a + (b + c)`); a double comparison or
negation whose value is unused unbalances the stack; a parameter or an address passed on
as an argument is not popped by the caller; the value of `a = (b = 2)` and of `++b` is lost
when a pass merges the store away.

## 4. What is proved

All proofs are checked by tlapm with Z3, Zenon and LS4. They assume the named assumptions
of the modules only: every input list is a sequence of commands without NOPs
(`InputsAssumption`: `add_opcode` appends nothing else); the word has at least 8 bits; the
capacity of the symbol table divides the least int and names hash to ints
(`CapacityAssumption`, `HashAssumption`); blocks hold at least one pointer
(`PullAssumption`); the entries of the parser are among the three it has, and all but
`parse_expr` read statements (`EntriesAssumption`); sizes
are numbers (`BufferAssumption`); blocks of the stream hold at
least one character and a file is a sequence (`StreamAssumption`, `FilesAssumption`); the
character 0 is none of those `lexer.c` compares with, and no keyword has the type of a
comment, a name, a constant or an error (`NulAssumption`, `KeywordsAssumption`:
`tokens.def` gives each keyword a type of its own). Two theorems have a hypothesis besides,
named with them below.

* **OptimizerProofs** - `TypeOK` and `WindowInBounds` are inductive together (a window
  stays in bounds because `frame` was cut by `FrameAtI` and no pass leaves more than it
  was given, lemma `RewrittenFits`). `CompactBetweenRounds` speaks only of the ends of rounds, so it
  is strengthened by `NoNopKept`: what has been kept, and what is left of the open frame,
  holds no NOP, since no pass makes one (`RewrittenIsCommands`).
  `ListInv` adds that the array is a list. From it, what each kind of step does to the
  program `Live` stands for: every step but a pass leaves it alone, and a pass replaces one
  window of consecutive commands (`OthersKeepLive`, `ApplyPassRewrites`). `LinesKept` and `PassesShrink` follow.
  That the loop returns only when no pass accepts any window is `Quiet`: in a round that
  has changed nothing, everything read is where it was and no pass accepted a window
  beginning with it. With it every step is a step of Rewriting or a stutter
  (`LoopIsRewriting`: the whole of `ImplementsRewriting` but its fairness).
* **NodePoolProofs** - of Pull, `HeadHasRoom` with `IsChain`, for every capacity of a block;
  and that the chain implements the bag of Tracker (`PullIsTracker`): pushing into the head
  block, or a new head block, puts one pointer into the sequence the chain stands for, hence
  adds one to its bag. Of NodePool, for every number of pointers,
  `ErrorFreesNodes` and `FreedOnce`. `IInv` joins `NodesNotLost` (while the parser works every
  node and table is in its pull, theorem `NoNodeIsLost`), the types and `HeadHasRoom` to
  `ListsHaveItems` (no two lists have one array, and it is not freed before the list), and
  `HeldOnce` says that where no empty statement can have been freed the chain holds exactly the
  nodes and tables there are, each once. An error then frees just these
  (`ErrorFreesNodes`), and `parser_free_node` and `symtable_destroy` free disjoint sets of
  pointers that are held. `FreedOnce` is proved where no statement is parsed outside a
  program (`Statements \subseteq {"parse"}`): elsewhere it is false, which is the run
  EmptyStatement (section 5). `HeadHasRoom` and `ImplementsTracker` carry over from Pull.
* **BufferProofs** - `TextInMemory` from `TypeOK`, and from it that each step is a step of
  Text (`BufferIsText`): appending after a reallocation to more *or less* memory keeps the
  text, because the block is never smaller than what is used after the append.
* **SymtableProofs** - `IInv` joins the type, the hash kept in a node being that of its
  key, the chains, the list and uniqueness. A look-up finds what was set because of
  `NodesOnTheirChain` and `HashesAreOfKeys` (`LookUpIsComplete`); uniqueness follows; and
  each step maps to a step of OrderedMap (`SymtableIsMap`).
* **LexerProofs** - `WindowOnFile` for every file and every size of a block. It is not
  inductive: that `next_char` is the right one depends on where the block stands in the file
  (`offset`, the position in the block) and on a block being exhausted only at the end of
  the file, which `InStep` adds; and the text begins with `cur_char`, so one character must
  have been taken (`Reading`). `GetCharInStep` shows that a call keeps it in each of
  its three cases; every action of the lexer is a number of such calls (`Reads`), so that the
  theorem holds however tokens are made of characters.

  The other invariants that do not need the reference rest on it. `Moded` says what each mode
  knows of the lexer's variables and that no more than two
  characters behind the file have been taken; it is inductive because no step passes over a
  character that is 0 (`Along`). `NotPastEnd` follows. `Covered` says that the tokens lie one
  behind the other and that what is between them, and between the last one and the place the
  lexer is at, is white space; it gives `TokensCoverFile` for files that do not hold the
  character 0, which the lexer takes for their end. `Positioned` gives the line and column
  of every token as counted over the file, of which only the comments do not count:
  counting is a cardinality, so that taking a character adds one element to a set. `Summed`
  bounds what a number and an escape have been read to, for `TypeOK`.

  `MaximalMunch` and `NumbersRefusedRightly`, for every file and every keyword table. Neither
  says anything while a token is being read, so `Munching` gives each mode what it stands for
  (`Known`), by places of the file and not by texts: in `digits` all characters so far are
  digits of the base, and in base ten `buffer` holds them; in `fraction` there is a whole part
  or none, a point and digits; in `power` a mantissa and an exponent that has begun. The
  classes of texts of the reference are put into the same terms first (`SpanNumbers`,
  `SpanFloat`). That no longer token begins where one ends (`NoLonger`) is then a fact of the
  file alone, for each way a token can end: a longer text would be of one of the
  classes, each of which has a character where the lexer stopped that it did not find there.
  A refused number is one whose longest reading is followed by a letter or a digit
  (`Refused`). For an operator, `Punctuator` is shown to look at no more than three
  characters and to take as many as some spelling has (`PunctuatorMunches`). The error found
  in the struct of the first call is carried along (`FirstFailed`): it is the one case in
  which a number may be refused that is right, which the property leaves out.

  `ValuesAreRead`, for every file, width of a word and table of codes. The reference reads a
  text that is complete, the lexer one that is not yet. For digits `Valued` says that the sum
  so far is the wrapped value of the digits so far (`SumKnown`): a digit more is one turn of
  the reference's recursion (`ValueGoes`), and wrapping at every turn is wrapping once
  (`WrapsOnTheWay`, arithmetic of remainders). For a string the reference goes from the front
  to the end of a text the lexer has not seen. So `MeansTo` says it of every text that the file
  may turn out to hold: what such a text means is what is in the buffer, followed by what the
  reference makes of the rest from the lexer's place on, of which it is inside the quotes or
  outside. It does not hold of a text that ends in a backslash, whose meaning the
  reference does not say (`EndsWell`). Each piece the reference takes off the rest is what the
  lexer has taken: a character, or an escape sequence as long as it can be, which the
  reference finds as the longest run of digits and the lexer by asking for one after the other
  (`RunIs`, `HexIsTaken`, `OctalIsTaken`). At the end the rest is empty.
* **DeclarationsProofs** - `ScopesBalanced` for every program. `ScopesInv` says what holds
  inside a declaration: the calls on the C stack that are to close a scope are as many as
  the scopes open beside the outermost two (`Balanced`; fewer, once an ignored failure has
  dropped calls that had opened one). The number is counted by a function over the places of
  the stack (`Depths`), so that pushing, popping and dropping calls are lemmas about sequences
  (`PushPlain`, `PushCloser`, `PopDepth`, `DropDepth`). A step is one of six kinds:
  it opens a scope and leaves who will close it, closes one, does neither, puts off
  closing, fails, or ends. That a body is followed by its declaration's separator, which
  `EndOfBody` drops, is part of `Shape`. No assumption is needed.

  `TypeOK`, which is far from inductive: that a symbol's type is made of symbols that exist
  depends on what every waiting call holds and on what it will find in `ret`. `TypesInv` is
  `Steady` (every part of a type, every entry of a table and every symbol refers to
  something that is there) and `Manned`: each call on the stack holds what its kind needs
  (`IsItem`), and wants of the call in front of it (`Wants`: a type, a specifier, a chain of
  pointers still open, or nothing) what that one leaves (`Gives`). One lemma per action
  shows that what it puts on the stack is served; a failure hands on the empty answer, or
  leaves only calls that want nothing. It uses `ScopesInv`: a failure that is not ignored
  must not empty the stack of scopes. That a size is a number, `calc_symbol_size` following
  types through symbols, is shown for all full types at once (`SizesExist`, `FullHasSize`).

* **NestingProofs** - `BlocksRestoreNames` and `SignaturesFixed` for every program, as long
  as no failure has been ignored (the properties leave the others out). Both are action
  properties: what is true of a scope when it is left depends on what the call that leaves it
  remembers, and that was put on the stack any number of steps before. `NestInv` says what
  every call on the C stack knows of the scope it stands in (`Settled`), which is that of
  its place in `Depths`: a call that closes a scope has in `opened` what names mean by the
  scopes below it (`MeaningBelow`); the type a declarator has collected names only functions
  whose parameters had a scope opened behind its own (`Fresh`), so that the function it
  declares is not one whose table is open; and in the scope of a function's parameters
  there is no call but `end_of_body`, which leaves it. One step is the exception (`AtBody`):
  between `FunctionBody`, which opens that scope, and the brace of the body, the call for the
  body stands in it. That a table opened is new to the stack follows from the scopes standing
  in the order of their creation (`Rising`). What one step must leave of the scopes below a
  call is `Agree`, what it may put over them is `Lodged`; there is a lemma for each action and
  a last one for failures, which drop calls and, since they are not ignored, no scope. It
  rests on `ScopesInv` (how many scopes there are) and `TypesInv` (what types refer to).

* **LayoutProofs** - `LocalsHaveTheirPlaces` and `FieldsHaveTheirPlaces` for every program in
  which none of the slips has been met that the properties leave out (`Whole`: a failure that
  was ignored, a function inside a function, a struct defined again, an array of what is
  incomplete). Where an object ends up says nothing of how it came there, so `LayInv` speaks
  of the calls that are still to place one. `Laid` gives each call on the C stack the number
  of scopes, the kind of declaration and the function body it stands in, from what the calls
  in front of it restore (`Below`); what is put into the scope of a struct is thereby a field
  and no local, and a local is counted in the frame of the function it is written down for.
  Again the body of a function is the exception (`BodyAt`): between `FunctionBody` and its
  brace nothing is in it yet. `Framed` says that the running `function_locals_size` lies behind every local
  of that function, and `locals_size` behind those of the functions that are done. `Tidy`
  relates a symbol to its type: a size copied from an incomplete type would be wrong later,
  so `Sized` says that everything an object is made of is complete, and a complete struct is
  never opened again and keeps its size (`SizesStand`). The loop that gives the fields of a
  struct their offsets is a sum over its table (`Sums`, `Filled`): a set of places that is
  summed has the sum of its parts in whatever order it is folded. There is a lemma for each
  kind of step; it rests on `ScopesInv`, `TypesInv` and `NestInv`. `SizesAreKept` is what
  else follows from it: no size is stale.

Induction over a sequence is done without the library's theorems (they take an operator):
the set of lengths for which a statement holds is given its least counterexample, or all
prefixes are put in one set (`EveryNumber`, `EverySequence`, `NumbersFollow`). What a function
that is defined by recursion holds is had in the same way: a function on the numbers up to n
exists that obeys the recursion, and any two of them agree (`ValuesExist`, `ValuesAgree`,
`CodesExist`).

Only model-checked:

* `Termination` of Lexer, Optimizer and Declarations, and the fairness of
  `ImplementsRewriting`: liveness.
* Everything in Compiler (`RoundsPreserveMeaning`, `FrameBalanced`, `FpuBalanced`): Generator,
  Machine and CSemantics are RECURSIVE operators over trees, and what one computes for every tree
  is an induction over data.
* `GrammarIsParsed` and `OnlyGrammarIsParsed` of Expressions: the parser and the grammar it is
  compared with are RECURSIVE operators over token sequences and trees.

## 5. Disagreements between code and documentation

Each is a run of its own whose one property TLC finds violated; `findings` in
`PROJECT.json` quotes the lines.

| Run | Program | What happens |
|---|---|---|
| TwoLeas | `&a; b = 2;` | `opt_lea_lea` compares the base of the second lea with itself |
| RemainderOfTwo | `(a + b) % 2` | the idiv becomes a shift, edx is never set (and the shift rounds a negative quotient to minus infinity) |
| EmptyStatement | `{ ; 1 + }` | the node of the empty statement is freed twice (also in an expression that holds statements, as `(struct { int f() { ; 1 +`) |
| FirstFloat | `1.5` | `get_float_part` reads the type in the caller's struct, in which `parser_init` has put `TOK_ERROR`: refused, without a message |

Three more that the samples leave out: `printf("%d", ++a)` (`opt_lea_deref`,
`optimizer.c:165`, leaves unset the register the value is read through); `f = 1` for a
function `f` (the operand has a constant base, against the assertion in `memory()`,
`generator.c:202`); `f(&a)` (the type made by `&`, `parser.c:916`, has size 0, so the argument
stays on the stack, which `mov esp, ebp` hides).

Where `Expressions` follows the code and not `grammar.txt`: a ternary behind the colon of
another belongs to the left one (the grammar, lines 87-88, makes it right-recursive, and
`tests/expressions/ternary.answer` shows what the code does); the left side of an
assignment may be any conditional expression, and types refuse it later; `sizeof` is not
known.

## 6. What the model leaves out

* The initializer of a local as an assignment (`initializers_list`), `break`, `continue`,
  `goto` and `return` in Declarations, which consume tokens and change nothing there; casts
  and expressions of constants in brackets. The tree and its types are `TypedTree`'s, where
  unions, enums, typedefs and function pointers are missing.
* The growth of the opcode array (`add_opcode`), the limit of 255 scopes, and all printing.
* int overflow of constants folded by `opt_add_sub`; doubles are integers, so rounding is
  not modelled.
* The two outermost tables themselves (what is in them is `link` or `loose` in NodePool), the
  text of a token that no node takes, and trees in which computing types shares nodes, which
  nobody frees.
* `log.c`, `memory.c`, the printing functions of `main.c`: pure input and output.

`Declarations` models, and marks in `seen`, what the code does with programs that no test
and no document speaks of; the properties leave the marked runs out:

* *muffled*: a statement ignores the failure of a local declaration, prints the error, and
  goes on; where the failed one had opened a scope or set `cur_decl_type`, it stays;
* *nested*: a function inside a function resets `function_locals_size` and leaves
  `cur_decl_type` global, so that locals behind it become globals;
* *redefined*: a struct defined again under its tag adds the sizes of its new fields to the
  old ones; one defined under the tag of another kind of type, as in `enum e { A }; struct e {
  int x; char c; }`, is laid out as the tag says (`parser.c:1499`), that is as a union;
* *early*: the size of an incomplete struct is copied as 0 into a typedef or an array of it.

An enum stays incomplete after its definition, so that `enum e x;` is rejected.

Three of its steps follow a NULL and end the process (`status = "crashed"`, action `Crash`).
No document speaks of these programs either, and the properties hold up to that point:

* an expression names what is not declared, as in `int f() { x; }`: the type of the symbol
  that `get_symbol` did not find is read (`parser.c:598`);
* the suffix behind an inner declarator fails, as in `int (*f)[2;`: its NULL is linked behind
  the inner type (`parser.c:1446`), and the walk of `get_root_type` to the end of that
  type (`parser.c:1409`) meets it in `parse_declarator`,
* or in a declarator around it, as in `int ((*f)[2)();`.

## 7. Plan

Done: the optimizer, the generator and their composition with a machine; the containers
under the parser and their proofs; the lexer and the proofs that it reads each character
once and takes the longest token; declarations, scopes and layout and the proofs that scopes are balanced, that types refer to
what is there, that blocks restore names, that signatures stay and that locals and fields
have places of their own; expressions.

What is left, in this order:

1. Struct tags, unions and enums in TypedTree; initializers as assignments.
2. Opcode lists as arrays with capacity and doubling (`add_opcode`), composed with the
   optimizer's writing back.
