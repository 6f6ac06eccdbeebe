----------------------------- MODULE CSemantics -----------------------------
(***************************************************************************)
(* The meaning C gives to a typed tree: what a program prints.  It is the  *)
(* reference the compiled code is compared with and knows nothing of       *)
(* registers, of a stack or of labels.                                     *)
(*                                                                         *)
(* s is the state of the evaluation: the value at every location, the      *)
(* location of every name in scope, the next free location, the output,    *)
(* and whether a return statement has been executed and with what value.   *)
(***************************************************************************)
EXTENDS TypedTree, Word

Alloc(s, symbol) ==
  [s EXCEPT !.env = (symbol.name :> s.next) @@ @,
            !.next = @ + 8 + symbol.base.size]

Store(s, loc, v) == [s EXCEPT !.store = (loc :> v) @@ @]

Fetch(s, loc) == IF loc \in DOMAIN s.store THEN s.store[loc] ELSE 0

Bool(b) == IF b THEN 1 ELSE 0

IntBinary(type, a, b) ==
  CASE type = "add" -> Wrap(a + b)  [] type = "sub" -> Wrap(a - b)
    [] type = "mul" -> Wrap(a * b)
    [] type = "div" -> Quot(a, b)   [] type = "mod" -> Rem(a, b)
    [] type = "lshift" -> Wrap(a * 2 ^ b)
    [] type = "rshift" -> a \div 2 ^ b
    [] type = "eq" -> Bool(a = b)   [] type = "ne" -> Bool(a # b)
    [] type = "lt" -> Bool(a < b)   [] type = "le" -> Bool(a <= b)
    [] type = "gt" -> Bool(a > b)   [] type = "ge" -> Bool(a >= b)

\* Bit by bit over the word, the sign bit included.
Bit(v, k) == (v \div 2 ^ k) % 2
BitsOf(type, x, y) ==
  CASE type = "bit_and" -> x * y  [] type = "bit_or" -> x + y - x * y
    [] type = "bit_xor" -> (x + y) % 2
Bitwise2(type, a, b) ==
  Wrap(FoldLeft(LAMBDA acc, k : acc + BitsOf(type, Bit(a, k - 1), Bit(b, k - 1)) * 2 ^ (k - 1), 0,
                [k \in 1 .. WordBits |-> k]))

DoubleBinary(type, a, b) ==
  CASE type = "add" -> a + b  [] type = "sub" -> a - b  [] type = "mul" -> a * b
    [] type = "div" -> Quot(a, b)
    [] OTHER -> IntBinary(type, a, b)

Apply(type, double, a, b) ==
  IF double THEN DoubleBinary(type, a, b)
  ELSE IF type \in {"bit_and", "bit_or", "bit_xor"} THEN Bitwise2(type, a, b)
  ELSE IntBinary(type, a, b)

RECURSIVE Eval(_, _, _)
RECURSIVE Exec(_, _, _)

\* [v, s] with a value, or with a location.
Result(v, s) == [v |-> v, s |-> s]

RECURSIVE Locate(_, _, _)
Locate(fs, e, s) ==
  CASE e.type = "variable"    -> Result(s.env[e.symbol.name], s)
    [] e.type = "dereference" -> Eval(fs, e.ops[1], s)
    [] e.type = "member"      ->
         LET o == Locate(fs, e.ops[1], s) IN Result(o.v + e.field.offset, o.s)

EvalInc(fs, e, s) ==
  LET place == Locate(fs, e.ops[1], s)
      old   == Fetch(place.s, place.v)
      new   == IF e.type \in {"prefix_inc", "postfix_inc"} THEN old + 1 ELSE old - 1
  IN  Result(IF e.type \in {"prefix_inc", "prefix_dec"} THEN new ELSE old,
             Store(place.s, place.v, new))

EvalUnary(fs, e, s) ==
  LET a == Eval(fs, e.ops[1], s)
  IN  Result(CASE e.type = "logical_negation" -> Bool(a.v = 0)
               [] e.type = "complement"       -> -a.v - 1
               [] e.type = "negation"         -> IF TypeOf(e) = sym_double THEN -a.v ELSE Wrap(-a.v)
               [] e.type = "identity"         -> a.v, a.s)

EvalBinary(fs, e, s) ==
  LET a    == Eval(fs, e.ops[1], s)
      b    == Eval(fs, e.ops[2], a.s)
      type == TypeOf(e.ops[1])
  IN  CASE e.type = "and" /\ a.v = 0 -> Result(0, a.s)
        [] e.type = "or"  /\ a.v # 0 -> Result(1, a.s)
        [] e.type \in {"and", "or"} /\ Bool(a.v # 0) = Bool(e.type = "and") ->
             Result(Bool(b.v # 0), b.s)
        [] e.type = "comma" -> b
        [] e.type = "add" /\ IsPtrType(type) -> Result(a.v + b.v * type.base.size, b.s)
        [] OTHER -> Result(Apply(e.type, type = sym_double, a.v, b.v), b.s)

EvalArgs(fs, args, s) ==
  FoldInOrder(LAMBDA acc, arg : LET a == Eval(fs, arg, acc.s) IN Result(Append(acc.v, a.v), a.s),
           Result(<< >>, s), args)

CallFunction(fs, e, s) ==
  LET args  == EvalArgs(fs, e.ops, s)
      f     == CHOOSE g \in Range(fs) : g.symbol.name = e.func.name
      enter == FoldLeft(LAMBDA acc, n :
                          LET a == Alloc(acc, f.symbol.params[n])
                          IN  Store(a, a.env[f.symbol.params[n].name], args.v[n]),
                        [args.s EXCEPT !.returned = FALSE], [n \in DOMAIN args.v |-> n])
      frame == FoldLeft(Alloc, enter, f.locals)
      after == Exec(fs, f.body, frame)
  IN  Result(after.value, [after EXCEPT !.env = s.env, !.returned = FALSE])

EvalCall(fs, e, s) ==
  IF e.func.extern
  THEN LET args == EvalArgs(fs, Tail(e.ops), s)
       IN  Result(0, [args.s EXCEPT !.out = @ \o args.v])
  ELSE CallFunction(fs, e, s)

EvalAssign(fs, e, s) ==
  LET place == Locate(fs, e.ops[1], s)
      value == Eval(fs, e.ops[2], place.s)
  IN  Result(value.v, Store(value.s, place.v, value.v))

EvalTernary(fs, e, s) ==
  LET c == Eval(fs, e.ops[1], s) IN Eval(fs, e.ops[IF c.v # 0 THEN 2 ELSE 3], c.s)

Eval(fs, e, s) ==
  CASE e.type = "nop" -> Result(0, s)
    [] e.type \in {"int", "double"} -> Result(e.value, s)
    [] e.type = "string"    -> Result(0, s)
    [] e.type \in {"variable", "dereference", "member"} ->
         LET place == Locate(fs, e, s) IN Result(Fetch(place.s, place.v), place.s)
    [] e.type = "reference" -> Locate(fs, e.ops[1], s)
    [] e.type = "cast"      -> Eval(fs, e.ops[1], s)
    [] e.type = "assign"    -> EvalAssign(fs, e, s)
    [] e.type = "ternary"   -> EvalTernary(fs, e, s)
    [] e.type = "call"      -> EvalCall(fs, e, s)
    [] e.type \in Incs      -> EvalInc(fs, e, s)
    [] e.type \in {"logical_negation", "complement", "negation", "identity"} -> EvalUnary(fs, e, s)
    [] OTHER -> EvalBinary(fs, e, s)

RECURSIVE Loop(_, _, _, _)
Loop(fs, cond, body, s) ==
  LET c == Eval(fs, cond, s)
  IN  IF cond.type # "nop" /\ c.v = 0 THEN c.s
      ELSE LET after == FoldInOrder(LAMBDA acc, b : Exec(fs, b, acc), c.s, body)
           IN  IF after.returned THEN after ELSE Loop(fs, cond, body, after)

ExecReturn(fs, e, s) ==
  LET value == Eval(fs, e.ops[1], s) IN [value.s EXCEPT !.returned = TRUE, !.value = value.v]

Exec(fs, e, s) ==
  IF s.returned THEN s
  ELSE CASE e.type = "list"   -> FoldInOrder(LAMBDA acc, item : Exec(fs, item, acc), s, e.ops)
         [] e.type = "if"     -> LET c == Eval(fs, e.ops[1], s)
                                 IN  Exec(fs, e.ops[IF c.v # 0 THEN 2 ELSE 3], c.s)
         [] e.type = "while"  -> Loop(fs, e.ops[1], << e.ops[2] >>, s)
         [] e.type = "do_while" ->
              LET after == Exec(fs, e.ops[1], s)
              IN  IF after.returned THEN after ELSE Loop(fs, e.ops[2], << e.ops[1] >>, after)
         [] e.type = "for"    ->
              Loop(fs, e.ops[2], << e.ops[4], e.ops[3] >>, Eval(fs, e.ops[1], s).s)
         [] e.type = "return" -> ExecReturn(fs, e, s)
         [] OTHER             -> Eval(fs, e, s).s

\* What a program prints: its globals, its functions and a call of main.
Meaning(globals, fs) ==
  LET start == [store |-> << >>, env |-> << >>, next |-> 8, out |-> << >>,
                returned |-> FALSE, value |-> 0]
      main  == CHOOSE f \in Range(fs) : f.symbol.name = "main"
      scope == FoldLeft(Alloc, FoldLeft(Alloc, start, globals), main.locals)
  IN  Exec(fs, main.body, scope).out
=============================================================================
