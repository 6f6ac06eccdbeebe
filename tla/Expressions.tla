---------------------------- MODULE Expressions ----------------------------
(***************************************************************************)
(* parser.c: the recursive descent through the levels of expressions, with *)
(* the flags of "parse_expr": names and types are not looked at.           *)
(*                                                                         *)
(* A parse_ function is an operator of the tokens and the place the parser *)
(* has come to; it returns the tree and the place behind it, or no tree.   *)
(* A node is its type with its operands.                                   *)
(***************************************************************************)
EXTENDS Integers, Sequences, SequencesExt, FiniteSetsExt

CONSTANT Texts            \* the token strings a file may hold

VARIABLES text, parsed    \* the file's tokens; what parser_parse_expr returns

vars == << text, parsed >>

TokenAt(t, at) == IF at <= Len(t) THEN t[at] ELSE "EOS"

Node(type, ops) == [type |-> type, ops |-> ops]
Leaf(token)     == Node(token, << >>)
Result(node, at) == [ok |-> TRUE, node |-> node, at |-> at]
Failure          == [ok |-> FALSE, node |-> Leaf("none"), at |-> 0]

\* A slip: two levels are taken for each other.
BinaryTokensSwapped ==
  << {"||"}, {"&&"}, {"|"}, {"&"}, {"^"}, {"==", "!="}, {"<", "<=", ">", ">="},
     {"<<", ">>"}, {"+", "-"}, {"*", "/", "%"} >>

\* accept_expr_token: what joins the operands of a level, from 1 to 10; 0 is the comma's.
BinaryTokens ==
  << {"||"}, {"&&"}, {"|"}, {"^"}, {"&"}, {"==", "!="}, {"<", "<=", ">", ">="},
     {"<<", ">>"}, {"+", "-"}, {"*", "/", "%"} >>

LevelTokens(level) == IF level = 0 THEN {","} ELSE BinaryTokens[level]
UnaryTokens  == {"&", "*", "+", "-", "~", "!"}
IncTokens    == {"++", "--"}
AssignTokens == {"=", "+=", "-=", "*=", "/=", "%=", "<<=", ">>=", "|=", "&=", "^="}
Atoms        == {"ident", "int", "float", "string"}

RECURSIVE ParseExpr(_, _, _), ParseAssign(_, _), ParseUnary(_, _)
RECURSIVE JoinMore(_, _, _), TernaryMore(_, _), PostfixMore(_, _), Arguments(_, _, _)

\* parse_expr_subnode
ParseSubnode(t, at, level) ==
  CASE level = 0  -> ParseAssign(t, at)
    [] level = 10 -> ParseUnary(t, at)
    [] OTHER      -> ParseExpr(t, at, level + 1)

\* The loop of parse_expr: "left" is what has been joined.
JoinMore(t, left, level) ==
  IF ~ left.ok \/ TokenAt(t, left.at) \notin LevelTokens(level) THEN left
  ELSE LET right == ParseSubnode(t, left.at + 1, level) IN
       IF ~ right.ok THEN Failure
       ELSE JoinMore(t, Result(Node(t[left.at], << left.node, right.node >>), right.at), level)

ParseExpr(t, at, level) == JoinMore(t, ParseSubnode(t, at, level), level)

\* The loop of parse_cond_expr.
TernaryMore(t, cond) ==
  IF ~ cond.ok \/ TokenAt(t, cond.at) # "?" THEN cond
  ELSE LET second == ParseExpr(t, cond.at + 1, 0) IN
       IF ~ second.ok \/ TokenAt(t, second.at) # ":" THEN Failure
       ELSE LET third == ParseExpr(t, second.at + 1, 1) IN
            IF ~ third.ok THEN Failure
            ELSE TernaryMore(t, Result(Node("?:", << cond.node, second.node, third.node >>), third.at))

ParseCond(t, at) == TernaryMore(t, ParseExpr(t, at, 1))

ParseAssign(t, at) ==
  LET left == ParseCond(t, at) IN
  IF ~ left.ok \/ TokenAt(t, left.at) \notin AssignTokens THEN left
  ELSE LET right == ParseAssign(t, left.at + 1) IN
       IF ~ right.ok THEN Failure
       ELSE Result(Node(t[left.at], << left.node, right.node >>), right.at)

\* parse_primary_expr; a type behind the parenthesis, and so a cast, is not among the tokens.
ParsePrimary(t, at) ==
  IF TokenAt(t, at) \in Atoms THEN Result(Leaf(t[at]), at + 1)
  ELSE IF TokenAt(t, at) = "("
  THEN LET inner == ParseExpr(t, at + 1, 0) IN
       IF inner.ok /\ TokenAt(t, inner.at) = ")" THEN Result(inner.node, inner.at + 1) ELSE Failure
  ELSE Failure

\* The arguments of a call, up to the parenthesis: the list so far, and the next.
Arguments(t, at, list) ==
  LET next == ParseAssign(t, at)
      longer == Append(list, next.node)
  IN IF ~ next.ok THEN Failure
     ELSE IF TokenAt(t, next.at) = "," THEN Arguments(t, next.at + 1, longer)
     ELSE Result(Node("list", longer), next.at)

\* The loop of parse_postfix_expr.
PostfixMore(t, left) ==
  LET token == TokenAt(t, left.at)
      inside ==
        CASE token = "(" /\ TokenAt(t, left.at + 1) = ")" -> Result(Node("list", << >>), left.at + 1)
          [] token = "(" /\ TokenAt(t, left.at + 1) # ")" -> Arguments(t, left.at + 1, << >>)
          [] OTHER -> ParseExpr(t, left.at + 1, 0)
  IN IF ~ left.ok THEN left
     ELSE IF token \in IncTokens
     THEN PostfixMore(t, Result(Node("postfix" \o token, << left.node >>), left.at + 1))
     ELSE IF token \in {".", "->"}
     THEN IF TokenAt(t, left.at + 1) # "ident" THEN Failure
          ELSE PostfixMore(t, Result(Node(token, << left.node, Leaf("ident") >>), left.at + 2))
     ELSE IF token \in {"(", "["}
     THEN IF ~ inside.ok \/ TokenAt(t, inside.at) # (IF token = "(" THEN ")" ELSE "]") THEN Failure
          ELSE PostfixMore(t, Result(Node(token, << left.node, inside.node >>), inside.at + 1))
     ELSE left

ParsePostfix(t, at) == PostfixMore(t, ParsePrimary(t, at))

\* parse_unary_expr; parse_cast_expr is the same.
ParseUnary(t, at) ==
  IF TokenAt(t, at) \in UnaryTokens \cup IncTokens
  THEN LET operand == ParseUnary(t, at + 1) IN
       IF ~ operand.ok THEN Failure
       ELSE Result(Node("unary" \o t[at], << operand.node >>), operand.at)
  ELSE ParsePostfix(t, at)

\* A slip: what follows the expression is left alone.
SafeParsingUnended(t) == ParseExpr(t, 1, 0)

\* safe_parsing(parse_expr(0))
SafeParsing(t) ==
  LET r == ParseExpr(t, 1, 0) IN IF r.ok /\ TokenAt(t, r.at) # "EOS" THEN Failure ELSE r

Init == text \in Texts /\ parsed = Result(Leaf("none"), 0)
Parse == parsed.at = 0 /\ parsed.ok /\ parsed' = SafeParsing(text) /\ UNCHANGED text
Next == Parse

Spec == Init /\ [][Next]_vars

----------------------------------------------------------------------------
(* grammar.txt: the trees the tokens have under a symbol of the grammar.  A *)
(* rule X (op X)* reads its operands from the left.  "target" is what may   *)
(* stand on the left of an assignment.                                      *)

Symbols == << "logical_or", "logical_and", "inclusive_or", "exclusive_or", "and", "equality",
              "relational", "shift", "additive", "multiplicative", "cast" >>
Operators == << {"||"}, {"&&"}, {"|"}, {"^"}, {"&"}, {"==", "!="}, {"<", ">", "<=", ">="},
                {"<<", ">>"}, {"+", "-"}, {"*", "/", "%"} >>
LevelOf(symbol) == CHOOSE n \in DOMAIN Symbols : Symbols[n] = symbol

RECURSIVE Trees(_, _, _)

Before(t, i) == SubSeq(t, 1, i - 1)
Behind(t, i) == SubSeq(t, i + 1, Len(t))

Joined(target, left, tokens, right, t) ==
  UNION {{Node(t[i], << l, r >>) : l \in Trees(target, left, Before(t, i)),
                                   r \in Trees(target, right, Behind(t, i))} :
         i \in {k \in DOMAIN t : t[k] \in tokens}}

Ternaries(target, t) ==
  UNION {{Node("?:", << c, a, b >>) : c \in Trees(target, "logical_or", Before(t, i)),
                                     a \in Trees(target, "expression", SubSeq(t, i + 1, j - 1)),
                                     b \in Trees(target, "conditional", Behind(t, j))} :
         << i, j >> \in {p \in (DOMAIN t) \X (DOMAIN t) :
                             p[1] < p[2] /\ t[p[1]] = "?" /\ t[p[2]] = ":"}}

Enclosed(target, symbol, t, i) == Trees(target, symbol, SubSeq(t, i + 1, Len(t) - 1))

Postfixes(target, t) ==
  LET last == t[Len(t)]
      of(i) == Trees(target, "postfix", Before(t, i))
      opened(by) == {i \in 2 .. Len(t) - 1 : t[i] = by}
  IN IF Len(t) < 2 THEN {}
     ELSE IF last \in IncTokens THEN {Node("postfix" \o last, << p >>) : p \in of(Len(t))}
     ELSE IF last = "ident" /\ t[Len(t) - 1] \in {".", "->"}
     THEN {Node(t[Len(t) - 1], << p, Leaf("ident") >>) : p \in of(Len(t) - 1)}
     ELSE IF last = "]"
     THEN UNION {{Node("[", << p, e >>) : p \in of(i), e \in Enclosed(target, "expression", t, i)} :
                 i \in opened("[")}
     ELSE IF last = ")"
     THEN UNION {{Node("(", << p, e >>) : p \in of(i), e \in Enclosed(target, "arguments", t, i)} :
                 i \in opened("(")}
     ELSE {}

Trees(target, symbol, t) ==
  CASE symbol = "expression" ->
         Trees(target, "assignment", t) \cup Joined(target, "expression", {","}, "assignment", t)
    [] symbol = "assignment" ->
         Trees(target, "conditional", t) \cup Joined(target, target, AssignTokens, "assignment", t)
    [] symbol = "conditional" -> Trees(target, "logical_or", t) \cup Ternaries(target, t)
    [] symbol = "cast" -> Trees(target, "unary", t)
    [] symbol = "unary" ->
         Trees(target, "postfix", t) \cup
         IF Len(t) > 1 /\ t[1] \in UnaryTokens \cup IncTokens
         THEN {Node("unary" \o t[1], << e >>) :
                 e \in Trees(target, IF t[1] \in IncTokens THEN "unary" ELSE "cast", Tail(t))}
         ELSE {}
    [] symbol = "postfix" -> Trees(target, "primary", t) \cup Postfixes(target, t)
    [] symbol = "primary" ->
         IF Len(t) = 1 THEN {Leaf(a) : a \in {t[1]} \cap Atoms}
         ELSE IF Len(t) > 2 /\ t[1] = "(" /\ t[Len(t)] = ")" THEN Enclosed(target, "expression", t, 1)
         ELSE {}
    [] symbol = "arguments" ->
         IF t = << >> THEN {Node("list", << >>)}
         ELSE {Node("list", << e >>) : e \in Trees(target, "assignment", t)} \cup
              UNION {{Node("list", Append(l.ops, e)) :
                        l \in Trees(target, "arguments", Before(t, i)) \ {Node("list", << >>)},
                        e \in Trees(target, "assignment", Behind(t, i))} :
                     i \in {k \in DOMAIN t : t[k] = ","}}
    [] OTHER ->
         LET n == LevelOf(symbol) IN
         Trees(target, Symbols[n + 1], t) \cup
         Joined(target, symbol, Operators[n], Symbols[n + 1], t)

Grammar == Trees("unary", "expression", text)

Done == ~ parsed.ok \/ parsed.at # 0

RECURSIVE NestsTernary(_)
NestsTernary(node) ==
  \/ node.type = "?:" /\ node.ops[3].type = "?:"
  \/ \E i \in DOMAIN node.ops : NestsTernary(node.ops[i])

\* Every expression of the grammar is accepted, and with the tree the grammar gives it, however
\* far apart the levels are that meet (but for a ?: behind the colon of another, which the code
\* reads from the left).
GrammarIsParsed ==
  Done => \A tree \in Grammar : parsed.ok /\ (parsed.node = tree \/ NestsTernary(tree))

\* Nothing else is accepted, but assignments to what the grammar does not let stand on their left.
OnlyGrammarIsParsed == Done /\ parsed.ok => Trees("conditional", "expression", text) # {}
=============================================================================
