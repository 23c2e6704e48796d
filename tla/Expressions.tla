----------------------------- MODULE Expressions ----------------------------
(***************************************************************************)
(* From the tokens of an expression to its tree (expr.py:                  *)
(* parse_expression_tokens), as the parser hands them over (parser.py:     *)
(* parse_expr_until).                                                      *)
(*                                                                         *)
(* A token is its text.  A tree is a node with the nodes below it, in      *)
(* order; a keyword argument of a call keeps its value only.  What is      *)
(* reported is kept as the set of the positions it is reported at.         *)
(***************************************************************************)
EXTENDS Loops, Sequences, FiniteSets

CONSTANTS
  Ident,   (* Identifiers.                                                 *)
  Literal, (* Literals, true and false among them.                         *)
  Levels   (* How deep a recursion the interpreter's stack holds.          *)

ASSUME LevelsAssumption == Levels \in Nat

Comparison == {"==", "!=", "<", "<=", ">", ">="}

EOF == "end of tokens"

(* The lexer tells names, literals and punctuation apart.                  *)
ASSUME TokensAssumption ==
  /\ Ident \intersect Literal = {}
  /\ {"(", ")", ".", EOF} \intersect (Ident \union Literal) = {}

Node(kind, tok, kids) == [kind |-> kind, tok |-> tok, kids |-> kids, kw |-> <<>>]

NoNode == Node("none", EOF, <<>>)

(* The operators of the documented grammar.                                *)
Documented == {"or", "and", "+", "-", "*", "/"} \union Comparison

-----------------------------------------------------------------------------
(* Walks over a tree.  Each is a recursion in the code, and a tree deeper  *)
(* than Levels makes it raise.                                             *)

(* The way from a tree to one below it: which kid is taken at each node.   *)
Path == Seq(Nat)

At(node, path) ==
  LET at[k \in 0 .. Len(path)] == IF k = 0 THEN node ELSE at[k - 1].kids[path[k]]
  IN  at[Len(path)]

(* The trees a walk gets to that goes from a tree to those Below(_) it.    *)
Reached(node, Below(_)) ==
  LET reached[k \in 0 .. Levels] ==
        IF k = 0 THEN {node}
        ELSE LET nearer == reached[k - 1] IN nearer \union UNION {Below(x) : x \in nearer}
  IN  reached[Levels]

(* The dotted name a Name or a chain of Attributes stands for, as the      *)
(* sequence of its parts; empty if the tree is no dotted name.             *)
Base(node, k) == At(node, [j \in 1 .. k |-> 1])

DottedName(node) ==
  LET IsAttribute(k) == Base(node, k).kind = "attribute"
      n == CHOOSE k \in 0 .. Levels : /\ \A j \in 0 .. k - 1 : IsAttribute(j)
                                      /\ k < Levels => ~ IsAttribute(k)
  IN  IF Base(node, n).kind = "name"
      THEN [i \in 1 .. n + 1 |-> Base(node, n + 1 - i).tok] ELSE <<>>

-----------------------------------------------------------------------------
(* The left binding power of a token.  The first variant is wrong: and     *)
(* binds no tighter than or.                                               *)
LbpFlat(t) ==
  CASE t \in {"or", "and"}  -> 10
    [] t \in Comparison     -> 30
    [] t \in {"+", "-"}     -> 40
    [] t \in {"*", "/"}     -> 50
    [] t \in {".", "("}     -> 80
    [] OTHER                -> 0

Lbp(t) ==
  CASE t = "or"             -> 10
    [] t = "and"            -> 20
    [] t \in Comparison     -> 30
    [] t \in {"+", "-"}     -> 40
    [] t \in {"*", "/"}     -> 50
    [] t \in {".", "("}     -> 80
    [] OTHER                -> 0

-----------------------------------------------------------------------------
(* A parse function returns what it made of the tokens: the tree, or       *)
(* NoNode, the position of the next token, and the positions reported.     *)
Made(node, at, errs) == [node |-> node, at |-> at, errs |-> errs]

Peek(s, i) == IF i <= Len(s) THEN s[i] ELSE EOF

(* The cursor does not move past the end.                                  *)
Next1(s, i) == IF i <= Len(s) THEN i + 1 ELSE i

Expected(s, tok, p) ==
  IF Peek(s, p.at) = tok THEN [p EXCEPT !.at = @ + 1]
                         ELSE [p EXCEPT !.errs = @ \union {p.at}]

-----------------------------------------------------------------------------
(* In what follows sub[<<i, bp>>] is what parse_expr(bp) makes of the      *)
(* tokens from position i on, called with one level less left.             *)

ParsePrimary(s, i, sub) ==
  LET t == Peek(s, i) IN
  CASE t \in Literal -> Made(Node("literal", t, <<>>), i + 1, {})
    [] t \in Ident   -> Made(Node("name", t, <<>>), i + 1, {})
    [] t = "("       -> Expected(s, ")", sub[<<i + 1, 0>>])
    [] OTHER         -> Made(NoNode, Next1(s, i), {i})

OfOperand(t, p) ==
  IF p.node = NoNode THEN p ELSE [p EXCEPT !.node = Node("unary", t, <<@>>)]

ParsePrefix(s, i, sub) ==
  IF Peek(s, i) \in {"not", "+", "-"} THEN OfOperand(Peek(s, i), sub[<<i + 1, 60>>])
                                      ELSE ParsePrimary(s, i, sub)

(* The arguments of a call from a position on, in the node c being built;  *)
(* one of them, named or not, has been parsed.                             *)
WithValue(c, named, v) ==
  LET node == IF v.node = NoNode THEN c.node
              ELSE IF named THEN [c.node EXCEPT !.kw = Append(@, v.node)]
                            ELSE [c.node EXCEPT !.kids = Append(@, v.node)]
  IN  Made(node, v.at, c.errs \union v.errs)

ParseArg(s, c, sub) ==
  LET named == Peek(s, c.at) \in Ident /\ Peek(s, c.at + 1) = "="
      d     == WithValue(c, named, sub[<<IF named THEN c.at + 2 ELSE c.at, 0>>])
  IN  IF Peek(s, d.at) = "," THEN Going([d EXCEPT !.at = @ + 1]) ELSE Stopped(d)

ParseArgs(s, c, sub) == Loop(LAMBDA x : ParseArg(s, x, sub), c, Len(s) + 1)

ParseCall(s, p, sub) ==
  LET call == Made(Node("call", Peek(s, p.at), <<p.node>>), p.at + 1, p.errs)
  IN  Expected(s, ")", IF Peek(s, call.at) = ")" THEN call ELSE ParseArgs(s, call, sub))

PostfixStep(s, p, sub) ==
  LET t    == Peek(s, p.at)
      attr == Peek(s, p.at + 1)
  IN  CASE t = "." /\ attr \in Ident ->
             Going(Made(Node("attribute", attr, <<p.node>>), p.at + 2, p.errs))
        [] t = "." /\ attr \notin Ident ->
             Stopped(Made(p.node, p.at + 1, p.errs \union {p.at + 1}))
        [] t = "(" -> Going(ParseCall(s, p, sub))
        [] OTHER   -> Stopped(p)

ParsePostfix(s, p, sub) == Loop(LAMBDA x : PostfixStep(s, x, sub), p, Len(s) + 1)

(* The loop of parse_expr.  A token without a binding power that begins no *)
(* operand is an operator like any other.  The loop ends with the tree it  *)
(* has where there is no right operand.                                    *)
Operated(t, p, r) ==
  Made(Node(IF t \in Comparison THEN "compare" ELSE "binary", t, <<p.node, r.node>>),
       r.at, p.errs \union r.errs)

ParseRight(s, p, r, sub) ==
  IF r.node = NoNode THEN Stopped(Made(p.node, r.at, p.errs \union r.errs))
  ELSE Going(ParsePostfix(s, Operated(Peek(s, p.at), p, r), sub))

InfixStep(s, p, bp, sub) ==
  LET t == Peek(s, p.at) IN
  IF t \in {EOF, ")", ","} \/ Lbp(t) < bp THEN Stopped(p)
  ELSE IF p.node.kind = "compare" /\ t \in Comparison
       THEN Stopped([p EXCEPT !.errs = @ \union {p.at}])
  ELSE ParseRight(s, p, sub[<<p.at + 1, Lbp(t) + 1>>], sub)

ParseInfix(s, p, bp, sub) == Loop(LAMBDA x : InfixStep(s, x, bp, sub), p, Len(s) + 1)

ParseFrom(s, p, bp, sub) ==
  IF p.node = NoNode THEN p ELSE ParseInfix(s, ParsePostfix(s, p, sub), bp, sub)

(* parse_expr.  Where no level is left it raises, which is reported here.  *)
ParseExpr(s, i, bp) ==
  LET parse[n \in 0 .. Levels] ==
        [c \in Nat \X Nat |->
           IF n = 0 THEN Made(NoNode, c[1], {c[1]})
           ELSE ParseFrom(s, ParsePrefix(s, c[1], parse[n - 1]), c[2], parse[n - 1])]
  IN  parse[Levels][<<i, bp>>]

(* No tokens give no tree, and no diagnostic of their own.                 *)
AllRead(s, p) ==
  IF p.node # NoNode /\ p.at <= Len(s) THEN [p EXCEPT !.errs = @ \union {p.at}] ELSE p

ParseTokens(s) ==
  IF s = <<>> THEN Made(NoNode, 1, {}) ELSE AllRead(s, ParseExpr(s, 1, 0))

-----------------------------------------------------------------------------
Count(s, tok, i) == Cardinality({j \in 1 .. i : s[j] = tok})

Unmatched(s) ==
  {i \in 1 .. Len(s) : s[i] = ")" /\ Count(s, ")", i) > Count(s, "(", i)}

(* parse_expr_until, on the tokens up to the one it stops at: it reports   *)
(* assignments and parentheses that do not pair, then parses the tokens.   *)
(* A parenthesis that is still open can be closed by a token to come.      *)
ParseUntil(s) ==
  LET p    == ParseTokens(s)
      n    == Len(s)
      open == IF Count(s, "(", n) = Count(s, ")", n) THEN {} ELSE {n + 1}
  IN  [p EXCEPT !.errs = @ \union open \union Unmatched(s)
                           \union {i \in 1 .. n : s[i] = "="}]
=============================================================================
