-------------------------- MODULE ExpressionGrammar -------------------------
(***************************************************************************)
(* The expressions of the language as a grammar, one level of precedence   *)
(* after the other (docs/dsl_v2.0.md 11.4.2): the trees a sequence of      *)
(* tokens derives.  The parser of Expressions is compared with it.         *)
(*                                                                         *)
(*   1 or    2 and    3 comparisons    4 + -    5 * /    6 unary           *)
(*   7 literals, names, parentheses, attributes and calls                  *)
(*                                                                         *)
(* An assignment derives nothing.  Two things are the code's own.  A       *)
(* comparison is not compared further, not even in parentheses on the      *)
(* left.  And level 0, which no document has: any other token between two  *)
(* operands counts as an operator that binds weaker than or.               *)
(***************************************************************************)
EXTENDS FrontEnd

Level(t) ==
  CASE t = "or"         -> 1
    [] t = "and"        -> 2
    [] t \in Comparison -> 3
    [] t \in {"+", "-"} -> 4
    [] t \in {"*", "/"} -> 5
    [] OTHER            -> 0

(* Tokens that cannot stand between operands.                              *)
Separators == {".", "(", ")", ",", "="}

Joined(l, t, r) ==
  Node(IF t \in Comparison THEN "compare" ELSE "binary", t, <<l, r>>)

RECURSIVE Derived(_, _), DerivedArgs(_, _)

(* The trees of an operator of the level: its left operand is of the same  *)
(* level, its right operand of the next one.                               *)
Operation(n, s) ==
  UNION {{Joined(l, s[i], r) :
            l \in {x \in Derived(IF n = 3 THEN 4 ELSE n, SubSeq(s, 1, i - 1)) :
                     n = 3 => x.kind # "compare"},
            r \in Derived(n + 1, SubSeq(s, i + 1, Len(s)))} :
         i \in {j \in 2 .. Len(s) - 1 : Level(s[j]) = n /\ s[j] \notin Separators}}

Unary(s) ==
  IF s # <<>> /\ s[1] \in {"not", "+", "-"}
  THEN {Node("unary", s[1], <<x>>) : x \in Derived(6, Tail(s))} ELSE {}

Primary(s) ==
  LET n == Len(s)
      Inner(i) == SubSeq(s, i, n - 1)
  IN  CASE n = 0 -> {}
        [] n = 1 -> IF s[1] \in Literal THEN {Node("literal", s[1], <<>>)}
                    ELSE IF s[1] \in Ident THEN {Node("name", s[1], <<>>)} ELSE {}
        [] n > 1 ->
             (IF s[1] = "(" /\ s[n] = ")" THEN Derived(0, Inner(2)) ELSE {})
             \union
             (IF s[n] \in Ident /\ s[n - 1] = "."
              THEN {Node("attribute", s[n], <<x>>) :
                      x \in Derived(7, SubSeq(s, 1, n - 2))} ELSE {})
             \union
             (IF s[n] # ")" THEN {} ELSE
              UNION {{[c EXCEPT !.kids = <<f>> \o @] :
                        f \in Derived(7, SubSeq(s, 1, i - 1)),
                        c \in IF i = n - 1 THEN {Node("call", "(", <<>>)}
                              ELSE DerivedArgs(Node("call", "(", <<>>), Inner(i + 1))} :
                     i \in {j \in 2 .. n - 1 : s[j] = "("}})

Derived(n, s) ==
  CASE n < 6 -> Derived(n + 1, s) \union Operation(n, s)
    [] n = 6 -> Derived(7, s) \union Unary(s)
    [] n = 7 -> Primary(s)

(* A call with the arguments a sequence of tokens derives.                 *)
DerivedArgs(c, s) ==
  LET with(x) == {[c EXCEPT !.kids = Append(@, a)] : a \in Derived(0, x)}
  IN  with(s) \union
      UNION {UNION {DerivedArgs(d, SubSeq(s, i + 1, Len(s))) :
                      d \in with(SubSeq(s, 1, i - 1))} :
             i \in {j \in 2 .. Len(s) - 1 : s[j] = ","}}

Trees(s) == Derived(0, s)
-----------------------------------------------------------------------------
(* The parser makes of an expression the one tree the grammar derives, and *)
(* reports an expression of which the grammar derives none                 *)
(* (expr.py: the binding powers, the loop of parse_expr, the checks after  *)
(* it).                                                                    *)
ParsesAsGrammar ==
  task.kind = "condition" =>
    Trees(text) = IF parsed.errs = {} /\ text # <<>> THEN {parsed.node} ELSE {}
=============================================================================
