------------------------------ MODULE VerbCalls -----------------------------
(***************************************************************************)
(* The verb call of a then line: its parsing (parser.py: parse_verb_call), *)
(* what validate says of its arguments (typechecker.py:                    *)
(* typecheck_verb_call), and the arguments the evaluator computes and      *)
(* checks when the action runs (evaluator.py).                             *)
(***************************************************************************)
EXTENDS ExpressionValues

(* A call being parsed: its verb, its arguments so far (a name and a tree  *)
(* each), the next token, and the positions reported.                      *)
Called(verb, args, at, errs) ==
  [verb |-> verb, args |-> args, at |-> at, errs |-> errs]

Least(S) == CHOOSE i \in S : \A j \in S : i <= j

(* Where the expression of an argument ends: at the first comma or closing *)
(* parenthesis, even one inside the expression.                            *)
StopAt(s, i) ==
  Least({j \in i .. Len(s) : s[j] \in {",", ")"}} \union {Len(s) + 1})

(* A call with one argument more, whose expression stands from a position  *)
(* on up to the one where it stops.                                        *)
WithArg(c, name, at, stop, value) ==
  [c EXCEPT !.args = Append(@, [name |-> name, node |-> value.node]),
            !.at   = stop,
            !.errs = @ \union {at - 1 + e : e \in value.errs}]

(* The argument whose expression stands from c.at on.                      *)
ParseVerbArg(s, c, name) ==
  LET stop == StopAt(s, c.at)
  IN  WithArg(c, name, c.at, stop, ParseUntil(SubSeq(s, c.at, stop - 1)))

VerbArgsStep(s, c) ==
  LET d == ParseVerbArg(s, Expected(s, "=", [c EXCEPT !.at = @ + 1]), Peek(s, c.at))
  IN  IF Peek(s, c.at) \notin Ident THEN Stopped([c EXCEPT !.errs = @ \union {c.at}])
      ELSE IF Peek(s, d.at) = "," THEN Going([d EXCEPT !.at = @ + 1])
      ELSE Stopped(d)

ParseVerbArgs(s, c) == Loop(LAMBDA x : VerbArgsStep(s, x), c, Len(s) + 1)

(* The tokens after then, up to the end of the line.                       *)
Arglist(s, c) == IF Peek(s, c.at) = ")" THEN c ELSE ParseVerbArgs(s, c)

ParseVerbCall(s) ==
  IF Peek(s, 1) \notin Ident THEN Called(EOF, <<>>, 1, {1})
  ELSE LET open == Expected(s, "(", Called(s[1], <<>>, 2, {}))
       IN  Expected(s, EOF, Expected(s, ")", Arglist(s, open)))

-----------------------------------------------------------------------------
(* Where an argument is given more than once only the last one is checked, *)
(* and only its value is used.                                             *)
LastNamed(c, name) ==
  LET at == {i \in DOMAIN c.args : c.args[i].name = name}
  IN  CHOOSE i \in at : \A j \in at : j <= i

Given(c) == {c.args[i].name : i \in DOMAIN c.args}

ArgOK(c, name, env) ==
  LET t == Infer(c.args[LastNamed(c, name)].node, env)
  IN  t.ok /\ Matches(VerbArgs(c.verb)[name], t.type)

CallTypeOK(c, context) ==
  /\ c.verb \in Verbs
  /\ Required(c.verb) \subseteq Given(c)
  /\ Given(c) \subseteq DOMAIN VerbArgs(c.verb)
  /\ \A name \in Given(c) : ArgOK(c, name, EnvTypes(context))

CallLintOK(c) == \A i \in DOMAIN c.args : LintOK(c.args[i].node)

-----------------------------------------------------------------------------
(* The arguments of the action: every one is evaluated, in the order they  *)
(* stand, then the last of each name is checked against what the verb's    *)
(* decision takes: a string or a number.                                   *)
SortOf(type) == IF type = "String" THEN "str" ELSE "num"

Checked(c, value) ==
  LET raised == {i \in DOMAIN c.args : value[i].sort = "raise"}
      sorts == VerbArgs(c.verb)
      wrong == {name \in DOMAIN sorts :
                  IF name \in Given(c)
                  THEN value[LastNamed(c, name)].sort # SortOf(sorts[name])
                  ELSE name \in Required(c.verb)}
      unknown == {name \in wrong \intersect Given(c) :
                    value[LastNamed(c, name)].sort = "unknown"}
  IN  CASE raised # {} -> value[Least(raised)]
        [] raised = {} /\ wrong = {} -> Bool(TRUE)
        [] raised = {} /\ wrong # {} /\ wrong = unknown -> Raise("unknown")
        [] raised = {} /\ wrong # {} /\ wrong # unknown -> Raise("argument")

Arguments(c, ev) == Checked(c, [i \in DOMAIN c.args |-> Eval(c.args[i].node, ev)])
=============================================================================
