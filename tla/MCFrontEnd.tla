----------------------------- MODULE MCFrontEnd -----------------------------
(***************************************************************************)
(* Small instances of FrontEnd: a file, verb calls, and conditions from    *)
(* several vocabularies, each over a handful of events of its context.     *)
(***************************************************************************)
EXTENDS ExpressionGrammar, TLC

MCIdent ==
  {"bar", "close", "high", "data", "is_fresh", "time", "option", "type", "bid",
   "chain", "has_unknowns", "pcr_oi", "oi_change", "underlying", "return_5m",
   "kind", "strength", "quantity", "reason", "nosuch"}
  \union FunctionNames \union Verbs

MCLiteralType ==
  [t \in {"true", "false"} |-> "Bool"] @@ [t \in {"\"A\"", "\"CALL\""} |-> "String"]
  @@ [t \in {"0", "1", "2"} |-> "IntLiteral"] @@ ("1.5" :> "DecimalLiteral")
  @@ ("2%" :> "PercentLiteral")

MCLiteralValue ==
  ("true" :> Bool(TRUE)) @@ ("false" :> Bool(FALSE))
  @@ ("\"A\"" :> Str("A")) @@ ("\"CALL\"" :> Str("CALL"))
  @@ ("0" :> Num(0, 1)) @@ ("1" :> Num(1, 1)) @@ ("2" :> Num(2, 1))
  @@ ("1.5" :> Num(3, 2)) @@ ("2%" :> Num(2, 100))

MCLiteral == DOMAIN MCLiteralType

MCNumberOfString == [s \in {} |-> Num(0, 1)]

-----------------------------------------------------------------------------
(* Words.                                                                  *)
W(t) == <<t>>
Field(base, attr) == <<base, ".", attr>>
Fn(f) == <<f, "(">>
Arg(name) == <<name, "=">>

Condition(context, words, max) ==
  [kind |-> "condition", context |-> context, words |-> words,
   indents |-> {}, max |-> max]

(* The operators of the grammar, one of each kind, then its calls and      *)
(* attributes.                                                             *)
Operators ==
  Condition("underlying",
            {W(t) : t \in {"close", "not", "-", "*", "<", "and", "or", "(", ")"}}, 6)

Primaries ==
  Condition("underlying",
            {W(t) : t \in {"close", "-", "=", "(", ")", ",", "."}}, 6)

(* Every type of the language; then fewer of them in longer conditions.    *)
Types ==
  Condition("underlying",
            {Field("data", "is_fresh"), W("close"), Field("bar", "time"),
             Field("underlying", "return_5m"), W("1"), W("1.5"), W("2%"), W("\"A\""),
             W("nosuch"), W("abs"), W("not"), W("-"), W("+"), W("/"), W("=="), W("and")}, 4)

Arithmetic ==
  Condition("underlying",
            {Field("data", "is_fresh"), W("close"), Field("underlying", "return_5m"),
             W("1"), W("-"), W("/"), W(">"), W("or")}, 5)

(* Calls, with windows of several lengths.                                 *)
Calls ==
  Condition("underlying",
            {Fn("abs"), Fn("highest"), Fn("prior_high"), Fn("vwap"), W("close"),
             W("0"), W("-"), <<",", "2", ")">>, W(")"), <<">", "1">>}, 5)

(* Whole calls of the indicators, two in one condition.                    *)
IndicatorPairs ==
  LET series == {<<"close">>, <<"high">>, <<"bar", ".", "high">>}
      smooth == {<<f, "(">> \o x \o <<",", n, ")">> :
                   f \in {"ema", "rsi"}, x \in series, n \in {"1", "2"}}
      ranges == {<<f, "(", n, ")">> : f \in {"atr", "vwap"}, n \in {"1", "2"}}
  IN  Condition("underlying", smooth \union ranges \union {<<"vwap", "(", ")">>, W(">")}, 3)

Options ==
  Condition("option",
            {Field("option", "bid"), Field("option", "type"), W("\"CALL\""), W("1"),
             Field("data", "is_fresh"), <<"vwap", "(", ")">>,
             W("=="), W("/"), W("or"), W("not")}, 5)

Chains ==
  Condition("chain",
            {Field("chain", "pcr_oi"), Field("chain", "oi_change"),
             <<"abs", "(", "chain", ".", "pcr_oi", ")">>,
             Field("chain", "is_fresh"), <<">", "1">>, <<"/", "0">>, W("true"),
             W("and"), W("or"), W("not")}, 5)

(* The name of a quality field, with parentheses in it and around it.      *)
Enclosed ==
  Condition("chain",
            {W("("), W(")"), W("chain"), <<".", "is_fresh">>, W("or"),
             <<"chain", ".", "pcr_oi", ">", "1">>}, 6)

VerbCall ==
  [kind |-> "call", context |-> "underlying",
   words |-> {Fn("emit_signal"), Arg("kind"), <<",", "strength", "=">>,
              <<"constrain_max_position", "(", "quantity", "=">>, W("\"A\""), W("1"),
              Field("data", "is_fresh"), W("-"), W(")")},
   indents |-> {}, max |-> 7]

File ==
  [kind |-> "file", context |-> "underlying", words |-> {}, indents |-> 0 .. 3, max |-> 8]

MCTasks == {Operators, Primaries, Types, Arithmetic, Calls, IndicatorPairs, Options,
            Chains, Enclosed, VerbCall, File}

-----------------------------------------------------------------------------
(* Events.                                                                 *)
Bar(c, h, v) ==
  [open |-> Num(1, 1), high |-> Num(h, 1), low |-> Num(1, 1), close |-> Num(c, 1),
   volume |-> Num(v, 1)]

Underlying(bars, optional) ==
  [context |-> "underlying", bars |-> bars, optional |-> optional,
   fresh |-> TRUE, regular |-> FALSE]

NoFields == [n \in {} |-> UnknownV]

Option(optional) ==
  [context |-> "option", optional |-> optional, fresh |-> TRUE, regular |-> TRUE]

(* A metric is only known on a complete, fresh and unflagged snapshot      *)
(* without unknowns.                                                       *)
Chain(fresh, complete, unknowns, pcr, oi) ==
  [context |-> "chain", fresh |-> fresh, complete |-> complete, flagged |-> FALSE,
   unknowns |-> unknowns,
   metrics |-> [m \in {"pcr_volume", "oi_change_puts", "oi_change_calls", "iv_skew"} |->
                  UnknownV] @@ ("pcr_oi" :> pcr) @@ ("oi_change" :> oi)]

MCEvents ==
  {Underlying(<<Bar(1, 2, 0)>>, NoFields),
   Underlying(<<Bar(2, 4, 0), Bar(1, 1, 3), Bar(3, 3, 1)>>, NoFields),
   Underlying(<<Bar(2, 3, 2), Bar(1, 1, 0)>>, <<"underlying", "return_5m">> :> Num(2, 100)),
   Option(NoFields),
   Option(<<"option", "bid">> :> Num(0, 1)),
   Chain(TRUE, TRUE, FALSE, Num(1, 1), UnknownV),
   Chain(TRUE, TRUE, FALSE, UnknownV, Num(2, 1)),
   Chain(TRUE, FALSE, TRUE, UnknownV, UnknownV),
   Chain(FALSE, TRUE, FALSE, UnknownV, UnknownV)}

MCMetricValues == {Num(0, 1), Num(1, 1), Num(2, 1)}
=============================================================================
