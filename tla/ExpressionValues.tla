-------------------------- MODULE ExpressionValues --------------------------
(***************************************************************************)
(* What an expression evaluates to at an event (evaluator.py:              *)
(* _runtime_env, _eval_value, _eval_call and their helpers), and the       *)
(* arguments a verb is called with.                                        *)
(*                                                                         *)
(* A number is a fraction; the 28 digits a Decimal is rounded to are left  *)
(* out.                                                                    *)
(***************************************************************************)
EXTENDS ExpressionTypes, Indicators

CONSTANTS
  LiteralValue,    (* The value of a literal: [Literal -> Value]           *)
  NumberOfString   (* The number of each string that reads as one.         *)

-----------------------------------------------------------------------------
(* Values, and the exceptions that take their place.                       *)

Bool(b)    == [sort |-> "bool", is |-> b]
Str(s)     == [sort |-> "str", is |-> s]
Date(d)    == [sort |-> "date", is |-> d]
UnknownV   == [sort |-> "unknown", is |-> "UNKNOWN"]
Raise(why) == [sort |-> "raise", is |-> why]
Number     == [sort: {"num"}, is: Int \X (Nat \ {0})]

ValueOfLiteral(type) ==
  CASE type = "Bool"       -> {Bool(b) : b \in BOOLEAN}
    [] type = "String"     -> [sort: {"str"}, is: STRING]
    [] type = "IntLiteral" -> [sort: {"num"}, is: Nat \X {1}]
    [] OTHER               -> Number

ASSUME LiteralValueAssumption ==
  \A t \in Literal : LiteralValue[t] \in ValueOfLiteral(LiteralType[t])

ASSUME NumberOfStringAssumption ==
  \A s \in DOMAIN NumberOfString : NumberOfString[s] \in Number

IsTrue(v)  == v.sort = "bool" /\ v.is
IsFalse(v) == v.sort = "bool" /\ ~ v.is

(* _as_decimal.  A bool is an int; a string may be a number.               *)
AsDecimal(v) ==
  CASE v.sort \in {"num", "raise"} -> v
    [] v.sort = "bool"             -> Num(IF v.is THEN 1 ELSE 0, 1)
    [] v.sort = "str" /\ v.is \in DOMAIN NumberOfString -> NumberOfString[v.is]
    [] v.sort = "str" /\ v.is \notin DOMAIN NumberOfString -> Raise("InvalidOperation")
    [] OTHER                       -> Raise("type")

(* The first exception among values in the order they are computed, or the *)
(* result if there is none.                                                *)
Unless(x, y, result) ==
  IF x.sort = "raise" THEN x ELSE IF y.sort = "raise" THEN y ELSE result

(* int() of a number, which cuts the fraction off; only lengths that come  *)
(* out positive are used.                                                  *)
Truncated(x) == x.is[1] \div x.is[2]

-----------------------------------------------------------------------------
(* _runtime_env: the fields present at an event, with their values.  An    *)
(* underlying's event carries the bars up to it, the last one its own; the *)
(* optional fields of an event are those it has a value for.  The metrics  *)
(* of a chain snapshot are inputs, each a number or Unknown.               *)

BarFields == {"open", "high", "low", "close", "volume"}

Metrics == {"pcr_oi", "pcr_volume", "oi_change", "oi_change_puts", "oi_change_calls",
            "iv_skew"}

HasSome(f, names) == \E some \in SUBSET names : f \in [some -> Number]

IsUnderlyingEvent(ev) ==
  /\ ev.context = "underlying"
  /\ ev \in [context: {"underlying"}, bars: Seq([BarFields -> Number]) \ {<<>>},
            optional: {ev.optional}, fresh: BOOLEAN, regular: BOOLEAN]
  /\ HasSome(ev.optional, {<<"underlying", "return_5m">>})

IsOptionEvent(ev) ==
  /\ ev.context = "option"
  /\ ev \in [context: {"option"}, optional: {ev.optional}, fresh: BOOLEAN,
            regular: BOOLEAN]
  /\ HasSome(ev.optional,
             {<<"underlying", "return_5m">>}
             \union Within("option", {"bid", "ask", "last", "close", "iv", "delta",
                                      "gamma", "theta", "vega"}))

IsChainEvent(ev) ==
  ev \in [context: {"chain"}, fresh: BOOLEAN, complete: BOOLEAN, flagged: BOOLEAN,
         unknowns: BOOLEAN, metrics: [Metrics -> Number \union {UnknownV}]]

IsEvent(ev) == IsUnderlyingEvent(ev) \/ IsOptionEvent(ev) \/ IsChainEvent(ev)

Guards(ev) ==
  Of(Bool(ev.fresh), {<<"data", "is_fresh">>})
  ++ Of(Bool(ev.regular), {<<"session", "is_regular">>})

RuntimeEnv(ev) ==
  CASE ev.context = "underlying" ->
         LET bar == ev.bars[Len(ev.bars)] IN
         [n \in {<<f>> : f \in BarFields} \union Within("bar", BarFields) |->
            bar[n[Len(n)]]]
         ++ Of(Str("a timestamp"), {<<"bar", "time">>}) ++ Guards(ev) ++ ev.optional
    [] ev.context = "option" ->
         Of(Str("an id"), {<<"option", "contract_id">>})
         ++ Of(Num(2, 1), {<<"option", "strike">>})
         ++ Of(Date("a date"), {<<"option", "expiry">>})
         ++ Of(Str("CALL"), {<<"option", "type">>})
         ++ Of(Num(1, 1), {<<"option", "lot">>})
         ++ Guards(ev) ++ ev.optional
    [] ev.context = "chain" ->
         Of(Str("a timestamp"), Within("chain", {"as_of", "time"}))
         ++ Of(Bool(ev.fresh /\ ~ ev.flagged), {<<"chain", "is_fresh">>})
         ++ Of(Bool(ev.complete), {<<"chain", "is_complete">>})
         ++ Of(Bool(ev.unknowns), {<<"chain", "has_unknowns">>})
         ++ Of(Bool(ev.complete /\ ev.fresh /\ ~ ev.flagged), {<<"chain", "quality_ok">>})
         ++ [n \in Within("chain", DOMAIN ev.metrics) |-> ev.metrics[n[2]]]

-----------------------------------------------------------------------------
(* _eval_value                                                             *)

EvalUnary(op, v) ==
  CASE v.sort \in {"raise", "unknown"}                       -> v
    [] v.sort = "bool" /\ op = "not"                         -> Bool(~ v.is)
    [] v.sort \notin {"raise", "unknown", "bool"} /\ op = "not" -> Raise("type")
    [] v.sort \notin {"raise", "unknown"} /\ op # "not"      ->
         LET d == AsDecimal(v)
         IN  IF d.sort = "raise" \/ op = "+" THEN d ELSE Minus(d)

Truth(v) == IF v.sort \in {"raise", "bool", "unknown"} THEN v ELSE Raise("type")

(* and and or, with the value that decides them; the right operand is not  *)
(* looked at once the left one has decided.  The first variant is wrong:   *)
(* an Unknown that is not decided by the other operand is dropped.         *)
EvalBooleanDrop(decides, left, right) ==
  LET l == Truth(left)
      r == Truth(right)
  IN  CASE l.sort = "raise" -> l
        [] l.sort = "bool" /\ l.is = decides -> l
        [] OTHER -> r

EvalBoolean(decides, left, right) ==
  LET l == Truth(left)
      r == Truth(right)
  IN  CASE l.sort = "raise" -> l
        [] l.sort = "bool" /\ l.is = decides -> l
        [] l.sort = "unknown" /\ r.sort = "bool" /\ r.is # decides -> UnknownV
        [] l.sort = "unknown" /\ ~ (r.sort = "bool" /\ r.is # decides) -> r
        [] l.sort = "bool" /\ l.is # decides -> r

EvalArithmetic(op, l, r) ==
  LET x == AsDecimal(l)
      y == AsDecimal(r)
      by == IF op = "/" /\ y.is[1] = 0 THEN Raise("DivisionByZero")
            ELSE Over(x, y)
      operation == CASE op = "+" -> Plus(x, y)
                     [] op = "-" -> Plus(x, Minus(y))
                     [] op = "*" -> Times(x, y)
                     [] op = "/" -> by
                     [] OTHER    -> Raise("operator")
  IN  IF "raise" \in {l.sort, r.sort} THEN Unless(l, r, l)
      ELSE IF "unknown" \in {l.sort, r.sort} THEN UnknownV
      ELSE Unless(x, y, operation)

(* Strings are compared as numbers, too: the comparison of strings the     *)
(* code has (_cmp_str) is never reached.                                   *)
EvalCompare(op, l, r) ==
  LET x == AsDecimal(l)
      y == AsDecimal(r)
      holds == CASE op = "==" -> Same(x, y)
                 [] op = "!=" -> ~ Same(x, y)
                 [] op = "<"  -> Below(x, y)
                 [] op = "<=" -> ~ Below(y, x)
                 [] op = ">"  -> Below(y, x)
                 [] op = ">=" -> ~ Below(x, y)
  IN  IF "raise" \in {l.sort, r.sort} THEN Unless(l, r, l)
      ELSE IF "unknown" \in {l.sort, r.sort} THEN UnknownV
      ELSE IF "bool" \in {l.sort, r.sort} THEN Raise("type")
      ELSE IF "raise" \in {x.sort, y.sort} THEN Unless(x, y, x)
      ELSE IF op \in Comparison THEN Bool(holds) ELSE Raise("operator")

(* The field of a bar a series name stands for, with or without bar.       *)
SeriesField(dn) ==
  IF Len(dn) = 2 /\ dn[1] = "bar" THEN dn[2] ELSE IF Len(dn) = 1 THEN dn[1] ELSE "none"

InWindow(bars, n, field) == {b[field] : b \in {LastOf(bars, n)[i] : i \in DOMAIN LastOf(bars, n)}}

(* A call whose arguments are counted and whose length is a positive       *)
(* number (vwap may have none).  prior_high and prior_low look at the bars *)
(* before the event's own, if there are any.                               *)
EvalSeriesCall(fn, dn, length, bars) ==
  LET field  == SeriesField(dn)
      prior  == IF Len(bars) > 1 THEN SubSeq(bars, 1, Len(bars) - 1) ELSE bars
      series == SeriesOf(bars, field)
  IN  CASE fn = "prior_high" -> Greatest(InWindow(prior, length, "high"))
        [] fn = "prior_low"  -> Smallest(InWindow(prior, length, "low"))
        [] fn = "atr"        -> Atr(bars, length)
        [] fn = "vwap"       -> Vwap(LastOf(bars, length))
        [] fn \in {"highest", "lowest", "ema", "rsi"} ->
             IF field \notin BarFields THEN Raise("series")
             ELSE CASE fn = "highest" -> Greatest(InWindow(bars, length, field))
                    [] fn = "lowest"  -> Smallest(InWindow(bars, length, field))
                    [] fn = "ema"     -> Ema(series, length)
                    [] fn = "rsi"     -> Rsi(series, length)

EvalAbs(v, d) ==
  IF v.sort = "unknown" THEN v ELSE IF d.sort = "raise" THEN d ELSE Absolute(d)

(* A call over the bars, its length, if it has one, evaluated.             *)
EvalWindow(fn, dn, length, bars) ==
  IF dn = <<>> THEN Raise("series")
  ELSE IF length.sort = "raise" THEN length
  ELSE IF Truncated(length) <= 0 THEN Raise("length")
  ELSE EvalSeriesCall(fn, dn, Truncated(length), bars)

(* _eval_call, of a name with arguments, the last of which comes out as a  *)
(* value.                                                                  *)
EvalNamedCall(fn, node, value, ev) ==
  LET n      == Len(node.kids) - 1
      length == IF n = 0 THEN Num(Len(ev.bars), 1) ELSE AsDecimal(value)
      series == IF fn \in {"highest", "lowest", "ema", "rsi"}
                THEN DottedName(node.kids[2]) ELSE <<"close">>
  IN  CASE fn \notin FunctionNames \/ node.kw # <<>> -> Raise("call")
        [] OTHER ->
             IF fn = "abs" THEN IF n # 1 THEN Raise("arity") ELSE EvalAbs(value, AsDecimal(value))
             ELSE IF ev.context # "underlying" THEN Raise("context")
             ELSE IF n \notin Arity(fn) THEN Raise("arity")
             ELSE EvalWindow(fn, series, length, ev.bars)

(* No function has a dotted name.                                          *)
NameOf(dn) == IF Len(dn) = 1 THEN dn[1] ELSE "none"

EvalCall(node, kid, ev) ==
  EvalNamedCall(NameOf(DottedName(node.kids[1])), node, kid[Len(node.kids)], ev)

(* The field a dotted name stands for at an event.                         *)
FieldValue(dn, env) == IF dn \in DOMAIN env THEN env[dn] ELSE Raise("missing")

(* The value of a node, from those of its kids.                            *)
EvalNode(node, kid, ev) ==
  CASE node.kind = "none"    -> Raise("empty")
    [] node.kind = "literal" -> LiteralValue[node.tok]
    [] node.kind \in {"name", "attribute"} ->
         IF node.kind = "name" /\ node.tok \in FunctionNames \union Verbs
         THEN Str(node.tok)
         ELSE FieldValue(DottedName(node), RuntimeEnv(ev))
    [] node.kind = "unary"   -> EvalUnary(node.tok, kid[1])
    [] node.kind = "binary" /\ node.tok \in {"and", "or"} ->
         EvalBoolean(node.tok = "or", kid[1], kid[2])
    [] node.kind = "binary" /\ node.tok \notin {"and", "or"} ->
         EvalArithmetic(node.tok, kid[1], kid[2])
    [] node.kind = "compare" -> EvalCompare(node.tok, kid[1], kid[2])
    [] node.kind = "call"    -> EvalCall(node, kid, ev)
    [] OTHER                 -> Raise("node")

Eval(node, ev) ==
  LET values[n \in 0 .. Levels] ==
        [p \in Path |->
           LET x == At(node, p)
           IN  IF n = 0 THEN Raise("RecursionError")
               ELSE EvalNode(x, [i \in 1 .. Len(x.kids) |-> values[n - 1][Append(p, i)]],
                             ev)]
  IN  values[Levels][<<>>]

(* What the value of a call of an indicator is kept under.                 *)
CachedIndicators == {"ema", "rsi", "atr", "vwap"}

KeyOf(node, ev) ==
  LET fn     == DottedName(node.kids[1])[1]
      n      == Len(node.kids) - 1
      length == Truncated(AsDecimal(Eval(node.kids[n + 1], ev)))
      args   == CASE n = 0 -> <<>>
                  [] n = 1 -> <<length>>
                  [] n = 2 -> <<DottedName(node.kids[2]), length>>
  IN  CacheKey(fn, args, Len(ev.bars))

(* _eval_predicate_maybe, and _eval_predicate where nothing is Unknown: a  *)
(* condition is a Bool, or Unknown in a chain.  The first variant is       *)
(* wrong: whatever the expression evaluates to is taken.                   *)
PredicateAny(node, ev) == Eval(node, ev)

AsPredicate(v, context) ==
  IF v.sort \in {"raise", "bool"} \/ (v.sort = "unknown" /\ context = "chain")
  THEN v ELSE Raise("predicate")

Predicate(node, ev) == AsPredicate(Eval(node, ev), ev.context)

-----------------------------------------------------------------------------
(* Branches of a chain rule (evaluate_chain).                              *)

QualityFields ==
  Within("chain", {"is_fresh", "is_complete", "has_unknowns", "quality_ok"})

(* mentions_quality                                                        *)
Under(node) ==
  {node.kids[i] : i \in DOMAIN node.kids} \union {node.kw[i] : i \in DOMAIN node.kw}

MentionsQuality(node) ==
  \E x \in Reached(node, Under) :
    x.kind = "attribute" /\ DottedName(x) \in QualityFields

(* A branch with a condition ends the loop over the branches of its rule   *)
(* if the condition is true or raises; with unknowns one that mentions no  *)
(* quality field is not even evaluated.                                    *)
Decides(cond, unknowns) ==
  /\ unknowns => cond.mentions
  /\ cond.value.sort = "raise" \/ IsTrue(cond.value)

(* The branch a rule takes at a snapshot, by the conditions of its when    *)
(* and its elifs, in this order, each with whether it mentions a quality   *)
(* field and what it evaluates to, and by whether the snapshot has         *)
(* unknowns: with unknowns there is no else.  The first variant is wrong:  *)
(* when no condition decides, the else is taken.                           *)
ChainBranchElse(conds, unknowns) ==
  LET deciding == {i \in DOMAIN conds : Decides(conds[i], unknowns)}
      first    == CHOOSE i \in deciding : \A j \in deciding : i <= j
  IN  IF deciding = {} THEN [pick |-> "else", at |-> Len(conds) + 1]
      ELSE [pick |-> IF IsTrue(conds[first].value) THEN "branch" ELSE "raise",
            at   |-> first]

ChainBranch(conds, unknowns) ==
  LET deciding == {i \in DOMAIN conds : Decides(conds[i], unknowns)}
      first    == CHOOSE i \in deciding : \A j \in deciding : i <= j
  IN  IF deciding = {}
      THEN [pick |-> IF unknowns THEN "none" ELSE "else", at |-> Len(conds) + 1]
      ELSE [pick |-> IF IsTrue(conds[first].value) THEN "branch" ELSE "raise",
            at   |-> first]
=============================================================================
