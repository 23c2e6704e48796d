--------------------------- MODULE ExpressionTypes --------------------------
(***************************************************************************)
(* What validate and lint say of an expression and of a verb call: the     *)
(* types of the fields of a context and of the verbs (builtins.py), the    *)
(* relations between types (types.py), the type of a tree                  *)
(* (typechecker.py) and the calls lint allows (linting.py).                *)
(*                                                                         *)
(* A diagnostic is one that is reported, not where and with what text.     *)
(***************************************************************************)
EXTENDS Expressions

CONSTANT LiteralType  (* [Literal -> Bool, String or a literal type]       *)

ASSUME LiteralTypeAssumption ==
  LiteralType \in [Literal -> {"Bool", "String", "IntLiteral", "DecimalLiteral",
                               "PercentLiteral"}]

-----------------------------------------------------------------------------
(* types.py                                                                *)

LiteralTypes == {"IntLiteral", "DecimalLiteral", "PercentLiteral"}

Numeric == LiteralTypes \union {"Int", "Decimal", "Price", "Quantity", "Percent"}

Type == Numeric \union {"Bool", "String", "Timestamp", "Date", "Unknown"}

Widened(t) ==
  CASE t = "IntLiteral"     -> "Int"
    [] t = "DecimalLiteral" -> "Decimal"
    [] t = "PercentLiteral" -> "Percent"
    [] OTHER                -> t

(* The types a literal of the type is compatible with.                     *)
CompatibleWith(lit) ==
  CASE lit = "IntLiteral"     -> {"Int", "Decimal", "Price", "Quantity"}
    [] lit = "DecimalLiteral" -> {"Decimal", "Price", "Quantity"}
    [] lit = "PercentLiteral" -> {"Percent"}
    [] OTHER                  -> {}

Matches(expected, got) ==
  "Unknown" \in {expected, got} \/ expected = got \/ expected \in CompatibleWith(got)

-----------------------------------------------------------------------------
(* builtins.py: the dotted names of a context and their types.             *)

Of(type, names) == [n \in names |-> type]

f ++ g == [n \in DOMAIN f \union DOMAIN g |-> IF n \in DOMAIN f THEN f[n] ELSE g[n]]

Within(base, attrs) == {<<base, a>> : a \in attrs}

GuardTypes == Of("Bool", {<<"session", "is_regular">>, <<"data", "is_fresh">>})
              ++ Of("Percent", {<<"underlying", "return_5m">>})

EnvTypes(context) ==
  CASE context = "underlying" ->
         Of("Price", {<<"open">>, <<"high">>, <<"low">>, <<"close">>}
                     \union Within("bar", {"open", "high", "low", "close"}))
         ++ Of("Quantity", {<<"volume">>, <<"bar", "volume">>})
         ++ Of("Timestamp", {<<"bar", "time">>})
         ++ GuardTypes
    [] context = "option" ->
         Of("Price", Within("option", {"strike", "bid", "ask", "last", "close"}))
         ++ Of("String", Within("option", {"contract_id", "type"}))
         ++ Of("Date", {<<"option", "expiry">>})
         ++ Of("Quantity", {<<"option", "lot">>})
         ++ Of("Percent", {<<"option", "iv">>})
         ++ Of("Decimal", Within("option", {"delta", "gamma", "theta", "vega"}))
         ++ GuardTypes
    [] context = "chain" ->
         Of("Timestamp", Within("chain", {"as_of", "time"}))
         ++ Of("Bool", Within("chain", {"is_fresh", "is_complete",
                                        "has_unknowns", "quality_ok"}))
         ++ Of("Decimal", Within("chain", {"pcr_oi", "pcr_volume"}))
         ++ Of("Quantity", Within("chain", {"oi_change", "oi_change_puts",
                                            "oi_change_calls"}))
         ++ Of("Percent", Within("chain", {"iv_skew"}))

FunctionNames == {"abs", "highest", "lowest", "prior_high", "prior_low",
                  "ema", "rsi", "atr", "vwap"}

Arity(fn) ==
  CASE fn \in {"abs", "prior_high", "prior_low", "atr"}  -> {1}
    [] fn \in {"highest", "lowest", "ema", "rsi"}        -> {2}
    [] fn = "vwap"                                       -> {0, 1}

(* The arguments of a verb and their types, and those it requires.         *)
VerbArgs(verb) ==
  CASE verb = "emit_signal" ->
         [kind |-> "String", reason |-> "String", strength |-> "Decimal"]
    [] verb = "annotate" -> [note |-> "String"]
    [] verb = "declare_intent" ->
         [kind |-> "String", quantity |-> "Quantity", percent |-> "Percent",
          reason |-> "String"]
    [] verb = "cancel_intent" -> [reason |-> "String"]
    [] verb = "constrain_max_position" -> [quantity |-> "Quantity", reason |-> "String"]
    [] verb = "block" -> [reason |-> "String"]

Required(verb) ==
  CASE verb \in {"emit_signal", "declare_intent"} -> {"kind"}
    [] verb = "annotate"                          -> {"note"}
    [] verb = "cancel_intent"                     -> {}
    [] verb = "constrain_max_position"            -> {"quantity"}
    [] verb = "block"                             -> {"reason"}

Verbs == {"emit_signal", "annotate", "declare_intent", "cancel_intent",
          "constrain_max_position", "block"}

-----------------------------------------------------------------------------
(* typechecker.py: the type inferred for a tree, and whether nothing was   *)
(* reported on the way.  A part whose type is Unknown silences the checks  *)
(* of what is built on it.                                                 *)

Typed(type, ok) == [type |-> type, ok |-> ok]

InferUnary(op, o) ==
  IF op = "not"
  THEN Typed("Bool", o.ok /\ o.type \in {"Unknown", "Bool"})
  ELSE Typed(Widened(o.type), o.ok /\ o.type \in {"Unknown"} \union Numeric)

(* The first variant is wrong: only one operand is checked.                *)
InferBooleanLeft(l, r) == Typed("Bool", l.ok /\ r.ok /\ l.type = "Bool")

InferBoolean(l, r) ==
  Typed("Bool", l.ok /\ r.ok /\ l.type = "Bool" /\ r.type = "Bool")

InferArithmetic(op, l, r) ==
  LET x == Widened(l.type)
      y == Widened(r.type)
      scalar == {"Decimal", "Int"}
      type ==
        CASE op \in {"+", "-"} /\ x = y
               /\ x \in {"Price", "Decimal", "Int", "Percent", "Quantity"} -> x
          [] op \in {"*", "/"} /\ x \in scalar /\ y \in scalar -> "Decimal"
          [] op \in {"*", "/"} /\ x \in {"Price", "Percent"} /\ y \in scalar -> x
          [] op \in {"*", "/"} /\ y \in {"Price", "Percent"} /\ x \in scalar -> y
          [] op = "/" /\ x = "Price" /\ y = "Price" -> "Decimal"
          [] OTHER -> "Unknown"
  IN  Typed(type, l.ok /\ r.ok /\ type # "Unknown")

(* A token that is no operator is of no type, whatever it stands between.  *)
InferBinary(op, l, r) ==
  CASE "Unknown" \in {l.type, r.type}  -> Typed("Unknown", l.ok /\ r.ok)
    [] "Unknown" \notin {l.type, r.type} /\ op \in {"and", "or"} ->
         InferBoolean(l, r)
    [] "Unknown" \notin {l.type, r.type} /\ op \in {"+", "-", "*", "/"} ->
         InferArithmetic(op, l, r)
    [] OTHER -> Typed("Unknown", l.ok /\ r.ok)

InferCompare(l, r) ==
  Typed("Bool", /\ l.ok /\ r.ok
                /\ \/ "Unknown" \in {l.type, r.type}
                   \/ l.type = r.type
                   \/ r.type \in CompatibleWith(l.type)
                   \/ l.type \in CompatibleWith(r.type))

(* The length of a window, the last argument of every function but abs.    *)
IsLength(t) == t.ok /\ Matches("Int", t.type)

InferCall(fn, args) ==
  LET n == Len(args)
      first == args[1]
  IN  CASE n \notin Arity(fn)  -> Typed("Unknown", FALSE)
        [] n \in Arity(fn) /\ fn = "abs" ->
             IF first.type \in {"Unknown"} \union Numeric
             THEN Typed(Widened(first.type), first.ok)
             ELSE Typed("Unknown", FALSE)
        [] n \in Arity(fn) /\ fn \in {"highest", "lowest", "ema"} ->
             Typed(Widened(first.type), first.ok /\ IsLength(args[2]))
        [] n \in Arity(fn) /\ fn = "rsi" ->
             Typed("Percent", first.ok /\ IsLength(args[2]))
        [] n \in Arity(fn) /\ fn \in {"prior_high", "prior_low", "atr", "vwap"} ->
             Typed("Price", n = 1 => IsLength(first))

(* The type of a node, from those of its kids.                             *)
InferNode(node, kid, env) ==
  LET dn == DottedName(node)
      fn == DottedName(node.kids[1])
  IN  CASE node.kind = "none"      -> Typed("Unknown", TRUE)
        [] node.kind = "literal"   -> Typed(LiteralType[node.tok], TRUE)
        [] node.kind \in {"name", "attribute"} ->
             IF dn \in DOMAIN env THEN Typed(env[dn], TRUE)
             ELSE Typed("Unknown", node.kind = "name" /\ node.tok \in FunctionNames)
        [] node.kind = "unary"     -> InferUnary(node.tok, kid[1])
        [] node.kind = "binary"    -> InferBinary(node.tok, kid[1], kid[2])
        [] node.kind = "compare"   -> InferCompare(kid[1], kid[2])
        [] node.kind = "call"      ->
             IF fn \notin {<<f>> : f \in FunctionNames} \/ node.kw # <<>>
             THEN Typed("Unknown", FALSE)
             ELSE InferCall(fn[1], Tail(kid))
        [] OTHER -> Typed("Unknown", TRUE)

(* A tree that is too deep is not typed: the type checker raises.          *)
Infer(node, env) ==
  LET types[n \in 0 .. Levels] ==
        [p \in Path |->
           LET x == At(node, p)
           IN  IF n = 0 THEN Typed("Unknown", FALSE)
               ELSE InferNode(x, [i \in 1 .. Len(x.kids) |-> types[n - 1][Append(p, i)]],
                              env)]
  IN  types[Levels][<<>>]

-----------------------------------------------------------------------------
(* linting.py: an assignment, or a call of anything but a function, is     *)
(* forbidden anywhere in an expression.  The target of a call is not       *)
(* walked itself.                                                          *)
Linted(node) ==
  {node.kids[i] : i \in {j \in DOMAIN node.kids : node.kind = "call" => j > 1}}
  \union {node.kw[i] : i \in DOMAIN node.kw}

LintOK(node) ==
  \A x \in Reached(node, Linted) :
    /\ ~ (x.kind = "binary" /\ x.tok = "=")
    /\ x.kind = "call" => DottedName(x.kids[1]) \in {<<f>> : f \in FunctionNames}

(* A condition that parses is accepted if it is a Bool as far as known.    *)
ConditionTypeOK(node, context) ==
  LET t == Infer(node, EnvTypes(context)) IN t.ok /\ t.type \in {"Bool", "Unknown"}
=============================================================================
