------------------------------ MODULE FrontEnd ------------------------------
(***************************************************************************)
(* Rule files being written: a file line by line, a condition or a verb    *)
(* call word by word.  After every addition the text is lexed, parsed,     *)
(* validated and linted; the invariants evaluate what is accepted at the   *)
(* events of its context.  Text that nothing more can repair is not        *)
(* continued.                                                              *)
(***************************************************************************)
EXTENDS VerbCalls, Blocks

CONSTANTS
  Tasks,         (* What is written: members of Task.                      *)
  Events,        (* The events a context's expressions are evaluated at.   *)
  MetricValues   (* Numbers a metric of a chain may turn out to have.      *)

(* A task says what is written and, for an expression, in which context    *)
(* and with which words, a word being the tokens that are added at once,   *)
(* and how many lines or words are added at most.                          *)
Task == [kind: {"file", "condition", "call"},
         context: {"underlying", "option", "chain"},
         words: SUBSET Seq(STRING), indents: SUBSET Nat, max: Nat]

ASSUME TasksAssumption == Tasks \subseteq Task

ASSUME EventsAssumption == \A ev \in Events : IsEvent(ev)

ASSUME MetricValuesAssumption == MetricValues \subseteq Number

VARIABLES
  task,     (* What is being written.                                      *)
  lines,    (* The lines of the file.                                      *)
  text,     (* The tokens of the condition, or of the call after then.     *)
  left,     (* How many lines or words may still be added.                 *)
  parsed,   (* What the parser makes of the text, with what it reports.    *)
  accepted  (* Whether parser, type checker and lint report nothing.       *)

vars == <<task, lines, text, left, parsed, accepted>>

-----------------------------------------------------------------------------
(* The front end, for each kind of task.                                   *)
Parse(t, ls, s) ==
  CASE t.kind = "file"      -> ParseBlocks(ls)
    [] t.kind = "condition" -> ParseUntil(s)
    [] t.kind = "call"      -> ParseVerbCall(s)

FileAccepted(p) == p.errs = {} /\ ~ p.bad

ConditionAccepted(p, context) ==
  p.errs = {} /\ ConditionTypeOK(p.node, context) /\ LintOK(p.node)

CallAccepted(p, context) == p.errs = {} /\ CallTypeOK(p, context) /\ CallLintOK(p)

Accepts(t, p) ==
  CASE t.kind = "file"      -> FileAccepted(p)
    [] t.kind = "condition" -> ConditionAccepted(p, t.context)
    [] t.kind = "call"      -> CallAccepted(p, t.context)

(* Every diagnostic is about what is not written yet.                      *)
Continued ==
  LET written == IF task.kind = "file" THEN Len(lines) ELSE Len(text)
  IN  (\A e \in parsed.errs : e > written) /\ (task.kind = "file" => ~ parsed.bad)

Init ==
  /\ task \in Tasks
  /\ lines = <<>>
  /\ text = <<>>
  /\ left = task.max
  /\ parsed = Parse(task, <<>>, <<>>)
  /\ accepted = Accepts(task, parsed)

AddLine ==
  /\ task.kind = "file" /\ left > 0 /\ Continued
  /\ \E kind \in LineKind, indent \in task.indents :
       lines' = Append(lines, [indent |-> indent, kind |-> kind])
  /\ left' = left - 1
  /\ parsed' = Parse(task, lines', text')
  /\ accepted' = Accepts(task, parsed')
  /\ UNCHANGED <<task, text>>

AddWord ==
  /\ task.kind # "file" /\ left > 0 /\ Continued
  /\ \E w \in task.words : text' = text \o w
  /\ left' = left - 1
  /\ parsed' = Parse(task, lines', text')
  /\ accepted' = Accepts(task, parsed')
  /\ UNCHANGED <<task, lines>>

Next == AddLine \/ AddWord

Spec == Init /\ [][Next]_vars

-----------------------------------------------------------------------------
AcceptedCondition == task.kind = "condition" /\ accepted

AcceptedCall == task.kind = "call" /\ accepted

(* The text and its bounds; a type is inferred for every condition, and an *)
(* accepted one comes out as a Bool or Unknown or raises (typechecker.py,  *)
(* and evaluator.py: _eval_predicate and _eval_predicate_maybe).           *)
TypeOK ==
  /\ task \in Tasks
  /\ lines \in Seq(Line)
  /\ text \in Seq(STRING)
  /\ left \in 0 .. task.max
  /\ accepted \in BOOLEAN
  /\ task.kind = "condition" =>
       Infer(parsed.node, EnvTypes(task.context)) \in [type: Type, ok: BOOLEAN]
  /\ AcceptedCondition =>
       \A ev \in {e \in Events : e.context = task.context} :
         Predicate(parsed.node, ev).sort \in {"bool", "unknown", "raise"}

(* A file is accepted exactly if its indentation, read declaratively, has  *)
(* the shape of rules, branches and actions, and then the parser finds     *)
(* these imports, rules, branches and actions (lexer.py: the indentation   *)
(* stack; parser.py: the block structure).                                 *)
BlocksFollowIndentation ==
  task.kind = "file" =>
    /\ accepted <=> WellFormed(lines)
    /\ accepted => parsed.imports = ImportsOf(lines) /\ parsed.rules = RulesOf(lines)

-----------------------------------------------------------------------------
(* What validation leaves to the evaluator: an expression of which none of *)
(* this holds is guarded.  It is empty; a token that is no operator stands *)
(* between operands; a function is named and not called; strings, bools,   *)
(* timestamps or dates are compared; a function over bars is called        *)
(* outside an underlying's rule, for something that is no series, or with  *)
(* a length that is no positive literal.                                   *)
Series == {<<f>> : f \in BarFields} \union Within("bar", BarFields)

IsPositive(x) ==
  /\ x.kind = "literal" /\ LiteralType[x.tok] = "IntLiteral"
  /\ Below(Num(0, 1), LiteralValue[x.tok])

FunctionOf(call) == DottedName(call.kids[1])[1]

(* The trees below a node whose guards count.                              *)
Evaluated(node) ==
  CASE node.kind \in {"unary", "binary", "compare"} ->
         {node.kids[i] : i \in DOMAIN node.kids}
    [] node.kind = "call" /\ FunctionOf(node) = "abs" -> {node.kids[2]}
    [] OTHER -> {}

GuardedNode(node, context) ==
  LET args == Tail(node.kids)
  IN  CASE node.kind \in {"literal", "attribute", "unary"} -> TRUE
        [] node.kind = "name"    -> node.tok \notin FunctionNames
        [] node.kind = "binary"  -> node.tok \in Documented
        [] node.kind = "compare" ->
             \A i \in DOMAIN node.kids :
               Infer(node.kids[i], EnvTypes(context)).type \in Numeric
        [] node.kind = "call" /\ FunctionOf(node) = "abs" -> TRUE
        [] node.kind = "call" /\ FunctionOf(node) # "abs" ->
             /\ context = "underlying"
             /\ Len(args) = 2 => DottedName(args[1]) \in Series
             /\ args # <<>> => IsPositive(args[Len(args)])
        [] OTHER -> FALSE

Guarded(node, context) == \A x \in Reached(node, Evaluated) : GuardedNode(x, context)

GuardedCondition == AcceptedCondition /\ Guarded(parsed.node, task.context)

GuardedCall ==
  /\ AcceptedCall
  /\ \A i \in DOMAIN parsed.args :
       Guarded(parsed.args[i].node, task.context)
  /\ Cardinality(Given(parsed)) = Len(parsed.args)

RaisesOnly(exceptions, v) == v.sort = "raise" => v.is \in exceptions

(* An accepted condition that is guarded is true, false or Unknown at      *)
(* every event; the arguments of an accepted call that are guarded, none   *)
(* of them given twice, are those its decision takes.  All that can go     *)
(* wrong is what no check sees: a field the event has no value for, a      *)
(* division by zero, a metric that is Unknown given as an argument         *)
(* (typechecker.py and linting.py against evaluator.py: _eval_value).      *)
AcceptedExpressionsRun ==
  \A ev \in {e \in Events : e.context = task.context} :
    /\ GuardedCondition => RaisesOnly({"missing", "DivisionByZero"},
                                      Predicate(parsed.node, ev))
    /\ GuardedCall => RaisesOnly({"missing", "DivisionByZero", "unknown"},
                                 Arguments(parsed, ev))

-----------------------------------------------------------------------------
(* Indicators.                                                             *)
IndicatorCalls(node) ==
  {c \in Reached(node, Under) : c.kind = "call" /\ DottedName(c.kids[1])[1] \in CachedIndicators}

(* The events of the run an event belongs to, up to it.                    *)
RunUpTo(ev) == {[ev EXCEPT !.bars = SubSeq(@, 1, i)] : i \in DOMAIN ev.bars}

Between(low, x, high) == ~ Below(x, low) /\ ~ Below(high, x)

WithinBars(c, v, bars) ==
  LET fn == DottedName(c.kids[1])[1]
      all(field) == {bars[i][field] : i \in DOMAIN bars}
      series == all(SeriesField(DottedName(c.kids[2])))
  IN  CASE fn = "ema"  -> Between(Smallest(series), v, Greatest(series))
        [] fn = "rsi"  -> Between(Zero, v, One)
        [] fn = "vwap" -> Between(Smallest(all("close")), v, Greatest(all("close")))
        [] fn = "atr"  -> Between(Zero, v, Plus(Greatest(all("high")),
                                                Minus(Smallest(all("low")))))

(* A value the cache holds is the value of every call that finds it: two   *)
(* indicator calls of a run that are kept under one key have one value.    *)
(* And whatever the bars are, a value is within what they span, and but    *)
(* for ema comes from the bars of the call's window and the one before     *)
(* (indicators.py: get_or_compute, ema, rsi, atr, vwap and their special   *)
(* cases; evaluator.py: the keys of _eval_call).                           *)
IndicatorsFollowBars ==
  LET calls == IF AcceptedCondition THEN IndicatorCalls(parsed.node) ELSE {}
      windowed(c) == Len(c.kids) > 1 /\ DottedName(c.kids[1]) # <<"ema">>
      recent(c, e) == LET length == Eval(c.kids[Len(c.kids)], e).is[1]
                      IN  [e EXCEPT !.bars = LastOf(@, length + 1)]
  IN  calls # {} =>
        \A ev \in {e \in Events : e.context = "underlying"} :
          LET made == {m \in {[call |-> c, event |-> e, value |-> Eval(c, e)] :
                                c \in calls, e \in RunUpTo(ev)} : m.value.sort = "num"}
              kept == {[key |-> KeyOf(m.call, m.event), value |-> m.value] : m \in made}
          IN  /\ \A m \in made :
                   /\ WithinBars(m.call, m.value, m.event.bars)
                   /\ windowed(m.call) =>
                        Same(m.value, Eval(m.call, recent(m.call, m.event)))
              /\ \A x, y \in kept : x.key = y.key => Same(x.value, y.value)

-----------------------------------------------------------------------------
(* Chains.  The events a snapshot whose metrics are partly Unknown could   *)
(* have made: each Unknown metric the text names may have any number.      *)
Named(metric) == \E i \in DOMAIN text : text[i] = metric

Completions(ev) ==
  LET open == {k \in DOMAIN ev.metrics : Named(k) /\ ev.metrics[k].sort = "unknown"}
  IN  {[ev EXCEPT !.metrics = m ++ @] : m \in [open -> MetricValues \union {UnknownV}]}

(* Whatever the metrics, the condition comes out as b or raises.           *)
IsOrRaises(v, b) == v.sort = "raise" \/ (v.sort = "bool" /\ v.is = b)

Settled(b, ev) == \A c \in Completions(ev) : IsOrRaises(Predicate(parsed.node, c), b)

AcceptedChainCondition == task.context = "chain" /\ AcceptedCondition

(* The chain snapshots, each with what the condition comes out as.         *)
Outcomes ==
  {[event |-> ev, value |-> Predicate(parsed.node, ev)] :
     ev \in {e \in Events : e.context = "chain"}}

(* A condition that comes out true or false although metrics are Unknown   *)
(* does so whatever they are (evaluator.py: the Unknown cases of           *)
(* _eval_value).                                                           *)
UnknownNeverDecides ==
  AcceptedChainCondition =>
    \A o \in Outcomes : o.value.sort = "bool" => Settled(o.value.is, o.event)

(* A quality field is named: its two names on either side of a dot, the    *)
(* first perhaps in parentheses that are closed before the dot.            *)
QualityNamed ==
  \E i, j \in 1 .. Len(text) - 1 :
    /\ i < j /\ text[j] = "." /\ <<text[i], text[j + 1]>> \in QualityFields
    /\ \A k \in i + 1 .. j - 1 : text[k] = ")"

(* The other branches of the rule: up to one before and one after, each    *)
(* with a condition that mentions a quality field or not, and comes out as *)
(* true, false or Unknown or raises.                                       *)
Companion ==
  [mentions : BOOLEAN, value : {Bool(TRUE), Bool(FALSE), UnknownV, Raise("missing")}]

Neighbours == {<<>>} \union {<<other>> : other \in Companion}

FailsClosed(o, before, after) ==
  LET own    == [mentions |-> MentionsQuality(parsed.node), value |-> o.value]
      branch == ChainBranch(before \o <<own>> \o after, TRUE)
      taken  == branch.pick = "branch" /\ branch.at = Len(before) + 1
  IN  /\ branch.pick # "else"
      /\ taken <=> /\ IsTrue(o.value) /\ QualityNamed
                   /\ \A i \in DOMAIN before : ~ Decides(before[i], TRUE)
      /\ taken => Settled(TRUE, o.event)

(* On a snapshot with unknowns no else branch is taken, and the branch of  *)
(* the condition, a when or an elif, only if the condition names a quality *)
(* field and holds whatever the metrics are; one that does so is passed    *)
(* over only for a branch before it (evaluator.py: mentions_quality and    *)
(* the branch loop of evaluate_chain).                                     *)
UnknownsFailClosed ==
  AcceptedChainCondition =>
    \A o \in {x \in Outcomes : x.event.unknowns} :
      \A before, after \in Neighbours : FailsClosed(o, before, after)
=============================================================================
