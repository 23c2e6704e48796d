# A verification of SigmaDSL

SigmaDSL is a deterministic rule language for market data. A *rule pack* (files
`*.sr`) is parsed, type-checked and linted, then evaluated over a list of events
(bars, option snapshots, chain snapshots); the rules emit *decisions*, which are
written as JSON lines, logged, replayed, explained, and turned into *plans*. The
program is sequential Python with no threads. What makes it hard to get right is
not concurrency but the order of its phases, the shared list they all write to,
and the promise that every way of arriving at a result (a run, a replay, a
growing prefix of the events) gives the same bytes.

All paths below are relative to `src/src/sigmadsl/` unless they begin with `docs/`.

## 1. The system

| Component | State | Operations | Hard behaviour | Correct when |
|---|---|---|---|---|
| Evaluator (`evaluator.py`) | the decision list, the id counter, the table from id to index, the event's intents, constraints and traces | per event: primary rules, resolution, risk rules, enforcement, trace | four phases write to one list by index and by id; an error may come anywhere | ids are positions; closed events are final; a failed run returns nothing |
| Intent resolution (`intent_resolution.py`) | `overridden_by` of one event | collapse equal intents, cancel beats declare, largest declare wins, follow the chain | two stages whose outcomes refer to each other | every loser points to a winner; losers have no influence; file order only breaks ties |
| Risk constraints (`risk_constraints.py`) | summary of an event's constraints | summarise, block | caps and blocks together, overridden intents | blocked exactly when some constraint of the event forbids it |
| Decisions and profiles (`decisions.py`, `decision_profiles.py`, `profile_compliance.py`) | record types, allowlists | | two lists of verbs kept apart | what passes validation runs |
| Rule modules (`modules.py`) | `state`, `stack`, `ordered` of the walk | index, validate imports, depth-first walk | cycles, shared imports, unparsed modules | imports come first; rejected exactly when cyclic |
| Trace (`trace.py`, `explain.py`) | rule and event traces | record, look up | risk traces are appended later | every decision is in the trace of its event once |
| Planner (`planner.py`, `plan_ir.py`) | collected intents, plans, diagnostics | index constraints, collect, sort, plan | fail closed on malformed input | a blocked intent is never planned; all or nothing |
| Run log, replay (`runlog.py`, `runner.py`) | a file | write, load, check hashes, evaluate again | the input is read twice; the file is written in place and may be edited | replay gives the run's output or an error |
| Parity (`parity.py`) | ids seen | evaluate every prefix, emit new decisions | relies on closed events being final | the three modes agree |
| Loaders (`csv_input.py`, `options_*.py`, `chain_*.py`) | rows grouped by timestamp | parse, group, reject | incomplete or inconsistent groups | a snapshot that looks complete is |
| Language front end (`lexer.py`, `parser.py`, `expr.py`, `typechecker.py`, `linting.py`) | indentation stack, token cursor, types | lex, parse, infer | error recovery, precedence, tokens that are no operators, operands of unknown type | one tree per expression, blocks as indented; what is accepted does not raise type errors |
| Expression values (`evaluator.py`: `_eval_value`, `_eval_call`) | | evaluate | three-valued logic, strings, division, partial windows | Unknown decides nothing; else is not taken in the dark |
| Indicators (`indicators.py`) | cache | compute once per event | what the key leaves out | the cached value is the value |
| Packs (`packaging.py`) | manifest, sources, hashes | create, validate | edited between the two; each check sees what the ones before left | accepted means it can be run, and unedited if the manifest is |
| Reports, diff, profile, CLI | none | count, compare, print | | |

Interactions are function calls: the runner calls the module loader, the loaders
and one evaluator; the evaluator calls intent resolution and risk constraints
once per event; replay and parity call the evaluator again; planner and reports
read its output as JSON. The only shared state is the decision list of a run and
the files in between.

PROJECT.json lists every component with its status and every hazard at its line.

## 2. The modules

| Module | Models | Kind |
|---|---|---|
| `Decisions` | decision records, profiles, verbs and their kinds | data |
| `IntentResolution` | `resolve_intents_for_event` | operators on a set of intents |
| `RiskConstraints` | `_summarize`, `applied_blocks_for_event` | operators |
| `Evaluator` | `evaluate_underlying`, `evaluate_option`, `evaluate_chain` | state machine, composes the three above |
| `DecisionLedger` | what callers of the evaluator rely on | abstract specification |
| `EventIntents` | the intents of one event emitted one by one | state machine over `IntentResolution` |
| `ImportClosure` | `resolve_import_closure` | state machine |
| `Packs` | `create_pack`, `validate_pack` | state machine, continues `ImportClosure` with edits of the pack |
| `Planner` | `generate_plans` | state machine |
| `RunLog` | `run_*_from_csv_with_log`, `write_runlog`, `load_runlog`, `replay_from_log` | state machine with its environment |
| `SnapshotLoaders` | the three CSV loaders, contract ids, usability of a row | operators on a file of rows |
| `OptionSelection` | `select_option_contract_id_from_csv`, `select_contract_id` | operators |
| `ChainMetrics` | open-interest metrics and the history `_runtime_env` gives them | operators |
| `SnapshotFiles` | a file written row by row | state machine over the three above |
| `Loops` | a `while` loop as an operator | operators |
| `Expressions` | the expression parser (`expr.py`) and how a condition is cut out of a line | operators on tokens |
| `ExpressionGrammar` | the precedence the language documents | reference definition |
| `ExpressionTypes` | `types.py`, `builtins.py`, the type checker and lint on expressions | operators on trees |
| `Indicators` | `indicators.py`: formulas and cache key | operators on bars, over fractions |
| `ExpressionValues` | `_runtime_env`, `_eval_value`, `_eval_call`, the branch choice of a chain rule | operators on trees and events |
| `VerbCalls` | verb calls: parser, type checker, lint, argument evaluation | operators |
| `Blocks` | the indentation stack of the lexer, the block structure of the parser; and what an indented file means | operators on lines |
| `FrontEnd` | a file written line by line, a condition or a call word by word | state machine over the eight above |
| `MCEvaluator`, `MCEventIntents`, `MCImportClosure`, `MCPacks`, `MCPlanner`, `MCRunLog`, `MCSnapshotFiles`, `MCFrontEnd` | small instances | |
| `EvaluatorClaims`, `FrontEndClaims` | what the documents say and the code does not do | runs that end in a counterexample |
| `EventIntentsProofs`, `EvaluatorProofs`, `PlannerProofs`, `RunLogProofs`, `PacksProofs`, `SnapshotProofs`, `FrontEndProofs`, `BlocksProofs` | | theorems |

### Evaluator

One state machine stands for the three evaluators, which share their phases;
`input.context` selects what differs (the verbs a phase has code for, the policy
for unknowns in a chain, no risk phase in a chain). State and code:

| Variable | Code |
|---|---|
| `pos`, `phase` | the loop over the events and the place in its body |
| `todo`, `current` | the loops over rules and over the actions of the selected branch |
| `counter`, `decisions`, `indexOf` | `decision_counter`, `decisions`, `decision_index_by_id` (indexes count from 1) |
| `intents`, `effective`, `constraints` | `event_intent_indices`, `effective_intent_ids`, `risk_constraints` |
| `ruleTraces`, `eventTraces`, `result` | the traces and the value returned |

| Action | Code |
|---|---|
| `BeginEvent`, `IndexMismatch` | head of the event loop |
| `SelectBranch`, `NoBranchMatches`, `PredicateRaises` | the loop over a rule's branches |
| `Emit`, `VerbRefused`, `ArgumentRaises`, `EndRule` | the loop over the actions, the rule's trace |
| `ResolveIntents` | phase 1.5 and its write-back |
| `EnforceConstraints` | the end of phase 2 and its write-back |
| `CloseEvent`, `Return` | the event's trace, the return |

What an expression evaluates to is nondeterministic, raising included. Each
condition and each argument list is evaluated once per event, so no consistency
between choices is lost. Rules are a set with distinct positions: the code sorts
both packs by `order_key` before it uses them. An id `n` stands for the string
`D%04d`, so the model compares ids as numbers; the code does the same in
resolution (`decision_num`), and sorts strings in `blocked_by`, which is a set
here. Texts (reasons, notes, timestamps) are left out: nothing branches on them.
A `Decimal` quantity is an integer number of its smallest unit.

`VerbRefused` and `IndexMismatch` are reached by callers of the library and by
one command line (a risk pack evaluated as the primary pack of an option input);
the loaders number events from 0 and validation keeps packs within their allowlist.

### IntentResolution and EventIntents

`IntentResolution` gives `resolve_intents_for_event` as operators on the set of
raw intents: `Keeper` and `Candidates` for the idempotency collapse, `Cancels`,
`Declares`, `OverriddenBy` for the conflict policy, `UltimateWinner`, `Effective`
and `Resolved` for the normalisation and write-back. The dictionary
`overridden_by` is a function here: each id is written at most once.
`EventIntents` grows the set intent by intent, so that statements about any
prefix and any order are invariants.

### ImportClosure

The recursion of `dfs` is a stack of frames, each with the imports it has not
visited. `Call` is the call with its three cases; `VisitEntry`, `VisitImport`
and `Leave` are the places `dfs` is called from and returns to. Names are numbers
in the order the names sort in. A cycle met twice through a doubled import is
reported once.

### Packs

`Packs` goes on where `ImportClosure` ends: `CreatePack` is the rest of
`create_pack` (its refusal of modules that did not parse, the manifest), `Edit` is
anything done to the pack afterwards by whatever tool: a file lost, revised, moved
to another path, an entry of the manifest dropped, renewed or turned to a path
outside the pack, another version, other entrypoints, no manifest. `Validate` is
`validate_pack`: the set of the codes reported, with the early returns in their
order, `SD200` standing for what the parser reports and `SD300` for the type checker
and the profile check. A source is the record of what its text amounts to, and its
hash is the source itself. `Loaded` and `Unreadable` are the read of line 316: a
listed file that is missing, or is not UTF-8, raises out of all the checks to the
handler of `validate_pack`, so the codes found before it (`SD634` for the missing
file among them) are lost and only `SD631` is reported.

### The front end

`Expressions`, `VerbCalls` and `Blocks` return, like the code, what was made and where something
was reported, and go on after an error as the code does. A token is its text and a
line its indentation and kind. `FrontEnd` adds one line (`AddLine`) or word
(`AddWord`) at a time, so each state is a file, a condition or a call, and an
invariant is a statement about all of them up to the bound. These actions are the
author of the rule file; the code is in the operators the invariants apply. Text
with a diagnostic that no addition can remove is not continued (`Continued`).

| Operator | Code |
|---|---|
| `ParseExpr`, `ParsePrefix`, `ParseInfix`, `ParsePostfix`, `Lbp` | the binding-power parser and its nested functions |
| `ParseUntil` | `parse_expr_until`: reports `=` and unpaired parentheses, then parses |
| `ParseVerbCall` | `parse_verb_call`: an argument ends at the first comma or closing parenthesis |
| `LexLine`, `Dedents` | the indentation stack, and the dedents emitted before a misfit is reported |
| `ParseTop`, `ParseBranches`, `ParseThens`, `SkipLine` | the block parser and its recovery |
| `Infer`, `InferCall`, `CallTypeOK` | `_infer_node_type` and its helpers, `typecheck_verb_call` |
| `LintOK`, `CallLintOK` | `_lint_forbidden_expr_constructs` |
| `Eval`, `EvalCall`, `EvalSeriesCall`, `Predicate` | `_eval_value`, `_eval_call`, `_eval_predicate*` |
| `ChainBranch`, `Decides`, `MentionsQuality` | the branch loop of `evaluate_chain` under unknowns: `when`, `elif`s and `else` |
| `Ema`, `Rsi`, `Atr`, `Vwap`, `KeyOf`, `CacheKey` | `indicators.py` and the keys `_eval_call` builds |

`ExpressionGrammar` and the second half of `Blocks` (`WellFormed`, `RulesOf`) are
definitions the code is compared with: all trees a token sequence derives under the
precedence of `docs/dsl_v2.0.md` 11.4.2, and the tree of lines that indentation
alone describes. An exception is a value here (`Raise`), with the name of what
raises. Numbers are fractions: the 28 digits of a decimal and the eight places an
indicator is rounded to are left out.

What the code does by recursion the model does level by level: a table from 0 to
`Levels` of what a walk makes with so many calls still allowed (`ParseExpr`, `Infer`,
`Eval`, `Reached`), and a tree deeper than `Levels` comes out as the interpreter's
RecursionError. `Levels` stands for its recursion limit. A `while` loop is `Loop` of
`Loops`: its step is taken until it says stop, at most once for each token that is left.
Only `ExpressionGrammar` uses RECURSIVE operators, and only `MCFrontEnd` reaches it.

### Planner

`Collect` is one turn of the first loop, `EndCollect` the return after it,
`RefuseIntent`, `QuantityRaises` and `PlanIntent` are the ways one turn of the second
loop can end, and `Return` is the end. The sort is `Precedes`; the second loop takes the
least remaining intent by it (`IsNext`). A line of the stream is a record of the fields
the planner reads, each of which may be malformed, since the stream is a file.
`QuantityRaises` is the decimal conversion that nothing catches. Symbols and rule names
are numbers in their sorting order, None where the field is no text.

### RunLog

`job` is the place in `run_*_from_csv_with_log`; each action is one call it makes
that can fail or touches a file.

| Action | Code |
|---|---|
| `LoadRules`, `LoadRisk` | `load_compiled_rules_with_sources`, and that an option or chain run wants a rule of its kind |
| `ReadInput` | the loader, the choice of an option contract included |
| `Evaluate` | the call of the evaluator and its EvalError |
| `HashInput` | the second read of the input; its exception ends the process |
| `OpenLog`, `WriteLog` | the two halves of `write_text`: the file is empty or torn in between, and torn or whole after a failure or a crash there |
| `Die` | a crash at any of these places |
| `EditPacks`, `EditInput`, `EditText`, `EditProfile`, `EditLog`, `InstallEngine` | others, at any time |

Replay changes nothing, so it is the operator `ReplayOf`, with `Accepts` for the
checks of `load_runlog` and `replay_from_log`: the invariants say what a replay
would return in every reachable state. A hash is the text it was taken of: two
texts with one SHA-256 are not considered. The outcome of an evaluation is the
record of all it depends on (the rules of the input's kind, the profile, the
events, the indicator versions), since `Evaluator` has no other input. The code
treats a missing risk section as an empty risk pack, and a missing indicator
section as one that names none, so both are empty sets. `EditLog` stands for the
edits nothing in the log protects: other events, no risk section, no indicator section,
another schema. `edits` is a ghost: it
records what was done to the log since the run opened it.

### Snapshot files

The loaders are functions from a file to a result, so they are operators:
`UnderlyingLoad`, `OptionLoad` and `ChainLoad` give "loaded" with the events, "rejected"
(some diagnostic, and the run stops) or "raised" (a malformed `data_is_fresh`, which
only the bar loader catches). A row is a record of what they tell apart, among it
`wrong`, the columns that are malformed, and the spelling of the contract id: `Parsed`
maps spellings to contracts and `IdOf` contracts to their canonical spelling. A group of
rows, and what is left of it, is the set of their places in the file. The sort of a
snapshot's contracts is `Place`, stable as in the code: a row's place is the number of
rows not after it. `Selection` and `Ranked` are the choice of a contract, `PcrOi` and
`OiChange` the metrics; a ratio is the pair of its sums. `SnapshotFiles` grows a file
row by row, so that its invariants quantify over all files, in every order of the rows.
The diagnostic for a snapshot without valid rows (SD765) adds nothing to the others: a
row that is dropped has one of its own.

### Wrong variants

Some modules hold operators marked *wrong* (`BeatsIfLater`, `LastCap`,
`EndRuleNoRiskTrace`, ...). Nothing uses them. Each is the form a plausible bug
would give the definition below it, and PROJECT.json says which property TLC
finds violated when it takes that definition's place: every property of every
passing run can fail.

## 3. The runs that pass

| Run | States | Question | Bounds |
|---|---|---|---|
| `evaluator` | 176,772 | is the ledger right, for every branch choice and every argument? | seven inputs, at most two events, three rules and three actions per rule, quantities in -2..2 |
| `event_intents` | 4,681 | how does resolution depend on the intents and their order? | four intents out of eight argument lists |
| `import_closure` | 100,724 | does the walk order and reject correctly, and is an accepted pack whole? | all graphs of three modules, graphs of four with at most one back edge; packs of some of them with up to two edits |
| `front_end` | 237,500 | does the front end read what is written, and does what it accepts run? | eleven vocabularies, three to seven words each, files of up to eight lines of four indentations; nine events |
| `planner` | 140,750 | is planning all or nothing, does it fail closed, is its order independent of the file's? | streams of up to three of twenty-one lines, with and without risk |
| `run_log` | 7,198,524 | is a replay faithful, whatever happens to the files? | three packs, five inputs, two indicators of two versions, three earlier logs, two changes from outside at any time |
| `snapshot_files` | 86,213 | does a file load whole, in any order, and do selection and metrics agree with it? | files of up to four of twenty-one kinds of rows, two odd ones among them |

**evaluator.** `LookupConsistent`: ids are positions, through the lookup table
too. `ResolutionSound`: at every closed event each overridden intent names an
intent in effect that the policy puts above it, and no two intents in effect
conflict. `GateExact`: a decision is blocked exactly when a constraint of its
event's risk phase forbids it, and it names constraints that forbid it only: every
block, and of the caps that do one that none is tighter than. `TypeOK` says, beside the
types, that whatever names a decision (a trace, an override, a block, the set of
effective ids) names an id that was handed out.
`TraceComplete`: the event's trace lists each decision of the event once, in
order. `ClosedEventsFrozen`: no later step changes a decision of a closed event.
`RefinesLedger`: the run implements `DecisionLedger`, in which a batch per event
is appended already resolved and gated, and the run returns the whole ledger or
nothing. `Terminates`: every run ends, whatever its branches and errors: no phase is left
without a step that leads on. The seven inputs are the cases that
differ: conflicting intents with one and with two risk rules, signals with a
name shared between rules and packs and rules of another context, the risk
profile as the primary one, the same for an option input, a chain with unknowns,
and a misnumbered event list. Two events are enough for every property that
relates an event to an earlier one, since nothing the code keeps goes further
back than the decision list; three declares and a cancel give every case of the
conflict policy, with two kinds and sizes that tie by value, by sign and for
want of a quantity.

**event_intents.** `ResolutionIsStable`, `LosersAreIrrelevant`,
`LosersPointToWinners`, `OrderOnlyBreaksTies` and `DisplacedOnlyByWinner` say
that resolution is a choice function: idempotent, independent of the losers,
monotone, and dependent on the emission order only between intents of the same
action, kind and absolute size. Four intents hold a chain of overrides (a
duplicate, its keeper, the declare that beats it, a cancel).

**import_closure.** `ClosureInImportOrder`, `RejectedIffCyclic`,
`ReportedCyclesExist` and `WalkEnds` are the contract of `resolve_import_closure`
against a reachability definition; `MarksMatchWalk` is the invariant behind it.
Three modules hold every shape of a cycle and of a shared import; the graphs of
four add diamonds with a cycle beside them. `AcceptedPacksAreWhole`: an unedited
pack is accepted unless its library has type errors; one that is accepted with the
manifest it was made with holds its sources; and whatever was edited, an accepted
pack can be run from its entrypoints: what they lead to is in the pack, parses,
types, and has no cycle. Two edits are a file and the entry that should protect it.

**front_end.** `ParsesAsGrammar`: a condition parses without a report exactly if the
grammar derives a tree for it, and it is the only one. `BlocksFollowIndentation`: the
same for files, their imports, rules and branches. `AcceptedExpressionsRun` is type
soundness: a condition or call that validate and lint accept fails at run time only by
what no check can see, a field without a value, a division by zero, or an Unknown metric
as an argument. It is stated for *guarded* text, and `Guarded` names all that has to be
left out: an empty condition, a token that is no operator between operands, a function
named but not called, compared strings, bools, timestamps and dates, an argument given
twice, and functions over bars outside an underlying's rule, over no series, or with a
length that is no positive literal. Each of these is accepted and can raise.
`IndicatorsFollowBars`: two indicator calls of a run that have one cache key have one
value, each value is within what the bars span, and but for `ema` it depends on its
window and the bar before only. `UnknownNeverDecides`: a chain condition that comes out
true or false while metrics are Unknown does so whatever number they turn out to be.
`UnknownsFailClosed`: with unknowns no else is taken, and the branch of a condition, a
`when` or an `elif` among others, only if it names a quality field and holds whatever
the metrics are; one that does is passed over only for a branch before it. The other
branches are up to one on each side, whose conditions are given by what they come out
as. `TypeOK` says that a condition comes out as a bool, Unknown or an exception. The
vocabularies take one word of each kind the code tells apart: every operator level,
every type, every function shape; six tokens hold two operators around a parenthesis
with a unary before it, which is what precedence needs; one vocabulary puts a chain
field in parentheses and an attribute after them; and eight lines hold two rules of a
branch with an action, or one with a dedent to no enclosing block. The third bar is the
first at which windows of one and of two bars differ in `rsi`; bars without volume and
with equal closes are among them.

**planner.** `AllOrNothing`: when plans are returned, every intent in effect has
its plan and no other has. `FailsClosed`: what is planned is an intent in effect
and not blocked, and with risk one that enforcement declared allowed.
`ReasonsMatchBlockers`: a blocked plan gives one reason for each blocker, from a
risk constraint with that id if there is one. `OrderedByContent`: the plans come
by event, symbol and id whatever the order of the file. Three lines hold two
intents in either order with a constraint, two constraints with one id and the
intent they block, and a malformed line beside two well-formed ones.

**run_log.** `ReplayFaithful`: a replay of the run's log gives the run's outcome
or an error, whatever was done to packs and input, to the texts and the profile in the
log, and wherever the writing of the log stopped. An edit of the profile may
show as the name of the profile, never in the rules: those the profile replayed with does not
admit are not run. With another engine this is so for runs without a risk pack
(`claim_pins` shows why). `ReturnedRunsReplay`: a run that was
asked for a log and returns has left one that replays, until somebody edits it or
an indicator its packs refer to changes. `EarlierLogKept`: until there is a result
to log, a log already there is not touched. Not protected, and so left out of these, are
the events in the log, which have no hash. The hash recorded for the input may be that of
another content than the events were read from; nothing reads it. Two changes are enough:
the outcome of a replay depends on the log and the engine only, and one change of each is
the worst that can be combined; packs and input can no longer matter after they were
read, which one change between two reads shows. The texts are the cases loading
tells apart: clean under every profile, as signals only, as a risk pack, and under none.

**snapshot_files.** `NoRowLost`: what loads accounts for every row, and a snapshot
called complete has usable rows only. `RowOrderIrrelevant`: exchanging two
neighbouring rows changes neither a chain nor a selection, when ids are spelled
canonically. `MetricsAgree`: four loops over the contracts that must tell one
story. `SelectionFindsItsContract`: the loader finds the snapshot a contract was
selected by. `OtmRanksAscend`: the ranks out of the money list that side of the
chain once, outwards. Four rows hold two snapshots of a call and a put, which the
change metrics need; the odd rows are one of each defect, and two of them any
interplay of two.

Deadlock is not checked: a run stops when it has returned or failed.

Fairness: `Evaluator` and `ImportClosure` assume weak fairness of the next-state
relation. Both are sequential functions: the interpreter executes the next
statement, and nothing waits for anything.

## 4. The runs that end in a counterexample

| Run | The claim | The code |
|---|---|---|
| `claim_block` | `docs/risk_constraints.md`: block "blocks **all primary decisions**" of the event | annotations are skipped and stay allowed |
| `claim_pins` | `docs/dsl_v2.0.md`: `indicators.referenced` holds the versions "referenced by the executed rules" | those of risk rules are dropped, so replay cannot refuse another version of them |
| `claim_duplicates` | `docs/option_chain_context.md`: "duplicate `contract_id` within a group is rejected" | ids are compared as texts, and one contract has several |
| `claim_strings` | `docs/impl_notes/phase_b_deterministic_evaluation.md`: "string supports `==` / `!=` only" | strings are made decimals first, so comparing them raises |
| `claim_bool` | `docs/dsl_quickstart.md`: "conditions must type as `Bool`" | `1 1 1` parses, has no type, and is accepted |

Also met while modelling, and not given a run: `trace_ref` holds a rule's name,
which need not be unique, though `docs/dsl_v2.0.md` calls it a "stable linkage into
trace data"; the option evaluator has no code for the constraint verbs the risk
profile allows; `ema` smooths from the first bar whatever its length, while its
docstring (`indicators.py:119`) seeds it with "first value in the window"; a pack
with a missing file is refused as unreadable (`SD631`) and not by the report of the
missing file.

## 5. The theorems

All are checked by TLAPS from nothing, for every value of the constants allowed
by the named assumptions, and every run that uses these modules evaluates those:

| Assumption | Says |
|---|---|
| `QuantityAssumption`, `NoneAssumption` of `Decisions` | quantities are bounded integers, None is none of them |
| `InputsAssumption`, `ArgsAssumption`, `AbsentAssumption` | the inputs of an evaluation are records of the declared types, positions in a pack are distinct, a chain has no risk pack; None is neither a result nor a running rule |
| `EventIntentsAssumption` | a cancel has no quantity |
| `StreamsAssumption`, `NoneIsNoNumber`, `NoneIsNoBlockers` | a stream is a sequence of lines, None is no number, and every line names a set of blockers |
| `LibraryAssumption` | finitely many modules, whose names are numbers in the order they sort in |
| `PackAssumption` | no manifest is the mark for "no pack" |
| `DataAssumption`, `EarlierAssumption`, `NoneAssumption` of `RunLog` | types; a file found is a log, a torn one or none; a missing or torn file is no log |
| `ContractAssumption`, `RowsAssumption` | types of contracts, spellings and rows; the canonical order of contracts tells contracts apart |
| `UnknownAssumption` | Unknown is no integer |
| `LevelsAssumption`, `TokensAssumption` | the bound on recursion is a number; names, literals, parentheses, the dot and the end are different tokens |
| `LiteralTypeAssumption`, `LiteralValueAssumption`, `NumberOfStringAssumption` | a literal has one of the literal types and a value of that type; a string that reads as a number has one |
| `TasksAssumption`, `EventsAssumption`, `MetricValuesAssumption` | types of tasks; an event is one of the three contexts, with the fields its context has; metrics are numbers |

**`EventIntentsProofs`.** First the operators. `Beats` is a strict total order on intents with
distinct ids, so every nonempty set has a winner: the least id among the largest
sizes among the highest ranks, each found by `LeastNatural` (the order of the
naturals is well-founded). From that,
`EffectiveIsUnbeaten`: an intent is in effect exactly when no *rival* beats it,
where the rivals of an intent are its equals, the cancels of its symbol and the
declares of its symbol and kind. The two-stage procedure of the code thus has a
one-line description, and the other results follow from it.
`UltimateWinnerIsStronger` says where `overridden_by` leads in the end: to a cancel of
the symbol, or to a declare of the kind that is at least as large.

Then the state machine: `LosersPointToWinnersAlways`,
`ResolutionIsStableAlways`, `LosersAreIrrelevantAlways`,
`DisplacedOnlyByWinnerAlways` and `OrderOnlyEverBreaksTies`: the properties of the
run `event_intents` for any number of intents. The invariant `Numbered` is that the
raw intents are numbered 1 to their count. For the order, an intent and its image
under another numbering are compared: where one is in effect and the other not, the
winner there is of the same rank and size.

**`EvaluatorProofs`.** First `TypeCorrect` (with `IdsIssued`: whatever names a decision
names an id handed out), `LookupAlwaysConsistent` and
`ClosedEventsAlwaysFrozen`. None of the three is inductive. The invariant `IInv`
adds that every intent has an action and a quantity resolution can compare, that
no decision carries an event index beyond the current one, and (`Marked`) that
the indices in `intents` and the ids in `constraints` point to decisions of the
current event of the right kind. `Marked` is why the write-backs of resolution
stay within the event; for enforcement it is the event index test of
`applied_blocks_for_event` together with the lookup table.

`TraceAlwaysComplete` needs more: that what the loops have recorded of the open event
(the traces so far and the rule that is running) lists the decisions of that event
(`Traced`; `Reports` says what it is for traces to list them).

`ResolutionAlwaysSound`, `GateAlwaysExact` and `RunRefinesLedger` rest on
`LedgerInvariant`. Its invariant `LInv` follows the batch of the open event through the
phases: before resolution every intent is in effect and names no winner (`Raw`), before
enforcement every decision is allowed (`Ungated`), after each the batch is resolved or
gated as `DecisionLedger` asks (`OpenBatchSound`), the lists the phases read hold all the
intents and all the constraints of the batch (`Collected`), and the batches of the
closed events are as they were closed (`SettledPrefix`). That resolution is right comes from
`EffectiveIsUnbeaten`; that enforcement is right from a lemma on one decision
(`EnforcedIsExact`), as what a constraint forbids depends on nothing enforcement writes;
that the one cap that is named answers for the others is what `TightestCap` keeps.
`RunRefinesLedger` then has one step for each action: closing an event appends its batch,
the return shows the ledger, an error hides it, and everything else stutters.

**`PlannerProofs`.** `PlannerTypeCorrect` and `AlwaysFailsClosed` rest on the invariant
`PInv`: every collected intent is in effect, every plan made so far is cleared if it is
planned, and what is returned is those plans. `AlwaysOrderedByContent`,
`AlwaysAllOrNothing` and `ReasonsAlwaysMatchBlockers` rest on `PlannerInvariant`, whose
`OInv` claims a witness (`Lines`): a function from plans to lines of the stream, in the
order of the sort, that reaches every intent in effect that is no longer waiting unless
something was refused. A returned plan list is then a bijection with those intents.

**`RunLogProofs`.** `RunLogTypeCorrect` and `ReplayAlwaysFaithful`. The invariant `RInv`
says how far a run has come (what it has read at each `job`, that its result is the
evaluation of what it read) and that a log not edited otherwise holds the run's hashes,
events and indicators (`RunsLog`), or is torn; an edit of a text or of the profile keeps
them. A replay that accepts has texts equal to the hashes, so it evaluates the same
rules, each of which the profile it replays with admits; and an engine that has every
version the log names gives the rules that run the same values (`SameReferences`).
`ReturnedRunsAlwaysReplay` is the other direction, that a replay does accept.
`LogInvariant` adds what the run has checked by then, which a replay checks again
(`Checked`), and that the file is the log it wrote while nobody edits it (`Written`).
`EarlierLogAlwaysKept` is an action property.

**`PacksProofs`.** First the depth-first walk over libraries of any size.
`WalkKeepsTypes`, `ReportedCyclesAreCycles`, `MarksAlwaysMatch` (a module is on the stack
at most once, so the recursion is bounded by the number of modules),
`ReturnedListIsClosure`, `RejectedExactlyForCycles`, and from them the properties of the
run: `ClosureAlwaysInImportOrder` and `AlwaysRejectedIffCyclic`. What is reachable
(`ReachIn`) is defined without recursion, as what is in every set closed under imports.
The invariant `WInv` adds to types and marks that
as long as no cycle was met an import of a module under way waits, is done, or is the
next frame of the stack (`ImportsUnderWay`), from which the order of the list follows
when the frame is left. That every reported cycle is in the import closure is an
invariant of its own (`CyclesAreReached`).

Then `AcceptedPacksAreAlwaysWhole`, for any number of edits. The invariant
(`PackInvariant`) is that of the walk, that the pack was made of an import closure, and
that edits keep the shape of files and manifest. That an accepted pack runs asks for a
witness, a rank that falls along every import; it is the number of modules reached
from a module, and that it falls is the absence of cycles.

**`SnapshotProofs`.** `NoRowIsEverLost`, `RowOrderIsIrrelevant`,
`SelectionAlwaysFindsItsContract`, `OtmRanksAlwaysAscend` and `MetricsAlwaysAgree`, for
files of any length. The
state is only a file, so the invariant says no more than that it is one; the work is in
the operators. Sorting is counting there, and `RanksTaken` says once for chains and
rankings what makes it a sort: in a total order each rank from 1 to the number of members
is taken, by one member. For the order of the rows, two files that are each other's
rearrangement (`Rearranges`) have groups, kept rows and places that are carried over by
the rearrangement. The metrics sum with a running sum, as the code's loop does. That it
exists for every length and that sums add (`SumsExist`, `SumsAdd`) are inductions over the
length, made from the well-foundedness of the naturals: a least length at which the
statement fails would have a predecessor at which it holds (`Successors`).

**`FrontEndProofs`.** `TypeOKAlways`, `UnknownNeverDecidesAlways`,
`AcceptedExpressionsRunAlways` and `UnknownsFailClosedAlways`, for texts of any length
over any vocabulary, any recursion limit and any events. The invariant `Written` says
that the state is a text or a list of lines and what the parser makes of it; the work is
again in the operators, and it has four layers.

*Loops and walks.* `Recursion` says that each loop and each walk of the model is a
function with the equations the code's recursion has (`Recurs`, with a `Turn` for each
of them), and `LoopKeeps` that a loop keeps what its step keeps.

*What the parser makes.* A set of nodes is `Grown` if each member has the shape of its
kind and its kids in the set; a tree is a member of such a set (`IsTree`). Every
function of the parser returns a tree or nothing (`ParseUntilWhole`, `VerbCallCalled`),
so a statement about trees is proved from node to kids, over the levels of the walk
(`EvalGoesDown`, `InferGoesDown`).

*Unknown metrics and types.* `UnknownNeverDecides` is monotonicity: `Sharper` compares
what a node comes out as before and after metrics become known, node kind by node kind.
Type soundness (`Sound`) says that a tree that is typed comes out as its type says, or
as a missing field, a division by zero, or in a chain Unknown (`Fine`). Four facts
carry it: the fields of each context have the values their types announce
(`FieldsFine`), a type once found stays whatever recursion is left (`TypeSteady`), the
guards hold wherever evaluation gets to (`ReachedDeeper`), and an argument list that
names as many names as it has arguments names none twice (`NamedOnce`, a surjection
between sets of one size).

*Dots and attributes.* `UnknownsFailClosed` relates the tree, in which
`mentions_quality` looks, to the text, in which the author wrote a field. Every dot the parser
passes is that of an attribute of the tree, and every attribute has its dot, with the
name of its base before it but for closing parentheses (`Traced`, which holds of what
each function of the parser returns; `Dotted` and `Covered` are its two directions).
In a tree that types in a chain every attribute is that of a name (`TreePlain`), so the
two readings agree (`MentionedIsNamed`, `NamedIsMentioned`). `ChainBranchPicks` says what
the loop over the branches takes: the first that decides.

Three definitions had to change because their proofs failed. `abs` of an Unknown
was modelled as an exception, and is Unknown. `DottedName` was the name up to the wrong
attribute where there are several. `QualityNamed` overlooked `(chain).is_fresh`, a field
with parentheses around its base: TLC finds the old definition violated, now that a
vocabulary holds it.

**`BlocksProofs`.** `BlocksFollowIndentationAlways`: a file with any number of lines, of
any indentation, is accepted exactly if it is `WellFormed`, and then its imports, rules and
branches are those its indentation says. The invariant `FileWritten` again only says that
the lines are lines and `parsed` is what the parser makes of them; `BlocksRead` is the rest,
for every list of lines. It goes in two halves.

*The lexer.* `d[k]` is how many levels are on the indentation stack at line `k`, `a[k]`
where its token is. These two lay out the whole token sequence (`LexLaid`): between two
lines there is one INDENT or the DEDENTs that bring the levels down, and nothing else.
Levels say which line a line is under. If no line was bad, that is its parent by
indentation, and two lines of a block are indented alike (`GoodBlocks`). If one was, then
the first bad line and the first line of the block it lands in have one parent and two
indentations (`FirstBad`), so the file is not well formed (`BadBlocks`).

*The parser.* It is read against the layout, function by function and, for its three
loops, turn by turn: `LoopGoes` takes what can be there before a turn (`ThensGo`,
`ElifGo`, `TopGo`) to the same of more lines, or to what is there at the end. Each step
either reads what the declarative side lists next, or something has been reported and
the file is not well formed (`Wrong`); what was reported stays reported (`ThensWrong` to
`TopStepWrong`). So nothing has to be shown of how the parser recovers: after a first
report it only has to keep it. The lists on the declarative side grow line by line with
`InOrder`, a recursive function.

Model-checked only, and why:

- liveness: `Terminates` and `WalkEnds`. The provers do not reach fairness.
- `ParsesAsGrammar`. The grammar it compares with is recursive over intervals of the
  text (`ExpressionGrammar`), and what a RECURSIVE operator computes is out of reach.
- `IndicatorsFollowBars`. That averages and ratios stay within what the bars span is
  nonlinear arithmetic over sequences of fractions.

## 6. Plan

The parts of the system with behaviour of their own are modelled, and every safety
property of the runs is a theorem but `ParsesAsGrammar` and `IndicatorsFollowBars`
(section 5). What could follow, in this order:

1. The safety half of termination: a measure of `Evaluator` and of `ImportClosure` that
   every step lowers, which leaves to fairness only that steps are taken.
2. That the loaders agree with each other on a file two of them accept.

## 7. Not modelled

Reading and writing text (CSV, JSON, zip), how a line is cut into tokens, the
wording and order of diagnostics, argument parsing and exit codes. The rounding of
decimals to 28 digits and of indicators to eight places. The report of two files
with one module name (SD602). `blocked_by` is a set: that D10000 sorts before D9999
as a string is not visible.

The parity harness (`parity.py`) keeps no state: it evaluates each prefix of the
events, emits the decisions it has not seen, and compares the text with the full
run's and a replay's. That they agree is `ClosedEventsFrozen` and `RefinesLedger` for
prefixes (the ledger of a prefix is a prefix of the ledger) and `ReplayFaithful` for
replay. Reports, explain, diff and profile read a finished result, count and print.
