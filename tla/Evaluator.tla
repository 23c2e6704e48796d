------------------------------ MODULE Evaluator -----------------------------
(***************************************************************************)
(* One evaluation run: the rules of a pack are evaluated over the events   *)
(* of an input, in order, and emit decisions                               *)
(* (evaluator.py: evaluate_underlying, evaluate_option, evaluate_chain).   *)
(* Per event:                                                              *)
(*                                                                         *)
(*   primary  every rule of the context, in order, selects a branch and    *)
(*            runs its actions, each action appending one decision;        *)
(*   resolve  the event's intents are resolved (IntentResolution);         *)
(*   risk     the rules of the risk pack, if one is given, do the same;    *)
(*   enforce  the constraints they emitted block decisions of the event    *)
(*            (RiskConstraints);                                           *)
(*   close    the event's trace is appended and the next event begins.     *)
(*                                                                         *)
(* An EvalError anywhere leaves the run without a result.                  *)
(*                                                                         *)
(* What an expression evaluates to is nondeterministic: a condition may be *)
(* true, false, (in a chain) Unknown, or raise; the arguments of an action *)
(* are any of the given ones, or raise.  No condition and no action is     *)
(* evaluated twice at an event, so the choice need not be remembered.      *)
(***************************************************************************)
EXTENDS IntentResolution, RiskConstraints, Sequences, FiniteSets

CONSTANTS
  Inputs,       (* The runs considered: members of Input.                  *)
  DeclareArgs,  (* Arguments declare_intent may be called with.            *)
  CapQty        (* Arguments constrain_max_position may be called with.    *)

Context == {"underlying", "option", "chain"}

(* Order is CompiledRule.order_key (file, index in file, name), as a       *)
(* number: the code sorts both packs by it, so the model visits a set of   *)
(* rules in this order.  A branch's quality flag says whether its          *)
(* condition mentions a chain quality field.                               *)
Branch == [kind: {"when", "elif", "else"}, quality: BOOLEAN, actions: Seq(Verb)]

CompiledRule ==
  [order: Nat, name: RuleName, context: Context, branches: Seq(Branch)]

Event == [index: Nat, symbol: Symbol, unknowns: BOOLEAN]

Input ==
  [context: Context, profile: Profile, events: Seq(Event),
   rules: SUBSET CompiledRule, risk: SUBSET CompiledRule]

OrderedPack(rules) ==
  \A r, s \in rules : r.order = s.order => r = s

ASSUME InputsAssumption ==
  /\ Inputs \subseteq Input
  /\ \A in \in Inputs :
       /\ OrderedPack(in.rules) /\ OrderedPack(in.risk)
       /\ in.context = "chain" => in.risk = {}

ASSUME ArgsAssumption ==
  /\ DeclareArgs \subseteq [ikind : IntentKind,
                            qty   : Quantity \union {None},
                            pct   : Percent \union {None}]
  /\ CapQty \subseteq Quantity

VARIABLES
  input,       (* The run's input.                                         *)
  phase,       (* Where the run is.                                        *)
  pos,         (* Events closed so far: the position of the current one.   *)
  todo,        (* Rules still to be evaluated in the current phase.        *)
  current,     (* The rule whose actions are running, or None.             *)
  counter,     (* decision_counter                                         *)
  decisions,   (* decisions                                                *)
  indexOf,     (* decision_index_by_id, with indexes counted from 1        *)
  intents,     (* event_intent_indices, likewise                           *)
  effective,   (* effective_intent_ids                                     *)
  constraints, (* ids of risk_constraints                                  *)
  ruleTraces,  (* rule_traces, then risk_rule_traces, of the event         *)
  eventTraces, (* event_traces                                             *)
  result       (* The EvalResult, or None.                                 *)

vars == <<input, phase, pos, todo, current, counter, decisions, indexOf,
          intents, effective, constraints, ruleTraces, eventTraces, result>>

eventVars == <<intents, effective, constraints>>
ledgerVars == <<counter, decisions, indexOf>>

Phase == {"event", "primary", "risk", "close", "done", "failed"}

Running == [rule: CompiledRule, script: Seq(Verb), emitted: Seq(Nat)]

RuleTrace == [rule: RuleName, emitted: Seq(Nat)]

EventTrace == [index: Nat, rules: Seq(RuleTrace)]

EvalResult == [decisions: Seq(Decision), trace: Seq(EventTrace)]

ASSUME AbsentAssumption == None \notin (EvalResult \union Running)

(* Whatever names a decision names an id next_id has handed out.           *)
EmitsIssued(rules) ==
  \A r \in 1 .. Len(rules) : \A k \in 1 .. Len(rules[r].emitted) :
    rules[r].emitted[k] \in 1 .. counter

IdsIssued ==
  /\ effective \subseteq 1 .. counter
  /\ \A i \in 1 .. Len(decisions) :
       /\ decisions[i].over \in 1 .. counter \union {None}
       /\ decisions[i].by \subseteq 1 .. counter
  /\ current # None =>
       \A k \in 1 .. Len(current.emitted) : current.emitted[k] \in 1 .. counter
  /\ EmitsIssued(ruleTraces)
  /\ \A e \in 1 .. Len(eventTraces) : EmitsIssued(eventTraces[e].rules)

TypeOK ==
  /\ input \in Inputs
  /\ phase \in Phase
  /\ pos \in Nat
  /\ todo \subseteq (input.rules \union input.risk)
  /\ current \in Running \union {None}
  /\ counter \in Nat
  /\ decisions \in Seq(Decision)
  /\ indexOf \in [1 .. Len(decisions) -> Nat]
  /\ intents \subseteq 1 .. Len(decisions)
  /\ constraints \subseteq 1 .. Len(decisions)
  /\ ruleTraces \in Seq(RuleTrace)
  /\ eventTraces \in Seq(EventTrace)
  /\ result \in {None} \union EvalResult
  /\ IdsIssued

-----------------------------------------------------------------------------
Ev == input.events[pos + 1]

InContext(rules) == {r \in rules : r.context = input.context}

IsNext(r) == r \in todo /\ \A s \in todo : r.order <= s.order

Init ==
  /\ input \in Inputs
  /\ phase = "event"
  /\ pos = 0
  /\ todo = {}
  /\ current = None
  /\ counter = 0
  /\ decisions = <<>>
  /\ indexOf = <<>>
  /\ intents = {}
  /\ effective = {}
  /\ constraints = {}
  /\ ruleTraces = <<>>
  /\ eventTraces = <<>>
  /\ result = None

(* The exception leaves the evaluator; what it had built is dropped.       *)
Raise ==
  /\ phase' = "failed"
  /\ UNCHANGED <<input, pos, todo, current, ledgerVars, eventVars, ruleTraces,
                 eventTraces, result>>

(* Wrong: the intents of the event before are resolved again.              *)
BeginEventKeepIntents ==
  /\ phase = "event"
  /\ pos < Len(input.events)
  /\ Ev.index = pos
  /\ phase' = "primary"
  /\ todo' = InContext(input.rules)
  /\ effective' = {}
  /\ constraints' = {}
  /\ ruleTraces' = <<>>
  /\ UNCHANGED <<input, pos, current, ledgerVars, intents, eventTraces, result>>

BeginEvent ==
  /\ phase = "event"
  /\ pos < Len(input.events)
  /\ Ev.index = pos
  /\ phase' = "primary"
  /\ todo' = InContext(input.rules)
  /\ intents' = {}
  /\ effective' = {}
  /\ constraints' = {}
  /\ ruleTraces' = <<>>
  /\ UNCHANGED <<input, pos, current, ledgerVars, eventTraces, result>>

IndexMismatch ==
  /\ phase = "event"
  /\ pos < Len(input.events)
  /\ Ev.index # pos
  /\ Raise

-----------------------------------------------------------------------------
(* Branch selection: the first branch whose condition is true.  In a chain *)
(* snapshot with unknowns, a condition that mentions no quality field does *)
(* not match and the else branch is disabled; a condition that comes out   *)
(* Unknown does not match either.                                          *)

HasUnknowns == input.context = "chain" /\ Ev.unknowns

Selectable(br) ==
  HasUnknowns => br.kind # "else" /\ br.quality

Exhaustible(r) ==
  \A b \in DOMAIN r.branches :
    r.branches[b].kind = "else" => ~Selectable(r.branches[b])

SelectBranch ==
  /\ phase \in {"primary", "risk"} /\ current = None
  /\ \E r \in todo : \E b \in DOMAIN r.branches :
       /\ IsNext(r)
       /\ Selectable(r.branches[b])
       /\ current' = [rule |-> r, script |-> r.branches[b].actions, emitted |-> <<>>]
       /\ todo' = todo \ {r}
  /\ UNCHANGED <<input, phase, pos, ledgerVars, eventVars, ruleTraces,
                 eventTraces, result>>

NoBranchMatches ==
  /\ phase \in {"primary", "risk"} /\ current = None
  /\ \E r \in todo :
       /\ IsNext(r)
       /\ Exhaustible(r)
       /\ ruleTraces' = Append(ruleTraces, [rule |-> r.name, emitted |-> <<>>])
       /\ todo' = todo \ {r}
  /\ UNCHANGED <<input, phase, pos, current, ledgerVars, eventVars,
                 eventTraces, result>>

(* A condition that is not an else's may raise (a missing field, a value   *)
(* of the wrong type), unless the chain policy skips it.                   *)
PredicateRaises ==
  /\ phase \in {"primary", "risk"} /\ current = None
  /\ \E r \in todo : \E b \in DOMAIN r.branches :
       IsNext(r) /\ r.branches[b].kind # "else" /\ Selectable(r.branches[b])
  /\ Raise

-----------------------------------------------------------------------------
(* Actions of the selected branch.                                         *)

PhaseProfile == IF phase = "risk" THEN "risk" ELSE input.profile

(* Verbs the phase has code for.                                           *)
Supported ==
  IF phase = "risk"
  THEN {"annotate", "constrain_max_position", "block"}
  ELSE {"emit_signal", "annotate", "declare_intent", "cancel_intent"}
         \union (IF input.context = "underlying"
                 THEN {"constrain_max_position", "block"} ELSE {})

NoArgs == [ikind |-> None, qty |-> None, pct |-> None]

ArgsOf(verb) ==
  CASE verb = "declare_intent"         -> DeclareArgs
    [] verb = "constrain_max_position" -> {[NoArgs EXCEPT !.qty = q] : q \in CapQty}
    [] OTHER                           -> {NoArgs}

NewDecision(verb, args) ==
  [id |-> counter + 1, verb |-> verb, profile |-> PhaseProfile,
   rule |-> current.rule.name, act |-> Len(current.emitted),
   event |-> Ev.index, symbol |-> Ev.symbol,
   action |-> CASE verb = "declare_intent" -> "declare"
                [] verb = "cancel_intent"  -> "cancel"
                [] OTHER                   -> None,
   ikind |-> args.ikind, qty |-> args.qty, pct |-> args.pct,
   ckind |-> CASE verb = "block"                  -> "block"
               [] verb = "constrain_max_position" -> "max_position"
               [] OTHER                           -> None,
   eff |-> TRUE, over |-> None, status |-> "allowed", by |-> {}]

(* The index decision_index_by_id and event_intent_indices record for the  *)
(* decision being appended.  The first variant is wrong: taken before.     *)
AppendedAtBefore == Len(decisions)

AppendedAt == Len(decisions) + 1

Emit ==
  /\ phase \in {"primary", "risk"} /\ current # None
  /\ current.script # <<>>
  /\ LET verb == Head(current.script) IN
     /\ verb \in AllowedVerbs(PhaseProfile) \intersect Supported
     /\ \E args \in ArgsOf(verb) :
          decisions' = Append(decisions, NewDecision(verb, args))
     /\ counter' = counter + 1
     /\ indexOf' = [id \in 1 .. counter + 1 |->
                      IF id = counter + 1 THEN AppendedAt ELSE indexOf[id]]
     /\ current' = [current EXCEPT !.script = Tail(@),
                                   !.emitted = Append(@, counter + 1)]
     /\ intents' = IF KindOf(verb) = "intent"
                   THEN intents \union {AppendedAt} ELSE intents
     /\ constraints' = IF phase = "risk" /\ KindOf(verb) = "constraint"
                       THEN constraints \union {counter + 1} ELSE constraints
  /\ UNCHANGED <<input, phase, pos, todo, effective, ruleTraces, eventTraces,
                 result>>

(* A verb outside the profile's allowlist, or one the phase has no code    *)
(* for; or an argument that raises or has the wrong type.                  *)
VerbRefused ==
  /\ phase \in {"primary", "risk"} /\ current # None
  /\ current.script # <<>>
  /\ Head(current.script) \notin AllowedVerbs(PhaseProfile) \intersect Supported
  /\ Raise

ArgumentRaises ==
  /\ phase \in {"primary", "risk"} /\ current # None
  /\ current.script # <<>>
  /\ Head(current.script) \in AllowedVerbs(PhaseProfile)
  /\ Raise

(* Wrong: the traces of the risk rules are not added to the event's.       *)
EndRuleNoRiskTrace ==
  /\ phase \in {"primary", "risk"} /\ current # None
  /\ current.script = <<>>
  /\ ruleTraces' = IF phase = "risk" THEN ruleTraces
                   ELSE Append(ruleTraces, [rule    |-> current.rule.name,
                                            emitted |-> current.emitted])
  /\ current' = None
  /\ UNCHANGED <<input, phase, pos, todo, ledgerVars, eventVars, eventTraces,
                 result>>

EndRule ==
  /\ phase \in {"primary", "risk"} /\ current # None
  /\ current.script = <<>>
  /\ ruleTraces' = Append(ruleTraces,
                          [rule |-> current.rule.name, emitted |-> current.emitted])
  /\ current' = None
  /\ UNCHANGED <<input, phase, pos, todo, ledgerVars, eventVars, eventTraces,
                 result>>

-----------------------------------------------------------------------------
RawIntents == {decisions[i] : i \in intents}

ResolveIntents ==
  /\ phase = "primary" /\ current = None /\ todo = {}
  /\ decisions' = [i \in 1 .. Len(decisions) |->
                     IF i \in intents THEN Resolved(RawIntents, decisions[i])
                                      ELSE decisions[i]]
  /\ effective' = {d.id : d \in Effective(RawIntents)}
  /\ phase' = IF input.risk = {} THEN "close" ELSE "risk"
  /\ todo' = InContext(input.risk)
  /\ UNCHANGED <<input, pos, current, counter, indexOf, intents, constraints,
                 ruleTraces, eventTraces, result>>

(* The decisions handed to applied_blocks_for_event.                       *)
PrimaryForRisk ==
  LET all == {decisions[i] : i \in 1 .. Len(decisions)}
  IN  IF effective = {} THEN all
      ELSE {d \in all : IsIntent(d) => d.id \in effective}

RiskConstraintDecisions == {decisions[indexOf[id]] : id \in constraints}

EnforceConstraints ==
  /\ phase = "risk" /\ current = None /\ todo = {}
  /\ LET blocks  == AppliedBlocks(PrimaryForRisk, RiskConstraintDecisions, Ev.index)
         hits(i) == {id \in DOMAIN blocks : indexOf[id] = i}
     IN  decisions' = [i \in 1 .. Len(decisions) |->
                         IF hits(i) = {} THEN decisions[i]
                         ELSE [decisions[i] EXCEPT
                                 !.status = "blocked",
                                 !.by = UNION {blocks[id] : id \in hits(i)}]]
  /\ phase' = "close"
  /\ UNCHANGED <<input, pos, todo, current, counter, indexOf, eventVars,
                 ruleTraces, eventTraces, result>>

CloseEvent ==
  /\ phase = "close"
  /\ eventTraces' = Append(eventTraces, [index |-> Ev.index, rules |-> ruleTraces])
  /\ pos' = pos + 1
  /\ phase' = "event"
  /\ UNCHANGED <<input, todo, current, ledgerVars, eventVars, ruleTraces, result>>

(* Two wrong variants: the run may stop before its last event, or it looks *)
(* for one more.                                                           *)
ReturnPastEnd ==
  /\ phase = "event"
  /\ pos = Len(input.events) + 1
  /\ phase' = "done"
  /\ result' = [decisions |-> decisions, trace |-> eventTraces]
  /\ UNCHANGED <<input, pos, todo, current, ledgerVars, eventVars, ruleTraces,
                 eventTraces>>

ReturnEarly ==
  /\ phase = "event"
  /\ phase' = "done"
  /\ result' = [decisions |-> decisions, trace |-> eventTraces]
  /\ UNCHANGED <<input, pos, todo, current, ledgerVars, eventVars, ruleTraces,
                 eventTraces>>

Return ==
  /\ phase = "event"
  /\ pos = Len(input.events)
  /\ phase' = "done"
  /\ result' = [decisions |-> decisions, trace |-> eventTraces]
  /\ UNCHANGED <<input, pos, todo, current, ledgerVars, eventVars, ruleTraces,
                 eventTraces>>

Next ==
  \/ BeginEvent \/ IndexMismatch
  \/ SelectBranch \/ NoBranchMatches \/ PredicateRaises
  \/ Emit \/ VerbRefused \/ ArgumentRaises \/ EndRule
  \/ ResolveIntents \/ EnforceConstraints \/ CloseEvent \/ Return

(* The evaluator is a sequential function over finite lists: it keeps      *)
(* taking its next step.                                                   *)
Spec == Init /\ [][Next]_vars /\ WF_vars(Next)

-----------------------------------------------------------------------------
(* The decisions of closed events: what evaluating just those events would *)
(* have returned.                                                          *)
SettledCount ==
  Cardinality({i \in 1 .. Len(decisions) : decisions[i].event < pos})

Batch(e) == {decisions[i] : i \in {j \in 1 .. Len(decisions) : decisions[j].event = e}}

Ledger == INSTANCE DecisionLedger WITH
  total     <- Len(input.events),
  ledger    <- SubSeq(decisions, 1, SettledCount),
  closed    <- pos,
  verdict   <- CASE phase = "done"   -> "returned"
                 [] phase = "failed" -> "raised"
                 [] OTHER            -> "running",
  output    <- IF result = None THEN None ELSE result.decisions

(* Every id is the position of its decision, also through the lookup table *)
(* enforcement goes by, so that blocking an id blocks that decision; ids   *)
(* have no gaps, over all events and both phases.  (decision_index_by_id,  *)
(* next_id)                                                                *)
LookupConsistent ==
  /\ counter = Len(decisions)
  /\ \A i \in 1 .. Len(decisions) : decisions[i].id = i /\ indexOf[i] = i

(* At every closed event, each overridden intent names an intent of its    *)
(* symbol that is in effect and that the conflict policy puts above it; a  *)
(* cancel in effect is the only intent of its symbol in effect, and of the *)
(* declares at most one per kind is.  (resolve_intents_for_event and its   *)
(* write-back into decisions)                                              *)
ResolutionSound == \A e \in 0 .. pos - 1 : Ledger!ResolvedBatch(Batch(e))

(* At every closed event, a decision is blocked exactly when a constraint  *)
(* the risk phase emitted at this event forbids it, whichever of several   *)
(* constraints the summary kept; an overridden intent, an annotation and a *)
(* constraint never are.  A blocked decision names constraints that forbid *)
(* it only: every block, and of the caps that do one that none is tighter  *)
(* than.  (applied_blocks_for_event and its write-back)                    *)
GateExact == \A e \in 0 .. pos - 1 : Ledger!GatedBatch(Batch(e))

(* The traces of the closed events list the id of every decision of the    *)
(* event once, in the order the decisions were emitted, primary rules      *)
(* before risk rules, each under the rule and at the place of the action   *)
(* that emitted it: what explain looks a decision's rule up by.            *)
(* (RuleTrace.decisions_emitted, EventTrace.rules, Decision.trace_ref)     *)
Reports(D, rules, e) ==
  /\ \A r \in 1 .. Len(rules) : \A k \in 1 .. Len(rules[r].emitted) :
       /\ rules[r].emitted[k] \in 1 .. Len(D)
       /\ D[rules[r].emitted[k]].event = e
       /\ D[rules[r].emitted[k]].rule = rules[r].rule
       /\ D[rules[r].emitted[k]].act = k - 1
  /\ \A i \in 1 .. Len(D) :
       D[i].event = e => \E r \in 1 .. Len(rules) :
                           \E k \in 1 .. Len(rules[r].emitted) :
                             rules[r].emitted[k] = i
  /\ \A r, s \in 1 .. Len(rules) :
       \A k \in 1 .. Len(rules[r].emitted), l \in 1 .. Len(rules[s].emitted) :
         (r < s \/ (r = s /\ k < l)) => rules[r].emitted[k] < rules[s].emitted[l]

TraceComplete ==
  \A e \in 1 .. Len(eventTraces) :
    /\ eventTraces[e].index = e - 1
    /\ Reports(decisions, eventTraces[e].rules, e - 1)

(* No later event changes a decision of a closed event: not its            *)
(* enforcement, not its resolution.  (the write-backs go by index and by   *)
(* id into one list shared by all events)                                  *)
ClosedEventsFrozen ==
  [][\A i \in 1 .. Len(decisions) :
       decisions[i].event < pos => decisions'[i] = decisions[i]]_vars

(* The run implements the ledger: append-only, settled batch by batch,     *)
(* returned whole or not at all.                                           *)
RefinesLedger == Ledger!Spec

(* Every run comes to an end.                                              *)
Terminates == <>(phase \in {"done", "failed"})

=============================================================================
