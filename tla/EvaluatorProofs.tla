--------------------------- MODULE EvaluatorProofs --------------------------
(***************************************************************************)
(* The evaluation run keeps its types, its ids and its lookup tables in    *)
(* step, and never touches a decision of a closed event, whatever the      *)
(* rules, the events and the values of the conditions.  It implements      *)
(* DecisionLedger: what it returns is one settled batch per event, the     *)
(* intents of a batch resolved among themselves and its decisions blocked  *)
(* exactly as the risk constraints of the batch say.  What resolution      *)
(* promises is taken from EventIntentsProofs.                              *)
(***************************************************************************)
EXTENDS Evaluator, EventIntentsProofs, SequenceTheorems, FiniteSetTheorems

-----------------------------------------------------------------------------
(* Sequences built by comprehension.                                       *)

LEMMA MappedSeq ==
  ASSUME NEW S, NEW n \in Nat, NEW f \in [1 .. n -> S]
  PROVE  f \in Seq(S) /\ Len(f) = n
<1>1. f \in Seq(S)
  BY SeqDef
<1>2. DOMAIN f = 1 .. n /\ DOMAIN f = 1 .. Len(f) /\ Len(f) \in Nat
  BY <1>1, LenProperties
<1> QED BY <1>1, <1>2

-----------------------------------------------------------------------------
(* The tightest cap exists, and is as tight as any.                        *)

LEMMA TightestCapIsCap ==
  ASSUME NEW C, NEW e, Caps(C, e) # {},
         \A c \in C : c.id \in Nat /\ c.qty \in Quantity \union {None}
  PROVE  /\ TightestCap(C, e) \in Caps(C, e)
         /\ \A o \in Caps(C, e) : TightestCap(C, e).qty <= o.qty
<1> DEFINE K == Caps(C, e)
           Room(c) == c.qty + MaxQty
           T == {Room(c) : c \in K}
<1>1. \A c \in K : c.id \in Nat /\ c.qty \in Int /\ Room(c) \in Nat
  BY QuantityAssumption DEF Caps, OfEvent, Quantity
<1>2. PICK a \in K : \A c \in K : Room(a) <= Room(c)
  <2>1. T \subseteq Nat /\ T # {}
    BY <1>1
  <2>2. PICK x \in T : \A y \in T : x <= y
    BY <2>1, LeastNatural
  <2> QED BY <2>2
<1> DEFINE L == {c \in K : c.qty = a.qty}
           U == {c.id : c \in L}
<1>3. PICK b \in L : \A c \in L : b.id <= c.id
  <2>1. U \subseteq Nat /\ U # {}
    BY <1>1
  <2>2. PICK x \in U : \A y \in U : x <= y
    BY <2>1, LeastNatural
  <2> QED BY <2>2
<1>4. \A o \in K : b.qty < o.qty \/ (b.qty = o.qty /\ b.id <= o.id)
  BY <1>1, <1>2, <1>3, QuantityAssumption
<1>5. /\ TightestCap(C, e) \in K
      /\ \A o \in K : \/ TightestCap(C, e).qty < o.qty
                      \/ TightestCap(C, e).qty = o.qty /\ TightestCap(C, e).id <= o.id
  BY <1>4 DEF TightestCap
<1> QED BY <1>1, <1>5

LEMMA BlockersAreIds ==
  ASSUME NEW C, NEW e, NEW d,
         \A c \in C : c.id \in Nat /\ c.qty \in Quantity \union {None}
  PROVE  Blockers(d, C, e) \subseteq {c.id : c \in OfEvent(C, e)}
<1>1. BlockAllIds(C, e) \subseteq {c.id : c \in OfEvent(C, e)}
  BY DEF BlockAllIds, Blocks, Unknown
<1>2. ExceedsCap(d, C, e) => TightestCap(C, e) \in OfEvent(C, e)
  BY TightestCapIsCap DEF ExceedsCap, Caps
<1> QED BY <1>1, <1>2 DEF Blockers

-----------------------------------------------------------------------------
(* The inductive invariant.                                                *)

Open == phase \in {"primary", "risk", "close"}

(* Only declares and cancels are intents.                                  *)
Shaped ==
  \A i \in 1 .. Len(decisions) :
    IsIntent(decisions[i]) => decisions[i].action \in {"declare", "cancel"}

(* While an event is open it is the one at pos; no decision is of a later  *)
(* event, and the marked intents are intents of this one.                  *)
Marked ==
  /\ pos <= Len(input.events)
  /\ Open => pos < Len(input.events) /\ Ev.index = pos
  /\ \A i \in 1 .. Len(decisions) : decisions[i].event <= pos
  /\ phase \in {"event", "done"} =>
       \A i \in 1 .. Len(decisions) : decisions[i].event < pos
  /\ Open =>
       \A i \in intents : IsIntent(decisions[i]) /\ decisions[i].event = pos

IInv == TypeOK /\ LookupConsistent /\ Shaped /\ Marked

-----------------------------------------------------------------------------
LEMMA InputType ==
  ASSUME IInv
  PROVE  /\ input.context \in Context
         /\ input.profile \in Profile
         /\ input.events \in Seq(Event)
         /\ input.rules \subseteq CompiledRule
         /\ input.risk \subseteq CompiledRule
         /\ Len(input.events) \in Nat
         /\ Open => Ev \in Event
<1>1. input \in Input
  BY InputsAssumption DEF IInv, TypeOK
<1>2. /\ input.context \in Context
      /\ input.profile \in Profile
      /\ input.events \in Seq(Event)
      /\ input.rules \subseteq CompiledRule
      /\ input.risk \subseteq CompiledRule
  BY <1>1 DEF Input
<1>3. Len(input.events) \in Nat
  BY <1>2, LenProperties
<1>4. Open => Ev \in Event
  <2>1. Open => pos + 1 \in 1 .. Len(input.events)
    BY <1>3 DEF IInv, Marked, TypeOK
  <2> QED BY <1>2, <2>1, ElementOfSeq DEF Ev
<1> QED BY <1>2, <1>3, <1>4

LEMMA DecisionsType ==
  ASSUME IInv
  PROVE  /\ Len(decisions) \in Nat
         /\ counter = Len(decisions)
         /\ \A i \in 1 .. Len(decisions) :
              /\ decisions[i] \in Decision
              /\ decisions[i].id = i
              /\ indexOf[i] = i
BY LenProperties, ElementOfSeq DEF IInv, TypeOK, LookupConsistent

LEMMA InitIInv == Init => IInv
<1> SUFFICES ASSUME Init PROVE IInv
  OBVIOUS
<1>1. Len(decisions) = 0 /\ decisions \in Seq(Decision)
  BY EmptySeq DEF Init
<1>2. ruleTraces \in Seq(RuleTrace) /\ eventTraces \in Seq(EventTrace)
  BY EmptySeq DEF Init
<1>3. indexOf \in [1 .. Len(decisions) -> Nat]
  BY <1>1 DEF Init
<1>7. IdsIssued
  BY <1>1 DEF Init, IdsIssued, EmitsIssued
<1>4. TypeOK
  BY <1>1, <1>2, <1>3, <1>7 DEF Init, TypeOK, Phase
<1>5. LookupConsistent /\ Shaped
  BY <1>1 DEF Init, LookupConsistent, Shaped
<1>6. Marked
  <2>1. input \in Input /\ input.events \in Seq(Event)
    BY InputsAssumption DEF Init, Input
  <2>2. Len(input.events) \in Nat
    BY <2>1, LenProperties
  <2> QED BY <1>1, <2>2 DEF Init, Marked, Open
<1> QED BY <1>4, <1>5, <1>6 DEF IInv

(* Every failing step only changes the phase.                              *)
LEMMA RaiseIInv ==
  ASSUME IInv, Raise
  PROVE  IInv'
<1>1. TypeOK'
  BY DEF IInv, TypeOK, Raise, Phase, ledgerVars, eventVars, IdsIssued, EmitsIssued
<1>2. LookupConsistent' /\ Shaped'
  BY DEF IInv, LookupConsistent, Shaped, Raise, ledgerVars, eventVars
<1>3. Marked'
  BY DEF IInv, Marked, Open, Raise, ledgerVars, eventVars
<1> QED BY <1>1, <1>2, <1>3 DEF IInv

LEMMA BeginEventIInv ==
  ASSUME IInv, BeginEvent
  PROVE  IInv'
<1>0. IdsIssued'
  <2>1. Len(ruleTraces') = 0
    BY DEF BeginEvent
  <2> QED BY <2>1 DEF IInv, TypeOK, IdsIssued, EmitsIssued, BeginEvent, ledgerVars
<1>1. TypeOK'
  BY <1>0, EmptySeq DEF IInv, TypeOK, BeginEvent, Phase, ledgerVars, InContext
<1>2. LookupConsistent' /\ Shaped'
  BY DEF IInv, LookupConsistent, Shaped, BeginEvent, ledgerVars
<1>3. Marked'
  BY DEF IInv, Marked, Open, Ev, BeginEvent, ledgerVars
<1> QED BY <1>1, <1>2, <1>3 DEF IInv

LEMMA SelectBranchIInv ==
  ASSUME IInv, SelectBranch
  PROVE  IInv'
<1>1. current' \in Running
  <2>1. PICK r \in todo : \E b \in DOMAIN r.branches :
          current' = [rule |-> r, script |-> r.branches[b].actions, emitted |-> <<>>]
    BY DEF SelectBranch
  <2>5. PICK b \in DOMAIN r.branches :
          current' = [rule |-> r, script |-> r.branches[b].actions, emitted |-> <<>>]
    BY <2>1
  <2>2. r \in CompiledRule
    BY InputType DEF IInv, TypeOK
  <2>3. r.branches \in Seq(Branch)
    BY <2>2 DEF CompiledRule
  <2>4. r.branches[b] \in Branch
    BY <2>3, LenProperties, ElementOfSeq
  <2> QED BY <2>5, <2>2, <2>4, EmptySeq DEF Running, Branch
<1>5. IdsIssued'
  <2>1. Len(current'.emitted) = 0
    BY DEF SelectBranch
  <2> QED BY <2>1 DEF IInv, TypeOK, IdsIssued, EmitsIssued, SelectBranch,
                      ledgerVars, eventVars
<1>2. TypeOK'
  BY <1>1, <1>5 DEF IInv, TypeOK, SelectBranch, ledgerVars, eventVars
<1>3. LookupConsistent' /\ Shaped'
  BY DEF IInv, LookupConsistent, Shaped, SelectBranch, ledgerVars, eventVars
<1>4. Marked'
  BY DEF IInv, Marked, Open, Ev, SelectBranch, ledgerVars, eventVars
<1> QED BY <1>2, <1>3, <1>4 DEF IInv

LEMMA TraceAppends ==
  ASSUME NEW r \in RuleName, NEW ids \in Seq(Nat), ruleTraces \in Seq(RuleTrace)
  PROVE  Append(ruleTraces, [rule |-> r, emitted |-> ids]) \in Seq(RuleTrace)
BY DEF RuleTrace

LEMMA IssuedAppends ==
  ASSUME EmitsIssued(ruleTraces), ruleTraces \in Seq(RuleTrace),
         NEW r, NEW ids, \A k \in 1 .. Len(ids) : ids[k] \in 1 .. counter,
         NEW t, t = Append(ruleTraces, [rule |-> r, emitted |-> ids])
  PROVE  EmitsIssued(t)
<1>1. Len(ruleTraces) \in Nat
  BY LenProperties
<1>2. /\ Len(t) = Len(ruleTraces) + 1
      /\ \A i \in 1 .. Len(ruleTraces) : t[i] = ruleTraces[i]
      /\ t[Len(ruleTraces) + 1].emitted = ids
  OBVIOUS
<1>3. ASSUME NEW i \in 1 .. Len(t)
      PROVE  \A k \in 1 .. Len(t[i].emitted) : t[i].emitted[k] \in 1 .. counter
  <2>1. CASE i = Len(ruleTraces) + 1
    BY <1>2, <2>1
  <2>2. CASE i # Len(ruleTraces) + 1
    <3>1. i \in 1 .. Len(ruleTraces) /\ t[i] = ruleTraces[i]
      BY <1>1, <1>2, <2>2
    <3> QED BY <3>1 DEF EmitsIssued
  <2> QED BY <2>1, <2>2
<1> QED BY <1>3 DEF EmitsIssued

LEMMA NoBranchMatchesIInv ==
  ASSUME IInv, NoBranchMatches
  PROVE  IInv'
<1>1. PICK r \in todo :
        /\ ruleTraces' = Append(ruleTraces, [rule |-> r.name, emitted |-> <<>>])
        /\ todo' = todo \ {r}
  BY DEF NoBranchMatches
<1>2. r \in CompiledRule
  BY InputType DEF IInv, TypeOK
<1>3. r.name \in RuleName
  BY <1>2 DEF CompiledRule
<1>4. ruleTraces' \in Seq(RuleTrace)
  BY <1>1, <1>3, TraceAppends, EmptySeq DEF IInv, TypeOK
<1>8. IdsIssued'
  <2>1. \A k \in 1 .. Len(<<>>) : <<>>[k] \in 1 .. counter
    OBVIOUS
  <2>2. EmitsIssued(ruleTraces) /\ ruleTraces \in Seq(RuleTrace)
    BY DEF IInv, TypeOK, IdsIssued
  <2>3. EmitsIssued(ruleTraces')
    BY <1>1, <2>1, <2>2, IssuedAppends
  <2> QED BY <2>3 DEF IInv, TypeOK, IdsIssued, EmitsIssued, NoBranchMatches,
                      ledgerVars, eventVars
<1>5. TypeOK'
  BY <1>1, <1>4, <1>8 DEF IInv, TypeOK, NoBranchMatches, ledgerVars, eventVars
<1>6. LookupConsistent' /\ Shaped'
  BY DEF IInv, LookupConsistent, Shaped, NoBranchMatches, ledgerVars, eventVars
<1>7. Marked'
  BY DEF IInv, Marked, Open, Ev, NoBranchMatches, ledgerVars, eventVars
<1> QED BY <1>5, <1>6, <1>7 DEF IInv

LEMMA EndRuleIInv ==
  ASSUME IInv, EndRule
  PROVE  IInv'
<1>1. current \in Running
  BY DEF IInv, TypeOK, EndRule
<1>2. current.rule.name \in RuleName /\ current.emitted \in Seq(Nat)
  BY <1>1 DEF Running, CompiledRule
<1>3. ruleTraces' \in Seq(RuleTrace)
  BY <1>2, TraceAppends DEF IInv, TypeOK, EndRule
<1>7. IdsIssued'
  <2>1. /\ \A k \in 1 .. Len(current.emitted) : current.emitted[k] \in 1 .. counter
        /\ EmitsIssued(ruleTraces) /\ ruleTraces \in Seq(RuleTrace)
    BY DEF IInv, TypeOK, IdsIssued, EndRule
  <2>2. ruleTraces' = Append(ruleTraces, [rule    |-> current.rule.name,
                                          emitted |-> current.emitted])
    BY DEF EndRule
  <2>3. EmitsIssued(ruleTraces')
    BY <2>1, <2>2, IssuedAppends
  <2> QED BY <2>3 DEF IInv, TypeOK, IdsIssued, EmitsIssued, EndRule,
                      ledgerVars, eventVars
<1>4. TypeOK'
  BY <1>3, <1>7 DEF IInv, TypeOK, EndRule, ledgerVars, eventVars
<1>5. LookupConsistent' /\ Shaped'
  BY DEF IInv, LookupConsistent, Shaped, EndRule, ledgerVars, eventVars
<1>6. Marked'
  BY DEF IInv, Marked, Open, Ev, EndRule, ledgerVars, eventVars
<1> QED BY <1>4, <1>5, <1>6 DEF IInv

-----------------------------------------------------------------------------
(* Emitting a decision.                                                    *)

LEMMA NewDecisionType ==
  ASSUME IInv, phase \in {"primary", "risk"}, current # None,
         NEW verb \in AllowedVerbs(PhaseProfile), NEW args \in ArgsOf(verb)
  PROVE  /\ NewDecision(verb, args) \in Decision
         /\ NewDecision(verb, args).id = counter + 1
         /\ NewDecision(verb, args).event = pos
         /\ NewDecision(verb, args).verb = verb
         /\ NewDecision(verb, args).over = None
         /\ NewDecision(verb, args).by = {}
         /\ verb \in Verb
         /\ KindOf(verb) = "intent" =>
              NewDecision(verb, args).action \in {"declare", "cancel"}
<1>1. PhaseProfile \in Profile
  BY InputType DEF PhaseProfile, Profile
<1>2. verb \in Verb
  BY <1>1 DEF AllowedVerbs, Profile, Verb
<1>3. current \in Running
  BY DEF IInv, TypeOK
<1>4. current.rule.name \in RuleName /\ Len(current.emitted) \in Nat
  BY <1>3, LenProperties DEF Running, CompiledRule
<1>5. Ev.index = pos /\ Ev.symbol \in Symbol /\ pos \in Nat /\ counter \in Nat
  BY InputType DEF IInv, TypeOK, Marked, Open, Event
<1>6. /\ args.ikind \in IntentKind \union {None}
      /\ args.qty \in Quantity \union {None}
      /\ args.pct \in Percent \union {None}
  BY ArgsAssumption DEF ArgsOf, NoArgs
<1>7. verb \in {"declare_intent", "cancel_intent"} <=> KindOf(verb) = "intent"
  BY <1>2 DEF KindOf, Verb
<1>8. /\ (CASE verb = "declare_intent" -> "declare"
            [] verb = "cancel_intent"  -> "cancel"
            [] OTHER                   -> None) \in {"declare", "cancel", None}
      /\ (CASE verb = "block"                  -> "block"
            [] verb = "constrain_max_position" -> "max_position"
            [] OTHER                           -> None)
           \in {"block", "max_position", None}
  OBVIOUS
<1>9. NewDecision(verb, args) \in Decision
  BY <1>1, <1>2, <1>4, <1>5, <1>6, <1>8 DEF NewDecision, Decision
<1>10. KindOf(verb) = "intent" =>
         NewDecision(verb, args).action \in {"declare", "cancel"}
  BY <1>7 DEF NewDecision
<1> QED BY <1>2, <1>5, <1>9, <1>10 DEF NewDecision

LEMMA EmitIInv ==
  ASSUME IInv, Emit
  PROVE  IInv'
<1> DEFINE n    == Len(decisions)
           verb == Head(current.script)
<1>1. /\ n \in Nat /\ counter = n
      /\ \A i \in 1 .. n : decisions[i] \in Decision /\ decisions[i].id = i
                           /\ indexOf[i] = i
      /\ decisions \in Seq(Decision)
  BY DecisionsType DEF IInv, TypeOK
<1>2. current \in Running /\ current.script # <<>> /\ current # None
  BY DEF IInv, TypeOK, Emit
<1>3. PICK args \in ArgsOf(verb) :
        decisions' = Append(decisions, NewDecision(verb, args))
  BY DEF Emit
<1> DEFINE d == NewDecision(verb, args)
<1>4. /\ d \in Decision /\ d.id = n + 1 /\ d.event = pos /\ d.verb = verb
      /\ d.over = None /\ d.by = {}
      /\ verb \in Verb
      /\ KindOf(verb) = "intent" => d.action \in {"declare", "cancel"}
  BY <1>1, NewDecisionType DEF Emit
<1> HIDE DEF d
<1>5. /\ decisions' \in Seq(Decision) /\ Len(decisions') = n + 1
      /\ decisions'[n + 1] = d
      /\ \A i \in 1 .. n : decisions'[i] = decisions[i]
  BY <1>1, <1>3, <1>4 DEF d
<1>6. counter' = n + 1
  BY <1>1 DEF Emit
<1>7. /\ indexOf' \in [1 .. n + 1 -> Nat]
      /\ \A i \in 1 .. n + 1 : indexOf'[i] = i
  <2>1. indexOf' = [id \in 1 .. n + 1 |-> IF id = n + 1 THEN n + 1 ELSE indexOf[id]]
    BY <1>1 DEF Emit, AppendedAt
  <2> QED BY <1>1, <2>1
<1>8. current' \in Running
  <2>1. current' = [current EXCEPT !.script = Tail(current.script),
                                   !.emitted = Append(current.emitted, counter + 1)]
    BY DEF Emit
  <2>2. current.script \in Seq(Verb) /\ current.emitted \in Seq(Nat)
    BY <1>2 DEF Running
  <2>3. Tail(current.script) \in Seq(Verb)
    BY <1>2, <2>2, HeadTailProperties
  <2>4. Append(current.emitted, counter + 1) \in Seq(Nat)
    BY <1>1, <2>2
  <2> QED BY <1>2, <2>1, <2>3, <2>4 DEF Running
<1>9. /\ intents' \subseteq 1 .. n + 1
      /\ constraints' \subseteq 1 .. n + 1
      /\ intents' \subseteq intents \union {n + 1}
      /\ n + 1 \in intents' => KindOf(verb) = "intent"
  <2>1. intents \subseteq 1 .. n /\ constraints \subseteq 1 .. n
    BY DEF IInv, TypeOK
  <2>2. intents' = IF KindOf(verb) = "intent" THEN intents \union {n + 1} ELSE intents
    BY DEF Emit, AppendedAt
  <2>3. \/ constraints' = constraints \union {n + 1}
        \/ constraints' = constraints
    BY <1>1 DEF Emit
  <2>4. n + 1 \notin intents /\ 1 .. n \subseteq 1 .. n + 1 /\ n + 1 \in 1 .. n + 1
    BY <1>1, <2>1
  <2> HIDE DEF n, verb
  <2> QED BY <2>1, <2>2, <2>3, <2>4
<1>14. IdsIssued'
  <2>1. IdsIssued /\ 1 .. n \subseteq 1 .. n + 1 /\ n + 1 \in 1 .. n + 1
    BY <1>1 DEF IInv, TypeOK
  <2>2. effective' \subseteq 1 .. n + 1
    BY <1>1, <2>1 DEF IdsIssued, Emit
  <2>3. \A i \in 1 .. n + 1 : /\ decisions'[i].over \in 1 .. n + 1 \union {None}
                              /\ decisions'[i].by \subseteq 1 .. n + 1
    <3>1. \A i \in 1 .. n : /\ decisions[i].over \in 1 .. n \union {None}
                            /\ decisions[i].by \subseteq 1 .. n
      BY <1>1, <2>1 DEF IdsIssued
    <3>2. ASSUME NEW i \in 1 .. n + 1
          PROVE  /\ decisions'[i].over \in 1 .. n + 1 \union {None}
                 /\ decisions'[i].by \subseteq 1 .. n + 1
      <4>1. CASE i = n + 1
        BY <1>4, <1>5, <4>1
      <4>2. CASE i # n + 1
        BY <1>1, <1>5, <2>1, <3>1, <4>2
      <4> QED BY <4>1, <4>2
    <3> QED BY <3>2
  <2>4. \A k \in 1 .. Len(current'.emitted) : current'.emitted[k] \in 1 .. n + 1
    <3>1. current.emitted \in Seq(Nat) /\ Len(current.emitted) \in Nat
      BY <1>2, LenProperties DEF Running
    <3>2. current'.emitted = Append(current.emitted, n + 1)
      BY <1>1, <1>2 DEF Emit, Running
    <3>3. \A k \in 1 .. Len(current.emitted) : current.emitted[k] \in 1 .. n + 1
      BY <1>1, <1>2, <2>1 DEF IdsIssued
    <3>4. PICK s, t : s = current.emitted /\ t = current'.emitted
      OBVIOUS
    <3>5. s \in Seq(Nat) /\ Len(s) \in Nat /\ t = Append(s, n + 1) /\ n + 1 \in Nat
      BY <1>1, <3>1, <3>2, <3>4
    <3>6. /\ Len(t) = Len(s) + 1 /\ t[Len(s) + 1] = n + 1
          /\ \A k \in 1 .. Len(s) : t[k] = s[k]
      BY <3>5
    <3>7. \A k \in 1 .. Len(t) : t[k] \in 1 .. n + 1
      <4>1. ASSUME NEW k \in 1 .. Len(t)
            PROVE  t[k] \in 1 .. n + 1
        <5>1. CASE k = Len(s) + 1
          BY <2>1, <3>6, <5>1
        <5>2. CASE k # Len(s) + 1
          <6>1. k \in 1 .. Len(s)
            BY <3>5, <3>6, <5>2
          <6> QED BY <3>3, <3>4, <3>6, <6>1
        <5> QED BY <5>1, <5>2
      <4> QED BY <4>1
    <3> QED BY <3>4, <3>7
  <2>5. /\ EmitsIssued(ruleTraces)'
        /\ \A e \in 1 .. Len(eventTraces') : EmitsIssued(eventTraces[e].rules)'
    BY <1>1, <1>6, <2>1 DEF IdsIssued, EmitsIssued, Emit
  <2> QED BY <1>5, <1>6, <2>2, <2>3, <2>4, <2>5 DEF IdsIssued
<1>10. TypeOK'
  BY <1>5, <1>6, <1>7, <1>8, <1>9, <1>1, <1>14 DEF IInv, TypeOK, Emit
<1>11. LookupConsistent'
  BY <1>1, <1>4, <1>5, <1>6, <1>7 DEF LookupConsistent
<1>12. Shaped'
  <2>1. \A i \in 1 .. n : IsIntent(decisions[i]) =>
                            decisions[i].action \in {"declare", "cancel"}
    BY DEF IInv, Shaped
  <2> QED BY <1>1, <1>4, <1>5, <2>1 DEF Shaped, IsIntent
<1>13. Marked'
  <2>1. UNCHANGED <<input, pos, phase>> /\ phase \in {"primary", "risk"} /\ pos \in Nat
    BY DEF Emit, IInv, TypeOK
  <2>2. pos <= Len(input.events) /\ pos < Len(input.events) /\ Ev.index = pos
    BY <2>1 DEF IInv, Marked, Open
  <2>3. \A i \in 1 .. n : decisions[i].event <= pos
    BY DEF IInv, Marked
  <2>4. \A i \in 1 .. n + 1 : decisions'[i].event <= pos
    BY <1>1, <1>4, <1>5, <2>1, <2>3
  <2>5. \A i \in intents : i \in 1 .. n /\ IsIntent(decisions[i])
                           /\ decisions[i].event = pos
    BY <2>1 DEF IInv, Marked, Open, TypeOK
  <2>6. \A i \in intents' : IsIntent(decisions'[i]) /\ decisions'[i].event = pos
    BY <1>4, <1>5, <1>9, <2>5 DEF IsIntent
  <2> QED BY <1>5, <2>1, <2>2, <2>4, <2>6 DEF Marked, Open, Ev
<1> QED BY <1>10, <1>11, <1>12, <1>13 DEF IInv

-----------------------------------------------------------------------------
(* Steps that rewrite decisions in place: each keeps the fields the other  *)
(* invariants are about.                                                   *)

Rewrites(f) ==
  /\ f \in [1 .. Len(decisions) -> Decision]
  /\ \A i \in 1 .. Len(decisions) :
       /\ f[i].id = decisions[i].id
       /\ f[i].event = decisions[i].event
       /\ f[i].verb = decisions[i].verb
       /\ f[i].action = decisions[i].action
       /\ f[i].rule = decisions[i].rule
       /\ f[i].act = decisions[i].act

(* The traces name what they did.                                          *)
LEMMA RewriteIssued ==
  ASSUME IInv, Rewrites(decisions'),
         UNCHANGED <<counter, current, ruleTraces, eventTraces>>,
         effective' \subseteq 1 .. counter,
         \A i \in 1 .. Len(decisions) :
           /\ decisions'[i].over \in 1 .. counter \union {None}
           /\ decisions'[i].by \subseteq 1 .. counter
  PROVE  IdsIssued'
<1>1. Len(decisions') = Len(decisions)
  BY DecisionsType, MappedSeq DEF Rewrites
<1> QED BY <1>1 DEF IInv, TypeOK, IdsIssued, EmitsIssued

LEMMA RewriteIInv ==
  ASSUME IInv, Open, phase' \in {"risk", "close"}, Rewrites(decisions'),
         UNCHANGED <<input, pos, counter, indexOf, intents, constraints, current,
                     ruleTraces, eventTraces, result>>,
         IdsIssued',
         todo' \subseteq (input.rules \union input.risk)
  PROVE  IInv'
<1>1. Len(decisions) \in Nat
  BY DecisionsType
<1>2. decisions' \in Seq(Decision) /\ Len(decisions') = Len(decisions)
  BY <1>1, MappedSeq DEF Rewrites
<1>3. TypeOK'
  BY <1>2 DEF IInv, TypeOK, Phase
<1>4. LookupConsistent'
  BY <1>2 DEF IInv, LookupConsistent, Rewrites
<1>5. Shaped'
  BY <1>2 DEF IInv, Shaped, Rewrites, IsIntent
<1>6. Marked'
  <2>1. \A i \in intents : /\ i \in 1 .. Len(decisions)
                           /\ IsIntent(decisions[i]) /\ decisions[i].event = pos
    BY DEF IInv, Marked, TypeOK
  <2> QED BY <1>2, <2>1 DEF IInv, Marked, Open, Ev, Rewrites, IsIntent
<1> QED BY <1>3, <1>4, <1>5, <1>6 DEF IInv

LEMMA RawIntentsAreIntents ==
  ASSUME IInv, Open
  PROVE  Intents(RawIntents)
<1>1. \A i \in intents : /\ i \in 1 .. Len(decisions)
                         /\ IsIntent(decisions[i])
  BY DEF IInv, TypeOK, Marked
<1>2. \A i \in intents : /\ decisions[i].id = i
                         /\ decisions[i] \in Decision
                         /\ decisions[i].action \in {"declare", "cancel"}
  BY <1>1, DecisionsType DEF IInv, Shaped
<1>3. \A i \in intents : RawIntent(decisions[i])
  BY <1>2 DEF RawIntent, Decision
<1> QED BY <1>2, <1>3 DEF RawIntents, Intents

LEMMA ResolveRewrites ==
  ASSUME IInv, ResolveIntents
  PROVE  Rewrites(decisions')
<1> DEFINE n == Len(decisions)
<1>1. Open /\ Intents(RawIntents)
  BY RawIntentsAreIntents DEF Open, ResolveIntents
<1>2. \A i \in 1 .. n : decisions[i] \in Decision
  BY DecisionsType
<1>3. \A d \in RawIntents : d.id \in Nat
  BY <1>1 DEF Intents, RawIntent
<1>4. ASSUME NEW i \in intents
      PROVE  /\ Resolved(RawIntents, decisions[i]) \in Decision
             /\ Resolved(RawIntents, decisions[i]).id = decisions[i].id
             /\ Resolved(RawIntents, decisions[i]).event = decisions[i].event
             /\ Resolved(RawIntents, decisions[i]).verb = decisions[i].verb
             /\ Resolved(RawIntents, decisions[i]).action = decisions[i].action
             /\ Resolved(RawIntents, decisions[i]).rule = decisions[i].rule
             /\ Resolved(RawIntents, decisions[i]).act = decisions[i].act
  <2>1. decisions[i] \in RawIntents /\ decisions[i] \in Decision
    BY <1>2 DEF RawIntents, IInv, TypeOK
  <2>2. UltimateWinner(RawIntents, decisions[i]).id \in Nat
    BY <1>1, <1>3, <2>1, UltimateWinnerInEffect DEF Effective
  <2> QED BY <2>1, <2>2 DEF Resolved, Decision
<1>5. Rewrites(decisions')
  <2>1. decisions' = [i \in 1 .. n |->
                        IF i \in intents THEN Resolved(RawIntents, decisions[i])
                                         ELSE decisions[i]]
    BY DEF ResolveIntents
  <2> QED BY <1>2, <1>4, <2>1 DEF Rewrites
<1> QED BY <1>5

LEMMA ResolveIntentsIInv ==
  ASSUME IInv, ResolveIntents
  PROVE  IInv'
<1>1. Open /\ Intents(RawIntents)
  BY RawIntentsAreIntents DEF Open, ResolveIntents
<1>2. \A d \in RawIntents : d.id \in 1 .. counter
  BY DecisionsType DEF RawIntents, IInv, TypeOK
<1>3. effective' \subseteq 1 .. counter
  BY <1>2 DEF ResolveIntents, Effective
<1>4. ASSUME NEW i \in 1 .. Len(decisions)
      PROVE  /\ decisions'[i].over \in 1 .. counter \union {None}
             /\ decisions'[i].by \subseteq 1 .. counter
  <2>1. /\ decisions[i].over \in 1 .. counter \union {None}
        /\ decisions[i].by \subseteq 1 .. counter
        /\ decisions[i] \in Decision
    BY DecisionsType DEF IInv, TypeOK, IdsIssued
  <2>2. CASE i \notin intents
    BY <2>1, <2>2 DEF ResolveIntents
  <2>3. CASE i \in intents
    <3>1. decisions[i] \in RawIntents
      BY <2>3 DEF RawIntents
    <3>2. UltimateWinner(RawIntents, decisions[i]).id \in 1 .. counter
      BY <1>1, <1>2, <3>1, UltimateWinnerInEffect DEF Effective
    <3>3. decisions'[i] = Resolved(RawIntents, decisions[i])
      BY <2>3 DEF ResolveIntents
    <3> QED BY <2>1, <3>2, <3>3 DEF Resolved, Decision
  <2> QED BY <2>2, <2>3
<1>5. IdsIssued'
  BY <1>3, <1>4, ResolveRewrites, RewriteIssued DEF ResolveIntents
<1> QED BY <1>1, <1>5, ResolveRewrites, RewriteIInv DEF ResolveIntents, InContext

LEMMA RiskConstraintsType ==
  ASSUME IInv
  PROVE  \A c \in RiskConstraintDecisions :
           /\ c \in Decision /\ c.id \in Nat /\ c.qty \in Quantity \union {None}
           /\ c.id \in 1 .. counter
<1>1. \A id \in constraints : /\ decisions[indexOf[id]] \in Decision
                              /\ decisions[indexOf[id]].id \in 1 .. counter
  BY DecisionsType DEF IInv, TypeOK
<1> QED BY <1>1 DEF RiskConstraintDecisions, Decision

LEMMA EnforceRewrites ==
  ASSUME IInv, EnforceConstraints
  PROVE  Rewrites(decisions')
<1> DEFINE n       == Len(decisions)
           C       == RiskConstraintDecisions
           blocks  == AppliedBlocks(PrimaryForRisk, C, Ev.index)
           hits(i) == {id \in DOMAIN blocks : indexOf[id] = i}
           by(i)   == UNION {blocks[id] : id \in hits(i)}
<1>1. \A i \in 1 .. n : decisions[i] \in Decision
  BY DecisionsType
<1>2. ASSUME NEW i
      PROVE  by(i) \subseteq Nat
  <2>1. \A d : Blockers(d, C, Ev.index) \subseteq Nat
    BY RiskConstraintsType, BlockersAreIds DEF OfEvent
  <2>2. \A id \in DOMAIN blocks : blocks[id] \subseteq Nat
    BY <2>1 DEF AppliedBlocks
  <2> QED BY <2>2
<1>3. Rewrites(decisions')
  <2>1. decisions' = [i \in 1 .. n |->
                        IF hits(i) = {} THEN decisions[i]
                        ELSE [decisions[i] EXCEPT !.status = "blocked", !.by = by(i)]]
    BY DEF EnforceConstraints
  <2> HIDE DEF hits, by, blocks
  <2>2. \A i \in 1 .. n : /\ decisions'[i] \in Decision
                          /\ decisions'[i].id = decisions[i].id
                          /\ decisions'[i].event = decisions[i].event
                          /\ decisions'[i].verb = decisions[i].verb
                          /\ decisions'[i].action = decisions[i].action
                          /\ decisions'[i].rule = decisions[i].rule
                          /\ decisions'[i].act = decisions[i].act
    <3> SUFFICES ASSUME NEW i \in 1 .. n
                 PROVE  LET b == decisions'[i] d == decisions[i]
                        IN  /\ b \in Decision
                            /\ b.id = d.id /\ b.event = d.event /\ b.verb = d.verb
                            /\ b.action = d.action /\ b.rule = d.rule /\ b.act = d.act
      OBVIOUS
    <3>1. CASE hits(i) = {}
      BY <1>1, <2>1, <3>1
    <3>2. CASE hits(i) # {}
      <4>1. PICK d, ids : d = decisions[i] /\ ids = by(i)
        OBVIOUS
      <4>2. decisions'[i] = [d EXCEPT !.status = "blocked", !.by = ids]
        BY <2>1, <3>2, <4>1
      <4>3. d \in Decision /\ ids \subseteq Nat
        BY <1>1, <1>2, <4>1
      <4>4. PICK b : b = [d EXCEPT !.status = "blocked", !.by = ids]
        OBVIOUS
      <4>5. b \in Decision
        BY <4>3, <4>4 DEF Decision
      <4>6. /\ b.id = d.id /\ b.event = d.event /\ b.verb = d.verb
            /\ b.action = d.action /\ b.rule = d.rule /\ b.act = d.act
        BY <4>3, <4>4 DEF Decision
      <4>7. decisions'[i] = b /\ decisions[i] = d
        BY <4>1, <4>2, <4>4
      <4> QED BY <4>5, <4>6, <4>7
    <3> QED BY <3>1, <3>2
  <2> QED BY <2>1, <2>2 DEF Rewrites
<1> QED BY <1>3

LEMMA EnforceConstraintsIInv ==
  ASSUME IInv, EnforceConstraints
  PROVE  IInv'
<1> DEFINE n       == Len(decisions)
           C       == RiskConstraintDecisions
           blocks  == AppliedBlocks(PrimaryForRisk, C, Ev.index)
           hits(i) == {id \in DOMAIN blocks : indexOf[id] = i}
           by(i)   == UNION {blocks[id] : id \in hits(i)}
<1>1. ASSUME NEW i
      PROVE  by(i) \subseteq 1 .. counter
  <2>1. \A d : Blockers(d, C, Ev.index) \subseteq 1 .. counter
    BY RiskConstraintsType, BlockersAreIds DEF OfEvent
  <2>2. \A id \in DOMAIN blocks : blocks[id] \subseteq 1 .. counter
    BY <2>1 DEF AppliedBlocks
  <2> QED BY <2>2
<1>2. decisions' = [i \in 1 .. n |->
                      IF hits(i) = {} THEN decisions[i]
                      ELSE [decisions[i] EXCEPT !.status = "blocked", !.by = by(i)]]
  BY DEF EnforceConstraints
<1>3. \A i \in 1 .. n : /\ decisions[i].over \in 1 .. counter \union {None}
                        /\ decisions[i].by \subseteq 1 .. counter
                        /\ decisions[i] \in Decision
  BY DecisionsType DEF IInv, TypeOK, IdsIssued
<1> HIDE DEF hits, by, blocks
<1>4. \A i \in 1 .. n : /\ decisions'[i].over \in 1 .. counter \union {None}
                        /\ decisions'[i].by \subseteq 1 .. counter
  BY <1>1, <1>2, <1>3 DEF Decision
<1>5. IdsIssued'
  <2>1. effective' = effective /\ effective \subseteq 1 .. counter
    BY DEF EnforceConstraints, eventVars, IInv, TypeOK, IdsIssued
  <2> QED BY <1>4, <2>1, EnforceRewrites, RewriteIssued
          DEF EnforceConstraints, eventVars
<1> QED BY <1>5, EnforceRewrites, RewriteIInv
        DEF EnforceConstraints, Open, eventVars, IInv, TypeOK

-----------------------------------------------------------------------------
LEMMA CloseEventIInv ==
  ASSUME IInv, CloseEvent
  PROVE  IInv'
<1>1. Ev.index \in Nat /\ pos < Len(input.events) /\ Len(input.events) \in Nat
  BY InputType DEF CloseEvent, Open, Event, IInv, Marked
<1>2. eventTraces' \in Seq(EventTrace)
  <2>1. [index |-> Ev.index, rules |-> ruleTraces] \in EventTrace
    BY <1>1 DEF EventTrace, IInv, TypeOK
  <2> QED BY <2>1 DEF CloseEvent, IInv, TypeOK
<1>6. IdsIssued'
  <2>1. eventTraces \in Seq(EventTrace) /\ Len(eventTraces) \in Nat
    BY LenProperties DEF IInv, TypeOK
  <2>2. /\ Len(eventTraces') = Len(eventTraces) + 1
        /\ \A e \in 1 .. Len(eventTraces) : eventTraces'[e] = eventTraces[e]
        /\ eventTraces'[Len(eventTraces) + 1].rules = ruleTraces
    BY <2>1 DEF CloseEvent
  <2>3. /\ EmitsIssued(ruleTraces)
        /\ \A e \in 1 .. Len(eventTraces) : EmitsIssued(eventTraces[e].rules)
    BY DEF IInv, TypeOK, IdsIssued
  <2>4. ASSUME NEW e \in 1 .. Len(eventTraces')
        PROVE  EmitsIssued(eventTraces'[e].rules)
    <3>1. CASE e = Len(eventTraces) + 1
      BY <2>2, <2>3, <3>1
    <3>2. CASE e # Len(eventTraces) + 1
      <4>1. e \in 1 .. Len(eventTraces)
        BY <2>1, <2>2, <3>2
      <4> QED BY <2>2, <2>3, <4>1
    <3> QED BY <3>1, <3>2
  <2> QED BY <2>4 DEF IInv, TypeOK, IdsIssued, EmitsIssued, CloseEvent,
                      ledgerVars, eventVars
<1>3. TypeOK'
  BY <1>2, <1>6 DEF IInv, TypeOK, CloseEvent, Phase, ledgerVars, eventVars
<1>4. LookupConsistent' /\ Shaped'
  BY DEF IInv, LookupConsistent, Shaped, CloseEvent, ledgerVars, eventVars
<1>5. Marked'
  <2>1. \A i \in 1 .. Len(decisions) : decisions[i].event \in Nat
    BY DecisionsType DEF Decision
  <2>2. \A i \in 1 .. Len(decisions) : decisions[i].event < pos + 1
    BY <2>1 DEF IInv, Marked, TypeOK
  <2> QED BY <1>1, <2>1, <2>2
          DEF IInv, TypeOK, Marked, Open, CloseEvent, ledgerVars
<1> QED BY <1>3, <1>4, <1>5 DEF IInv

LEMMA ReturnIInv ==
  ASSUME IInv, Return
  PROVE  IInv'
<1>1. TypeOK'
  BY DEF IInv, TypeOK, Return, EvalResult, Phase, ledgerVars, eventVars,
         IdsIssued, EmitsIssued
<1>2. LookupConsistent' /\ Shaped'
  BY DEF IInv, LookupConsistent, Shaped, Return, ledgerVars, eventVars
<1>3. Marked'
  BY DEF IInv, Marked, Open, Return, ledgerVars, eventVars
<1> QED BY <1>1, <1>2, <1>3 DEF IInv

LEMMA NextIInv ==
  ASSUME IInv, [Next]_vars
  PROVE  IInv'
<1>1. CASE BeginEvent          BY <1>1, BeginEventIInv
<1>2. CASE IndexMismatch       BY <1>2, RaiseIInv DEF IndexMismatch
<1>3. CASE SelectBranch        BY <1>3, SelectBranchIInv
<1>4. CASE NoBranchMatches     BY <1>4, NoBranchMatchesIInv
<1>5. CASE PredicateRaises     BY <1>5, RaiseIInv DEF PredicateRaises
<1>6. CASE Emit                BY <1>6, EmitIInv
<1>7. CASE VerbRefused         BY <1>7, RaiseIInv DEF VerbRefused
<1>8. CASE ArgumentRaises      BY <1>8, RaiseIInv DEF ArgumentRaises
<1>9. CASE EndRule             BY <1>9, EndRuleIInv
<1>10. CASE ResolveIntents     BY <1>10, ResolveIntentsIInv
<1>11. CASE EnforceConstraints BY <1>11, EnforceConstraintsIInv
<1>12. CASE CloseEvent         BY <1>12, CloseEventIInv
<1>13. CASE Return             BY <1>13, ReturnIInv
<1>14. CASE UNCHANGED vars
  BY <1>14 DEF vars, IInv, TypeOK, IdsIssued, EmitsIssued, LookupConsistent,
               Shaped, Marked, Open, Ev
<1> QED BY <1>1, <1>2, <1>3, <1>4, <1>5, <1>6, <1>7, <1>8, <1>9, <1>10, <1>11,
           <1>12, <1>13, <1>14 DEF Next

(* At every moment of the run the state is typed, the lookup table and the *)
(* decisions agree, no decision is of a later event, and the intents       *)
(* marked for resolution are intents of the open event                     *)
(* (evaluate_underlying, evaluate_option, evaluate_chain).                 *)
THEOREM InductiveInvariant == Spec => []IInv
BY InitIInv, NextIInv, PTL DEF Spec

(* The variables keep their types, and every id that a decision, a trace   *)
(* or the set of effective intents names has been handed out               *)
(* (evaluate_underlying, evaluate_option, evaluate_chain).                 *)
THEOREM TypeCorrect == Spec => []TypeOK
<1>1. IInv => TypeOK
  BY DEF IInv
<1> QED BY <1>1, InductiveInvariant, PTL

(* Every id is the position of its decision, also through the lookup table *)
(* enforcement goes by (decision_index_by_id, next_id).                    *)
THEOREM LookupAlwaysConsistent == Spec => []LookupConsistent
<1>1. IInv => LookupConsistent
  BY DEF IInv
<1> QED BY <1>1, InductiveInvariant, PTL

-----------------------------------------------------------------------------
(* What a step leaves alone.                                               *)

LEMMA EmitAppends ==
  ASSUME IInv, Emit, NEW i \in 1 .. Len(decisions)
  PROVE  decisions'[i] = decisions[i]
<1>1. PICK args \in ArgsOf(Head(current.script)) :
        decisions' = Append(decisions, NewDecision(Head(current.script), args))
  BY DEF Emit
<1> DEFINE d == NewDecision(Head(current.script), args)
<1>2. decisions \in Seq(Decision) /\ d \in Decision
  BY NewDecisionType DEF IInv, TypeOK, Emit
<1> HIDE DEF d
<1> QED BY <1>1, <1>2 DEF d

LEMMA ResolveOnlyOpenEvent ==
  ASSUME IInv, ResolveIntents, NEW i \in 1 .. Len(decisions),
         decisions[i].event < pos
  PROVE  decisions'[i] = decisions[i]
<1>1. i \notin intents
  BY DEF IInv, TypeOK, Marked, Open, ResolveIntents
<1> QED BY <1>1 DEF ResolveIntents

LEMMA EnforceOnlyOpenEvent ==
  ASSUME IInv, EnforceConstraints, NEW i \in 1 .. Len(decisions),
         decisions[i].event < pos
  PROVE  decisions'[i] = decisions[i]
<1> DEFINE blocks  == AppliedBlocks(PrimaryForRisk, RiskConstraintDecisions, Ev.index)
           hits(j) == {id \in DOMAIN blocks : indexOf[id] = j}
<1>1. ASSUME NEW id \in hits(i)
      PROVE  FALSE
  <2>1. PICK d \in PrimaryForRisk : d.id = id /\ Gateable(d, Ev.index)
    BY <1>1 DEF AppliedBlocks
  <2>2. PICK j \in 1 .. Len(decisions) : d = decisions[j]
    BY <2>1 DEF PrimaryForRisk
  <2>3. id = j /\ indexOf[j] = j
    BY <2>1, <2>2, DecisionsType
  <2>4. j = i
    BY <1>1, <2>3
  <2>5. decisions[i].event = pos
    BY <2>1, <2>2, <2>4 DEF Gateable, IInv, Marked, Open, EnforceConstraints
  <2> QED BY <2>5 DEF IInv, TypeOK
<1>2. hits(i) = {}
  BY <1>1
<1> QED BY <1>2 DEF EnforceConstraints

LEMMA ClosedStayFrozen ==
  ASSUME IInv, Next, NEW i \in 1 .. Len(decisions), decisions[i].event < pos
  PROVE  decisions'[i] = decisions[i]
<1>1. CASE Emit                BY <1>1, EmitAppends
<1>2. CASE ResolveIntents      BY <1>2, ResolveOnlyOpenEvent
<1>3. CASE EnforceConstraints  BY <1>3, EnforceOnlyOpenEvent
<1>4. CASE ~ (Emit \/ ResolveIntents \/ EnforceConstraints)
  <2>1. UNCHANGED decisions
    BY <1>4
       DEF Next, BeginEvent, IndexMismatch, SelectBranch, NoBranchMatches,
           PredicateRaises, VerbRefused, ArgumentRaises, EndRule, CloseEvent,
           Return, Raise, ledgerVars
  <2> QED BY <2>1
<1> QED BY <1>1, <1>2, <1>3, <1>4

(* No step changes a decision of a closed event: the write-backs of the    *)
(* resolution and of the enforcement, which go by index and by id into the *)
(* list all events share, hit decisions of the open event only.            *)
THEOREM ClosedEventsAlwaysFrozen == Spec => ClosedEventsFrozen
<1> DEFINE Frozen == \A i \in 1 .. Len(decisions) :
                       decisions[i].event < pos => decisions'[i] = decisions[i]
<1>1. IInv /\ [Next]_vars => [Frozen]_vars
  BY ClosedStayFrozen
<1> QED BY <1>1, InductiveInvariant, PTL DEF Spec, ClosedEventsFrozen

-----------------------------------------------------------------------------
(* The traces.                                                             *)

(* The k-th id a rule reports names a decision of the event the rule made. *)
Named(D, x, e, k) ==
  /\ x.emitted[k] \in 1 .. Len(D)
  /\ D[x.emitted[k]].event = e
  /\ D[x.emitted[k]].rule = x.rule
  /\ D[x.emitted[k]].act = k - 1

Reported(rules, i) ==
  \E r \in 1 .. Len(rules) : \E k \in 1 .. Len(rules[r].emitted) :
    rules[r].emitted[k] = i

(* A complete trace names decisions of its event, and every one of them.   *)
LEMMA ReportsNames ==
  ASSUME NEW D, NEW rules, NEW e, Reports(D, rules, e)
  PROVE  /\ \A r \in 1 .. Len(rules) : \A k \in 1 .. Len(rules[r].emitted) :
              Named(D, rules[r], e, k)
         /\ \A i \in 1 .. Len(D) : D[i].event = e => Reported(rules, i)
BY DEF Reports, Named, Reported

LEMMA ReportsKept ==
  ASSUME NEW D, NEW E, NEW rules, NEW e,
         Len(D) \in Nat, Len(E) \in Nat, Len(D) <= Len(E),
         \A i \in 1 .. Len(D) : /\ E[i].event = D[i].event
                                /\ E[i].rule = D[i].rule
                                /\ E[i].act = D[i].act,
         \A i \in Len(D) + 1 .. Len(E) : E[i].event # e,
         Reports(D, rules, e)
  PROVE  Reports(E, rules, e)
<1>1. \A i \in 1 .. Len(E) : E[i].event = e => i \in 1 .. Len(D) /\ D[i].event = e
  OBVIOUS
<1>2. \A i \in 1 .. Len(D) : i \in 1 .. Len(E)
  OBVIOUS
<1>3. ASSUME NEW r \in 1 .. Len(rules), NEW k \in 1 .. Len(rules[r].emitted)
      PROVE  /\ rules[r].emitted[k] \in 1 .. Len(E)
             /\ E[rules[r].emitted[k]].event = e
             /\ E[rules[r].emitted[k]].rule = rules[r].rule
             /\ E[rules[r].emitted[k]].act = k - 1
  <2>1. PICK i : i = rules[r].emitted[k]
    OBVIOUS
  <2>2. i \in 1 .. Len(D) /\ D[i].event = e /\ D[i].rule = rules[r].rule /\ D[i].act = k - 1
    BY <2>1, ReportsNames DEF Named
  <2>3. E[i].event = D[i].event /\ E[i].rule = D[i].rule /\ E[i].act = D[i].act
    BY <2>2
  <2> QED BY <1>2, <2>1, <2>2, <2>3
<1>4. \A i \in 1 .. Len(E) :
        E[i].event = e => \E r \in 1 .. Len(rules) :
                            \E k \in 1 .. Len(rules[r].emitted) :
                              rules[r].emitted[k] = i
  BY <1>1 DEF Reports
<1> QED BY <1>3, <1>4 DEF Reports

(* A rule without decisions leaves the order of the ids alone.             *)
LEMMA ReportsSilent ==
  ASSUME NEW D, NEW rules \in Seq(RuleTrace), NEW x \in RuleTrace, NEW e,
         Len(x.emitted) = 0, Reports(D, rules, e)
  PROVE  Reports(D, Append(rules, x), e)
<1> DEFINE R == Append(rules, x)
<1>1. /\ Len(rules) \in Nat /\ Len(R) = Len(rules) + 1 /\ R[Len(rules) + 1] = x
      /\ \A r \in 1 .. Len(rules) : R[r] = rules[r]
  BY LenProperties, AppendProperties
<1> HIDE DEF R
<1>2. \A r \in 1 .. Len(R) : \A k \in 1 .. Len(R[r].emitted) :
        r \in 1 .. Len(rules) /\ R[r] = rules[r]
  <2>1. ASSUME NEW r \in 1 .. Len(R), NEW k \in 1 .. Len(R[r].emitted)
        PROVE  r \in 1 .. Len(rules)
    <3>1. r # Len(rules) + 1
      BY <1>1, <2>1
    <3> QED BY <1>1, <3>1
  <2> QED BY <1>1, <2>1
<1>3. \A r \in 1 .. Len(rules) : r \in 1 .. Len(R)
  BY <1>1
<1>4. \A r \in 1 .. Len(R) : \A k \in 1 .. Len(R[r].emitted) :
        /\ R[r].emitted[k] \in 1 .. Len(D)
        /\ D[R[r].emitted[k]].event = e
        /\ D[R[r].emitted[k]].rule = R[r].rule
        /\ D[R[r].emitted[k]].act = k - 1
  <2>1. ASSUME NEW r \in 1 .. Len(R), NEW k \in 1 .. Len(R[r].emitted)
        PROVE  /\ R[r].emitted[k] \in 1 .. Len(D)
               /\ D[R[r].emitted[k]].event = e
               /\ D[R[r].emitted[k]].rule = R[r].rule
               /\ D[R[r].emitted[k]].act = k - 1
    <3>1. r \in 1 .. Len(rules) /\ R[r] = rules[r]
      BY <1>2, <2>1
    <3>2. r \in 1 .. Len(rules) /\ k \in 1 .. Len(rules[r].emitted)
      BY <2>1, <3>1
    <3>3. Named(D, rules[r], e, k)
      BY <3>2, ReportsNames
    <3> QED BY <3>1, <3>3 DEF Named
  <2> QED BY <2>1
<1>5. ASSUME NEW i \in 1 .. Len(D), D[i].event = e
      PROVE  \E r \in 1 .. Len(R) : \E k \in 1 .. Len(R[r].emitted) : R[r].emitted[k] = i
  <2>1. PICK r \in 1 .. Len(rules) :
          \E k \in 1 .. Len(rules[r].emitted) : rules[r].emitted[k] = i
    BY <1>5 DEF Reports
  <2> QED BY <1>1, <1>3, <2>1
<1>6. ASSUME NEW r \in 1 .. Len(R), NEW s \in 1 .. Len(R),
             NEW k \in 1 .. Len(R[r].emitted), NEW l \in 1 .. Len(R[s].emitted),
             r < s \/ (r = s /\ k < l)
      PROVE  R[r].emitted[k] < R[s].emitted[l]
  <2>1. /\ r \in 1 .. Len(rules) /\ R[r] = rules[r]
        /\ s \in 1 .. Len(rules) /\ R[s] = rules[s]
    BY <1>2, <1>6
  <2> QED BY <1>6, <2>1 DEF Reports
<1>7. Reports(D, R, e)
  BY <1>4, <1>5, <1>6 DEF Reports
<1> QED BY <1>7 DEF R

(* A decision appended goes to the end of the last rule's ids.             *)
LEMMA ReportsEmitted ==
  ASSUME NEW D \in Seq(Decision), NEW d \in Decision, NEW rules \in Seq(RuleTrace),
         NEW x \in RuleTrace, NEW y \in RuleTrace, NEW e,
         d.event = e, d.rule = x.rule, d.act = Len(x.emitted),
         y.rule = x.rule, y.emitted = Append(x.emitted, Len(D) + 1),
         Reports(D, Append(rules, x), e)
  PROVE  Reports(Append(D, d), Append(rules, y), e)
<1>0. PICK R, Q, E, m, n, p :
        /\ R = Append(rules, x) /\ Q = Append(rules, y) /\ E = Append(D, d)
        /\ m = Len(rules) /\ n = Len(D) /\ p = Len(x.emitted)
  OBVIOUS
<1>1. /\ m \in Nat /\ Len(R) = m + 1 /\ Len(Q) = m + 1
      /\ R[m + 1] = x /\ Q[m + 1] = y
      /\ \A r \in 1 .. m : Q[r] = R[r]
  BY <1>0, LenProperties, AppendProperties
<1>2. /\ n \in Nat /\ Len(E) = n + 1 /\ E[n + 1] = d
      /\ \A i \in 1 .. n : E[i] = D[i]
  BY <1>0, LenProperties, AppendProperties
<1>3. /\ p \in Nat /\ Len(y.emitted) = p + 1 /\ y.emitted[p + 1] = n + 1
      /\ \A k \in 1 .. p : y.emitted[k] = x.emitted[k]
  <2>1. x.emitted \in Seq(Nat) /\ n + 1 \in Nat
    BY <1>2 DEF RuleTrace
  <2> QED BY <1>0, <2>1, LenProperties, AppendProperties
<1>4. ASSUME NEW r \in 1 .. m + 1, NEW k \in 1 .. Len(Q[r].emitted)
      PROVE  \/ r = m + 1 /\ k = p + 1 /\ Q[r].emitted[k] = n + 1
             \/ /\ k \in 1 .. Len(R[r].emitted)
                /\ Q[r].emitted[k] = R[r].emitted[k]
  <2>1. CASE r = m + 1
    <3>1. k = p + 1 \/ k \in 1 .. p
      BY <1>1, <1>3, <1>4, <2>1
    <3> QED BY <1>0, <1>1, <1>3, <2>1, <3>1
  <2>2. CASE r # m + 1
    <3>1. r \in 1 .. m
      BY <1>1, <2>2
    <3> QED BY <1>1, <1>4, <3>1
  <2> QED BY <2>1, <2>2
<1>5. ASSUME NEW r \in 1 .. m + 1
      PROVE  Q[r].rule = R[r].rule
  <2>1. r \in 1 .. m \/ r = m + 1
    BY <1>1
  <2> QED BY <1>1, <2>1
<1>6. \A r \in 1 .. m + 1 : \A k \in 1 .. Len(R[r].emitted) :
        R[r].emitted[k] \in 1 .. n
  BY <1>0, <1>1 DEF Reports
<1>7. ASSUME NEW r \in 1 .. m + 1, NEW k \in 1 .. Len(Q[r].emitted)
      PROVE  /\ Q[r].emitted[k] \in 1 .. n + 1
             /\ E[Q[r].emitted[k]].event = e
             /\ E[Q[r].emitted[k]].rule = Q[r].rule
             /\ E[Q[r].emitted[k]].act = k - 1
  <2>1. CASE r = m + 1 /\ k = p + 1 /\ Q[r].emitted[k] = n + 1
    BY <1>0, <1>1, <1>2, <1>3, <2>1, SMTT(30)
  <2>2. CASE k \in 1 .. Len(R[r].emitted) /\ Q[r].emitted[k] = R[r].emitted[k]
    <3>1. /\ R[r].emitted[k] \in 1 .. n
          /\ D[R[r].emitted[k]].event = e
          /\ D[R[r].emitted[k]].rule = R[r].rule
          /\ D[R[r].emitted[k]].act = k - 1
      <4>1. Len(R) = m + 1 /\ Len(D) = n /\ Reports(D, R, e)
        BY <1>0, <1>1
      <4>2. r \in 1 .. Len(R) /\ k \in 1 .. Len(R[r].emitted)
        BY <2>2, <4>1
      <4>3. Named(D, R[r], e, k)
        BY <4>1, <4>2, ReportsNames
      <4> QED BY <4>1, <4>3 DEF Named
    <3>2. n \in Nat /\ E[R[r].emitted[k]] = D[R[r].emitted[k]]
      BY <1>2, <3>1
    <3>3. Q[r].rule = R[r].rule
      BY <1>5
    <3> QED BY <2>2, <3>1, <3>2, <3>3, SMTT(30)
  <2> QED BY <1>4, <1>7, <2>1, <2>2
<1>8. ASSUME NEW i \in 1 .. n + 1, E[i].event = e
      PROVE  \E r \in 1 .. m + 1 : \E k \in 1 .. Len(Q[r].emitted) : Q[r].emitted[k] = i
  <2>1. CASE i = n + 1
    <3>1. m + 1 \in 1 .. m + 1 /\ p + 1 \in 1 .. Len(Q[m + 1].emitted)
      BY <1>1, <1>3
    <3> QED BY <1>1, <1>3, <2>1, <3>1
  <2>2. CASE i # n + 1
    <3>1. i \in 1 .. n /\ D[i].event = e
      BY <1>2, <1>8, <2>2
    <3>2. PICK r \in 1 .. m + 1 : \E k \in 1 .. Len(R[r].emitted) : R[r].emitted[k] = i
      <4>1. Len(R) = m + 1 /\ Len(D) = n /\ Reports(D, R, e)
        BY <1>0, <1>1
      <4>2. i \in 1 .. Len(D)
        BY <3>1, <4>1
      <4>3. Reported(R, i)
        BY <3>1, <4>1, <4>2, ReportsNames
      <4> QED BY <4>1, <4>3 DEF Reported
    <3>3. PICK k \in 1 .. Len(R[r].emitted) : R[r].emitted[k] = i
      BY <3>2
    <3>4. CASE r = m + 1
      <4>1. k \in 1 .. p /\ k \in 1 .. Len(Q[r].emitted)
        BY <1>0, <1>1, <1>3, <3>3, <3>4
      <4> QED BY <1>1, <1>3, <3>3, <3>4, <4>1
    <3>5. CASE r # m + 1
      <4>1. r \in 1 .. m
        BY <1>1, <3>5
      <4> QED BY <1>1, <3>3, <4>1
    <3> QED BY <3>4, <3>5
  <2> QED BY <2>1, <2>2
<1>9. ASSUME NEW r \in 1 .. m + 1, NEW s \in 1 .. m + 1,
             NEW k \in 1 .. Len(Q[r].emitted), NEW l \in 1 .. Len(Q[s].emitted),
             r < s \/ (r = s /\ k < l)
      PROVE  Q[r].emitted[k] < Q[s].emitted[l]
  <2>1. ~ (r = m + 1 /\ k = p + 1)
    BY <1>1, <1>3, <1>9
  <2>2. k \in 1 .. Len(R[r].emitted) /\ Q[r].emitted[k] = R[r].emitted[k]
    BY <1>4, <1>9, <2>1
  <2>3. CASE Q[s].emitted[l] = n + 1
    <3>1. R[r].emitted[k] \in 1 .. n
      BY <1>6, <2>2
    <3> QED BY <1>2, <2>2, <2>3, <3>1
  <2>4. CASE l \in 1 .. Len(R[s].emitted) /\ Q[s].emitted[l] = R[s].emitted[l]
    <3>1. R[r].emitted[k] < R[s].emitted[l]
      BY <1>0, <1>1, <1>9, <2>2, <2>4 DEF Reports
    <3> QED BY <2>2, <2>4, <3>1
  <2> QED BY <1>4, <1>9, <2>3, <2>4
<1>10. Reports(E, Q, e)
  BY <1>1, <1>2, <1>7, <1>8, <1>9 DEF Reports
<1> QED BY <1>0, <1>10

(* The rule traces of the open event, with that of the rule at work.       *)
TraceSoFar ==
  IF current = None THEN ruleTraces
  ELSE Append(ruleTraces, [rule |-> current.rule.name, emitted |-> current.emitted])

Traced ==
  /\ Len(eventTraces) = pos
  /\ phase \in {"event", "close"} => current = None
  /\ Open => Reports(decisions, TraceSoFar, pos)

TInv == Traced /\ TraceComplete

LEMMA InitTInv == Init => TInv
<1> SUFFICES ASSUME Init PROVE TInv
  OBVIOUS
<1>1. Len(eventTraces) = 0 /\ 1 .. 0 = {}
  BY DEF Init
<1> QED BY <1>1 DEF Init, TInv, Traced, Open, TraceComplete

(* The traces of the closed events, after a step within an event.          *)
LEMMA ClosedTracesKept ==
  ASSUME IInv, TInv, IInv', UNCHANGED <<pos, eventTraces>>,
         Len(decisions) <= Len(decisions'),
         \A i \in 1 .. Len(decisions) : /\ decisions'[i].event = decisions[i].event
                                        /\ decisions'[i].rule = decisions[i].rule
                                        /\ decisions'[i].act = decisions[i].act,
         \A i \in Len(decisions) + 1 .. Len(decisions') : decisions'[i].event = pos
  PROVE  (Len(eventTraces) = pos /\ TraceComplete)'
<1>1. /\ Len(decisions) \in Nat /\ Len(decisions') \in Nat /\ pos \in Nat
      /\ Len(eventTraces) = pos
  BY LenProperties DEF IInv, TypeOK, TInv, Traced
<1>2. ASSUME NEW e \in 1 .. Len(eventTraces)
      PROVE  Reports(decisions', eventTraces[e].rules, e - 1)
  <2>1. Reports(decisions, eventTraces[e].rules, e - 1)
    BY DEF TInv, TraceComplete
  <2>2. \A i \in Len(decisions) + 1 .. Len(decisions') : decisions'[i].event # e - 1
    BY <1>1
  <2> QED BY <1>1, <2>1, <2>2, ReportsKept
<1> QED BY <1>1, <1>2 DEF TInv, TraceComplete

LEMMA TraceSoFarType ==
  ASSUME IInv
  PROVE  /\ ruleTraces \in Seq(RuleTrace)
         /\ current # None =>
              [rule |-> current.rule.name, emitted |-> current.emitted] \in RuleTrace
BY DEF IInv, TypeOK, Running, CompiledRule, RuleTrace

LEMMA EmitTInv ==
  ASSUME IInv, IInv', TInv, Emit
  PROVE  TInv'
<1> DEFINE n    == Len(decisions)
           verb == Head(current.script)
           x    == [rule |-> current.rule.name, emitted |-> current.emitted]
           y    == [rule |-> current'.rule.name, emitted |-> current'.emitted]
<1>1. PICK args, d :
        /\ args \in ArgsOf(verb)
        /\ d = NewDecision(verb, args) /\ decisions' = Append(decisions, d)
  BY DEF Emit
<1>2. /\ d \in Decision /\ d.event = pos /\ counter = n
      /\ decisions \in Seq(Decision) /\ pos \in Nat
      /\ UNCHANGED <<pos, phase, ruleTraces, eventTraces>>
      /\ current # None /\ Open /\ phase \in {"primary", "risk"}
  BY <1>1, NewDecisionType, DecisionsType DEF Emit, IInv, TypeOK, Open
<1>3. d.rule = x.rule /\ d.act = Len(x.emitted)
  BY <1>1 DEF NewDecision
<1>4. /\ current \in Running /\ current' # None
      /\ current' = [current EXCEPT !.script = Tail(current.script),
                                    !.emitted = Append(current.emitted, n + 1)]
  <2>1. current \in Running
    BY <1>2 DEF IInv, TypeOK
  <2>2. current' = [current EXCEPT !.script = Tail(current.script),
                                   !.emitted = Append(current.emitted, n + 1)]
    BY <1>2 DEF Emit
  <2>3. current.script \in Seq(Verb) /\ current.script # <<>>
        /\ Append(current.emitted, n + 1) \in Seq(Nat)
    BY <1>2, <2>1 DEF Running, Emit
  <2>4. Tail(current.script) \in Seq(Verb)
    BY <2>3, HeadTailProperties
  <2>5. current' \in Running
    BY <2>1, <2>2, <2>3, <2>4 DEF Running
  <2>6. current' # None
    BY <2>5, AbsentAssumption
  <2> QED BY <2>1, <2>2, <2>6
<1>5. y.rule = x.rule /\ y.emitted = Append(x.emitted, Len(decisions) + 1)
  BY <1>4 DEF Running
<1>6. x \in RuleTrace /\ y \in RuleTrace /\ ruleTraces \in Seq(RuleTrace)
  BY <1>2, <1>4, TraceSoFarType DEF IInv, TypeOK, Running, CompiledRule, RuleTrace
<1>7. Reports(decisions, Append(ruleTraces, x), pos)
  BY <1>2 DEF TInv, Traced, TraceSoFar
<1>8. Reports(Append(decisions, d), Append(ruleTraces, y), pos)
  <2> HIDE DEF x, y
  <2> QED BY <1>2, <1>3, <1>5, <1>6, <1>7, ReportsEmitted
<1>9. /\ Len(decisions') = n + 1 /\ n \in Nat
      /\ \A i \in 1 .. n : decisions'[i] = decisions[i]
      /\ decisions'[n + 1] = d
  BY <1>1, <1>2, LenProperties, AppendProperties
<1>10. (Len(eventTraces) = pos /\ TraceComplete)'
  <2>1. \A i \in n + 1 .. n + 1 : i = n + 1
    BY <1>9
  <2> QED BY <1>2, <1>9, <2>1, ClosedTracesKept
<1> QED BY <1>1, <1>2, <1>4, <1>8, <1>10 DEF TInv, Traced, TraceSoFar

(* The rule leaves branch selection with no decision yet.                  *)
LEMMA SelectBranchTInv ==
  ASSUME IInv, IInv', TInv, SelectBranch
  PROVE  TInv'
<1>1. PICK r \in todo : \E b \in DOMAIN r.branches :
        current' = [rule |-> r, script |-> r.branches[b].actions, emitted |-> <<>>]
  BY DEF SelectBranch
<1>2. PICK b \in DOMAIN r.branches :
        current' = [rule |-> r, script |-> r.branches[b].actions, emitted |-> <<>>]
  BY <1>1
<1>3. /\ UNCHANGED <<pos, phase, decisions, ruleTraces, eventTraces>>
      /\ current = None /\ Open /\ phase \in {"primary", "risk"}
  BY DEF SelectBranch, Open, ledgerVars
<1>4. current' # None
  <2>1. r \in CompiledRule
    BY InputType DEF IInv, TypeOK
  <2>2. r.branches \in Seq(Branch)
    BY <2>1 DEF CompiledRule
  <2>3. r.branches[b] \in Branch
    BY <1>2, <2>2, LenProperties, ElementOfSeq
  <2>4. current' \in Running
    BY <1>2, <2>1, <2>3, EmptySeq DEF Running, Branch
  <2> QED BY <2>4, AbsentAssumption
<1> DEFINE x == [rule |-> current'.rule.name, emitted |-> current'.emitted]
<1>5. /\ x \in RuleTrace /\ Len(x.emitted) = 0
      /\ ruleTraces \in Seq(RuleTrace) /\ Reports(decisions, ruleTraces, pos)
  <2>1. r \in CompiledRule
    BY InputType DEF IInv, TypeOK
  <2>2. r.name \in RuleName
    BY <2>1 DEF CompiledRule
  <2>3. x.rule = r.name /\ x.emitted = <<>>
    BY <1>2
  <2>4. x \in RuleTrace /\ Len(x.emitted) = 0
    BY <2>2, <2>3, EmptySeq DEF RuleTrace
  <2>5. ruleTraces \in Seq(RuleTrace)
    BY DEF IInv, TypeOK
  <2>6. Reports(decisions, ruleTraces, pos)
    BY <1>3 DEF TInv, Traced, TraceSoFar
  <2> HIDE DEF x
  <2> QED BY <2>4, <2>5, <2>6
<1>6. Reports(decisions, Append(ruleTraces, x), pos)
  <2> HIDE DEF x
  <2> QED BY <1>5, ReportsSilent
<1>7. TraceComplete'
  BY <1>3 DEF TInv, TraceComplete
<1> QED BY <1>3, <1>4, <1>6, <1>7 DEF TInv, Traced, TraceSoFar

LEMMA NoBranchMatchesTInv ==
  ASSUME IInv, TInv, NoBranchMatches
  PROVE  TInv'
<1>1. PICK r, x :
        /\ r \in todo
        /\ x = [rule |-> r.name, emitted |-> <<>>]
        /\ ruleTraces' = Append(ruleTraces, x)
  BY DEF NoBranchMatches
<1>2. /\ UNCHANGED <<pos, phase, decisions, current, eventTraces>>
      /\ current = None /\ Open /\ phase \in {"primary", "risk"}
  BY DEF NoBranchMatches, Open, ledgerVars
<1>3. x \in RuleTrace /\ Len(x.emitted) = 0
  <2>1. r \in CompiledRule
    BY <1>1, InputType DEF IInv, TypeOK
  <2> QED BY <1>1, <2>1, EmptySeq DEF RuleTrace, CompiledRule
<1>4. ruleTraces \in Seq(RuleTrace) /\ Reports(decisions, ruleTraces, pos)
  BY <1>2 DEF IInv, TypeOK, TInv, Traced, TraceSoFar
<1>5. Reports(decisions, Append(ruleTraces, x), pos)
  BY <1>3, <1>4, ReportsSilent
<1>6. TraceComplete'
  BY <1>2 DEF TInv, TraceComplete
<1> QED BY <1>1, <1>2, <1>5, <1>6 DEF TInv, Traced, TraceSoFar

LEMMA EndRuleTInv ==
  ASSUME TInv, EndRule
  PROVE  TInv'
<1>1. /\ UNCHANGED <<pos, phase, decisions, eventTraces>>
      /\ current # None /\ current' = None /\ Open /\ phase \in {"primary", "risk"}
      /\ TraceSoFar' = TraceSoFar
  BY DEF EndRule, Open, ledgerVars, TraceSoFar
<1>2. TraceComplete'
  BY <1>1 DEF TInv, TraceComplete
<1> QED BY <1>1, <1>2 DEF TInv, Traced

LEMMA RewriteTInv ==
  ASSUME IInv, IInv', TInv, Rewrites(decisions'), Open, Open', current = None,
         UNCHANGED <<pos, current, ruleTraces, eventTraces>>
  PROVE  TInv'
<1>1. Len(decisions) \in Nat /\ Len(decisions') = Len(decisions) /\ pos \in Nat
  BY DecisionsType, MappedSeq DEF Rewrites, IInv, TypeOK
<1>2. \A i \in Len(decisions) + 1 .. Len(decisions') : FALSE
  BY <1>1
<1>3. \A i \in 1 .. Len(decisions) : /\ decisions'[i].event = decisions[i].event
                                     /\ decisions'[i].rule = decisions[i].rule
                                     /\ decisions'[i].act = decisions[i].act
  BY DEF Rewrites
<1>4. (Len(eventTraces) = pos /\ TraceComplete)'
  BY <1>1, <1>2, <1>3, ClosedTracesKept
<1>5. Reports(decisions, ruleTraces, pos)
  BY DEF TInv, Traced, TraceSoFar
<1>6. Reports(decisions', ruleTraces, pos)
  BY <1>1, <1>2, <1>3, <1>5, ReportsKept
<1> QED BY <1>4, <1>6 DEF TInv, Traced, TraceSoFar

LEMMA CloseEventTInv ==
  ASSUME IInv, TInv, CloseEvent
  PROVE  TInv'
<1>1. /\ phase = "close" /\ phase' = "event" /\ pos' = pos + 1 /\ pos \in Nat
      /\ UNCHANGED <<decisions, current, ruleTraces>>
      /\ current = None /\ Ev.index = pos /\ Len(eventTraces) = pos
      /\ Reports(decisions, ruleTraces, pos)
  BY DEF CloseEvent, ledgerVars, IInv, TypeOK, Marked, Open, TInv, Traced, TraceSoFar
<1>2. PICK t : /\ t = [index |-> Ev.index, rules |-> ruleTraces]
               /\ eventTraces' = Append(eventTraces, t)
  BY DEF CloseEvent
<1>3. t \in EventTrace /\ eventTraces \in Seq(EventTrace)
  BY <1>1, <1>2 DEF EventTrace, IInv, TypeOK
<1>4. /\ Len(eventTraces') = pos + 1 /\ eventTraces'[pos + 1] = t
      /\ \A e \in 1 .. pos : eventTraces'[e] = eventTraces[e]
  BY <1>1, <1>2, <1>3, LenProperties, AppendProperties
<1>5. ASSUME NEW e \in 1 .. pos + 1
      PROVE  /\ eventTraces'[e].index = e - 1
             /\ Reports(decisions', eventTraces'[e].rules, e - 1)
  <2>1. CASE e = pos + 1
    <3>1. eventTraces'[e].index = pos /\ eventTraces'[e].rules = ruleTraces
      BY <1>1, <1>2, <1>4, <2>1
    <3>2. e - 1 = pos
      BY <1>1, <2>1
    <3> QED BY <1>1, <3>1, <3>2
  <2>2. CASE e # pos + 1
    <3>1. e \in 1 .. pos
      BY <1>1, <2>2
    <3> QED BY <1>1, <1>4, <3>1 DEF TInv, TraceComplete
  <2> QED BY <2>1, <2>2
<1> QED BY <1>1, <1>4, <1>5 DEF TInv, Traced, Open, TraceComplete

LEMMA BeginEventTInv ==
  ASSUME IInv, TInv, BeginEvent
  PROVE  TInv'
<1>1. /\ phase = "event" /\ phase' = "primary" /\ ruleTraces' = <<>> /\ pos \in Nat
      /\ UNCHANGED <<pos, decisions, current, eventTraces>> /\ current = None
  BY DEF BeginEvent, ledgerVars, IInv, TypeOK, TInv, Traced
<1>2. \A i \in 1 .. Len(decisions) : decisions[i].event # pos
  BY <1>1 DEF IInv, Marked
<1>3. Len(<<>>) = 0 /\ 1 .. 0 = {}
  OBVIOUS
<1>4. Reports(decisions, <<>>, pos)
  BY <1>2, <1>3 DEF Reports
<1>5. TraceComplete'
  BY <1>1 DEF TInv, TraceComplete
<1> QED BY <1>1, <1>4, <1>5 DEF TInv, Traced, TraceSoFar

LEMMA NextTInv ==
  ASSUME IInv, IInv', TInv, [Next]_vars
  PROVE  TInv'
<1>1. CASE BeginEvent          BY <1>1, BeginEventTInv
<1>2. CASE SelectBranch        BY <1>2, SelectBranchTInv
<1>3. CASE NoBranchMatches     BY <1>3, NoBranchMatchesTInv
<1>4. CASE Emit                BY <1>4, EmitTInv
<1>5. CASE EndRule             BY <1>5, EndRuleTInv
<1>6. CASE ResolveIntents
  BY <1>6, ResolveRewrites, RewriteTInv DEF ResolveIntents, Open
<1>7. CASE EnforceConstraints
  BY <1>7, EnforceRewrites, RewriteTInv DEF EnforceConstraints, Open
<1>8. CASE CloseEvent          BY <1>8, CloseEventTInv
<1>9. CASE IndexMismatch \/ PredicateRaises \/ VerbRefused \/ ArgumentRaises
  BY <1>9
     DEF IndexMismatch, PredicateRaises, VerbRefused, ArgumentRaises, Raise,
         ledgerVars, TInv, Traced, Open, TraceComplete
<1>10. CASE Return
  BY <1>10 DEF Return, ledgerVars, TInv, Traced, Open, TraceComplete
<1>11. CASE UNCHANGED vars
  BY <1>11 DEF vars, TInv, Traced, Open, TraceSoFar, TraceComplete
<1> QED BY <1>1, <1>2, <1>3, <1>4, <1>5, <1>6, <1>7, <1>8, <1>9, <1>10, <1>11
        DEF Next

(* The traces of the closed events account for every decision: each id     *)
(* once, in the order emitted, under the rule and at the place of the      *)
(* action that emitted it (RuleTrace.decisions_emitted, trace_ref).        *)
THEOREM TraceAlwaysComplete == Spec => []TraceComplete
<1>1. IInv /\ IInv' /\ TInv /\ [Next]_vars => TInv'
  BY NextTInv
<1>2. TInv => TraceComplete
  BY DEF TInv
<1> QED BY <1>1, <1>2, InitTInv, InductiveInvariant, PTL DEF Spec

-----------------------------------------------------------------------------
(* What the specification of the ledger says of a batch, seen through the  *)
(* positions of its decisions.                                             *)

LEMMA LedgerWords ==
  \A d : /\ Ledger!IsIntent(d) <=> IsIntent(d)
         /\ Ledger!IsConstraint(d) <=> IsConstraint(d)
         /\ Ledger!KindOf(d) = KindOf(d)
BY DEF Ledger!IsIntent, Ledger!IsConstraint, Ledger!KindOf,
       IsIntent, IsConstraint, KindOf

(* Two batches alike in the fields resolution is about are resolved alike. *)
Alike(d, x) ==
  /\ d.id = x.id /\ d.verb = x.verb /\ d.symbol = x.symbol
  /\ d.action = x.action /\ d.ikind = x.ikind /\ d.qty = x.qty
  /\ d.eff = x.eff /\ d.over = x.over

LEMMA SameResolution ==
  ASSUME NEW A, NEW B,
         \A x \in A : \E y \in B : Alike(x, y),
         \A y \in B : \E x \in A : Alike(x, y),
         \A y, z \in B : y.id = z.id => y = z,
         Ledger!ResolvedBatch(A)
  PROVE  Ledger!ResolvedBatch(B)
<1> DEFINE F == {d \in A : Ledger!IsIntent(d)}
           G == {d \in B : Ledger!IsIntent(d)}
<1>1. \A y \in G : \E x \in F : Alike(x, y)
  BY LedgerWords DEF Alike, IsIntent
<1>2. \A x \in F : \E y \in G : Alike(x, y)
  BY LedgerWords DEF Alike, IsIntent
<1>3. ASSUME NEW d \in G
      PROVE  d.eff <=> d.over = None
  <2>1. PICK x \in F : Alike(x, d)
    BY <1>1
  <2> QED BY <2>1 DEF Alike, Ledger!ResolvedBatch
<1>4. ASSUME NEW d \in G, ~ d.eff
      PROVE  \E w \in G : /\ w.eff /\ w.id = d.over /\ w.symbol = d.symbol
                          /\ Ledger!Outranks(w, d)
  <2>1. PICK x \in F : Alike(x, d)
    BY <1>1
  <2>2. PICK v \in F : /\ v.eff /\ v.id = x.over /\ v.symbol = x.symbol
                       /\ Ledger!Outranks(v, x)
    BY <1>4, <2>1 DEF Alike, Ledger!ResolvedBatch
  <2>3. PICK w \in G : Alike(v, w)
    BY <1>2
  <2>4. Ledger!Outranks(w, d)
    BY <2>1, <2>2, <2>3 DEF Alike, Ledger!Outranks, Ledger!Size
  <2> QED BY <2>1, <2>2, <2>3, <2>4 DEF Alike
<1>5. ASSUME NEW d \in G, NEW w \in G, d.eff, w.eff, d # w, d.symbol = w.symbol
      PROVE  d.action = "declare" /\ w.action = "declare" /\ d.ikind # w.ikind
  <2>1. PICK x \in F : Alike(x, d)
    BY <1>1
  <2>2. PICK v \in F : Alike(v, w)
    BY <1>1
  <2>3. x # v
    BY <1>5, <2>1, <2>2 DEF Alike
  <2> QED BY <1>5, <2>1, <2>2, <2>3 DEF Alike, Ledger!ResolvedBatch
<1> QED BY <1>3, <1>4, <1>5 DEF Ledger!ResolvedBatch

(* The write-back of the resolution leaves a resolved batch.               *)
LEMMA ResolutionResolves ==
  ASSUME NEW S, S \subseteq Decision, Intents(S), NEW B,
         \A x \in B : IsIntent(x) => \E d \in S : x = Resolved(S, d),
         \A d \in S : Resolved(S, d) \in B /\ IsIntent(Resolved(S, d))
  PROVE  Ledger!ResolvedBatch(B)
<1> DEFINE I == {d \in B : Ledger!IsIntent(d)}
           r(d) == Resolved(S, d)
<1>1. I = {r(d) : d \in S}
  BY LedgerWords
<1>2. ASSUME NEW d \in S
      PROVE  /\ r(d).id = d.id /\ r(d).symbol = d.symbol
             /\ r(d).action = d.action /\ r(d).ikind = d.ikind
             /\ r(d).qty = d.qty
             /\ d.action \in {"declare", "cancel"} /\ d.id \in Nat
             /\ d \in Effective(S) => r(d).eff = TRUE /\ r(d).over = None
             /\ d \notin Effective(S) =>
                  r(d).eff = FALSE /\ r(d).over = UltimateWinner(S, d).id
  BY DEF Resolved, Decision, Intents, RawIntent
<1> HIDE DEF r
<1>3. ASSUME NEW d \in S, d \notin Effective(S)
      PROVE  \E w \in Effective(S) :
               /\ w \in S /\ r(d).over = w.id
               /\ w.symbol = d.symbol
               /\ \/ w.action = "cancel"
                  \/ /\ d.action = "declare" /\ w.ikind = d.ikind
                     /\ AbsQty(w) >= AbsQty(d)
  <2>1. PICK w : w = UltimateWinner(S, d)
    OBVIOUS
  <2>2. w \in Effective(S) /\ w \in S
    BY <2>1, UltimateWinnerInEffect DEF Effective
  <2> QED BY <1>2, <1>3, <2>1, <2>2, UltimateWinnerIsStronger
<1>4. ASSUME NEW d \in S, NEW e \in S, d \in Effective(S), e \in Effective(S),
             d # e, d.symbol = e.symbol
      PROVE  d.action = "declare" /\ e.action = "declare" /\ d.ikind # e.ikind
  <2>1. RawIntent(d) /\ RawIntent(e)
    BY DEF Intents
  <2>2. e \in Rivals(S, d) => Beats(d, e)
    BY <1>4, EffectiveBeatsRivals
  <2>3. d \in Rivals(S, e) => Beats(e, d)
    BY <1>4, EffectiveBeatsRivals
  <2>4. ~ (Beats(d, e) /\ Beats(e, d))
    BY <2>1, BeatsAsymmetric
  <2>5. d.action = "cancel" /\ e.action = "declare" => ~ Beats(e, d)
    BY DEF Beats, ActionRank
  <2>6. e.action = "cancel" /\ d.action = "declare" => ~ Beats(d, e)
    BY DEF Beats, ActionRank
  <2>7. d.action \in {"declare", "cancel"} /\ e.action \in {"declare", "cancel"}
    BY <2>1 DEF RawIntent
  <2> QED BY <1>4, <2>2, <2>3, <2>4, <2>5, <2>6, <2>7 DEF Rivals
<1>5. ASSUME NEW x \in I
      PROVE  x.eff <=> x.over = None
  <2>1. PICK d \in S : x = r(d)
    BY <1>1
  <2>2. CASE d \in Effective(S)
    BY <1>2, <2>1, <2>2
  <2>3. CASE d \notin Effective(S)
    <3>1. PICK w \in S : UltimateWinner(S, d) = w
      BY UltimateWinnerInEffect DEF Effective
    <3>2. w.id \in Nat /\ w.id # None
      BY NoneAssumption DEF Intents, RawIntent
    <3>3. r(d).eff = FALSE /\ r(d).over = w.id
      BY <1>2, <2>3, <3>1
    <3> QED BY <2>1, <3>2, <3>3
  <2> QED BY <2>2, <2>3
<1>6. ASSUME NEW x \in I, ~ x.eff
      PROVE  \E w \in I : /\ w.eff /\ w.id = x.over /\ w.symbol = x.symbol
                          /\ Ledger!Outranks(w, x)
  <2>1. PICK d \in S : x = r(d)
    BY <1>1
  <2>2. PICK w \in Effective(S) :
               /\ w \in S /\ r(d).over = w.id
               /\ w.symbol = d.symbol
               /\ \/ w.action = "cancel"
                  \/ /\ d.action = "declare" /\ w.ikind = d.ikind
                     /\ AbsQty(w) >= AbsQty(d)
    BY <1>2, <1>3, <1>6, <2>1
  <2>3. r(w) \in I /\ r(w).eff /\ r(w).id = x.over /\ r(w).symbol = x.symbol
    BY <1>1, <1>2, <2>1, <2>2
  <2>4. Ledger!Outranks(r(w), x)
    BY <1>2, <2>1, <2>2 DEF Ledger!Outranks, Ledger!Size, AbsQty
  <2> QED BY <2>3, <2>4
<1>7. ASSUME NEW x \in I, NEW y \in I, x.eff, y.eff, x # y, x.symbol = y.symbol
      PROVE  x.action = "declare" /\ y.action = "declare" /\ x.ikind # y.ikind
  <2>1. PICK d \in S : x = r(d)
    BY <1>1
  <2>2. PICK e \in S : y = r(e)
    BY <1>1
  <2>3. d \in Effective(S) /\ e \in Effective(S) /\ d # e /\ d.symbol = e.symbol
    BY <1>2, <1>7, <2>1, <2>2
  <2>4. d.action = "declare" /\ e.action = "declare" /\ d.ikind # e.ikind
    BY <1>4, <2>3
  <2> QED BY <1>2, <2>1, <2>2, <2>4
<1> QED BY <1>5, <1>6, <1>7 DEF Ledger!ResolvedBatch

-----------------------------------------------------------------------------
(* What blocks a decision, in the words of the ledger.                     *)

LEMMA BlockersForbid ==
  ASSUME NEW e, NEW C, NEW d, d.event = e,
         \A a, b \in C : a.id = b.id => a = b,
         \A c \in C : /\ c.event = e /\ c.id \in Nat
                      /\ c.qty \in Quantity \union {None}
                      /\ \/ c.ckind = "block"
                         \/ c.ckind = "max_position" /\ c.qty \in Quantity,
         KindOf(d.verb) \in {"signal", "intent"},
         d.qty \in Quantity \union {None},
         d.qty # None => IsIntent(d)
  PROVE  /\ Blockers(d, C, e) # {} <=> \E c \in C : Ledger!Forbids(c, d)
         /\ Ledger!NamesCauses(Blockers(d, C, e), C, d)
<1>1. OfEvent(C, e) = C /\ Unknown(C, e) = {}
  BY NoneAssumption DEF OfEvent, Unknown, Blocks, Caps, Quantity
<1>2. BlockAllIds(C, e) = {c.id : c \in {b \in C : b.ckind = "block"}}
  BY <1>1 DEF BlockAllIds, Blocks
<1>3. Caps(C, e) = {c \in C : c.ckind = "max_position" /\ c.qty # None}
  BY <1>1 DEF Caps
<1>4. ASSUME ExceedsCap(d, C, e)
      PROVE  TightestCap(C, e) \in C /\ Ledger!Forbids(TightestCap(C, e), d)
  <2>1. TightestCap(C, e) \in Caps(C, e)
    BY <1>4, TightestCapIsCap DEF ExceedsCap
  <2> QED BY <1>3, <1>4, <2>1 DEF ExceedsCap, Ledger!Forbids
<1>5. ASSUME NEW c \in C, Ledger!Forbids(c, d), c.ckind # "block"
      PROVE  ExceedsCap(d, C, e) /\ Ledger!Answers(TightestCap(C, e), c)
  <2>1. /\ c.ckind = "max_position" /\ d.action = "declare"
        /\ d.qty # None /\ d.qty > c.qty
    BY <1>5 DEF Ledger!Forbids
  <2>2. c.qty \in Quantity /\ c \in Caps(C, e)
    BY <1>3, <1>5, <2>1, NoneAssumption DEF Quantity
  <2>3. PICK t \in Caps(C, e) : t = TightestCap(C, e) /\ t.qty <= c.qty
    BY <2>2, TightestCapIsCap
  <2>4. t.qty \in Int /\ c.qty \in Int /\ d.qty \in Int
    BY <1>3, <2>1, <2>2, <2>3, QuantityAssumption DEF Quantity
  <2>5. d.qty > t.qty
    BY <2>1, <2>3, <2>4
  <2>6. t.ckind = "max_position"
    BY <1>3, <2>3
  <2> QED BY <2>1, <2>2, <2>3, <2>5, <2>6 DEF ExceedsCap, Ledger!Answers
<1>6. \A c \in C : c.ckind = "block" => Ledger!Forbids(c, d)
  BY DEF Ledger!Forbids
<1>7. \A id \in Blockers(d, C, e) : \E c \in C : c.id = id /\ Ledger!Forbids(c, d)
  BY <1>2, <1>4, <1>6 DEF Blockers
<1>8. ASSUME NEW c \in C, Ledger!Forbids(c, d)
      PROVE  Blockers(d, C, e) # {}
  <2>1. CASE c.ckind = "block"
    <3>1. c.id \in BlockAllIds(C, e)
      BY <1>2, <2>1
    <3> QED BY <3>1 DEF Blockers
  <2>2. CASE c.ckind # "block"
    BY <1>5, <1>8, <2>2 DEF Blockers
  <2> QED BY <2>1, <2>2
<1> DEFINE ids   == Blockers(d, C, e)
           named == {c \in C : c.id \in ids}
<1>9. ASSUME NEW c \in named
      PROVE  /\ Ledger!Forbids(c, d)
             /\ c.ckind # "block" => c = TightestCap(C, e)
  <2>1. PICK b \in C : b.id = c.id /\ Ledger!Forbids(b, d)
    BY <1>7
  <2>2. c = b
    BY <2>1
  <2>3. c.ckind # "block" => c = TightestCap(C, e)
    <3>1. CASE c.id \in BlockAllIds(C, e)
      BY <1>2, <3>1
    <3>2. CASE ExceedsCap(d, C, e) /\ c.id = TightestCap(C, e).id
      BY <1>4, <3>2
    <3> QED BY <3>1, <3>2 DEF Blockers
  <2> QED BY <2>1, <2>2, <2>3
<1>10. ASSUME NEW c \in C, Ledger!Forbids(c, d)
       PROVE  \E n \in named : Ledger!Answers(n, c)
  <2>1. CASE c.ckind = "block"
    BY <1>2, <2>1 DEF Blockers, Ledger!Answers
  <2>2. CASE c.ckind # "block"
    <3>1. ExceedsCap(d, C, e) /\ Ledger!Answers(TightestCap(C, e), c)
      BY <1>5, <1>10, <2>2
    <3>2. TightestCap(C, e) \in named
      BY <1>4, <3>1 DEF Blockers
    <3> QED BY <3>1, <3>2
  <2> QED BY <2>1, <2>2
<1>11. Ledger!NamesCauses(ids, C, d)
  <2> HIDE DEF ids
  <2>1. ids = {c.id : c \in named}
    BY <1>7 DEF ids
  <2> QED BY <1>9, <1>10, <2>1 DEF Ledger!NamesCauses
<1> QED BY <1>7, <1>8, <1>11

-----------------------------------------------------------------------------
(* The invariant of the ledger.                                            *)

OpenIndexes == {i \in 1 .. Len(decisions) : decisions[i].event = pos}

(* The decisions of the closed events come first.                          *)
SettledPrefix ==
  \E k \in 0 .. Len(decisions) :
    \A i \in 1 .. Len(decisions) : decisions[i].event < pos <=> i <= k

(* What each action of a rule fills in.                                    *)
Worded ==
  \A i \in 1 .. Len(decisions) :
    /\ decisions[i].verb \in AllowedVerbs(decisions[i].profile)
    /\ decisions[i].profile \in {input.profile, "risk"}
    /\ IsConstraint(decisions[i]) =>
         \/ decisions[i].ckind = "block"
         \/ decisions[i].ckind = "max_position" /\ decisions[i].qty \in Quantity
    /\ ~ IsIntent(decisions[i]) => decisions[i].eff
    /\ decisions[i].qty # None =>
         IsIntent(decisions[i]) \/ IsConstraint(decisions[i])

(* The intents of the open event are the marked ones, and the constraints  *)
(* collected are those the risk phase emitted; they cannot be told from    *)
(* those of a primary pack of the risk profile, but then there is nothing  *)
(* they could block.                                                       *)
Collected ==
  Open =>
    /\ \A i \in OpenIndexes : IsIntent(decisions[i]) => i \in intents
    /\ \A i \in constraints :
         /\ i \in OpenIndexes /\ IsConstraint(decisions[i])
         /\ decisions[i].profile = "risk"
    /\ phase = "primary" => constraints = {}
    /\ input.profile # "risk" =>
         \A i \in OpenIndexes :
           IsConstraint(decisions[i]) /\ decisions[i].profile = "risk"
             => i \in constraints

(* How far the decisions of the open event have come.                      *)
Raw ==
  phase = "primary" =>
    \A i \in intents : decisions[i].eff /\ decisions[i].over = None

Ungated ==
  phase \in {"primary", "risk"} =>
    \A i \in OpenIndexes : decisions[i].status = "allowed" /\ decisions[i].by = {}

EffectiveKnown ==
  phase = "risk" => \A i \in intents : decisions[i].eff => i \in effective

OpenBatchSound ==
  /\ phase \in {"risk", "close"} => Ledger!ResolvedBatch(Batch(pos))
  /\ phase = "close" => Ledger!GatedBatch(Batch(pos))

LInv ==
  /\ SettledPrefix /\ Worded /\ Collected
  /\ Raw /\ Ungated /\ EffectiveKnown /\ OpenBatchSound
  /\ ResolutionSound /\ GateExact

-----------------------------------------------------------------------------
LEMMA InitLInv == Init => LInv
<1> SUFFICES ASSUME Init PROVE LInv
  OBVIOUS
<1>1. Len(decisions) = 0 /\ 1 .. 0 = {} /\ 0 \in 0 .. 0
  BY DEF Init
<1>2. SettledPrefix /\ Worded
  BY <1>1 DEF SettledPrefix, Worded
<1>3. Collected /\ Raw /\ Ungated /\ EffectiveKnown /\ OpenBatchSound
  BY DEF Init, Open, Collected, Raw, Ungated, EffectiveKnown, OpenBatchSound
<1>4. ResolutionSound /\ GateExact
  BY DEF Init, ResolutionSound, GateExact
<1> QED BY <1>2, <1>3, <1>4 DEF LInv

(* Steps that leave the event and its decisions alone.                     *)
LEMMA BookkeepingLInv ==
  ASSUME LInv,
         UNCHANGED <<input, phase, pos, decisions, intents, effective, constraints>>
  PROVE  LInv'
<1>1. SettledPrefix' /\ Worded'
  BY DEF LInv, SettledPrefix, Worded
<1>2. (Collected /\ Raw /\ Ungated /\ EffectiveKnown)'
  BY DEF LInv, Collected, Open, OpenIndexes, Raw, Ungated, EffectiveKnown
<1>3. \A e : Batch(e)' = Batch(e)
  BY DEF Batch
<1>4. (OpenBatchSound /\ ResolutionSound /\ GateExact)'
  BY <1>3 DEF LInv, OpenBatchSound, ResolutionSound, GateExact
<1> QED BY <1>1, <1>2, <1>4 DEF LInv

(* An event is over or has not begun, and its decisions are not touched.   *)
LEMMA OutsideLInv ==
  ASSUME LInv, phase' \in {"event", "done", "failed"},
         UNCHANGED <<input, pos, decisions>>
  PROVE  LInv'
<1>1. SettledPrefix' /\ Worded'
  BY DEF LInv, SettledPrefix, Worded
<1>2. (Collected /\ Raw /\ Ungated /\ EffectiveKnown /\ OpenBatchSound)'
  BY DEF Collected, Open, Raw, Ungated, EffectiveKnown, OpenBatchSound
<1>3. \A e : Batch(e)' = Batch(e)
  BY DEF Batch
<1>4. (ResolutionSound /\ GateExact)'
  BY <1>3 DEF LInv, ResolutionSound, GateExact
<1> QED BY <1>1, <1>2, <1>4 DEF LInv

LEMMA BeginEventLInv ==
  ASSUME IInv, LInv, BeginEvent
  PROVE  LInv'
<1>1. /\ phase = "event" /\ phase' = "primary" /\ intents' = {} /\ constraints' = {}
      /\ UNCHANGED <<input, pos, decisions>>
  BY DEF BeginEvent, ledgerVars
<1>2. OpenIndexes' = {}
  <2>1. \A i \in 1 .. Len(decisions) : decisions[i].event < pos
    BY <1>1 DEF IInv, Marked
  <2>2. pos \in Nat
    BY DEF IInv, TypeOK
  <2> QED BY <1>1, <2>1, <2>2 DEF OpenIndexes
<1>3. SettledPrefix' /\ Worded'
  BY <1>1 DEF LInv, SettledPrefix, Worded
<1>4. (Collected /\ Raw /\ Ungated /\ EffectiveKnown /\ OpenBatchSound)'
  BY <1>1, <1>2 DEF Collected, Raw, Ungated, EffectiveKnown, OpenBatchSound
<1>5. \A e : Batch(e)' = Batch(e)
  BY <1>1 DEF Batch
<1>6. (ResolutionSound /\ GateExact)'
  BY <1>1, <1>5 DEF LInv, ResolutionSound, GateExact
<1> QED BY <1>3, <1>4, <1>6 DEF LInv

LEMMA CloseEventLInv ==
  ASSUME IInv, LInv, CloseEvent
  PROVE  LInv'
<1>1. /\ phase = "close" /\ phase' = "event" /\ pos' = pos + 1 /\ pos \in Nat
      /\ UNCHANGED <<input, decisions>>
  BY DEF CloseEvent, ledgerVars, IInv, TypeOK
<1>2. Worded'
  BY <1>1 DEF LInv, Worded
<1>3. SettledPrefix'
  <2>1. Len(decisions) \in Nat /\ \A i \in 1 .. Len(decisions) : decisions[i].event \in Nat
    BY DecisionsType DEF Decision
  <2>2. \A i \in 1 .. Len(decisions) : decisions[i].event < pos + 1
    BY <1>1, <2>1 DEF IInv, Marked
  <2> QED BY <1>1, <2>1, <2>2 DEF SettledPrefix
<1>4. (Collected /\ Raw /\ Ungated /\ EffectiveKnown /\ OpenBatchSound)'
  BY <1>1 DEF Collected, Open, Raw, Ungated, EffectiveKnown, OpenBatchSound
<1>5. \A e : Batch(e)' = Batch(e)
  BY <1>1 DEF Batch
<1>6. \A e \in 0 .. pos' - 1 : e \in 0 .. pos - 1 \/ e = pos
  BY <1>1
<1>7. (ResolutionSound /\ GateExact)'
  BY <1>1, <1>5, <1>6 DEF LInv, OpenBatchSound, ResolutionSound, GateExact
<1> QED BY <1>2, <1>3, <1>4, <1>7 DEF LInv

-----------------------------------------------------------------------------
(* Steps that write decisions.                                             *)

(* Whatever is written belongs to the open event, so the batches of the    *)
(* closed ones are the same afterwards.                                    *)
Extends(n) ==
  /\ Len(decisions) <= n
  /\ \A i \in 1 .. Len(decisions) : decisions'[i].event = decisions[i].event
  /\ \A i \in Len(decisions) + 1 .. n : decisions'[i].event = pos

LEMMA ClosedBatchesKept ==
  ASSUME IInv, LInv, Next, Open, UNCHANGED pos, Extends(Len(decisions')),
         Len(decisions') \in Nat
  PROVE  (SettledPrefix /\ ResolutionSound /\ GateExact)'
<1>1. Len(decisions) \in Nat /\ pos \in Nat
  BY DecisionsType DEF IInv, TypeOK
<1>2. \A i \in 1 .. Len(decisions) :
        decisions[i].event < pos => decisions'[i] = decisions[i]
  BY ClosedStayFrozen
<1>3. ASSUME NEW e \in 0 .. pos - 1
      PROVE  Batch(e)' = Batch(e)
  <2>1. \A i \in 1 .. Len(decisions') : decisions'[i].event = e =>
          i \in 1 .. Len(decisions) /\ decisions[i].event = e
    BY <1>1 DEF Extends
  <2>2. \A i \in 1 .. Len(decisions) : decisions[i].event = e =>
          i \in 1 .. Len(decisions') /\ decisions'[i] = decisions[i]
    BY <1>1, <1>2 DEF Extends
  <2> QED BY <2>1, <2>2 DEF Batch
<1>4. (ResolutionSound /\ GateExact)'
  BY <1>3 DEF LInv, ResolutionSound, GateExact
<1>5. SettledPrefix'
  <2>1. PICK k \in 0 .. Len(decisions) :
          \A i \in 1 .. Len(decisions) : decisions[i].event < pos <=> i <= k
    BY DEF LInv, SettledPrefix
  <2>2. \A i \in 1 .. Len(decisions') : decisions'[i].event < pos <=> i <= k
    BY <1>1, <2>1 DEF Extends
  <2>3. k \in 0 .. Len(decisions')
    BY <1>1 DEF Extends
  <2> QED BY <2>2, <2>3 DEF SettledPrefix
<1> QED BY <1>4, <1>5

(* Emitting a decision.                                                    *)
Fresh(d) ==
  /\ d.profile = PhaseProfile
  /\ d.profile \in {input.profile, "risk"}
  /\ IsConstraint(d) => \/ d.ckind = "block"
                        \/ d.ckind = "max_position" /\ d.qty \in Quantity
  /\ d.eff = TRUE /\ d.over = None /\ d.status = "allowed" /\ d.by = {}
  /\ d.qty # None => IsIntent(d) \/ IsConstraint(d)

LEMMA NewDecisionFresh ==
  ASSUME IInv, phase \in {"primary", "risk"}, current # None,
         NEW verb \in AllowedVerbs(PhaseProfile), NEW args \in ArgsOf(verb)
  PROVE  Fresh(NewDecision(verb, args))
<1> DEFINE d == NewDecision(verb, args)
<1>1. verb \in Verb
  BY NewDecisionType
<1>2. /\ d.verb = verb /\ d.profile = PhaseProfile /\ d.qty = args.qty
      /\ d.eff = TRUE /\ d.over = None /\ d.status = "allowed" /\ d.by = {}
      /\ verb = "block" => d.ckind = "block"
      /\ verb = "constrain_max_position" => d.ckind = "max_position"
  BY DEF NewDecision
<1> HIDE DEF d
<1>3. /\ verb = "constrain_max_position" => args.qty \in Quantity
      /\ verb \notin {"constrain_max_position", "declare_intent"} => args.qty = None
  BY ArgsAssumption DEF ArgsOf, NoArgs
<1>4. /\ IsConstraint(d) <=> verb \in {"constrain_max_position", "block"}
      /\ IsIntent(d) <=> verb \in {"declare_intent", "cancel_intent"}
  BY <1>1, <1>2 DEF IsConstraint, IsIntent, KindOf, Verb
<1>5. Fresh(d)
  BY <1>2, <1>3, <1>4 DEF PhaseProfile, Fresh
<1> QED BY <1>5 DEF d

LEMMA EmitLInv ==
  ASSUME IInv, LInv, Emit
  PROVE  LInv'
<1> DEFINE n    == Len(decisions)
           verb == Head(current.script)
<1>1. /\ n \in Nat /\ counter = n /\ decisions \in Seq(Decision) /\ pos \in Nat
      /\ \A i \in 1 .. n : decisions[i].id = i
      /\ phase \in {"primary", "risk"} /\ Open
      /\ UNCHANGED <<input, phase, pos, effective>>
      /\ intents \subseteq 1 .. n
  BY DecisionsType DEF IInv, TypeOK, Emit, Open
<1>2. PICK args, d :
        /\ args \in ArgsOf(verb)
        /\ d = NewDecision(verb, args) /\ decisions' = Append(decisions, d)
  BY DEF Emit
<1>3. /\ verb \in AllowedVerbs(PhaseProfile) /\ current # None
      /\ d \in Decision /\ d.event = pos /\ d.id = n + 1
  BY <1>1, <1>2, NewDecisionType DEF Emit
<1>4. d.verb = verb /\ Fresh(d)
  BY <1>1, <1>2, <1>3, NewDecisionType, NewDecisionFresh
<1>5. /\ Len(decisions') = n + 1 /\ decisions'[n + 1] = d
      /\ \A i \in 1 .. n : decisions'[i] = decisions[i]
  BY <1>1, <1>2, <1>3
<1>6. /\ intents' = IF IsIntent(d) THEN intents \union {n + 1} ELSE intents
      /\ constraints' = IF phase = "risk" /\ IsConstraint(d)
                        THEN constraints \union {n + 1} ELSE constraints
  BY <1>1, <1>4 DEF Emit, AppendedAt, IsIntent, IsConstraint
<1>7. phase = "risk" => d.profile = "risk" /\ ~ IsIntent(d)
  BY <1>3, <1>4 DEF Fresh, PhaseProfile, AllowedVerbs, IsIntent, KindOf
<1> HIDE DEF n, verb
<1>8. /\ \A i \in 1 .. n + 1 : i \in 1 .. n \/ i = n + 1
      /\ OpenIndexes' = OpenIndexes \union {n + 1} /\ n + 1 \notin OpenIndexes
      /\ \A i \in OpenIndexes : decisions'[i] = decisions[i]
      /\ \A i \in intents : decisions'[i] = decisions[i]
      /\ n + 1 \notin intents
  <2>1. OpenIndexes \subseteq 1 .. n /\ n + 1 \notin 1 .. n
    BY <1>1 DEF OpenIndexes, n
  <2>2. OpenIndexes' = {i \in 1 .. n + 1 : decisions'[i].event = pos}
    BY <1>1, <1>5 DEF OpenIndexes
  <2>3. \A i \in 1 .. n + 1 : i \in 1 .. n \/ i = n + 1
    BY <1>1
  <2>4. 1 .. n \subseteq 1 .. n + 1 /\ n + 1 \in 1 .. n + 1
    BY <1>1
  <2>5. OpenIndexes' = OpenIndexes \union {n + 1}
    BY <1>3, <1>5, <2>1, <2>2, <2>3, <2>4 DEF OpenIndexes, n
  <2> QED BY <1>1, <1>5, <2>1, <2>3, <2>5
<1>9. Worded'
  BY <1>1, <1>3, <1>4, <1>5, <1>8 DEF LInv, Worded, Fresh, n, IsIntent, IsConstraint
<1>10. Collected'
  <2>1. \A i \in OpenIndexes' : IsIntent(decisions'[i]) => i \in intents'
    BY <1>1, <1>5, <1>6, <1>8 DEF LInv, Collected, IsIntent
  <2>2. \A i \in constraints' : /\ i \in OpenIndexes' /\ IsConstraint(decisions'[i])
                                /\ decisions'[i].profile = "risk"
    BY <1>1, <1>5, <1>6, <1>7, <1>8 DEF LInv, Collected, IsConstraint
  <2>3. phase' = "primary" => constraints' = {}
    BY <1>1, <1>6 DEF LInv, Collected
  <2>4. ASSUME input.profile # "risk", NEW i \in OpenIndexes',
               IsConstraint(decisions'[i]), decisions'[i].profile = "risk"
        PROVE  i \in constraints'
    <3>1. CASE i \in OpenIndexes
      BY <1>1, <1>6, <1>8, <2>4, <3>1 DEF LInv, Collected, IsConstraint
    <3>2. CASE i = n + 1
      BY <1>1, <1>4, <1>5, <1>6, <2>4, <3>2 DEF Fresh, PhaseProfile, IsConstraint
    <3> QED BY <1>8, <2>4, <3>1, <3>2
  <2> QED BY <1>1, <2>1, <2>2, <2>3, <2>4 DEF Collected
<1>11. Raw'
  BY <1>1, <1>4, <1>5, <1>6, <1>8 DEF LInv, Raw, Fresh
<1>12. Ungated'
  BY <1>1, <1>4, <1>5, <1>8 DEF LInv, Ungated, Fresh
<1>13. EffectiveKnown'
  BY <1>1, <1>6, <1>7, <1>8 DEF LInv, EffectiveKnown
<1>14. OpenBatchSound'
  <2>1. CASE phase = "primary"
    BY <1>1, <2>1 DEF OpenBatchSound
  <2>2. CASE phase = "risk"
    <3>1. Ledger!ResolvedBatch(Batch(pos)) /\ ~ IsIntent(d)
      BY <1>7, <2>2 DEF LInv, OpenBatchSound
    <3>2. Batch(pos) = {decisions[i] : i \in OpenIndexes}
      BY DEF Batch, OpenIndexes
    <3>3. Batch(pos)' = {decisions'[i] : i \in OpenIndexes'}
      BY DEF Batch, OpenIndexes
    <3>4. Batch(pos)' = Batch(pos) \union {d}
      BY <1>5, <1>8, <3>2, <3>3
    <3>5. {x \in Batch(pos)' : Ledger!IsIntent(x)} = {x \in Batch(pos) : Ledger!IsIntent(x)}
      BY <3>1, <3>4, LedgerWords
    <3>6. Ledger!ResolvedBatch(Batch(pos)')
      BY <3>1, <3>5 DEF Ledger!ResolvedBatch
    <3> QED BY <1>1, <2>2, <3>6 DEF OpenBatchSound
  <2> QED BY <1>1, <2>1, <2>2
<1>15. (SettledPrefix /\ ResolutionSound /\ GateExact)'
  <2>1. Extends(Len(decisions'))
    BY <1>1, <1>3, <1>5, <1>8 DEF Extends, n
  <2>2. Len(decisions') \in Nat /\ Next
    BY <1>1, <1>5 DEF Next
  <2> QED BY <1>1, <2>1, <2>2, ClosedBatchesKept
<1> QED BY <1>9, <1>10, <1>11, <1>12, <1>13, <1>14, <1>15 DEF LInv

-----------------------------------------------------------------------------
(* The resolution of an event.                                             *)

(* The risk profile has no signals and no intents.                         *)
LEMMA RiskProfileHarmless ==
  ASSUME LInv, input.profile = "risk", NEW i \in 1 .. Len(decisions)
  PROVE  KindOf(decisions[i].verb) \notin {"signal", "intent"}
<1>1. decisions[i].verb \in AllowedVerbs("risk")
  BY DEF LInv, Worded
<1> QED BY <1>1 DEF AllowedVerbs, KindOf

(* With nothing to enforce, the ungated batch is gated.                    *)
LEMMA NothingToGate ==
  ASSUME NEW B,
         \A d \in B : d.status = "allowed" /\ d.by = {},
         \/ \A d \in B : KindOf(d.verb) \notin {"signal", "intent"}
         \/ \A d \in B : ~ (IsConstraint(d) /\ d.profile = "risk")
  PROVE  Ledger!GatedBatch(B)
<1>1. CASE \A d \in B : KindOf(d.verb) \notin {"signal", "intent"}
  BY <1>1, LedgerWords DEF Ledger!GatedBatch
<1>2. CASE \A d \in B : ~ (IsConstraint(d) /\ d.profile = "risk")
  <2>1. Ledger!RiskConstraintsOf(B) = {}
    BY <1>2, LedgerWords DEF Ledger!RiskConstraintsOf
  <2> QED BY <2>1 DEF Ledger!GatedBatch
<1> QED BY <1>1, <1>2

LEMMA ResolvedFields ==
  ASSUME NEW S, NEW d \in Decision
  PROVE  /\ Resolved(S, d).id = d.id
         /\ Resolved(S, d).event = d.event
         /\ Resolved(S, d).verb = d.verb
         /\ Resolved(S, d).profile = d.profile
         /\ Resolved(S, d).ckind = d.ckind
         /\ Resolved(S, d).qty = d.qty
         /\ Resolved(S, d).status = d.status
         /\ Resolved(S, d).by = d.by
         /\ Resolved(S, d).eff => d \in Effective(S)
BY DEF Resolved, Decision

LEMMA ResolveIntentsLInv ==
  ASSUME IInv, LInv, ResolveIntents
  PROVE  LInv'
<1>0. PICK n, S, J, g, B :
        /\ n = Len(decisions) /\ S = RawIntents /\ J = OpenIndexes
        /\ g = decisions' /\ B = Batch(pos)'
  OBVIOUS
<1>1. /\ phase = "primary" /\ phase' = IF input.risk = {} THEN "close" ELSE "risk"
      /\ UNCHANGED <<input, pos, intents, constraints>> /\ Open
      /\ n \in Nat /\ pos \in Nat
      /\ \A i \in 1 .. n : decisions[i] \in Decision /\ decisions[i].id = i
  BY <1>0, DecisionsType DEF ResolveIntents, Open, IInv, TypeOK
<1>2. Intents(S) /\ S = {decisions[i] : i \in intents}
  BY <1>0, <1>1, RawIntentsAreIntents DEF RawIntents
<1>3. /\ intents \subseteq J /\ J \subseteq 1 .. n
      /\ \A i \in J : i \in intents <=> IsIntent(decisions[i])
      /\ constraints = {}
  BY <1>0, <1>1 DEF IInv, TypeOK, Marked, LInv, Collected, OpenIndexes
<1>4. S \subseteq Decision
  BY <1>1, <1>2, <1>3
<1>5. /\ Len(g) = n
      /\ \A i \in intents : g[i] = Resolved(S, decisions[i])
      /\ \A i \in 1 .. n : i \notin intents => g[i] = decisions[i]
  <2>1. g = [i \in 1 .. n |-> IF i \in intents THEN Resolved(S, decisions[i])
                                               ELSE decisions[i]]
    BY <1>0 DEF ResolveIntents
  <2>2. g \in Seq(Decision)
    BY <1>0, ResolveIntentsIInv DEF IInv, TypeOK
  <2> QED BY <1>1, <1>3, <2>1, <2>2, LenProperties
<1>6. ASSUME NEW i \in 1 .. n
      PROVE  /\ g[i].id = i
             /\ g[i].event = decisions[i].event
             /\ g[i].verb = decisions[i].verb
             /\ g[i].profile = decisions[i].profile
             /\ g[i].ckind = decisions[i].ckind
             /\ g[i].qty = decisions[i].qty
             /\ g[i].status = decisions[i].status
             /\ g[i].by = decisions[i].by
  <2>1. CASE i \notin intents
    BY <1>1, <1>5, <2>1
  <2>2. CASE i \in intents
    <3>1. g[i] = Resolved(S, decisions[i]) /\ decisions[i] \in Decision
      BY <1>1, <1>5, <2>2
    <3> QED BY <1>1, <3>1, ResolvedFields
  <2> QED BY <2>1, <2>2
<1>7. OpenIndexes' = J /\ B = {g[i] : i \in J}
  <2>1. OpenIndexes' = {i \in 1 .. n : g[i].event = pos}
    BY <1>0, <1>1, <1>5 DEF OpenIndexes
  <2>2. OpenIndexes' = J
    BY <1>0, <1>6, <2>1 DEF OpenIndexes
  <2>3. B = {g[i] : i \in OpenIndexes'}
    BY <1>0, <1>1 DEF Batch, OpenIndexes
  <2> QED BY <2>2, <2>3
<1>8. Worded'
  <2>1. \A i \in 1 .. n : ~ IsIntent(decisions[i]) => i \notin intents
    BY <1>3
  <2>2. \A i \in 1 .. n : ~ IsIntent(g[i]) => g[i].eff
    BY <1>0, <1>5, <1>6, <2>1 DEF LInv, Worded, IsIntent
  <2>3. \A i \in 1 .. n :
          /\ IsConstraint(g[i]) => \/ g[i].ckind = "block"
                                   \/ g[i].ckind = "max_position" /\ g[i].qty \in Quantity
          /\ g[i].qty # None => IsIntent(g[i]) \/ IsConstraint(g[i])
    BY <1>0, <1>6 DEF LInv, Worded, IsIntent, IsConstraint
  <2>4. \A i \in 1 .. n : /\ g[i].verb \in AllowedVerbs(g[i].profile)
                          /\ g[i].profile \in {input.profile, "risk"}
    BY <1>0, <1>6 DEF LInv, Worded
  <2> QED BY <1>0, <1>1, <1>5, <2>2, <2>3, <2>4 DEF Worded
<1>9. Collected'
  <2>1. \A i \in J : /\ IsIntent(g[i]) <=> IsIntent(decisions[i])
                     /\ IsConstraint(g[i]) <=> IsConstraint(decisions[i])
                     /\ g[i].profile = decisions[i].profile
    BY <1>3, <1>6 DEF IsIntent, IsConstraint
  <2>2. \A i \in J : IsIntent(g[i]) => i \in intents
    BY <1>3, <2>1
  <2>3. input.profile # "risk" =>
          \A i \in J : ~ (IsConstraint(g[i]) /\ g[i].profile = "risk")
    BY <1>0, <1>1, <1>3, <2>1 DEF LInv, Collected
  <2> QED BY <1>0, <1>1, <1>3, <1>7, <2>2, <2>3 DEF Collected
<1>10. \A i \in J : g[i].status = "allowed" /\ g[i].by = {}
  BY <1>0, <1>1, <1>3, <1>6 DEF LInv, Ungated
<1>11. Raw' /\ Ungated'
  BY <1>0, <1>1, <1>7, <1>10 DEF Raw, Ungated
<1>12. EffectiveKnown'
  <2>1. effective' = {d.id : d \in Effective(S)}
    BY <1>0 DEF ResolveIntents
  <2>2. ASSUME NEW i \in intents, g[i].eff
        PROVE  i \in effective'
    <3>1. g[i] = Resolved(S, decisions[i]) /\ decisions[i] \in Decision
      BY <1>1, <1>3, <1>5
    <3>2. decisions[i] \in Effective(S) /\ decisions[i].id = i
      BY <1>1, <1>3, <2>2, <3>1, ResolvedFields
    <3> QED BY <2>1, <3>2
  <2> QED BY <1>0, <1>1, <2>2 DEF EffectiveKnown
<1>13. Ledger!ResolvedBatch(B)
  <2>1. \A i \in J : IsIntent(g[i]) <=> i \in intents
    BY <1>3, <1>6 DEF IsIntent
  <2>2. ASSUME NEW x \in B, IsIntent(x)
        PROVE  \E d \in S : x = Resolved(S, d)
    <3>1. PICK i \in intents : x = g[i]
      BY <1>7, <2>1, <2>2
    <3>2. decisions[i] \in S /\ x = Resolved(S, decisions[i])
      BY <1>2, <1>5, <3>1
    <3> QED BY <3>2
  <2>3. ASSUME NEW d \in S
        PROVE  Resolved(S, d) \in B /\ IsIntent(Resolved(S, d))
    <3>1. PICK i \in intents : d = decisions[i]
      BY <1>2
    <3>2. g[i] = Resolved(S, d)
      BY <1>5, <3>1
    <3> QED BY <1>3, <1>7, <2>1, <3>2
  <2> QED BY <1>2, <1>4, <2>2, <2>3, ResolutionResolves
<1>14. Ledger!GatedBatch(B)
  <2>1. \A d \in B : d.status = "allowed" /\ d.by = {}
    BY <1>7, <1>10
  <2>2. CASE input.profile = "risk"
    <3>1. \A i \in J : KindOf(g[i].verb) \notin {"signal", "intent"}
      BY <1>0, <1>3, <1>6, <2>2, RiskProfileHarmless
    <3> QED BY <1>7, <2>1, <3>1, NothingToGate
  <2>3. CASE input.profile # "risk"
    <3>1. \A i \in J : ~ (IsConstraint(g[i]) /\ g[i].profile = "risk")
      BY <1>0, <1>1, <1>3, <1>6, <2>3 DEF LInv, Collected, IsConstraint
    <3> QED BY <1>7, <2>1, <3>1, NothingToGate
  <2> QED BY <2>2, <2>3
<1>15. OpenBatchSound'
  BY <1>0, <1>1, <1>13, <1>14 DEF OpenBatchSound
<1>16. (SettledPrefix /\ ResolutionSound /\ GateExact)'
  <2>1. Extends(Len(decisions')) /\ Len(decisions') \in Nat
    BY <1>0, <1>1, <1>5, <1>6 DEF Extends
  <2> QED BY <1>1, <2>1, ClosedBatchesKept DEF Next
<1> QED BY <1>8, <1>9, <1>11, <1>12, <1>15, <1>16 DEF LInv

-----------------------------------------------------------------------------
(* The enforcement of an event's constraints.                              *)

LEMMA AppliedToDecision ==
  ASSUME NEW D, NEW C, NEW e, NEW d \in D, \A x \in D : x.id = d.id => x = d
  PROVE  /\ d.id \in DOMAIN AppliedBlocks(D, C, e) <=>
              Gateable(d, e) /\ Blockers(d, C, e) # {}
         /\ d.id \in DOMAIN AppliedBlocks(D, C, e) =>
              AppliedBlocks(D, C, e)[d.id] = Blockers(d, C, e)
<1> DEFINE hit == {x \in D : Gateable(x, e) /\ Blockers(x, C, e) # {}}
           by(id) == UNION {Blockers(x, C, e) : x \in {y \in hit : y.id = id}}
<1>1. AppliedBlocks(D, C, e) = [id \in {x.id : x \in hit} |-> by(id)]
  BY DEF AppliedBlocks
<1>2. d.id \in {x.id : x \in hit} <=> d \in hit
  OBVIOUS
<1>3. d \in hit => {y \in hit : y.id = d.id} = {d}
  OBVIOUS
<1>4. d \in hit => by(d.id) = Blockers(d, C, e)
  <2>1. ASSUME d \in hit
        PROVE  by(d.id) = UNION {Blockers(x, C, e) : x \in {d}}
    BY <1>3, <2>1
  <2>2. UNION {Blockers(x, C, e) : x \in {d}} = Blockers(d, C, e)
    OBVIOUS
  <2> QED BY <2>1, <2>2
<1> HIDE DEF by
<1>5. d \in hit => AppliedBlocks(D, C, e)[d.id] = by(d.id)
  BY <1>1, <1>2
<1>6. DOMAIN AppliedBlocks(D, C, e) = {x.id : x \in hit}
  BY <1>1
<1> QED BY <1>2, <1>4, <1>5, <1>6

LEMMA AppliedOnlyToDecisions ==
  ASSUME NEW D, NEW C, NEW e, NEW id \in DOMAIN AppliedBlocks(D, C, e)
  PROVE  \E d \in D : d.id = id
BY DEF AppliedBlocks

(* The decisions of an event as the enforcement finds and leaves them.     *)
Pending(d, e) ==
  /\ d \in Decision /\ d.event = e /\ d.status = "allowed" /\ d.by = {}
  /\ ~ IsIntent(d) => d.eff
  /\ d.qty # None => IsIntent(d) \/ IsConstraint(d)

Constraining(c, e) ==
  /\ c.event = e /\ c.id \in Nat /\ c.qty \in Quantity \union {None}
  /\ c.ckind = "block" \/ (c.ckind = "max_position" /\ c.qty \in Quantity)

Hit(d, C, e) == Gateable(d, e) /\ Blockers(d, C, e) # {}

Enforced(d, C, e) ==
  IF Hit(d, C, e)
  THEN [d EXCEPT !.status = "blocked", !.by = Blockers(d, C, e)]
  ELSE d

LEMMA EnforcedFields ==
  ASSUME NEW C, NEW e, NEW d, Pending(d, e)
  PROVE  /\ Enforced(d, C, e).id = d.id
         /\ Enforced(d, C, e).verb = d.verb
         /\ Enforced(d, C, e).profile = d.profile
         /\ Enforced(d, C, e).event = d.event
         /\ Enforced(d, C, e).symbol = d.symbol
         /\ Enforced(d, C, e).action = d.action
         /\ Enforced(d, C, e).ikind = d.ikind
         /\ Enforced(d, C, e).ckind = d.ckind
         /\ Enforced(d, C, e).qty = d.qty
         /\ Enforced(d, C, e).eff = d.eff
         /\ Enforced(d, C, e).over = d.over
         /\ Hit(d, C, e) => /\ Enforced(d, C, e).status = "blocked"
                            /\ Enforced(d, C, e).by = Blockers(d, C, e)
         /\ ~ Hit(d, C, e) => Enforced(d, C, e) = d
BY DEF Enforced, Pending, Decision

LEMMA PendingGateable ==
  ASSUME NEW e, NEW d, Pending(d, e)
  PROVE  Gateable(d, e) <=> KindOf(d.verb) \in {"signal", "intent"} /\ d.eff
<1>1. d.verb \in Verb /\ d.event = e /\ (~ IsIntent(d) => d.eff)
  BY DEF Pending, Decision
<1>2. KindOf(d.verb) \in {"signal", "intent", "annotation", "constraint"}
  BY <1>1 DEF KindOf, Verb
<1> QED BY <1>1, <1>2 DEF Gateable, IsIntent

LEMMA PendingBlocked ==
  ASSUME NEW e, NEW d, Pending(d, e), KindOf(d.verb) \in {"signal", "intent"},
         NEW C, \A c \in C : Constraining(c, e),
         \A a, b \in C : a.id = b.id => a = b
  PROVE  /\ Blockers(d, C, e) # {} <=> \E c \in C : Ledger!Forbids(c, d)
         /\ Ledger!NamesCauses(Blockers(d, C, e), C, d)
<1>1. d.event = e /\ d.qty \in Quantity \union {None}
  BY DEF Pending, Decision
<1>2. d.qty # None => IsIntent(d)
  BY DEF Pending, IsConstraint
<1>3. \A c \in C : /\ c.event = e /\ c.id \in Nat
                   /\ c.qty \in Quantity \union {None}
                   /\ \/ c.ckind = "block"
                      \/ c.ckind = "max_position" /\ c.qty \in Quantity
  BY DEF Constraining
<1> QED BY <1>1, <1>2, <1>3, BlockersForbid

(* One decision of a gated batch.                                          *)
Exact(x, C) ==
  LET enforced == /\ KindOf(x.verb) \in {"signal", "intent"} /\ x.eff
                  /\ \E c \in C : Ledger!Forbids(c, x)
  IN  IF enforced THEN x.status = "blocked" /\ Ledger!NamesCauses(x.by, C, x)
                  ELSE x.status = "allowed" /\ x.by = {}

LEMMA EnforcedIsExact ==
  ASSUME NEW e, NEW d, Pending(d, e),
         NEW C, \A c \in C : Constraining(c, e),
         \A a, b \in C : a.id = b.id => a = b, NEW x, x = Enforced(d, C, e)
  PROVE  Exact(x, C)
<1>1. /\ x.verb = d.verb /\ x.eff = d.eff
      /\ \A c : Ledger!Forbids(c, x) <=> Ledger!Forbids(c, d)
  BY EnforcedFields DEF Ledger!Forbids
<1>2. CASE Hit(d, C, e)
  <2>1. x.status = "blocked" /\ x.by = Blockers(d, C, e)
    BY <1>2, EnforcedFields
  <2>2. KindOf(d.verb) \in {"signal", "intent"} /\ d.eff /\ Blockers(d, C, e) # {}
    BY <1>2, PendingGateable DEF Hit
  <2>3. /\ \E c \in C : Ledger!Forbids(c, d)
        /\ Ledger!NamesCauses(Blockers(d, C, e), C, d)
    BY <2>2, PendingBlocked
  <2>4. Ledger!NamesCauses(x.by, C, x)
    BY <1>1, <2>1, <2>3 DEF Ledger!NamesCauses
  <2> QED BY <1>1, <2>1, <2>2, <2>3, <2>4 DEF Exact
<1>3. CASE ~ Hit(d, C, e)
  <2>1. x = d /\ x.status = "allowed" /\ x.by = {}
    BY <1>3, EnforcedFields DEF Pending
  <2>2. KindOf(d.verb) \in {"signal", "intent"} /\ d.eff =>
          ~ \E c \in C : Ledger!Forbids(c, d)
    BY <1>3, PendingGateable, PendingBlocked DEF Hit
  <2> QED BY <2>1, <2>2 DEF Exact
<1> QED BY <1>2, <1>3

(* A batch whose decisions are each blocked exactly is a gated batch.      *)
LEMMA ExactBatchIsGated ==
  ASSUME NEW B, NEW C, Ledger!RiskConstraintsOf(B) = C, \A x \in B : Exact(x, C)
  PROVE  Ledger!GatedBatch(B)
<1>1. ASSUME NEW x \in B
      PROVE  LET enforced == /\ Ledger!KindOf(x.verb) \in {"signal", "intent"}
                             /\ x.eff
                             /\ \E c \in C : Ledger!Forbids(c, x)
             IN  IF enforced
                 THEN x.status = "blocked" /\ Ledger!NamesCauses(x.by, C, x)
                 ELSE x.status = "allowed" /\ x.by = {}
  <2>1. Ledger!KindOf(x.verb) = KindOf(x.verb)
    BY LedgerWords
  <2>2. Exact(x, C)
    OBVIOUS
  <2> QED BY <2>1, <2>2 DEF Exact
<1> QED BY <1>1 DEF Ledger!GatedBatch

(* A batch is gated by the constraints of the risk profile in it; when the *)
(* primary pack is of the risk profile there is nothing to gate.           *)
LEMMA EnforcedBatchIsGated ==
  ASSUME NEW e, NEW A, \A d \in A : Pending(d, e),
         NEW C, \A c \in C : Constraining(c, e),
         \A a, b \in C : a.id = b.id => a = b,
         NEW B, B = {Enforced(d, C, e) : d \in A},
         \/ \A d \in A : KindOf(d.verb) \notin {"signal", "intent"}
         \/ C = {d \in A : IsConstraint(d) /\ d.profile = "risk"}
  PROVE  Ledger!GatedBatch(B)
<1>1. CASE \A d \in A : KindOf(d.verb) \notin {"signal", "intent"}
  <2>1. \A d \in A : ~ Hit(d, C, e)
    BY <1>1, PendingGateable DEF Hit
  <2>2. \A d \in A : Enforced(d, C, e) = d
    BY <2>1, EnforcedFields
  <2>3. \A d \in B : /\ d.status = "allowed" /\ d.by = {}
                     /\ KindOf(d.verb) \notin {"signal", "intent"}
    BY <1>1, <2>2 DEF Pending
  <2> QED BY <2>3, NothingToGate
<1>2. CASE C = {d \in A : IsConstraint(d) /\ d.profile = "risk"}
  <2>1. \A d \in A : /\ IsConstraint(Enforced(d, C, e)) <=> IsConstraint(d)
                     /\ Enforced(d, C, e).profile = d.profile
                     /\ IsConstraint(d) => Enforced(d, C, e) = d
    <3>1. \A d \in A : IsConstraint(d) => ~ Hit(d, C, e)
      BY DEF Hit, Gateable, IsConstraint
    <3> QED BY <3>1, EnforcedFields DEF IsConstraint
  <2>2. ASSUME NEW c
        PROVE  c \in Ledger!RiskConstraintsOf(B) <=> c \in C
    <3>1. c \in Ledger!RiskConstraintsOf(B) <=>
            c \in B /\ IsConstraint(c) /\ c.profile = "risk"
      BY LedgerWords DEF Ledger!RiskConstraintsOf
    <3>2. ASSUME c \in B, IsConstraint(c), c.profile = "risk"
          PROVE  c \in C
      <4>1. PICK d \in A : c = Enforced(d, C, e)
        BY <3>2
      <4> QED BY <1>2, <2>1, <3>2, <4>1
    <3>3. ASSUME c \in C
          PROVE  c \in B /\ IsConstraint(c) /\ c.profile = "risk"
      <4>1. c \in A /\ IsConstraint(c) /\ c.profile = "risk"
        BY <1>2, <3>3
      <4> QED BY <2>1, <4>1
    <3> QED BY <3>1, <3>2, <3>3
  <2>3. Ledger!RiskConstraintsOf(B) = C
    BY <2>2
  <2>4. ASSUME NEW x \in B
        PROVE  Exact(x, C)
    <3>1. PICK d \in A : x = Enforced(d, C, e)
      OBVIOUS
    <3> QED BY <3>1, EnforcedIsExact
  <2> QED BY <2>3, <2>4, ExactBatchIsGated
<1> QED BY <1>1, <1>2

(* What the enforcement writes, decision by decision.                      *)
LEMMA EnforcementWrites ==
  ASSUME IInv, LInv, EnforceConstraints, NEW i \in 1 .. Len(decisions),
         NEW C, C = RiskConstraintDecisions
  PROVE  decisions'[i] = Enforced(decisions[i], C, pos)
<1> DEFINE n       == Len(decisions)
           D       == PrimaryForRisk
           d       == decisions[i]
           blocks  == AppliedBlocks(D, RiskConstraintDecisions, Ev.index)
           hits(j) == {id \in DOMAIN blocks : indexOf[id] = j}
           by(j)   == UNION {blocks[id] : id \in hits(j)}
<1>1. /\ phase = "risk" /\ Ev.index = pos /\ Open
      /\ \A j \in 1 .. n : decisions[j].id = j /\ indexOf[j] = j
  BY DecisionsType DEF EnforceConstraints, IInv, Marked, Open
<1>2. decisions'[i] = IF hits(i) = {} THEN d
                      ELSE [d EXCEPT !.status = "blocked", !.by = by(i)]
  BY DEF EnforceConstraints
<1>3. blocks = AppliedBlocks(D, C, pos)
  BY <1>1
<1> HIDE DEF blocks
<1>4. \A x \in D : \E j \in 1 .. n : x = decisions[j]
  BY DEF PrimaryForRisk
<1>5. \A x \in D : x.id = d.id => x = d
  BY <1>3, <1>1, <1>4
<1>6. DOMAIN blocks \subseteq 1 .. n
  <2>1. ASSUME NEW id \in DOMAIN blocks
        PROVE  id \in 1 .. n
    <3>1. PICK x \in D : x.id = id
      BY <1>3, <2>1, AppliedOnlyToDecisions
    <3> QED BY <1>1, <1>4, <3>1
  <2> QED BY <2>1
<1>7. hits(i) = IF i \in DOMAIN blocks THEN {i} ELSE {}
  BY <1>3, <1>1, <1>6
<1>8. Gateable(d, pos) => d \in D
  <2>1. ASSUME Gateable(d, pos), IsIntent(d)
        PROVE  d.id \in effective
    <3>1. i \in OpenIndexes /\ d.eff
      BY <1>3, <2>1 DEF Gateable, OpenIndexes
    <3>2. i \in intents
      BY <1>1, <2>1, <3>1 DEF LInv, Collected
    <3> QED BY <1>3, <1>1, <3>1, <3>2 DEF LInv, EffectiveKnown
  <2> QED BY <1>3, <2>1 DEF PrimaryForRisk
<1>9. CASE Hit(d, C, pos)
  <2>1. d.id = i /\ d \in D
    BY <1>1, <1>8, <1>9 DEF Hit
  <2>2. i \in DOMAIN blocks /\ blocks[i] = Blockers(d, C, pos)
    BY <1>3, <1>5, <1>9, <2>1, AppliedToDecision DEF Hit
  <2>3. hits(i) = {i}
    BY <1>7, <2>2
  <2>4. by(i) = blocks[i]
    BY <2>3
  <2> HIDE DEF by, hits, d
  <2> QED BY <1>2, <1>9, <2>2, <2>3, <2>4 DEF d, Enforced
<1>10. CASE ~ Hit(d, C, pos)
  <2>1. i \notin DOMAIN blocks
    <3>1. SUFFICES ASSUME i \in DOMAIN blocks PROVE FALSE
      OBVIOUS
    <3>2. PICK x \in D : x.id = i
      BY <1>3, <3>1, AppliedOnlyToDecisions
    <3>3. x = d
      BY <1>3, <1>1, <1>5, <3>2
    <3> QED BY <1>3, <1>5, <1>10, <3>1, <3>2, <3>3, AppliedToDecision DEF Hit
  <2>2. hits(i) = {}
    BY <1>7, <2>1
  <2> QED BY <1>2, <1>10, <2>2 DEF Enforced
<1> QED BY <1>9, <1>10

LEMMA EnforceConstraintsLInv ==
  ASSUME IInv, LInv, EnforceConstraints
  PROVE  LInv'
<1>1. PICK n, J, C, A, B, e :
        /\ n = Len(decisions) /\ J = OpenIndexes /\ C = RiskConstraintDecisions
        /\ A = Batch(pos) /\ B = Batch(pos)' /\ e = pos
  OBVIOUS
<1>2. /\ phase = "risk" /\ phase' = "close" /\ Open /\ n \in Nat /\ pos \in Nat
      /\ UNCHANGED <<input, pos, intents, constraints>>
      /\ J \subseteq 1 .. n
      /\ \A i \in 1 .. n : /\ decisions[i] \in Decision /\ decisions[i].id = i
                           /\ indexOf[i] = i
  BY <1>1, DecisionsType
     DEF EnforceConstraints, eventVars, Open, IInv, TypeOK, OpenIndexes
<1>3. Len(decisions') = n
  <2>1. DOMAIN decisions' = 1 .. n
    BY <1>1 DEF EnforceConstraints
  <2>2. decisions' \in Seq(Decision)
    BY EnforceConstraintsIInv DEF IInv, TypeOK
  <2> QED BY <1>2, <2>1, <2>2, LenProperties
<1>4. \A i \in 1 .. n : decisions'[i] = Enforced(decisions[i], C, e)
  BY <1>1, EnforcementWrites
<1>5. \A i \in J : Pending(decisions[i], e)
  BY <1>1, <1>2 DEF LInv, Worded, Ungated, OpenIndexes, Pending
<1>6. \A i \in 1 .. n : i \notin J => decisions'[i] = decisions[i]
  BY <1>1, <1>4 DEF OpenIndexes, Enforced, Hit, Gateable
<1>7. ASSUME NEW i \in 1 .. n
      PROVE  /\ decisions'[i].id = i
             /\ decisions'[i].verb = decisions[i].verb
             /\ decisions'[i].profile = decisions[i].profile
             /\ decisions'[i].event = decisions[i].event
             /\ decisions'[i].symbol = decisions[i].symbol
             /\ decisions'[i].action = decisions[i].action
             /\ decisions'[i].ikind = decisions[i].ikind
             /\ decisions'[i].ckind = decisions[i].ckind
             /\ decisions'[i].qty = decisions[i].qty
             /\ decisions'[i].eff = decisions[i].eff
             /\ decisions'[i].over = decisions[i].over
  <2>1. CASE i \in J
    BY <1>2, <1>4, <1>5, <2>1, EnforcedFields
  <2>2. CASE i \notin J
    BY <1>2, <1>6, <2>2
  <2> QED BY <2>1, <2>2
<1>8. OpenIndexes' = J
  BY <1>1, <1>2, <1>3, <1>7 DEF OpenIndexes
<1>9. A = {decisions[i] : i \in J} /\ B = {decisions'[i] : i \in J}
  <2>1. B = {decisions'[i] : i \in OpenIndexes'}
    BY <1>1, <1>2 DEF Batch, OpenIndexes
  <2> QED BY <1>1, <1>8, <2>1 DEF Batch, OpenIndexes
<1>10. Worded'
  <2>1. \A i \in 1 .. n : /\ IsIntent(decisions'[i]) <=> IsIntent(decisions[i])
                          /\ IsConstraint(decisions'[i]) <=> IsConstraint(decisions[i])
    BY <1>7 DEF IsIntent, IsConstraint
  <2> QED BY <1>1, <1>2, <1>3, <1>7, <2>1 DEF LInv, Worded
<1>11. Collected'
  <2>1. \A i \in J : /\ IsIntent(decisions'[i]) <=> IsIntent(decisions[i])
                     /\ IsConstraint(decisions'[i]) <=> IsConstraint(decisions[i])
                     /\ decisions'[i].profile = decisions[i].profile
    BY <1>2, <1>7 DEF IsIntent, IsConstraint
  <2> QED BY <1>1, <1>2, <1>8, <2>1 DEF LInv, Collected
<1>12. Raw' /\ Ungated' /\ EffectiveKnown'
  BY <1>2 DEF Raw, Ungated, EffectiveKnown
<1>13. Ledger!ResolvedBatch(B)
  <2>1. Ledger!ResolvedBatch(A)
    BY <1>1, <1>2 DEF LInv, OpenBatchSound
  <2>2. \A i \in J : Alike(decisions[i], decisions'[i]) /\ decisions'[i].id = i
    BY <1>2, <1>7 DEF Alike
  <2>3. \A x \in A : \E y \in B : Alike(x, y)
    BY <1>9, <2>2
  <2>4. \A y \in B : \E x \in A : Alike(x, y)
    BY <1>9, <2>2
  <2>5. \A y, z \in B : y.id = z.id => y = z
    BY <1>9, <2>2
  <2> QED BY <2>1, <2>3, <2>4, <2>5, SameResolution
<1>14. \A c \in C : Constraining(c, e)
  <2>1. \A i \in constraints : /\ i \in J /\ IsConstraint(decisions[i])
                               /\ decisions[i].event = e
    BY <1>1, <1>2 DEF LInv, Collected, OpenIndexes
  <2>2. C = {decisions[i] : i \in constraints}
    BY <1>1, <1>2, <2>1 DEF RiskConstraintDecisions
  <2>3. \A i \in constraints : Constraining(decisions[i], e)
    BY <1>1, <1>2, <2>1 DEF LInv, Worded, Constraining, Decision
  <2> QED BY <2>2, <2>3
<1>20. C = {decisions[i] : i \in constraints} /\ constraints \subseteq 1 .. n
  <2>1. constraints \subseteq 1 .. n
    BY <1>1 DEF IInv, TypeOK
  <2>2. \A i \in constraints : indexOf[i] = i
    BY <1>2, <2>1
  <2> QED BY <1>1, <2>1, <2>2 DEF RiskConstraintDecisions
<1>19. \A a, b \in C : a.id = b.id => a = b
  BY <1>2, <1>20
<1>15. \/ \A d \in A : KindOf(d.verb) \notin {"signal", "intent"}
       \/ C = {d \in A : IsConstraint(d) /\ d.profile = "risk"}
  <2>1. CASE input.profile = "risk"
    BY <1>1, <1>2, <1>9, <2>1, RiskProfileHarmless
  <2>2. CASE input.profile # "risk"
    <3>1. constraints = {i \in J : IsConstraint(decisions[i])
                                   /\ decisions[i].profile = "risk"}
      BY <1>1, <1>2, <2>2 DEF LInv, Collected
    <3> QED BY <1>9, <1>20, <3>1
  <2> QED BY <2>1, <2>2
<1>16. Ledger!GatedBatch(B)
  <2>1. B = {Enforced(d, C, e) : d \in A}
    <3>1. \A i \in J : decisions'[i] = Enforced(decisions[i], C, e)
      BY <1>2, <1>4
    <3>2. ASSUME NEW b \in B
          PROVE  \E d \in A : b = Enforced(d, C, e)
      BY <1>9, <3>1
    <3>3. ASSUME NEW d \in A
          PROVE  Enforced(d, C, e) \in B
      BY <1>9, <3>1
    <3> QED BY <3>2, <3>3
  <2>2. \A d \in A : Pending(d, e)
    BY <1>5, <1>9
  <2> QED BY <1>14, <1>15, <1>19, <2>1, <2>2, EnforcedBatchIsGated
<1>17. OpenBatchSound'
  BY <1>1, <1>2, <1>13, <1>16 DEF OpenBatchSound
<1>18. (SettledPrefix /\ ResolutionSound /\ GateExact)'
  <2>1. Extends(Len(decisions')) /\ Len(decisions') \in Nat
    BY <1>1, <1>2, <1>3, <1>7 DEF Extends
  <2> QED BY <1>2, <2>1, ClosedBatchesKept DEF Next
<1> QED BY <1>10, <1>11, <1>12, <1>17, <1>18 DEF LInv

LEMMA NextLInv ==
  ASSUME IInv, LInv, [Next]_vars
  PROVE  LInv'
<1>1. CASE BeginEvent          BY <1>1, BeginEventLInv
<1>2. CASE Emit                BY <1>2, EmitLInv
<1>3. CASE ResolveIntents      BY <1>3, ResolveIntentsLInv
<1>4. CASE EnforceConstraints  BY <1>4, EnforceConstraintsLInv
<1>5. CASE CloseEvent          BY <1>5, CloseEventLInv
<1>6. CASE IndexMismatch \/ PredicateRaises \/ VerbRefused \/ ArgumentRaises
  BY <1>6, OutsideLInv
     DEF IndexMismatch, PredicateRaises, VerbRefused, ArgumentRaises, Raise,
         ledgerVars
<1>7. CASE Return
  BY <1>7, OutsideLInv DEF Return, ledgerVars
<1>8. CASE SelectBranch \/ NoBranchMatches \/ EndRule \/ UNCHANGED vars
  BY <1>8, BookkeepingLInv
     DEF SelectBranch, NoBranchMatches, EndRule, vars, ledgerVars, eventVars
<1> QED BY <1>1, <1>2, <1>3, <1>4, <1>5, <1>6, <1>7, <1>8 DEF Next

(* At every moment of the run the decisions of the closed events come      *)
(* first and are resolved and gated; those of the open event are raw until *)
(* its intents are resolved, resolved and ungated until its constraints    *)
(* are applied, and every record is worded as its verb says                *)
(* (evaluate_underlying, evaluate_option, evaluate_chain).                 *)
THEOREM LedgerInvariant == Spec => [](IInv /\ LInv)
<1>1. IInv /\ LInv /\ [Next]_vars => (IInv /\ LInv)'
  BY NextIInv, NextLInv
<1> QED BY <1>1, InitIInv, InitLInv, PTL DEF Spec

(* At every closed event, each overridden intent names an intent of its    *)
(* symbol that is in effect and outranks it, and no two intents in effect  *)
(* are in conflict: resolve_intents_for_event and its write-back into      *)
(* decisions, for any number of intents, symbols and rules.                *)
THEOREM ResolutionAlwaysSound == Spec => []ResolutionSound
<1>1. LInv => ResolutionSound
  BY DEF LInv
<1> QED BY <1>1, LedgerInvariant, PTL

(* At every closed event, a decision is blocked exactly when a constraint  *)
(* the risk phase emitted at this event forbids it, and only such          *)
(* constraints are named: applied_blocks_for_event and its write-back,     *)
(* whichever constraints the summary kept.                                 *)
THEOREM GateAlwaysExact == Spec => []GateExact
<1>1. LInv => GateExact
  BY DEF LInv
<1> QED BY <1>1, LedgerInvariant, PTL

-----------------------------------------------------------------------------
(* The refinement: closing an event appends its batch to the ledger, and   *)
(* every step in between leaves the ledger as it is.                       *)

LEMMA CountedPrefix ==
  ASSUME NEW D, NEW p, Len(D) \in Nat, NEW k \in 0 .. Len(D),
         \A i \in 1 .. Len(D) : D[i].event < p <=> i <= k
  PROVE  Cardinality({i \in 1 .. Len(D) : D[i].event < p}) = k
<1>1. {i \in 1 .. Len(D) : D[i].event < p} = 1 .. k
  OBVIOUS
<1>2. Cardinality(1 .. k) = k
  <2>1. k \in Int /\ 1 \in Int /\ k \in Nat
    OBVIOUS
  <2>2. Cardinality(1 .. k) = IF 1 > k THEN 0 ELSE k - 1 + 1
    BY <2>1, FS_Interval
  <2>3. (IF 1 > k THEN 0 ELSE k - 1 + 1) = k
    BY <2>1
  <2> QED BY <2>2, <2>3
<1> QED BY <1>1, <1>2, Zenon

LEMMA SettledFirst ==
  ASSUME IInv, LInv
  PROVE  /\ SettledCount \in 0 .. Len(decisions)
         /\ \A i \in 1 .. Len(decisions) :
              decisions[i].event < pos <=> i <= SettledCount
<1>1. PICK k \in 0 .. Len(decisions) :
        \A i \in 1 .. Len(decisions) : decisions[i].event < pos <=> i <= k
  BY DEF LInv, SettledPrefix
<1>2. SettledCount = k
  BY <1>1, DecisionsType, CountedPrefix DEF SettledCount
<1> QED BY <1>1, <1>2

LEMMA AllSettled ==
  ASSUME IInv, LInv, phase \in {"event", "done"}
  PROVE  SettledCount = Len(decisions)
<1> DEFINE n == Len(decisions)
           k == SettledCount
<1>1. /\ \A i \in 1 .. n : decisions[i].event < pos
      /\ \A i \in 1 .. n : decisions[i].event < pos <=> i <= k
      /\ n \in Nat /\ k \in 0 .. n
  BY SettledFirst, DecisionsType DEF IInv, Marked
<1> HIDE DEF n, k
<1>2. n # 0 => n <= k
  <2>1. n # 0 => n \in 1 .. n
    BY <1>1
  <2> QED BY <1>1, <2>1
<1>3. k = n
  BY <1>1, <1>2
<1> QED BY <1>3 DEF n, k

(* A step within an event extends the decisions by decisions of the event. *)
LEMMA StepExtends ==
  ASSUME IInv, LInv, Next
  PROVE  Extends(Len(decisions')) \/ UNCHANGED decisions
<1>1. Len(decisions) \in Nat
  BY DecisionsType
<1>2. CASE Emit
  <2>1. PICK args, d :
          /\ args \in ArgsOf(Head(current.script))
          /\ d = NewDecision(Head(current.script), args)
          /\ decisions' = Append(decisions, d)
    BY <1>2 DEF Emit
  <2>2. d \in Decision /\ d.event = pos /\ decisions \in Seq(Decision)
    BY <1>2, <2>1, NewDecisionType DEF IInv, TypeOK, Emit
  <2>3. /\ Len(decisions') = Len(decisions) + 1
        /\ \A i \in 1 .. Len(decisions) : decisions'[i] = decisions[i]
        /\ decisions'[Len(decisions) + 1] = d
    BY <2>1, <2>2
  <2> QED BY <1>1, <2>2, <2>3 DEF Extends
<1>3. CASE ResolveIntents \/ EnforceConstraints
  <2>1. Rewrites(decisions')
    BY <1>3, ResolveRewrites, EnforceRewrites
  <2>2. Len(decisions') = Len(decisions)
    BY <1>1, <2>1, MappedSeq DEF Rewrites
  <2> QED BY <1>1, <2>1, <2>2 DEF Extends, Rewrites
<1>4. CASE ~ (Emit \/ ResolveIntents \/ EnforceConstraints)
  BY <1>4
     DEF Next, BeginEvent, IndexMismatch, SelectBranch, NoBranchMatches,
         PredicateRaises, VerbRefused, ArgumentRaises, EndRule, CloseEvent,
         Return, Raise, ledgerVars
<1> QED BY <1>2, <1>3, <1>4

(* The settled decisions, whatever is written after them.                  *)
LEMMA LedgerKept ==
  ASSUME IInv, LInv, IInv', LInv', Next, UNCHANGED pos
  PROVE  SubSeq(decisions', 1, SettledCount') = SubSeq(decisions, 1, SettledCount)
<1> DEFINE n == Len(decisions)
           m == Len(decisions')
           k == SettledCount
           l == SettledCount'
<1>1. /\ n \in Nat /\ k \in 0 .. n /\ pos \in Nat
      /\ \A i \in 1 .. n : decisions[i].event < pos <=> i <= k
      /\ decisions \in Seq(Decision)
  BY DecisionsType, SettledFirst DEF IInv, TypeOK
<1>2. /\ m \in Nat /\ l \in 0 .. m
      /\ \A i \in 1 .. m : decisions'[i].event < pos <=> i <= l
      /\ decisions' \in Seq(Decision)
  <2>1. m \in Nat /\ decisions' \in Seq(Decision)
    BY LenProperties DEF IInv, TypeOK
  <2>2. PICK j \in 0 .. m :
          \A i \in 1 .. m : decisions'[i].event < pos <=> i <= j
    BY DEF LInv, SettledPrefix
  <2>3. l = j
    BY <2>1, <2>2, CountedPrefix DEF SettledCount
  <2> QED BY <2>1, <2>2, <2>3
<1>3. Extends(m) \/ UNCHANGED decisions
  BY StepExtends
<1>4. /\ n <= m
      /\ \A i \in 1 .. n : decisions'[i].event = decisions[i].event
      /\ \A i \in n + 1 .. m : decisions'[i].event = pos
  BY <1>1, <1>3 DEF Extends
<1>5. \A i \in 1 .. n : decisions[i].event < pos => decisions'[i] = decisions[i]
  BY ClosedStayFrozen
<1> HIDE DEF n, m, k, l
<1>6. l = k
  <2>1. ASSUME NEW i \in 1 .. m, i <= l
        PROVE  i <= k
    <3>1. decisions'[i].event < pos
      BY <1>2, <2>1
    <3>2. i \notin n + 1 .. m
      <4>1. i \in n + 1 .. m => decisions'[i].event = pos
        BY <1>4
      <4> QED BY <1>1, <3>1, <4>1
    <3>3. i \in 1 .. n
      BY <1>1, <1>2, <3>2
    <3>4. decisions[i].event < pos
      BY <1>4, <3>1, <3>3
    <3> QED BY <1>1, <3>3, <3>4
  <2>2. ASSUME NEW i \in 1 .. n, i <= k
        PROVE  i <= l
    <3>1. decisions[i].event < pos /\ i \in 1 .. m
      BY <1>1, <1>2, <1>4, <2>2
    <3>2. decisions'[i].event < pos
      BY <1>4, <3>1
    <3> QED BY <1>2, <3>1, <3>2
  <2>3. l # 0 => l <= k
    <3>1. l # 0 => l \in 1 .. m
      BY <1>2
    <3> QED BY <1>2, <2>1, <3>1
  <2>4. k # 0 => k <= l
    <3>1. k # 0 => k \in 1 .. n
      BY <1>1
    <3> QED BY <1>1, <2>2, <3>1
  <2> QED BY <1>1, <1>2, <2>3, <2>4
<1>7. \A i \in 1 .. k : decisions'[i] = decisions[i]
  BY <1>1, <1>5
<1>8. SubSeq(decisions', 1, k) = SubSeq(decisions, 1, k)
  BY <1>1, <1>2, <1>4, <1>7 DEF n, m
<1> QED BY <1>6, <1>8 DEF k, l

Going == phase \in {"event", "primary", "risk", "close"}

(* Ledger!vars, one by one.                                                *)
SettledBatches == SubSeq(decisions, 1, SettledCount)
Verdict == CASE phase = "done"   -> "returned"
             [] phase = "failed" -> "raised"
             [] OTHER            -> "running"
Output == IF result = None THEN None ELSE result.decisions

LEMMA LedgerVars ==
  /\ Ledger!vars = <<Len(input.events), SettledBatches, pos, Verdict, Output>>
  /\ Ledger!vars' =
       <<Len(input'.events), SettledBatches', pos', Verdict', Output'>>
BY DEF Ledger!vars, SettledBatches, Verdict, Output

LEMMA WithinEvent ==
  ASSUME IInv, LInv, IInv', LInv', Next, Going, Going',
         UNCHANGED <<input, pos, result>>
  PROVE  UNCHANGED Ledger!vars
<1>1. SettledBatches' = SettledBatches
  BY LedgerKept DEF SettledBatches
<1>2. Verdict = "running" /\ Verdict' = "running"
  BY DEF Going, Verdict
<1>3. Output' = Output
  BY DEF Output
<1> QED BY <1>1, <1>2, <1>3, LedgerVars

LEMMA RaiseRefines ==
  ASSUME IInv, LInv, IInv', LInv', Next, Going, Raise
  PROVE  Ledger!Next
<1>1. UNCHANGED <<input, pos, result>> /\ phase' = "failed"
  BY DEF Raise
<1>2. SettledBatches' = SettledBatches
  BY <1>1, LedgerKept DEF SettledBatches
<1>3. Verdict = "running" /\ Verdict' = "raised" /\ Output' = Output
  BY <1>1 DEF Going, Verdict, Output
<1>4. Ledger!Raise
  BY <1>1, <1>2, <1>3 DEF Ledger!Raise, SettledBatches, Verdict, Output
<1> QED BY <1>4 DEF Ledger!Next

LEMMA ReturnRefines ==
  ASSUME IInv, LInv, IInv', LInv', Return
  PROVE  Ledger!Next
<1>1. /\ UNCHANGED <<input, pos, decisions>> /\ phase = "event" /\ phase' = "done"
      /\ pos = Len(input.events) /\ decisions \in Seq(Decision)
      /\ result' = [decisions |-> decisions, trace |-> eventTraces]
  BY DEF Return, ledgerVars, IInv, TypeOK
<1>2. SettledBatches = decisions
  BY <1>1, AllSettled DEF SettledBatches
<1>3. SettledBatches' = SettledBatches
  BY <1>1, LedgerKept DEF SettledBatches, Next
<1>4. Verdict = "running" /\ Verdict' = "returned"
  BY <1>1 DEF Verdict
<1>5. Output' = decisions
  <2>1. result' \in EvalResult
    BY <1>1 DEF EvalResult, IInv, TypeOK
  <2>2. result' # None
    BY <2>1, AbsentAssumption
  <2> QED BY <1>1, <2>2 DEF Output
<1>6. Ledger!Return
  BY <1>1, <1>2, <1>3, <1>4, <1>5
     DEF Ledger!Return, SettledBatches, Verdict, Output
<1> QED BY <1>6 DEF Ledger!Next

(* The event's decisions are the ledger's new batch.                       *)
LEMMA CloseRefines ==
  ASSUME IInv, LInv, IInv', LInv', CloseEvent
  PROVE  Ledger!Next
<1> DEFINE n == Len(decisions)
           k == SettledCount
<1>1. /\ UNCHANGED <<input, decisions, result>> /\ phase = "close"
      /\ phase' = "event" /\ pos' = pos + 1 /\ pos \in Nat
      /\ decisions \in Seq(Decision) /\ n \in Nat /\ k \in 0 .. n
  BY SettledFirst, DecisionsType DEF CloseEvent, ledgerVars, IInv, TypeOK
<1>2. pos < Len(input.events)
  BY <1>1 DEF IInv, Marked, Open
<1>3. Verdict = "running" /\ Verdict' = "running" /\ Output' = Output
  BY <1>1 DEF Verdict, Output
<1>4. SettledBatches' = decisions
  <2>1. \A i \in 1 .. n : decisions[i].event < pos + 1
    BY <1>1 DEF IInv, Marked
  <2>2. PICK j \in 0 .. n : \A i \in 1 .. n : decisions[i].event < pos + 1 <=> i <= j
    BY <1>1 DEF LInv, SettledPrefix
  <2>3. j = n
    <3>1. n # 0 => n \in 1 .. n
      BY <1>1
    <3> HIDE DEF n
    <3> QED BY <1>1, <2>1, <2>2, <3>1
  <2>4. SettledCount' = n
    BY <1>1, <2>2, <2>3, CountedPrefix DEF SettledCount
  <2> QED BY <1>1, <2>4 DEF SettledBatches
<1>5. /\ Len(SettledBatches) = k
      /\ \A i \in 1 .. k : SettledBatches[i] = decisions[i]
  BY <1>1, SubSeqProperties DEF SettledBatches
<1>6. /\ Len(SettledBatches) <= Len(SettledBatches')
      /\ SubSeq(SettledBatches', 1, Len(SettledBatches)) = SettledBatches
  <2>1. k <= n
    BY <1>1
  <2>2. SubSeq(SettledBatches', 1, Len(SettledBatches)) = SubSeq(decisions, 1, k)
    BY <1>4, <1>5
  <2> QED BY <1>4, <1>5, <2>1, <2>2, Zenon DEF SettledBatches
<1>7. \A i \in k + 1 .. n : decisions[i].event = pos /\ decisions[i].id = i
  <2>1. \A i \in 1 .. n : decisions[i].event < pos <=> i <= k
    BY SettledFirst
  <2>2. \A i \in 1 .. n : decisions[i].event \in Nat /\ decisions[i].event <= pos
                          /\ decisions[i].id = i
    BY DecisionsType DEF Decision, IInv, Marked
  <2> HIDE DEF n, k
  <2> QED BY <1>1, <2>1, <2>2
<1>8. Batch(pos) = {SettledBatches'[i] : i \in Len(SettledBatches) + 1 .. Len(SettledBatches')}
  <2>1. \A i \in 1 .. n : decisions[i].event < pos <=> i <= k
    BY SettledFirst
  <2>2. {j \in 1 .. n : decisions[j].event = pos} = k + 1 .. n
    <3> HIDE DEF n, k
    <3> QED BY <1>1, <1>7, <2>1
  <2> QED BY <1>4, <1>5, <2>2 DEF Batch
<1>9. Ledger!ResolvedBatch(Batch(pos)) /\ Ledger!GatedBatch(Batch(pos))
  BY <1>1 DEF LInv, OpenBatchSound
<1>10. \A i \in Len(SettledBatches) + 1 .. Len(SettledBatches') :
         SettledBatches'[i].event = pos /\ SettledBatches'[i].id = i
  BY <1>4, <1>5, <1>7
<1> DEFINE B == {SettledBatches'[i] : i \in Len(SettledBatches) + 1 .. Len(SettledBatches')}
<1>11. Ledger!ResolvedBatch(B) /\ Ledger!GatedBatch(B)
  BY <1>8, <1>9, Zenon
<1>12. Len(input'.events) = Len(input.events)
  BY <1>1
<1>13. Ledger!Close
  BY <1>1, <1>2, <1>3, <1>6, <1>10, <1>11, <1>12, Zenon
     DEF Ledger!Close, SettledBatches, Verdict, Output
<1> QED BY <1>13 DEF Ledger!Next

LEMMA InitRefines == Init => Ledger!Init
<1> SUFFICES ASSUME Init PROVE Ledger!Init
  OBVIOUS
<1>1. /\ IInv /\ LInv /\ decisions = <<>> /\ phase = "event" /\ pos = 0
      /\ result = None
  BY InitIInv, InitLInv DEF Init
<1>2. Len(input.events) \in Nat
  BY <1>1, InputType
<1>3. SettledCount = 0 /\ Len(decisions) = 0
  BY <1>1, AllSettled
<1>4. SettledBatches = <<>>
  BY <1>1, <1>3 DEF SettledBatches
<1> QED BY <1>1, <1>2, <1>4 DEF Ledger!Init, SettledBatches

LEMMA StepRefines ==
  ASSUME IInv, LInv, IInv', LInv', [Next]_vars
  PROVE  [Ledger!Next]_Ledger!vars
<1>1. CASE IndexMismatch
  BY <1>1, RaiseRefines DEF IndexMismatch, Going, Next
<1>2. CASE PredicateRaises
  BY <1>2, RaiseRefines DEF PredicateRaises, Going, Next
<1>3. CASE VerbRefused
  BY <1>3, RaiseRefines DEF VerbRefused, Going, Next
<1>4. CASE ArgumentRaises
  BY <1>4, RaiseRefines DEF ArgumentRaises, Going, Next
<1>5. CASE CloseEvent
  BY <1>5, CloseRefines
<1>6. CASE Return
  BY <1>6, ReturnRefines
<1>7. CASE BeginEvent \/ SelectBranch \/ NoBranchMatches \/ EndRule
  BY <1>7, WithinEvent
     DEF BeginEvent, SelectBranch, NoBranchMatches, EndRule, Going, Next
<1>8. CASE Emit \/ ResolveIntents \/ EnforceConstraints
  BY <1>8, WithinEvent
     DEF Emit, ResolveIntents, EnforceConstraints, Going, Next
<1>9. CASE UNCHANGED vars
  <2>1. UNCHANGED <<input, decisions, pos, phase, result>>
    BY <1>9 DEF vars
  <2>2. SettledBatches' = SettledBatches /\ Verdict' = Verdict /\ Output' = Output
    BY <2>1 DEF SettledBatches, SettledCount, Verdict, Output
  <2> QED BY <2>1, <2>2, LedgerVars
<1> QED BY <1>1, <1>2, <1>3, <1>4, <1>5, <1>6, <1>7, <1>8, <1>9 DEF Next

(* A run implements the ledger: the decisions of closed events are never   *)
(* rewritten, each event closed adds one batch, resolved and gated, and    *)
(* the run returns the whole ledger after its last event or raises and     *)
(* returns nothing (evaluate_underlying, evaluate_option, evaluate_chain). *)
THEOREM RunRefinesLedger == Spec => RefinesLedger
<1>1. IInv /\ LInv /\ (IInv /\ LInv)' /\ [Next]_vars => [Ledger!Next]_Ledger!vars
  BY StepRefines
<1> QED BY <1>1, InitRefines, LedgerInvariant, PTL
        DEF Spec, RefinesLedger, Ledger!Spec

=============================================================================
