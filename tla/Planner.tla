------------------------------- MODULE Planner ------------------------------
(***************************************************************************)
(* Generation of plans from a stream of decision records                   *)
(* (planner.py: generate_plans): the intents in effect are collected,      *)
(* ordered, and each becomes one plan, planned or blocked.  The stream is  *)
(* read from a file anyone may have written: a line that is no object, or  *)
(* an intent that is malformed, leaves the whole request without plans,    *)
(* and a quantity that is no decimal raises.                               *)
(*                                                                         *)
(* A line is a record of what the planner reads of it.  Texts it sorts by  *)
(* (symbols, rule names) are numbers in their order, ids are the numbers   *)
(* in them, and the tuples of blocking ids are sets.                       *)
(***************************************************************************)
EXTENDS Naturals, Sequences, FiniteSets

CONSTANTS
  Streams,  (* The streams considered: sequences of Line.                  *)
  None      (* A missing or malformed field.                               *)

(* fields tells whether the other fields a plan needs are there: "ok",     *)
(* "invalid" (a diagnostic), or "no decimal" (a string that is no number). *)
Line ==
  [kind    : {"junk", "intent", "constraint", "other"},
   profile : {"signal", "intent", "risk"},
   id      : Nat \union {None},
   event   : Nat \union {None},
   symbol  : Nat,
   action  : {"cancel", "declare", None},
   rule    : Nat \union {None},
   eff     : BOOLEAN,
   fields  : {"ok", "invalid", "no decimal"},
   status  : {"allowed", "blocked", "odd", None},
   by      : SUBSET Nat]

ASSUME StreamsAssumption == Streams \subseteq Seq(Line)
ASSUME NoneIsNoNumber    == None \notin Nat
ASSUME NoneIsNoBlockers  == \A s \in Streams : \A i \in 1 .. Len(s) : s[i].by # None

VARIABLES
  stream,    (* decisions                                                  *)
  withRisk,  (* with_risk                                                  *)
  phase,     (* "collect", "plan", "done", "rejected" or "raised"          *)
  pos,       (* Lines collected so far.                                    *)
  intents,   (* Numbers of the collected lines still to be planned.        *)
  diags,     (* Numbers of the lines with a diagnostic.                    *)
  plans,     (* plans                                                      *)
  output     (* The plans returned, or None.                               *)

vars == <<stream, withRisk, phase, pos, intents, diags, plans, output>>

RiskMeta ==
  [status  : {"allowed", "blocked", "unknown"},
   by      : SUBSET Nat,
   reasons : SUBSET (Nat \X ({None} \union Nat))]

PlanIR ==
  [plan   : Nat, source : Nat, event : Nat, symbol : Nat,
   action : {"cancel", "declare"},
   status : {"planned", "blocked"},
   by     : {None} \union SUBSET Nat,
   risk   : {None} \union RiskMeta]

(* A plan names its blockers, possibly none, exactly when it is blocked.   *)
TypeOK ==
  /\ stream \in Seq(Line)
  /\ withRisk \in BOOLEAN
  /\ phase \in {"collect", "plan", "done", "rejected", "raised"}
  /\ pos \in Nat
  /\ intents \subseteq 1 .. Len(stream)
  /\ diags \subseteq 1 .. Len(stream)
  /\ plans \in Seq(PlanIR)
  /\ \A i \in 1 .. Len(plans) : plans[i].status = "planned" <=> plans[i].by = None
  /\ output \in {None} \union Seq(PlanIR)

Init ==
  /\ stream \in Streams
  /\ withRisk \in BOOLEAN
  /\ phase = "collect"
  /\ pos = 0
  /\ intents = {}
  /\ diags = {}
  /\ plans = <<>>
  /\ output = None

-----------------------------------------------------------------------------
(* risk_constraints_by_id: of several constraints with one id the last.    *)
RiskConstraints ==
  {i \in 1 .. Len(stream) :
     /\ stream[i].kind = "constraint" /\ stream[i].profile = "risk"
     /\ stream[i].id # None
     /\ \A j \in i + 1 .. Len(stream) :
          stream[j].kind = "constraint" /\ stream[j].profile = "risk" =>
            stream[j].id # stream[i].id}

Collect ==
  /\ phase = "collect" /\ pos < Len(stream)
  /\ LET l == stream[pos + 1] IN
     /\ diags' = IF l.kind = "junk" THEN diags \union {pos + 1} ELSE diags
     /\ intents' = IF l.kind = "intent" /\ l.eff
                   THEN intents \union {pos + 1} ELSE intents
  /\ pos' = pos + 1
  /\ UNCHANGED <<stream, withRisk, phase, plans, output>>

EndCollect ==
  /\ phase = "collect" /\ pos = Len(stream)
  /\ phase' = IF diags = {} THEN "plan" ELSE "rejected"
  /\ UNCHANGED <<stream, withRisk, pos, intents, diags, plans, output>>

-----------------------------------------------------------------------------
(* _intent_sort_key, with a missing number after all numbers, a missing    *)
(* text before all texts, and the lines in the order of the file where the *)
(* keys agree.                                                             *)
Smaller(a, b) == IF b = None THEN a # None ELSE a # None /\ a < b

ActionRank(a) == CASE a = None -> 0 [] a = "cancel" -> 1 [] a = "declare" -> 2

RuleRank(r) == IF r = None THEN 0 ELSE r + 1

Key(l) == <<l.event, l.symbol, l.id, ActionRank(l.action), RuleRank(l.rule)>>

(* The first variant is wrong: the id is not part of the key.              *)
PrecedesByLine(i, j) ==
  LET k == Key(stream[i])
      m == Key(stream[j])
  IN  \/ Smaller(k[1], m[1])
      \/ k[1] = m[1] /\ k[2] < m[2]
      \/ k[1] = m[1] /\ k[2] = m[2] /\ i < j

Precedes(i, j) ==
  LET k == Key(stream[i])
      m == Key(stream[j])
  IN  \/ \E n \in 1 .. 5 :
           /\ \A h \in 1 .. n - 1 : k[h] = m[h]
           /\ Smaller(k[n], m[n])
      \/ k = m /\ i < j

Invalid(l) ==
  \/ l.id = None \/ l.rule = None \/ l.event = None \/ l.action = None
  \/ l.fields = "invalid"

(* A status that is neither allowed nor blocked passes without risk, and   *)
(* blocks with it.  The first variant is wrong: it always passes.          *)
StatusOdd(l) == IF l.status = "blocked" THEN "blocked" ELSE "planned"

Status(l) ==
  IF l.status = "blocked" \/ (withRisk /\ l.status # "allowed")
  THEN "blocked" ELSE "planned"

(* Wrong: no blockers for a status that is not known.                      *)
BlockedByOdd(l) == IF l.status = "blocked" THEN l.by ELSE None

BlockedBy(l) == IF Status(l) = "blocked" THEN l.by ELSE None

(* A blocker whose constraint is not in the stream, or has no rule name,   *)
(* keeps its place with no rule to name.  The first variant is wrong: it   *)
(* is left out.                                                            *)
ReasonsFound(by) ==
  {<<stream[i].id, stream[i].rule>> : i \in {r \in RiskConstraints : stream[r].id \in by}}

Reasons(by) ==
  {<<id, IF \E i \in RiskConstraints : stream[i].id = id
         THEN stream[CHOOSE i \in RiskConstraints : stream[i].id = id].rule
         ELSE None>> : id \in by}

Risk(l) ==
  IF ~ withRisk THEN None
  ELSE CASE l.status = "blocked" ->
              [status |-> "blocked", by |-> l.by, reasons |-> Reasons(l.by)]
         [] l.status = "allowed" ->
              [status |-> "allowed", by |-> {}, reasons |-> {}]
         [] OTHER ->
              [status |-> "unknown", by |-> l.by, reasons |-> {}]

IsNext(i) == i \in intents /\ \A j \in intents \ {i} : Precedes(i, j)

(* SD711 and, when risk is asked for, SD712.                               *)
Refused(l) == Invalid(l) \/ (withRisk /\ l.status = None)

RefuseIntent ==
  /\ phase = "plan"
  /\ \E i \in intents :
       /\ IsNext(i)
       /\ Refused(stream[i])
       /\ Invalid(stream[i]) \/ stream[i].fields = "ok"
       /\ diags' = diags \union {i}
       /\ intents' = intents \ {i}
  /\ UNCHANGED <<stream, withRisk, phase, pos, plans, output>>

(* Decimal(quantity) raises; the planner does not catch it.                *)
QuantityRaises ==
  /\ phase = "plan"
  /\ \E i \in intents :
       IsNext(i) /\ ~ Invalid(stream[i]) /\ stream[i].fields = "no decimal"
  /\ phase' = "raised"
  /\ UNCHANGED <<stream, withRisk, pos, intents, diags, plans, output>>

(* plan_id counts the intents, refused ones included.                      *)
PlanOf(l) ==
  [plan |-> Len(plans) + Cardinality(diags) + 1,
   source |-> l.id, event |-> l.event, symbol |-> l.symbol, action |-> l.action,
   status |-> Status(l), by |-> BlockedBy(l), risk |-> Risk(l)]

PlanIntent ==
  /\ phase = "plan"
  /\ \E i \in intents :
       /\ IsNext(i)
       /\ ~ Refused(stream[i]) /\ stream[i].fields = "ok"
       /\ plans' = Append(plans, PlanOf(stream[i]))
       /\ intents' = intents \ {i}
  /\ UNCHANGED <<stream, withRisk, phase, pos, diags, output>>

(* Wrong: the plans made are returned although others were refused.        *)
ReturnPartial ==
  /\ phase = "plan" /\ intents = {}
  /\ phase' = "done"
  /\ output' = plans
  /\ UNCHANGED <<stream, withRisk, pos, intents, diags, plans>>

Return ==
  /\ phase = "plan" /\ intents = {}
  /\ phase' = IF diags = {} THEN "done" ELSE "rejected"
  /\ output' = IF diags = {} THEN plans ELSE None
  /\ UNCHANGED <<stream, withRisk, pos, intents, diags, plans>>

Next ==
  \/ Collect \/ EndCollect
  \/ RefuseIntent \/ QuantityRaises \/ PlanIntent \/ Return

Spec == Init /\ [][Next]_vars

-----------------------------------------------------------------------------
Effective == {i \in 1 .. Len(stream) : stream[i].kind = "intent" /\ stream[i].eff}

(* All or nothing: when plans are returned, no line was junk and every     *)
(* intent in effect has as many plans as it has lines, no other has one;   *)
(* the plans are numbered without gaps.  (the early returns on diags)      *)
AllOrNothing ==
  output # None =>
    /\ \A i \in 1 .. Len(stream) : stream[i].kind # "junk"
    /\ \A i \in Effective : ~ Refused(stream[i])
    /\ Len(output) = Cardinality(Effective)
    /\ \A i \in Effective :
         Cardinality({n \in 1 .. Len(output) : output[n].source = stream[i].id})
           = Cardinality({j \in Effective : stream[j].id = stream[i].id})
    /\ \A n \in 1 .. Len(output) : output[n].plan = n

Cleared(plan) ==
  \E i \in Effective :
    /\ stream[i].id = plan.source
    /\ stream[i].status # "blocked"
    /\ withRisk => stream[i].status = "allowed"

(* Fail closed: what is planned is an intent in effect that enforcement    *)
(* did not block and, when risk was asked for, that it declared allowed;   *)
(* never one of unknown status.  (status, risk_meta)                       *)
FailsClosed ==
  output # None =>
    \A n \in 1 .. Len(output) : output[n].status = "planned" => Cleared(output[n])

(* The reasons of a blocked plan are one for each of its blockers, and     *)
(* name the rule of a risk constraint of the stream with that id, if there *)
(* is one.  (risk_constraints_by_id)                                       *)
ReasonsMatchBlockers ==
  output # None /\ withRisk =>
    \A n \in 1 .. Len(output) : output[n].risk.status = "blocked" =>
      /\ {r[1] : r \in output[n].risk.reasons} = output[n].by
      /\ \A r \in output[n].risk.reasons :
           LET named == {i \in 1 .. Len(stream) :
                           /\ stream[i].kind = "constraint"
                           /\ stream[i].profile = "risk"
                           /\ stream[i].id = r[1]}
           IN  IF named = {} THEN r[2] = None
               ELSE \E i \in named : r[2] = stream[i].rule

(* The order of the plans depends on what the lines say and not on where   *)
(* they stand: of two intents with different ids that of the earlier       *)
(* event, then of the smaller symbol, then of the smaller id comes first.  *)
(* (_intent_sort_key)                                                      *)
OrderedByContent ==
  output # None =>
    \A m, n \in 1 .. Len(output) : m < n =>
      LET p == output[m]
          q == output[n]
      IN  \/ p.event < q.event
          \/ p.event = q.event /\ p.symbol < q.symbol
          \/ p.event = q.event /\ p.symbol = q.symbol /\ p.source <= q.source

=============================================================================
