---------------------------- MODULE EventIntents ----------------------------
(***************************************************************************)
(* The intents of one event, as the primary rules emit them one by one,    *)
(* and what resolving them would give at each moment.  The evaluator       *)
(* resolves once, after the last rule (ResolveIntents of Evaluator); that  *)
(* the outcome of any prefix is known shows how it depends on the order    *)
(* and on the number of the rules.                                         *)
(***************************************************************************)
EXTENDS IntentResolution, FiniteSets

CONSTANTS
  Args,       (* What the intents may be: members of [action, ikind, qty,  *)
              (* pct] a rule can emit.                                     *)
  EventSymbol,(* The symbol of the event.                                  *)
  Emitter,    (* The rule name the records carry.                          *)
  MaxIntents  (* Bound: intents emitted at the event.                      *)

ASSUME EventIntentsAssumption ==
  /\ MaxIntents \in Nat
  /\ EventSymbol \in Symbol /\ Emitter \in RuleName
  /\ Args \subseteq [action : {"declare", "cancel"},
                     ikind  : IntentKind \union {None},
                     qty    : Quantity \union {None},
                     pct    : Percent \union {None}]
  /\ \A a \in Args : a.action = "cancel" => a.qty = None

VARIABLE raw   (* The event's intents so far.                              *)

Intent(id, a) ==
  [id |-> id, verb |-> IF a.action = "cancel" THEN "cancel_intent"
                                              ELSE "declare_intent",
   profile |-> "intent", rule |-> Emitter, act |-> 0, event |-> 0,
   symbol |-> EventSymbol, action |-> a.action, ikind |-> a.ikind,
   qty |-> a.qty, pct |-> a.pct, ckind |-> None, eff |-> TRUE, over |-> None,
   status |-> "allowed", by |-> {}]

IntentInit == raw = {}

(* The next intent; ids count up over the event.                           *)
EmitIntent ==
  /\ Cardinality(raw) < MaxIntents
  /\ \E a \in Args : raw' = raw \union {Intent(Cardinality(raw) + 1, a)}

IntentSpec == IntentInit /\ [][EmitIntent]_raw

-----------------------------------------------------------------------------
(* Resolving what came out of a resolution changes nothing: the effective  *)
(* intents have no conflict left among them.  (resolve_intents_for_event)  *)
ResolutionIsStable == Effective(Effective(raw)) = Effective(raw)

(* An intent that lost has no influence: without it the same intents win.  *)
(* A duplicate, its keeper and the keeper's winner depend on each other,   *)
(* and dropping one of them must not promote another.                      *)
(* (overridden_by, ultimate_winner)                                        *)
LosersAreIrrelevant ==
  \A d \in raw \ Effective(raw) : Effective(raw \ {d}) = Effective(raw)

(* Every loser points to an intent in effect, however many hops away.      *)
(* (ultimate_winner follows overridden_by to its end)                      *)
LosersPointToWinners ==
  \A d \in raw : UltimateWinner(raw, d) \in Effective(raw)

(* The order in which rules emit, which is the order of the file names,    *)
(* decides only among intents of the same action, kind and absolute size:  *)
(* whatever the order, the effective intents agree in these.               *)
(* (winner_sort_key compares the id last)                                  *)
Reordered(p) == {[d EXCEPT !.id = p[d.id]] : d \in raw}

Outcome(S) ==
  {<<d.action, IF d.action = "cancel" THEN None ELSE d.ikind, AbsQty(d)>> :
     d \in Effective(S)}

Orders == {p \in [1 .. Cardinality(raw) -> 1 .. Cardinality(raw)] :
             \A i, j \in DOMAIN p : p[i] = p[j] => i = j}

OrderOnlyBreaksTies == \A p \in Orders : Outcome(Reordered(p)) = Outcome(raw)

(* A later intent displaces an effective one only by beating it: a cancel  *)
(* in effect stays in effect, a declare in effect gives way to a cancel or *)
(* to a larger declare of its kind, and an intent that does not take       *)
(* effect leaves the effective ones as they were.                          *)
DisplacedOnlyByWinner ==
  [][LET new == raw' \ raw IN
     /\ new \intersect Effective(raw') = {} => Effective(raw') = Effective(raw)
     /\ \A d \in Effective(raw) \ Effective(raw') :
          \E n \in new :
            /\ n \in Effective(raw')
            /\ d.action = "declare"
            /\ \/ n.action = "cancel"
               \/ n.ikind = d.ikind /\ AbsQty(n) > AbsQty(d)]_raw

=============================================================================
