----------------------------- MODULE MCEvaluator ----------------------------
(***************************************************************************)
(* Small instances of Evaluator.  Each input is a run one of the loaders   *)
(* and a pack can produce, unless its comment says otherwise.              *)
(***************************************************************************)
EXTENDS Evaluator

CONSTANTS S1, KindA, KindB, Pct  (* One symbol, two intent kinds, one size.  *)

Br(kind, acts) == [kind |-> kind, quality |-> FALSE, actions |-> acts]

QualityBr(kind, acts) == [kind |-> kind, quality |-> TRUE, actions |-> acts]

R(order, name, context, branches) ==
  [order |-> order, name |-> name, context |-> context, branches |-> branches]

Events(n, unknowns) ==
  [i \in 1 .. n |-> [index |-> i - 1, symbol |-> S1, unknowns |-> unknowns]]

RunOf(context, profile, events, rules, risk) ==
  [context |-> context, profile |-> profile, events |-> events,
   rules |-> rules, risk |-> risk]

D == "declare_intent"
X == "cancel_intent"
N == "annotate"
M == "constrain_max_position"

(* Two events, a declare and a rule that declares or cancels, one risk     *)
(* rule that caps or blocks.                                               *)
Intents ==
  RunOf("underlying", "intent", Events(2, FALSE),
        {R(0, "r1", "underlying", <<Br("when", <<D>>)>>),
         R(1, "r2", "underlying", <<Br("when", <<D>>), Br("else", <<X>>)>>)},
        {R(0, "k1", "underlying", <<Br("when", <<M>>), Br("elif", <<"block">>)>>)})

(* One event, three declares and a cancel before them, two risk rules.     *)
Conflicts ==
  RunOf("option", "intent", Events(1, FALSE),
        {R(0, "r1", "option", <<Br("when", <<X>>)>>),
         R(1, "r2", "option", <<Br("when", <<D, D, N>>), Br("elif", <<D, N, X>>)>>),
         R(2, "r3", "option", <<Br("when", <<D>>)>>)},
        {R(0, "k1", "option", <<Br("when", <<M, N>>)>>),
         R(1, "k2", "option", <<Br("when", <<M>>), Br("else", <<"block">>)>>)})

(* Signals and annotations, rules of another context, a name shared by a   *)
(* primary and a risk rule.                                                *)
Signals ==
  RunOf("underlying", "signal", Events(2, FALSE),
        {R(0, "r1", "underlying", <<Br("when", <<"emit_signal", N>>)>>),
         R(1, "r2", "option", <<Br("when", <<"emit_signal">>)>>),
         R(2, "r1", "underlying", <<Br("when", <<N>>), Br("else", <<"emit_signal">>)>>)},
        {R(0, "r1", "underlying", <<Br("when", <<"block", "block">>)>>),
         R(1, "k2", "chain", <<Br("when", <<"block">>)>>)})

(* The risk profile as the primary profile, with a risk pack besides.      *)
Constraints ==
  RunOf("underlying", "risk", Events(1, FALSE),
        {R(0, "r1", "underlying", <<Br("when", <<M, N, "block">>)>>)},
        {R(0, "k1", "underlying", <<Br("when", <<"block">>)>>)})

(* The same primary profile for an option input: lint accepts the pack,    *)
(* the option evaluator has no code for its verbs.                         *)
OptionConstraints ==
  RunOf("option", "risk", Events(1, FALSE),
        {R(0, "r1", "option", <<Br("when", <<N, "block">>)>>)}, {})

(* A chain whose snapshots have unknowns.                                  *)
Chain ==
  RunOf("chain", "intent", Events(2, TRUE),
        {R(0, "r1", "chain", <<Br("when", <<D>>), QualityBr("elif", <<D>>),
                               Br("else", <<X>>)>>),
         R(1, "r2", "chain", <<Br("when", <<N>>), Br("else", <<D>>)>>)}, {})

(* A library caller's event list with a wrong index.                       *)
Misnumbered ==
  RunOf("underlying", "signal",
        <<[index |-> 0, symbol |-> S1, unknowns |-> FALSE],
          [index |-> 5, symbol |-> S1, unknowns |-> FALSE]>>,
        {R(0, "r1", "underlying", <<Br("when", <<"emit_signal">>)>>)}, {})

MCInputs ==
  {Intents, Conflicts, Signals, Constraints, OptionConstraints, Chain, Misnumbered}

Arg(kind, qty, pct) == [ikind |-> kind, qty |-> qty, pct |-> pct]

(* Equal and different sizes, a size only by sign, a percent-sized intent  *)
(* that ties with a zero quantity, and a second kind.                      *)
MCDeclareArgs ==
  {Arg(KindA, 1, None), Arg(KindA, 2, None), Arg(KindA, -2, None),
   Arg(KindA, None, Pct), Arg(KindB, 1, None)}

MCCapQty == {0, 1}

MCSymbol     == {S1}
MCIntentKind == {KindA, KindB}
MCPercent    == {Pct}
MCRuleName   == {"r1", "r2", "r3", "k1", "k2"}

=============================================================================
