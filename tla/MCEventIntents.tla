--------------------------- MODULE MCEventIntents ---------------------------
(***************************************************************************)
(* Up to four intents of one event, of two kinds, with sizes that tie only *)
(* by sign, only by percent, or not at all.                                *)
(***************************************************************************)
EXTENDS EventIntents

CONSTANTS S1, KindA, KindB, Pct

Arg(action, kind, qty, pct) ==
  [action |-> action, ikind |-> kind, qty |-> qty, pct |-> pct]

MCArgs ==
  {Arg("cancel", None, None, None),
   Arg("declare", KindA, 1, None), Arg("declare", KindA, -1, None),
   Arg("declare", KindA, 2, None), Arg("declare", KindA, None, Pct),
   Arg("declare", KindA, 0, None),
   Arg("declare", KindB, 1, None), Arg("declare", KindB, 2, Pct)}

MCSymbol     == {S1}
MCIntentKind == {KindA, KindB}
MCPercent    == {Pct}
MCRuleName   == {"r"}

=============================================================================
