-------------------------- MODULE IntentResolution --------------------------
(***************************************************************************)
(* Resolution of the raw intents one event produced                        *)
(* (intent_resolution.py: resolve_intents_for_event): identical intents    *)
(* collapse to one, a cancel beats the declares of its symbol, the largest *)
(* declare of a (symbol, kind) beats the others, and every loser is marked *)
(* with the id of the intent that finally won.                             *)
(*                                                                         *)
(* The raw intents are a set S of records with distinct ids.  Only the     *)
(* fields id, symbol, action, ikind, qty, pct are read; eff and over are   *)
(* the two fields written.  decision_num parses the number back out of an  *)
(* id, so ids are compared as numbers.                                     *)
(***************************************************************************)
EXTENDS Decisions

(* What resolve_intents_for_event may assume of one raw intent.            *)
RawIntent(d) ==
  /\ d.id \in Nat
  /\ d.action \in {"declare", "cancel"}
  /\ d.qty \in Quantity \union {None}

-----------------------------------------------------------------------------
(* winner_sort_key: cancel before declare, then the larger absolute        *)
(* quantity (None counts as 0), then the earlier id.  Ids are distinct, so *)
(* the rule name, the last component of the key, never decides.            *)

AbsQty(d) ==
  IF d.qty = None THEN 0 ELSE IF d.qty < 0 THEN -d.qty ELSE d.qty

ActionRank(d) == IF d.action = "cancel" THEN 2 ELSE 1

(* Wrong: the earlier intent first, then the size.                         *)
BeatsByIdFirst(d, e) ==
  \/ ActionRank(d) > ActionRank(e)
  \/ ActionRank(d) = ActionRank(e) /\ d.id < e.id

(* Wrong: of equal intents the last one.                                   *)
BeatsIfLater(d, e) ==
  \/ ActionRank(d) > ActionRank(e)
  \/ ActionRank(d) = ActionRank(e) /\ AbsQty(d) > AbsQty(e)
  \/ /\ ActionRank(d) = ActionRank(e)
     /\ AbsQty(d) = AbsQty(e)
     /\ d.id > e.id

Beats(d, e) ==
  \/ ActionRank(d) > ActionRank(e)
  \/ ActionRank(d) = ActionRank(e) /\ AbsQty(d) > AbsQty(e)
  \/ /\ ActionRank(d) = ActionRank(e)
     /\ AbsQty(d) = AbsQty(e)
     /\ d.id < e.id

Winner(S) == CHOOSE d \in S : \A e \in S \ {d} : Beats(d, e)

(* 1) Idempotency collapse.                                                *)
IdempotencyKey(d) == <<d.symbol, d.ikind, d.action, d.qty, d.pct>>

Keeper(S, d) == Winner({e \in S : IdempotencyKey(e) = IdempotencyKey(d)})

Candidates(S) == {d \in S : Keeper(S, d) = d}

(* 2) Conflict resolution among the candidates.                            *)
Cancels(S, sym) ==
  {d \in Candidates(S) : d.action = "cancel" /\ d.symbol = sym}

Declares(S, sym, kind) ==
  {d \in Candidates(S) :
     d.action # "cancel" /\ d.symbol = sym /\ d.ikind = kind}

(* Wrong: a cancel spares the declares emitted before it.                  *)
OverriddenByEarlierCancel(S, d) ==
  IF d \notin Candidates(S) THEN Keeper(S, d)
  ELSE IF Cancels(S, d.symbol) # {} /\ Winner(Cancels(S, d.symbol)).id < d.id
       THEN Winner(Cancels(S, d.symbol))
  ELSE IF d.action = "cancel" THEN d
  ELSE Winner(Declares(S, d.symbol, d.ikind))

(* Wrong: only the weakest of the declares is overridden.                  *)
OverriddenByIfLast(S, d) ==
  IF d \notin Candidates(S)           THEN Keeper(S, d)
  ELSE IF Cancels(S, d.symbol) # {}   THEN Winner(Cancels(S, d.symbol))
  ELSE IF \A e \in Declares(S, d.symbol, d.ikind) \ {d} : Beats(e, d)
       THEN Winner(Declares(S, d.symbol, d.ikind))
  ELSE d

(* overridden_by[d.id], or d itself when d is not overridden.  Each id is  *)
(* written at most once: collapsed intents are no candidates, and a symbol *)
(* with a cancel skips the choice among its declares.                      *)
OverriddenBy(S, d) ==
  IF d \notin Candidates(S)           THEN Keeper(S, d)
  ELSE IF Cancels(S, d.symbol) # {}   THEN Winner(Cancels(S, d.symbol))
  ELSE Winner(Declares(S, d.symbol, d.ikind))

Effective(S) == {d \in S : OverriddenBy(S, d) = d}

(* 3) ultimate_winner follows overridden_by to its end.  The loop makes at *)
(* most two steps: a collapsed intent, its keeper, the keeper's winner.    *)
(* The first variant is wrong: it stops at the keeper.                     *)
UltimateWinnerOneHop(S, d) == OverriddenBy(S, d)

UltimateWinner(S, d) == OverriddenBy(S, OverriddenBy(S, d))

Resolved(S, d) ==
  IF d \in Effective(S)
  THEN [d EXCEPT !.eff = TRUE, !.over = None]
  ELSE [d EXCEPT !.eff = FALSE, !.over = UltimateWinner(S, d).id]

=============================================================================
