------------------------------ MODULE MCPlanner -----------------------------
(***************************************************************************)
(* All streams of up to three of the lines below: intents of two events    *)
(* and two symbols in any order and with repeated ids, each status and     *)
(* each kind of malformed line, and constraints that are and are not the   *)
(* blockers named.                                                         *)
(***************************************************************************)
EXTENDS Planner

Plain ==
  [kind |-> "intent", profile |-> "intent", id |-> 1, event |-> 0, symbol |-> 1,
   action |-> "declare", rule |-> 1, eff |-> TRUE, fields |-> "ok",
   status |-> "allowed", by |-> {}]

Intents ==
  {Plain,
   [Plain EXCEPT !.id = 3, !.status = "blocked", !.by = {4, 5}],
   [Plain EXCEPT !.id = 2, !.action = "cancel"],
   [Plain EXCEPT !.id = 1, !.event = 1, !.rule = 2],
   [Plain EXCEPT !.id = 2, !.symbol = 2],
   [Plain EXCEPT !.id = 2, !.eff = FALSE, !.status = "blocked"],
   [Plain EXCEPT !.id = 3, !.status = "odd", !.by = {4}],
   [Plain EXCEPT !.id = 2, !.status = None]}

Malformed ==
  {[Plain EXCEPT !.kind = "junk"],
   [Plain EXCEPT !.id = None], [Plain EXCEPT !.event = None],
   [Plain EXCEPT !.rule = None], [Plain EXCEPT !.action = None],
   [Plain EXCEPT !.fields = "invalid"], [Plain EXCEPT !.fields = "no decimal"]}

Constraint == [Plain EXCEPT !.kind = "constraint", !.profile = "risk", !.id = 4]

Others ==
  {Constraint, [Constraint EXCEPT !.rule = 2], [Constraint EXCEPT !.profile = "intent"],
   [Constraint EXCEPT !.rule = None], [Constraint EXCEPT !.id = None],
   [Plain EXCEPT !.kind = "other"]}

Lines == Intents \union Malformed \union Others

MCStreams == UNION {[1 .. n -> Lines] : n \in 0 .. 3}

=============================================================================
