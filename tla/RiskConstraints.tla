-------------------------- MODULE RiskConstraints ---------------------------
(***************************************************************************)
(* Enforcement of the risk phase's constraints on the decisions of the     *)
(* same event (risk_constraints.py).  C is the set of constraint decisions *)
(* the caller collected, D the set of decisions they may block.            *)
(* The code's tuples of blocking ids are sorted by id; they are sets here. *)
(***************************************************************************)
EXTENDS Decisions

(* _summarize: the constraints of one event in three groups.               *)
OfEvent(C, e) == {c \in C : c.event = e}

Blocks(C, e) == {c \in OfEvent(C, e) : c.ckind = "block"}

Caps(C, e) ==
  {c \in OfEvent(C, e) : c.ckind = "max_position" /\ c.qty # None}

Unknown(C, e) == OfEvent(C, e) \ (Blocks(C, e) \union Caps(C, e))

(* Wrong: the last cap emitted replaces the ones before it.                *)
LastCap(C, e) == CHOOSE c \in Caps(C, e) : \A o \in Caps(C, e) : c.id >= o.id

(* The most restrictive cap; the first of them when several are equal.     *)
TightestCap(C, e) ==
  CHOOSE c \in Caps(C, e) :
    \A o \in Caps(C, e) : c.qty < o.qty \/ (c.qty = o.qty /\ c.id <= o.id)

BlockAllIds(C, e) == {c.id : c \in Blocks(C, e) \union Unknown(C, e)}

(* Decisions the constraints of event e apply to.                          *)
Gateable(d, e) ==
  /\ d.event = e
  /\ KindOf(d.verb) \notin {"constraint", "annotation"}
  /\ IsIntent(d) => d.eff

ExceedsCap(d, C, e) ==
  /\ Caps(C, e) # {}
  /\ IsIntent(d)
  /\ d.action = "declare"
  /\ d.qty # None
  /\ d.qty > TightestCap(C, e).qty

Blockers(d, C, e) ==
  BlockAllIds(C, e)
    \union (IF ExceedsCap(d, C, e) THEN {TightestCap(C, e).id} ELSE {})

(* applied_blocks_for_event: for each decision of D that is blocked, the   *)
(* ids of the constraints that block it.                                   *)
AppliedBlocks(D, C, e) ==
  LET hit == {d \in D : Gateable(d, e) /\ Blockers(d, C, e) # {}}
  IN  [id \in {d.id : d \in hit} |->
         UNION {Blockers(d, C, e) : d \in {x \in hit : x.id = id}}]

=============================================================================
