--------------------------- MODULE DecisionLedger ---------------------------
(***************************************************************************)
(* What a caller of the evaluator relies on: a ledger of decisions grows   *)
(* by one settled batch per event and is never rewritten.  A batch is      *)
(* final when its event closes: its intents are resolved among themselves, *)
(* and a decision is blocked exactly when a risk constraint of the same    *)
(* batch forbids it, and says which.  The run returns the whole ledger     *)
(* once every event is closed, or it raises and returns nothing.           *)
(*                                                                         *)
(* Replaying a log, and evaluating a growing prefix of the events as the   *)
(* simulated-live mode of parity.py does, give the output of the full run  *)
(* only because of this.                                                   *)
(***************************************************************************)
EXTENDS Decisions, Sequences, FiniteSets

VARIABLES
  total,    (* Number of events of the input.                              *)
  ledger,   (* Decisions of the closed events.                             *)
  closed,   (* Number of closed events.                                    *)
  verdict,  (* "running", "returned" or "raised"                           *)
  output    (* What the caller got, or None.                               *)

vars == <<total, ledger, closed, verdict, output>>

(* The winner of every conflict is the one the conflict policy names, and  *)
(* each loser points to a winner of its own symbol.                        *)
Size(d) == IF d.qty = None THEN 0 ELSE IF d.qty < 0 THEN -d.qty ELSE d.qty

Outranks(w, d) ==
  \/ w.action = "cancel"
  \/ /\ d.action = "declare"
     /\ w.ikind = d.ikind
     /\ Size(w) >= Size(d)

ResolvedBatch(B) ==
  LET I == {d \in B : IsIntent(d)} IN
  /\ \A d \in I : d.eff <=> d.over = None
  /\ \A d \in I : ~d.eff =>
       \E w \in I : w.eff /\ w.id = d.over /\ w.symbol = d.symbol /\ Outranks(w, d)
  /\ \A d, w \in I :
       d.eff /\ w.eff /\ d # w /\ d.symbol = w.symbol =>
         /\ d.action = "declare" /\ w.action = "declare"
         /\ d.ikind # w.ikind

(* A signal, or an intent that is in effect, is blocked exactly when some  *)
(* constraint of the risk phase forbids it; nothing else is ever blocked.  *)
Forbids(c, d) ==
  \/ c.ckind = "block"
  \/ /\ c.ckind = "max_position" /\ d.action = "declare"
     /\ d.qty # None /\ d.qty > c.qty

RiskConstraintsOf(B) == {c \in B : IsConstraint(c) /\ c.profile = "risk"}

(* The ids a blocked decision carries are of constraints that forbid it:   *)
(* of every block, and of one cap in place of all the caps that do, none   *)
(* of them tighter.                                                        *)
Answers(n, c) ==
  \/ n = c
  \/ n.ckind = "max_position" /\ c.ckind = "max_position" /\ n.qty <= c.qty

NamesCauses(ids, R, d) ==
  LET named == {c \in R : c.id \in ids} IN
  /\ ids = {c.id : c \in named}
  /\ \A n \in named : Forbids(n, d)
  /\ \A c \in R : Forbids(c, d) => \E n \in named : Answers(n, c)
  /\ \A m, n \in named :
       m.ckind = "max_position" /\ n.ckind = "max_position" => m = n

GatedBatch(B) ==
  LET R == RiskConstraintsOf(B) IN
  \A d \in B :
    LET enforced == /\ KindOf(d.verb) \in {"signal", "intent"}
                    /\ d.eff
                    /\ \E c \in R : Forbids(c, d)
    IN  IF enforced THEN d.status = "blocked" /\ NamesCauses(d.by, R, d)
                    ELSE d.status = "allowed" /\ d.by = {}

-----------------------------------------------------------------------------
Init ==
  /\ total \in Nat
  /\ ledger = <<>>
  /\ closed = 0
  /\ verdict = "running"
  /\ output = None

Close ==
  /\ verdict = "running" /\ closed < total
  /\ Len(ledger) <= Len(ledger')
  /\ SubSeq(ledger', 1, Len(ledger)) = ledger
  /\ \A i \in Len(ledger) + 1 .. Len(ledger') :
       ledger'[i].event = closed /\ ledger'[i].id = i
  /\ LET B == {ledger'[i] : i \in Len(ledger) + 1 .. Len(ledger')}
     IN  ResolvedBatch(B) /\ GatedBatch(B)
  /\ closed' = closed + 1
  /\ UNCHANGED <<total, verdict, output>>

Return ==
  /\ verdict = "running" /\ closed = total
  /\ verdict' = "returned"
  /\ output' = ledger
  /\ UNCHANGED <<total, ledger, closed>>

Raise ==
  /\ verdict = "running"
  /\ verdict' = "raised"
  /\ UNCHANGED <<total, ledger, closed, output>>

Next == Close \/ Return \/ Raise

Spec == Init /\ [][Next]_vars

=============================================================================
