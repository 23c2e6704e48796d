------------------------------ MODULE Decisions -----------------------------
(***************************************************************************)
(* The decision records every later stage reads (decisions.py) and the     *)
(* profiles that say which verbs a rule pack may use                       *)
(* (decision_profiles.py).                                                 *)
(*                                                                         *)
(* One record type stands for the four decision classes: a field a class   *)
(* does not have is None, and eff is TRUE, as for the dataclass default.   *)
(* An id n stands for the string "D%04d" % n.  Texts (reasons, notes,      *)
(* signal kinds, timestamps) are left out: nothing branches on them.       *)
(* A Decimal quantity is an integer number of its smallest unit.           *)
(***************************************************************************)
EXTENDS Integers

CONSTANTS
  Symbol,      (* Instruments.                                             *)
  RuleName,    (* Names of rules; nothing makes them unique.               *)
  IntentKind,  (* Values of declare_intent(kind=...).                      *)
  Percent,     (* Values of declare_intent(percent=...).                   *)
  MaxQty,      (* Largest absolute quantity.                               *)
  None         (* Python's None.                                           *)

ASSUME QuantityAssumption == MaxQty \in Nat
ASSUME NoneAssumption     == None \notin Int

Quantity == (-MaxQty) .. MaxQty

Profile == {"signal", "intent", "risk"}

Verb == {"emit_signal", "annotate", "declare_intent", "cancel_intent",
         "constrain_max_position", "block"}

AllowedVerbs(profile) ==
  CASE profile = "signal" -> {"emit_signal", "annotate"}
    [] profile = "intent" -> {"declare_intent", "cancel_intent", "annotate"}
    [] profile = "risk"   -> {"constrain_max_position", "block", "annotate"}

(* decision_kind_for_verb                                                  *)
KindOf(verb) ==
  CASE verb = "emit_signal" -> "signal"
    [] verb = "annotate"    -> "annotation"
    [] verb \in {"declare_intent", "cancel_intent"}   -> "intent"
    [] verb \in {"constrain_max_position", "block"}   -> "constraint"

Decision ==
  [id      : Nat,
   verb    : Verb,
   profile : Profile,
   rule    : RuleName,                        \* trace_ref.rule_name
   act     : Nat,                             \* trace_ref.action_index
   event   : Nat,                             \* event_index
   symbol  : Symbol,
   action  : {"declare", "cancel", None},     \* intent_action
   ikind   : IntentKind \union {None},        \* intent_kind
   qty     : Quantity \union {None},
   pct     : Percent \union {None},
   ckind   : {"block", "max_position", None}, \* constraint_kind
   eff     : BOOLEAN,                         \* is_effective
   over    : Nat \union {None},               \* overridden_by
   status  : {"allowed", "blocked"},          \* enforcement.status
   by      : SUBSET Nat]                      \* enforcement.blocked_by

IsIntent(d)     == KindOf(d.verb) = "intent"
IsConstraint(d) == KindOf(d.verb) = "constraint"

=============================================================================
