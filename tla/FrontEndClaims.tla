--------------------------- MODULE FrontEndClaims ---------------------------
(***************************************************************************)
(* What the documentation says of conditions and the front end or the      *)
(* evaluator does not do.  Each claim has a run of its own, in which TLC   *)
(* finds it violated.                                                      *)
(***************************************************************************)
EXTENDS MCFrontEnd

StringTasks == {Options}

BoolTasks == {Arithmetic}

(* phase_b_deterministic_evaluation.md: comparisons support strings, with  *)
(* == and !=.  An accepted comparison of two strings is not compared but   *)
(* taken for one of numbers, and raises.                                   *)
StringsCompare ==
  LET node == parsed.node
      IsString(i) == Infer(node.kids[i], EnvTypes(task.context)).type = "String"
  IN  AcceptedCondition /\ node.kind = "compare" /\ IsString(1) /\ IsString(2)
      /\ node.tok \in {"==", "!="} =>
        \A ev \in {e \in Events : e.context = task.context} :
          Predicate(node, ev).sort = "bool"

(* dsl_quickstart.md: conditions must type as Bool.  The parser takes any  *)
(* token between two operands for an operator, the type checker gives that *)
(* operator no type, and a condition without a type is accepted.           *)
ConditionsAreBool ==
  AcceptedCondition /\ text # <<>> =>
    Infer(parsed.node, EnvTypes(task.context)).type = "Bool"
=============================================================================
