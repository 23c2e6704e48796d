--------------------------- MODULE EvaluatorClaims --------------------------
(***************************************************************************)
(* What the documentation and the comments say of an evaluation run and    *)
(* the evaluator does not do.  The claim has a run of its own on a small   *)
(* input, in which TLC finds it violated.                                  *)
(***************************************************************************)
EXTENDS MCEvaluator

(* A primary pack that emits a signal and an annotation, and a risk pack   *)
(* that blocks.                                                            *)
Annotated ==
  RunOf("underlying", "signal", Events(1, FALSE),
        {R(0, "r1", "underlying", <<Br("when", <<"emit_signal", N>>)>>)},
        {R(0, "k1", "underlying", <<Br("when", <<"block">>)>>)})

ClaimInputs == {Annotated}

(* risk_constraints.md and applied_blocks_for_event say that a block       *)
(* blocks every primary decision of its event index.  Annotations are      *)
(* primary decisions too, and stay allowed.                                *)
BlockBlocksAllPrimary ==
  \A e \in 0 .. pos - 1 : \A c \in Batch(e) : \A d \in Batch(e) :
    c.profile = "risk" /\ c.ckind = "block" /\ d.profile # "risk" =>
      d.status = "blocked"
=============================================================================
