---------------------------- MODULE ChainMetrics ----------------------------
(***************************************************************************)
(* The open-interest metrics of a chain snapshot and when they are Unknown *)
(* (chain_metrics.py; evaluator.py: _runtime_env, which hands the change   *)
(* metrics the previous event if it is of the same chain).  The ratio is   *)
(* the pair of its sums; the metrics of volume and volatility have its     *)
(* shape.                                                                  *)
(***************************************************************************)
EXTENDS SnapshotLoaders

CONSTANT Unknown

ASSUME UnknownAssumption == Unknown \notin Int

MetricsAllowed(s) == s.complete /\ s.fresh /\ ~ s.flagged /\ ~ s.unknowns

Entries(s, rights) == {p \in DOMAIN s.contracts : s.contracts[p].contract.right \in rights}

OiKnown(s, rights) == \A p \in Entries(s, rights) : s.contracts[p].oi # None

SumInts(values) ==
  LET sum[n \in 0 .. Len(values)] == IF n = 0 THEN 0 ELSE sum[n - 1] + values[n]
  IN  sum[Len(values)]

OiSum(s, rights) ==
  SumInts([p \in DOMAIN s.contracts |->
             IF p \in Entries(s, rights) THEN s.contracts[p].oi ELSE 0])

PcrOi(s) ==
  IF /\ MetricsAllowed(s)
     /\ OiKnown(s, Right)
     /\ Entries(s, {"PUT"}) # {} /\ Entries(s, {"CALL"}) # {}
     /\ OiSum(s, {"CALL"}) > 0
  THEN <<OiSum(s, {"PUT"}), OiSum(s, {"CALL"})>>
  ELSE Unknown

(* Wrong: the last of the history is the event itself.                     *)
PreviousIsCurrent(events, k) == events[k]

Previous(events, k) == events[k - 1]

HasPrevious(events, k) == k > 1 /\ Previous(events, k).chain = events[k].chain

SameContracts(s, t) ==
  /\ DOMAIN s.contracts = DOMAIN t.contracts
  /\ \A p \in DOMAIN s.contracts : s.contracts[p].contract = t.contracts[p].contract

OiChange(events, k, rights) ==
  LET prev == Previous(events, k)
      curr == events[k]
  IN  IF /\ HasPrevious(events, k)
         /\ MetricsAllowed(prev) /\ MetricsAllowed(curr)
         /\ SameContracts(prev, curr)
         /\ OiKnown(prev, rights) /\ OiKnown(curr, rights)
      THEN OiSum(curr, rights) - OiSum(prev, rights)
      ELSE Unknown

=============================================================================
