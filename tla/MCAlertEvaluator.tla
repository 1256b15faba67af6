-------------------------- MODULE MCAlertEvaluator --------------------------
(* Instances of AlertEvaluator for TLC: a rule has to dwell for one        *)
(* instant.                                                                *)
EXTENDS AlertEvaluator

Dwell == [r \in Rules |-> 1]
=============================================================================
