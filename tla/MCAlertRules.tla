---------------------------- MODULE MCAlertRules ----------------------------
(* Instances of AlertRules for TLC.                                        *)
EXTENDS AlertRules, TLC

CONSTANTS b1, b2, prod, eu

(* Heartbeats being handled have no identity, nor have labels, which the   *)
(* selector below takes alike.                                             *)
Interchangeable == Permutations(Beats) \cup Permutations(Labels)

(* All labels, the same soft-disabled, a rule pinned to the first node,    *)
(* and one for no labels at all, which is refused.                         *)
BothLabels == [any |-> FALSE, labels |-> Labels]
Fleet(selector, enabled) ==
  [scope |-> "fleet", node |-> NoBox, selector |-> selector, enabled |-> enabled]
Pinned == {[scope |-> "node", node |-> "n1", selector |-> NoSelector, enabled |-> TRUE]}
Bodies ==
  {Fleet(BothLabels, TRUE), Fleet(BothLabels, FALSE), Fleet(NoSelector, TRUE)} \cup Pinned
=============================================================================
