---------------------------- MODULE MCNodeQuota ----------------------------
(* Instances of NodeQuota for TLC.                                         *)
EXTENDS NodeQuota, TLC

CONSTANTS root, u1, n1, n2, a, b, h1, h2

Symmetry == Permutations(Nodes) \cup Permutations(Urls) \cup Permutations(Handlers)
=============================================================================
