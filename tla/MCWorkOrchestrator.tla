------------------------- MODULE MCWorkOrchestrator -------------------------
(***************************************************************************)
(* Instances of WorkOrchestrator for TLC.                                  *)
(***************************************************************************)
EXTENDS WorkOrchestrator, TLC

CONSTANTS c1, c2, w1, w2, s1, s2, v1, v2, m1, m2

WorkSymmetry ==
  Permutations({c1, c2}) \cup Permutations({w1, w2}) \cup Permutations({s1, s2})
    \cup Permutations({v1, v2}) \cup Permutations({m1, m2})
=============================================================================
