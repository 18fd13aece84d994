------------------------ MODULE MCDisputeOverrides --------------------------
(* Model of DisputeOverrides for TLC: members, workers and override ids are  *)
(* interchangeable.                                                          *)
EXTENDS DisputeOverrides, TLC

Symmetry == Permutations(Voters) \cup Permutations(Workers) \cup Permutations(Overrides)
=============================================================================
