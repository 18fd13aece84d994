---------------------- MODULE MCCommitteeGovernance -------------------------
(* Model of CommitteeGovernance for TLC.  One proposal changes a setting, one *)
(* removes a founder from the committee.                                      *)
EXTENDS CommitteeGovernance, TLC

CONSTANTS m1, m2, p1, p2

PayloadSmall ==
  (p1 :> [type |-> "config"]) @@ (p2 :> [type |-> "remove", member |-> m1])

CloserSymmetry == Permutations(Closers)
=============================================================================
