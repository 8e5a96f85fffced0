---------------------------- MODULE MCLeaderLease ----------------------------
(* Instances of LeaderLease for model checking.                            *)
EXTENDS LeaderLease, TLC

CONSTANTS n1, n2, n3, j1, j2

TwoNodes == {n1, n2}
ThreeNodes == {n1, n2, n3}
SymTwo == Permutations(TwoNodes) \cup Permutations({j1, j2})
=============================================================================
