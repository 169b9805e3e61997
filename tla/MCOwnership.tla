---------------------------- MODULE MCOwnership ----------------------------
(* Small instances of Ownership for TLC. *)
EXTENDS Ownership, TLC

CONSTANTS o1, o2, o3, a1, r1

TwoClients == {0, 1}
ThreeIds == {o1, o2, o3}
OneActor == {a1}
OneResource == {r1}

IdSymmetry == Permutations(ThreeIds)
=============================================================================
