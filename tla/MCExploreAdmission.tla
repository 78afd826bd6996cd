------------------------ MODULE MCExploreAdmission ------------------------
(* Instances of ExploreAdmission for TLC. *)
EXTENDS ExploreAdmission, TLC

RequestSymmetry == Permutations(Requests)
===========================================================================
