--------------------------- MODULE MCContractCall ----------------------------
(* Instances of ContractCall for TLC. *)
EXTENDS ContractCall, TLC

CONSTANTS o1, o2, c1, c2, c3
MCCallSymmetry == Permutations({c1, c2, c3})
MCSymmetry == Permutations({o1, o2}) \cup MCCallSymmetry
=============================================================================
