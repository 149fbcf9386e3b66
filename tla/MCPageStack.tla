---------------------------- MODULE MCPageStack ----------------------------
(* Instances of PageStack for TLC. *)
EXTENDS PageStack, TLC

ClientSymmetry == Permutations(Clients)
=============================================================================
