----------------------------- MODULE MCStoreMap -----------------------------
(* Instances of StoreMap for TLC. *)
EXTENDS StoreMap, TLC

\* Two keys with a name of their own.
ownNames == [k \in Keys |-> k]

Symmetry == Permutations(Slices) \cup Permutations(Users) \cup Permutations(Keys)
=============================================================================
