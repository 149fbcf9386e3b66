-------------------------- MODULE MCReadWriteLock --------------------------
(* Instances of ReadWriteLock for TLC. *)
EXTENDS ReadWriteLock, TLC

\* What MemStore and Rock maps call: everything but the switch to exclusive.
CacheMapApi == AllMethods \ {"unlockSharedAndSwitchToExclusive"}

\* What the Transients map calls: no metadata updates.
TransientsApi == AllMethods \ {"lockHeaders", "unlockHeaders"}

UserSymmetry == Permutations(Users)
=============================================================================
