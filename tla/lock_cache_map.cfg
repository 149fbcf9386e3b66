\* The methods used by MemStore and Rock maps: exclusion and refinement.
CONSTANTS
  Users = {u1, u2, u3}
  Api <- CacheMapApi
SPECIFICATION Spec
INVARIANTS ReadersLockedOut
PROPERTY ImplementsAbstractLock
