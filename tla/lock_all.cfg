\* Every method, four users: counters, writers, updaters and assertions.
CONSTANTS
  Users = {u1, u2, u3, u4}
  Api <- AllMethods
SYMMETRY UserSymmetry
SPECIFICATION Spec
INVARIANTS TypeOK LevelsExact OneWriter OneUpdater AssertionsHold
