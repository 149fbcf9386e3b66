CONSTANTS
  Users = {u1, u2}
  Slices = {s1, s2, s3, s4}
  Nil = Nil
  Keys = {n1, n2}
  Names = {n1, n2}
  NameOf <- ownNames
SYMMETRY Symmetry
SPECIFICATION Spec
INVARIANTS TypeOK  TruncatedNotServed DeletionSurvivesUpdate
