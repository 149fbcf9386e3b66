\* Five pages, full or empty at first: three used leaves out of four.
CONSTANTS
  Clients = {c1, c2, c3}
  BitsPerLeaf = 2
  Capacity = 5
SYMMETRY ClientSymmetry
SPECIFICATION Spec
INVARIANTS TypeOK Reservations AssertionsHold NoPageLostOrShared PopFailsOnlyWhenBusy
