\* Three clients compete for three pages of two purposes.
CONSTANTS
  Clients = {c1, c2, c3}
  Purposes = {"cachePage", "ioPage"}
  Limit <- SmallLimit
  SizeMax = 63
SYMMETRY ClientSymmetry
SPECIFICATION Spec
INVARIANTS TypeOK PagesAccounted
