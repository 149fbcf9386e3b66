\* All capacities up to a nine-leaf tree (16 leaves, five levels).
CONSTANTS
  BitsPerLeaf = 4
  MaxCapacity = 36
SPECIFICATION FillSpec
INVARIANT FullWhenDone
