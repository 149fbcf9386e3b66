\* Two writers that push at will, queues of two, positions that wrap around
\* after four items.
CONSTANTS
  remotesCount = 2
  theCapacity = 2
  UIntMax = 3
SPECIFICATION FairSpec
INVARIANTS TypeOK ContentsIntact FirstInFirstOut OneSignal NoLostWakeup
PROPERTY EveryItemPopped
