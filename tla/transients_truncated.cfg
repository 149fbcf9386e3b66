\* The memory cache stops in the middle of a response that others read.
CONSTANTS
  Workers = {w1, w2}
  Whole = 2
  QueueCapacity = 1
SPECIFICATION Spec
CHECK_DEADLOCK FALSE
INVARIANT WholeWhenComplete
