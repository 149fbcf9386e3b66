\* A writer and a follower; any message may be dropped.  Workers may have
\* nothing to do.
CONSTANTS
  Workers = {w1, w2}
  Whole = 2
  QueueCapacity = 1
SPECIFICATION FairSpec
CHECK_DEADLOCK FALSE
INVARIANTS TypeOK NothingMissed DeletionReachesAll
PROPERTY EveryFollowerServed
