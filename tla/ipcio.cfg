\* Four I/Os, two of which fit into a queue; three request IDs, so that the
\* last I/O has the ID of the first one; a page for one of them.  The worker
\* has nothing to do when all I/Os are done.
CONSTANTS
  QueueCapacity = 2
  IdMax = 3
  PageCount = 1
  MaxIos = 4
  MaxDepth = 2
SPECIFICATION FairSpec
CHECK_DEADLOCK FALSE
INVARIANTS TypeOK IosAccounted AnswersMatch TimerArmed AbandonedAfterTimeout PagesInMessages
PROPERTY EveryIoCompletes
