CONSTANTS
  Requests = {r1, r2}
  Nil = Nil
  NMax = 1
  NStartup = 1
  NIdle = 1
  Concurrency = 1
  QueueSize = 0
  MAX_RETRIES = 1
  RetryTimedOut = TRUE
  Radix = 10
  MaxServers = 2
  MaxExits = 1
  MaxReconfigures = 1
SPECIFICATION FairSpec
INVARIANTS TypeOK CountersExact AnswersMatch
PROPERTY EveryRequestAnswered
CHECK_DEADLOCK FALSE
