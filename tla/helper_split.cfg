CONSTANTS
  Requests = {r1, r2}
  Nil = Nil
  NMax = 1
  NStartup = 1
  NIdle = 1
  Concurrency = 2
  QueueSize = 0
  MAX_RETRIES = 1
  RetryTimedOut = TRUE
  Radix = 2
  MaxServers = 1
  MaxExits = 0
  MaxReconfigures = 0
SPECIFICATION Spec
INVARIANT AnswersMatch
CHECK_DEADLOCK FALSE
