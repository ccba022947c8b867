SPECIFICATION FairSpec
CONSTANTS
  t1 = t1
  t2 = t2
  Threads <- TwoThreads
  StepCount = 2
  MaxAttempts = 2
  MaxExecutions = 2
  MaxReviews = 1
INVARIANTS
  TypeOK
  CallsAreAllowed
  TracesExist
  FailsClosed
PROPERTIES
  RecordsAreImmutable
  LockIsReturned
