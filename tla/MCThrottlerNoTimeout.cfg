\* No timeout: a call holding its first permit waits forever for the second.
CONSTANTS
  t1 = t1
  t2 = t2
  t3 = t3
  Tasks <- MCTasks
  Sizes <- MCSizes
  Concurrency = 32
  MaxWaiters = 3
  MaxTotalSize = 8
  HasTimeout = FALSE

SPECIFICATION SpecDrop


PROPERTY CreateReturns
