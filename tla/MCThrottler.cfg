\* Throttler with an acquisition timeout: permits, waiters cap, termination.
CONSTANTS
  t1 = t1
  t2 = t2
  t3 = t3
  Tasks <- MCTasks
  Sizes <- MCSizes
  Concurrency = 32
  MaxWaiters = 3
  MaxTotalSize = 8
  HasTimeout = TRUE

SPECIFICATION Spec

INVARIANT TypeOK
INVARIANT PermitsConserved
INVARIANT WaitersCounted
INVARIANT WaitersCapped

PROPERTY CreateReturns
PROPERTY AdmissionRefined
