\* Batch lowering and conditional execution over every batch of up to 3 statements.
CONSTANTS
  MaxBatchLen = 3

SPECIFICATION Spec

INVARIANT TypeOK
INVARIANT ShortCircuit
INVARIANT FailedBatchRolledBack
