\* Fetches from cursors of up to three entries of sizes 1 and 3, with
\* byte budgets of 1, 2 and 3 (max_response_size 8, 16, 24) and
\* max_count 0, 1 or 2; cursor failures at every position.
CONSTANTS
  MaxRows = 3
  EntrySizes = {1, 3}
  MaxResponseSizes = {8, 16, 24}
  MaxCounts = {0, 1, 2}
SPECIFICATION Spec
INVARIANT TypeOK
INVARIANT FetchWithinBudget
PROPERTY FetchDrains
