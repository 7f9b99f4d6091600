CONSTANTS
  NUMBER_OF_ACCOUNTS = 3
  MaxRuns = 2
SPECIFICATION Spec
INVARIANTS
  FundedKeysSaved
CHECK_DEADLOCK FALSE
