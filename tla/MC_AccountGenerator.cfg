CONSTANTS
  NUMBER_OF_ACCOUNTS = 3
  MaxRuns = 3
SPECIFICATION Spec
INVARIANTS
  AccountTypeOK
  AccountsFileComplete
CHECK_DEADLOCK FALSE
