CONSTANTS
  T = 3
  NUMBER_OF_HOUSEHOLDS = 3
  PV_RATIO_NUM = 1
  PV_RATIO_DEN = 2
  DEMAND_PER_HOUSEHOLD_PER_DAY = 2
  GENERATION_PER_HOUSEHOLD_PER_DAY = 3
  PctTotal = 4
INIT AggInit
NEXT AggNext
INVARIANTS
  AggTypeOK
  AggregateIsElementwiseSum
  NoPvHouseholdGeneratesNothing
CHECK_DEADLOCK FALSE
