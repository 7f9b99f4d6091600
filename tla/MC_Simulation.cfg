CONSTANTS
  T = 2
  NUMBER_OF_HOUSEHOLDS = 2
  PV_RATIO_NUM = 1
  PV_RATIO_DEN = 2
  DEMAND_PER_HOUSEHOLD_PER_DAY = 1
  GENERATION_PER_HOUSEHOLD_PER_DAY = 1
  PctTotal = 2
  MIN_BATTERY_CAPACITY = 0
  MAX_BATTERY_CAPACITY = 2
  CHARGING_POWER = 1
  DISCHARGING_POWER = 1
  INITIAL_BATTERY_SOC = 0
  INCLUDE_MAX_GRID_CONSUMPTION_CONSTRAINT = TRUE
  MAX_GRID_CONSUMPTION = 2
  INCLUDE_MAX_BATTERY_CYCLES_CONSTRAINT = TRUE
  MAX_BATTERY_CYCLES = 1
  PvBound = 2
  PEAK_PERIODS = {1}
  PriceSeries <- MC_PriceSeries
  MaxRuns = 2
SPECIFICATION Spec
INVARIANTS
  TypeOK
  NoPartialReport
  OptimalNeverWorseThanBaseline
CHECK_DEADLOCK FALSE
