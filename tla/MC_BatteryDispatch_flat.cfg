CONSTANTS
  T <- MC_T
  MIN_BATTERY_CAPACITY = 0
  MAX_BATTERY_CAPACITY = 3
  CHARGING_POWER = 2
  DISCHARGING_POWER = 2
  INITIAL_BATTERY_SOC = 0
  INCLUDE_MAX_GRID_CONSUMPTION_CONSTRAINT = FALSE
  MAX_GRID_CONSUMPTION = 0
  INCLUDE_MAX_BATTERY_CYCLES_CONSTRAINT = FALSE
  MAX_BATTERY_CYCLES = 0
  energy_consumption <- MCA_energy_consumption
  energy_generation <- MCA_energy_generation
  grid_prices <- MCA_grid_prices
  pv_prices <- MC_pv_prices
  PvBound = 2
SPECIFICATION Spec
INVARIANTS
  FlatPriceNoArbitrage
CHECK_DEADLOCK FALSE
