CONSTANTS
  T <- MC_T
  MIN_BATTERY_CAPACITY = 0
  MAX_BATTERY_CAPACITY = 3
  CHARGING_POWER = 2
  DISCHARGING_POWER = 2
  INITIAL_BATTERY_SOC = 1
  INCLUDE_MAX_GRID_CONSUMPTION_CONSTRAINT = TRUE
  MAX_GRID_CONSUMPTION = 4
  INCLUDE_MAX_BATTERY_CYCLES_CONSTRAINT = TRUE
  MAX_BATTERY_CYCLES = 1
  energy_consumption <- MC_energy_consumption
  energy_generation <- MC_energy_generation
  grid_prices <- MC_grid_prices
  pv_prices <- MC_pv_prices
  PvBound = 3
SPECIFICATION Spec
INVARIANTS
  TypeOK
  NoSimultaneousChargeDischarge
  GridDrawNonNegative
  StoredEnergyWithinCapacity

  
CHECK_DEADLOCK FALSE
