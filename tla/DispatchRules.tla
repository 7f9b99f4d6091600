---------------------------- MODULE DispatchRules ----------------------------
(***************************************************************************)
(* The battery dispatch MILP of src/model_simulation/simulation.py as      *)
(* definitions over an assignment m of the model's variables: the Var      *)
(* bounds and domains (lines 233-241), the constraint rules (lines 30-92)  *)
(* and the objective (lines 109-142).  The module has no assumptions, so   *)
(* that the pipeline model can instantiate it with the series a run       *)
(* aggregated; BatteryDispatch states the assumptions and the walk.        *)
(*                                                                         *)
(* Energy, power and money are integers: the model is the MILP restricted  *)
(* to a grid of integral values in a chosen unit.  Every constraint is     *)
(* linear, so no property stated here depends on the unit.                 *)
(***************************************************************************)
EXTENDS Integers, Sequences, FiniteSets

CONSTANTS
  T,                        \* number of periods (the code's model.period is 1..24)
  MIN_BATTERY_CAPACITY,     \* lower Var bound of battery_soc
  MAX_BATTERY_CAPACITY,     \* upper Var bound of battery_soc
  CHARGING_POWER,           \* Var bound of grid/pv charge power
  DISCHARGING_POWER,        \* Var bound of discharge power
  INITIAL_BATTERY_SOC,
  INCLUDE_MAX_GRID_CONSUMPTION_CONSTRAINT,
  MAX_GRID_CONSUMPTION,
  INCLUDE_MAX_BATTERY_CYCLES_CONSTRAINT,
  MAX_BATTERY_CYCLES,
  energy_consumption,       \* aggregated grid demand per period
  energy_generation,        \* aggregated exportable generation per period
  grid_prices,
  pv_prices,
  PvBound                   \* enumeration bound of pv_energy_consumption

Periods == 1..T

(***************************************************************************)
(* The values one period's variables may take: their Var bounds and        *)
(* domains (simulation.py lines 233-241).  pv_energy_consumption is a      *)
(* NonNegativeReals variable; PvBound caps its enumeration.                *)
(***************************************************************************)
PeriodVars ==
  [battery_soc           : MIN_BATTERY_CAPACITY..MAX_BATTERY_CAPACITY,
   grid_charge_power     : 0..CHARGING_POWER,
   pv_charge_power       : 0..CHARGING_POWER,
   charge_power_state    : {0, 1},
   discharge_power       : 0..DISCHARGING_POWER,
   discharge_power_state : {0, 1},
   pv_energy_consumption : 0..PvBound]

(***************************************************************************)
(* The constraint rules.  m is an assignment, i a period of it.            *)
(***************************************************************************)
\* Mutation variant: the PV charge left out of the recurrence.
battery_soc_constraint_no_pv(m, i) ==
  IF i = 1
  THEN m[i].battery_soc = INITIAL_BATTERY_SOC
  ELSE m[i].battery_soc = m[i-1].battery_soc + m[i-1].grid_charge_power
                          - m[i-1].discharge_power

battery_soc_constraint(m, i) ==
  IF i = 1
  THEN m[i].battery_soc = INITIAL_BATTERY_SOC
  ELSE m[i].battery_soc = m[i-1].battery_soc + m[i-1].grid_charge_power
                          + m[i-1].pv_charge_power - m[i-1].discharge_power

\* Mutation variant: headroom that forgets the state of charge.
max_battery_soc_charge_constraint_no_soc(m, i) ==
  m[i].grid_charge_power + m[i].pv_charge_power <= MAX_BATTERY_CAPACITY

max_battery_soc_charge_constraint(m, i) ==
  m[i].grid_charge_power + m[i].pv_charge_power
    <= MAX_BATTERY_CAPACITY - m[i].battery_soc

\* Mutation variant: a floor that ignores the state of charge.
min_battery_soc_discharge_constraint_unbounded(m, i) ==
  m[i].discharge_power <= DISCHARGING_POWER

min_battery_soc_discharge_constraint(m, i) ==
  m[i].discharge_power <= m[i].battery_soc

\* Mutation variant: the PV self-consumption term left out.
consumption_constraint_no_pv(m, i) ==
  m[i].discharge_power <= energy_consumption[i]

\* Mutation variant: the demand met exactly by battery and PV (== for <=).
consumption_constraint_exact(m, i) ==
  m[i].discharge_power + m[i].pv_energy_consumption = energy_consumption[i]

consumption_constraint(m, i) ==
  m[i].discharge_power + m[i].pv_energy_consumption <= energy_consumption[i]

charge_power_state_contraint(m, i) ==
  m[i].grid_charge_power + m[i].pv_charge_power
    <= m[i].charge_power_state * CHARGING_POWER

discharge_power_state_contraint(m, i) ==
  m[i].discharge_power <= m[i].discharge_power_state * DISCHARGING_POWER

\* Mutation variant: the binary states allowed to add up to 2.
battery_state_constraint_loose(m, i) ==
  m[i].charge_power_state + m[i].discharge_power_state <= 2

battery_state_constraint(m, i) ==
  m[i].charge_power_state + m[i].discharge_power_state <= 1

max_charge_power_constraint(m, i) ==
  m[i].grid_charge_power + m[i].pv_charge_power <= CHARGING_POWER

generation_constraint(m, i) ==
  m[i].pv_charge_power + m[i].pv_energy_consumption <= energy_generation[i]

get_energy_consumption_from_grid_in_period(m, i) ==
  energy_consumption[i] + m[i].grid_charge_power
    - m[i].discharge_power - m[i].pv_energy_consumption

get_energy_consumption_from_generation_in_period(m, i) ==
  m[i].pv_charge_power + m[i].pv_energy_consumption

max_grid_peak_constraint(m, i) ==
  get_energy_consumption_from_grid_in_period(m, i) <= MAX_GRID_CONSUMPTION

(***************************************************************************)
(* The sum of an integer sequence (the sum over model.period of the rules  *)
(* and the objective): the units of its positive terms, each tagged by its *)
(* index, less the units of its negative terms.  Counting instead of       *)
(* recursing keeps the module within reach of the prover.                  *)
(***************************************************************************)
SumOfSeq(s) ==
  Cardinality(UNION {{k} \X (1..s[k]) : k \in DOMAIN s})
    - Cardinality(UNION {{k} \X (1..(-s[k])) : k \in DOMAIN s})

\* Sum of f(i) over the periods 1..n of an assignment.
SumTo(f(_), n) == SumOfSeq([k \in 1..n |-> f(k)])

\* get_battery_cycles without the division by MAX_BATTERY_CAPACITY: the
\* energy moved through the battery over the horizon.
BatteryThroughput(m) ==
  SumTo(LAMBDA i : m[i].discharge_power + m[i].grid_charge_power
                   + m[i].pv_charge_power, Len(m))

\* battery_cycles <= MAX_BATTERY_CYCLES, multiplied out by the capacity,
\* which CapacityAssumption keeps positive.
max_battery_cycles_constraint(m) ==
  BatteryThroughput(m) <= MAX_BATTERY_CYCLES * MAX_BATTERY_CAPACITY

cost_objective(m) ==
  SumTo(LAMBDA i : get_energy_consumption_from_grid_in_period(m, i) * grid_prices[i]
                   + get_energy_consumption_from_generation_in_period(m, i) * pv_prices[i],
        Len(m))

\* Mutation variant: the baseline summed over one period too few.
get_alternative_cost_short ==
  SumTo(LAMBDA i : energy_consumption[i] * grid_prices[i], T - 1)

get_alternative_cost ==
  SumTo(LAMBDA i : energy_consumption[i] * grid_prices[i], T)

\* Every rule indexed by period i, the optional peak rule included when
\* its toggle is set (simulation.py lines 245-276).
PeriodConstraints(m, i) ==
  /\ battery_soc_constraint(m, i)
  /\ max_battery_soc_charge_constraint(m, i)
  /\ min_battery_soc_discharge_constraint(m, i)
  /\ consumption_constraint(m, i)
  /\ max_charge_power_constraint(m, i)
  /\ generation_constraint(m, i)
  /\ charge_power_state_contraint(m, i)
  /\ discharge_power_state_contraint(m, i)
  /\ battery_state_constraint(m, i)
  /\ INCLUDE_MAX_GRID_CONSUMPTION_CONSTRAINT => max_grid_peak_constraint(m, i)

=============================================================================
