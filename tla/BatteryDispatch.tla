-------------------------- MODULE BatteryDispatch --------------------------
(***************************************************************************)
(* The solver's answer to the dispatch model of DispatchRules is an        *)
(* assignment of every variable of every period.  This module builds such  *)
(* an assignment one period at a time: a step fixes the variables of the   *)
(* next period within their Var bounds, and is enabled only if the         *)
(* constraint rules indexed by that period hold (each rule at period i     *)
(* reads the variables of periods i and i-1 only).  The complete           *)
(* assignments reached are exactly the feasible points of the model, so an *)
(* invariant of this specification holds of every schedule the solver may *)
(* return.                                                                 *)
(***************************************************************************)
EXTENDS DispatchRules

ASSUME PeriodsAssumption == T \in Nat \ {0}
ASSUME CapacityAssumption ==
  /\ MIN_BATTERY_CAPACITY \in Nat
  /\ MAX_BATTERY_CAPACITY \in Nat \ {0}
ASSUME PowerAssumption ==
  /\ CHARGING_POWER \in Nat \ {0}
  /\ DISCHARGING_POWER \in Nat \ {0}
ASSUME InitialSocAssumption == INITIAL_BATTERY_SOC \in Nat
ASSUME ToggleAssumption ==
  /\ INCLUDE_MAX_GRID_CONSUMPTION_CONSTRAINT \in BOOLEAN
  /\ INCLUDE_MAX_BATTERY_CYCLES_CONSTRAINT \in BOOLEAN
  /\ MAX_GRID_CONSUMPTION \in Nat
  /\ MAX_BATTERY_CYCLES \in Nat
ASSUME SeriesAssumption ==
  /\ energy_consumption \in [Periods -> Nat]
  /\ energy_generation \in [Periods -> Nat]
  /\ grid_prices \in [Periods -> Nat]
  /\ pv_prices \in [Periods -> Nat]
ASSUME PvBoundAssumption == PvBound \in Nat

VARIABLES
  model,    \* the variables of periods 1..Len(model) assigned so far
  solved    \* TRUE once every period is assigned and the model-wide
            \* constraint holds: the solver reports an optimal status

vars == <<model, solved>>

-----------------------------------------------------------------------------
Init ==
  /\ model = << >>
  /\ solved = FALSE

\* Fix the variables of the next period.
AssignPeriod ==
  /\ ~solved
  /\ Len(model) < T
  /\ \E v \in PeriodVars :
       /\ PeriodConstraints(Append(model, v), Len(model) + 1)
       /\ model' = Append(model, v)
  /\ UNCHANGED solved

\* Mutation variant: optimal reported before every period is assigned.
CompleteAssignment_early ==
  /\ ~solved
  /\ INCLUDE_MAX_BATTERY_CYCLES_CONSTRAINT => max_battery_cycles_constraint(model)
  /\ solved' = TRUE
  /\ UNCHANGED model

\* Every period is assigned; the model-wide cycle rule (lines 278-281)
\* decides whether the assignment is a feasible point.
CompleteAssignment ==
  /\ ~solved
  /\ Len(model) = T
  /\ INCLUDE_MAX_BATTERY_CYCLES_CONSTRAINT => max_battery_cycles_constraint(model)
  /\ solved' = TRUE
  /\ UNCHANGED model

Next == AssignPeriod \/ CompleteAssignment

Spec == Init /\ [][Next]_vars

-----------------------------------------------------------------------------
(***************************************************************************)
(* Properties.                                                             *)
(***************************************************************************)

Assigned == 1..Len(model)

\* Energy in the battery after period i of assignment m.
EnergyAfter(m, i) ==
  m[i].battery_soc + m[i].grid_charge_power + m[i].pv_charge_power
    - m[i].discharge_power

TypeOK ==
  /\ model \in Seq(PeriodVars)
  /\ Len(model) <= T
  /\ solved \in BOOLEAN
  /\ solved => Len(model) = T

(* The battery never charges and discharges in the same period: no         *)
(* assigned period has positive charge power and positive discharge power. *)
(* This rests on three rules together, the two power-state gates and the   *)
(* exclusivity of the binary states (simulation.py lines 59-73).           *)
NoSimultaneousChargeDischarge ==
  \A i \in Assigned :
    ~ /\ model[i].grid_charge_power + model[i].pv_charge_power > 0
      /\ model[i].discharge_power > 0

(* The community never feeds the grid: the grid draw of every assigned     *)
(* period, the consumption_from_grid the report prints and the quantity    *)
(* the objective prices, is non-negative (consumption rule, line 52).      *)
GridDrawNonNegative ==
  \A i \in Assigned : get_energy_consumption_from_grid_in_period(model, i) >= 0

(* The energy left in the battery after every assigned period, the last    *)
(* one included (which no battery_soc variable bounds), lies between empty *)
(* and MAX_BATTERY_CAPACITY: the headroom and floor rules (lines 42-49),   *)
(* not only the Var bounds, keep the schedule physical.                    *)
StoredEnergyWithinCapacity ==
  \A i \in Assigned : EnergyAfter(model, i) \in 0..MAX_BATTERY_CAPACITY

(* With one flat grid price, no generation and an empty battery at the     *)
(* start, no feasible schedule costs less than buying the whole demand     *)
(* from the grid (spec.md section 8, Scenario A): every unit discharged    *)
(* was bought before at the same price.                                    *)
FlatPriceNoArbitrage ==
  (/\ solved
   /\ INITIAL_BATTERY_SOC = 0
   /\ \A i \in Periods : energy_generation[i] = 0 /\ grid_prices[i] = grid_prices[1])
    => cost_objective(model) >= get_alternative_cost

(* In every feasible schedule the energy in the battery after every period *)
(* is at least MIN_BATTERY_CAPACITY, the lower bound the configuration     *)
(* sets for the state of charge (spec.md sections 3 and 8).                *)
EnergyNeverBelowMinimum ==
  solved => \A i \in Periods : EnergyAfter(model, i) >= MIN_BATTERY_CAPACITY

\* The refinement mapping: the energy stored after the last assigned
\* period (the initial state of charge before the first), the number of
\* periods assigned, and the solver's optimal status.
StoredEnergy == IF model = << >> THEN INITIAL_BATTERY_SOC
                ELSE EnergyAfter(model, Len(model))

Abs == INSTANCE Battery WITH energy <- StoredEnergy, period <- Len(model),
                             done <- solved

(* Every schedule the solver may return is a run of an ideal battery of    *)
(* MAX_BATTERY_CAPACITY units: period after period the stored energy       *)
(* either rises by at most CHARGING_POWER without overflowing, or falls by *)
(* at most DISCHARGING_POWER without going below empty, or stays, and the  *)
(* battery_soc of each period is the energy the previous one left (the     *)
(* state-of-charge recurrence, line 34, with the rules of lines 42-73).    *)
BatteryRefinement == Abs!Spec

=============================================================================
