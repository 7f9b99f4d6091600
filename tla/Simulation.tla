----------------------------- MODULE Simulation -----------------------------
(***************************************************************************)
(* run_simulation of src/model_simulation/simulation.py (lines 165-403),   *)
(* run again and again against the same output directory.  A run          *)
(*   - constructs the households and reads the profile and price CSVs,    *)
(*   - aggregates the households (CommunityAggregation),                  *)
(*   - builds the dispatch model and solves it (DispatchRules): the        *)
(*     solver returns one of the feasible schedules of least cost, or the *)
(*     run prints that no optimal solution exists and exits,              *)
(*   - writes out/simulation_details.csv, computes the summary metrics    *)
(*     and writes out/simulation_overview.json.                           *)
(* The two files outlive the run; a file is modelled by the number of the *)
(* run that last wrote it (0: never written).                             *)
(***************************************************************************)
EXTENDS Integers, Sequences, FiniteSets

CONSTANTS
  T, NUMBER_OF_HOUSEHOLDS, PV_RATIO_NUM, PV_RATIO_DEN,
  DEMAND_PER_HOUSEHOLD_PER_DAY, GENERATION_PER_HOUSEHOLD_PER_DAY, PctTotal,
  MIN_BATTERY_CAPACITY, MAX_BATTERY_CAPACITY, CHARGING_POWER,
  DISCHARGING_POWER, INITIAL_BATTERY_SOC,
  INCLUDE_MAX_GRID_CONSUMPTION_CONSTRAINT, MAX_GRID_CONSUMPTION,
  INCLUDE_MAX_BATTERY_CYCLES_CONSTRAINT, MAX_BATTERY_CYCLES, PvBound,
  PEAK_PERIODS,   \* the code's list of peak period indices (1..T), as a set
  PriceSeries,    \* the price curves the price CSV may hold
  MaxRuns         \* number of runs explored

ASSUME SimulationAssumption ==
  /\ PEAK_PERIODS \subseteq Nat
  /\ PriceSeries \subseteq [1..T -> Nat]
  /\ PriceSeries # {}
  /\ MaxRuns \in Nat \ {0}
ASSUME ConfigAssumption ==
  /\ T \in Nat \ {0}
  /\ DEMAND_PER_HOUSEHOLD_PER_DAY \in Nat
  /\ GENERATION_PER_HOUSEHOLD_PER_DAY \in Nat

VARIABLES
  run, phase, grid_prices,
  load_profile, generation_profile, processed, households,
  energy_consumption_from_grid_aggregated_timelots,
  energy_generation_to_grid_aggregated_timelots,
  schedule,        \* the solved assignment
  details_file,    \* run that last wrote out/simulation_details.csv
  overview_file,   \* run that last wrote out/simulation_overview.json
  report           \* the "results" of the last overview written

aggVars == <<load_profile, generation_profile, processed, households,
             energy_consumption_from_grid_aggregated_timelots,
             energy_generation_to_grid_aggregated_timelots>>
vars == <<run, phase, grid_prices, aggVars, schedule, details_file,
          overview_file, report>>

Agg == INSTANCE CommunityAggregation

\* The community series the aggregation produced: the model's inputs.
EC == energy_consumption_from_grid_aggregated_timelots
EG == energy_generation_to_grid_aggregated_timelots

\* The dispatch model over given series and prices (lines 211-281).
D == INSTANCE DispatchRules
       WITH energy_consumption <- EC,
            energy_generation <- EG,
            pv_prices <- [p \in 1..T |-> 0]

(***************************************************************************)
(* The solver's contract: the feasible points of the model and the ones of *)
(* least objective value.                                                  *)
(***************************************************************************)
FeasibleSchedules ==
  LET fp[k \in 0..T] ==
        IF k = 0 THEN {<< >>}
        ELSE UNION {{Append(m, v) :
                       v \in {w \in D!PeriodVars :
                                D!PeriodConstraints(Append(m, w), k)}} :
                     m \in fp[k-1]}
  IN {m \in fp[T] : INCLUDE_MAX_BATTERY_CYCLES_CONSTRAINT =>
                      D!max_battery_cycles_constraint(m)}

OptimalSchedules ==
  LET F == FeasibleSchedules
  IN {m \in F : \A m2 \in F : D!cost_objective(m) <= D!cost_objective(m2)}

\* Mutation variant: the adapter's bound off by one.
AdapterIndexValid_short(key) == key < T

\* PyomoCompatibleArray.__getitem__ on a list of T items: key - 1 indexes
\* the list, a negative index counts from its end, key - 1 >= T raises.
AdapterIndexValid(key) == key - 1 < T
AdapterIndex(key) == IF key >= 1 THEN key ELSE T + key

\* Every peak key the metrics compute (line 365) is within the adapter.
PeakKeysValid == \A q \in PEAK_PERIODS : AdapterIndexValid(q + 1)

\* Python's sum over the entries of a list of distinct values, and max of a
\* non-empty list; the sum is a recursive function over the subsets, so
\* that the module stays within reach of the prover.
SumOver(f(_), S) ==
  LET s[X \in SUBSET S] ==
        IF X = {} THEN 0
        ELSE LET x == CHOOSE y \in X : TRUE IN f(x) + s[X \ {x}]
  IN s[S]
MaxOf(S) == CHOOSE x \in S : \A y \in S : y <= x

\* The "results" of lines 349-398 for the solved schedule m.  Ratios are
\* kept as numerator and denominator.  The peak metrics (lines 363-372)
\* read model key `period + 1` for each entry of PEAK_PERIODS: the period
\* after the configured one, and past the end for an entry equal to T.
Results(m) ==
  LET draw(p) == D!get_energy_consumption_from_grid_in_period(m, p)
      gen(p) == D!get_energy_consumption_from_generation_in_period(m, p)
      cost == D!cost_objective(m)
      alt == D!get_alternative_cost
      peakGrid == SumOver(LAMBDA q : draw(AdapterIndex(q + 1)), PEAK_PERIODS)
      peakDemand == SumOver(LAMBDA q : EC[AdapterIndex(q + 1)], PEAK_PERIODS)
  IN [min_cost |-> cost,
      alternative_cost |-> alt,
      saving |-> [num |-> alt - cost, den |-> alt],
      battery_throughput |-> D!BatteryThroughput(m),
      local_generation |-> D!SumTo(LAMBDA p : EG[p], T),
      local_generation_consumption |-> D!SumTo(LAMBDA p : gen(p), T),
      grid_consumption |-> D!SumTo(LAMBDA p : draw(p), T),
      grid_consumption_in_peak_periods |-> peakGrid,
      demand_in_peak_periods |-> peakDemand,
      peak_reduction |-> [num |-> peakDemand - peakGrid, den |-> peakDemand],
      max_peak |-> MaxOf({draw(p) : p \in 1..T})]

NoReport == [min_cost |-> 0, alternative_cost |-> 0]

-----------------------------------------------------------------------------
Init ==
  /\ run = 0
  /\ phase = "idle"
  /\ grid_prices \in PriceSeries
  /\ Agg!AggInit
  /\ schedule = << >>
  /\ details_file = 0
  /\ overview_file = 0
  /\ report = NoReport

\* run_simulation starts: get_config, the SmartHome constructors read the
\* profile CSVs, get_default_prices reads the price CSV (lines 166-171, 214).
StartRun ==
  /\ phase = "idle"
  /\ run < MaxRuns
  /\ run' = run + 1
  /\ phase' = "aggregate"
  /\ grid_prices' \in PriceSeries
  /\ Agg!LoopStarted(load_profile', generation_profile', processed', households',
                      energy_consumption_from_grid_aggregated_timelots',
                      energy_generation_to_grid_aggregated_timelots')
  /\ schedule' = << >>
  /\ UNCHANGED <<details_file, overview_file, report>>

\* One iteration of the household loop.
AggregateHousehold ==
  /\ phase = "aggregate"
  /\ Agg!AggregateHousehold
  /\ UNCHANGED <<run, phase, grid_prices, schedule, details_file,
                 overview_file, report>>

\* Mutation variant: the run goes on after "No optimal solution found.".
Solve_no_exit ==
  /\ phase = "aggregate"
  /\ processed = NUMBER_OF_HOUSEHOLDS
  /\ LET opt == OptimalSchedules IN
       \/ /\ opt # {}
          /\ \E m \in opt : schedule' = m
       \/ /\ opt = {}
          /\ UNCHANGED schedule
  /\ phase' = "solved"
  /\ UNCHANGED <<run, grid_prices, aggVars, details_file, overview_file, report>>

\* Build the model and solve it (lines 211-291): an optimal schedule, or
\* "No optimal solution found." and exit() with nothing written.
Solve ==
  /\ phase = "aggregate"
  /\ processed = NUMBER_OF_HOUSEHOLDS
  /\ LET opt == OptimalSchedules IN
       \/ /\ opt # {}
          /\ \E m \in opt : schedule' = m
          /\ phase' = "solved"
       \/ /\ opt = {}
          /\ phase' = "idle"
          /\ UNCHANGED schedule
  /\ UNCHANGED <<run, grid_prices, aggVars, details_file, overview_file, report>>

\* Lines 293-403: write the details CSV, then compute the metrics and write
\* the overview JSON.  A peak period past the last timeslot makes the
\* adapter raise IndexError after the CSV is written.
ExtractResults ==
  /\ phase = "solved"
  /\ details_file' = run
  /\ phase' = "idle"
  /\ IF PeakKeysValid
     THEN /\ overview_file' = run
          /\ report' = Results(schedule)
     ELSE UNCHANGED <<overview_file, report>>
  /\ UNCHANGED <<run, grid_prices, aggVars, schedule>>

Next == StartRun \/ AggregateHousehold \/ Solve \/ ExtractResults

Spec == Init /\ [][Next]_vars

-----------------------------------------------------------------------------
TypeOK ==
  /\ run \in 0..MaxRuns
  /\ phase \in {"idle", "aggregate", "solved"}
  /\ grid_prices \in PriceSeries
  /\ details_file \in 0..MaxRuns
  /\ overview_file \in 0..MaxRuns
  /\ schedule \in Seq(D!PeriodVars)
  /\ phase = "solved" => Len(schedule) = T

\* The schedule that leaves the battery idle and uses no PV.
IdleSchedule ==
  [p \in 1..T |-> [battery_soc |-> INITIAL_BATTERY_SOC, grid_charge_power |-> 0,
                   pv_charge_power |-> 0, charge_power_state |-> 0,
                   discharge_power |-> 0, discharge_power_state |-> 0,
                   pv_energy_consumption |-> 0]]

(* The cost in the overview a run wrote is never above the cost of buying  *)
(* the whole demand from the grid whenever leaving the battery idle is     *)
(* feasible for that run's model (spec.md section 8), the grid cap and the *)
(* cycle cap included: the saving written is then never negative.          *)
OptimalNeverWorseThanBaseline ==
  /\ phase = "idle" /\ run > 0 /\ overview_file = run
  /\ IdleSchedule \in FeasibleSchedules
  => report.min_cost <= report.alternative_cost

(* Without the optional constraints the model is always feasible, so a run *)
(* never ends in "No optimal solution found." with the initial state of    *)
(* charge within the capacity bounds.                                      *)
UnconstrainedModelAlwaysSolves ==
  [][ /\ phase = "aggregate" /\ phase' = "idle"
      /\ ~INCLUDE_MAX_GRID_CONSUMPTION_CONSTRAINT
      /\ ~INCLUDE_MAX_BATTERY_CYCLES_CONSTRAINT
      /\ INITIAL_BATTERY_SOC \in MIN_BATTERY_CAPACITY..MAX_BATTERY_CAPACITY
      => FALSE ]_vars

(* Between runs the overview and the details on disk come from the same   *)
(* run: spec.md section 7 allows no partial report.                        *)
NoPartialReport ==
  phase = "idle" => details_file = overview_file

(* The peak metrics cover the configured peak periods: the demand in peak *)
(* periods is the demand summed over PEAK_PERIODS (spec.md sections 4.4   *)
(* and 6, where peak periods are period indices).                         *)
PeakDemandOverConfiguredPeriods ==
  phase = "idle" /\ run > 0 /\ overview_file = run =>
    report.demand_in_peak_periods =
      SumOver(LAMBDA p : EC[p], PEAK_PERIODS)

(* A run that writes its overview has computed no NaN ratio: every        *)
(* household's coverage (line 189; spec.md 4.1 defines it as 0 without    *)
(* demand), the saving (line 351, divided by the baseline cost) and the   *)
(* peak reduction (lines 374-377, divided by the demand in peak periods). *)
(* numpy turns 0/0 into NaN, and json.dump writes it into the overview.   *)
ReportedRunHasNoNaN ==
  phase = "idle" /\ run > 0 /\ overview_file = run =>
    /\ \A h \in Agg!Households : households[h].generation_coverage.den # 0
    /\ report.saving.den # 0
    /\ report.peak_reduction.den # 0

=============================================================================
