------------------------- MODULE SimulationProofs --------------------------
(***************************************************************************)
(* Proofs about the end-to-end pipeline of Simulation, for every value of  *)
(* its constants.                                                          *)
(*                                                                         *)
(* NoPartialReport speaks only of the states between runs, so it is not    *)
(* inductive: a run's steps must also leave the files alone until it ends. *)
(* FilesAgree says that at every state, between runs and during one, the   *)
(* details CSV and the overview JSON on disk were written by the same run. *)
(* It holds as long as every peak key the metrics compute is within the    *)
(* adapter (PeakKeysValid): a run that exits at the solver writes nothing, *)
(* and a run that reaches the metrics then writes both files.  Without     *)
(* PeakKeysValid the run simulation_partial_report shows it fails.         *)
(***************************************************************************)
EXTENDS Simulation, TLAPS

\* The inductive invariant.
FilesAgree == details_file = overview_file

THEOREM FilesAgreeInit == Init => FilesAgree
BY DEF Init, FilesAgree

THEOREM FilesAgreeNext ==
  ASSUME PeakKeysValid
  PROVE  FilesAgree /\ [Next]_vars => FilesAgree'
<1>. SUFFICES ASSUME FilesAgree, [Next]_vars PROVE FilesAgree'
  OBVIOUS
<1>1. CASE StartRun
  BY <1>1 DEF StartRun, FilesAgree
<1>2. CASE AggregateHousehold
  BY <1>2 DEF AggregateHousehold, FilesAgree
<1>3. CASE Solve
  BY <1>3 DEF Solve, FilesAgree
<1>4. CASE ExtractResults
  <2>1. details_file' = run /\ overview_file' = run
    BY <1>4, PeakKeysValid DEF ExtractResults
  <2>. QED  BY <2>1 DEF FilesAgree
<1>5. CASE UNCHANGED vars
  BY <1>5 DEF vars, FilesAgree
<1>. QED  BY <1>1, <1>2, <1>3, <1>4, <1>5 DEF Next

(***************************************************************************)
(* When every configured peak period maps to a valid adapter key, no run   *)
(* leaves a partial report: between runs, the details CSV (line 328) and   *)
(* the overview JSON (line 400) on disk come from the same run, whatever   *)
(* the runs that exited at the solver check (line 291) and for every       *)
(* number of periods, households and runs.                                 *)
(***************************************************************************)
THEOREM NoPartialReportThm ==
  ASSUME PeakKeysValid
  PROVE  Spec => []NoPartialReport
<1>1. FilesAgree => NoPartialReport
  BY DEF FilesAgree, NoPartialReport
<1>. QED  BY <1>1, FilesAgreeInit, FilesAgreeNext, PTL DEF Spec


-----------------------------------------------------------------------------
(***************************************************************************)
(* OptimalNeverWorseThanBaseline.  The overview of the last run that wrote *)
(* one holds the cost of a schedule the solver returned for that run's     *)
(* model, and the model's series and prices stay as they were until the   *)
(* next run starts, which it does only after the overview stops being the  *)
(* current run's.  OptIInv states this, with the types that make the costs *)
(* integers; the property then follows from the solver's contract: an     *)
(* optimal schedule costs at most the idle one, which costs the baseline.  *)
(***************************************************************************)
OptIInv ==
  /\ run \in Nat /\ overview_file \in Nat
  /\ overview_file <= run
  /\ phase # "idle" => overview_file < run
  /\ grid_prices \in [1..T -> Nat]
  /\ load_profile \in [1..T -> Nat]
  /\ generation_profile \in [1..T -> Nat]
  /\ EC \in [1..T -> Int]
  /\ phase = "solved" => schedule \in OptimalSchedules
  /\ (phase = "idle" /\ run > 0 /\ overview_file = run) =>
        /\ schedule \in OptimalSchedules
        /\ report.min_cost = D!cost_objective(schedule)
        /\ report.alternative_cost = D!get_alternative_cost


\* OptimalSchedules reads only the series and prices of the model.
LEMMA OptimalSchedulesFrame ==
  ASSUME UNCHANGED <<grid_prices, energy_consumption_from_grid_aggregated_timelots,
                     energy_generation_to_grid_aggregated_timelots>>
  PROVE  /\ OptimalSchedules' = OptimalSchedules
         /\ D!get_alternative_cost' = D!get_alternative_cost
         /\ \A m : D!cost_objective(m)' = D!cost_objective(m)
BY DEF D!get_alternative_cost, OptimalSchedules, FeasibleSchedules, EC, EG, D!PeriodVars, D!PeriodConstraints,
       D!battery_soc_constraint, D!max_battery_soc_charge_constraint,
       D!min_battery_soc_discharge_constraint, D!consumption_constraint,
       D!max_charge_power_constraint, D!generation_constraint,
       D!charge_power_state_contraint, D!discharge_power_state_contraint,
       D!battery_state_constraint, D!max_grid_peak_constraint,
       D!get_energy_consumption_from_grid_in_period,
       D!get_energy_consumption_from_generation_in_period,
       D!max_battery_cycles_constraint, D!BatteryThroughput, D!cost_objective,
       D!SumTo, D!SumOfSeq

THEOREM OptIInvInit == Init => OptIInv
<1>. SUFFICES ASSUME Init PROVE OptIInv
  OBVIOUS
<1>1. /\ run = 0 /\ overview_file = 0 /\ phase = "idle"
      /\ grid_prices \in PriceSeries
  BY DEF Init
<1>2. /\ load_profile \in [1..T -> Nat] /\ generation_profile \in [1..T -> Nat]
      /\ EC = [p \in 1..T |-> 0]
  BY DEF Init, Agg!AggInit, Agg!LoopStarted, Agg!Profiles, Agg!Periods, EC
<1>. QED  BY <1>1, <1>2, SimulationAssumption DEF OptIInv


\* The residual demand one iteration adds is an integer series.
LEMMA ResidualDemandInt ==
  ASSUME load_profile \in [1..T -> Nat], generation_profile \in [1..T -> Nat], NEW h
  PROVE  \A p \in 1..T : Agg!Derived(h).consumption_from_grid[p] \in Int
<1>. USE ConfigAssumption
<1>. DEFINE c  == [p \in Agg!Periods |-> Agg!SmartHome(h).load_profile[p]
                                          * DEMAND_PER_HOUSEHOLD_PER_DAY]
            g  == [p \in Agg!Periods |-> Agg!SmartHome(h).generation_profile[p]
                                          * GENERATION_PER_HOUSEHOLD_PER_DAY]
<1>1. Agg!Derived(h).consumption_from_grid =
        [p \in Agg!Periods |-> c[p] - Agg!MinOf(c[p], g[p])]
  BY Zenon DEF Agg!Derived
<1>2. \A p \in 1..T : c[p] \in Int /\ g[p] \in Int
  BY DEF Agg!SmartHome, Agg!generation_percentage, Agg!Periods
<1>. QED  BY <1>1, <1>2 DEF Agg!MinOf, Agg!Periods

THEOREM OptIInvNext == OptIInv /\ [Next]_vars => OptIInv'
<1>. SUFFICES ASSUME OptIInv, [Next]_vars PROVE OptIInv'
  OBVIOUS
<1>1. CASE StartRun
  <2>1. /\ run' = run + 1 /\ phase' = "aggregate"
        /\ overview_file' = overview_file
        /\ grid_prices' \in PriceSeries
        /\ load_profile' \in Agg!Profiles /\ generation_profile' \in Agg!Profiles
        /\ EC' = [p \in Agg!Periods |-> 0]
    BY <1>1 DEF StartRun, Agg!LoopStarted, EC
  <2>2. /\ load_profile' \in [1..T -> Nat] /\ generation_profile' \in [1..T -> Nat]
        /\ EC' \in [1..T -> Int]
    BY <2>1 DEF Agg!Profiles, Agg!Periods
  <2>. QED  BY <2>1, <2>2, SimulationAssumption DEF OptIInv
<1>2. CASE AggregateHousehold
  <2>. DEFINE h == processed + 1
              d == Agg!Derived(h)
  <2>1. /\ phase = "aggregate" /\ phase' = "aggregate"
        /\ UNCHANGED <<run, grid_prices, overview_file, load_profile, generation_profile>>
        /\ EC' = [p \in Agg!Periods |-> EC[p] + d.consumption_from_grid[p]]
    BY <1>2 DEF AggregateHousehold, Agg!AggregateHousehold, EC
  <2>2. \A p \in 1..T : d.consumption_from_grid[p] \in Int
    BY ResidualDemandInt DEF OptIInv
  <2>3. EC' \in [1..T -> Int]
    BY <2>1, <2>2 DEF OptIInv, Agg!Periods
  <2>. QED  BY <2>1, <2>3 DEF OptIInv
<1>3. CASE Solve
  <2>1. /\ phase = "aggregate"
        /\ \/ phase' = "solved" /\ schedule' \in OptimalSchedules
           \/ phase' = "idle"
        /\ UNCHANGED <<run, grid_prices, aggVars, overview_file>>
    BY <1>3 DEF Solve
  <2>2. OptimalSchedules' = OptimalSchedules
    BY <2>1, OptimalSchedulesFrame DEF aggVars
  <2>3. overview_file < run
    BY <2>1 DEF OptIInv
  <2>. QED  BY <2>1, <2>2, <2>3 DEF OptIInv, aggVars, EC
<1>4. CASE ExtractResults
  <2>1. /\ phase = "solved" /\ phase' = "idle"
        /\ UNCHANGED <<run, grid_prices, aggVars, schedule>>
        /\ \/ overview_file' = run /\ report' = Results(schedule)
           \/ overview_file' = overview_file
    BY <1>4 DEF ExtractResults
  <2>2. OptimalSchedules' = OptimalSchedules
    BY <2>1, OptimalSchedulesFrame DEF aggVars
  <2>3. schedule \in OptimalSchedules /\ overview_file < run
    BY <2>1 DEF OptIInv
  <2>4. /\ Results(schedule).min_cost = D!cost_objective(schedule)
        /\ Results(schedule).alternative_cost = D!get_alternative_cost
    BY Zenon DEF Results
  <2>5. (phase' = "idle" /\ run' > 0 /\ overview_file' = run') =>
          /\ schedule' \in OptimalSchedules'
          /\ report'.min_cost = D!cost_objective(schedule)'
          /\ report'.alternative_cost = D!get_alternative_cost'
    <3>1. D!get_alternative_cost' = D!get_alternative_cost
          /\ D!cost_objective(schedule)' = D!cost_objective(schedule)
      BY <2>1, OptimalSchedulesFrame DEF aggVars
    <3>2. SUFFICES ASSUME overview_file' = run'
                   PROVE  /\ schedule' \in OptimalSchedules'
                          /\ report'.min_cost = D!cost_objective(schedule)'
                          /\ report'.alternative_cost = D!get_alternative_cost'
      OBVIOUS
    <3>3. overview_file' = run /\ report' = Results(schedule)
      <4>1. run \in Nat /\ overview_file \in Nat
        BY DEF OptIInv
      <4>. QED  BY <2>1, <2>3, <3>2, <4>1
    <3>4. schedule' \in OptimalSchedules'
      BY <2>1, <2>2, <2>3
    <3>. QED  BY <3>1, <3>3, <3>4, <2>4
  <2>. QED  BY <2>1, <2>3, <2>5 DEF OptIInv, aggVars, EC
<1>5. CASE UNCHANGED vars
  <2>1. OptimalSchedules' = OptimalSchedules
    BY <1>5, OptimalSchedulesFrame DEF vars, aggVars
  <2>2. D!get_alternative_cost' = D!get_alternative_cost
      /\ \A m : D!cost_objective(m)' = D!cost_objective(m)
    BY <1>5, OptimalSchedulesFrame DEF vars, aggVars
  <2>. QED  BY <1>5, <2>1, <2>2 DEF vars, aggVars, OptIInv, EC
<1>. QED  BY <1>1, <1>2, <1>3, <1>4, <1>5 DEF Next


(* Leaving the battery idle costs exactly the baseline: with no charging,  *)
(* discharging or PV use every period draws its whole demand from the      *)
(* grid at that period's price, and PV energy is free (pv_prices = 0).     *)
LEMMA IdleCostIsBaseline ==
  ASSUME EC \in [1..T -> Int], grid_prices \in [1..T -> Nat]
  PROVE  D!cost_objective(IdleSchedule) = D!get_alternative_cost
<1>1. T \in Nat
  BY ConfigAssumption
<1>2. Len(IdleSchedule) = T
  BY <1>1 DEF IdleSchedule
<1>3. [k \in 1..Len(IdleSchedule) |->
         D!get_energy_consumption_from_grid_in_period(IdleSchedule, k) * grid_prices[k]
         + D!get_energy_consumption_from_generation_in_period(IdleSchedule, k)
             * [p \in 1..T |-> 0][k]]
      = [k \in 1..T |-> EC[k] * grid_prices[k]]
  <2>1. ASSUME NEW k \in 1..T
        PROVE  D!get_energy_consumption_from_grid_in_period(IdleSchedule, k)
                 * grid_prices[k]
               + D!get_energy_consumption_from_generation_in_period(IdleSchedule, k)
                 * [p \in 1..T |-> 0][k]
               = EC[k] * grid_prices[k]
    <3>1. /\ D!get_energy_consumption_from_grid_in_period(IdleSchedule, k) = EC[k]
          /\ D!get_energy_consumption_from_generation_in_period(IdleSchedule, k) = 0
          /\ [p \in 1..T |-> 0][k] = 0
      BY DEF IdleSchedule, D!get_energy_consumption_from_grid_in_period,
             D!get_energy_consumption_from_generation_in_period
    <3>. QED  BY <3>1
  <2>. QED  BY <1>2, <2>1
<1>. QED  BY <1>3, Zenon DEF D!cost_objective, D!get_alternative_cost, D!SumTo

(* The overview a run wrote never reports an optimal cost above the cost   *)
(* of buying the whole demand from the grid, whenever leaving the battery  *)
(* idle is feasible for that run's model (extract_results after solve in   *)
(* run_simulation): this is the invariant OptimalNeverWorseThanBaseline,   *)
(* for every horizon, price series and battery configuration.            *)
THEOREM OptimalNeverWorseThanBaselineThm == Spec => []OptimalNeverWorseThanBaseline
<1>1. OptIInv => OptimalNeverWorseThanBaseline
  <2>. SUFFICES ASSUME OptIInv,
                       phase = "idle", run > 0, overview_file = run,
                       IdleSchedule \in FeasibleSchedules
                PROVE  report.min_cost <= report.alternative_cost
    BY DEF OptimalNeverWorseThanBaseline
  <2>1. /\ schedule \in OptimalSchedules
        /\ report.min_cost = D!cost_objective(schedule)
        /\ report.alternative_cost = D!get_alternative_cost
    BY DEF OptIInv
  <2>2. D!cost_objective(schedule) <= D!cost_objective(IdleSchedule)
    BY <2>1 DEF OptimalSchedules
  <2>3. D!cost_objective(IdleSchedule) = D!get_alternative_cost
    BY IdleCostIsBaseline DEF OptIInv
  <2>. QED  BY <2>1, <2>2, <2>3
<1>. QED  BY <1>1, OptIInvInit, OptIInvNext, PTL DEF Spec

=============================================================================
