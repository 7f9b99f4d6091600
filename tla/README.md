# TLA+ models of the community battery simulation

This directory has TLA+ models of the simulation in
`src/model_simulation/`, of the profile data analysis in `src/data_analysis/ausgrid/`
and of the prototype account generator, with the TLC configurations that check
them and TLAPS proofs of the dispatch model's safety invariants and of the
account file's completeness.

## The system

`run_simulation` (simulation.py lines 165-403) is one sequential pass. It is
run again and again against the same `out/` directory:

1. **Household aggregator** (lines 145-209, `lib/smart_home.py`,
   `lib/load_profile.py`, `lib/generation_profile.py`). `get_config` gives PV
   to the first `ceil(N * HOUSEHOLDS_WITH_PV_RATIO)` households. Every household
   reads the same load and generation profile CSVs. For a household without
   PV, the generation profile is zeroed. The loop then does three things for
   each household:
   - it derives per timeslot the self-consumption `min(consumption, generation)`,
     the residual grid demand and the exportable generation;
   - it derives the coverage ratio;
   - it adds residual demand and export into the two community series.
2. **Dispatch model builder** (lines 30-142, 211-281). A Pyomo model over
   periods 1..24 is built from:
   - the Var bounds;
   - nine constraint rules per period;
   - an optional per-period grid cap and an optional battery-cycle cap;
   - a cost objective.

   The series are wrapped in `PyomoCompatibleArray`, which maps key `k` to
   `items[k - 1]`.
3. **Solver interface** (lines 283-291). GLPK either returns an optimal
   schedule, or the run prints "No optimal solution found." and calls `exit()`.
4. **Result extractor** (lines 293-403). It writes `out/simulation_details.csv`
   (line 328). It then computes the summary metrics, including the
   peak-period metrics. For each entry `period` of `PEAK_PERIODS` (peak
   period indices in `1..24`, spec.md section 6) they read model key
   `period + 1`, which is the next period.
   Finally it writes `out/simulation_overview.json` (line 400).

Two offline scripts sit beside the simulation and are modelled on their own:
- **Profile data analysis** (`src/data_analysis/ausgrid/main.py`) turns the
  Ausgrid half-hourly readings into the hourly profile CSVs. The simulation
  reads these CSVs (they enter its model as `Profiles`).
- **Prototype account generator** (`src/prototype/client/account_generator.py`)
  creates wallet accounts, funds each one through `wasp-cli chain deposit`, and
  writes them to `out/accounts.json`. It shares no state with the simulation.

These parts are not modelled:
- the price provider, which is CSV I/O and enters as the constant `PriceSeries`;
- `PVSystem`, which is never constructed and whose constructor always exits;
- the price-fetch scripts (`fetch_month_prices.py`, `main_day.py`). They are
  network I/O, and their output enters as `PriceSeries`. They have one hazard
  that the model does not reach. A daylight-saving day has 23 or 25 hourly
  rows. That leaves a missing hour column, or gives a duplicate column name
  that makes `pd.concat` raise (line 55). Also, `"%#H"` is a Windows-only
  `strftime` flag.

`lib/smart_home.py` imports `lib.battery`, which is not part of the source
tree. The model does not depend on it, because the simulation never reads
`household.battery`.

## Modules

| Module | Models | State and actions |
|---|---|---|
| `DispatchRules` | simulation.py 30-142, 233-276 | No variables. `PeriodVars` holds the Var bounds. Each rule is an operator `rule(m, i)` over an assignment `m` (a sequence of period records) and keeps the code's name. `PeriodConstraints(m, i)` is everything posted at period `i`. `BatteryThroughput`, `cost_objective` and `get_alternative_cost` are also here. |
| `BatteryDispatch` | the feasible region of that model | `model` holds the periods assigned so far and `solved` is the optimal status. `AssignPeriod` fixes the next period's variables where that period's rules hold. Every rule reads only periods `i` and `i-1`. `CompleteAssignment` applies the model-wide cycle rule. The complete assignments are exactly the feasible points, so an invariant of this spec holds of every schedule the solver may return. |
| `CommunityAggregation` | get_config, GenerationProfile, the household loop | The variables are the profiles, `processed`, the derived fields of the households processed so far, and the two community series. `AggregateHousehold` is one loop iteration. Ratios are kept as `num`/`den`, and `den = 0` is numpy's NaN. |
| `Simulation` | run_simulation end to end, over several runs | The variables are `run`, `phase`, the prices, the aggregation variables (through `INSTANCE CommunityAggregation`), `schedule`, and the files. Each file is the number of the run that last wrote it. The actions are `StartRun`, `AggregateHousehold`, `Solve` and `ExtractResults`. `D == INSTANCE DispatchRules WITH` the aggregated series. The solver is its contract: a member of `OptimalSchedules`, or exit with nothing written. `ExtractResults` always writes the CSV. It writes the overview only if every peak key is valid for the adapter, otherwise IndexError is raised. |
| `AusgridProfile` | ausgrid/main.py: main, get_measuremets | The variables are the readings file `raw` (a set of rows), the current `pass` ("GG", then "GC"), the kept `rows`, the `frame` of readings columns, their `order`, the loop counter `i`, and the `profile_out` written for each category. `ReadMeasurements` is the read and filter. `FoldHalfHour` is one iteration of the loop at line 93. `WriteProfile` is the rest of main() for one pass: the slice, the mean per column, the percentage, and `reset_index`, which numbers the rows in the slice's column order. The `rename(columns=COLUMN_MAP)` at lines 45/63 is applied after `describe().T`, to the statistics columns, so it renames nothing and the model leaves it out. A column name `h:mm` is the pair `<<h, mm>>`. |
| `AccountGenerator` | account_generator.py | The variables are the invocation counter `run`, `pc`, the loop `index`, the in-memory `accounts`, the set `funded` of accounts funded on chain (across invocations), and `accounts_file`. The actions are `StartRun`, `DepositSucceeded`, `DepositFailed` (`exit()`) and `WriteAccounts` (`to_json`). The CLI's result is a nondeterministic choice. |
| `BatteryDispatchProofs` | proofs | The proofs of the safety theorems listed below. |
| `AccountGeneratorProofs` | proofs | The proofs of `AccountsFileCompleteThm` and `AccountTypeCorrect`. |
| `Battery` | what a schedule promises | An abstract battery: the `energy` stored, the number of periods played and `done`. It has one action per kind of period (`Charge` by at most `CHARGING_POWER` without overflowing, `Discharge` by at most `DISCHARGING_POWER` without going below empty, `Hold`) and `Finish`. `BatteryDispatch` instantiates it as `Abs`. The mapping is the energy after the last assigned period, `Len(model)`, and `solved`. |
| `SimulationProofs` | proofs | The proofs of `NoPartialReportThm` and `OptimalNeverWorseThanBaselineThm`. |
| `CommunityAggregationProofs` | proofs | The proofs of `NoPvHouseholdGeneratesNothingThm`, `AggTypeCorrect` and `AggregateIsElementwiseSumThm`, and the lemmas on `SumSeries`. |
| `DispatchCostProofs` | proofs | The lemmas on `SumOfSeq` and the proof of `FlatPriceNoArbitrageThm`. |

Data abstraction:
- Energies are integers. Every rule is linear, so a model over rationals scales
  to one over integers.
- A profile is any curve of non-negative shares summing to `PctTotal` (100 in
  the CSVs), chosen in the initial state.
- Printing, plotting, rounding, CSV layout and `local_generation_usage` are
  left out.
- `pv_energy_consumption` has no upper Var bound in the code. Its range
  `0..PvBound` does not cut feasible points, because `PvBound` is at least the
  generation the generation rule allows.

## Runs

| Run | Expect | What it shows |
|---|---|---|
| dispatch_safety | pass | On a 3-period model with both optional constraints on, every feasible point never charges and discharges at once (`NoSimultaneousChargeDischarge`), never feeds the grid (`GridDrawNonNegative`), and keeps the energy after every period within `0..MAX` (`StoredEnergyWithinCapacity`). This includes the last period, which no variable bounds. Every feasible point is also a run of the abstract `Battery` (`BatteryRefinement`). |
| dispatch_flat_price | pass | With a flat price, no generation and an empty battery, no feasible schedule beats buying everything from the grid (`FlatPriceNoArbitrage`). |
| dispatch_min_soc | violation | `EnergyNeverBelowMinimum`: the energy left after the last period can fall below `MIN_BATTERY_CAPACITY`. |
| aggregation | pass | For every pair of profiles, the community series are the elementwise sums of the households' residual demand and export at every iteration. Households without PV contribute no generation. |
| simulation | pass | Two runs with both optional constraints on, so some runs are infeasible and exit. Between runs, the CSV and the overview on disk come from the same run (`NoPartialReport`). Whenever leaving the battery idle is feasible for a run's model (grid cap and cycle cap included), the minimum cost written is at most the all-grid baseline (`OptimalNeverWorseThanBaseline`). |
| simulation_unconstrained | pass | Without the optional constraints every run solves (`UnconstrainedModelAlwaysSolves`, an action property): no run exits at the solver check. A consumption rule written with `==` in place of `<=` makes the model infeasible when the battery is empty and there is no sun, and this property catches it. |
| simulation_nan_overview | violation | `ReportedRunHasNoNaN`: with zero demand per household, a run computes the coverage, the saving and the peak reduction as 0/0, and still writes its overview. |
| ausgrid_profile | pass | Every possible file of two rows with readings 0..1 over a 3-hour day is checked, in both passes. Every written profile gives row `k` the share of the category's energy in clock hour `k..k+1` (`ProfileMatchesHourlyEnergy`), compared against the reference `HourEnergy`. `AusgridTypeOK` also pins the frame's columns during the fold. |
| account_generator | pass | Three invocations, with deposits that fail anywhere. Once written, `accounts.json` holds exactly `NUMBER_OF_ACCOUNTS` distinct funded accounts of one invocation (`AccountsFileComplete`). |
| account_generator_keys | violation | `FundedKeysSaved`: after a failed deposit, the accounts funded earlier in that invocation appear in no file. |
| simulation_partial_report | violation | With `PEAK_PERIODS = {1, 2}` and `T = 2`, the key `2 + 1` raises after the CSV is written, which leaves a partial report. |
| simulation_peak_periods | violation | `PeakDemandOverConfiguredPeriods`: the peak metrics sum the timeslot after each configured one. |

**Bounds.** The instances use 2 or 3 periods and 2 or 3 households, with
capacities and powers of 1 to 3 units. With these bounds, every rule can both
bind and not bind:
- charging to full and discharging to empty both happen;
- the grid cap makes some profile combinations infeasible, as does the cycle
  cap (throughput at most `MAX_BATTERY_CYCLES * MAX_BATTERY_CAPACITY`);
- a household with PV and one without both occur (ratio 1/2);
- prices vary between periods.

The rules only couple adjacent periods, so three periods already show every
pattern of charge, hold and discharge across a boundary.

**Mutants.** Every property of a passing run has a mutant in `PROJECT.json`.
Each mutant is a plausible bug, defined next to the definition it replaces,
and TLC finds that property violated under the run's own configuration. For
example:
- the binary states allowed to sum to 2;
- the PV term dropped from the consumption rule;
- a charge headroom without `- battery_soc`;
- an overwrite instead of `+=` in the loop;
- an off-by-one in the adapter bound;
- the run continuing after "No optimal solution found.".

**No liveness property.** `run_simulation` is a single synchronous pass:
the household loop is a bounded `for`, and the solver either returns or the
run calls `exit()`. In the model `Solve` has exactly these two branches, so
"every run ends" would hold by the shape of the model, whatever the code's
details. The model therefore assumes no fairness. What can go wrong on this
path, a run that ends at `exit()` when it need not, is the safety property
`UnconstrainedModelAlwaysSolves`.

`CHECK_DEADLOCK FALSE` is set because the modelled processes really do stop:
- a solved assignment has no successor;
- the aggregation loop ends after the last household;
- the simulation stops after `MaxRuns` runs;
- the profile script stops after its second pass;
- the account generator stops after `MaxRuns` invocations.

**Ausgrid bounds.** `H = 3` hours per day is enough for a fold with the wrap
from `2:30` into `0:00`, a middle hour, and `0:00` as the last column of the
slice, which becomes the last row. The fold is the same code for every `H`. Two rows with the categories
GG and GC, the date filter and readings of 0 or 1 cover the following:
- empty categories;
- one row or two rows per category;
- unequal hours.

Symmetry over the rows is sound, because no definition names a row.

## Findings

1. **End-of-horizon energy below the minimum** (spec gap, simulation.py:49).
   The discharge floor is `discharge <= battery_soc`, not
   `battery_soc - MIN_BATTERY_CAPACITY`. No variable bounds the energy after
   period 24. A feasible schedule, and so possibly the optimal one, can end
   below `MIN_BATTERY_CAPACITY`.
2. **NaN coverage** (simulation.py:189, run simulation_nan_overview).
   `generation_coverage` is 0.0/0.0 for a household with no demand. The spec
   says it is 0.
3. **Peak periods off by one** (simulation.py:365, 371). The peak metrics
   read `period + 1`, which is the next timeslot.
4. **NaN in the overview** (spec gap, simulation.py:376, 351).
   `peak_reduction` is 0/0 when the peak timeslots carry no demand, and so
   is `saving` when the baseline is 0. numpy gives NaN, and `json.dump`
   writes the bare token `NaN`, which is not valid JSON. The spec guards only
   the usage ratio. The run reaches it with zero demand, which makes both
   ratios NaN in the same overview.
5. **Funded keys lost** (code bug, account_generator.py:32). A failed deposit
   calls `exit()` before `to_json`. The accounts already funded in that
   invocation are never written, so their private keys are lost. A rerun
   creates new accounts. `AccountsFileComplete` still holds: the file is all or
   nothing.
6. **Partial report** (simulation.py:328, 365, 400). The details CSV is
   written before the metrics are computed. If `PEAK_PERIODS` contains the
   last period (24 in the code, `T` in the model), line 365 reads key
   `T + 1` and the adapter raises IndexError. The CSV of the new run is then left beside
   the overview of an older run. The spec says a failed run produces no
   partial report.

## Proofs (TLAPS)

`BatteryDispatchProofs` proves `DispatchSafety`:
`Spec => [](TypeOK /\ NoSimultaneousChargeDischarge /\ GridDrawNonNegative /\ StoredEnergyWithinCapacity)`.
It also proves one corollary per conjunct (`TypeCorrectness`,
`NoSimultaneousChargeDischargeThm`, `GridDrawNonNegativeThm`).

These hold for every value of the constants allowed by the assumptions of
`BatteryDispatch` (`T > 0`, natural capacities with `MAX > 0`, positive
powers, natural series, Boolean toggles).

The argument:
- The invariants are not inductive on their own, because
  `GridDrawNonNegative` needs `model` to be a sequence of records. The
  inductive invariant `IInv` is `TypeOK` conjoined with the three
  properties. TLC checks `IInv` too, since the dispatch_safety run checks
  exactly those four.
- `PeriodLemma` shows that the rules posted at one period imply the three
  properties at that period:
  - the two gates and the binary exclusivity together rule out charging and
    discharging in one period;
  - the consumption rule keeps the grid draw non-negative;
  - the headroom and floor rules bound the stored energy.
- `AssignPeriod` keeps the earlier periods unchanged (`AppendLemma`) and adds
  one period where the rules hold. `CompleteAssignment` changes only
  `solved`.

`BatteryDispatchProofs` also proves `DispatchRefinesBattery`:
`Spec => BatteryRefinement`, where `BatteryRefinement == Abs!Spec`. This says
that every schedule the solver may return is a run of the ideal battery.
- Initial states map to `Abs!Init`, since the stored energy before any
  period is `INITIAL_BATTERY_SOC`.
- `StepRefinesBattery` shows that every step under `IInv` maps to a step of
  `Abs` or a stutter:
  - `SocIsStoredEnergy` shows that the battery_soc of the period appended
    equals the energy the abstract battery holds. At period 1 this is by the
    initial value, and after that by the state-of-charge recurrence (line 34).
  - `PeriodLemma` then excludes charging and discharging at once, and keeps
    the new energy in `0..MAX`.
  - The Var bounds and `max_charge_power_constraint` bound the change. The
    step is therefore a `Charge`, a `Discharge` or a `Hold`.
  - `CompleteAssignment` is `Finish`.
- TLC checks the same property on the dispatch_safety run. A mutant that
  drops the PV charge from the recurrence breaks it, which none of the three
  safety invariants detects on its own.

`SimulationProofs` proves `NoPartialReportThm`:
`ASSUME PeakKeysValid PROVE Spec => []NoPartialReport`. It holds for every
value of the constants.
- `PeakKeysValid` says that every configured peak period gives a key the
  adapter accepts. It is the condition under which the metrics at line 365
  do not raise.
- The hypothesis is needed, not a convenience: the simulation_partial_report
  run shows the property fails without it.
- `NoPartialReport` constrains only the states between runs, so it is not
  inductive. The inductive invariant `FilesAgree` says the two files come
  from the same run in every state. TLC checked it on the simulation
  instance before the proof.
- A run that exits at the solver writes nothing. `ExtractResults` under
  `PeakKeysValid` writes both files.

`CommunityAggregationProofs` proves `NoPvHouseholdGeneratesNothingThm`:
`AggSpec => []NoPvHouseholdGeneratesNothing`.
- The inductive invariant `NoPvIInv` adds two facts: the load profile is a
  curve of naturals, and `processed` is in range. TLC checked it on the
  aggregation instance.
- `DerivedWithoutPv` shows that for a household without PV, the iteration
  writes zero export and zero self-consumption, because
  `min(consumption, 0) = 0` when consumption is not negative.
- The earlier households are left as they were.
- The proof never evaluates the coverage ratio or a sum.

How sums are proved. A Python `sum(...)` or pandas `.sum()` is written without
recursion, so that the provers can reason about it:
- `SumSeries(f, n)` (CommunityAggregation) is the number of elements of the
  disjoint union of the sets `{k} \X 1..f[k]`, for `k` in `1..n`. It sums
  naturals.
- `SumOfSeq(s)` (DispatchRules) is the count of positive units minus the count
  of negative units. It sums integers. `SumTo(f, n)` is `SumOfSeq` of
  `f(1), ..., f(n)`.
- The lemmas `SumSeriesZero`/`SumSeriesStep` and
  `SumOfSeqEmpty`/`SumOfSeqAppend` give the empty sum and the one-step
  unfolding. They are proved from the cardinality facts of
  FiniteSetTheorems (`FS_UNION`, `FS_Product`, `FS_Interval`,
  `FS_Surjection`), so no induction over data is needed.
- The same definitions are what TLC evaluates in every run.

`CommunityAggregationProofs` also proves `AggTypeCorrect`
(`AggSpec => []AggTypeOK`) and `AggregateIsElementwiseSumThm`.
- The inductive invariant `AggIInv` adds four things: the profiles sum to
  `PctTotal`; the series of every processed household are bounded by the
  daily budget (`CMax`, `GMax`); the coverage ratio is a pair of naturals;
  and the community series equal the sum over the processed households.
- `DerivedBounded` bounds one iteration's series.
- `SumSeriesStep` turns the loop's `+=` into one more household in the sum.
- The bounds are needed because `SumSeries` is only defined on naturals.

`DispatchCostProofs` proves `FlatPriceNoArbitrageThm`
(`Spec => []FlatPriceNoArbitrage`).
- `CostIInv` is stated for every prefix of the assignment, not only for a
  complete one. Under a flat price and no PV, the cost so far equals the
  baseline so far plus the price times the energy now stored.
- `FlatPeriodCost` proves that for one period. The battery recurrence makes
  the period's extra grid draw equal to the growth of the stored energy.
- `SumOfSeqAppend` adds the period to both sums.
- The property follows because the stored energy is not negative. That is
  `StoredEnergyWithinCapacity`, from `IInv` of BatteryDispatchProofs.

`SimulationProofs` also proves `OptimalNeverWorseThanBaselineThm`
(`Spec => []OptimalNeverWorseThanBaseline`).
- `OptIInv` keeps three facts from the solve to the overview written by
  `ExtractResults`: `schedule` is in `OptimalSchedules`, and the report's two
  costs are `cost_objective(schedule)` and `get_alternative_cost` of the
  current series. It also types the series the dispatch model reads.
- `OptimalSchedulesFrame` shows that these values do not change until the
  next `StartRun`: `ExtractResults` writes only files.
- `IdleCostIsBaseline` shows that the cost of the idle schedule equals the
  alternative cost.
- An optimal schedule costs no more than any feasible one, the idle schedule
  included whenever it is feasible.
- `ConfigAssumption` supplies the types of `T` and the daily budgets. TLC
  evaluates it in every simulation run.

`AccountGeneratorProofs` proves `AccountsFileCompleteThm`:
`Spec => [](AccountTypeOK /\ AccountsFileComplete)`. It holds for every
`NUMBER_OF_ACCOUNTS > 0` and `MaxRuns`.
- `AccountsFileComplete` alone is not inductive, because `WriteAccounts`
  copies the in-memory list. The strengthening `LoopInv` says what that list
  is while the loop runs: it has `index` entries, entry `k` is the account
  that the current invocation created at index `k - 1`, and every entry is
  funded.
- `DepositSucceeded` appends one such entry.
- `WriteAccounts` fires only at `index = NUMBER_OF_ACCOUNTS`, and `LoopInv`
  then gives the file's length, injectivity and single run.
- `DepositFailed` leaves the file untouched.
- `AccountTypeCorrect` (`Spec => []AccountTypeOK`) follows as a corollary.

Only TLC checks the following:
- `UnconstrainedModelAlwaysSolves`. It needs `FeasibleSchedules` to be
  non-empty, and that set is built by the recursive function `fp`. Proving
  it for every `T` is an induction over `fp`, which is not yet done.
- `Simulation`'s `TypeOK`. Its schedule conjunct needs every member of
  `FeasibleSchedules` to be a sequence of `T` period records, so the same
  limit applies.
- `AusgridTypeOK` and `ProfileMatchesHourlyEnergy`. Both are statements
  about sums over sets (`MapThenSumSet` of FiniteSetsExt, a recursive
  operator that proof modules cannot use).

## Plan for later work

- A brute-force reference for `FeasibleSchedules` and `OptimalSchedules`,
  checked against the period-by-period construction.
- More proofs:
  - `UnconstrainedModelAlwaysSolves`, by induction over `fp` from the lemma
    that the idle period is feasible after an idle prefix;
  - the Ausgrid invariants, with `MapThenSumSet` replaced by a cardinality
    sum like `SumSeries`.
