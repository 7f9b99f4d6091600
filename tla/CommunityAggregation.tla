------------------------ MODULE CommunityAggregation ------------------------
(***************************************************************************)
(* The household loop of run_simulation (src/model_simulation/            *)
(* simulation.py lines 165-209): the households of get_config (lines      *)
(* 145-162), each with the shared load profile and a generation profile    *)
(* that is zeroed unless the household has PV (lib/generation_profile.py), *)
(* are processed one at a time; each iteration derives the household's    *)
(* self-consumption, residual grid demand and exportable generation and   *)
(* adds the last two to the community series the dispatch model reads.    *)
(*                                                                         *)
(* A profile is the percentage column of a CSV read when the households    *)
(* are constructed: any curve of non-negative shares summing to PctTotal   *)
(* (100 in the code), chosen in the initial state.  Consumption is         *)
(* share / PctTotal * daily budget; energies are counted in units of       *)
(* 1/PctTotal of the budget unit, so consumption is share * budget: a      *)
(* positive scaling that preserves min, sums and ratios.                   *)
(***************************************************************************)
EXTENDS Integers, FiniteSets

CONSTANTS
  T,                                \* number of timeslots (24 in the code)
  NUMBER_OF_HOUSEHOLDS,
  PV_RATIO_NUM, PV_RATIO_DEN,       \* HOUSEHOLDS_WITH_PV_RATIO as a fraction
  DEMAND_PER_HOUSEHOLD_PER_DAY,
  GENERATION_PER_HOUSEHOLD_PER_DAY,
  PctTotal                          \* what a profile sums to (100 in the CSVs)

Periods == 1..T
Households == 1..NUMBER_OF_HOUSEHOLDS

ASSUME AggPeriodsAssumption == T \in Nat \ {0}
ASSUME HouseholdsAssumption == NUMBER_OF_HOUSEHOLDS \in Nat
ASSUME RatioAssumption ==
  /\ PV_RATIO_DEN \in Nat \ {0}
  /\ PV_RATIO_NUM \in 0..PV_RATIO_DEN
ASSUME BudgetAssumption ==
  /\ DEMAND_PER_HOUSEHOLD_PER_DAY \in Nat
  /\ GENERATION_PER_HOUSEHOLD_PER_DAY \in Nat
ASSUME PctTotalAssumption == PctTotal \in Nat \ {0}

\* get_config: the first ceil(N * ratio) households have PV.
number_of_households_with_pv ==
  (NUMBER_OF_HOUSEHOLDS * PV_RATIO_NUM + PV_RATIO_DEN - 1) \div PV_RATIO_DEN

include_pv_generation_profile(h) == h <= number_of_households_with_pv

MinOf(a, b) == IF a <= b THEN a ELSE b

\* Series.sum of the naturals f[1], ..., f[n]: the number of units in the
\* disjoint union of f[k] units tagged k, for each k.
SumSeries(f, n) == Cardinality(UNION {{k} \X (1..f[k]) : k \in 1..n})

\* The percentage columns a profile CSV can hold.
Profiles ==
  {f \in [Periods -> 0..PctTotal] : SumSeries(f, T) = PctTotal}

VARIABLES
  load_profile,        \* LoadProfile time_slots "percentage"
  generation_profile,  \* GenerationProfile time_slots "percentage" (before zeroing)
  processed,           \* households handled by the loop so far
  households,          \* the derived fields written on households 1..processed
  energy_consumption_from_grid_aggregated_timelots,
  energy_generation_to_grid_aggregated_timelots

\* Mutation variant: the include_pv_generation_profile flag ignored.
generation_percentage_always(h) == [p \in Periods |-> generation_profile[p]]

\* GenerationProfile.__init__: the profile, or all zero without PV.
generation_percentage(h) ==
  [p \in Periods |-> IF include_pv_generation_profile(h)
                     THEN generation_profile[p] ELSE 0]

\* SmartHome.__init__ of household h: the shared load profile (LoadProfile
\* of the empty "demand" config) and its generation profile.  The battery
\* the constructor also builds is never read by the simulation.
SmartHome(h) ==
  [load_profile |-> load_profile, generation_profile |-> generation_percentage(h)]

\* Mutation variant: the residual demand computed without subtracting
\* the self-consumed part as min(consumption, generation).
Derived_no_min(h) ==
  LET consumption == [p \in Periods |-> load_profile[p] * DEMAND_PER_HOUSEHOLD_PER_DAY]
      generation  == [p \in Periods |-> generation_percentage(h)[p]
                                        * GENERATION_PER_HOUSEHOLD_PER_DAY]
  IN [generation_coverage   |-> [num |-> 0, den |-> 0],
      consumption_from_grid |-> [p \in Periods |-> consumption[p] - generation[p]],
      generation_to_grid    |-> [p \in Periods |-> generation[p] - consumption[p]],
      generation_to_self    |-> generation]

\* The derived fields the loop writes on one household.  The coverage
\* ratio is kept as its numerator and denominator: numpy divides 0.0 by
\* 0.0 to NaN, which is the ratio with den = 0.
Derived(h) ==
  LET consumption == [p \in Periods |-> SmartHome(h).load_profile[p]
                                        * DEMAND_PER_HOUSEHOLD_PER_DAY]
      generation  == [p \in Periods |-> SmartHome(h).generation_profile[p]
                                        * GENERATION_PER_HOUSEHOLD_PER_DAY]
      generation_consumption == [p \in Periods |-> MinOf(consumption[p], generation[p])]
      num == SumSeries(generation_consumption, T)
      den == SumSeries(consumption, T)
  IN [generation_coverage   |-> [num |-> num, den |-> den],
      consumption_from_grid |-> [p \in Periods |-> consumption[p] - generation_consumption[p]],
      generation_to_grid    |-> [p \in Periods |-> generation[p] - generation_consumption[p]],
      generation_to_self    |-> generation_consumption]

aggVars == <<load_profile, generation_profile, processed, households,
             energy_consumption_from_grid_aggregated_timelots,
             energy_generation_to_grid_aggregated_timelots>>

\* The SmartHome constructors have read the profile CSVs and the loop is
\* about to start (lines 166-176), for the values lp, gp, n, hh, ec, eg of
\* the variables.
LoopStarted(lp, gp, n, hh, ec, eg) ==
  /\ lp \in Profiles
  /\ gp \in Profiles
  /\ n = 0
  /\ hh = << >>
  /\ ec = [p \in Periods |-> 0]
  /\ eg = [p \in Periods |-> 0]

AggInit ==
  LoopStarted(load_profile, generation_profile, processed, households,
              energy_consumption_from_grid_aggregated_timelots,
              energy_generation_to_grid_aggregated_timelots)

\* Mutation variant: the community demand overwritten instead of summed.
AggregateHousehold_overwrite ==
  /\ processed < NUMBER_OF_HOUSEHOLDS
  /\ LET h == processed + 1
         d == Derived(h)
     IN /\ households' = [k \in 1..h |-> IF k = h THEN d ELSE households[k]]
        /\ energy_consumption_from_grid_aggregated_timelots' = d.consumption_from_grid
        /\ energy_generation_to_grid_aggregated_timelots' =
             [p \in Periods |-> energy_generation_to_grid_aggregated_timelots[p]
                                + d.generation_to_grid[p]]
        /\ processed' = h
        /\ UNCHANGED <<load_profile, generation_profile>>

\* One iteration of the household loop (lines 178-209).
AggregateHousehold ==
  /\ processed < NUMBER_OF_HOUSEHOLDS
  /\ LET h == processed + 1
         d == Derived(h)
     IN /\ households' = [k \in 1..h |-> IF k = h THEN d ELSE households[k]]
        /\ energy_consumption_from_grid_aggregated_timelots' =
             [p \in Periods |-> energy_consumption_from_grid_aggregated_timelots[p]
                                + d.consumption_from_grid[p]]
        /\ energy_generation_to_grid_aggregated_timelots' =
             [p \in Periods |-> energy_generation_to_grid_aggregated_timelots[p]
                                + d.generation_to_grid[p]]
        /\ processed' = h
        /\ UNCHANGED <<load_profile, generation_profile>>

AggNext == AggregateHousehold

AggSpec == AggInit /\ [][AggNext]_aggVars

-----------------------------------------------------------------------------
Series == [Periods -> Nat]

AggTypeOK ==
  /\ load_profile \in Profiles
  /\ generation_profile \in Profiles
  /\ processed \in 0..NUMBER_OF_HOUSEHOLDS
  /\ households \in [1..processed ->
                      [generation_coverage : [num : Nat, den : Nat],
                       consumption_from_grid : Series,
                       generation_to_grid : Series,
                       generation_to_self : Series]]
  /\ energy_consumption_from_grid_aggregated_timelots \in Series
  /\ energy_generation_to_grid_aggregated_timelots \in Series

(* The community series are the elementwise sums of the processed          *)
(* households' residual demand and exportable generation (spec.md 4.1 and  *)
(* Scenario B), at every iteration of the loop.                            *)
AggregateIsElementwiseSum ==
  \A p \in Periods :
    /\ energy_consumption_from_grid_aggregated_timelots[p] =
         SumSeries([h \in 1..processed |-> households[h].consumption_from_grid[p]],
                   processed)
    /\ energy_generation_to_grid_aggregated_timelots[p] =
         SumSeries([h \in 1..processed |-> households[h].generation_to_grid[p]],
                   processed)

(* A household configured without PV contributes no generation: nothing to *)
(* the exportable series and nothing self-consumed (spec.md Scenario C).   *)
NoPvHouseholdGeneratesNothing ==
  \A h \in 1..processed :
    ~include_pv_generation_profile(h) =>
      \A p \in Periods : /\ households[h].generation_to_grid[p] = 0
                         /\ households[h].generation_to_self[p] = 0

=============================================================================
