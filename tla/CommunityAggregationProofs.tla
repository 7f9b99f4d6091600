-------------------- MODULE CommunityAggregationProofs ---------------------
(***************************************************************************)
(* Proofs about the household loop of CommunityAggregation for every value *)
(* of its constants that the module's assumptions allow.                   *)
(*                                                                         *)
(* NoPvHouseholdGeneratesNothing speaks of the households processed so    *)
(* far; it is inductive once the load profile is known to be a curve of   *)
(* naturals (NoPvIInv), so that a household without PV self-consumes      *)
(* min(consumption, 0) = 0.  Each step writes household processed + 1 and *)
(* leaves the others as they were.                                        *)
(***************************************************************************)
EXTENDS CommunityAggregation, FiniteSetTheorems, TLAPS

-----------------------------------------------------------------------------
(***************************************************************************)
(* SumSeries: the units it counts, and the facts the loop invariants use.  *)
(* A series bounded by M has its units among (1..n) \X (1..M), so it is    *)
(* finite without an induction on n.                                       *)
(***************************************************************************)
Units(f, n) == UNION {{k} \X (1..f[k]) : k \in 1..n}

LEMMA UnitsFinite ==
  ASSUME NEW f, NEW n \in Nat, NEW M \in Nat, \A k \in 1..n : f[k] \in 0..M
  PROVE  IsFiniteSet(Units(f, n))
<1>1. Units(f, n) \subseteq (1..n) \X (1..M)
  BY DEF Units
<1>2. IsFiniteSet(1..n) /\ IsFiniteSet(1..M)
  BY FS_Interval
<1>3. IsFiniteSet((1..n) \X (1..M))
  BY <1>2, FS_Product
<1>. QED  BY <1>1, <1>3, FS_Subset

LEMMA SumSeriesNat ==
  ASSUME NEW f, NEW n \in Nat, NEW M \in Nat, \A k \in 1..n : f[k] \in 0..M
  PROVE  SumSeries(f, n) \in Nat
BY UnitsFinite, FS_CardinalityType DEF SumSeries, Units

LEMMA SumSeriesZero ==
  ASSUME NEW f
  PROVE  SumSeries(f, 0) = 0
<1>1. UNION {{k} \X (1..f[k]) : k \in 1..0} = {}
  OBVIOUS
<1>. QED  BY <1>1, FS_EmptySet DEF SumSeries

(* Adding the n+1st term adds its value: the tagged units of the new term  *)
(* are disjoint from the earlier ones.                                     *)
LEMMA SumSeriesStep ==
  ASSUME NEW f, NEW n \in Nat, NEW M \in Nat, \A k \in 1..n+1 : f[k] \in 0..M
  PROVE  SumSeries(f, n+1) = SumSeries(f, n) + f[n+1]
<1>. DEFINE B == {n+1} \X (1..f[n+1])
<1>1. Units(f, n+1) = Units(f, n) \cup B
  BY DEF Units
<1>2. Units(f, n) \cap B = {}
  BY DEF Units
<1>3. IsFiniteSet(Units(f, n))
  BY UnitsFinite
<1>4. IsFiniteSet(B) /\ Cardinality(B) = f[n+1]
  <2>1. f[n+1] \in Nat
    OBVIOUS
  <2>2. IsFiniteSet({n+1}) /\ Cardinality({n+1}) = 1
    BY FS_Singleton
  <2>3. IsFiniteSet(1..f[n+1]) /\ Cardinality(1..f[n+1]) = f[n+1]
    <3>1. PICK m \in Nat : m = f[n+1]
      BY <2>1
    <3>2. IsFiniteSet(1..m) /\ Cardinality(1..m) = IF 1 > m THEN 0 ELSE m - 1 + 1
      BY FS_Interval
    <3>. QED  BY <3>1, <3>2
  <2>4. IsFiniteSet(B) /\ Cardinality(B) = 1 * f[n+1]
    BY <2>2, <2>3, FS_Product
  <2>. QED  BY <2>1, <2>4
<1>5. Cardinality(Units(f, n) \cap B) = 0
  BY <1>2, FS_EmptySet
<1>6. Cardinality(Units(f, n)) \in Nat
  BY <1>3, FS_CardinalityType
<1>7. Cardinality(Units(f, n) \cup B) =
        Cardinality(Units(f, n)) + Cardinality(B) - Cardinality(Units(f, n) \cap B)
  BY <1>3, <1>4, FS_Union
<1>8. /\ SumSeries(f, n+1) = Cardinality(Units(f, n+1))
      /\ SumSeries(f, n) = Cardinality(Units(f, n))
  BY DEF SumSeries, Units
<1>9. Cardinality(Units(f, n+1)) = Cardinality(Units(f, n) \cup B)
  BY <1>1, Zenon
<1>. QED  BY <1>4, <1>5, <1>6, <1>7, <1>8, <1>9

(* The sum of the first n terms reads no other term. *)
LEMMA SumSeriesPrefix ==
  ASSUME NEW f, NEW g, NEW n \in Nat, \A k \in 1..n : f[k] = g[k]
  PROVE  SumSeries(f, n) = SumSeries(g, n)
<1>1. Units(f, n) = Units(g, n)
  BY DEF Units
<1>. QED  BY <1>1 DEF SumSeries, Units

NoPvIInv ==
  /\ load_profile \in [Periods -> Nat]
  /\ processed \in 0..NUMBER_OF_HOUSEHOLDS
  /\ NoPvHouseholdGeneratesNothing

(***************************************************************************)
(* The fields one iteration writes for a household without PV: its        *)
(* generation is all zero, so its self-consumption min(consumption, 0) is  *)
(* zero as its demand is not negative, and so is its export.               *)
(***************************************************************************)
LEMMA DerivedWithoutPv ==
  ASSUME load_profile \in [Periods -> Nat], NEW h,
         ~include_pv_generation_profile(h)
  PROVE  /\ Derived(h).generation_to_grid = [p \in Periods |-> 0]
         /\ Derived(h).generation_to_self = [p \in Periods |-> 0]
<1>. USE BudgetAssumption
<1>1. \A p \in Periods : SmartHome(h).generation_profile[p] = 0
  BY DEF SmartHome, generation_percentage
<1>2. \A p \in Periods : SmartHome(h).load_profile[p] * DEMAND_PER_HOUSEHOLD_PER_DAY \in Nat
  BY DEF SmartHome
<1>3. Derived(h).generation_to_self =
        [p \in Periods |-> MinOf(SmartHome(h).load_profile[p] * DEMAND_PER_HOUSEHOLD_PER_DAY,
                                 SmartHome(h).generation_profile[p] * GENERATION_PER_HOUSEHOLD_PER_DAY)]
  BY Zenon DEF Derived
<1>4. Derived(h).generation_to_grid =
        [p \in Periods |-> SmartHome(h).generation_profile[p] * GENERATION_PER_HOUSEHOLD_PER_DAY
                           - Derived(h).generation_to_self[p]]
  BY Zenon DEF Derived
<1>5. Derived(h).generation_to_self = [p \in Periods |-> 0]
  BY <1>1, <1>2, <1>3 DEF MinOf
<1>6. \A p \in Periods : SmartHome(h).generation_profile[p] * GENERATION_PER_HOUSEHOLD_PER_DAY
                          - Derived(h).generation_to_self[p] = 0
  BY <1>1, <1>5
<1>. QED  BY <1>4, <1>5, <1>6

THEOREM NoPvInit == AggInit => NoPvIInv
BY HouseholdsAssumption
   DEF AggInit, LoopStarted, Profiles, NoPvIInv, NoPvHouseholdGeneratesNothing

THEOREM NoPvNext == NoPvIInv /\ [AggNext]_aggVars => NoPvIInv'
<1>. SUFFICES ASSUME NoPvIInv, [AggNext]_aggVars PROVE NoPvIInv'
  OBVIOUS
<1>1. CASE AggregateHousehold
  <2>. DEFINE h == processed + 1
              d == Derived(h)
  <2>1. /\ processed < NUMBER_OF_HOUSEHOLDS
        /\ households' = [k \in 1..h |-> IF k = h THEN d ELSE households[k]]
        /\ processed' = h
        /\ load_profile' = load_profile
    BY <1>1 DEF AggregateHousehold
  <2>2. ~include_pv_generation_profile(h) =>
          /\ d.generation_to_grid = [p \in Periods |-> 0]
          /\ d.generation_to_self = [p \in Periods |-> 0]
    BY DerivedWithoutPv DEF NoPvIInv
  <2>3. /\ load_profile' \in [Periods -> Nat]
        /\ processed' \in 0..NUMBER_OF_HOUSEHOLDS
    BY <2>1, HouseholdsAssumption DEF NoPvIInv
  <2>4. ASSUME NEW k \in 1..h, ~include_pv_generation_profile(k), NEW p \in Periods
        PROVE  /\ households'[k].generation_to_grid[p] = 0
               /\ households'[k].generation_to_self[p] = 0
    <3>1. processed \in Nat
      BY HouseholdsAssumption DEF NoPvIInv
    <3>2. CASE k = h
      BY <2>1, <2>2, <2>4, <3>2
    <3>3. CASE k # h
      <4>1. k \in 1..processed /\ households'[k] = households[k]
        BY <2>1, <3>1, <3>3
      <4>. QED  BY <2>4, <4>1 DEF NoPvIInv, NoPvHouseholdGeneratesNothing
    <3>. QED  BY <3>2, <3>3
  <2>5. NoPvHouseholdGeneratesNothing'
    BY <2>1, <2>4 DEF NoPvHouseholdGeneratesNothing
  <2>. QED  BY <2>3, <2>5 DEF NoPvIInv
<1>2. CASE UNCHANGED aggVars
  BY <1>2 DEF aggVars, NoPvIInv, NoPvHouseholdGeneratesNothing
<1>. QED  BY <1>1, <1>2 DEF AggNext

(***************************************************************************)
(* A household configured without PV contributes nothing to the community  *)
(* export series and self-consumes nothing, at every iteration of the      *)
(* loop, for every number of households, PV ratio, budget and profile.     *)
(***************************************************************************)
THEOREM NoPvHouseholdGeneratesNothingThm == AggSpec => []NoPvHouseholdGeneratesNothing
<1>1. NoPvIInv => NoPvHouseholdGeneratesNothing
  BY DEF NoPvIInv
<1>. QED  BY <1>1, NoPvInit, NoPvNext, PTL DEF AggSpec

-----------------------------------------------------------------------------
(***************************************************************************)
(* AggTypeOK and AggregateIsElementwiseSum.  Neither is inductive as it    *)
(* stands: the sums are finite only for bounded terms, so AggIInv bounds   *)
(* every household series by what a profile share can give (a share is at *)
(* most PctTotal), and it carries the sum equation along with the types.   *)
(***************************************************************************)
CMax == PctTotal * DEMAND_PER_HOUSEHOLD_PER_DAY
GMax == PctTotal * GENERATION_PER_HOUSEHOLD_PER_DAY

HouseholdFields ==
  [generation_coverage   : [num : Nat, den : Nat],
   consumption_from_grid : [Periods -> 0..CMax],
   generation_to_grid    : [Periods -> 0..GMax],
   generation_to_self    : [Periods -> 0..GMax]]

AggIInv ==
  /\ load_profile \in Profiles
  /\ generation_profile \in Profiles
  /\ processed \in 0..NUMBER_OF_HOUSEHOLDS
  /\ households \in [1..processed -> HouseholdFields]
  /\ energy_consumption_from_grid_aggregated_timelots \in Series
  /\ energy_generation_to_grid_aggregated_timelots \in Series
  /\ AggregateIsElementwiseSum

(***************************************************************************)
(* The fields one iteration writes are bounded by the budgets: demand and  *)
(* generation are a share of at most PctTotal times the budget, and the    *)
(* self-consumed part is their minimum.                                    *)
(***************************************************************************)
LEMMA DerivedBounded ==
  ASSUME load_profile \in Profiles, generation_profile \in Profiles, NEW h
  PROVE  Derived(h) \in HouseholdFields
<1>. USE BudgetAssumption, PctTotalAssumption
<1>. DEFINE c  == [p \in Periods |-> SmartHome(h).load_profile[p] * DEMAND_PER_HOUSEHOLD_PER_DAY]
            g  == [p \in Periods |-> SmartHome(h).generation_profile[p] * GENERATION_PER_HOUSEHOLD_PER_DAY]
            gc == [p \in Periods |-> MinOf(c[p], g[p])]
<1>1. Derived(h) =
        [generation_coverage   |-> [num |-> SumSeries(gc, T), den |-> SumSeries(c, T)],
         consumption_from_grid |-> [p \in Periods |-> c[p] - gc[p]],
         generation_to_grid    |-> [p \in Periods |-> g[p] - gc[p]],
         generation_to_self    |-> gc]
  BY Zenon DEF Derived
<1>2. \A p \in Periods : SmartHome(h).load_profile[p] \in 0..PctTotal
                        /\ SmartHome(h).generation_profile[p] \in 0..PctTotal
  BY DEF SmartHome, generation_percentage, Profiles
<1>3. \A p \in Periods : c[p] \in 0..CMax /\ g[p] \in 0..GMax
  <2>. SUFFICES ASSUME NEW p \in Periods PROVE c[p] \in 0..CMax /\ g[p] \in 0..GMax
    OBVIOUS
  <2>1. PICK a \in 0..PctTotal : a = SmartHome(h).load_profile[p]
    BY <1>2
  <2>2. PICK b \in 0..PctTotal : b = SmartHome(h).generation_profile[p]
    BY <1>2
  <2>3. a * DEMAND_PER_HOUSEHOLD_PER_DAY \in 0..CMax
    BY DEF CMax
  <2>4. b * GENERATION_PER_HOUSEHOLD_PER_DAY \in 0..GMax
    BY DEF GMax
  <2>. QED  BY <2>1, <2>2, <2>3, <2>4
<1>4. \A p \in Periods : /\ gc[p] \in 0..GMax
                        /\ gc[p] <= c[p] /\ gc[p] <= g[p]
  BY <1>3 DEF MinOf, CMax, GMax
<1>5. /\ SumSeries(gc, T) \in Nat
      /\ SumSeries(c, T) \in Nat
  <2>1. T \in Nat /\ CMax \in Nat /\ GMax \in Nat
    BY AggPeriodsAssumption DEF CMax, GMax
  <2>2. \A k \in 1..T : gc[k] \in 0..GMax
    BY <1>4 DEF Periods
  <2>3. \A k \in 1..T : c[k] \in 0..CMax
    BY <1>3 DEF Periods
  <2>. QED  BY <2>1, <2>2, <2>3, SumSeriesNat
<1>6. /\ [p \in Periods |-> c[p] - gc[p]] \in [Periods -> 0..CMax]
      /\ [p \in Periods |-> g[p] - gc[p]] \in [Periods -> 0..GMax]
      /\ gc \in [Periods -> 0..GMax]
  BY <1>3, <1>4 DEF CMax, GMax
<1>. QED  BY <1>1, <1>5, <1>6 DEF HouseholdFields


THEOREM AggIInvInit == AggInit => AggIInv
<1>. SUFFICES ASSUME AggInit PROVE AggIInv
  OBVIOUS
<1>1. /\ load_profile \in Profiles /\ generation_profile \in Profiles
      /\ processed = 0 /\ households = << >>
      /\ energy_consumption_from_grid_aggregated_timelots = [p \in Periods |-> 0]
      /\ energy_generation_to_grid_aggregated_timelots = [p \in Periods |-> 0]
  BY DEF AggInit, LoopStarted
<1>2. households \in [1..processed -> HouseholdFields]
  BY <1>1
<1>3. AggregateIsElementwiseSum
  BY <1>1, SumSeriesZero DEF AggregateIsElementwiseSum
<1>. QED  BY <1>1, <1>2, <1>3, HouseholdsAssumption DEF AggIInv, Series

THEOREM AggIInvNext == AggIInv /\ [AggNext]_aggVars => AggIInv'
<1>. SUFFICES ASSUME AggIInv, [AggNext]_aggVars PROVE AggIInv'
  OBVIOUS
<1>. USE HouseholdsAssumption
<1>1. CASE AggregateHousehold
  <2>. DEFINE h  == processed + 1
              d  == Derived(h)
              ec == energy_consumption_from_grid_aggregated_timelots
              eg == energy_generation_to_grid_aggregated_timelots
  <2>1. /\ processed < NUMBER_OF_HOUSEHOLDS
        /\ households' = [k \in 1..h |-> IF k = h THEN d ELSE households[k]]
        /\ ec' = [p \in Periods |-> ec[p] + d.consumption_from_grid[p]]
        /\ eg' = [p \in Periods |-> eg[p] + d.generation_to_grid[p]]
        /\ processed' = h
        /\ UNCHANGED <<load_profile, generation_profile>>
    BY <1>1 DEF AggregateHousehold
  <2>2. processed \in Nat /\ processed' \in 0..NUMBER_OF_HOUSEHOLDS
    BY <2>1 DEF AggIInv
  <2>3. d \in HouseholdFields
    BY DerivedBounded DEF AggIInv
  <2>4. households' \in [1..processed' -> HouseholdFields]
    BY <2>1, <2>2, <2>3 DEF AggIInv
  <2>5. ec' \in Series /\ eg' \in Series
    BY <2>1, <2>3 DEF AggIInv, Series, HouseholdFields, CMax, GMax
  <2>6. ASSUME NEW p \in Periods
        PROVE  /\ ec'[p] = SumSeries([k \in 1..processed' |->
                                        households'[k].consumption_from_grid[p]], processed')
               /\ eg'[p] = SumSeries([k \in 1..processed' |->
                                        households'[k].generation_to_grid[p]], processed')
    <3>. DEFINE C1 == [k \in 1..h |-> households'[k].consumption_from_grid[p]]
                C0 == [k \in 1..processed |-> households[k].consumption_from_grid[p]]
                G1 == [k \in 1..h |-> households'[k].generation_to_grid[p]]
                G0 == [k \in 1..processed |-> households[k].generation_to_grid[p]]
    <3>1. CMax \in Nat /\ GMax \in Nat
      BY BudgetAssumption, PctTotalAssumption DEF CMax, GMax
    <3>2. /\ \A k \in 1..h : C1[k] \in 0..CMax
          /\ \A k \in 1..h : G1[k] \in 0..GMax
      BY <2>2, <2>4, <2>1 DEF HouseholdFields
    <3>3. /\ \A k \in 1..processed : C1[k] = C0[k]
          /\ \A k \in 1..processed : G1[k] = G0[k]
      BY <2>1, <2>2
    <3>4. /\ C1[h] = d.consumption_from_grid[p]
          /\ G1[h] = d.generation_to_grid[p]
      BY <2>1, <2>2
    <3>5. /\ SumSeries(C1, h) = SumSeries(C1, processed) + C1[h]
          /\ SumSeries(G1, h) = SumSeries(G1, processed) + G1[h]
      BY <2>2, <3>1, <3>2, SumSeriesStep
    <3>6. /\ SumSeries(C1, processed) = SumSeries(C0, processed)
          /\ SumSeries(G1, processed) = SumSeries(G0, processed)
      BY <2>2, <3>3, SumSeriesPrefix
    <3>7. /\ ec[p] = SumSeries(C0, processed)
          /\ eg[p] = SumSeries(G0, processed)
      BY DEF AggIInv, AggregateIsElementwiseSum
    <3>8. /\ ec'[p] = ec[p] + d.consumption_from_grid[p]
          /\ eg'[p] = eg[p] + d.generation_to_grid[p]
      BY <2>1
    <3>. QED  BY <2>1, <3>4, <3>5, <3>6, <3>7, <3>8
  <2>7. AggregateIsElementwiseSum'
    BY <2>6 DEF AggregateIsElementwiseSum
  <2>. QED  BY <2>1, <2>2, <2>4, <2>5, <2>7 DEF AggIInv
<1>2. CASE UNCHANGED aggVars
  BY <1>2 DEF aggVars, AggIInv, AggregateIsElementwiseSum
<1>. QED  BY <1>1, <1>2 DEF AggNext

(***************************************************************************)
(* The loop keeps every variable of the type AggTypeOK gives it, for every *)
(* number of households, periods, budget and profile: the derived series  *)
(* are natural numbers and the coverage ratio a pair of naturals.          *)
(***************************************************************************)
THEOREM AggTypeCorrect == AggSpec => []AggTypeOK
<1>1. AggIInv => AggTypeOK
  <2>. SUFFICES ASSUME AggIInv PROVE AggTypeOK
    OBVIOUS
  <2>1. HouseholdFields \subseteq
          [generation_coverage : [num : Nat, den : Nat],
           consumption_from_grid : Series,
           generation_to_grid : Series,
           generation_to_self : Series]
    BY DEF HouseholdFields, Series
  <2>. QED  BY <2>1 DEF AggIInv, AggTypeOK
<1>. QED  BY <1>1, AggIInvInit, AggIInvNext, PTL DEF AggSpec

(***************************************************************************)
(* At every iteration of the household loop each community series is the  *)
(* elementwise sum of the processed households' residual demand and        *)
(* exportable generation (run_simulation, lines 201-207), for every value  *)
(* of the constants.                                                       *)
(***************************************************************************)
THEOREM AggregateIsElementwiseSumThm == AggSpec => []AggregateIsElementwiseSum
<1>1. AggIInv => AggregateIsElementwiseSum
  BY DEF AggIInv
<1>. QED  BY <1>1, AggIInvInit, AggIInvNext, PTL DEF AggSpec

=============================================================================
