------------------------- MODULE DispatchCostProofs -------------------------
(***************************************************************************)
(* Proofs about the objective of the dispatch model: the sums over the     *)
(* periods (SumOfSeq) and what they give for the cost of a schedule.       *)
(*                                                                         *)
(* A sum is the size of the tagged units of the positive terms less that   *)
(* of the negative terms.  Both unions are finite for a finite sequence of *)
(* integers, and appending a term adds its units on one side only, so the  *)
(* sum grows by the term: the facts below are about sets and cardinality,  *)
(* with no induction over the length.                                      *)
(***************************************************************************)
EXTENDS BatteryDispatchProofs, FiniteSetTheorems

PosUnits(s) == UNION {{k} \X (1..s[k]) : k \in DOMAIN s}
NegUnits(s) == UNION {{k} \X (1..(-s[k])) : k \in DOMAIN s}

\* The units of one term: x of them if x is positive, none otherwise.
LEMMA BlockCount ==
  ASSUME NEW k, NEW x \in Int
  PROVE  /\ IsFiniteSet({k} \X (1..x))
         /\ Cardinality({k} \X (1..x)) = IF x > 0 THEN x ELSE 0
<1>1. IsFiniteSet({k}) /\ Cardinality({k}) = 1
  BY FS_Singleton
<1>2. IsFiniteSet(1..x) /\ Cardinality(1..x) = IF 1 > x THEN 0 ELSE x - 1 + 1
  BY FS_Interval
<1>3. IsFiniteSet({k} \X (1..x))
      /\ Cardinality({k} \X (1..x)) = Cardinality({k}) * Cardinality(1..x)
  BY <1>1, <1>2, FS_Product
<1>. QED  BY <1>1, <1>2, <1>3

\* The units of a finite integer sequence form finite sets: a finite union
\* of finite blocks, the family being the image of the index set.
LEMMA UnitsFinite ==
  ASSUME NEW n \in Nat, NEW s \in [1..n -> Int]
  PROVE  IsFiniteSet(PosUnits(s)) /\ IsFiniteSet(NegUnits(s))
<1>1. IsFiniteSet(1..n)
  BY FS_Interval
<1>2. IsFiniteSet({{k} \X (1..s[k]) : k \in 1..n})
  <2>. DEFINE F == {{k} \X (1..s[k]) : k \in 1..n}
              g == [k \in 1..n |-> {k} \X (1..s[k])]
  <2>1. g \in Surjection(1..n, F)
    BY DEF Surjection
  <2>. QED  BY <1>1, <2>1, FS_Surjection
<1>3. IsFiniteSet({{k} \X (1..(-s[k])) : k \in 1..n})
  <2>. DEFINE F == {{k} \X (1..(-s[k])) : k \in 1..n}
              g == [k \in 1..n |-> {k} \X (1..(-s[k]))]
  <2>1. g \in Surjection(1..n, F)
    BY DEF Surjection
  <2>. QED  BY <1>1, <2>1, FS_Surjection
<1>4. \A k \in 1..n : IsFiniteSet({k} \X (1..s[k])) /\ IsFiniteSet({k} \X (1..(-s[k])))
  <2>. SUFFICES ASSUME NEW k \in 1..n
                PROVE  IsFiniteSet({k} \X (1..s[k])) /\ IsFiniteSet({k} \X (1..(-s[k])))
    OBVIOUS
  <2>1. s[k] \in Int /\ -s[k] \in Int
    OBVIOUS
  <2>. QED  BY <2>1, BlockCount
<1>5. IsFiniteSet(UNION {{k} \X (1..s[k]) : k \in 1..n})
  BY <1>2, <1>4, FS_UNION
<1>6. IsFiniteSet(UNION {{k} \X (1..(-s[k])) : k \in 1..n})
  BY <1>3, <1>4, FS_UNION
<1>. QED  BY <1>5, <1>6 DEF PosUnits, NegUnits

\* The sum of no term.
LEMMA SumOfSeqEmpty ==
  ASSUME NEW s, DOMAIN s = {}
  PROVE  SumOfSeq(s) = 0
<1>1. /\ {{k} \X (1..s[k]) : k \in DOMAIN s} = {}
      /\ {{k} \X (1..(-s[k])) : k \in DOMAIN s} = {}
  OBVIOUS
<1>2. UNION {{k} \X (1..s[k]) : k \in DOMAIN s} = {}
      /\ UNION {{k} \X (1..(-s[k])) : k \in DOMAIN s} = {}
  BY <1>1
<1>. QED  BY <1>2, FS_EmptySet DEF SumOfSeq

\* Appending a term adds it to the sum.
LEMMA SumOfSeqAppend ==
  ASSUME NEW n \in Nat, NEW s \in [1..n+1 -> Int]
  PROVE  SumOfSeq(s) = SumOfSeq([k \in 1..n |-> s[k]]) + s[n+1]
<1>. DEFINE t  == [k \in 1..n |-> s[k]]
            x  == s[n+1]
            BP == {n+1} \X (1..x)
            BN == {n+1} \X (1..(-x))
<1>1. t \in [1..n -> Int] /\ x \in Int
  OBVIOUS
<1>2. /\ PosUnits(s) = PosUnits(t) \cup BP
      /\ NegUnits(s) = NegUnits(t) \cup BN
  BY DEF PosUnits, NegUnits
<1>3. PosUnits(t) \cap BP = {} /\ NegUnits(t) \cap BN = {}
  BY DEF PosUnits, NegUnits
<1>4. IsFiniteSet(PosUnits(t)) /\ IsFiniteSet(NegUnits(t))
  BY <1>1, UnitsFinite
<1>5. /\ IsFiniteSet(BP) /\ Cardinality(BP) = IF x > 0 THEN x ELSE 0
      /\ IsFiniteSet(BN) /\ Cardinality(BN) = IF -x > 0 THEN -x ELSE 0
  <2>1. IsFiniteSet(BP) /\ Cardinality(BP) = IF x > 0 THEN x ELSE 0
    BY <1>1, BlockCount
  <2>2. -x \in Int
    BY <1>1
  <2>3. IsFiniteSet(BN) /\ Cardinality(BN) = IF -x > 0 THEN -x ELSE 0
    BY <2>2, BlockCount
  <2>. QED  BY <2>1, <2>3
<1>6. /\ Cardinality(PosUnits(t)) \in Nat
      /\ Cardinality(NegUnits(t)) \in Nat
  BY <1>4, FS_CardinalityType
<1>7. /\ Cardinality(PosUnits(t) \cup BP) = Cardinality(PosUnits(t)) + Cardinality(BP)
      /\ Cardinality(NegUnits(t) \cup BN) = Cardinality(NegUnits(t)) + Cardinality(BN)
  <2>1. Cardinality(PosUnits(t) \cup BP) =
          Cardinality(PosUnits(t)) + Cardinality(BP) - Cardinality(PosUnits(t) \cap BP)
    BY <1>4, <1>5, FS_Union
  <2>2. Cardinality(NegUnits(t) \cup BN) =
          Cardinality(NegUnits(t)) + Cardinality(BN) - Cardinality(NegUnits(t) \cap BN)
    BY <1>4, <1>5, FS_Union
  <2>3. Cardinality(PosUnits(t) \cap BP) = 0 /\ Cardinality(NegUnits(t) \cap BN) = 0
    BY <1>3, FS_EmptySet
  <2>. QED  BY <1>5, <1>6, <2>1, <2>2, <2>3
<1>8. /\ SumOfSeq(s) = Cardinality(PosUnits(s)) - Cardinality(NegUnits(s))
      /\ SumOfSeq(t) = Cardinality(PosUnits(t)) - Cardinality(NegUnits(t))
  BY DEF SumOfSeq, PosUnits, NegUnits
<1>9. /\ Cardinality(PosUnits(s)) = Cardinality(PosUnits(t) \cup BP)
      /\ Cardinality(NegUnits(s)) = Cardinality(NegUnits(t) \cup BN)
  BY <1>2, Zenon
<1>. QED  BY <1>1, <1>5, <1>6, <1>7, <1>8, <1>9



\* A finite sum of integers is an integer.
LEMMA SumOfSeqInt ==
  ASSUME NEW n \in Nat, NEW s \in [1..n -> Int]
  PROVE  SumOfSeq(s) \in Int
<1>1. Cardinality(PosUnits(s)) \in Nat /\ Cardinality(NegUnits(s)) \in Nat
  BY UnitsFinite, FS_CardinalityType
<1>. QED  BY <1>1 DEF SumOfSeq, PosUnits, NegUnits

-----------------------------------------------------------------------------
(***************************************************************************)
(* FlatPriceNoArbitrage.  It speaks of complete schedules only; for a      *)
(* partial one, under its hypotheses (flat price P, no generation, an      *)
(* empty battery at the start), the cost of the periods assigned so far is *)
(* their baseline plus P times the energy left in the battery: each period *)
(* buys its demand and its grid charge and saves its discharge, all at P, *)
(* and the recurrence turns charge less discharge into stored energy.     *)
(***************************************************************************)
FlatNoPv ==
  /\ INITIAL_BATTERY_SOC = 0
  /\ \A i \in Periods : energy_generation[i] = 0 /\ grid_prices[i] = grid_prices[1]

\* The objective's term of period i, and the baseline's.
CostTerm(m, i) ==
  get_energy_consumption_from_grid_in_period(m, i) * grid_prices[i]
    + get_energy_consumption_from_generation_in_period(m, i) * pv_prices[i]
BaseTerm(i) == energy_consumption[i] * grid_prices[i]

CostIInv ==
  /\ IInv
  /\ FlatNoPv =>
       SumOfSeq([k \in 1..Len(model) |-> CostTerm(model, k)])
         = SumOfSeq([k \in 1..Len(model) |-> BaseTerm(k)])
           + grid_prices[1] * StoredEnergy


\* The terms are integers wherever the assignment is in bounds.
LEMMA TermsInt ==
  ASSUME NEW m, NEW i \in Periods, m[i] \in PeriodVars
  PROVE  CostTerm(m, i) \in Int /\ BaseTerm(i) \in Int
BY SeriesAssumption, PvBoundAssumption, CapacityAssumption, PowerAssumption
   DEF CostTerm, BaseTerm, PeriodVars, get_energy_consumption_from_grid_in_period,
       get_energy_consumption_from_generation_in_period

\* A period of a flat, generation-free configuration costs its baseline plus
\* P times what it adds to the battery.
LEMMA FlatPeriodCost ==
  ASSUME FlatNoPv, NEW m, NEW i \in Periods, m[i] \in PeriodVars,
         generation_constraint(m, i)
  PROVE  CostTerm(m, i) = BaseTerm(i)
                          + grid_prices[1] * (m[i].grid_charge_power + m[i].pv_charge_power
                                              - m[i].discharge_power)
<1>1. m[i].pv_charge_power = 0 /\ m[i].pv_energy_consumption = 0
  BY DEF FlatNoPv, generation_constraint, PeriodVars
<1>2. grid_prices[i] = grid_prices[1]
  BY DEF FlatNoPv
<1>. QED  BY <1>1, <1>2, SeriesAssumption, PowerAssumption, PvBoundAssumption
          DEF CostTerm, BaseTerm, PeriodVars, get_energy_consumption_from_grid_in_period,
              get_energy_consumption_from_generation_in_period

THEOREM CostInit == Init => CostIInv
<1>. SUFFICES ASSUME Init PROVE CostIInv
  OBVIOUS
<1>1. IInv
  BY InitIInv
<1>2. Len(model) = 0 /\ StoredEnergy = INITIAL_BATTERY_SOC
  BY DEF Init, StoredEnergy
<1>3. /\ SumOfSeq([k \in 1..Len(model) |-> CostTerm(model, k)]) = 0
      /\ SumOfSeq([k \in 1..Len(model) |-> BaseTerm(k)]) = 0
  BY <1>2, SumOfSeqEmpty
<1>4. FlatNoPv => grid_prices[1] * StoredEnergy = 0
  BY <1>2, SeriesAssumption, PeriodsAssumption DEF FlatNoPv, Periods
<1>. QED  BY <1>1, <1>3, <1>4 DEF CostIInv


THEOREM CostNext == CostIInv /\ [Next]_vars => CostIInv'
<1>. SUFFICES ASSUME CostIInv, [Next]_vars PROVE CostIInv'
  OBVIOUS
<1>. USE PeriodsAssumption
<1>1. IInv'
  BY NextIInv DEF CostIInv
<1>2. TypeOK
  BY DEF CostIInv, IInv
<1>3. CASE AssignPeriod
  <2>. DEFINE n == Len(model)
              P == grid_prices[1]
  <2>1. PICK v \in PeriodVars :
              /\ PeriodConstraints(Append(model, v), n + 1)
              /\ model' = Append(model, v)
    BY <1>3 DEF AssignPeriod
  <2>2. /\ model' \in Seq(PeriodVars)
        /\ Len(model') = n + 1
        /\ \A i \in 1..n : model'[i] = model[i]
        /\ model'[n + 1] = v
    BY <1>2, <2>1, AppendLemma DEF TypeOK
  <2>3. n \in Nat /\ n + 1 \in Periods /\ 1..n \subseteq Periods
    BY <1>2, <1>3 DEF AssignPeriod, TypeOK, Periods
  <2>4. SUFFICES ASSUME FlatNoPv
                 PROVE  SumOfSeq([k \in 1..Len(model') |-> CostTerm(model', k)])
                          = SumOfSeq([k \in 1..Len(model') |-> BaseTerm(k)])
                            + grid_prices[1] * StoredEnergy'
    BY <1>1 DEF CostIInv
  <2>5. v.battery_soc = StoredEnergy
    BY <1>2, <2>1, SocIsStoredEnergy DEF PeriodConstraints
  <2>6. StoredEnergy' = v.battery_soc + v.grid_charge_power + v.pv_charge_power
                        - v.discharge_power
    <3>1. model' # << >>
      BY <2>2
    <3>. QED  BY <2>2, <3>1 DEF StoredEnergy, EnergyAfter
  <2>7. CostTerm(model', n + 1) =
          BaseTerm(n + 1) + P * (v.grid_charge_power + v.pv_charge_power - v.discharge_power)
    BY <2>1, <2>2, <2>3, <2>4, FlatPeriodCost DEF PeriodConstraints
  <2>8. \A k \in 1..n : CostTerm(model', k) = CostTerm(model, k)
    BY <2>2 DEF CostTerm, get_energy_consumption_from_grid_in_period,
                get_energy_consumption_from_generation_in_period
  <2>9. \A k \in 1..n+1 : model'[k] \in PeriodVars
    BY <2>2
  <2>10. SumOfSeq([k \in 1..n+1 |-> CostTerm(model', k)])
           = SumOfSeq([k \in 1..n |-> CostTerm(model, k)]) + CostTerm(model', n + 1)
    <3>. DEFINE S1 == [k \in 1..n+1 |-> CostTerm(model', k)]
    <3>1. S1 \in [1..n+1 -> Int]
      BY <2>3, <2>9, TermsInt
    <3>2. SumOfSeq(S1) = SumOfSeq([k \in 1..n |-> S1[k]]) + S1[n+1]
      BY <2>3, <3>1, SumOfSeqAppend
    <3>3. [k \in 1..n |-> S1[k]] = [k \in 1..n |-> CostTerm(model, k)]
      BY <2>8
    <3>4. S1[n+1] = CostTerm(model', n + 1)
      BY <2>3
    <3>5. SumOfSeq([k \in 1..n |-> S1[k]]) = SumOfSeq([k \in 1..n |-> CostTerm(model, k)])
      BY <3>3, Zenon
    <3>. QED  BY <3>2, <3>4, <3>5
  <2>11. SumOfSeq([k \in 1..n+1 |-> BaseTerm(k)])
           = SumOfSeq([k \in 1..n |-> BaseTerm(k)]) + BaseTerm(n + 1)
    <3>. DEFINE S1 == [k \in 1..n+1 |-> BaseTerm(k)]
    <3>1. S1 \in [1..n+1 -> Int]
      <4>1. \A k \in 1..n+1 : k \in Periods
        BY <2>3 DEF Periods
      <4>2. \A k \in Periods : BaseTerm(k) \in Int
        BY SeriesAssumption DEF BaseTerm
      <4>. QED  BY <4>1, <4>2
    <3>2. SumOfSeq(S1) = SumOfSeq([k \in 1..n |-> S1[k]]) + S1[n+1]
      BY <2>3, <3>1, SumOfSeqAppend
    <3>3. [k \in 1..n |-> S1[k]] = [k \in 1..n |-> BaseTerm(k)]
      OBVIOUS
    <3>4. S1[n+1] = BaseTerm(n + 1)
      BY <2>3
    <3>5. SumOfSeq([k \in 1..n |-> S1[k]]) = SumOfSeq([k \in 1..n |-> BaseTerm(k)])
      BY <3>3, Zenon
    <3>. QED  BY <3>2, <3>4, <3>5
  <2>12. SumOfSeq([k \in 1..n |-> CostTerm(model, k)])
           = SumOfSeq([k \in 1..n |-> BaseTerm(k)]) + P * StoredEnergy
    BY <2>4 DEF CostIInv
  <2>13. /\ SumOfSeq([k \in 1..n |-> BaseTerm(k)]) \in Int
         /\ BaseTerm(n + 1) \in Int
         /\ P \in Int /\ StoredEnergy \in Int
    <3>1. \A k \in Periods : BaseTerm(k) \in Int
      BY SeriesAssumption DEF BaseTerm
    <3>2. [k \in 1..n |-> BaseTerm(k)] \in [1..n -> Int]
      BY <2>3, <3>1
    <3>3. SumOfSeq([k \in 1..n |-> BaseTerm(k)]) \in Int
      BY <2>3, <3>2, SumOfSeqInt
    <3>4. 1 \in Periods
      BY DEF Periods
    <3>5. StoredEnergy \in Int
      BY <2>5, CapacityAssumption DEF PeriodVars
    <3>. QED  BY <2>3, <3>1, <3>3, <3>4, <3>5, SeriesAssumption
  <2>14. DEFINE X == v.grid_charge_power + v.pv_charge_power - v.discharge_power
  <2>15. X \in Int /\ StoredEnergy' = StoredEnergy + X
    BY <2>5, <2>6, PowerAssumption DEF PeriodVars
  <2>16. P * StoredEnergy' = P * StoredEnergy + P * X
    BY <2>13, <2>15
  <2>17. SumOfSeq([k \in 1..n+1 |-> CostTerm(model', k)])
           = SumOfSeq([k \in 1..n+1 |-> BaseTerm(k)]) + P * StoredEnergy'
    BY <2>7, <2>10, <2>11, <2>12, <2>13, <2>15, <2>16
  <2>. QED  BY <2>2, <2>17
<1>4. CASE CompleteAssignment
  BY <1>1, <1>4 DEF CompleteAssignment, CostIInv, StoredEnergy
<1>5. CASE UNCHANGED vars
  BY <1>1, <1>5 DEF vars, CostIInv, StoredEnergy
<1>. QED  BY <1>3, <1>4, <1>5 DEF Next


(***************************************************************************)
(* With one flat grid price, no generation and an empty battery at the     *)
(* start, no schedule the solver may return costs less than buying the     *)
(* whole demand from the grid (spec.md section 8, Scenario A), for every   *)
(* horizon, capacity, power limit, demand and price: the optimum's cost    *)
(* exceeds the baseline by the price of the energy left in the battery.    *)
(***************************************************************************)
THEOREM FlatPriceNoArbitrageThm == Spec => []FlatPriceNoArbitrage
<1>1. CostIInv => FlatPriceNoArbitrage
  <2>. SUFFICES ASSUME CostIInv, solved, FlatNoPv
                PROVE  cost_objective(model) >= get_alternative_cost
    BY DEF FlatPriceNoArbitrage, FlatNoPv
  <2>. USE PeriodsAssumption
  <2>1. Len(model) = T /\ model \in Seq(PeriodVars)
    BY DEF CostIInv, IInv, TypeOK
  <2>2. /\ cost_objective(model) = SumOfSeq([k \in 1..Len(model) |-> CostTerm(model, k)])
        /\ get_alternative_cost = SumOfSeq([k \in 1..T |-> BaseTerm(k)])
    BY DEF cost_objective, get_alternative_cost, SumTo, CostTerm, BaseTerm
  <2>3. SumOfSeq([k \in 1..Len(model) |-> CostTerm(model, k)])
          = SumOfSeq([k \in 1..T |-> BaseTerm(k)]) + grid_prices[1] * StoredEnergy
    BY <2>1 DEF CostIInv
  <2>4. StoredEnergy \in 0..MAX_BATTERY_CAPACITY
    <3>1. model # << >> /\ T \in Assigned
      BY <2>1 DEF Assigned
    <3>. QED  BY <2>1, <3>1 DEF CostIInv, IInv, StoredEnergyWithinCapacity, StoredEnergy
  <2>5. grid_prices[1] \in Nat
    BY SeriesAssumption DEF Periods
  <2>6. SumOfSeq([k \in 1..T |-> BaseTerm(k)]) \in Int
    <3>1. [k \in 1..T |-> BaseTerm(k)] \in [1..T -> Int]
      BY SeriesAssumption DEF BaseTerm, Periods
    <3>. QED  BY <3>1, SumOfSeqInt
  <2>7. grid_prices[1] * StoredEnergy \in Nat
    BY <2>4, <2>5, CapacityAssumption
  <2>8. SumOfSeq([k \in 1..Len(model) |-> CostTerm(model, k)])
          >= SumOfSeq([k \in 1..T |-> BaseTerm(k)])
    BY <2>3, <2>6, <2>7
  <2>. QED  BY <2>2, <2>8
<1>. QED  BY <1>1, CostInit, CostNext, PTL DEF Spec

=============================================================================
