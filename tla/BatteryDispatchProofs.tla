----------------------- MODULE BatteryDispatchProofs -----------------------
(***************************************************************************)
(* Proofs about BatteryDispatch for every value of its constants that the  *)
(* module's assumptions allow.                                             *)
(*                                                                         *)
(* The safety invariants are inductive together with TypeOK: each speaks   *)
(* of every assigned period, an AssignPeriod step leaves the periods       *)
(* already assigned as they were and appends one whose constraint rules    *)
(* hold, and those rules alone give the invariants at the new period.      *)
(***************************************************************************)
EXTENDS BatteryDispatch, TLAPS

\* The inductive invariant: the type invariant and the three safety
\* invariants checked by the run dispatch_safety.
IInv ==
  /\ TypeOK
  /\ NoSimultaneousChargeDischarge
  /\ GridDrawNonNegative
  /\ StoredEnergyWithinCapacity

\* The three safety properties at one period of an assignment.
SafePeriod(m, i) ==
  /\ ~ /\ m[i].grid_charge_power + m[i].pv_charge_power > 0
       /\ m[i].discharge_power > 0
  /\ get_energy_consumption_from_grid_in_period(m, i) >= 0
  /\ EnergyAfter(m, i) \in 0..MAX_BATTERY_CAPACITY

(***************************************************************************)
(* Appending v to s keeps the elements of s and puts v last.               *)
(***************************************************************************)
LEMMA AppendLemma ==
  ASSUME NEW S, NEW s \in Seq(S), NEW v \in S
  PROVE  /\ Append(s, v) \in Seq(S)
         /\ Len(Append(s, v)) = Len(s) + 1
         /\ \A i \in 1..Len(s) : Append(s, v)[i] = s[i]
         /\ Append(s, v)[Len(s) + 1] = v
OBVIOUS

(***************************************************************************)
(* The rules of one period give the three safety properties at it.  The    *)
(* gates with binary states make a positive power force its state to 1;    *)
(* the consumption rule bounds discharge and PV self-consumption by the    *)
(* demand; the headroom and floor rules bound the energy after the period. *)
(***************************************************************************)
LEMMA PeriodLemma ==
  ASSUME NEW m, NEW i \in Periods, m[i] \in PeriodVars,
         PeriodConstraints(m, i)
  PROVE  SafePeriod(m, i)
<1>. USE PowerAssumption, CapacityAssumption, SeriesAssumption
<1>1. ~ /\ m[i].grid_charge_power + m[i].pv_charge_power > 0
        /\ m[i].discharge_power > 0
  BY DEF PeriodConstraints, PeriodVars, charge_power_state_contraint,
         discharge_power_state_contraint, battery_state_constraint
<1>2. get_energy_consumption_from_grid_in_period(m, i) >= 0
  BY DEF PeriodConstraints, PeriodVars, consumption_constraint,
         get_energy_consumption_from_grid_in_period
<1>3. EnergyAfter(m, i) \in 0..MAX_BATTERY_CAPACITY
  BY DEF PeriodConstraints, PeriodVars, max_battery_soc_charge_constraint,
         min_battery_soc_discharge_constraint, EnergyAfter
<1>. QED  BY <1>1, <1>2, <1>3 DEF SafePeriod

\* IInv states SafePeriod at every assigned period.
LEMMA IInvBySafePeriod ==
  ASSUME TypeOK
  PROVE  IInv <=> TypeOK /\ \A i \in Assigned : SafePeriod(model, i)
BY DEF IInv, NoSimultaneousChargeDischarge, GridDrawNonNegative,
       StoredEnergyWithinCapacity, SafePeriod

-----------------------------------------------------------------------------
THEOREM InitIInv == Init => IInv
<1>. SUFFICES ASSUME Init PROVE IInv
  OBVIOUS
<1>1. TypeOK
  <2>1. model \in Seq(PeriodVars) /\ Len(model) <= T
    BY PeriodsAssumption DEF Init
  <2>2. solved = FALSE
    BY DEF Init
  <2>. QED  BY <2>1, <2>2 DEF TypeOK
<1>2. Assigned = {}
  BY DEF Init, Assigned
<1>. QED  BY <1>1, <1>2, IInvBySafePeriod

THEOREM NextIInv == IInv /\ [Next]_vars => IInv'
<1>. SUFFICES ASSUME IInv, [Next]_vars PROVE IInv'
  OBVIOUS
<1>. USE PeriodsAssumption
<1>1. TypeOK
  BY DEF IInv
<1>2. \A i \in Assigned : SafePeriod(model, i)
  BY <1>1, IInvBySafePeriod
<1>3. CASE AssignPeriod
  <2>1. PICK v \in PeriodVars :
              /\ PeriodConstraints(Append(model, v), Len(model) + 1)
              /\ model' = Append(model, v)
    BY <1>3 DEF AssignPeriod
  <2>2. /\ model' \in Seq(PeriodVars)
        /\ Len(model') = Len(model) + 1
        /\ \A i \in 1..Len(model) : model'[i] = model[i]
        /\ model'[Len(model) + 1] = v
    BY <1>1, <2>1, AppendLemma DEF TypeOK
  <2>3. Len(model) + 1 <= T
    BY <1>3, <1>1 DEF AssignPeriod, TypeOK
  <2>4. TypeOK'
    <3>1. solved' = FALSE
      BY <1>3, <1>1 DEF AssignPeriod, TypeOK
    <3>. QED  BY <3>1, <2>2, <2>3 DEF TypeOK
  <2>5. ASSUME NEW i \in 1..Len(model) PROVE SafePeriod(model', i)
    <3>1. SafePeriod(model, i)
      BY <1>2 DEF Assigned
    <3>. QED  BY <3>1, <2>2 DEF SafePeriod, EnergyAfter,
                   get_energy_consumption_from_grid_in_period
  <2>6. SafePeriod(model', Len(model) + 1)
    <3>1. Len(model) + 1 \in Periods
      BY <1>1, <2>3 DEF TypeOK, Periods
    <3>. QED  BY <3>1, <2>1, <2>2, PeriodLemma
  <2>7. \A i \in Assigned' : SafePeriod(model', i)
    <3>1. Assigned' = 1..Len(model) \cup {Len(model) + 1}
      BY <1>1, <2>2 DEF Assigned, TypeOK
    <3>. QED  BY <3>1, <2>5, <2>6
  <2>. QED  BY <2>4, <2>7 DEF IInv, NoSimultaneousChargeDischarge,
                GridDrawNonNegative, StoredEnergyWithinCapacity, SafePeriod
<1>4. CASE CompleteAssignment
  <2>1. TypeOK'
    BY <1>1, <1>4 DEF CompleteAssignment, TypeOK
  <2>2. \A i \in Assigned' : SafePeriod(model', i)
    BY <1>2, <1>4 DEF CompleteAssignment, Assigned
  <2>. QED  BY <2>1, <2>2 DEF IInv, NoSimultaneousChargeDischarge,
                GridDrawNonNegative, StoredEnergyWithinCapacity, SafePeriod
<1>5. CASE UNCHANGED vars
  BY <1>5 DEF IInv, vars, TypeOK, NoSimultaneousChargeDischarge,
     GridDrawNonNegative, StoredEnergyWithinCapacity, Assigned, EnergyAfter,
     get_energy_consumption_from_grid_in_period
<1>. QED  BY <1>3, <1>4, <1>5 DEF Next

(***************************************************************************)
(* Every schedule the solver may return, for every configuration and       *)
(* input series the assumptions admit, never charges and discharges in the *)
(* same period, never feeds the grid, and keeps the battery's energy       *)
(* between empty and full after every period, the last one included.      *)
(***************************************************************************)
THEOREM DispatchSafety ==
  Spec => [](/\ TypeOK
             /\ NoSimultaneousChargeDischarge
             /\ GridDrawNonNegative
             /\ StoredEnergyWithinCapacity)
<1>1. IInv => /\ TypeOK
              /\ NoSimultaneousChargeDischarge
              /\ GridDrawNonNegative
              /\ StoredEnergyWithinCapacity
  BY DEF IInv
<1>. QED  BY InitIInv, NextIInv, <1>1, PTL DEF Spec

(***************************************************************************)
(* The solver never returns a schedule that charges and discharges the     *)
(* battery in the same period (simulation.py lines 59-73).                 *)
(***************************************************************************)
THEOREM NoSimultaneousChargeDischargeThm == Spec => []NoSimultaneousChargeDischarge
BY DispatchSafety, PTL

(***************************************************************************)
(* The solver never returns a schedule with a negative grid draw, the      *)
(* consumption_from_grid of the report (simulation.py lines 52-56).        *)
(***************************************************************************)
THEOREM GridDrawNonNegativeThm == Spec => []GridDrawNonNegative
BY DispatchSafety, PTL

(***************************************************************************)
(* The assignment is always a sequence of in-bounds period variables of    *)
(* length at most T, complete whenever the solver reports optimal.         *)
(***************************************************************************)
THEOREM TypeCorrectness == Spec => []TypeOK
BY DispatchSafety, PTL

-----------------------------------------------------------------------------
(***************************************************************************)
(* Refinement of the ideal battery.  A step that assigns period k + 1      *)
(* plays one period of the battery: its battery_soc is, by the state-of-   *)
(* charge recurrence, the energy the abstract battery holds, and the       *)
(* period's safety (SafePeriod: never charging and discharging at once,    *)
(* energy after it within capacity) with the power bounds makes the step a *)
(* Charge, a Discharge or a Hold.  Completing the assignment is Finish.    *)
(***************************************************************************)

\* The battery_soc of the period appended is the energy stored before it.
LEMMA SocIsStoredEnergy ==
  ASSUME TypeOK, NEW v \in PeriodVars,
         battery_soc_constraint(Append(model, v), Len(model) + 1)
  PROVE  v.battery_soc = StoredEnergy
<1>1. CASE model = << >>
  BY <1>1 DEF battery_soc_constraint, StoredEnergy
<1>2. CASE model # << >>
  <2>1. Len(model) \in 1..T /\ Len(model) + 1 # 1
    BY <1>2 DEF TypeOK
  <2>2. Append(model, v)[Len(model)] = model[Len(model)]
        /\ Append(model, v)[Len(model) + 1] = v
    BY <2>1, AppendLemma DEF TypeOK
  <2>. QED  BY <1>2, <2>1, <2>2 DEF battery_soc_constraint, StoredEnergy, EnergyAfter
<1>. QED  BY <1>1, <1>2

THEOREM StepRefinesBattery == IInv /\ [Next]_vars => [Abs!Next]_Abs!vars
<1>. SUFFICES ASSUME IInv, [Next]_vars PROVE [Abs!Next]_Abs!vars
  OBVIOUS
<1>. USE PeriodsAssumption, PowerAssumption, CapacityAssumption
<1>1. TypeOK
  BY DEF IInv
<1>2. CASE AssignPeriod
  <2>1. PICK v \in PeriodVars :
              /\ PeriodConstraints(Append(model, v), Len(model) + 1)
              /\ model' = Append(model, v)
    BY <1>2 DEF AssignPeriod
  <2>2. /\ ~solved /\ Len(model) < T /\ solved' = solved
    BY <1>2 DEF AssignPeriod
  <2>3. /\ Len(model') = Len(model) + 1
        /\ model'[Len(model) + 1] = v
        /\ model' # << >>
    BY <1>1, <2>1, AppendLemma DEF TypeOK
  <2>4. v.battery_soc = StoredEnergy
    BY <1>1, <2>1, SocIsStoredEnergy DEF PeriodConstraints
  <2>5. StoredEnergy' = StoredEnergy + (v.grid_charge_power + v.pv_charge_power)
                          - v.discharge_power
    <3>1. StoredEnergy' = v.battery_soc + v.grid_charge_power + v.pv_charge_power
                            - v.discharge_power
      BY <2>3 DEF StoredEnergy, EnergyAfter
    <3>. QED  BY <3>1, <2>4 DEF PeriodVars
  <2>6. SafePeriod(Append(model, v), Len(model) + 1)
    <3>1. Len(model) + 1 \in Periods
      BY <1>1, <2>2 DEF TypeOK, Periods
    <3>2. Append(model, v)[Len(model) + 1] \in PeriodVars
      BY <1>1, AppendLemma DEF TypeOK
    <3>. QED  BY <2>1, <3>1, <3>2, PeriodLemma
  <2>7. /\ ~ (v.grid_charge_power + v.pv_charge_power > 0 /\ v.discharge_power > 0)
        /\ StoredEnergy' \in 0..MAX_BATTERY_CAPACITY
    BY <2>1, <2>3, <2>6 DEF SafePeriod, StoredEnergy
  <2>8. /\ v.grid_charge_power + v.pv_charge_power \in 0..CHARGING_POWER
        /\ v.discharge_power \in 0..DISCHARGING_POWER
    BY <2>1 DEF PeriodConstraints, max_charge_power_constraint, PeriodVars
  <2>9. StoredEnergy \in Int
    BY <2>4 DEF PeriodVars
  <2>10. CASE v.grid_charge_power + v.pv_charge_power > 0
    <3>. DEFINE c == v.grid_charge_power + v.pv_charge_power
    <3>1. /\ c \in 1..CHARGING_POWER /\ v.discharge_power = 0
      BY <2>7, <2>8, <2>10
    <3>2. /\ StoredEnergy + c <= MAX_BATTERY_CAPACITY
          /\ StoredEnergy' = StoredEnergy + c
      BY <2>5, <2>7, <2>9, <3>1
    <3>3. \E cc \in 1..CHARGING_POWER :
            /\ StoredEnergy + cc <= MAX_BATTERY_CAPACITY
            /\ StoredEnergy' = StoredEnergy + cc
      BY <3>1, <3>2
    <3>4. Abs!Charge
      BY <2>2, <2>3, <3>3 DEF Abs!Charge
    <3>. QED  BY <3>4 DEF Abs!Next
  <2>11. CASE v.discharge_power > 0
    <3>. DEFINE d == v.discharge_power
    <3>1. /\ d \in 1..DISCHARGING_POWER
          /\ v.grid_charge_power + v.pv_charge_power = 0
      BY <2>7, <2>8, <2>11
    <3>2. /\ d <= StoredEnergy
          /\ StoredEnergy' = StoredEnergy - d
      BY <2>5, <2>7, <2>9, <3>1
    <3>3. \E dd \in 1..DISCHARGING_POWER :
            /\ dd <= StoredEnergy
            /\ StoredEnergy' = StoredEnergy - dd
      BY <3>1, <3>2
    <3>4. Abs!Discharge
      BY <2>2, <2>3, <3>3 DEF Abs!Discharge
    <3>. QED  BY <3>4 DEF Abs!Next
  <2>12. CASE v.grid_charge_power + v.pv_charge_power = 0 /\ v.discharge_power = 0
    <3>1. Abs!Hold
      BY <2>2, <2>3, <2>5, <2>9, <2>12 DEF Abs!Hold
    <3>. QED  BY <3>1 DEF Abs!Next
  <2>. QED  BY <2>8, <2>10, <2>11, <2>12
<1>3. CASE CompleteAssignment
  <2>1. Abs!Finish
    BY <1>3 DEF CompleteAssignment, Abs!Finish, StoredEnergy
  <2>. QED  BY <2>1 DEF Abs!Next
<1>4. CASE UNCHANGED vars
  BY <1>4 DEF vars, Abs!vars, StoredEnergy
<1>. QED  BY <1>2, <1>3, <1>4 DEF Next

(***************************************************************************)
(* Every schedule the solver may return, for every configuration the       *)
(* assumptions admit, is a run of the ideal battery of Battery: the MILP's *)
(* rules (lines 34-73) make the stored energy move, period by period, as a *)
(* battery of MAX_BATTERY_CAPACITY units with the two power limits does.  *)
(***************************************************************************)
THEOREM DispatchRefinesBattery == Spec => BatteryRefinement
<1>1. Init => Abs!Init
  BY DEF Init, Abs!Init, StoredEnergy
<1>. QED  BY <1>1, InitIInv, NextIInv, StepRefinesBattery, PTL
           DEF Spec, BatteryRefinement, Abs!Spec

=============================================================================
