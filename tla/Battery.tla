------------------------------ MODULE Battery ------------------------------
(***************************************************************************)
(* What a dispatch schedule promises about the battery, with the MILP's    *)
(* variables abstracted away: an ideal store of MAX_BATTERY_CAPACITY units *)
(* that starts at INITIAL_BATTERY_SOC and, in each of the T periods, either *)
(* charges by at most CHARGING_POWER without overflowing, or discharges by *)
(* at most DISCHARGING_POWER without going below empty, or holds; after    *)
(* the last period the schedule is done.  Only the energy stored after     *)
(* each period is visible.                                                 *)
(***************************************************************************)
EXTENDS Integers

CONSTANTS
  T,
  MAX_BATTERY_CAPACITY,
  CHARGING_POWER,
  DISCHARGING_POWER,
  INITIAL_BATTERY_SOC

VARIABLES
  energy,   \* the energy stored after the last period played
  period,   \* the number of periods played
  done      \* the schedule is complete

vars == <<energy, period, done>>

Init ==
  /\ energy = INITIAL_BATTERY_SOC
  /\ period = 0
  /\ done = FALSE

\* One period in which the battery takes in c units.
Charge ==
  /\ ~done
  /\ period < T
  /\ \E c \in 1..CHARGING_POWER :
       /\ energy + c <= MAX_BATTERY_CAPACITY
       /\ energy' = energy + c
  /\ period' = period + 1
  /\ UNCHANGED done

\* One period in which the battery gives out d units.
Discharge ==
  /\ ~done
  /\ period < T
  /\ \E d \in 1..DISCHARGING_POWER :
       /\ d <= energy
       /\ energy' = energy - d
  /\ period' = period + 1
  /\ UNCHANGED done

\* One period in which the battery is idle.
Hold ==
  /\ ~done
  /\ period < T
  /\ period' = period + 1
  /\ UNCHANGED <<energy, done>>

\* Every period has been played.
Finish ==
  /\ ~done
  /\ period = T
  /\ done' = TRUE
  /\ UNCHANGED <<energy, period>>

Next == Charge \/ Discharge \/ Hold \/ Finish

Spec == Init /\ [][Next]_vars

=============================================================================
