------------------------ MODULE MC_BatteryDispatch ------------------------
(***************************************************************************)
(* A three-period instance of BatteryDispatch for TLC: a battery of three  *)
(* units, charge and discharge power two, a demand that the battery and    *)
(* the PV surplus can partly cover, and prices that make charging early    *)
(* and discharging late worth it.  Both optional constraints are on.       *)
(***************************************************************************)
EXTENDS BatteryDispatch

MC_T == 3
MC_energy_consumption == <<2, 1, 3>>
MC_energy_generation == <<0, 2, 1>>
MC_grid_prices == <<1, 3, 2>>
MC_pv_prices == <<0, 0, 0>>

(* Scenario A of spec.md section 8: flat price, no generation.             *)
MCA_energy_consumption == <<1, 2, 1>>
MCA_energy_generation == <<0, 0, 0>>
MCA_grid_prices == <<2, 2, 2>>
=============================================================================
