-------------------------- MODULE MC_Simulation --------------------------
(***************************************************************************)
(* Two runs of a two-period day: two households, one with PV, profiles in  *)
(* halves, a battery of two units and two candidate price curves, one flat *)
(* and one that rewards shifting demand to the second period.             *)
(***************************************************************************)
EXTENDS Simulation

MC_PriceSeries == {<<1, 1>>, <<1, 3>>}
=============================================================================
