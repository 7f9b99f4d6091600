--------------------- MODULE MC_CommunityAggregation ---------------------
(***************************************************************************)
(* Three households over three periods, profiles in quarters.  With a PV   *)
(* ratio of 1/2, ceil(3/2) = 2 households have PV and one has not.         *)
(***************************************************************************)
EXTENDS CommunityAggregation
=============================================================================
