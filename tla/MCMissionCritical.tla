------------------------- MODULE MCMissionCritical -------------------------
(***************************************************************************)
(* Small instances of MissionCritical for TLC.                             *)
(***************************************************************************)
EXTENDS MCSessionRouter, MissionCritical
=============================================================================
