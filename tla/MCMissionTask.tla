---------------------------- MODULE MCMissionTask ----------------------------
(***************************************************************************)
(* TLC instance of MissionTask: doors at two stations of the corridor, one  *)
(* short and one long way to its far end, the code beyond both.             *)
(***************************************************************************)
EXTENDS MissionTask

TwoDepths == {1, 2}
===============================================================================
