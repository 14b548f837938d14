---------------------------- MODULE MCLeaderFlight ----------------------------
(***************************************************************************)
(* TLC instance of LeaderFlight: two trajectories, so that one replaces     *)
(* another, and queues that overflow on the second message.                 *)
(***************************************************************************)
EXTENDS LeaderFlight
===============================================================================
