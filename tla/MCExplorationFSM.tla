-------------------------- MODULE MCExplorationFSM --------------------------
(***************************************************************************)
(* TLC instance of ExplorationFSM.  With a confirmation of 3 ticks and a    *)
(* check every 2 ticks the release may fall on a tick without a check, and  *)
(* with a jitter of 2 a check may come late.                                *)
(***************************************************************************)
EXTENDS ExplorationFSM
===============================================================================
