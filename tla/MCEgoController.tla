--------------------------- MODULE MCEgoController ----------------------------
(***************************************************************************)
(* TLC instance of EgoController: two positions, so that a lock point, the  *)
(* take-off point and the vehicle can differ.                               *)
(***************************************************************************)
EXTENDS EgoController
===============================================================================
