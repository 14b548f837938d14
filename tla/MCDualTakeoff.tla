---------------------------- MODULE MCDualTakeoff -----------------------------
(***************************************************************************)
(* TLC instance of DualTakeoff: both vehicles, two attempts, so that the    *)
(* second one starts from whatever the first one left.                      *)
(***************************************************************************)
EXTENDS DualTakeoff, TLC

VehicleSymmetry == Permutations(Vehicles)
===============================================================================
