---------------------------- MODULE MCRelayFlight ----------------------------
(***************************************************************************)
(* TLC instance of RelayFlight: one relay with a station before it, and the *)
(* landing point.                                                           *)
(***************************************************************************)
EXTENDS RelayFlight

Line == <<2, 3>>
===============================================================================
