---------------------------- MODULE RelayStations ----------------------------
(***************************************************************************)
(* The ground of the follower's flight: the leader's route as a line of     *)
(* stations, the take-off point being station 0.  Two positions are within  *)
(* an arrival radius of each other when they are the same station.          *)
(***************************************************************************)
EXTENDS Integers, Sequences

CONSTANTS
  Relays,    \* stations of the relay waypoints; the last one is TERMINAL
  None       \* no value

\* The order is what RelayRoute promises of the waypoints of the leader's route; two
\* of them may be the same station, and the first may be the take-off point.
ASSUME RelaysAssumption ==
  /\ Relays \in Seq(Nat) /\ Relays # <<>>
  /\ \A i, j \in DOMAIN Relays : i < j => Relays[i] <= Relays[j]
  /\ None \notin Nat \cup [at : Nat, to : Nat]

Terminal == Len(Relays)
Station == 0 .. Relays[Terminal]

\* One station on the way from a to b.
Toward(a, b) == IF a < b THEN a + 1 ELSE IF a > b THEN a - 1 ELSE a

===============================================================================
