---------------------------- MODULE MCRelayRoute ----------------------------
(***************************************************************************)
(* TLC instance of RelayRoute: a corridor that turns back on itself, with a *)
(* side room, cells of 25 cm and the distances of                           *)
(* leader_safe_path_follower.launch, the spacing of the waypoints apart.    *)
(***************************************************************************)
EXTENDS RelayRoute

Corridor ==
  {<<x, 0>> : x \in 0 .. 5} \cup {<<5, 1>>} \cup {<<x, 2>> : x \in 2 .. 5}
    \cup {<<3, -1>>, <<3, -2>>, <<4, -1>>, <<4, -2>>, <<4, -3>>, <<5, -3>>}
Origin == <<0, 0>>
Portal == <<3, 2>>
Beyond == {<<2, 2>>}

SquareRoot(n) == CHOOSE r \in 0 .. n : r * r <= n /\ n < (r + 1) * (r + 1)
Table == [dx \in 0 .. 7 |-> [dy \in 0 .. 5 |-> SquareRoot(625 * (dx * dx + dy * dy))]]
===============================================================================
