----------------------------- MODULE RelayJourney -----------------------------
(***************************************************************************)
(* What the follower promises the leader whose route it flies.  It goes     *)
(* from one waypoint to the next among those the leader has cleared, never  *)
(* beyond the last of them, and waits, held, before it goes on.  It asks to *)
(* land at the last waypoint of all only.  Once it has lost its odometry it *)
(* neither goes on nor asks to land.                                        *)
(***************************************************************************)
EXTENDS Naturals, Sequences

CONSTANT Relays   \* how far along the route the waypoints are

VARIABLES
  cleared,   \* how many waypoints the leader has cleared
  target,    \* the one to fly to
  at,        \* where the follower is along the route
  held,      \* the vehicle is held
  blind,     \* the odometry is lost
  landing    \* the landing was asked for

vars == <<cleared, target, at, held, blind, landing>>

Limit == IF cleared = 0 THEN 0 ELSE Relays[cleared]

Init == cleared = 0 /\ target = 1 /\ at = 0 /\ ~held /\ ~blind /\ ~landing

Clear ==
  /\ cleared < Len(Relays)
  /\ cleared' = cleared + 1
  /\ UNCHANGED <<target, at, held, blind, landing>>

Fly ==
  /\ ~held /\ ~blind
  /\ at' \in 0 .. Limit
  /\ UNCHANGED <<cleared, target, held, blind, landing>>

GoOn ==
  /\ ~blind
  /\ target <= cleared /\ target < Len(Relays)
  /\ target' = target + 1
  /\ held'
  /\ UNCHANGED <<cleared, at, blind, landing>>

AskToLand ==
  /\ ~blind
  /\ target <= cleared /\ target = Len(Relays)
  /\ at = Relays[target]
  /\ landing'
  /\ UNCHANGED <<cleared, target, at, blind>>

HoldChanges == UNCHANGED <<cleared, target, at, blind, landing>>

LoseOdometry == blind' /\ held' /\ UNCHANGED <<cleared, target, at, landing>>

Next == Clear \/ Fly \/ GoOn \/ AskToLand \/ HoldChanges \/ LoseOdometry

Spec == Init /\ [][Next]_vars

===============================================================================
