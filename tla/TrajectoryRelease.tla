--------------------------- MODULE TrajectoryRelease ---------------------------
(***************************************************************************)
(* What the exploration of the leader promises the vehicle that flies its   *)
(* trajectories.  They are numbered as they are planned, and only the       *)
(* newest can be released, once, and never after it was refused.  While the *)
(* vehicle is held it stays held until the next one is released.  After the *)
(* landing was requested no more are planned.                               *)
(***************************************************************************)
EXTENDS Naturals

VARIABLES
  newest,    \* the trajectory planned last
  current,   \* the one released last
  refused,   \* those that failed a check
  held,      \* the vehicle is held
  closed     \* the landing was requested

vars == <<newest, current, refused, held, closed>>

Init == newest = 0 /\ current = 0 /\ refused = {} /\ ~held /\ ~closed

Plan ==
  /\ ~closed
  /\ newest' = newest + 1
  /\ UNCHANGED <<current, refused, held, closed>>

PlanRefused ==
  /\ ~closed
  /\ newest' = newest + 1
  /\ refused' = refused \cup {newest'}
  /\ held'
  /\ UNCHANGED <<current, closed>>

Refuse ==
  /\ newest > current
  /\ refused' = refused \cup {newest}
  /\ held'
  /\ UNCHANGED <<newest, current, closed>>

Release ==
  /\ newest > current /\ newest \notin refused
  /\ current' = newest
  /\ ~held'
  /\ UNCHANGED <<newest, refused, closed>>

Hold == held' /\ UNCHANGED <<newest, current, refused, closed>>

RequestLanding == closed' /\ UNCHANGED <<newest, current, refused, held>>

Next == Plan \/ PlanRefused \/ Refuse \/ Release \/ Hold \/ RequestLanding

Spec == Init /\ [][Next]_vars

===============================================================================
