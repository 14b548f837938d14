------------------------------ MODULE TrajServer ------------------------------
(***************************************************************************)
(* The trajectory server (plan_manage/src/traj_server.cpp): it keeps the    *)
(* newest B-spline it was sent and samples it into position commands at     *)
(* 100 Hz.  One spinner thread runs its callbacks, so each is one step.     *)
(*                                                                          *)
(* A trajectory is its traj_id_; the time since its start is abstracted to  *)
(* the three cases cmdCallback tells apart.  A trajectory may be over at    *)
(* any time, which covers its duration and replanCallback, which shortens   *)
(* it.                                                                      *)
(***************************************************************************)
EXTENDS Integers

CONSTANT MaxTraj     \* bound of the model: the greatest traj_id_

VARIABLES
  traj_id,       \* traj_id_
  receive_traj,  \* receive_traj_
  traj_time      \* t_cur: before the start, within traj_duration_, after it

vars == <<traj_id, receive_traj, traj_time>>

TrajTime == {"future", "running", "over"}

\* traj_duration_ is 0 and start_time_ is the epoch until a trajectory arrives.
Init ==
  /\ traj_id = 0
  /\ receive_traj = FALSE
  /\ traj_time = "over"

\* A trajectory must be newer than the one held, or it is dropped.
InOrderSkipped(id) == id > traj_id + 1
InOrder(id) == id > traj_id

bsplineCallback(msg) ==
  IF InOrder(msg.id)
    THEN /\ traj_id' = msg.id
         /\ receive_traj' = TRUE
         /\ traj_time' = IF msg.start = "planned" THEN "future" ELSE "running"
    ELSE UNCHANGED vars

\* What cmdCallback publishes: a sample of the trajectory, its end point, or, before
\* the start, variables that were never assigned.
CommandSource ==
  CASE traj_time = "running" -> "sample"
    [] traj_time = "over" -> "end"
    [] traj_time = "future" -> "unassigned"

cmdCallback == receive_traj /\ UNCHANGED vars

\* The start time is reached, or the duration has passed.
TimePasses ==
  /\ traj_time # "over"
  /\ traj_time' = IF traj_time = "future" THEN "running" ELSE "over"
  /\ UNCHANGED <<traj_id, receive_traj>>

TypeOK ==
  /\ traj_id \in 0 .. MaxTraj
  /\ receive_traj \in BOOLEAN
  /\ traj_time \in TrajTime

===============================================================================
