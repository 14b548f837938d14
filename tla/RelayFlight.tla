----------------------------- MODULE RelayFlight -----------------------------
(***************************************************************************)
(* The follower (UAV1) in flight: the relay executor, the planner of its    *)
(* Diff-Planner and the trajectory server, which share only topics.         *)
(*                                                                          *)
(*   executor -- planning/goal -----> goal_q -----> planner                 *)
(*   planner  -- planning/status ---> status_q ---> executor                *)
(*   planner  -- trajectory --------> server -- pos_cmd --> vehicle,        *)
(*                                                          executor        *)
(*   executor -- safety_hold -------> vehicle                               *)
(*                                                                          *)
(* A new trajectory and a hold take effect at once.  The trajectory goes on *)
(* in time while the vehicle is held, as the server knows nothing of the    *)
(* hold.  Whatever goes wrong, in the map, the optimiser, the air or on the *)
(* way of a message, is counted in faults and bounded by MaxFaults, so that *)
(* liveness speaks of what happens once things go well again; failures of   *)
(* the optimiser in a row count as one.                                     *)
(***************************************************************************)
EXTENDS RelayExecution, DiffReplan

CONSTANTS
  MaxFaults,    \* bound: disturbances in a behaviour
  MaxWaiting    \* bound: waypointCallbacks that spin inside one another

ASSUME BoundsAssumption == {MaxFaults, MaxWaiting} \subseteq Nat

VARIABLES
  commands,   \* of traj_server: "none", "new" ones for a trajectory just taken, or "seen"
  faults      \* disturbances so far

vars == <<exec_vars, diff_vars, commands, faults>>

Init == ExecInit /\ DiffInit /\ commands = "none" /\ faults = 0

-------------------------------------------------------------------------------
(* Disturbances.                                                            *)

Disturbed(bad) ==
  /\ faults' = faults + (IF bad THEN 1 ELSE 0)
  /\ faults' <= MaxFaults

\* A choice that matters only if relevant.
Free(relevant) == IF relevant THEN BOOLEAN ELSE {FALSE}

\* polyTrajCallback of the server takes a trajectory the planner published.
Served(published) == commands' = IF published THEN "new" ELSE commands

\* Where the search back along the global trajectory may move the goal: also behind the
\* vehicle, which has flown since the trajectory was planned.
Goals ==
  {final_goal} \cup IF final_goal = None THEN {}
                    ELSE {g \in Station : \/ global_start <= g /\ g < final_goal
                                          \/ final_goal < g /\ g <= global_start}

-------------------------------------------------------------------------------
(* The planner.                                                             *)

PlannerGlobal(goal, success) ==
  /\ Disturbed(goal # final_goal \/ (~success /\ replan_fail_count = 0))
  /\ execGlobal(pos, goal, success) /\ Served(success)
PlannerReplan(goal, success) ==
  /\ Disturbed(goal # final_goal \/ (~success /\ replan_fail_count = 0))
  /\ execReplan(pos, goal, success) /\ Served(success)
PlannerExec(goal, stuck) ==
  /\ Disturbed(goal # final_goal \/ stuck)
  /\ execTrajectory(pos, goal, stuck) /\ Served(FALSE)

\* Below 0.1 m/s: held, without commands, or where the commands end.
AtRest == safety_hold \/ commands = "none" \/ pos = traj.at

PlannerStops == execEmergencyStop(pos) /\ Served(TRUE) /\ Disturbed(FALSE)
PlannerResumes == execEmergencyExit /\ AtRest /\ Served(FALSE) /\ Disturbed(FALSE)
PlannerStarts == (execInit \/ execWaitTarget) /\ Served(FALSE) /\ Disturbed(FALSE)
PlannerChecks ==
  /\ Disturbed(TRUE)
  /\ \/ \E goal \in Goals, success, depth_lost \in BOOLEAN : \E near \in Free(~success) :
          checkCollisionDanger(pos, goal, success, near, depth_lost) /\ Served(success)
     \/ checkCollisionDepthLost /\ Served(FALSE)
PlannerInputs ==
  /\ waypointExecuted \/ waypointTimeout \/ odometryCallback
  /\ Served(FALSE) /\ Disturbed(FALSE)
PlannerStopped == mandatoryStopCallback /\ Served(FALSE) /\ Disturbed(TRUE)

PlannerStep ==
  \/ PlannerStarts
  \/ \E goal \in Goals, ok \in BOOLEAN :
       PlannerGlobal(goal, ok) \/ PlannerReplan(goal, ok) \/ PlannerExec(goal, ~ok)
  \/ PlannerStops
  \/ PlannerResumes
  \/ PlannerChecks
  \/ PlannerInputs
  \/ PlannerStopped

\* A goal is taken or refused as outside the map.  A global trajectory to it is always
\* found, as planGlobalTrajWaypoints knows no failure.
TakeGoal ==
  /\ goal_q # <<>> /\ goal_q' = <<>>
  /\ UNCHANGED <<released, active_relay_index, pos, hold_vars, follower_odom_fault_latched,
                 goal_state, recovery_vars, arrival_vars, follower_landing_requested, commands>>
GoalTaken == TakeGoal /\ waiting < MaxWaiting /\ waypointCallback(pos, goal_q[1]) /\ Disturbed(FALSE)
GoalRefused == TakeGoal /\ waypointRejected /\ Disturbed(TRUE)

Planner ==
  \/ PlannerStep /\ UNCHANGED exec_vars
  \/ GoalTaken \/ GoalRefused

-------------------------------------------------------------------------------
(* The trajectory server and the vehicle.                                   *)

\* Meanwhile commands reach the executor; a status under way for that long is late.
TrajectoryAdvances ==
  /\ traj # None /\ ~Finished
  /\ commands # "none" => commands = "seen" /\ diff_command_seen_for_goal
  /\ Disturbed(status_q # <<>>)
  /\ traj' = [traj EXCEPT !.at = Toward(@, traj.to)]
  /\ UNCHANGED <<exec_vars, exec_state, have_odom, goal_vars, replan_fail_count, stop_vars,
                 waiting, status_q, commands>>

VehicleMoves ==
  /\ commands # "none" /\ ~safety_hold /\ ~follower_odom_fault_latched /\ pos # traj.at
  /\ followerOdomCallback(Toward(pos, traj.at))
  /\ UNCHANGED <<diff_vars, commands, faults>>

\* Commands end with the trajectory, which lasts longer than their period, or when the
\* planner's heartbeat is lost.  A vehicle that is not held has followed them by then,
\* or was slow.
CommandsEnd ==
  /\ commands = "seen" /\ commands' = "none"
  /\ Disturbed(~Finished \/ (~safety_hold /\ pos # traj.at))
  /\ UNCHANGED <<exec_vars, diff_vars>>

-------------------------------------------------------------------------------
(* The executor.                                                            *)

\* The planner answers a goal, and finishes what it does, long before the 3 s of a
\* retry; a trajectory in execution may last longer.
Quiet ==
  /\ goal_q = <<>> /\ status_q = <<>> /\ waiting = 0
  /\ \/ exec_state = "WAIT_TARGET" /\ ~(have_target /\ have_trigger)
     \/ exec_state = "EXEC_TRAJ" /\ ~Finished
     \/ exec_state = "EMERGENCY_STOP" /\ ~enable_fail_safe

Tick(blocked, slow, near, dwell, stale, retry) ==
  /\ stale => commands = "none"
  /\ retry => Quiet
  /\ Disturbed(blocked /\ ~diff_dynamic_hold_active)
  /\ timerCallback(blocked, slow, near, dwell, stale, retry)
  /\ UNCHANGED <<diff_vars, commands>>

Executor ==
  \/ \E blocked \in BOOLEAN, slow \in Free(pos = arrival_goal), near \in Free(pos = accepted),
        dwell \in Free(relay_arrived \/ endpoint_captured),
        stale \in Free(commands = "none"), retry \in Free(~diff_plan_response_received) :
       Tick(blocked, slow, near, dwell, stale, retry)
  \/ /\ Disturbed(TRUE) /\ timerLeaderStale
     /\ UNCHANGED <<diff_vars, commands>>
  \/ /\ Disturbed(TRUE) /\ followerOdomJump
     /\ UNCHANGED <<diff_vars, commands>>

StatusDelivered ==
  /\ status_q # <<>> /\ diffStatusCallback(Head(status_q)) /\ status_q' = Tail(status_q)
  /\ UNCHANGED <<exec_state, have_odom, goal_vars, replan_fail_count, stop_vars, waiting, traj,
                 commands, faults>>

CommandDelivered ==
  /\ commands = "new" \/ (commands = "seen" /\ ~diff_command_seen_for_goal)
  /\ commands' = "seen"
  /\ diffCommandCallback
  /\ UNCHANGED <<diff_vars, faults>>

LeaderReleases == relayReleased /\ UNCHANGED <<diff_vars, commands, faults>>

Next ==
  \/ Planner
  \/ TrajectoryAdvances \/ VehicleMoves \/ CommandsEnd
  \/ Executor
  \/ StatusDelivered \/ CommandDelivered
  \/ LeaderReleases

Spec == Init /\ [][Next]_vars

-------------------------------------------------------------------------------
(* Fairness.  Every timer fires and every message arrives; a plan attempted *)
(* without a disturbance succeeds; a vehicle that is not held follows its   *)
(* commands; the leader goes on to its landing.                             *)

Favourable == Tick(FALSE, TRUE, TRUE, TRUE, commands = "none", Quiet)

Fairness ==
  /\ WF_vars(PlannerStarts /\ UNCHANGED exec_vars)
  /\ WF_vars((PlannerGlobal(final_goal, TRUE) \/ PlannerReplan(final_goal, TRUE)
                \/ PlannerExec(final_goal, FALSE) \/ PlannerStops \/ PlannerResumes)
             /\ UNCHANGED exec_vars)
  /\ WF_vars(PlannerInputs /\ UNCHANGED exec_vars)
  /\ WF_vars(GoalTaken)
  /\ SF_vars(TrajectoryAdvances /\ faults' = faults)
  /\ WF_vars(VehicleMoves)
  /\ WF_vars(CommandsEnd /\ faults' = faults)
  /\ WF_vars(Favourable)
  /\ SF_vars(Favourable /\ <<active_relay_index, follower_landing_requested>>'
                            # <<active_relay_index, follower_landing_requested>>)
  /\ WF_vars(StatusDelivered)
  /\ WF_vars(CommandDelivered)
  /\ WF_vars(LeaderReleases)

FairSpec == Spec /\ Fairness

-------------------------------------------------------------------------------
(* Properties.                                                              *)

TypeOK ==
  /\ released \in 0 .. Len(Relays) /\ active_relay_index \in 1 .. Len(Relays)
  /\ pos \in Station
  /\ diff_accepted_goal \in Station \cup {None} /\ diff_recovery_goal \in Station \cup {None}
  /\ goal_q \in {<<>>} \cup {<<g>> : g \in Station}
  /\ exec_state \in ExecStates
  /\ final_goal \in Station \cup {None} /\ global_start \in Station
  /\ replan_fail_count \in 0 .. MaxFail
  /\ waiting \in 0 .. MaxWaiting
  /\ traj \in {None} \cup [at : Station, to : Station]
  /\ status_q \in Seq([kind : {"TRAJECTORY_PUBLISHED", "PLANNING_FAILED",
                               "GOAL_REJECTED_OUTSIDE_MAP"}, goal : Station \cup {None}])
  /\ Len(status_q) <= StatusQueue
  /\ commands \in {"none", "new", "seen"} /\ faults \in 0 .. MaxFaults

\* setDiffWaitPositionHold, handleDiffPlannerExecution: two reasons hold the vehicle over
\* one topic.  What the controller was told last is that one of them is active, unless
\* the odometry failed.
HoldHasReason ==
  ~follower_odom_fault_latched
    => (safety_hold <=> diff_wait_hold_active \/ diff_dynamic_hold_active)

\* The follower never flies beyond the last waypoint its leader has cleared, whatever
\* goals the planner moves and whatever short goals it is given.
NeverBeyondRelease == pos <= IF released = 0 THEN 0 ELSE Relays[released]

\* handleDiffPlannerExecution: the follower asks to land at the landing point itself,
\* not at the point the planner moved it to, and after it went through all relays.
LandsAtTerminal ==
  [][follower_landing_requested' # follower_landing_requested
       => /\ pos = Relays[Terminal] /\ active_relay_index = Terminal
          /\ ~diff_dynamic_hold_active']_vars

\* Executor, planner, server and vehicle together keep the promise of RelayJourney,
\* whatever status comes late and wherever the planner moves its goals.
Journey ==
  INSTANCE RelayJourney
    WITH cleared <- released, target <- active_relay_index, at <- pos, held <- safety_hold,
         blind <- follower_odom_fault_latched, landing <- follower_landing_requested
KeepsJourney == Journey!Spec

\* The follower asks to land after its leader has cleared the whole route, and once it
\* has taken up the last waypoint it stays with it.
LandsAfterLeader ==
  follower_landing_requested => released = Len(Relays) /\ active_relay_index = Terminal

\* handleDiffPlannerExecution, execFSMCallback: once disturbances end the follower asks to
\* land, or it stopped for one of two reasons: its odometry failed, or the planner was
\* stopped for good.  A late status may pass for the answer to a later goal, which
\* switches its retry off; no goal is lost by that.
MissionCompletes ==
  <>(follower_landing_requested \/ follower_odom_fault_latched \/ ~enable_fail_safe)

===============================================================================
