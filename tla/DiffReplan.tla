------------------------------ MODULE DiffReplan ------------------------------
(***************************************************************************)
(* DiffReplanFSM (diff_replan_fsm.cpp) of UAV1's Diff-Planner, as launched  *)
(* for the follower: MANUAL_TARGET, mondify_final_goal, fail_safe, stuck    *)
(* detection, no gate on another agent's trajectory.  One thread runs its   *)
(* callbacks; waypointCallback spins inside itself until a trajectory is    *)
(* executed, so the other callbacks run in the middle of it.                *)
(*                                                                          *)
(* What the map and the optimiser answer is a parameter of the actions.     *)
(***************************************************************************)
EXTENDS RelayStations

CONSTANTS
  SeqFails,      \* failures of a first trajectory that are reported: 3
  ReplanFails,   \* failures of a local replan that are reported: 10
  MaxFail,       \* MAX_REPLAN_FAIL_COUNT
  StatusQueue    \* length of the status queues

ASSUME LimitsAssumption ==
  {SeqFails, ReplanFails, MaxFail} \subseteq Nat /\ StatusQueue \in Nat \ {0}

VARIABLES
  exec_state, have_odom, have_target, have_trigger, final_goal,
  global_start,   \* where the global trajectory to final_goal starts, once there is one
  replan_fail_count,
  need_hover_stop, flag_escape_emergency, enable_fail_safe, mandatory_stop,
  waiting,    \* how many waypointCallbacks spin inside one another
  traj,       \* local trajectory: None, or [at, to], where it is now and where it ends
  status_q    \* planning/status: [kind, goal], not yet taken by the follower

goal_vars == <<have_target, have_trigger, final_goal, global_start>>
stop_vars == <<need_hover_stop, flag_escape_emergency, enable_fail_safe, mandatory_stop>>
diff_vars == <<exec_state, have_odom, goal_vars, replan_fail_count, stop_vars, waiting, traj,
               status_q>>

ExecStates == {"INIT", "WAIT_TARGET", "GEN_NEW_TRAJ", "REPLAN_TRAJ", "EXEC_TRAJ",
               "EMERGENCY_STOP", "SEQUENTIAL_START"}

DiffInit ==
  /\ exec_state = "INIT" /\ have_odom = FALSE
  /\ have_target = FALSE /\ have_trigger = FALSE /\ final_goal = None /\ global_start = 0
  /\ replan_fail_count = 0
  /\ need_hover_stop = FALSE /\ flag_escape_emergency = TRUE
  /\ enable_fail_safe = TRUE /\ mandatory_stop = FALSE
  /\ waiting = 0 /\ traj = None /\ status_q = <<>>

-------------------------------------------------------------------------------
(* Output.                                                                  *)

\* A full queue drops its oldest message.
publishPlanningStatus(kind, goal) ==
  LET m == [kind |-> kind, goal |-> goal]
  IN  status_q' = IF Len(status_q) < StatusQueue
                    THEN Append(status_q, m) ELSE Append(Tail(status_q), m)

At(from, to) == [at |-> from, to |-> to]

\* planner_manager_->EmergencyStop
callEmergencyStop(odom) == traj' = At(odom, odom)

-------------------------------------------------------------------------------
(* Planning.                                                                *)

\* planNextWaypoint: a global trajectory from where odometry is to the goal.
planNextWaypoint(odom, goal) == final_goal' = goal /\ global_start' = odom

\* An occupied goal is moved to a free point of the global trajectory, which is planned
\* anew to that point; a move of less than a station is none.
mondifyInCollisionFinalGoal(odom, goal) ==
  IF goal = final_goal THEN UNCHANGED <<final_goal, global_start>>
  ELSE planNextWaypoint(odom, goal)

\* One attempt: the goal is moved whether or not the optimiser then succeeds.
callReboundReplan(odom, from, goal, success) ==
  /\ mondifyInCollisionFinalGoal(odom, goal)
  /\ traj' = IF success THEN At(from, goal) ELSE traj

planFromGlobalTraj(odom, goal, success) == callReboundReplan(odom, odom, goal, success)
planFromLocalTraj(odom, goal, success) == callReboundReplan(odom, traj.at, goal, success)

\* finishProcess: too many failures end in an emergency stop.
AfterFailure(state) ==
  IF replan_fail_count + 1 > MaxFail
    THEN /\ replan_fail_count' = 0
         /\ exec_state' = "EMERGENCY_STOP"
         /\ need_hover_stop' = TRUE /\ flag_escape_emergency' = TRUE
    ELSE /\ replan_fail_count' = replan_fail_count + 1
         /\ exec_state' = state
         /\ UNCHANGED <<need_hover_stop, flag_escape_emergency>>

ReportFailure(limit) ==
  IF replan_fail_count + 1 = limit
    THEN publishPlanningStatus("PLANNING_FAILED", None) ELSE UNCHANGED status_q

-------------------------------------------------------------------------------
(* execFSMCallback, one action for each state.                              *)

execInit ==
  /\ exec_state = "INIT" /\ have_odom
  /\ exec_state' = "WAIT_TARGET"
  /\ UNCHANGED <<have_odom, goal_vars, replan_fail_count, stop_vars, waiting, traj, status_q>>

execWaitTarget ==
  /\ exec_state = "WAIT_TARGET" /\ have_target /\ have_trigger
  /\ exec_state' = "SEQUENTIAL_START"
  /\ UNCHANGED <<have_odom, goal_vars, replan_fail_count, stop_vars, waiting, traj, status_q>>

\* SEQUENTIAL_START and GEN_NEW_TRAJ: a trajectory from the position of the vehicle.
execGlobal(odom, goal, success) ==
  /\ exec_state \in {"SEQUENTIAL_START", "GEN_NEW_TRAJ"}
  /\ planFromGlobalTraj(odom, goal, success)
  /\ IF success
       THEN /\ replan_fail_count' = 0
            /\ exec_state' = "EXEC_TRAJ"
            /\ flag_escape_emergency' = (flag_escape_emergency \/ exec_state = "GEN_NEW_TRAJ")
            /\ UNCHANGED need_hover_stop
            /\ publishPlanningStatus("TRAJECTORY_PUBLISHED", goal)
       ELSE AfterFailure(exec_state) /\ ReportFailure(SeqFails)
  /\ UNCHANGED <<have_odom, have_target, have_trigger, enable_fail_safe, mandatory_stop, waiting>>

\* REPLAN_TRAJ: success is not reported.
execReplan(odom, goal, success) ==
  /\ exec_state = "REPLAN_TRAJ"
  /\ planFromLocalTraj(odom, goal, success)
  /\ IF success
       THEN /\ replan_fail_count' = 0 /\ exec_state' = "EXEC_TRAJ"
            /\ UNCHANGED <<need_hover_stop, flag_escape_emergency, status_q>>
       ELSE AfterFailure("REPLAN_TRAJ") /\ ReportFailure(ReplanFails)
  /\ UNCHANGED <<have_odom, have_target, have_trigger, enable_fail_safe, mandatory_stop, waiting>>

Finished == traj.at = traj.to
touch_the_goal == traj.to = final_goal

\* EXEC_TRAJ: an occupied goal is moved and replanned, a finished one is given up, and a
\* trajectory is replanned from time to time.  Stuck detection has the last word.
execTrajectory(odom, goal, stuck) ==
  /\ exec_state = "EXEC_TRAJ"
  /\ mondifyInCollisionFinalGoal(odom, goal)
  /\ LET moved == goal # final_goal
         reached == ~moved /\ Finished /\ touch_the_goal
     IN  /\ have_target' = (have_target /\ ~reached)
         /\ have_trigger' = (have_trigger /\ ~reached)
         /\ exec_state' = IF stuck THEN "EMERGENCY_STOP"
                          ELSE IF reached THEN "WAIT_TARGET" ELSE "REPLAN_TRAJ"
  /\ need_hover_stop' = (need_hover_stop \/ stuck)
  /\ flag_escape_emergency' = (flag_escape_emergency \/ stuck)
  /\ UNCHANGED <<have_odom, replan_fail_count, enable_fail_safe, mandatory_stop, waiting, traj,
                 status_q>>

\* EMERGENCY_STOP, first tick: a trajectory that stops here.
execEmergencyStop(odom) ==
  /\ exec_state = "EMERGENCY_STOP" /\ flag_escape_emergency
  /\ callEmergencyStop(odom)
  /\ flag_escape_emergency' = FALSE
  /\ UNCHANGED <<exec_state, have_odom, goal_vars, replan_fail_count, need_hover_stop,
                 enable_fail_safe, mandatory_stop, waiting, status_q>>

\* EMERGENCY_STOP, later, with the vehicle at rest: resume the goal or drop it.
execEmergencyExit ==
  /\ exec_state = "EMERGENCY_STOP" /\ ~flag_escape_emergency /\ enable_fail_safe
  /\ need_hover_stop' = FALSE
  /\ IF ~need_hover_stop \/ (have_target /\ have_trigger /\ ~mandatory_stop)
       THEN exec_state' = "GEN_NEW_TRAJ" /\ UNCHANGED <<have_target, have_trigger>>
       ELSE /\ exec_state' = "WAIT_TARGET"
            /\ have_target' = FALSE /\ have_trigger' = FALSE
  /\ UNCHANGED <<have_odom, final_goal, global_start, replan_fail_count, flag_escape_emergency,
                 enable_fail_safe, mandatory_stop, waiting, traj, status_q>>

-------------------------------------------------------------------------------
(* The other callbacks.                                                     *)

Checked == exec_state \notin {"WAIT_TARGET", "EMERGENCY_STOP"} /\ traj # None

\* checkCollisionCallback: the trajectory ahead is blocked.  A new one makes the state
\* EXEC_TRAJ, whatever it was, lost depth images included; otherwise stop when the
\* obstacle is near and replan when it is not.
checkCollisionDanger(odom, goal, success, near, depth_lost) ==
  /\ Checked /\ ~Finished
  /\ planFromLocalTraj(odom, goal, success)
  /\ exec_state' = IF success THEN "EXEC_TRAJ"
                   ELSE IF near THEN "EMERGENCY_STOP" ELSE "REPLAN_TRAJ"
  /\ enable_fail_safe' = (enable_fail_safe /\ ~depth_lost)
  /\ UNCHANGED <<have_odom, have_target, have_trigger, replan_fail_count, need_hover_stop,
                 flag_escape_emergency, mandatory_stop, waiting, status_q>>

\* checkCollisionCallback without depth images on a free trajectory: the emergency stop,
\* from which execEmergencyExit no longer leads back.
checkCollisionDepthLost ==
  /\ Checked
  /\ exec_state' = "EMERGENCY_STOP"
  /\ enable_fail_safe' = FALSE
  /\ UNCHANGED <<have_odom, goal_vars, replan_fail_count, need_hover_stop,
                 flag_escape_emergency, mandatory_stop, waiting, traj, status_q>>

waypointRejected ==
  /\ publishPlanningStatus("GOAL_REJECTED_OUTSIDE_MAP", None)
  /\ UNCHANGED <<exec_state, have_odom, goal_vars, replan_fail_count, stop_vars, waiting, traj>>

\* waypointCallback.  With a trajectory in execution the
\* loop ends at once; without one, the callback spins.
waypointCallback(odom, goal) ==
  /\ planNextWaypoint(odom, goal) /\ have_target' = TRUE
  /\ IF exec_state \in {"WAIT_TARGET", "EMERGENCY_STOP", "EXEC_TRAJ"}
       THEN have_trigger' = TRUE /\ UNCHANGED waiting
       ELSE waiting' = waiting + 1 /\ UNCHANGED have_trigger
  /\ exec_state' = IF exec_state = "EXEC_TRAJ" THEN "REPLAN_TRAJ" ELSE exec_state
  /\ UNCHANGED <<have_odom, replan_fail_count, stop_vars, traj, status_q>>

waypointExecuted ==
  /\ waiting > 0 /\ exec_state = "EXEC_TRAJ"
  /\ waiting' = waiting - 1
  /\ have_trigger' = TRUE /\ exec_state' = "REPLAN_TRAJ"
  /\ UNCHANGED <<have_odom, have_target, final_goal, global_start, replan_fail_count, stop_vars,
                 traj, status_q>>

\* After half a second the callback gives up; the goal stays set.
waypointTimeout ==
  /\ waiting > 0
  /\ waiting' = waiting - 1
  /\ UNCHANGED <<exec_state, have_odom, goal_vars, replan_fail_count, stop_vars, traj, status_q>>

mandatoryStopCallback ==
  /\ mandatory_stop' = TRUE /\ enable_fail_safe' = FALSE
  /\ exec_state' = "EMERGENCY_STOP"
  /\ UNCHANGED <<have_odom, goal_vars, replan_fail_count, need_hover_stop,
                 flag_escape_emergency, waiting, traj, status_q>>

odometryCallback ==
  /\ ~have_odom /\ have_odom' = TRUE
  /\ UNCHANGED <<exec_state, goal_vars, replan_fail_count, stop_vars, waiting, traj, status_q>>

===============================================================================
