---------------------------- MODULE RelayExecution ----------------------------
(***************************************************************************)
(* leader_safe_path_follower.cpp, the side of the follower (UAV1) that has  *)
(* its Diff-Planner fly to one relay waypoint after the other.  The node    *)
(* publishes goals and the safety hold of the controller, and hears of the  *)
(* planner only by status messages, and of its trajectory only by the       *)
(* commands that pass by.  Both vehicles are in the air.                    *)
(*                                                                          *)
(* Elapsed times and measured speeds are parameters of the timer.           *)
(***************************************************************************)
EXTENDS RelayStations

VARIABLES
  released,                       \* how many waypoints are queued
  active_relay_index,             \* the one to fly to, from 1
  pos,                            \* follower_odom_
  diff_wait_hold_active, diff_dynamic_hold_active,
  safety_hold,                    \* the last value published on planning/safety_hold
  follower_odom_fault_latched,
  diff_goal_published, diff_plan_response_received, diff_command_seen_for_goal,
  diff_accepted_goal,             \* where the planner says it flies, None when not valid
  diff_recovery_requested,
  diff_recovery_goal,             \* short goal on the route, None when not valid
  endpoint_captured,              \* diff_endpoint_capture_stamp_ is set
  relay_arrived,                  \* relay_arrival_stamp_ is set
  follower_landing_requested,
  goal_q                          \* planning/goal: at most the newest one

hold_vars == <<diff_wait_hold_active, diff_dynamic_hold_active, safety_hold>>
goal_state == <<diff_goal_published, diff_plan_response_received, diff_command_seen_for_goal,
                diff_accepted_goal>>
recovery_vars == <<diff_recovery_requested, diff_recovery_goal>>
arrival_vars == <<endpoint_captured, relay_arrived>>
exec_vars == <<released, active_relay_index, pos, hold_vars, follower_odom_fault_latched,
               goal_state, recovery_vars, arrival_vars, follower_landing_requested, goal_q>>

ExecInit ==
  /\ released = 0 /\ active_relay_index = 1 /\ pos = 0
  /\ diff_wait_hold_active = FALSE /\ diff_dynamic_hold_active = FALSE /\ safety_hold = FALSE
  /\ follower_odom_fault_latched = FALSE
  /\ diff_goal_published = FALSE /\ diff_plan_response_received = FALSE
  /\ diff_command_seen_for_goal = FALSE /\ diff_accepted_goal = None
  /\ diff_recovery_requested = FALSE /\ diff_recovery_goal = None
  /\ endpoint_captured = FALSE /\ relay_arrived = FALSE
  /\ follower_landing_requested = FALSE
  /\ goal_q = <<>>

terminal_relayLate == active_relay_index > Terminal
terminal_relay == active_relay_index = Terminal
desired == Relays[active_relay_index]

-------------------------------------------------------------------------------
(* Callbacks.                                                               *)

\* setDiffWaitPositionHold(active): a change is published, unless it would release the
\* hold for a dynamic obstacle.
setDiffWaitPositionHoldBlind(active) ==
  /\ diff_wait_hold_active' = active
  /\ safety_hold' = IF diff_wait_hold_active = active THEN safety_hold ELSE active
setDiffWaitPositionHold(active) ==
  /\ diff_wait_hold_active' = active
  /\ safety_hold' = IF diff_wait_hold_active = active \/ (~active /\ diff_dynamic_hold_active)
                      THEN safety_hold ELSE active

diffStatusCallback(m) ==
  /\ diff_plan_response_received' = TRUE
  /\ IF m.kind = "TRAJECTORY_PUBLISHED"
       THEN /\ setDiffWaitPositionHold(FALSE)
            /\ diff_accepted_goal' = m.goal
            /\ UNCHANGED <<diff_goal_published, diff_recovery_requested>>
       ELSE /\ setDiffWaitPositionHold(TRUE)
            /\ diff_accepted_goal' = None
            /\ diff_goal_published' = FALSE /\ diff_recovery_requested' = TRUE
  /\ UNCHANGED <<released, active_relay_index, pos, diff_dynamic_hold_active,
                 follower_odom_fault_latched, diff_command_seen_for_goal, diff_recovery_goal,
                 arrival_vars, follower_landing_requested, goal_q>>

diffCommandCallback ==
  /\ diff_command_seen_for_goal' = TRUE
  /\ UNCHANGED <<released, active_relay_index, pos, hold_vars, follower_odom_fault_latched,
                 diff_goal_published, diff_plan_response_received, diff_accepted_goal,
                 recovery_vars, arrival_vars, follower_landing_requested, goal_q>>

\* appendRelayWaypoint
relayReleased ==
  /\ released < Len(Relays)
  /\ released' = released + 1
  /\ UNCHANGED <<active_relay_index, pos, hold_vars, follower_odom_fault_latched, goal_state,
                 recovery_vars, arrival_vars, follower_landing_requested, goal_q>>

\* followerOdomCallback: a sample that jumped is not used, the first one latches the fault.
followerOdomJump ==
  /\ ~follower_odom_fault_latched
  /\ follower_odom_fault_latched' = TRUE /\ safety_hold' = TRUE
  /\ UNCHANGED <<released, active_relay_index, pos, diff_wait_hold_active,
                 diff_dynamic_hold_active, goal_state, recovery_vars, arrival_vars,
                 follower_landing_requested, goal_q>>

followerOdomCallback(station) ==
  /\ pos' = station
  /\ UNCHANGED <<released, active_relay_index, hold_vars, follower_odom_fault_latched,
                 goal_state, recovery_vars, arrival_vars, follower_landing_requested, goal_q>>

-------------------------------------------------------------------------------
(* handleDiffPlannerExecution.  What the code computes on its way down, in  *)
(* the order it computes it.                                                *)

recovery_reached ==
  /\ diff_recovery_goal # None
  /\ pos = IF diff_accepted_goal # None THEN diff_accepted_goal ELSE diff_recovery_goal

accepted == IF recovery_reached THEN None ELSE diff_accepted_goal
recovery_due == (diff_recovery_requested \/ recovery_reached) /\ ~terminal_relay
recovery_goalPast ==
  IF recovery_due THEN pos + 1 ELSE IF recovery_reached THEN None ELSE diff_recovery_goal
recovery_goal ==
  IF recovery_due /\ pos < desired THEN pos + 1
  ELSE IF recovery_reached THEN None ELSE diff_recovery_goal
recovery_left == (diff_recovery_requested \/ recovery_reached) /\ terminal_relay

command_goal == IF recovery_goal # None THEN recovery_goal ELSE desired
arrival_goalAccepted == IF accepted # None THEN accepted ELSE desired
arrival_goal == IF ~terminal_relay /\ accepted # None THEN accepted ELSE desired

\* The wait hold set by this tick, after an obstacle hold that may have ended.
HoldAfterTick(wait) ==
  /\ diff_dynamic_hold_active' = FALSE
  /\ diff_wait_hold_active' = (diff_wait_hold_active \/ wait)
  /\ safety_hold' = IF wait /\ ~diff_wait_hold_active THEN TRUE
                    ELSE IF diff_dynamic_hold_active /\ ~diff_wait_hold_active THEN FALSE
                    ELSE safety_hold

still_published == diff_goal_published /\ ~recovery_reached /\ ~diff_dynamic_hold_active

keepRecovery ==
  diff_recovery_requested' = recovery_left /\ diff_recovery_goal' = recovery_goal

\* No waypoint left: wait for the leader.
timerWait ==
  /\ active_relay_index > released
  /\ setDiffWaitPositionHold(TRUE)
  /\ UNCHANGED <<released, active_relay_index, pos, diff_dynamic_hold_active,
                 follower_odom_fault_latched, goal_state, recovery_vars, arrival_vars,
                 follower_landing_requested, goal_q>>

\* An obstacle crosses the next half metre: hold, and send the goal again afterwards.
timerBlocked ==
  /\ active_relay_index <= released /\ command_goal # pos
  /\ keepRecovery
  /\ diff_dynamic_hold_active' = TRUE
  /\ safety_hold' = (safety_hold \/ ~diff_dynamic_hold_active)
  /\ diff_goal_published' = (diff_goal_published /\ ~recovery_reached /\ diff_dynamic_hold_active)
  /\ diff_accepted_goal' = accepted
  /\ UNCHANGED <<released, active_relay_index, pos, diff_wait_hold_active,
                 follower_odom_fault_latched, diff_plan_response_received,
                 diff_command_seen_for_goal, arrival_vars, follower_landing_requested, goal_q>>

endpoint_capture(near) == ~terminal_relay /\ accepted # None /\ pos = accepted /\ near
captured_dwell_complete(near, dwell) == endpoint_capture(near) /\ endpoint_captured /\ dwell
arrived(slow, near, dwell) ==
  (pos = arrival_goal /\ slow) \/ captured_dwell_complete(near, dwell)
dwell_complete(near, dwell) ==
  captured_dwell_complete(near, dwell) \/ (relay_arrived /\ dwell)

\* Near the goal, the time there not over.
timerDwell(slow, near, dwell) ==
  /\ arrived(slow, near, dwell) /\ ~dwell_complete(near, dwell)
  /\ relay_arrived' = TRUE
  /\ endpoint_captured' = endpoint_capture(near)
  /\ HoldAfterTick(endpoint_capture(near) /\ ~endpoint_captured)
  /\ diff_goal_published' = still_published /\ diff_accepted_goal' = accepted
  /\ keepRecovery
  /\ UNCHANGED <<active_relay_index, diff_plan_response_received, diff_command_seen_for_goal,
                 follower_landing_requested, goal_q>>

timerLand(slow, near, dwell) ==
  /\ arrived(slow, near, dwell) /\ dwell_complete(near, dwell) /\ terminal_relay
  /\ follower_landing_requested' = TRUE
  /\ relay_arrived' = TRUE /\ endpoint_captured' = FALSE
  /\ HoldAfterTick(FALSE)
  /\ diff_goal_published' = still_published /\ diff_accepted_goal' = accepted
  /\ keepRecovery
  /\ UNCHANGED <<active_relay_index, diff_plan_response_received, diff_command_seen_for_goal,
                 goal_q>>

timerArrived(slow, near, dwell) ==
  /\ arrived(slow, near, dwell) /\ dwell_complete(near, dwell) /\ ~terminal_relay
  /\ active_relay_index' = active_relay_index + 1
  /\ HoldAfterTick(TRUE)
  /\ relay_arrived' = FALSE /\ endpoint_captured' = FALSE
  /\ diff_goal_published' = FALSE /\ diff_accepted_goal' = None
  /\ diff_recovery_requested' = FALSE /\ diff_recovery_goal' = None
  /\ UNCHANGED <<diff_plan_response_received, diff_command_seen_for_goal,
                 follower_landing_requested, goal_q>>

command_staleHeld(stale) ==
  still_published /\ ~diff_wait_hold_active /\ diff_plan_response_received
    /\ diff_command_seen_for_goal /\ stale
command_stale(stale) ==
  still_published /\ diff_plan_response_received /\ diff_command_seen_for_goal /\ stale

\* On the way: a goal is sent when there is none, when its commands fell silent, or when
\* the planner never answered.
timerFly(slow, near, dwell, stale, retry) ==
  LET send == ~still_published \/ command_stale(stale) \/ (~diff_plan_response_received /\ retry)
  IN  /\ ~arrived(slow, near, dwell)
      /\ relay_arrived' = FALSE
      /\ endpoint_captured' = endpoint_capture(near)
      /\ HoldAfterTick((endpoint_capture(near) /\ ~endpoint_captured) \/ command_stale(stale))
      /\ keepRecovery
      /\ diff_goal_published' = TRUE
      /\ diff_plan_response_received' = (diff_plan_response_received /\ ~send)
      /\ diff_command_seen_for_goal' = (diff_command_seen_for_goal /\ ~send)
      /\ diff_accepted_goal' = IF send THEN None ELSE accepted
      /\ goal_q' = IF send THEN <<command_goal>> ELSE goal_q
      /\ UNCHANGED <<active_relay_index, follower_landing_requested>>

\* timerCallback: nothing happens after a fault of the odometry.
timerCallback(blocked, slow, near, dwell, stale, retry) ==
  /\ ~follower_odom_fault_latched
  /\ \/ timerWait
     \/ blocked /\ timerBlocked
     \/ /\ active_relay_index <= released
        /\ ~blocked
        /\ \/ timerDwell(slow, near, dwell)
           \/ timerLand(slow, near, dwell)
           \/ timerArrived(slow, near, dwell)
           \/ timerFly(slow, near, dwell, stale, retry)
        /\ UNCHANGED <<released, pos, follower_odom_fault_latched>>

\* timerCallback without fresh odometry of the leader.
timerLeaderStale ==
  /\ ~follower_odom_fault_latched
  /\ setDiffWaitPositionHold(TRUE)
  /\ UNCHANGED <<released, active_relay_index, pos, diff_dynamic_hold_active,
                 follower_odom_fault_latched, goal_state, recovery_vars, arrival_vars,
                 follower_landing_requested, goal_q>>

===============================================================================
