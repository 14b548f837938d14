-------------------------- MODULE RelayFlight_proofs --------------------------
(***************************************************************************)
(* Proofs about RelayFlight: the follower stays behind what its leader has  *)
(* cleared, is held when there is a reason, and lands at the landing point, *)
(* for any route, any limits and any number of disturbances.                *)
(***************************************************************************)
EXTENDS RelayFlight, SequenceTheorems, TLAPS

\* The stations up to the last waypoint released.
Limit == IF released = 0 THEN 0 ELSE Relays[released]
Cleared == 0 .. Limit

Kinds == {"TRAJECTORY_PUBLISHED", "PLANNING_FAILED", "GOAL_REJECTED_OUTSIDE_MAP"}
Message == [kind : Kinds, goal : Cleared \cup {None}]

\* What the executor knows lies in the cleared part.
ExecCleared ==
  /\ released \in 0 .. Len(Relays) /\ active_relay_index \in 1 .. Len(Relays)
  /\ active_relay_index <= released + 1
  /\ pos \in Cleared
  /\ diff_accepted_goal \in Cleared \cup {None} /\ diff_recovery_goal \in Cleared \cup {None}
  /\ goal_q = <<>> \/ \E g \in Cleared : goal_q = <<g>>

\* What the planner knows does, too.
PlanCleared ==
  /\ exec_state \in ExecStates
  /\ final_goal \in Cleared \cup {None} /\ global_start \in Cleared
  /\ replan_fail_count \in 0 .. MaxFail
  /\ waiting \in 0 .. MaxWaiting
  /\ traj \in {None} \cup [at : Cleared, to : Cleared]
  /\ status_q \in Seq(Message) /\ Len(status_q) <= StatusQueue

\* There is a goal where the planner plans to one, and a trajectory where one is flown.
PlanReady ==
  /\ final_goal = None => \/ exec_state \in {"INIT", "WAIT_TARGET"}
                          \/ exec_state = "EMERGENCY_STOP" /\ ~enable_fail_safe
  /\ have_target => final_goal # None
  /\ exec_state \in {"REPLAN_TRAJ", "EXEC_TRAJ"} \/ commands # "none" => traj # None
  /\ exec_state = "INIT" => traj = None

IInv ==
  /\ ExecCleared /\ PlanCleared /\ PlanReady
  /\ commands \in {"none", "new", "seen"} /\ faults \in 0 .. MaxFaults

-------------------------------------------------------------------------------
(* The stations.                                                            *)

LEMMA RelayStation ==
  /\ Terminal \in Nat \ {0} /\ DOMAIN Relays = 1 .. Terminal
  /\ \A i \in 1 .. Terminal : Relays[i] \in Nat
  /\ \A i, j \in 1 .. Terminal : i <= j => Relays[i] <= Relays[j]
<1>1. Terminal \in Nat \ {0} /\ DOMAIN Relays = 1 .. Terminal
  BY RelaysAssumption, EmptySeq DEF Terminal
<1>2. \A i \in 1 .. Terminal : Relays[i] \in Nat
  BY <1>1, RelaysAssumption
<1>3. \A i, j \in 1 .. Terminal : i < j => Relays[i] <= Relays[j]
  BY <1>1, RelaysAssumption
<1>4. \A i, j \in 1 .. Terminal : i <= j => Relays[i] <= Relays[j]
  <2> SUFFICES ASSUME NEW i \in 1 .. Terminal, NEW j \in 1 .. Terminal, i <= j
               PROVE  Relays[i] <= Relays[j]
    OBVIOUS
  <2>1. CASE i = j
    BY <1>2, <2>1
  <2>2. CASE i < j
    BY <1>3, <2>2
  <2> QED BY <2>1, <2>2
<1> QED BY <1>1, <1>2, <1>4

LEMMA ClearedStation ==
  ASSUME released \in 0 .. Len(Relays)
  PROVE  Limit \in Nat /\ Cleared \subseteq Nat /\ 0 \in Cleared /\ Cleared \subseteq Station
<1>1. Limit \in Nat /\ Limit <= Relays[Terminal]
  BY RelayStation DEF Limit, Terminal
<1>2. Relays[Terminal] \in Nat
  BY RelayStation
<1> QED BY <1>1, <1>2 DEF Cleared, Station

\* None is no trajectory.
LEMMA NoTrajectory ==
  ASSUME released \in 0 .. Len(Relays)
  PROVE  None \notin [at : Cleared, to : Cleared]
BY ClearedStation, RelaysAssumption

\* The waypoint to fly to is released.
LEMMA DesiredCleared ==
  ASSUME ExecCleared, active_relay_index <= released
  PROVE  desired \in Cleared
<1>1. released \in 1 .. Terminal /\ active_relay_index \in 1 .. Terminal
  BY RelayStation DEF ExecCleared, Terminal
<1>2. desired \in Nat /\ desired <= Limit
  BY <1>1, RelayStation DEF desired, Limit
<1> QED BY <1>1, <1>2, ClearedStation DEF Cleared, ExecCleared

\* A point between two cleared ones is cleared.
LEMMA TowardCleared ==
  ASSUME released \in 0 .. Len(Relays), NEW a \in Cleared, NEW b \in Cleared
  PROVE  Toward(a, b) \in Cleared
BY ClearedStation DEF Cleared, Toward

LEMMA GoalsCleared ==
  ASSUME IInv, NEW g \in Goals
  PROVE  g \in Cleared \cup {None} /\ (final_goal # None => g \in Cleared)
<1>1. /\ released \in 0 .. Len(Relays) /\ global_start \in Cleared
      /\ final_goal \in Cleared \cup {None}
  BY DEF IInv, ExecCleared, PlanCleared
<1>2. CASE g = final_goal
  BY <1>1, <1>2
<1>3. CASE g # final_goal
  <2>1. final_goal # None /\ g \in Station
        /\ \/ global_start <= g /\ g < final_goal
           \/ final_goal < g /\ g <= global_start
    BY <1>3 DEF Goals
  <2>2. g \in Nat
    BY <2>1, RelayStation DEF Station
  <2> QED BY <1>1, <2>1, <2>2, ClearedStation DEF Cleared
<1> QED BY <1>2, <1>3

\* A moved goal, and the global trajectory planned to it, are cleared.
LEMMA GoalMoved ==
  ASSUME IInv, NEW goal \in Goals, final_goal # None, mondifyInCollisionFinalGoal(pos, goal)
  PROVE  goal \in Cleared /\ goal # None /\ final_goal' = goal /\ global_start' \in Cleared
<1>1. goal \in Cleared
  BY GoalsCleared
<1>2. goal # None
  BY <1>1, ClearedStation, RelaysAssumption DEF IInv, ExecCleared
<1>3. final_goal' = goal /\ global_start' \in {global_start, pos}
  BY DEF mondifyInCollisionFinalGoal, planNextWaypoint
<1> QED BY <1>1, <1>2, <1>3 DEF IInv, ExecCleared, PlanCleared

-------------------------------------------------------------------------------
(* The planner.                                                             *)

LEMMA StatusCleared ==
  ASSUME status_q \in Seq(Message), Len(status_q) <= StatusQueue, UNCHANGED released,
         NEW kind \in Kinds, NEW goal \in Cleared \cup {None}, publishPlanningStatus(kind, goal)
  PROVE  status_q' \in Seq(Message)' /\ Len(status_q') <= StatusQueue
<1> DEFINE m == [kind |-> kind, goal |-> goal]
<1>1. m \in Message /\ Message' = Message
  BY DEF Message, Cleared, Limit
<1>2. status_q' = IF Len(status_q) < StatusQueue
                    THEN Append(status_q, m) ELSE Append(Tail(status_q), m)
  BY DEF publishPlanningStatus
<1> HIDE DEF m
<1>3. Len(status_q) \in Nat
  BY LenProperties
<1>4. CASE Len(status_q) < StatusQueue
  BY <1>1, <1>2, <1>3, <1>4, AppendProperties, LimitsAssumption
<1>5. CASE ~(Len(status_q) < StatusQueue)
  <2>1. status_q # <<>>
    BY <1>3, <1>5, LimitsAssumption, EmptySeq
  <2>2. Tail(status_q) \in Seq(Message) /\ Len(Tail(status_q)) = Len(status_q) - 1
    BY <2>1, HeadTailProperties
  <2> QED BY <1>1, <1>2, <1>3, <1>5, <2>2, AppendProperties, LimitsAssumption
<1> QED BY <1>4, <1>5

LEMMA PlannerInv == IInv /\ PlannerStep /\ UNCHANGED exec_vars => IInv'
<1> SUFFICES ASSUME IInv, PlannerStep, UNCHANGED exec_vars PROVE IInv'
  OBVIOUS
<1> USE DEF ExecStates
<1>1. UNCHANGED <<released, active_relay_index, pos, diff_accepted_goal, diff_recovery_goal,
                  goal_q>>
  BY DEF exec_vars, goal_state, recovery_vars
<1>2. Cleared' = Cleared /\ Message' = Message /\ ExecCleared'
  <2>1. Cleared' = Cleared
    BY <1>1 DEF Cleared, Limit
  <2> QED BY <1>1, <2>1 DEF Message, IInv, ExecCleared
<1>3. faults' \in 0 .. MaxFaults
  <2>1. PICK bad : Disturbed(bad)
    BY DEF PlannerStep, PlannerStarts, PlannerGlobal, PlannerReplan, PlannerExec, PlannerStops,
       PlannerResumes, PlannerChecks, PlannerInputs, PlannerStopped
  <2> QED BY <2>1, BoundsAssumption DEF IInv, Disturbed
<1>4. /\ pos \in Cleared /\ released \in 0 .. Len(Relays)
      /\ status_q \in Seq(Message) /\ Len(status_q) <= StatusQueue
      /\ commands \in {"none", "new", "seen"}
  BY DEF IInv, ExecCleared, PlanCleared
<1>5. ASSUME NEW published, Served(published) PROVE commands' \in {"none", "new", "seen"}
  BY <1>4, <1>5 DEF Served
<1>6. CASE PlannerStarts
  <2>1. Served(FALSE)
    BY <1>6 DEF PlannerStarts
  <2>2. PlanCleared'
    BY <1>2, <1>6 DEF PlannerStarts, execInit, execWaitTarget, IInv, PlanCleared, goal_vars,
       stop_vars
  <2>3. PlanReady'
    BY <1>6, <2>1 DEF PlannerStarts, execInit, execWaitTarget, IInv, PlanReady, goal_vars,
       stop_vars, Served
  <2> QED BY <1>2, <1>3, <1>5, <2>1, <2>2, <2>3 DEF IInv
<1>7. CASE \E goal \in Goals, ok \in BOOLEAN : PlannerGlobal(goal, ok) \/ PlannerReplan(goal, ok)
  <2>1. PICK goal \in Goals, ok \in BOOLEAN : PlannerGlobal(goal, ok) \/ PlannerReplan(goal, ok)
    BY <1>7
  <2>2. /\ exec_state \in {"SEQUENTIAL_START", "GEN_NEW_TRAJ", "REPLAN_TRAJ"}
        /\ UNCHANGED <<have_target, have_trigger, enable_fail_safe, waiting>>
        /\ Served(ok) /\ mondifyInCollisionFinalGoal(pos, goal)
    BY <2>1 DEF PlannerGlobal, PlannerReplan, execGlobal, execReplan, planFromGlobalTraj,
       planFromLocalTraj, callReboundReplan
  <2>3. goal \in Cleared /\ goal # None /\ final_goal' = goal /\ global_start' \in Cleared
    <3>1. final_goal # None
      BY <2>2 DEF IInv, PlanReady
    <3> QED BY <2>2, <3>1, GoalMoved
  <2>4. /\ traj' \in {None} \cup [at : Cleared, to : Cleared]
        /\ ok => traj' # None
        /\ ~ok => traj' = traj
    <3>1. CASE PlannerGlobal(goal, ok)
      <4>1. traj' = IF ok THEN [at |-> pos, to |-> goal] ELSE traj
        BY <3>1 DEF PlannerGlobal, execGlobal, planFromGlobalTraj, callReboundReplan, At
      <4>2. [at |-> pos, to |-> goal] \in [at : Cleared, to : Cleared]
        BY <1>4, <2>3
      <4>3. traj \in {None} \cup [at : Cleared, to : Cleared]
        BY DEF IInv, PlanCleared
      <4> QED BY <4>1, <4>2, <4>3, NoTrajectory, <1>4
    <3>2. CASE PlannerReplan(goal, ok)
      <4>1. traj' = IF ok THEN [at |-> traj.at, to |-> goal] ELSE traj
        BY <3>2 DEF PlannerReplan, execReplan, planFromLocalTraj, callReboundReplan, At
      <4>2. traj \in [at : Cleared, to : Cleared]
        BY <3>2 DEF PlannerReplan, execReplan, IInv, PlanCleared, PlanReady
      <4>3. [at |-> traj.at, to |-> goal] \in [at : Cleared, to : Cleared]
        BY <2>3, <4>2
      <4> QED BY <4>1, <4>2, <4>3, NoTrajectory, <1>4
    <3> QED BY <2>1, <3>1, <3>2
  <2>5. /\ replan_fail_count' \in 0 .. MaxFail
        /\ ok => exec_state' = "EXEC_TRAJ"
        /\ ~ok => exec_state' \in {exec_state, "EMERGENCY_STOP"}
    BY <2>1, LimitsAssumption DEF PlannerGlobal, PlannerReplan, execGlobal, execReplan,
       AfterFailure, IInv, PlanCleared
  <2>6. status_q' \in Seq(Message) /\ Len(status_q') <= StatusQueue
    <3>1. \/ UNCHANGED status_q
          \/ publishPlanningStatus("TRAJECTORY_PUBLISHED", goal)
          \/ publishPlanningStatus("PLANNING_FAILED", None)
      BY <2>1 DEF PlannerGlobal, PlannerReplan, execGlobal, execReplan, ReportFailure
    <3>2. "TRAJECTORY_PUBLISHED" \in Kinds /\ "PLANNING_FAILED" \in Kinds
      BY DEF Kinds
    <3> QED BY <1>1, <1>2, <1>4, <2>3, <3>1, <3>2, StatusCleared
  <2>7. PlanCleared'
    BY <1>2, <2>2, <2>3, <2>4, <2>5, <2>6 DEF IInv, PlanCleared
  <2>8. PlanReady'
    BY <2>2, <2>3, <2>4, <2>5 DEF IInv, PlanReady, Served
  <2> QED BY <1>2, <1>3, <1>5, <2>2, <2>7, <2>8 DEF IInv
<1>8. CASE \E goal \in Goals, ok \in BOOLEAN : PlannerExec(goal, ~ok)
  <2>1. PICK goal \in Goals, ok \in BOOLEAN : PlannerExec(goal, ~ok)
    BY <1>8
  <2>2. /\ exec_state = "EXEC_TRAJ" /\ mondifyInCollisionFinalGoal(pos, goal)
        /\ exec_state' \in {"EMERGENCY_STOP", "WAIT_TARGET", "REPLAN_TRAJ"}
        /\ have_target' => have_target
        /\ UNCHANGED <<replan_fail_count, enable_fail_safe, waiting, traj, status_q>>
        /\ commands' = commands
    BY <2>1 DEF PlannerExec, execTrajectory, Served
  <2>3. goal \in Cleared /\ goal # None /\ final_goal' = goal /\ global_start' \in Cleared
    <3>1. final_goal # None
      BY <2>2 DEF IInv, PlanReady
    <3> QED BY <2>2, <3>1, GoalMoved
  <2>4. PlanCleared' /\ PlanReady'
    BY <1>2, <2>2, <2>3 DEF IInv, PlanCleared, PlanReady
  <2> QED BY <1>2, <1>3, <2>2, <2>4 DEF IInv
<1>9. CASE PlannerStops
  <2>1. /\ exec_state = "EMERGENCY_STOP" /\ traj' = [at |-> pos, to |-> pos] /\ commands' = "new"
        /\ UNCHANGED <<exec_state, have_target, final_goal, global_start, replan_fail_count,
                       enable_fail_safe, waiting, status_q>>
    BY <1>9 DEF PlannerStops, execEmergencyStop, callEmergencyStop, At, Served, goal_vars
  <2>2. traj' \in [at : Cleared, to : Cleared]
    BY <1>4, <2>1
  <2>3. PlanCleared'
    BY <1>2, <2>1, <2>2 DEF IInv, PlanCleared
  <2>4. traj' # None
    BY <1>4, <2>2, ClearedStation, RelaysAssumption
  <2>5. PlanReady'
    BY <2>1, <2>4 DEF IInv, PlanReady
  <2> QED BY <1>2, <1>3, <2>1, <2>3, <2>5 DEF IInv
<1>10. CASE PlannerResumes
  <2>1. /\ exec_state = "EMERGENCY_STOP" /\ enable_fail_safe
        /\ exec_state' \in {"GEN_NEW_TRAJ", "WAIT_TARGET"}
        /\ have_target' => have_target
        /\ UNCHANGED <<final_goal, global_start, replan_fail_count, enable_fail_safe, waiting,
                       traj, status_q, commands>>
    BY <1>10 DEF PlannerResumes, execEmergencyExit, Served
  <2>2. PlanCleared' /\ PlanReady'
    BY <1>2, <2>1 DEF IInv, PlanCleared, PlanReady
  <2> QED BY <1>2, <1>3, <2>1, <2>2 DEF IInv
<1>11. CASE PlannerChecks
  <2>1. /\ exec_state \notin {"WAIT_TARGET", "EMERGENCY_STOP"} /\ traj # None
        /\ UNCHANGED <<have_target, replan_fail_count, waiting, status_q>>
    BY <1>11 DEF PlannerChecks, checkCollisionDanger, checkCollisionDepthLost, Checked, goal_vars
  <2>2. final_goal # None /\ exec_state # "INIT"
    BY <2>1 DEF IInv, PlanReady
  <2>3. CASE \E goal \in Goals, success, depth_lost \in BOOLEAN : \E near \in Free(~success) :
               checkCollisionDanger(pos, goal, success, near, depth_lost) /\ Served(success)
    <3>1. PICK goal \in Goals, success \in BOOLEAN, depth_lost \in BOOLEAN, near \in BOOLEAN :
            checkCollisionDanger(pos, goal, success, near, depth_lost) /\ Served(success)
      BY <2>3 DEF Free
    <3>2. /\ mondifyInCollisionFinalGoal(pos, goal)
          /\ traj' = IF success THEN [at |-> traj.at, to |-> goal] ELSE traj
          /\ exec_state' \in {"EXEC_TRAJ", "EMERGENCY_STOP", "REPLAN_TRAJ"}
      BY <3>1 DEF checkCollisionDanger, planFromLocalTraj, callReboundReplan, At
    <3>3. goal \in Cleared /\ goal # None /\ final_goal' = goal /\ global_start' \in Cleared
      BY <2>2, <3>2, GoalMoved
    <3>4. traj \in [at : Cleared, to : Cleared]
      BY <2>1 DEF IInv, PlanCleared
    <3>5. traj' \in [at : Cleared, to : Cleared] /\ traj' # None
      <4>1. [at |-> traj.at, to |-> goal] \in [at : Cleared, to : Cleared]
        BY <3>3, <3>4
      <4>2. traj' \in [at : Cleared, to : Cleared]
        BY <3>2, <3>4, <4>1
      <4> QED BY <1>4, <4>2, ClearedStation, RelaysAssumption
    <3>6. PlanCleared' /\ PlanReady'
      BY <1>2, <2>1, <2>2, <3>2, <3>3, <3>5 DEF IInv, PlanCleared, PlanReady
    <3> QED BY <1>2, <1>3, <1>5, <3>1, <3>6 DEF IInv
  <2>4. CASE checkCollisionDepthLost /\ Served(FALSE)
    <3>1. /\ exec_state' = "EMERGENCY_STOP" /\ enable_fail_safe' = FALSE
          /\ UNCHANGED <<final_goal, global_start, traj, commands>>
      BY <2>4 DEF checkCollisionDepthLost, goal_vars, Served
    <3>2. PlanCleared' /\ PlanReady'
      BY <1>2, <2>1, <3>1 DEF IInv, PlanCleared, PlanReady
    <3> QED BY <1>2, <1>3, <1>5, <2>4, <3>2 DEF IInv
  <2> QED BY <1>11, <2>3, <2>4 DEF PlannerChecks
<1>12. CASE PlannerInputs
  <2>1. /\ exec_state' = exec_state \/ (exec_state = "EXEC_TRAJ" /\ exec_state' = "REPLAN_TRAJ")
        /\ waiting' = waiting \/ (waiting > 0 /\ waiting' = waiting - 1)
        /\ UNCHANGED <<have_target, final_goal, global_start, replan_fail_count,
                       enable_fail_safe, traj, status_q, commands>>
    BY <1>12 DEF PlannerInputs, waypointExecuted, waypointTimeout, odometryCallback, goal_vars,
       stop_vars, Served
  <2>2. waiting' \in 0 .. MaxWaiting
    BY <2>1, BoundsAssumption DEF IInv, PlanCleared
  <2>3. PlanCleared' /\ PlanReady'
    BY <1>2, <2>1, <2>2 DEF IInv, PlanCleared, PlanReady
  <2> QED BY <1>2, <1>3, <2>1, <2>3 DEF IInv
<1>13. CASE PlannerStopped
  <2>1. /\ exec_state' = "EMERGENCY_STOP" /\ enable_fail_safe' = FALSE
        /\ UNCHANGED <<have_target, final_goal, global_start, replan_fail_count, waiting, traj,
                       status_q, commands>>
    BY <1>13 DEF PlannerStopped, mandatoryStopCallback, goal_vars, Served
  <2>2. PlanCleared' /\ PlanReady'
    BY <1>2, <2>1 DEF IInv, PlanCleared, PlanReady
  <2> QED BY <1>2, <1>3, <2>1, <2>2 DEF IInv
<1> QED BY <1>6, <1>7, <1>8, <1>9, <1>10, <1>11, <1>12, <1>13 DEF PlannerStep

\* A goal taken is one the executor sent.
LEMMA GoalInv == IInv /\ (GoalTaken \/ GoalRefused) => IInv'
<1> SUFFICES ASSUME IInv, GoalTaken \/ GoalRefused PROVE IInv'
  OBVIOUS
<1> USE DEF ExecStates
<1>1. /\ TakeGoal /\ goal_q # <<>> /\ goal_q' = <<>>
      /\ UNCHANGED <<released, active_relay_index, pos, diff_accepted_goal, diff_recovery_goal,
                     commands>>
  BY DEF GoalTaken, GoalRefused, TakeGoal, goal_state, recovery_vars
<1>2. Cleared' = Cleared /\ Message' = Message /\ ExecCleared'
  <2>1. Cleared' = Cleared
    BY <1>1 DEF Cleared, Limit
  <2> QED BY <1>1, <2>1 DEF Message, IInv, ExecCleared
<1>3. faults' \in 0 .. MaxFaults
  BY BoundsAssumption DEF IInv, GoalTaken, GoalRefused, Disturbed
<1>4. CASE GoalTaken
  <2>1. /\ waiting < MaxWaiting /\ waypointCallback(pos, goal_q[1])
        /\ goal_q[1] \in Cleared /\ goal_q[1] # None
    BY <1>1, <1>4, ClearedStation, RelaysAssumption DEF GoalTaken, IInv, ExecCleared
  <2>2. /\ final_goal' = goal_q[1] /\ global_start' = pos /\ have_target'
        /\ waiting' \in {waiting, waiting + 1}
        /\ exec_state' \in {exec_state, "REPLAN_TRAJ"}
        /\ exec_state' # exec_state => exec_state = "EXEC_TRAJ"
        /\ UNCHANGED <<replan_fail_count, traj, status_q, enable_fail_safe>>
    BY <2>1 DEF waypointCallback, planNextWaypoint, stop_vars
  <2>3. waiting' \in 0 .. MaxWaiting /\ global_start' \in Cleared
    BY <2>1, <2>2, BoundsAssumption DEF IInv, ExecCleared, PlanCleared
  <2>4. PlanCleared' /\ PlanReady'
    BY <1>1, <1>2, <2>1, <2>2, <2>3 DEF IInv, PlanCleared, PlanReady
  <2> QED BY <1>1, <1>2, <1>3, <2>4 DEF IInv
<1>5. CASE GoalRefused
  <2>1. /\ publishPlanningStatus("GOAL_REJECTED_OUTSIDE_MAP", None)
        /\ UNCHANGED <<exec_state, have_target, final_goal, global_start, replan_fail_count,
                       enable_fail_safe, waiting, traj>>
    BY <1>5 DEF GoalRefused, waypointRejected, goal_vars, stop_vars
  <2>2. "GOAL_REJECTED_OUTSIDE_MAP" \in Kinds
    BY DEF Kinds
  <2>3. status_q' \in Seq(Message)' /\ Len(status_q') <= StatusQueue
    BY <1>1, <2>1, <2>2, StatusCleared DEF IInv, PlanCleared
  <2>4. PlanCleared' /\ PlanReady'
    BY <1>1, <1>2, <2>1, <2>3 DEF IInv, PlanCleared, PlanReady
  <2> QED BY <1>1, <1>2, <1>3, <2>4 DEF IInv
<1> QED BY <1>4, <1>5

-------------------------------------------------------------------------------
(* The server and the vehicle.                                              *)

LEMMA FlownInv == IInv /\ (TrajectoryAdvances \/ VehicleMoves \/ CommandsEnd) => IInv'
<1> SUFFICES ASSUME IInv, TrajectoryAdvances \/ VehicleMoves \/ CommandsEnd PROVE IInv'
  OBVIOUS
<1>1. UNCHANGED <<released, active_relay_index, diff_accepted_goal, diff_recovery_goal, goal_q,
                  exec_state, have_target, final_goal, global_start, replan_fail_count,
                  enable_fail_safe, waiting, status_q>>
  BY DEF TrajectoryAdvances, VehicleMoves, CommandsEnd, followerOdomCallback, exec_vars, diff_vars,
     goal_state, recovery_vars, goal_vars, stop_vars
<1>2. Cleared' = Cleared /\ Message' = Message
  <2>1. Cleared' = Cleared
    BY <1>1 DEF Cleared, Limit
  <2> QED BY <2>1 DEF Message
<1>3. faults' \in 0 .. MaxFaults
  BY BoundsAssumption DEF IInv, TrajectoryAdvances, VehicleMoves, CommandsEnd, Disturbed
<1>4. /\ released \in 0 .. Len(Relays) /\ pos \in Cleared
      /\ traj \in {None} \cup [at : Cleared, to : Cleared]
  BY DEF IInv, ExecCleared, PlanCleared
<1>5. CASE TrajectoryAdvances
  <2>1. /\ traj # None /\ traj' = [traj EXCEPT !.at = Toward(traj.at, traj.to)]
        /\ UNCHANGED <<pos, commands>>
    BY <1>5 DEF TrajectoryAdvances, exec_vars
  <2>2. Toward(traj.at, traj.to) \in Cleared
    BY <1>4, <2>1, TowardCleared
  <2>3. traj' \in [at : Cleared, to : Cleared]
    BY <1>4, <2>1, <2>2
  <2>4. traj' # None
    BY <1>4, <2>3, ClearedStation, RelaysAssumption
  <2>5. exec_state # "INIT"
    BY <2>1 DEF IInv, PlanReady
  <2>6. ExecCleared' /\ PlanCleared' /\ PlanReady'
    BY <1>1, <1>2, <2>1, <2>3, <2>4, <2>5 DEF IInv, ExecCleared, PlanCleared, PlanReady
  <2> QED BY <1>3, <2>1, <2>6 DEF IInv
<1>6. CASE VehicleMoves
  <2>1. commands # "none" /\ pos' = Toward(pos, traj.at) /\ UNCHANGED <<traj, commands>>
    BY <1>6 DEF VehicleMoves, followerOdomCallback, diff_vars
  <2>2. traj # None
    BY <2>1 DEF IInv, PlanReady
  <2>3. pos' \in Cleared
    BY <1>4, <2>1, <2>2, TowardCleared
  <2>4. ExecCleared' /\ PlanCleared' /\ PlanReady'
    BY <1>1, <1>2, <2>1, <2>3 DEF IInv, ExecCleared, PlanCleared, PlanReady
  <2> QED BY <1>3, <2>1, <2>4 DEF IInv
<1>7. CASE CommandsEnd
  <2>1. commands' = "none" /\ UNCHANGED <<pos, traj>>
    BY <1>7 DEF CommandsEnd, exec_vars, diff_vars
  <2>2. ExecCleared' /\ PlanCleared' /\ PlanReady'
    BY <1>1, <1>2, <2>1 DEF IInv, ExecCleared, PlanCleared, PlanReady
  <2> QED BY <1>3, <2>1, <2>2 DEF IInv
<1> QED BY <1>5, <1>6, <1>7

-------------------------------------------------------------------------------
(* The executor.                                                            *)

\* What a tick computes on its way down is cleared.
LEMMA TickGoals ==
  ASSUME IInv, active_relay_index <= released
  PROVE  /\ command_goal \in Cleared
         /\ recovery_goal \in Cleared \cup {None}
         /\ accepted \in Cleared \cup {None}
<1>1. /\ desired \in Cleared /\ pos \in Cleared /\ Cleared = 0 .. Limit /\ Limit \in Nat
      /\ diff_accepted_goal \in Cleared \cup {None}
      /\ diff_recovery_goal \in Cleared \cup {None}
  BY DesiredCleared, ClearedStation DEF IInv, ExecCleared, Cleared
<1>2. pos < desired => pos + 1 \in Cleared
  BY <1>1
<1>3. recovery_goal \in Cleared \cup {None}
  BY <1>1, <1>2 DEF recovery_goal
<1> QED BY <1>1, <1>3 DEF command_goal, accepted

LEMMA TickInv ==
  \A blocked, slow, near, dwell, stale, retry :
    IInv /\ Tick(blocked, slow, near, dwell, stale, retry) => IInv'
<1> SUFFICES ASSUME NEW blocked, NEW slow, NEW near, NEW dwell, NEW stale, NEW retry, IInv,
                    Tick(blocked, slow, near, dwell, stale, retry)
             PROVE  IInv'
  OBVIOUS
<1>1. UNCHANGED <<diff_vars, commands>> /\ faults' \in 0 .. MaxFaults
  BY BoundsAssumption DEF Tick, Disturbed, IInv
<1>2. UNCHANGED <<released, pos>>
  BY DEF Tick, timerCallback, timerWait, timerBlocked
<1>3. Cleared' = Cleared /\ Message' = Message
  <2>1. Cleared' = Cleared
    BY <1>2 DEF Cleared, Limit
  <2> QED BY <2>1 DEF Message
<1>4. PlanCleared' /\ PlanReady'
  BY <1>1, <1>3 DEF IInv, PlanCleared, PlanReady, diff_vars, goal_vars, stop_vars
<1>5. ExecCleared'
  <2>1. CASE timerWait
    BY <1>2, <1>3, <2>1 DEF timerWait, IInv, ExecCleared, goal_state, recovery_vars
  <2>2. CASE active_relay_index <= released
    <3>1. /\ command_goal \in Cleared /\ recovery_goal \in Cleared \cup {None}
          /\ accepted \in Cleared \cup {None}
      BY <2>2, TickGoals
    <3>2. CASE timerBlocked
      BY <1>2, <1>3, <3>1, <3>2 DEF timerBlocked, keepRecovery, IInv, ExecCleared
    <3>3. CASE timerDwell(slow, near, dwell) \/ timerLand(slow, near, dwell)
      BY <1>2, <1>3, <3>1, <3>3 DEF timerDwell, timerLand, keepRecovery, IInv, ExecCleared
    <3>4. CASE timerArrived(slow, near, dwell)
      <4>1. active_relay_index # Len(Relays)
        BY <3>4 DEF timerArrived, terminal_relay, Terminal
      <4>2. Len(Relays) \in Nat
        BY RelayStation DEF Terminal
      <4>3. /\ active_relay_index' = active_relay_index + 1
            /\ diff_accepted_goal' = None /\ diff_recovery_goal' = None /\ goal_q' = goal_q
        BY <3>4 DEF timerArrived
      <4>4. active_relay_index' \in 1 .. Len(Relays) /\ active_relay_index' <= released + 1
        BY <2>2, <4>1, <4>2, <4>3 DEF IInv, ExecCleared
      <4> QED BY <1>2, <1>3, <4>3, <4>4 DEF IInv, ExecCleared
    <3>5. CASE timerFly(slow, near, dwell, stale, retry)
      <4>1. /\ active_relay_index' = active_relay_index /\ diff_recovery_goal' = recovery_goal
            /\ diff_accepted_goal' \in {None, accepted}
            /\ goal_q' \in {<<command_goal>>, goal_q}
        BY <3>5 DEF timerFly, keepRecovery
      <4>2. goal_q' = <<>> \/ \E g \in Cleared : goal_q' = <<g>>
        <5>1. CASE goal_q' = <<command_goal>>
          BY <3>1, <5>1
        <5>2. CASE goal_q' = goal_q
          BY <5>2 DEF IInv, ExecCleared
        <5> QED BY <4>1, <5>1, <5>2
      <4>3. /\ diff_accepted_goal' \in Cleared \cup {None}
            /\ diff_recovery_goal' \in Cleared \cup {None}
        BY <3>1, <4>1
      <4>4. /\ released' \in 0 .. Len(Relays) /\ active_relay_index' \in 1 .. Len(Relays)
            /\ active_relay_index' <= released' + 1 /\ pos' \in Cleared
        BY <1>2, <4>1 DEF IInv, ExecCleared
      <4> QED BY <1>3, <4>2, <4>3, <4>4 DEF ExecCleared
    <3> QED BY <2>1, <2>2, <3>2, <3>3, <3>4, <3>5 DEF Tick, timerCallback
  <2> QED BY <2>1, <2>2 DEF Tick, timerCallback, timerBlocked
<1> QED BY <1>1, <1>4, <1>5 DEF IInv

LEMMA ListenInv ==
  IInv /\ (StatusDelivered \/ CommandDelivered
            \/ ((timerLeaderStale \/ followerOdomJump) /\ Disturbed(TRUE)
                /\ UNCHANGED <<diff_vars, commands>>))
    => IInv'
<1> SUFFICES ASSUME IInv,
                    StatusDelivered \/ CommandDelivered
                    \/ ((timerLeaderStale \/ followerOdomJump) /\ Disturbed(TRUE)
                        /\ UNCHANGED <<diff_vars, commands>>)
             PROVE  IInv'
  OBVIOUS
<1>1. /\ UNCHANGED <<released, active_relay_index, pos, diff_recovery_goal, goal_q,
                     exec_state, have_target, final_goal, global_start, replan_fail_count,
                     enable_fail_safe, waiting, traj>>
      /\ commands' \in {"none", "new", "seen"} /\ (commands' # "none" => commands # "none")
  BY DEF StatusDelivered, CommandDelivered, diffStatusCallback, diffCommandCallback,
     timerLeaderStale, followerOdomJump, diff_vars, goal_vars, stop_vars, recovery_vars, IInv
<1>2. Cleared' = Cleared /\ Message' = Message
  <2>1. Cleared' = Cleared
    BY <1>1 DEF Cleared, Limit
  <2> QED BY <2>1 DEF Message
<1>3. faults' \in 0 .. MaxFaults
  BY BoundsAssumption DEF IInv, StatusDelivered, CommandDelivered, Disturbed
<1>4. /\ diff_accepted_goal' \in Cleared \cup {None}
      /\ status_q' \in Seq(Message) /\ Len(status_q') <= StatusQueue
  <2>1. CASE StatusDelivered
    <3>1. /\ status_q # <<>> /\ status_q' = Tail(status_q)
          /\ diff_accepted_goal' \in {None, Head(status_q).goal}
      BY <2>1 DEF StatusDelivered, diffStatusCallback
    <3>2. /\ Head(status_q) \in Message /\ Tail(status_q) \in Seq(Message)
          /\ Len(Tail(status_q)) = Len(status_q) - 1 /\ Len(status_q) \in Nat
      BY <3>1, HeadTailProperties, LenProperties DEF IInv, PlanCleared
    <3> QED BY <3>1, <3>2, LimitsAssumption DEF Message, IInv, PlanCleared
  <2>2. CASE ~StatusDelivered
    BY <2>2 DEF CommandDelivered, diffCommandCallback, timerLeaderStale, followerOdomJump,
       diff_vars, goal_state, IInv, ExecCleared, PlanCleared
  <2> QED BY <2>1, <2>2
<1>5. ExecCleared' /\ PlanCleared' /\ PlanReady'
  BY <1>1, <1>2, <1>4 DEF IInv, ExecCleared, PlanCleared, PlanReady
<1> QED BY <1>1, <1>3, <1>5 DEF IInv

\* One waypoint more clears more.
LEMMA ReleaseInv == IInv /\ LeaderReleases => IInv'
<1> SUFFICES ASSUME IInv, LeaderReleases PROVE IInv'
  OBVIOUS
<1>1. /\ released < Len(Relays) /\ released' = released + 1
      /\ UNCHANGED <<active_relay_index, pos, diff_accepted_goal, diff_recovery_goal, goal_q,
                     diff_vars, commands, faults>>
  BY DEF LeaderReleases, relayReleased, goal_state, recovery_vars
<1>2. Len(Relays) \in Nat /\ released \in 0 .. Len(Relays) /\ released' \in 0 .. Len(Relays)
  BY <1>1, RelayStation DEF IInv, ExecCleared, Terminal
<1>3. Cleared \subseteq Cleared'
  <2>1. Limit \in Nat /\ Limit' \in Nat /\ Limit <= Limit'
    BY <1>1, <1>2, RelayStation DEF Limit, Terminal
  <2> QED BY <2>1 DEF Cleared
<1>4. /\ Message \subseteq Message'
      /\ [at : Cleared, to : Cleared] \subseteq [at : Cleared', to : Cleared']
  BY <1>3 DEF Message
<1>5. ExecCleared'
  <2>1. active_relay_index' <= released' + 1
    BY <1>1, <1>2 DEF IInv, ExecCleared
  <2> QED BY <1>1, <1>2, <1>3, <2>1 DEF IInv, ExecCleared
<1>6. PlanCleared'
  <2>1. status_q' \in Seq(Message') /\ Len(status_q') <= StatusQueue
    BY <1>1, <1>4 DEF IInv, PlanCleared, diff_vars
  <2>2. /\ traj' \in {None} \cup [at : Cleared', to : Cleared']
        /\ final_goal' \in Cleared' \cup {None} /\ global_start' \in Cleared'
    BY <1>1, <1>3, <1>4 DEF IInv, PlanCleared, diff_vars, goal_vars
  <2> QED BY <1>1, <2>1, <2>2 DEF IInv, PlanCleared, diff_vars
<1>7. PlanReady'
  BY <1>1 DEF IInv, PlanReady, diff_vars, goal_vars, stop_vars
<1> QED BY <1>1, <1>5, <1>6, <1>7 DEF IInv

LEMMA InitInv == Init => IInv
<1> SUFFICES ASSUME Init PROVE IInv
  OBVIOUS
<1> USE DEF Init, ExecInit, DiffInit
<1>1. Len(Relays) \in Nat \ {0} /\ 0 \in Cleared
  BY RelayStation, ClearedStation DEF Terminal
<1>2. ExecCleared
  BY <1>1 DEF ExecCleared
<1>3. PlanCleared
  <2>1. status_q \in Seq(Message) /\ Len(status_q) = 0
    BY EmptySeq
  <2> QED BY <1>1, <2>1, LimitsAssumption, BoundsAssumption DEF PlanCleared, ExecStates
<1>4. PlanReady
  BY DEF PlanReady
<1> QED BY <1>2, <1>3, <1>4, BoundsAssumption DEF IInv

LEMMA StepInv == IInv /\ [Next]_vars => IInv'
<1> SUFFICES ASSUME IInv, [Next]_vars PROVE IInv'
  OBVIOUS
<1>1. CASE Planner
  BY <1>1, PlannerInv, GoalInv DEF Planner
<1>2. CASE Executor
  BY ZenonT(30), <1>2, TickInv, ListenInv DEF Executor
<1>3. CASE UNCHANGED vars
  <2>1. Cleared' = Cleared /\ Message' = Message
    <3>1. Cleared' = Cleared
      BY <1>3 DEF vars, exec_vars, Cleared, Limit
    <3> QED BY <3>1 DEF Message
  <2> QED BY <1>3, <2>1 DEF vars, exec_vars, diff_vars, goal_state, recovery_vars, goal_vars,
          stop_vars, IInv, ExecCleared, PlanCleared, PlanReady
<1> QED BY <1>1, <1>2, <1>3, FlownInv, ListenInv, ReleaseInv DEF Next

LEMMA AlwaysInv == Spec => []IInv
BY InitInv, StepInv, PTL DEF Spec

-------------------------------------------------------------------------------
(* The theorems.                                                            *)

\* Every variable keeps its type; in particular a goal is planned to, and a trajectory
\* followed, only where there is one.
THEOREM TypeCorrect == Spec => []TypeOK
<1>1. IInv => TypeOK
  <2> SUFFICES ASSUME IInv PROVE TypeOK
    OBVIOUS
  <2>1. Cleared \subseteq Station
    BY ClearedStation DEF IInv, ExecCleared
  <2>2. status_q \in Seq([kind : Kinds, goal : Station \cup {None}])
    <3>1. Message \subseteq [kind : Kinds, goal : Station \cup {None}]
      BY <2>1 DEF Message
    <3>2. \A S, T : S \subseteq T => Seq(S) \subseteq Seq(T)
      OBVIOUS
    <3> QED BY <3>1, <3>2 DEF IInv, PlanCleared
  <2>3. traj \in {None} \cup [at : Station, to : Station]
    BY <2>1 DEF IInv, PlanCleared
  <2>4. goal_q \in {<<>>} \cup {<<g>> : g \in Station}
    BY <2>1 DEF IInv, ExecCleared
  <2> QED BY <2>1, <2>2, <2>3, <2>4 DEF IInv, ExecCleared, PlanCleared, TypeOK, Kinds
<1> QED BY <1>1, AlwaysInv, PTL

\* handleDiffPlannerExecution, callReboundReplan: neither a goal the planner moved nor a
\* short goal of the recovery takes the follower beyond what its leader has cleared.
THEOREM BehindTheLeader == Spec => []NeverBeyondRelease
<1>1. IInv => NeverBeyondRelease
  BY ClearedStation DEF IInv, ExecCleared, NeverBeyondRelease, Cleared, Limit
<1> QED BY <1>1, AlwaysInv, PTL

\* The reasons for the hold, and what was last published of them.
HoldInv ==
  /\ {diff_wait_hold_active, diff_dynamic_hold_active, safety_hold} \subseteq BOOLEAN
  /\ HoldHasReason

\* The wait hold comes and goes with the value published.
LEMMA WaitHold ==
  ASSUME HoldInv, NEW active \in BOOLEAN, setDiffWaitPositionHold(active),
         UNCHANGED <<diff_dynamic_hold_active, follower_odom_fault_latched>>
  PROVE  HoldInv'
BY DEF HoldInv, HoldHasReason, setDiffWaitPositionHold

LEMMA AfterTickHold ==
  ASSUME HoldInv, NEW wait, HoldAfterTick(wait), UNCHANGED follower_odom_fault_latched
  PROVE  HoldInv'
BY DEF HoldInv, HoldHasReason, HoldAfterTick

LEMMA StepHold == HoldInv /\ [Next]_vars => HoldInv'
<1> SUFFICES ASSUME HoldInv, [Next]_vars PROVE HoldInv'
  OBVIOUS
<1>1. CASE UNCHANGED <<hold_vars, follower_odom_fault_latched>>
  BY <1>1 DEF hold_vars, HoldInv, HoldHasReason
<1>2. CASE Planner \/ TrajectoryAdvances \/ VehicleMoves \/ CommandsEnd \/ CommandDelivered
           \/ LeaderReleases \/ UNCHANGED vars
  BY <1>1, <1>2 DEF Planner, GoalTaken, GoalRefused, TakeGoal, TrajectoryAdvances,
     VehicleMoves, followerOdomCallback, CommandsEnd, CommandDelivered, diffCommandCallback,
     LeaderReleases, relayReleased, vars, exec_vars
<1>3. CASE StatusDelivered
  BY <1>3, WaitHold DEF StatusDelivered, diffStatusCallback
<1>4. CASE timerLeaderStale
  BY <1>4, WaitHold DEF timerLeaderStale
<1>5. CASE followerOdomJump
  BY <1>5 DEF followerOdomJump, HoldInv, HoldHasReason
<1>6. ASSUME NEW blocked, NEW slow, NEW near, NEW dwell, NEW stale, NEW retry,
             Tick(blocked, slow, near, dwell, stale, retry)
      PROVE  HoldInv'
  <2>1. CASE timerWait
    BY <2>1, WaitHold DEF timerWait
  <2>2. CASE timerBlocked
    BY <2>2 DEF timerBlocked, HoldInv, HoldHasReason
  <2>3. CASE /\ UNCHANGED follower_odom_fault_latched
             /\ timerDwell(slow, near, dwell) \/ timerLand(slow, near, dwell)
                  \/ timerArrived(slow, near, dwell) \/ timerFly(slow, near, dwell, stale, retry)
    BY <2>3, AfterTickHold DEF timerDwell, timerLand, timerArrived, timerFly
  <2> QED BY <1>6, <2>1, <2>2, <2>3 DEF Tick, timerCallback
<1>7. CASE Executor
  BY ZenonT(30), <1>4, <1>5, <1>6, <1>7 DEF Executor
<1> QED BY <1>2, <1>3, <1>7 DEF Next

\* setDiffWaitPositionHold, handleDiffPlannerExecution: two reasons share one topic, and no
\* order of ticks and status messages leaves the controller with the wrong one of the two.
THEOREM HoldIsRight == Spec => []HoldHasReason
<1>1. Init => HoldInv
  BY DEF Init, ExecInit, HoldInv, HoldHasReason
<1>2. HoldInv => HoldHasReason
  BY DEF HoldInv
<1> QED BY <1>1, <1>2, StepHold, PTL DEF Spec

\* handleDiffPlannerExecution: at the last waypoint only the waypoint itself counts as
\* arrival, never the end of a captured or moved trajectory.
THEOREM TerminalLanding == Spec => LandsAtTerminal
<1> DEFINE A == follower_landing_requested' # follower_landing_requested
                  => /\ pos = Relays[Terminal] /\ active_relay_index = Terminal
                     /\ ~diff_dynamic_hold_active'
<1>1. [Next]_vars => [A]_vars
  <2> SUFFICES ASSUME Next, follower_landing_requested' # follower_landing_requested
               PROVE  /\ pos = Relays[Terminal] /\ active_relay_index = Terminal
                      /\ ~diff_dynamic_hold_active'
    OBVIOUS
  <2>1. ~(Planner \/ TrajectoryAdvances \/ VehicleMoves \/ CommandsEnd \/ CommandDelivered
          \/ LeaderReleases \/ StatusDelivered \/ timerLeaderStale \/ followerOdomJump)
    BY DEF Planner, GoalTaken, GoalRefused, TakeGoal, TrajectoryAdvances,
       VehicleMoves, followerOdomCallback, CommandsEnd, CommandDelivered, diffCommandCallback,
       LeaderReleases, relayReleased, StatusDelivered, diffStatusCallback, timerLeaderStale,
       followerOdomJump, exec_vars
  <2>2. PICK blocked, slow, near, dwell, stale, retry :
          Tick(blocked, slow, near, dwell, stale, retry)
    BY <2>1 DEF Next, Executor
  <2>3. timerLand(slow, near, dwell)
    BY <2>2 DEF Tick, timerCallback, timerWait, timerBlocked, timerDwell, timerArrived, timerFly
  <2>4. terminal_relay /\ pos = arrival_goal
    BY <2>3 DEF timerLand, arrived, captured_dwell_complete, endpoint_capture
  <2> QED BY <2>3, <2>4 DEF terminal_relay, arrival_goal, desired, timerLand, HoldAfterTick
<1> QED BY <1>1, PTL DEF Spec, LandsAtTerminal

-------------------------------------------------------------------------------
(* The flight as an implementation of RelayJourney.                         *)

\* What a tick of the executor does is what its journey allows.
LEMMA TickJourney ==
  ASSUME IInv, HoldInv, HoldInv',
         NEW blocked, NEW slow, NEW near, NEW dwell, NEW stale, NEW retry,
         Tick(blocked, slow, near, dwell, stale, retry)
  PROVE  Journey!Next
<1>1. ~follower_odom_fault_latched /\ UNCHANGED <<released, pos, follower_odom_fault_latched>>
  BY DEF Tick, timerCallback, timerWait, timerBlocked
<1>2. CASE UNCHANGED <<active_relay_index, follower_landing_requested>>
  BY <1>1, <1>2 DEF Journey!Next, Journey!HoldChanges
<1>3. CASE timerWait \/ timerBlocked \/ timerDwell(slow, near, dwell)
           \/ timerFly(slow, near, dwell, stale, retry)
  <2>1. UNCHANGED <<active_relay_index, follower_landing_requested>>
    BY <1>3 DEF timerWait, timerBlocked, timerDwell, timerFly
  <2> QED BY <1>2, <2>1
<1>4. CASE timerArrived(slow, near, dwell) /\ active_relay_index <= released
  <2>1. /\ active_relay_index' = active_relay_index + 1 /\ diff_wait_hold_active'
        /\ UNCHANGED follower_landing_requested
    BY <1>4 DEF timerArrived, HoldAfterTick
  <2>2. safety_hold'
    BY <1>1, <2>1 DEF HoldInv, HoldHasReason
  <2>3. active_relay_index < Len(Relays)
    <3>1. active_relay_index # Terminal
      BY <1>4 DEF timerArrived, terminal_relay
    <3>2. active_relay_index \in 1 .. Len(Relays) /\ Len(Relays) \in Nat
      BY RelayStation DEF IInv, ExecCleared, Terminal
    <3> QED BY <3>1, <3>2 DEF Terminal
  <2> QED BY <1>1, <1>4, <2>1, <2>2, <2>3 DEF Journey!Next, Journey!GoOn
<1>5. CASE timerLand(slow, near, dwell) /\ active_relay_index <= released
  <2>1. terminal_relay /\ follower_landing_requested' /\ UNCHANGED active_relay_index
    BY <1>5 DEF timerLand
  <2>2. pos = desired
    BY <1>5, <2>1 DEF timerLand, arrived, captured_dwell_complete, endpoint_capture, arrival_goal
  <2> QED BY <1>1, <1>5, <2>1, <2>2
      DEF Journey!Next, Journey!AskToLand, terminal_relay, Terminal, desired
<1> QED BY <1>3, <1>4, <1>5 DEF Tick, timerCallback

LEMMA StepJourney ==
  IInv /\ HoldInv /\ IInv' /\ HoldInv' /\ [Next]_vars => [Journey!Next]_Journey!vars
<1> SUFFICES ASSUME IInv, HoldInv, IInv', HoldInv', [Next]_vars
             PROVE  [Journey!Next]_Journey!vars
  OBVIOUS
<1>1. CASE Planner \/ TrajectoryAdvances \/ CommandsEnd \/ CommandDelivered \/ UNCHANGED vars
  <2>1. UNCHANGED Journey!vars
    BY <1>1 DEF Planner, GoalTaken, GoalRefused, TakeGoal, TrajectoryAdvances,
       CommandsEnd, CommandDelivered, diffCommandCallback, vars, exec_vars, hold_vars,
       Journey!vars
  <2> QED BY <2>1
<1>2. CASE VehicleMoves
  <2>1. /\ ~safety_hold /\ ~follower_odom_fault_latched
        /\ UNCHANGED <<released, active_relay_index, hold_vars, follower_odom_fault_latched,
                       follower_landing_requested>>
    BY <1>2 DEF VehicleMoves, followerOdomCallback
  <2>2. pos' \in 0 .. Journey!Limit
    BY <2>1 DEF IInv, ExecCleared, Cleared, Limit, Journey!Limit
  <2> QED BY <2>1, <2>2 DEF Journey!Next, Journey!Fly, hold_vars
<1>3. CASE LeaderReleases
  BY <1>3 DEF LeaderReleases, relayReleased, hold_vars, Journey!Next, Journey!Clear
<1>4. CASE StatusDelivered \/ timerLeaderStale
  BY <1>4 DEF StatusDelivered, diffStatusCallback, timerLeaderStale, Journey!Next,
     Journey!HoldChanges
<1>5. CASE followerOdomJump
  BY <1>5 DEF followerOdomJump, Journey!Next, Journey!LoseOdometry
<1>6. CASE Executor
  BY ZenonT(30), <1>4, <1>5, <1>6, TickJourney DEF Executor
<1> QED BY <1>1, <1>2, <1>3, <1>4, <1>6 DEF Next

\* RelayExecution, DiffReplan: together they keep the promise of RelayJourney, whatever
\* status comes late and wherever the planner moves its goals.
THEOREM JourneyKept == Spec => KeepsJourney
<1>1. Init => Journey!Init /\ HoldInv
  BY DEF Init, ExecInit, Journey!Init, HoldInv, HoldHasReason
<1> QED BY <1>1, AlwaysInv, StepHold, StepJourney, PTL DEF Spec, Journey!Spec, KeepsJourney

\* Whoever keeps the promise of RelayJourney stays behind the leader, goes on only to
\* what it cleared, from one waypoint to the next and held, and asks to land after the whole
\* route was cleared.
THEOREM JourneyStaysBehind ==
  KeepsJourney =>
    /\ []LandsAfterLeader /\ []NeverBeyondRelease
    /\ [][active_relay_index' # active_relay_index
            => /\ active_relay_index' = active_relay_index + 1 /\ safety_hold'
               /\ active_relay_index <= released]_Journey!vars
<1> DEFINE Behind == /\ released \in 0 .. Len(Relays) /\ active_relay_index \in 1 .. Len(Relays)
                     /\ pos \in 0 .. Limit
                     /\ LandsAfterLeader
<1>0. Len(Relays) \in Nat \ {0}
  BY RelayStation DEF Terminal
<1>1. Journey!Init => Behind
  BY <1>0, RelayStation DEF Journey!Init, LandsAfterLeader, Limit
<1>2. Behind /\ [Journey!Next]_Journey!vars => Behind'
  <2> SUFFICES ASSUME Behind, [Journey!Next]_Journey!vars PROVE Behind'
    OBVIOUS
  <2>1. CASE Journey!Clear
    <3>1. /\ released' \in 1 .. Len(Relays) /\ released' = released + 1
          /\ UNCHANGED <<active_relay_index, pos, follower_landing_requested>>
      BY <1>0, <2>1 DEF Journey!Clear
    <3>2. Limit \in Nat /\ Limit' \in Nat /\ Limit <= Limit'
      BY <1>0, <3>1, RelayStation DEF Limit, Terminal
    <3>3. ~follower_landing_requested
      BY <1>0, <2>1 DEF Journey!Clear, LandsAfterLeader
    <3> QED BY <3>1, <3>2, <3>3 DEF LandsAfterLeader
  <2>2. CASE Journey!Fly
    BY <2>2 DEF Journey!Fly, Journey!Limit, Limit, LandsAfterLeader
  <2>3. CASE Journey!GoOn
    BY <1>0, <2>3 DEF Journey!GoOn, Limit, LandsAfterLeader, Terminal
  <2>4. CASE Journey!AskToLand
    BY <1>0, <2>4 DEF Journey!AskToLand, Limit, LandsAfterLeader, Terminal
  <2>5. CASE Journey!HoldChanges \/ Journey!LoseOdometry \/ UNCHANGED Journey!vars
    BY <2>5 DEF Journey!HoldChanges, Journey!LoseOdometry, Journey!vars, Limit, LandsAfterLeader
  <2> QED BY <2>1, <2>2, <2>3, <2>4, <2>5 DEF Journey!Next
<1>3. [Journey!Next]_Journey!vars
        => [active_relay_index' # active_relay_index
              => /\ active_relay_index' = active_relay_index + 1 /\ safety_hold'
                 /\ active_relay_index <= released]_Journey!vars
  BY DEF Journey!Next, Journey!Clear, Journey!Fly, Journey!GoOn, Journey!AskToLand,
     Journey!HoldChanges, Journey!LoseOdometry, Journey!vars
<1>4. Behind => NeverBeyondRelease /\ LandsAfterLeader
  BY RelayStation DEF NeverBeyondRelease, Limit, Terminal
<1> QED BY <1>1, <1>2, <1>3, <1>4, PTL DEF KeepsJourney, Journey!Spec

===============================================================================
