----------------------------- MODULE LeaderFlight -----------------------------
(***************************************************************************)
(* The leader in flight: the exploration state machine, the trajectory      *)
(* server and the position controller, three processes that share nothing   *)
(* but ROS topics.                                                          *)
(*                                                                          *)
(*   exploration  -- safety_hold ------> hold_q ------> controller          *)
(*   exploration  -- landing_request --> landing_q ---> controller          *)
(*   exploration  -- bspline ----------> bspline_q ---> trajectory server   *)
(*   trajectory server -- pos_cmd -----> cmd_q -------> controller          *)
(*                                                                          *)
(* A topic delivers in order; nothing orders two topics.  A full subscriber *)
(* queue drops its oldest message.  The model starts in cruise: odometry    *)
(* arrives, the two pose sources are aligned, the height gate is open, and  *)
(* exploration waits for its trigger.  Two things are left to the modules   *)
(* of the processes: the inflation layer of the map, and the confirmation   *)
(* of a small tracking error.                                               *)
(***************************************************************************)
EXTENDS Integers, Sequences

CONSTANTS
  MaxTraj, ConfirmTicks, CheckTicks, MaxJitter,  \* of ExplorationFSM
  Here,        \* the one position of the vehicle
  Zero,        \* the value of a position that was never set
  NoTraj,      \* no command received
  QueueSize    \* length of a subscriber queue

ASSUME QueueSizeAssumption == QueueSize \in Nat \ {0}
ASSUME PlannerAssumption ==
  MaxTraj \in Nat /\ ConfirmTicks \in Nat /\ CheckTicks \in Nat \ {0} /\ MaxJitter \in Nat \ {0}
ASSUME ValuesAssumption == Zero # Here /\ NoTraj \notin 1 .. MaxTraj

VARIABLES
  state, have_odom, static_state, safety_hold_active, retry_pending, safe_since, next_check,
  tracking_error_since, inflation_escape_active, escape_clear_since, first_traj_published,
  mission_allows, detection_enabled, approach_landing, landing_requested, local_traj,
  newest_start, published, safe_checks, rejected, escape_traj,
  traj_id, receive_traj, traj_time,
  ctl_have_odom, pos, home, have_mavros_pose, mavros_pos, mavros_aligned,
  mavros_pose_consistent, planner_cmd_enabled, receive, cmd, cmd_age, ctl_hold, hold_latched,
  hold_mavros, hold_pos, ctl_landing, mode, setpoint, px4_mode,
  hold_q, landing_q, bspline_q, cmd_q,
  discarded    \* history: the trajectory the controller gave up for its last hold

FSM == INSTANCE ExplorationFSM
Server == INSTANCE TrajServer
Ctl == INSTANCE EgoController
         WITH Cells <- {Here}, TrajIds <- 1 .. MaxTraj, have_odom <- ctl_have_odom,
              safety_hold_active <- ctl_hold, landing_requested <- ctl_landing

fsm_vars ==
  <<state, have_odom, static_state, safety_hold_active, retry_pending, safe_since, next_check,
    tracking_error_since, inflation_escape_active, escape_clear_since, first_traj_published,
    mission_allows, detection_enabled, approach_landing, landing_requested, local_traj,
    newest_start, published, safe_checks, rejected, escape_traj>>
server_vars == <<traj_id, receive_traj, traj_time>>
ctl_vars ==
  <<ctl_have_odom, pos, home, have_mavros_pose, mavros_pos, mavros_aligned,
    mavros_pose_consistent, planner_cmd_enabled, receive, cmd, cmd_age, ctl_hold,
    hold_latched, hold_mavros, hold_pos, ctl_landing, mode, setpoint, px4_mode>>
queue_vars == <<hold_q, landing_q, bspline_q, cmd_q>>
vars == <<fsm_vars, server_vars, ctl_vars, queue_vars, discarded>>

-------------------------------------------------------------------------------
(* Topics.                                                                  *)

NeverFull(q, m) == Append(q, m)
DropNewest(q, m) == IF Len(q) < QueueSize THEN Append(q, m) ELSE q
Enqueue(q, m) == IF Len(q) < QueueSize THEN Append(q, m) ELSE Append(Tail(q), m)

\* What an exploration step publishes follows from what it changes: a hold and a
\* landing request are only sent on a change, a bspline only by a release.
PublishChanges ==
  /\ hold_q' = IF safety_hold_active' # safety_hold_active
                 THEN Enqueue(hold_q, safety_hold_active') ELSE hold_q
  /\ landing_q' = IF landing_requested' # landing_requested
                    THEN Enqueue(landing_q, TRUE) ELSE landing_q
  /\ bspline_q' = IF published' # published
                    THEN Enqueue(bspline_q, published') ELSE bspline_q

-------------------------------------------------------------------------------
(* Initial state.                                                           *)

CruiseInit ==
  /\ have_odom = TRUE /\ ctl_have_odom = TRUE
  /\ pos = Here /\ home = Here
  /\ have_mavros_pose = TRUE /\ mavros_pos = Here
  /\ mavros_aligned = TRUE /\ mavros_pose_consistent = TRUE
  /\ planner_cmd_enabled = TRUE /\ receive = FALSE
  /\ cmd = NoTraj /\ cmd_age = "never"
  /\ ctl_hold = FALSE /\ hold_latched = FALSE /\ hold_mavros = FALSE /\ hold_pos = Zero
  /\ ctl_landing = FALSE
  /\ mode = "OTHER" /\ px4_mode = "OTHER"
  /\ setpoint = Ctl!HomeSetpoint

ExplorationInit ==
  /\ state = "WAIT_TRIGGER"
  /\ static_state = TRUE /\ safety_hold_active = FALSE /\ retry_pending = FALSE
  /\ safe_since = FSM!NotSet /\ next_check = 0 /\ safe_checks = 0
  /\ tracking_error_since = FALSE /\ inflation_escape_active = FALSE
  /\ escape_clear_since = FALSE
  /\ first_traj_published = FALSE /\ mission_allows = TRUE /\ detection_enabled = FALSE
  /\ approach_landing = FALSE /\ landing_requested = FALSE
  /\ local_traj = 0 /\ newest_start = "now" /\ published = [id |-> 0, start |-> "now"]
  /\ rejected = {} /\ escape_traj = 0

Init ==
  /\ CruiseInit
  /\ ExplorationInit
  /\ Server!Init
  /\ hold_q = <<>> /\ landing_q = <<>> /\ bspline_q = <<>> /\ cmd_q = <<>>
  /\ discarded = 0

-------------------------------------------------------------------------------
(* Exploration.                                                             *)

Explores(A) ==
  /\ A
  /\ PublishChanges
  /\ UNCHANGED <<cmd_q, server_vars, ctl_vars, discarded>>

Odometry == Explores(\E lands \in BOOLEAN : FSM!odometryCallback(lands))
Trigger == Explores(FSM!triggerCallback)
Finish == Explores(FSM!Finish)
Plan == Explores(FSM!PlanTraj)
ExecReplan == Explores(FSM!ExecReplan)

\* Outside the inflation layer.
PubTraj ==
  Explores(\E elapsed \in 1 .. MaxJitter, r \in FSM!ReleaseReading :
             /\ ~r.starts_in_inflation
             /\ \/ FSM!RejectRelease(elapsed, r)
                \/ FSM!AwaitRelease(elapsed, r)
                \/ FSM!Release(elapsed, r))

\* A tracking error is large or none.
Safety ==
  Explores(\E r \in FSM!SafetyReading :
             /\ r.tracking # "soft"
             /\ FSM!TrackingReplan(r) \/ FSM!Monitor(r))

Exploration ==
  Odometry \/ Trigger \/ Finish \/ Plan \/ PubTraj \/ ExecReplan \/ Safety

-------------------------------------------------------------------------------
(* Trajectory server.                                                       *)

TakeBspline ==
  /\ bspline_q # <<>>
  /\ Server!bsplineCallback(Head(bspline_q))
  /\ bspline_q' = Tail(bspline_q)
  /\ UNCHANGED <<fsm_vars, ctl_vars, hold_q, landing_q, cmd_q, discarded>>

SendCommand ==
  /\ Server!cmdCallback
  /\ cmd_q' = Enqueue(cmd_q, traj_id)
  /\ UNCHANGED <<fsm_vars, ctl_vars, hold_q, landing_q, bspline_q, discarded>>

TrajectoryTime ==
  /\ Server!TimePasses
  /\ UNCHANGED <<fsm_vars, ctl_vars, queue_vars, discarded>>

TrajectoryServer == TakeBspline \/ SendCommand \/ TrajectoryTime

-------------------------------------------------------------------------------
(* Controller and PX4.                                                      *)

TakeHold ==
  /\ hold_q # <<>>
  /\ Ctl!safety_hold_cb(Head(hold_q))
  /\ hold_q' = Tail(hold_q)
  /\ discarded' = IF Head(hold_q) /\ cmd # NoTraj THEN cmd ELSE discarded
  /\ UNCHANGED <<fsm_vars, server_vars, landing_q, bspline_q, cmd_q>>

TakeLanding ==
  /\ landing_q # <<>>
  /\ Ctl!landing_request_cb
  /\ landing_q' = Tail(landing_q)
  /\ UNCHANGED <<fsm_vars, server_vars, hold_q, bspline_q, cmd_q, discarded>>

TakeCommand ==
  /\ cmd_q # <<>>
  /\ Ctl!twist_cb(Head(cmd_q))
  /\ cmd_q' = Tail(cmd_q)
  /\ UNCHANGED <<fsm_vars, server_vars, hold_q, landing_q, bspline_q, discarded>>

Controls(A) == A /\ UNCHANGED <<fsm_vars, server_vars, queue_vars, discarded>>

State == Controls(Ctl!state_cb)
Control == Controls(Ctl!ControlTick)
CommandExpires == Controls(Ctl!CommandExpires)

Controller == TakeHold \/ TakeLanding \/ TakeCommand \/ State \/ Control \/ CommandExpires

-------------------------------------------------------------------------------

Next == Exploration \/ TrajectoryServer \/ Controller

Spec == Init /\ [][Next]_vars

(***************************************************************************)
(* The controller's timer keeps firing, it takes the messages in its queues *)
(* and its state stream, and PX4 does not refuse AUTO.LAND for ever.        *)
(* Nothing is assumed of exploration or of the trajectory server: they may  *)
(* stop.                                                                    *)
(***************************************************************************)
Fairness ==
  /\ WF_vars(TakeHold) /\ WF_vars(TakeLanding)
  /\ WF_vars(State) /\ WF_vars(Control)
  /\ SF_vars(Controls(Ctl!LandGranted))

FairSpec == Spec /\ Fairness

-------------------------------------------------------------------------------
(* Correctness.                                                             *)

\* Every variable has its type.
TypeOK ==
  /\ FSM!TypeOK /\ Server!TypeOK /\ Ctl!TypeOK
  /\ Len(hold_q) <= QueueSize /\ Len(landing_q) <= QueueSize /\ Len(bspline_q) <= QueueSize
  /\ Len(cmd_q) <= QueueSize

\* Whatever a full queue dropped, once the controller has read its hold messages
\* it holds when exploration wants it to, and only a landing request makes it hold
\* when exploration does not.
HoldAgrees ==
  hold_q = <<>> =>
    /\ safety_hold_active => ctl_hold
    /\ ctl_hold => safety_hold_active \/ ctl_landing

\* The trajectory server never samples a trajectory before its start, where it
\* would send commands that were never assigned.
NoUnassignedCommand == receive_traj => Server!CommandSource # "unassigned"

\* Once the trajectory server has read its queue it has the trajectory released
\* last: a released hold is never left with a trajectory the server refused.
ReleasedReachesServer == bspline_q = <<>> => traj_id = published.id

\* From then on no setpoint but one of the hold is published, whatever commands
\* arrive, until exploration releases it.
HoldShields ==
  [][hold_q = <<>> /\ safety_hold_active /\ setpoint' # setpoint
       => setpoint'.kind \in Ctl!HoldKinds]_vars

\* The landing request of the task layer is on its way or taken: nothing loses it.
LandingNeverLost == landing_requested => landing_q # <<>> \/ ctl_landing

\* What the controller steers along was released by exploration and passed all of its
\* checks, however long it was on its way and whatever was refused since.
Accepted == 1 .. published.id \ rejected
FlownWasReleased == setpoint.traj # NoTraj => setpoint.traj \in Accepted

\* Commands reach the controller in the order of the trajectories they sample, and it
\* steers along the newest: it never returns to an older one, across a hold neither.
FliesForward ==
  [][/\ cmd # NoTraj => cmd' # NoTraj /\ cmd' >= cmd
     /\ setpoint' # setpoint => setpoint'.traj \in {NoTraj, cmd}]_vars

\* A hold that exploration keeps up ends the motion of the vehicle, whatever
\* commands of the old trajectory are still on their way.
HoldStopsVehicle ==
  <>[]safety_hold_active =>
    <>[](setpoint.kind \in Ctl!HoldKinds \/ px4_mode = "AUTO.LAND")

\* From the landing decision of the task layer, PX4 lands, whatever exploration
\* was doing at that moment.
LandingIsFinal == landing_requested ~> [](px4_mode = "AUTO.LAND")

\* control() logs that it keeps hovering and retries while PX4 refuses AUTO.LAND.
HoverUntilLanding ==
  [][ctl_landing /\ setpoint' # setpoint => setpoint'.kind \in Ctl!HoldKinds]_vars

\* safety_hold_cb logs that a hold has discarded the old trajectory.
DiscardedStaysDiscarded ==
  [][setpoint' # setpoint /\ setpoint'.kind = "track" => setpoint'.traj > discarded]_vars

===============================================================================
