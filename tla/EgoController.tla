---------------------------- MODULE EgoController -----------------------------
(***************************************************************************)
(* The position controller node, class Ctrl of control/src/cxr_egoctrl_v1   *)
(* .cpp, with the flight mode of PX4 as the external actor it talks to.     *)
(* One spinner thread runs the 50 Hz control timer and the subscriber       *)
(* callbacks, so each of them is one atomic step.                           *)
(*                                                                          *)
(* A position is a member of Cells; Zero is the default value of a field no *)
(* callback has written.  The velocity laws, limits and slew rates of a     *)
(* setpoint are abstracted to what the setpoint steers to: the locked hold  *)
(* point, the take-off point, or the last trajectory command.               *)
(***************************************************************************)
EXTENDS Integers

CONSTANTS
  Cells,            \* positions the vehicle can be at
  Zero,             \* the value of a position that was never set
  TrajIds,          \* identifiers of trajectories commands belong to
  NoTraj            \* no command received

ASSUME CellsAssumption == Zero \notin Cells /\ NoTraj \notin TrajIds

VARIABLES
  have_odom, pos,            \* a FAST-LIO pose arrived; position_x, position_y
  home,                      \* now_x, now_y: the position of the first pose
  have_mavros_pose, mavros_pos,
  mavros_aligned,            \* mavros_odom_alignment_ready
  mavros_pose_consistent,
  planner_cmd_enabled,       \* the height gate, latched
  receive,                   \* a trajectory command may be tracked
  cmd,                       \* trajectory of the last command, ego
  cmd_age,                   \* last_traj_cmd_time: never, fresh or stale
  safety_hold_active,
  hold_latched,              \* safety_hold_position_latched
  hold_mavros,               \* safety_hold_uses_mavros_frame
  hold_pos,                  \* safety_hold_x, _y, _z
  landing_requested,
  mode,                      \* current_state.mode, the last reported
  setpoint,                  \* the last setpoint published
  px4_mode                   \* external: the mode PX4 is in

pose_vars == <<have_odom, pos, home, have_mavros_pose, mavros_pos, mavros_aligned,
               mavros_pose_consistent>>
cmd_vars == <<planner_cmd_enabled, receive, cmd, cmd_age>>
hold_vars == <<safety_hold_active, hold_latched, hold_mavros, hold_pos>>
vars == <<pose_vars, cmd_vars, hold_vars, landing_requested, mode, setpoint, px4_mode>>

\* The code tells AUTO.LAND from every other mode and nothing more.
Modes == {"AUTO.LAND", "OTHER"}
Positions == Cells \union {Zero}

\* What a published setpoint steers to.
NoSetpoint == [kind |-> "none", to |-> Zero, traj |-> NoTraj]
HoldSetpoint(frame, p) == [kind |-> frame, to |-> p, traj |-> NoTraj]
HomeSetpoint == [kind |-> "home", to |-> home, traj |-> NoTraj]
TrackSetpoint(armed) ==
  [kind |-> IF armed THEN "track" ELSE "idle", to |-> Zero, traj |-> cmd]
HoldKinds == {"hold_mavros", "hold_odom"}
SetpointType ==
  {NoSetpoint}
  \union [kind : HoldKinds \union {"home"}, to : Positions, traj : {NoTraj}]
  \union [kind : {"track", "idle"}, to : {Zero}, traj : TrajIds]

-------------------------------------------------------------------------------
(* Initial state: after the constructor.                                    *)

Init ==
  /\ have_odom = FALSE /\ pos = Zero /\ home = Zero
  /\ have_mavros_pose = FALSE /\ mavros_pos = Zero
  /\ mavros_aligned = FALSE /\ mavros_pose_consistent = FALSE
  /\ planner_cmd_enabled = FALSE /\ receive = FALSE
  /\ cmd = NoTraj /\ cmd_age = "never"
  /\ safety_hold_active = FALSE /\ hold_latched = FALSE
  /\ hold_mavros = FALSE /\ hold_pos = Zero
  /\ landing_requested = FALSE
  /\ mode = "OTHER"
  /\ setpoint = NoSetpoint
  /\ px4_mode = "OTHER"

-------------------------------------------------------------------------------
(* Subscriber callbacks.                                                    *)

state_cb ==
  /\ mode' = px4_mode
  /\ UNCHANGED <<pose_vars, cmd_vars, hold_vars, landing_requested, setpoint, px4_mode>>

\* The first pose is the take-off point; the first pose above
\* planner_enable_height opens the height gate for good and drops what came before.
position_cb(p, above) ==
  /\ have_odom' = TRUE
  /\ pos' = p
  /\ home' = IF have_odom THEN home ELSE p
  /\ IF above /\ ~planner_cmd_enabled
       THEN /\ planner_cmd_enabled' = TRUE
            /\ receive' = FALSE
            /\ cmd_age' = "never"
            /\ UNCHANGED cmd
       ELSE UNCHANGED cmd_vars
  /\ IF have_mavros_pose /\ ~mavros_aligned
       THEN mavros_aligned' = TRUE /\ mavros_pose_consistent' = TRUE
       ELSE UNCHANGED <<mavros_aligned, mavros_pose_consistent>>
  /\ UNCHANGED <<have_mavros_pose, mavros_pos, hold_vars, landing_requested, mode, setpoint,
                 px4_mode>>

\* Whether a MAVROS pose may be trusted: agrees says that its offset to the
\* planner pose is still the one of the alignment.
ConsistencyKept(finite, agrees) ==
  IF finite /\ have_odom THEN ~mavros_aligned \/ agrees ELSE mavros_pose_consistent
Consistency(finite, agrees) == finite /\ have_odom /\ (~mavros_aligned \/ agrees)

mavros_pose_cb(p, finite, agrees) ==
  /\ mavros_pos' = p
  /\ have_mavros_pose' = finite
  /\ mavros_aligned' = (mavros_aligned \/ (finite /\ have_odom))
  /\ mavros_pose_consistent' = Consistency(finite, agrees)
  /\ UNCHANGED <<have_odom, pos, home, cmd_vars, hold_vars, landing_requested, mode, setpoint,
                 px4_mode>>

CommandsAlways == TRUE
CommandsAccepted == planner_cmd_enabled

StoreNothing(traj) == UNCHANGED cmd
StoreCommand(traj) == cmd' = traj

\* A command is taken during a safety hold as well.
twist_cb(traj) ==
  /\ CommandsAccepted
  /\ StoreCommand(traj)
  /\ receive' = TRUE
  /\ cmd_age' = "fresh"
  /\ UNCHANGED <<pose_vars, planner_cmd_enabled, hold_vars, landing_requested, mode, setpoint,
                 px4_mode>>

\* The pose a lock point is taken from: MAVROS if trusted, FAST-LIO otherwise.
MavrosTrusted == have_mavros_pose /\ mavros_pose_consistent
LockPoint == IF MavrosTrusted THEN mavros_pos ELSE pos

LatchHold ==
  /\ hold_mavros' = MavrosTrusted
  /\ hold_pos' = IF MavrosTrusted \/ have_odom THEN LockPoint ELSE hold_pos
  /\ hold_latched' = (MavrosTrusted \/ have_odom)

EveryHold == TRUE
EnteringHold == ~safety_hold_active \/ ~hold_latched

safety_hold_cb(active) ==
  /\ safety_hold_active' = active
  /\ IF active
       THEN /\ receive' = FALSE
            /\ IF EnteringHold THEN LatchHold
               ELSE UNCHANGED <<hold_latched, hold_mavros, hold_pos>>
       ELSE /\ hold_latched' = FALSE
            /\ UNCHANGED <<receive, hold_mavros, hold_pos>>
  /\ UNCHANGED <<pose_vars, planner_cmd_enabled, cmd, cmd_age, landing_requested, mode, setpoint,
                 px4_mode>>

\* A request of FALSE is ignored.
landing_request_cb ==
  /\ landing_requested' = TRUE
  /\ safety_hold_active' = TRUE
  /\ receive' = FALSE
  /\ LatchHold
  /\ UNCHANGED <<pose_vars, planner_cmd_enabled, cmd, cmd_age, mode, setpoint,
                 px4_mode>>

-------------------------------------------------------------------------------
(* The control timer.  elapsed: more than 1 s since the last AUTO.LAND      *)
(* request; accepted: PX4 takes the request; armed: as last reported.       *)

\* The first half of control().
LandRequestInHold(elapsed) ==
  landing_requested /\ safety_hold_active /\ mode # "AUTO.LAND" /\ elapsed
LandRequestDue(elapsed) == landing_requested /\ mode # "AUTO.LAND" /\ elapsed

RequestLand(elapsed, accepted) ==
  px4_mode' = IF LandRequestDue(elapsed) /\ accepted THEN "AUTO.LAND" ELSE px4_mode

\* A hold that began before the first pose is latched by the control loop.
NeverLatchLate == FALSE
LatchLate == ~hold_latched

PublishHold ==
  /\ IF LatchLate
       THEN /\ hold_mavros' = MavrosTrusted
            /\ hold_pos' = LockPoint
            /\ hold_latched' = TRUE
       ELSE UNCHANGED <<hold_latched, hold_mavros, hold_pos>>
  /\ setpoint' = HoldSetpoint(IF hold_mavros' THEN "hold_mavros" ELSE "hold_odom", hold_pos')
  /\ UNCHANGED <<safety_hold_active, receive>>

PublishHome ==
  /\ setpoint' = HomeSetpoint
  /\ UNCHANGED <<hold_vars, receive>>

DropStaleCommand ==
  /\ receive' = FALSE
  /\ UNCHANGED <<hold_vars, setpoint>>

PublishTrack(armed) ==
  /\ setpoint' = TrackSetpoint(armed)
  /\ UNCHANGED <<hold_vars, receive>>

\* The second half, in the order of its early returns: PX4 lands by itself, hold,
\* return to the take-off point, drop a stale trajectory, track.
LandsByItself == landing_requested /\ mode = "AUTO.LAND"
HoldYieldsToCommand == safety_hold_active /\ ~receive
HoldFirst == safety_hold_active

Steer(armed) ==
  \/ LandsByItself /\ UNCHANGED <<hold_vars, receive, setpoint>>
  \/ ~LandsByItself /\ HoldFirst /\ PublishHold
  \/ ~LandsByItself /\ ~HoldFirst /\ ~receive /\ PublishHome
  \/ /\ ~LandsByItself /\ ~HoldFirst /\ receive
     /\ IF cmd_age = "stale" THEN DropStaleCommand ELSE PublishTrack(armed)

control(elapsed, accepted, armed) ==
  /\ have_odom
  /\ RequestLand(elapsed, accepted)
  /\ Steer(armed)
  /\ UNCHANGED <<pose_vars, planner_cmd_enabled, cmd, cmd_age, landing_requested, mode>>

ControlTick == \E elapsed, accepted, armed \in BOOLEAN : control(elapsed, accepted, armed)

-------------------------------------------------------------------------------
(* Time and PX4.                                                            *)

\* More than traj_cmd_timeout passes without a command.
CommandExpires ==
  /\ cmd_age = "fresh"
  /\ cmd_age' = "stale"
  /\ UNCHANGED <<pose_vars, planner_cmd_enabled, receive, cmd, hold_vars, landing_requested, mode,
                 setpoint, px4_mode>>

\* PX4, the pilot or the take-off script changes the mode.
ModeChanges(m) ==
  /\ m # px4_mode
  /\ px4_mode' = m
  /\ UNCHANGED <<pose_vars, cmd_vars, hold_vars, landing_requested, mode, setpoint>>

-------------------------------------------------------------------------------

\* The landing request is published once, by the task layer.
Next ==
  \/ state_cb
  \/ \E p \in Cells, above \in BOOLEAN : position_cb(p, above)
  \/ \E p \in Cells, finite, agrees \in BOOLEAN : mavros_pose_cb(p, finite, agrees)
  \/ \E traj \in TrajIds : twist_cb(traj)
  \/ \E active \in BOOLEAN : safety_hold_cb(active)
  \/ ~landing_requested /\ landing_request_cb
  \/ ControlTick
  \/ CommandExpires
  \/ \E m \in Modes : ModeChanges(m)

Spec == Init /\ [][Next]_vars

\* A control tick that asks PX4 for AUTO.LAND and is granted it.
LandGranted == LandRequestDue(TRUE) /\ \E armed \in BOOLEAN : control(TRUE, TRUE, armed)

(***************************************************************************)
(* The 50 Hz control timer and the state stream of MAVROS keep running, and *)
(* PX4, asked again and again, does not refuse AUTO.LAND for ever.          *)
(***************************************************************************)
Fairness ==
  /\ WF_vars(ControlTick)
  /\ WF_vars(state_cb)
  /\ SF_vars(LandGranted)

FairSpec == Spec /\ Fairness

-------------------------------------------------------------------------------
(* Correctness.                                                             *)

\* Every variable has its type.
TypeOK ==
  /\ have_odom \in BOOLEAN
  /\ pos \in Positions
  /\ home \in Positions
  /\ have_mavros_pose \in BOOLEAN
  /\ mavros_pos \in Positions
  /\ mavros_aligned \in BOOLEAN
  /\ mavros_pose_consistent \in BOOLEAN
  /\ planner_cmd_enabled \in BOOLEAN
  /\ receive \in BOOLEAN
  /\ cmd \in TrajIds \union {NoTraj}
  /\ cmd_age \in {"never", "fresh", "stale"}
  /\ safety_hold_active \in BOOLEAN
  /\ hold_latched \in BOOLEAN
  /\ hold_mavros \in BOOLEAN
  /\ hold_pos \in Positions
  /\ landing_requested \in BOOLEAN
  /\ mode \in Modes
  /\ setpoint \in SetpointType
  /\ px4_mode \in Modes

\* A setpoint that steers to a point steers to one some pose callback delivered,
\* whichever of the hold, landing, odometry and MAVROS callbacks came first:
\* never to the zeros the controller is constructed with.
HoldTargetWasAPose == setpoint.kind \in HoldKinds \union {"home"} => setpoint.to \in Cells

\* While a hold lasts its lock point does not follow the drifting vehicle, however
\* often the hold is published again; only a landing request may lock anew.
HoldPointFixed ==
  [][safety_hold_active /\ safety_hold_active' /\ hold_latched
       /\ landing_requested' = landing_requested
       => hold_latched' /\ UNCHANGED <<hold_mavros, hold_pos>>]_vars

\* A command that may be tracked was received after the height gate opened and is
\* covered by the command timeout.
TrackableCommand == receive => planner_cmd_enabled /\ cmd_age # "never" /\ cmd \in TrajIds

\* A MAVROS pose is only trusted, and only locked, after an alignment with the
\* planner's odometry that both poses took part in.
MavrosLockTrusted ==
  /\ mavros_pose_consistent => have_mavros_pose /\ have_odom /\ mavros_aligned
  /\ hold_latched /\ hold_mavros => mavros_aligned

\* After a landing request the controller brings PX4 into AUTO.LAND, through refusals,
\* stale mode reports and released holds, and does so again whenever PX4 leaves it.
LandingOwnsVehicle == landing_requested /\ have_odom ~> px4_mode = "AUTO.LAND"

\* The comment on the trajectory-less branch of control() says that, after the
\* hand-over, a vehicle without a trajectory is sent a zero-velocity heartbeat.
NoTrajectoryMeansNoMotion ==
  [][setpoint.kind = "track" /\ setpoint'.kind = "home" => setpoint'.to = pos]_vars

===============================================================================
