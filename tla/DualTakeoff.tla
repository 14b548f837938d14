------------------------------ MODULE DualTakeoff ------------------------------
(***************************************************************************)
(* The synchronised take-off script, cxr_ego_ctrl/src/dual_ego_start.py,    *)
(* with the two flight controllers it drives.                               *)
(*                                                                          *)
(* The main thread runs the phases of DualTakeoffManager.run(); subscriber  *)
(* threads store the newest state and pose of each vehicle at any moment.   *)
(* A service call blocks the main thread, so each request is a step of its  *)
(* own, and the fields it reads are read at that vehicle's turn.  Altitude  *)
(* is abstracted to on the ground or at hover height; timeouts and          *)
(* intervals are choices.                                                   *)
(***************************************************************************)
EXTENDS Integers, FiniteSets

CONSTANTS
  Vehicles,             \* the namespaces, /UAV0 and /UAV1
  MaxAttempts,          \* bound of the model: times the operator presses the key
  MaxLosses             \* bound of the model: modes lost and automatic disarmings

ASSUME VehiclesAssumption == Vehicles # {} /\ IsFiniteSet(Vehicles)
ASSUME BoundsAssumption == MaxAttempts \in Nat /\ MaxLosses \in Nat

VARIABLES
  phase,          \* where the main thread is in run()
  resume,         \* the phase wait_until_ready or a round of requests returns to
  todo,           \* vehicles the current loop over self.vehicles has still to visit
  target,         \* target_z: not set, an altitude to hold, or hover_z to climb to
  state_armed, state_offboard,   \* Vehicle.state, as last reported
  pose,           \* Vehicle.pose: None, or the altitude it reports
  pose_fresh,     \* pose_age is within its limit
  stable_since,   \* stable_since is set
  armed, offboard,  \* external: PX4
  setpoint,       \* external: the last setpoint PX4 received: none, hold or climb of
                  \* the script, or one of the position controller
  altitude,       \* external: where the vehicle is
  attempts, losses,
  committed,      \* history: all vehicles were confirmed armed, then told to climb
  stable_checks   \* history: consecutive checks that found all vehicles hovering

script_vars == <<phase, resume, todo, target, stable_since>>
report_vars == <<state_armed, state_offboard, pose, pose_fresh>>
px4_vars == <<armed, offboard, setpoint, altitude>>
vars == <<script_vars, report_vars, px4_vars, attempts, losses, committed, stable_checks>>

Phases == {"wait_until_ready", "warmup", "wait_for_key", "refresh", "establish_offboard",
           "request_offboard", "establish_armed", "request_arm", "disarm", "climb_and_verify",
           "recover", "verify", "handover"}

-------------------------------------------------------------------------------

Init ==
  /\ phase = "wait_until_ready" /\ resume = "warmup" /\ todo = {}
  /\ target = [v \in Vehicles |-> "unset"]
  /\ state_armed = [v \in Vehicles |-> FALSE]
  /\ state_offboard = [v \in Vehicles |-> FALSE]
  /\ pose = [v \in Vehicles |-> "none"]
  /\ pose_fresh = [v \in Vehicles |-> FALSE]
  /\ stable_since = FALSE
  /\ armed = [v \in Vehicles |-> FALSE]
  /\ offboard = [v \in Vehicles |-> FALSE]
  /\ setpoint = [v \in Vehicles |-> "none"]
  /\ altitude = [v \in Vehicles |-> "ground"]
  /\ attempts = 0 /\ losses = 0
  /\ committed = FALSE /\ stable_checks = 0

-------------------------------------------------------------------------------
(* Helpers of Vehicle.                                                      *)

\* Connected, and ten poses, the last of them fresh.
AlwaysReady(v) == TRUE
ready(v) == pose_fresh[v]
at_hover(v) == pose_fresh[v] /\ pose[v] = "hover"

\* publish_all: PX4 climbs to hover_z, and holds the altitude of any other target.
publish_all ==
  setpoint' = [v \in Vehicles |-> IF target[v] = "hover_z" THEN "climb" ELSE "hold"]

\* A request PX4 may refuse; the script does not use the result.
request_offboard(v) ==
  /\ \E accepted \in BOOLEAN : offboard' = [offboard EXCEPT ![v] = @ \/ accepted]
  /\ UNCHANGED armed

request_arm(v) ==
  /\ \E accepted \in BOOLEAN : armed' = [armed EXCEPT ![v] = @ \/ accepted]
  /\ UNCHANGED offboard

request_disarm(v) ==
  /\ \E accepted \in BOOLEAN : armed' = [armed EXCEPT ![v] = @ /\ ~accepted]
  /\ UNCHANGED offboard

Goto(p) == phase' = p

\* A loop over the vehicles, entered with those it will visit.
Visit(p, vehicles, back) == phase' = p /\ todo' = vehicles /\ resume' = back
NextVisit(v) ==
  /\ todo' = todo \ {v}
  /\ phase' = IF todo = {v} THEN resume ELSE phase
  /\ UNCHANGED resume

-------------------------------------------------------------------------------
(* The phases of run().                                                     *)

\* No setpoint is published here, on a retry neither.
WaitStreams == publish_all
WaitSilent == UNCHANGED setpoint

wait_until_ready ==
  /\ phase = "wait_until_ready"
  /\ WaitSilent
  /\ phase' = IF \A v \in Vehicles : ready(v) THEN resume ELSE phase
  /\ UNCHANGED <<resume, todo, target, stable_since, report_vars, armed, offboard, altitude,
                 attempts, losses, committed, stable_checks>>

warmup ==
  /\ phase = "warmup"
  /\ target' = pose
  /\ setpoint' = [v \in Vehicles |-> "hold"]
  /\ Goto("wait_for_key")
  /\ UNCHANGED <<resume, todo, stable_since, report_vars, armed, offboard, altitude, attempts,
                 losses, committed, stable_checks>>

wait_for_key(pressed) ==
  /\ phase = "wait_for_key"
  /\ publish_all
  /\ IF pressed
       THEN /\ attempts < MaxAttempts
            /\ attempts' = attempts + 1
            /\ Visit("refresh", Vehicles, "establish_offboard")
       ELSE UNCHANGED <<attempts, phase, todo, resume>>
  /\ UNCHANGED <<target, stable_since, report_vars, armed, offboard, altitude, losses, committed,
                 stable_checks>>

\* A vehicle that is no longer ready suspends the loop, for as long as it takes.
RefreshWaits(v) ==
  /\ phase = "refresh" /\ v \in todo
  /\ ~ready(v)
  /\ Visit("wait_until_ready", todo, "refresh")
  /\ UNCHANGED <<target, stable_since, report_vars, px4_vars, attempts, losses, committed,
                 stable_checks>>

\* latch_ground_hold_target: the altitude held is the present one.
LatchNothing(v) == UNCHANGED target
Latch(v) == target' = [target EXCEPT ![v] = pose[v]]

Refresh(v) ==
  /\ phase = "refresh" /\ v \in todo
  /\ ready(v)
  /\ Latch(v)
  /\ todo' = todo \ {v}
  /\ phase' = IF todo = {v} THEN "establish_offboard" ELSE "refresh"
  /\ UNCHANGED <<resume, stable_since, report_vars, px4_vars, attempts, losses, committed,
                 stable_checks>>

PendingOffboard == {v \in Vehicles : ~state_offboard[v]}
PendingArmed == {v \in Vehicles : ~state_armed[v]}

\* One pass of the loop: confirmed, a round of requests, or neither.
establish_offboard ==
  /\ phase = "establish_offboard"
  /\ publish_all
  /\ committed' = FALSE
  /\ \/ PendingOffboard = {} /\ Goto("establish_armed") /\ UNCHANGED <<todo, resume>>
     \/ PendingOffboard # {} /\ Visit("request_offboard", PendingOffboard, "establish_offboard")
     \/ PendingOffboard # {} /\ UNCHANGED <<phase, todo, resume>>
  /\ UNCHANGED <<target, stable_since, report_vars, armed, offboard, altitude, attempts, losses,
                 stable_checks>>

\* A loop whose deadline has passed looks at nothing else.
Timeout ==
  /\ \/ phase \in {"establish_offboard", "climb_and_verify"}
        /\ Goto("wait_for_key") /\ UNCHANGED <<todo, resume>>
     \/ phase = "establish_armed" /\ Visit("disarm", Vehicles, "wait_for_key")
  /\ UNCHANGED <<target, stable_since, report_vars, px4_vars, attempts, losses, committed,
                 stable_checks>>

RequestOffboard(v) ==
  /\ phase = "request_offboard" /\ v \in todo
  /\ request_offboard(v)
  /\ NextVisit(v)
  /\ UNCHANGED <<target, stable_since, report_vars, setpoint, altitude, attempts, losses,
                 committed, stable_checks>>

\* Every vehicle must be reported armed before any is told to climb.
SomeArmed == PendingArmed # Vehicles
AllArmed == PendingArmed = {}

\* begin_climb for every vehicle; the next pass publishes the targets together.
BeginClimb ==
  /\ target' = [v \in Vehicles |-> "hover_z"]
  /\ stable_since' = FALSE
  /\ stable_checks' = 0
  /\ committed' = (PendingArmed = {})
  /\ Goto("climb_and_verify")
  /\ UNCHANGED <<todo, resume>>

\* A vehicle that left OFFBOARD aborts; otherwise all are armed, or asked to.
establish_armed ==
  /\ phase = "establish_armed"
  /\ publish_all
  /\ IF PendingOffboard = {} /\ AllArmed
       THEN BeginClimb
       ELSE /\ \/ PendingOffboard # {} /\ Visit("disarm", Vehicles, "wait_for_key")
               \/ PendingOffboard = {} /\ Visit("request_arm", PendingArmed, "establish_armed")
               \/ PendingOffboard = {} /\ UNCHANGED <<phase, todo, resume>>
            /\ UNCHANGED <<target, stable_since, committed, stable_checks>>
  /\ UNCHANGED <<report_vars, armed, offboard, altitude, attempts, losses>>

RequestArm(v) ==
  /\ phase = "request_arm" /\ v \in todo
  /\ request_arm(v)
  /\ NextVisit(v)
  /\ UNCHANGED <<target, stable_since, report_vars, setpoint, altitude, attempts, losses,
                 committed, stable_checks>>

\* Only a vehicle reported armed is disarmed.
Disarm(v) ==
  /\ phase = "disarm" /\ v \in todo
  /\ IF state_armed[v] THEN request_disarm(v) ELSE UNCHANGED <<armed, offboard>>
  /\ NextVisit(v)
  /\ UNCHANGED <<target, stable_since, report_vars, setpoint, altitude, attempts, losses,
                 committed, stable_checks>>

BothStable == \A v \in Vehicles : state_armed[v] /\ state_offboard[v] /\ at_hover(v)

\* A pass of the loop publishes, may run a round of recovery, and verifies.
climb_and_verify ==
  /\ phase = "climb_and_verify"
  /\ publish_all
  /\ \/ Visit("recover", Vehicles, "verify")
     \/ Goto("verify") /\ UNCHANGED <<todo, resume>>
  /\ UNCHANGED <<target, stable_since, report_vars, armed, offboard, altitude, attempts, losses,
                 committed, stable_checks>>

\* The stability clock starts at a stable check and is reset by any other.
ClockKept == stable_since' = (stable_since \/ BothStable)
ClockReset == stable_since' = BothStable

verify ==
  /\ phase = "verify"
  /\ stable_checks' = CASE ~BothStable -> 0
                        [] BothStable /\ stable_checks = 0 -> 1
                        [] BothStable /\ stable_checks > 0 -> 2
  /\ \/ BothStable /\ stable_since /\ Goto("handover")
     \/ Goto("climb_and_verify")
  /\ ClockReset
  /\ UNCHANGED <<resume, todo, target, report_vars, px4_vars, attempts, losses, committed>>

\* The rate-limited recovery of a vehicle that lost OFFBOARD or disarmed itself.
Recover(v) ==
  /\ phase = "recover" /\ v \in todo
  /\ \/ ~state_offboard[v] /\ request_offboard(v)
     \/ state_offboard[v] /\ ~state_armed[v] /\ request_arm(v)
     \/ state_offboard[v] /\ state_armed[v] /\ UNCHANGED <<armed, offboard>>
  /\ NextVisit(v)
  /\ UNCHANGED <<target, stable_since, report_vars, setpoint, altitude, attempts, losses,
                 committed, stable_checks>>

run ==
  \/ wait_until_ready \/ warmup \/ \E pressed \in BOOLEAN : wait_for_key(pressed)
  \/ establish_offboard \/ establish_armed \/ climb_and_verify \/ verify \/ Timeout
  \/ \E v \in Vehicles : \/ RefreshWaits(v) \/ Refresh(v) \/ RequestOffboard(v)
                         \/ RequestArm(v) \/ Disarm(v) \/ Recover(v)

-------------------------------------------------------------------------------
(* Subscriber threads.                                                      *)

_state_cb(v) ==
  /\ state_armed' = [state_armed EXCEPT ![v] = armed[v]]
  /\ state_offboard' = [state_offboard EXCEPT ![v] = offboard[v]]
  /\ UNCHANGED <<script_vars, pose, pose_fresh, px4_vars, attempts, losses, committed, stable_checks>>

_pose_cb(v) ==
  /\ pose' = [pose EXCEPT ![v] = altitude[v]]
  /\ pose_fresh' = [pose_fresh EXCEPT ![v] = TRUE]
  /\ UNCHANGED <<script_vars, state_armed, state_offboard, px4_vars, attempts, losses, committed,
                 stable_checks>>

\* pose_timeout passes without a pose.
PoseAges(v) ==
  /\ losses < MaxLosses
  /\ losses' = losses + 1
  /\ pose_fresh' = [pose_fresh EXCEPT ![v] = FALSE]
  /\ UNCHANGED <<script_vars, state_armed, state_offboard, pose, px4_vars, attempts, committed,
                 stable_checks>>

-------------------------------------------------------------------------------
(* PX4 and the vehicle.                                                     *)

\* PX4 leaves OFFBOARD, or disarms a vehicle on the ground.
Loses(v) ==
  /\ losses < MaxLosses
  /\ losses' = losses + 1
  /\ \/ offboard' = [offboard EXCEPT ![v] = FALSE] /\ UNCHANGED armed
     \/ altitude[v] = "ground" /\ armed' = [armed EXCEPT ![v] = FALSE] /\ UNCHANGED offboard
  /\ UNCHANGED <<script_vars, report_vars, setpoint, altitude, attempts, committed,
                 stable_checks>>

Climbs(v) ==
  /\ armed[v] /\ offboard[v] /\ setpoint[v] \in {"climb", "controller"} /\ altitude[v] = "ground"
  /\ altitude' = [altitude EXCEPT ![v] = "hover"]
  /\ UNCHANGED <<script_vars, report_vars, armed, offboard, setpoint, attempts, losses,
                 committed, stable_checks>>

Descends(v) ==
  /\ altitude[v] = "hover" /\ ~(armed[v] /\ offboard[v])
  /\ altitude' = [altitude EXCEPT ![v] = "ground"]
  /\ UNCHANGED <<script_vars, report_vars, armed, offboard, setpoint, attempts, losses,
                 committed, stable_checks>>

\* A position controller without a trajectory asks for its take-off height, from
\* the moment it has odometry, on the same topic.
ControllerSetpoint(v) ==
  /\ setpoint' = [setpoint EXCEPT ![v] = "controller"]
  /\ UNCHANGED <<script_vars, report_vars, armed, offboard, altitude, attempts, losses, committed,
                 stable_checks>>

Environment ==
  \E v \in Vehicles : \/ _state_cb(v) \/ _pose_cb(v) \/ PoseAges(v)
                      \/ Loses(v) \/ Climbs(v) \/ Descends(v) \/ ControllerSetpoint(v)

Next == run \/ Environment

Spec == Init /\ [][Next]_vars

-------------------------------------------------------------------------------
(* Correctness.                                                             *)

\* Every variable has its type.
TypeOK ==
  /\ phase \in Phases /\ resume \in Phases
  /\ todo \in SUBSET Vehicles
  /\ target \in [Vehicles -> {"unset", "ground", "hover", "hover_z"}]
  /\ state_armed \in [Vehicles -> BOOLEAN] /\ state_offboard \in [Vehicles -> BOOLEAN]
  /\ pose \in [Vehicles -> {"none", "ground", "hover"}]
  /\ pose_fresh \in [Vehicles -> BOOLEAN]
  /\ stable_since \in BOOLEAN
  /\ armed \in [Vehicles -> BOOLEAN] /\ offboard \in [Vehicles -> BOOLEAN]
  /\ setpoint \in [Vehicles -> {"none", "hold", "climb", "controller"}]
  /\ altitude \in [Vehicles -> {"ground", "hover"}]
  /\ attempts \in 0 .. MaxAttempts /\ losses \in 0 .. MaxLosses
  /\ committed \in BOOLEAN /\ stable_checks \in 0 .. 2

\* The script's own setpoints lift no vehicle before all of them were confirmed
\* armed in the attempt it follows: not the first one armed, nor one left behind by
\* an attempt that timed out while the other was in the air.
ScriptLiftsTogether ==
  [][\A v \in Vehicles :
       altitude[v] = "ground" /\ altitude'[v] = "hover" /\ setpoint[v] = "climb" => committed]_vars

\* The script never tells one vehicle to climb and another to hold, although their
\* targets are set again one by one before a retry, with an unbounded wait between.
ToldTogether ==
  \A v, w \in Vehicles :
    setpoint[v] # "controller" /\ setpoint[w] # "controller" => setpoint[v] = setpoint[w]

\* The script keeps the promise of JointTakeoff, through every refusal, lost mode,
\* time-out and retry.
ReportOf(v) ==
  CASE ~(state_armed[v] /\ state_offboard[v]) -> "down"
    [] state_armed[v] /\ state_offboard[v] /\ at_hover(v) -> "hovering"
    [] state_armed[v] /\ state_offboard[v] /\ ~at_hover(v) -> "ready"
GoalOf(v) == IF target[v] = "hover_z" THEN "climb" ELSE "hold"

Joint == INSTANCE JointTakeoff
           WITH report <- [v \in Vehicles |-> ReportOf(v)], agreed <- committed,
                goal <- [v \in Vehicles |-> GoalOf(v)], told <- setpoint,
                air <- altitude, over <- phase = "handover"

KeepsJointTakeoff == Joint!Spec

\* A comment of latch_ground_hold_target says that the ground height is held until
\* both are confirmed armed, so that the first one armed does not leave alone.
NoSoloTakeoff ==
  [][\A v \in Vehicles : altitude[v] = "ground" /\ altitude'[v] = "hover" => committed]_vars

\* The controllers take over only after at least two checks in a row, of the
\* present climb, that found every vehicle armed, in OFFBOARD and hovering.
HandoverEvidence ==
  [][phase # "handover" /\ phase' = "handover" => committed /\ stable_checks' = 2]_vars

===============================================================================
