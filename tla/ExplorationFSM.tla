---------------------------- MODULE ExplorationFSM ----------------------------
(***************************************************************************)
(* The exploration state machine of the leader, FastExplorationFSM          *)
(* (exploration_manager/src/fast_exploration_fsm.cpp).  One ROS spinner     *)
(* thread runs three timers (FSMCallback 100 Hz, safetyCallback 20 Hz,      *)
(* frontierCallback) and three subscriber callbacks; a callback is one      *)
(* atomic step, and the order of callbacks is arbitrary.                    *)
(*                                                                          *)
(* Geometry is abstracted to what the code branches on: every query of the  *)
(* map or of the planner (raw footprint safe, inside the inflation layer,   *)
(* future trajectory safe, planner result) is chosen anew each time it is   *)
(* made, as the map and the vehicle move between two queries.  Trajectories *)
(* are their traj_id_.  Durations the code only compares with a threshold   *)
(* are a choice "has elapsed / has not", except the release confirmation,   *)
(* which is counted in FSM timer ticks.                                     *)
(***************************************************************************)
EXTENDS Integers

CONSTANTS
  MaxTraj,       \* bound of the model: trajectories the planner may build
  ConfirmTicks,  \* trajectory_release_confirm_time, in FSM ticks
  CheckTicks,    \* trajectory_release_check_interval, in FSM ticks
  MaxJitter      \* longest time between two FSM callbacks, in FSM ticks

ASSUME ConstantsAssumption ==
  /\ MaxTraj \in Nat
  /\ ConfirmTicks \in Nat
  /\ CheckTicks \in Nat \ {0}
  /\ MaxJitter \in Nat \ {0}

VARIABLES
  state,                   \* state_
  have_odom,               \* fd_->have_odom_
  static_state,            \* fd_->static_state_: plan from odometry
  safety_hold_active,      \* safety_hold_active_, the last hold published
  retry_pending,           \* next_plan_retry_time_ is set
  safe_since,              \* ticks since pending_traj_safe_since_, -1 when zero
  next_check,              \* ticks until next_pending_traj_check_, 0 when zero
  tracking_error_since,    \* tracking_error_since_ is set
  inflation_escape_active, \* inflation_escape_active_
  escape_clear_since,      \* inflation_escape_clear_since_ is set
  first_traj_published,    \* first_corridor_traj_published_
  mission_allows,          \* mission_allows_dynamic_detection_
  detection_enabled,       \* dynamic_detection_enabled_
  approach_landing,        \* the task layer is in APPROACH_LANDING, QR found
  landing_requested,       \* TaskSearchManager::landing_requested_
  local_traj,              \* planner_manager_->local_data_.traj_id_
  newest_start,            \* start_time of fd_->newest_traj_: planned or now
  published,               \* the last bspline published: id and start time
  safe_checks,             \* history: safe release checks of the pending trajectory
  rejected,                \* history: trajectories that failed validation
  escape_traj              \* history: trajectory released from inside inflation

plan_vars == <<static_state, retry_pending, local_traj, newest_start, published>>
release_vars == <<safe_since, next_check, safe_checks>>
monitor_vars == <<tracking_error_since, inflation_escape_active, escape_clear_since>>
detect_vars == <<first_traj_published, mission_allows, detection_enabled>>
task_vars == <<approach_landing, landing_requested>>
hist_vars == <<rejected, escape_traj>>
vars == <<state, have_odom, safety_hold_active, plan_vars, release_vars, monitor_vars,
          detect_vars, task_vars, hist_vars>>

TrajIds == 0 .. MaxTraj
NotSet == -1
EXPL_STATE == {"INIT", "WAIT_TRIGGER", "PLAN_TRAJ", "PUB_TRAJ", "EXEC_TRAJ", "FINISH"}

\* What one release check reads from the map and from odometry.
ReleaseReading == [raw_start_safe : BOOLEAN, starts_in_inflation : BOOLEAN,
                   clears_inflation : BOOLEAN, start_close : BOOLEAN,
                   trajectory_safe : BOOLEAN]

\* What one safety callback reads; "ok" covers the hand-over grace period.
SafetyReading == [tracking : {"ok", "soft", "hard"}, confirm_elapsed : BOOLEAN,
                  raw_safe : BOOLEAN, inflated : BOOLEAN, clear_elapsed : BOOLEAN,
                  traj_safe : BOOLEAN]

-------------------------------------------------------------------------------
(* Initial state: after init().                                             *)

Init ==
  /\ state = "INIT"
  /\ have_odom = FALSE
  /\ static_state = TRUE
  /\ safety_hold_active = FALSE
  /\ retry_pending = FALSE
  /\ safe_since = NotSet
  /\ next_check = 0
  /\ tracking_error_since = FALSE
  /\ inflation_escape_active = FALSE
  /\ escape_clear_since = FALSE
  /\ first_traj_published = FALSE
  /\ mission_allows = FALSE
  /\ detection_enabled = FALSE
  /\ approach_landing = FALSE
  /\ landing_requested = FALSE
  /\ local_traj = 0
  /\ newest_start = "now"
  /\ published = [id |-> 0, start |-> "now"]
  /\ safe_checks = 0
  /\ rejected = {}
  /\ escape_traj = 0

-------------------------------------------------------------------------------
(* Subscriber callbacks.                                                    *)

\* odometryCallback, with the landing decision of updateMissionOdometry: lands
\* says that the vehicle is within landing_trigger_distance_ of the final QR.
odometryCallback(lands) ==
  /\ have_odom' = TRUE
  /\ landing_requested' = (landing_requested \/ (lands /\ approach_landing))
  /\ approach_landing' = (approach_landing /\ ~lands)
  /\ UNCHANGED <<state, safety_hold_active, plan_vars, release_vars, monitor_vars,
                 detect_vars, hist_vars>>

\* triggerCallback, for a path that does not start below ground.
triggerCallback ==
  /\ state = "WAIT_TRIGGER"
  /\ state' = "PLAN_TRAJ"
  /\ UNCHANGED <<have_odom, safety_hold_active, plan_vars, release_vars, monitor_vars,
                 detect_vars, task_vars, hist_vars>>

\* missionStatusCallback: allows says that the reported stage is inside the corridor.
missionStatusCallback(allows) ==
  /\ mission_allows' = allows
  /\ detection_enabled' = (first_traj_published /\ allows)
  /\ UNCHANGED <<state, have_odom, safety_hold_active, plan_vars, release_vars,
                 monitor_vars, first_traj_published, task_vars, hist_vars>>

-------------------------------------------------------------------------------
(* FSMCallback, one action per case of the switch.                          *)

InitDone ==
  /\ state = "INIT"
  /\ have_odom
  /\ state' = "WAIT_TRIGGER"
  /\ UNCHANGED <<have_odom, safety_hold_active, plan_vars, release_vars, monitor_vars,
                 detect_vars, task_vars, hist_vars>>

Finish ==
  /\ state = "FINISH"
  /\ safety_hold_active' = TRUE
  /\ UNCHANGED <<state, have_odom, plan_vars, release_vars, monitor_vars, detect_vars,
                 task_vars, hist_vars>>

\* planExploreMotion returns NO_FRONTIER at once after a landing request.
PlannerStoppedNever == FALSE
PlannerStopped == landing_requested

\* updateTrajInfo: every trajectory built gets a new identifier.
SameTraj == local_traj
NextTraj == local_traj + 1

\* The release evidence belongs to one pending trajectory and starts from nothing.
EvidenceKept == safe_checks' = 0 /\ UNCHANGED <<safe_since, next_check>>
EvidenceCleared == safe_since' = NotSet /\ next_check' = 0 /\ safe_checks' = 0

\* A planned trajectory does not release the hold: only its publication does.
HoldDropped == safety_hold_active' = FALSE
HoldKept == UNCHANGED safety_hold_active

\* A failed plan or a failed validation: hold, replan from odometry, cool down.
BackOffUnheld == retry_pending' = TRUE /\ static_state' = TRUE /\ UNCHANGED safety_hold_active
BackOffMoving == retry_pending' = TRUE /\ safety_hold_active' = TRUE /\ UNCHANGED static_state
BackOff == retry_pending' = TRUE /\ safety_hold_active' = TRUE /\ static_state' = TRUE

\* planExploreMotion enters APPROACH_LANDING inside buildStage3Goal, whatever it returns.
StageAdvance(reaches_qr) ==
  /\ approach_landing' = (approach_landing \/ (reaches_qr /\ first_traj_published))
  /\ UNCHANGED landing_requested

PlanSucceeds(reaches_qr) ==
  /\ state = "PLAN_TRAJ"
  /\ ~PlannerStopped
  /\ local_traj < MaxTraj
  /\ StageAdvance(reaches_qr)
  /\ local_traj' = NextTraj
  /\ newest_start' = "planned"
  /\ retry_pending' = FALSE
  /\ EvidenceCleared
  /\ HoldKept
  /\ state' = "PUB_TRAJ"
  /\ UNCHANGED <<have_odom, static_state, published, monitor_vars, detect_vars, hist_vars>>

\* NO_FRONTIER, the only result once a landing is requested.
PlanExhausted(reaches_qr) ==
  /\ state = "PLAN_TRAJ"
  /\ IF PlannerStopped THEN UNCHANGED task_vars ELSE StageAdvance(reaches_qr)
  /\ state' = "FINISH"
  /\ static_state' = TRUE
  /\ UNCHANGED <<have_odom, safety_hold_active, retry_pending, local_traj, newest_start,
                 published, release_vars, monitor_vars, detect_vars, hist_vars>>

\* FAIL; a late check of the planner may fail after it has replaced local_data_.
PlanFails(reaches_qr, replaced) ==
  /\ state = "PLAN_TRAJ"
  /\ ~PlannerStopped
  /\ replaced => local_traj < MaxTraj
  /\ StageAdvance(reaches_qr)
  /\ local_traj' = IF replaced THEN local_traj + 1 ELSE local_traj
  /\ rejected' = IF replaced THEN rejected \union {local_traj + 1} ELSE rejected
  /\ BackOff
  /\ UNCHANGED <<state, have_odom, newest_start, published, release_vars, monitor_vars,
                 detect_vars, escape_traj>>

\* A tick of PLAN_TRAJ during the retry cool-down returns at once (a stuttering
\* step); these are the ticks that run the planner.
PlanTraj ==
  \E reaches_qr \in BOOLEAN :
    \/ PlanSucceeds(reaches_qr)
    \/ PlanExhausted(reaches_qr)
    \/ \E replaced \in BOOLEAN : PlanFails(reaches_qr, replaced)

CheckDueAtZero(elapsed) == next_check <= 0
CheckDue(elapsed) == next_check <= elapsed

ReleaseSafe(r) ==
  /\ r.raw_start_safe
  /\ r.starts_in_inflation => r.clears_inflation
  /\ r.start_close
  /\ r.trajectory_safe

AtMost(n, bound) == IF n < bound THEN n ELSE bound

\* Age of the safe evidence after this tick; a safe check starts the clock.
EvidenceAge(elapsed) ==
  CASE safe_since # NotSet -> AtMost(safe_since + elapsed, ConfirmTicks)
    [] safe_since = NotSet /\ CheckDue(elapsed) -> 0
    [] OTHER -> NotSet

ChecksPassed(elapsed) == IF CheckDue(elapsed) THEN safe_checks + 1 ELSE safe_checks

RejectRelease(elapsed, r) ==
  /\ state = "PUB_TRAJ"
  /\ CheckDue(elapsed)
  /\ ~ReleaseSafe(r)
  /\ next_check' = CheckTicks
  /\ safe_since' = NotSet
  /\ safe_checks' = 0
  /\ BackOff
  /\ rejected' = rejected \union {local_traj}
  /\ state' = "PLAN_TRAJ"
  /\ UNCHANGED <<have_odom, local_traj, newest_start, published, monitor_vars,
                 detect_vars, task_vars, escape_traj>>

AwaitRelease(elapsed, r) ==
  /\ state = "PUB_TRAJ"
  /\ CheckDue(elapsed) => ReleaseSafe(r)
  /\ EvidenceAge(elapsed) < ConfirmTicks
  /\ safe_since' = EvidenceAge(elapsed)
  /\ next_check' = IF CheckDue(elapsed) THEN CheckTicks ELSE next_check - elapsed
  /\ safe_checks' = ChecksPassed(elapsed)
  /\ UNCHANGED <<state, have_odom, safety_hold_active, plan_vars, monitor_vars,
                 detect_vars, task_vars, hist_vars>>

\* The first bspline published opens the detection gate.
DetectionOpened == TRUE
DetectionOnRelease ==
  IF first_traj_published THEN detection_enabled ELSE mission_allows

\* Whether the released trajectory is an inflation escape is decided anew each time.
EscapeSticky(r) == inflation_escape_active \/ r.starts_in_inflation
EscapeOnRelease(r) == r.starts_in_inflation

\* The start time is moved to the moment of release: the planned one may lie in
\* the future of the trajectory server.
StartPlanned == newest_start
StartOnRelease == "now"

Release(elapsed, r) ==
  /\ state = "PUB_TRAJ"
  /\ CheckDue(elapsed) => ReleaseSafe(r)
  /\ EvidenceAge(elapsed) >= ConfirmTicks
  /\ safe_since' = EvidenceAge(elapsed)
  /\ next_check' = IF CheckDue(elapsed) THEN CheckTicks ELSE next_check - elapsed
  /\ safe_checks' = ChecksPassed(elapsed)
  /\ newest_start' = StartOnRelease
  /\ published' = [id |-> local_traj, start |-> newest_start']
  /\ first_traj_published' = TRUE
  /\ detection_enabled' = DetectionOnRelease
  /\ inflation_escape_active' = EscapeOnRelease(r)
  /\ escape_traj' = IF r.starts_in_inflation THEN local_traj ELSE escape_traj
  /\ escape_clear_since' = FALSE
  /\ safety_hold_active' = FALSE
  /\ static_state' = FALSE
  /\ state' = "EXEC_TRAJ"
  /\ UNCHANGED <<have_odom, retry_pending, local_traj, tracking_error_since,
                 mission_allows, task_vars, rejected>>

PubTraj ==
  \E elapsed \in 1 .. MaxJitter, r \in ReleaseReading :
    \/ RejectRelease(elapsed, r)
    \/ AwaitRelease(elapsed, r)
    \/ Release(elapsed, r)

\* Trajectory nearly executed, next frontier covered, or periodic replanning.
ExecReplan ==
  /\ state = "EXEC_TRAJ"
  /\ state' = "PLAN_TRAJ"
  /\ UNCHANGED <<have_odom, safety_hold_active, plan_vars, release_vars, monitor_vars,
                 detect_vars, task_vars, hist_vars>>

FSMCallback == InitDone \/ Finish \/ PlanTraj \/ PubTraj \/ ExecReplan

-------------------------------------------------------------------------------
(* safetyCallback, one action per way through it.                           *)

TrackingConfirmed(r) ==
  \/ r.tracking = "hard"
  \/ r.tracking = "soft" /\ tracking_error_since /\ r.confirm_elapsed

TrackingReplan(r) ==
  /\ state = "EXEC_TRAJ"
  /\ TrackingConfirmed(r)
  /\ safety_hold_active' = (safety_hold_active \/ r.tracking = "hard")
  /\ static_state' = TRUE
  /\ tracking_error_since' = FALSE
  /\ state' = "PLAN_TRAJ"
  /\ UNCHANGED <<have_odom, retry_pending, local_traj, newest_start, published, release_vars,
                 inflation_escape_active, escape_clear_since, detect_vars, task_vars, hist_vars>>

EscapeFailed(r) ==
  /\ state = "EXEC_TRAJ"
  /\ ~TrackingConfirmed(r)
  /\ inflation_escape_active
  /\ ~r.raw_safe
  /\ tracking_error_since' = (r.tracking # "ok")
  /\ safety_hold_active' = TRUE
  /\ static_state' = TRUE
  /\ inflation_escape_active' = FALSE
  /\ state' = "PLAN_TRAJ"
  /\ UNCHANGED <<have_odom, retry_pending, local_traj, newest_start, published, release_vars,
                 escape_clear_since, detect_vars, task_vars, hist_vars>>

\* The inflation escape ends after 0.20 s of continuous clearance.
EscapeUpdate(r) ==
  IF inflation_escape_active
    THEN /\ escape_clear_since' = ~r.inflated
         /\ inflation_escape_active' =
              ~(~r.inflated /\ escape_clear_since /\ r.clear_elapsed)
    ELSE UNCHANGED <<inflation_escape_active, escape_clear_since>>

Monitor(r) ==
  /\ state = "EXEC_TRAJ"
  /\ ~TrackingConfirmed(r)
  /\ inflation_escape_active => r.raw_safe
  /\ tracking_error_since' = (r.tracking # "ok")
  /\ EscapeUpdate(r)
  /\ IF r.traj_safe
       THEN UNCHANGED <<state, safety_hold_active>>
       ELSE /\ safety_hold_active' = TRUE
            /\ state' = "PLAN_TRAJ"
  /\ UNCHANGED <<have_odom, plan_vars, release_vars, detect_vars, task_vars, hist_vars>>

safetyCallback ==
  \E r \in SafetyReading : TrackingReplan(r) \/ EscapeFailed(r) \/ Monitor(r)

-------------------------------------------------------------------------------

Next ==
  \/ \E lands \in BOOLEAN : odometryCallback(lands)
  \/ triggerCallback
  \/ \E allows \in BOOLEAN : missionStatusCallback(allows)
  \/ FSMCallback
  \/ safetyCallback

Spec == Init /\ [][Next]_vars

\* A planning pass that fails again changes nothing: only a first pass, and a
\* pass after the landing request, are sure to have an effect.
EffectivePass == (~retry_pending \/ PlannerStopped) /\ PlanTraj

(***************************************************************************)
(* The 100 Hz timer keeps firing: a planning pass is eventually run (its    *)
(* retry cool-down is finite) but may fail for ever, a pending trajectory   *)
(* is eventually decided, and a trajectory, being of finite duration, is    *)
(* eventually executed.                                                     *)
(***************************************************************************)
Fairness ==
  /\ WF_vars(InitDone)
  /\ WF_vars(Finish)
  /\ WF_vars(EffectivePass)
  /\ WF_vars(PubTraj)
  /\ WF_vars(ExecReplan)

FairSpec == Spec /\ Fairness

-------------------------------------------------------------------------------
(* Correctness.                                                             *)

\* Every variable has its type.
TypeOK ==
  /\ state \in EXPL_STATE
  /\ have_odom \in BOOLEAN
  /\ static_state \in BOOLEAN
  /\ safety_hold_active \in BOOLEAN
  /\ retry_pending \in BOOLEAN
  /\ safe_since \in NotSet .. ConfirmTicks
  /\ next_check \in 0 .. CheckTicks
  /\ tracking_error_since \in BOOLEAN
  /\ inflation_escape_active \in BOOLEAN
  /\ escape_clear_since \in BOOLEAN
  /\ first_traj_published \in BOOLEAN
  /\ mission_allows \in BOOLEAN
  /\ detection_enabled \in BOOLEAN
  /\ approach_landing \in BOOLEAN
  /\ landing_requested \in BOOLEAN
  /\ local_traj \in TrajIds
  /\ newest_start \in {"planned", "now"}
  /\ published \in [id : TrajIds, start : {"planned", "now"}]
  /\ safe_checks \in Nat
  /\ rejected \in SUBSET TrajIds
  /\ escape_traj \in TrajIds

\* A plan or a release validation that failed leaves the vehicle held, and the
\* next plan starts from odometry, for the whole cool-down before the retry: no
\* callback that runs in between may undo either.
FailureCooldownIsHeld == retry_pending => safety_hold_active /\ static_state

\* Replanning "from a non-static state" extrapolates local_data_, the planner's
\* current trajectory.  Whenever it may happen, that is the trajectory the
\* vehicle was last given, although the planner also overwrites local_data_
\* with trajectories that fail later checks and are never published.
NonStaticStartIsFlown ==
  state \in {"PLAN_TRAJ", "EXEC_TRAJ"} /\ ~static_state => local_traj = published.id

\* A trajectory that failed a check of the planner or a release validation is
\* never the one published afterwards.
NeverPublishRejected == published.id \notin rejected

\* The relaxed collision rule of an inflation escape is only applied to the
\* trajectory that was validated as an escape, not to one released later.
EscapeBelongsToTrajectory ==
  state = "EXEC_TRAJ" /\ inflation_escape_active => escape_traj = published.id

\* Dynamic detection is enabled exactly when a corridor trajectory has been
\* published and the mission is inside the corridor, whichever came last.
DetectionGate == detection_enabled <=> first_traj_published /\ mission_allows

\* A trajectory is released on continuous evidence: the last check is younger
\* than the check interval and, when the confirmation time covers an interval,
\* at least two checks of this very trajectory were safe, whatever the timer jitter.
ReleaseEvidence ==
  [][published' # published =>
       /\ next_check' > 0
       /\ ConfirmTicks >= CheckTicks => safe_checks' >= 2]_vars

\* The safety hold is only ever released by the step that publishes a newer
\* trajectory starting at the moment of release.
HoldReleasedByNewTrajectory ==
  [][safety_hold_active /\ ~safety_hold_active' =>
       published'.id > published.id /\ published'.start = "now"]_vars

\* FSMCallback, safetyCallback and the planner together keep the promise of
\* TrajectoryRelease, whichever check fails and however callbacks alternate.
Promise == INSTANCE TrajectoryRelease
             WITH newest <- local_traj, current <- published.id, refused <- rejected,
                  held <- safety_hold_active, closed <- landing_requested
KeepsReleasePromise == Promise!Spec

\* A vehicle whose trajectory is being replaced is not left on the old one: the
\* planner finds a way on, ends the exploration, or the hold is raised.
PlanningStallIsHeld == state = "PLAN_TRAJ" ~> (state # "PLAN_TRAJ" \/ safety_hold_active)

\* Once the task layer has requested the landing, the exploration ends for good
\* with the vehicle held.
LandingEndsExploration ==
  landing_requested ~> [](state = "FINISH" /\ safety_hold_active)

\* From the landing request on nothing is planned: the trajectory whose release was
\* pending at that moment is the last one there can be.
PendingIsLast ==
  [][landing_requested =>
       /\ UNCHANGED local_traj
       /\ published' # published => published.id < local_traj /\ published'.id = local_traj]_vars

\* An exploration that is over after a landing request never starts again nor gives up
\* the hold.
OverForGood ==
  [][landing_requested /\ state = "FINISH" /\ safety_hold_active =>
       landing_requested' /\ state' = "FINISH" /\ safety_hold_active']_vars

\* planExploreMotion says of a landing request that the explorer publishes no
\* new translation trajectory after it.
NoTrajectoryAfterLanding == [][landing_requested => UNCHANGED published]_vars

===============================================================================
