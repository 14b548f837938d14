# Verification of the two-vehicle exploration workspace

The repository flies two vehicles into a building: UAV0, the leader, explores a
corridor with FUEL, finds the exit door and the final QR code and lands; UAV1
follows it along a safe path. This directory holds TLA+ models of the parts that
decide what a vehicle does, the TLC runs that check them on small instances, and
proofs of what holds for every value of their parameters.

Paths below are relative to the repository's own `src/` directory (`src/src/` in
`PROJECT.json`); `FUEL/` stands for `zyc_fuel_ws/src/FUEL/fuel_planner/`.

## 1. The system

```
        odometry, map                 mission stage, QR, exit door
             |                                  |
   +---------v----------------------------------v---------+
   | exploration node: FastExplorationFSM                 |
   |   + FastExplorationManager (planner)                 |
   |   + TaskSearchManager (mission stages, landing)      |
   +--+------------------+--------------------+-----------+
      | bspline, replan  | safety_hold        | landing_request (latched)
      v                  |                    |
   trajectory server     |                    |
      | position command |                    |
      v                  v                    v
   position controller (cxr_egoctrl_v1) ----- set_mode, setpoints ----> PX4
                                                                         ^
   dual_ego_start.py (both vehicles, before the hand-over) --------------+

   leader (UAV0): odometry, entry door, final exit, mission status, landing request
                                   |
                                   v
   follower node (UAV1): route recording -> relay waypoints -> relay executor
          | goal         ^ status           ^ commands      | safety_hold
          v              |                  |               v
   Diff-Planner: DiffReplanFSM -- trajectory --> traj_server --> controller
```

Every node is single threaded (one ROS spinner), so a callback is atomic; nodes
share nothing but topics, and nothing orders two topics. The take-off script is
the exception: its subscriber threads store messages while its main thread runs.

| Component | State it keeps | Operations | What makes it correct |
|---|---|---|---|
| Exploration FSM, `FUEL/exploration_manager/src/fast_exploration_fsm.cpp` | `state_`, `static_state_`, safety hold, retry time, release evidence, inflation escape, tracking error, detection gate | `FSMCallback` (100 Hz), `safetyCallback` (20 Hz), odometry, trigger, mission status | a trajectory is only released on fresh and continuous evidence; a failure holds the vehicle until a newer trajectory is published |
| Exploration planner, `fast_exploration_manager.cpp` | frontiers, views, current trajectory | `planExploreMotion` | no new trajectory after a landing request; a failed pass does not change what is flown |
| Mission tasks, `task_search_manager.cpp` | stage, exit-door candidates, QR evidence, goal cool-downs | odometry, detections, `buildStage3Goal` | a stage advances on confirmed evidence only; landing is final |
| Trajectory server, `FUEL/plan_manage/src/traj_server.cpp` | B-spline, `traj_id_`, start time, duration | `bsplineCallback`, `replanCallback`, `cmdCallback` | newest trajectory wins; nothing is sampled outside its time |
| Position controller, `control/src/cxr_egoctrl_v1.cpp` | poses, frame alignment, height gate, hold and lock point, last command, landing request | six callbacks and `control` (50 Hz) | lock points are real and fixed; a hold stops the vehicle; a landing ends in AUTO.LAND |
| Synchronised take-off, `cxr_ego_ctrl/src/dual_ego_start.py` | targets, reported states and poses, stability clock | phases of `run` | the vehicles lift together or not at all |
| Follower, `control/src/leader_safe_path_follower.cpp` | recorded route, candidate branch, relay waypoints; active relay, goal, accepted point, recovery goal, holds | leader's odometry, door, exit, status and landing request; `timerCallback` (`handleDiffPlannerExecution`), planner status, commands, own odometry | relays come in the order of the route; never ahead of what the leader cleared; lands at the landing point |
| Replanning FSM, `Diff-Planner/.../diff_replan_fsm.cpp` | `exec_state_`, target, trigger, failures, emergency flags, nested waits | `execFSMCallback`, `checkCollisionCallback`, `waypointCallback`, stops | every goal is flown, reported as failed, or sent again |
| Corridor search manager of Diff-Planner | search states | timers and callbacks | as for the exploration FSM |
| Mapping, search, optimisation, LDOT, FAST_LIO, drivers | grids, clouds, filters | numeric | out of reach of a model checker |

The hard behaviours are the order of callbacks inside the exploration node, the
order of messages on different topics, hold and landing requests that race with
trajectories on their way, delayed mode reports and refused mode changes, time
windows evaluated at jittered timer ticks, and retries that start from what a
failed attempt left behind. `PROJECT.json` lists them, each at its line, under
`hazards`.

## 2. Modules

| Module | Models | Run by |
|---|---|---|
| `ExplorationFSM` | the exploration state machine with the results of planner, map and task layer as choices | `MCExplorationFSM` |
| `TrajectoryRelease` | abstract: what exploration promises the vehicle that flies its trajectories | through `ExplorationFSM` |
| `ExplorationFSM_proofs` | the proofs about it, the refinement of `TrajectoryRelease` among them | TLAPS |
| `EgoController` | the position controller and PX4's flight mode | `MCEgoController` |
| `EgoController_proofs` | the proofs about it | TLAPS |
| `TrajServer` | the trajectory server | through `LeaderFlight` |
| `LeaderFlight` | composition of the three over queues | `MCLeaderFlight` |
| `LeaderFlight_proofs` | the proofs about it | TLAPS |
| `DualTakeoff` | the take-off script and two flight controllers | `MCDualTakeoff` |
| `JointTakeoff` | abstract: what a take-off of several vehicles together promises | through `DualTakeoff` |
| `DualTakeoff_proofs` | the proofs about it, the refinement of `JointTakeoff` among them | TLAPS |
| `MissionOrder` | abstract: what the mission promises | through `MissionTask` |
| `MissionTask` | the mission stages of the leader, from the exit's first sighting to the landing | `MCMissionTask` |
| `MissionTask_proofs` | the proofs about it, the refinement of `MissionOrder` among them | TLAPS |
| `RelayRoute` | the follower's record of the leader's way and the release of relay waypoints | `MCRelayRoute` |
| `RouteRecording_proofs` | lemmas: what the operators on routes return, what is recorded of the way | TLAPS |
| `RelayRoute_proofs` | the theorems about the record and the relays | TLAPS |
| `RelayStations` | the ground `RelayExecution` and `DiffReplan` share | through `RelayFlight` |
| `RelayExecution` | the follower's execution of relays over its planner | through `RelayFlight` |
| `DiffReplan` | the replanning state machine of its Diff-Planner | through `RelayFlight` |
| `RelayFlight` | composition of the two with the trajectory server and the vehicle | `MCRelayFlight` |
| `RelayJourney` | abstract: what the follower promises the leader whose route it flies | through `RelayFlight` |
| `RelayFlight_proofs` | the proofs about it, the refinement of `RelayJourney` among them | TLAPS |

Variables carry the names of the fields they stand for (without the trailing
underscore), actions the names of the callbacks. Variables commented `history`
or `external` are not fields of the code: the former record what properties
speak about, the latter are PX4 and the vehicle.

**ExplorationFSM.** One action per case of the switch in `FSMCallback` and one
per way through `safetyCallback`. Each query of the map (`raw_start_safe`,
`starts_in_inflation`, `trajectory_safe`...) and each planner result is chosen
at the moment the code asks, since map and vehicle move in between. Times the
code only compares with a threshold (tracking confirmation, escape clearance)
are a choice, which allows every behaviour of real time and more. The release
window is different, because its correctness is a relation of two deadlines:
`safe_since` and `next_check` count FSM ticks, and a callback may come up to
`MaxJitter` ticks after the previous one. A pass that fails may or may not have
replaced `local_data_` (`PlanFails`), as `planExploreMotion` has failure returns
on both sides of `updateTrajInfo`. `odometryCallback` includes the landing
decision that `updateMissionOdometry` takes inside it. Not modelled:
`frontierCallback`, which searches frontiers and draws while the machine waits.

**EgoController.** `control` is `RequestLand` followed by `Steer`, whose
disjuncts are the early returns in their order: PX4 lands by itself, hold,
return to the take-off point, drop a stale trajectory, track. A setpoint is
abstracted to what it steers to. A position is one of `Cells`; `Zero` is the
value the constructor gives to a lock point. `armed` only decides whether a
tracking setpoint carries the velocity or zero.

**TrajServer.** The time since the start of a trajectory is one of the three
cases `cmdCallback` tells apart. A trajectory may be over at any moment, which
covers its duration and the cap `replanCallback` puts on it.

**LeaderFlight.** Instances of the three modules with one queue per topic. What
an exploration step publishes follows from what it changes: `setSafetyHold`
only publishes changes, a bspline is only published by a release. It starts in
cruise, where the trigger has not arrived yet. The inflation layer and the
confirmation of a small tracking error are left to `ExplorationFSM`.

**TrajectoryRelease** numbers the trajectories as they are planned. Only the newest
can be released, once, and never after it was refused; a hold ends with a release
only; after a landing request no trajectory is planned.

**DualTakeoff.** The main thread's position in `run()` is `phase`; a loop over
the vehicles that contains a service call is one step per vehicle, because
state and pose messages may arrive between two calls. The altitude is `ground`
or `hover`. Deadlines and intervals are choices. A service call may be refused,
and an accepted one is only known to the script from a later state message.

**JointTakeoff** has the steps attempt, agree, lift, withdraw and hand over, for all
vehicles at once where the script goes through them one by one: every vehicle is told
its goal at the same moment, and only when the goals agree. `ReportOf` and `GoalOf`
are the mapping: what the script believes of a vehicle, and its target.

**MissionTask.** The corridor is a line of stations, a door is the last station
inside it. What the map and the radar show at one inference is an observation:
nothing, a hint without a portal, a turn of the corridor, or a door with the
length of the way to the far end. `Observed` applies the code's rules to it in
their order: drop what was passed, decay, revoke, count, supersede, confirm,
lock. `planExploreMotion` is one pass of the planner: it asks `buildStage3Goal`
once before and once after the frontiers are known, and a pass may go through
several stages. `search_exhausted` is the 5 s clock. As launched, detections of
the second stage are not required and the code is; the radar is on, so that a
sighted portal is open to the outside, which the model keeps as a parameter.

**MissionOrder** is what the leader promises whatever it sees: one exit is fixed
once, the corridor is left by it in a later step, landing happens beyond it.

**RelayRoute.** One action per callback of the follower that listens to the
leader. The ground is a grid of 25 cm cells and the leader moves from a cell to
a neighbour, which is above the sample spacing. Heights are left out, as the code
replaces them by a fixed one. `turn_candidate_length_` and
`consecutive_backward_distance_` are both the number of candidate cells times
25 cm: they are raised and reset together. A
confirmed branch is appended cell by cell (`appendBranch`, a recursive function). A landing request on an empty route
does not occur: the leader lands outside. The detection switch of the follower,
which `leaderOdomCallback` raises with the door, is not modelled.

**RelayExecution** and **DiffReplan** speak of one line of stations, the recorded
route; two positions within an arrival radius are one station. The timer of the
executor is split at the returns of `handleDiffPlannerExecution`; what the
function computes on its way down (`recovery_goal`, `accepted`, `arrival_goal`,
`still_published`) is one operator each, so that no action sees a half-updated
state. Times and speeds are parameters. A goal queue of one and a status queue
that drops its oldest message are those of the code, the latter shortened from
10 to 2. `waypointCallback` spins inside itself while no trajectory is executed:
`waiting` counts how many of them do. An occupied goal is moved to a point of the global
trajectory, which starts where the vehicle was when it was planned (`global_start`): the
new goal may lie behind the vehicle, and the global trajectory to it starts afresh. That
trajectory is always found: `planGlobalTrajWaypoints` has no path on which it fails, so
the error branch at `diff_replan_fsm.cpp:748` is dead and no goal gets lost there.

**RelayFlight** composes them. The trajectory runs on in time while the vehicle is
held, because the server knows nothing of the hold. Whatever goes wrong is
counted in `faults`: an attempt of the optimiser that fails, a moved goal, a
blocked trajectory, lost depth, a stop, an obstacle, a stale leader, a jump of
the odometry, a goal refused, a message delayed for as long as a
station takes, a lost heartbeat. Each kind may happen in any state.

**RelayJourney** says what the leader may rely on: the follower flies among the waypoints
cleared for it, goes on from one to the next only held and only to a cleared one, asks
to land at the last of all, and stops for good with its odometry.

## 3. Runs

| Run | Instance | What it shows |
|---|---|---|
| `fsm` | 3 trajectories, confirmation 3 ticks, check every 2, jitter 2 | 9 properties of the state machine, about 14 000 states |
| `fsm_landing` | the same | **violated**: a pending trajectory is published after the landing request |
| `ctrl` | 2 positions, 1 trajectory | 6 properties of the controller, about 86 000 states |
| `ctrl_home` | the same | **violated**: no trajectory means a flight back to the take-off point |
| `flight` | 2 trajectories, queues of length 1 | 7 properties of the composition, about 72 000 states |
| `flight_hover` | the same | **violated**: a hold release ends the hover that waits for AUTO.LAND |
| `flight_discard` | the same | **violated**: a discarded trajectory is tracked again |
| `takeoff` | 2 vehicles, 2 attempts, 2 losses | 4 properties of the script, about 1 million states |
| `takeoff_controllers` | the same | **violated**: a controller lifts a vehicle that the script keeps on the ground |
| `mission` | 5 stations, 2 depths, 3 of at most 4 votes, 2 frontiers, 2 mishaps | 4 properties of the mission, about 150 000 states |
| `relay_route` | grid with a corridor, a side branch and an exit, 15 moves | 5 properties of the route, about 257 000 states |
| `relay` | relays at 2 and 3, failure limits 1 and 2, 1 fault | 5 properties of the follower's flight, about 200 000 states |

Bounds. Three trajectories allow one flown, one rejected and one pending; two
suffice for the composition, where the question is whether the old or the new
one is flown. A confirmation of 3 ticks with a check every 2 puts the release
on a tick without a check, and a jitter of 2 makes checks late; the proofs cover
all other values. A queue of length 1 overflows on the second message, the
worst case of the 5 and 10 places in the code. Two positions tell a lock point
from the vehicle and from the take-off point. Two attempts let one start from
what another left; two losses can hit both vehicles or the same one twice.
The vehicles are symmetric in `DualTakeoff` (nothing treats one differently) and
no liveness is checked there, so symmetry is sound.

In `mission`, five stations hold a false door, the true one and an outside; a
vote of 3 with a supersession at 2 lets a second door unseat a confirmed one
before its own confirmation, as 5 and 2 do in the code; two depths are one below
and one at the lock. In `relay_route`, 15 moves take the leader in, back for more
than the pause distance, into the branch and out; with 25 cm cells the spacing of
75 cm leaves two internal points, and a route of 275 cm is trimmed. Moves bound
the length of the route. In `relay`, a first relay two stations away makes a
recovery subgoal differ from the relay, and the second is the landing point. One
fault is the bound of the run with liveness. With two, the invariants and `KeepsJourney`
hold as well (3.9 million states), and so does `MissionCompletes` on relays at 1 and 2 with
limits of 1 (1.4 million); these are too long to be runs. Failures are reported after 1 and 2 and end in a stop after 3
instead of 3, 10 and 11.

Deadlock is checked in every run but `mission`, `relay_route` and `relay`, where the
vehicle has landed, the moves are used up, or the follower waits for ever.

Properties that are checked, beyond the type invariants:

* `FailureCooldownIsHeld`, `PlanningStallIsHeld`: a failure holds the vehicle,
  through the whole cool-down, and a planner that never succeeds does not leave
  it on the old trajectory.
* `NonStaticStartIsFlown`, `KeepsReleasePromise`: the planner's one current
  trajectory is overwritten by failed passes too, yet it is neither extrapolated
  nor published when it should not be. The second is the refinement of
  `TrajectoryRelease`, which includes `NeverPublishRejected` (a theorem) and that a
  hold ends by the release of a new trajectory only.
* `ReleaseEvidence`, `EscapeBelongsToTrajectory`, `DetectionGate`: on which evidence a
  trajectory is released, and what its release changes.
* `LandingEndsExploration`, `LandingOwnsVehicle`, `LandingIsFinal`: a landing
  decision ends in FINISH, in AUTO.LAND, for good, through refusals, stale mode
  reports and the hold releases that clear its hold.
* `HoldTargetWasAPose`, `HoldPointFixed`, `MavrosLockTrusted`,
  `TrackableCommand`: what a hold locks and what may be tracked.
* `HoldAgrees`, `HoldStopsVehicle`, `NoUnassignedCommand`,
  `ReleasedReachesServer`: the processes agree once they have read their queues.
* `FlownWasReleased`: what the controller steers along passed all checks of exploration,
  two queues and two processes earlier.
* `KeepsJointTakeoff`, `ScriptLiftsTogether`, `HandoverEvidence`: the take-off. The
  first is the refinement of `JointTakeoff`, which includes `ToldTogether` (a theorem).
* `ToldExitHolds`, `KeepsOrder`, `LockedLands`: the exit told to the follower, once,
  is the one the leader goes by; the stages refine `MissionOrder`; from the lock of
  an exit on the mission ends in a landing request.
* `RecordingIsCurrent`, `PausedHasNoCandidate`: what is measured along the recorded
  route is what the leader cleared, and nothing half released survives a pause.
* `RelaysInRouteOrder`, `QueueOrder`: in which order relays are queued, whatever
  the order of door, exit, status and landing request.
* `HoldHasReason`, `NeverBeyondRelease`, `KeepsJourney`, `MissionCompletes`: the
  follower's two hold reasons agree with the one topic, it stays behind the last
  cleared relay whatever goals the planner moves, lands where it should, and gets
  there once disturbances end, unless its odometry failed or its planner was stopped
  for good. `KeepsJourney` is the
  refinement of `RelayJourney`.

### What the violated runs mean

`NoTrajectoryAfterLanding`, `HoverUntilLanding` and `DiscardedStaysDiscarded`
concern one window: a trajectory that waits for its release confirmation is
released without asking whether a hold or landing should still be kept, and the
controller believes a release whatever raised the hold. `LandingIsFinal` holds
nevertheless: the request for AUTO.LAND is repeated outside the hold branch.
`NoTrajectoryMeansNoMotion` and `NoSoloTakeoff` concern the branch of
`control` without a trajectory, which is a take-off law and not the zero-velocity
heartbeat its comment describes. Each finding in `PROJECT.json` quotes the line.

### Known departures observed while modelling

These are behaviours of the models, traced by TLC or read off the code, in which
the code and its comments disagree. They are not runs of their own; properties
exclude or allow them where noted.

* *Landing code* (`task_search_manager.cpp:1198`). Once the code is found, every
  later detection replaces its pose, consistent or not, and the vehicle approaches
  and lands at it; the comment at 1200 says one false frame never causes AUTO.LAND.
* *Lock depth* (`task_search_manager.cpp:2618`). The depth compared with the lock
  threshold is that of the topology's end, not of the local portal that gets locked.
  A locked portal is never revoked, even when it was passed.
* *Exhaustion* (`task_search_manager.cpp:2710`). The 5 s run between two planning
  passes, however far apart, unless a candidate is selected in between.
* *Folded route* (`leader_safe_path_follower.cpp:610`). A retreat below the pause
  distance followed by a forward step is recorded over again: the route then counts
  the way twice, and an internal point may be released with the leader nearer than
  the 0.70 m its launch file promises. `RecordingIsCurrent` bounds the error.
* *Side branch while paused* (`:630`). A branch at right angles to a paused route is
  not a reverse step and never confirmed; recording waits for the old end.
* *Exit order* (`:349`). The exit is queued last although its progress may be smaller
  than that of a released internal point; `RelaysInRouteOrder` leaves it out.
* *Joined branch* (`:571`). A confirmed branch is joined to the old end by a segment
  that was not flown, contrary to the log line at 580.
* *Odometry fault* (`:823`). A trajectory status after the fault releases the hold
  the fault has set; `HoldHasReason` speaks of the time before the fault.
* *Late status* (`:804`). A status names no goal: it answers the goal sent since, and
  the relay may be taken as reached at a point accepted for the previous one.
  `MissionCompletes` shows that no goal is lost by it.
* *Lost depth* (`:504`). The emergency stop it causes is final and not reported.
* *Late emergency* (`:583`). An emergency stop from the collision check after an
  earlier exit publishes no stopping trajectory: `flag_escape_emergency_` is false.
* *Lost heartbeat* (Diff-Planner's `traj_server.cpp:211`). The command of zero
  velocity is followed by the normal one in the same tick: there is no return.

### Fairness

* `ExplorationFSM`: weak fairness of the timer-driven actions. `EffectivePass`
  is a planning pass that is not merely a repeated failure: a first pass, or one
  after a landing request, which returns at once. Success is never assumed.
  `ExecReplan` is fair because a trajectory has a finite duration; `safetyCallback`
  is not assumed to intervene. Odometry, trigger and mission status may stop.
* `EgoController`: weak fairness of the 50 Hz timer and of the state stream, and
  strong fairness of a granted AUTO.LAND request: PX4 does not refuse for ever a
  request that is repeated for ever. This is an assumption on PX4.
* `LeaderFlight`: as the controller, and it takes its hold and landing messages.
  Nothing is assumed of exploration or of the trajectory server.
* `DualTakeoff`: none; the operator and the vehicles may stop at any time.
* `MissionTask`: from the lock on, weak fairness of the odometry toward the target and
  of a planning pass that finds no frontier and no blocked goal; of the 5 s; and of
  the code being seen where it lies. Frontiers and mishaps are bounded, so fair passes
  are only delayed. Nothing is assumed before the lock: whether an exit is seen is up
  to the map.
* `RelayFlight`: weak fairness of the timers, of message delivery, of plans attempted
  without a disturbance, of the vehicle that follows its commands, and of the leader
  that goes on. Strong fairness of the trajectory's time and of the tick that
  changes the active relay, which a hold or a status may disable in between: the
  timer runs at 20 Hz and meets the vehicle at its goal.

## 4. Proofs

`ExplorationFSM_proofs` proves, for all values of `MaxTraj`, `ConfirmTicks`,
`CheckTicks` and `MaxJitter` that satisfy `ConstantsAssumption`, the type
invariant, the safety invariants and the action property of the run `fsm`, the
refinement of `TrajectoryRelease`, and `HoldReleasedByNewTrajectory`.

The properties speak of what is published and held; none of them is inductive.
The invariant `IInv` adds what each state of the machine knows of the planner's
current trajectory:

* `Executed`: in EXEC_TRAJ it is the published one and planning is not static.
  `NonStaticStartIsFlown` needs it for the steps into PLAN_TRAJ.
* `Pending`: in PUB_TRAJ it is newer than the published one and not rejected.
  The refinement and `HoldReleasedByNewTrajectory` need it for `Release`.
* `Identifiers`: published and rejected identifiers were handed out, so a new
  one differs from all of them.
* `NoCooldown`: a cool-down is over before a trajectory is pending, so `Release`
  never lowers the hold during one.
* `Evidence`: while one safe check has been made, the age of the evidence and the
  time to the next check add up to at most the check interval. If the confirmation
  time covers an interval, the second check therefore falls due before the release;
  this is the whole argument of `ReleaseEvidence`, and no bound on the jitter
  enters it.

`InitInv` and `StepInv` (one step per action, one part per group of conjuncts)
give `Invariance`; the theorems follow from it with `HoldStep` and `ReleaseStep`
for the two action properties. TLC confirms `IInv` on the instance of `fsm`.

`KeepsPromise` maps the steps to those of `TrajectoryRelease` (`PlanPromise`,
`PubPromise`, `PromiseStep`): a pass that succeeds is `Plan`, one that fails after it
replaced the trajectory `PlanRefused`, a failed release `Refuse`; every monitor that
stops the vehicle is `Hold`. `PromiseRefusesForGood` draws the consequences, from the
abstract module alone. Two theorems concern the time after a landing request:
`LastTrajectory` says that the trajectory pending then is the last one that can be
published, so that the violation `fsm_landing` shows happens at most once, and
`StaysOver` that an exploration that is over and held stays so; with
`LandingEndsExploration`, which TLC checks, a landing request ends it for good.

`EgoController_proofs` proves, for every set of positions and of trajectories, the
type invariant, the three safety invariants and the action property of the run
`ctrl`; `Zero` is not a position, by `CellsAssumption`. Its invariant adds
`PosesKnown`: a source that delivered a pose holds a position, and `LockKnown`: a
latched lock point is one. `HoldTargetWasAPose` needs both, as a hold copies the
lock point and a late latch in `control` copies a pose; `control` itself waits
for the first odometry message, which makes `home` and the fallback of
`LockPoint` positions. `LatchStep` is the lemma about the two callbacks that take
a lock point, `HoldPointStep` the one behind `HoldPointFixed`. TLC confirms this
`IInv` on the instance of `ctrl`.

`LeaderFlight_proofs` proves type correctness and the four other invariants of
the run `flight`, for every queue length, number of trajectories and release timing.
It takes the invariants of the exploration machine and of the controller over from
their modules, as instances: each step of the composition is a step of one of them
(`ExplorationStep`, `ControllerStep`), and only what the queues carry is new. The
newest hold message agrees with exploration (`HoldQueue`); trajectories under way are
newer than the one the server holds, in order, the last of them published last
(`BsplineQueue`, which rests on `Pending` of the exploration machine); commands name
trajectories (`CommandQueue`), which the controller's invariant needs; and one landing
request is all there ever is (`LandingQueue`). `EnqueueEnds` and `EnqueueOrder` say
what a queue that drops its oldest message keeps. TLC confirms this `IInv` too.

`FlightStep` shows that each step of the composition is one of the exploration module
and one of the controller, or leaves them alone. `FlightImplements` is that as a
theorem, and what was proved of each alone follows for the flight: `HoldReleaseInFlight`,
`HoldPointInFlight`, and `FlightKeepsRelease`, the refinement of `TrajectoryRelease` by
the composition. Two properties of the whole have no counterpart in the parts and are
proved without a run of their own: `LandingKept` (a landing request is under way or
taken, whatever the queue dropped, as the topic is published once) and
`HoldShieldsVehicle` (once its hold messages are read, the controller publishes no
setpoint but one of the hold, whatever commands the server still sends). The second
rests on `HoldAgrees` with the hold flag of the controller in both directions.

Two theorems follow a trajectory from its release to the setpoint. `FlownReleased`: what
the controller steers along was accepted by exploration. `AllAccepted` says so of
everything on its way, and is inductive because acceptance is final (`AcceptedStep`): by the
promise of `TrajectoryRelease` nothing published can be refused afterwards.
`ForwardFlight`: the controller never returns to an older trajectory, across a hold
neither, although it keeps taking commands while it holds. `CommandsOrdered` puts the
controller's trajectory, the commands under way and the server's trajectory in one order,
which a dropped command does not break.

`DualTakeoff_proofs` proves all four properties of the run `takeoff` and `ToldTogether`,
for every set of vehicles. `Core` joins `ToldTogether` to `Commitment`, which says what each
phase knows: before the climb nobody is told to climb, in it everybody the script
still owns is. `Posed` adds that a vehicle the script told a setpoint has delivered
a pose. The two action properties then follow from the one step that changes them.
`ScriptImplements` is the refinement of `JointTakeoff`, one lemma per phase
(`WarmupOnce` to `RoundJoint`) and one for what the environment does. Its hard case is
the retry: at `Attempt` all goals must be back to hold, although targets are set one
by one and the loop may be suspended in between. `Targets` says so: nothing is
published while they differ, and the loop leaves no vehicle out. `Warming` says that
before the warm-up no goal is to climb. `JointTellsTogether` then follows from the abstract
module alone.

`MissionTask_proofs` proves type correctness, `ToldExitHolds` and the refinement
`KeepsOrder`, for every corridor, vote count, set of depths and bound. The invariant
says that the exit told is the portal of the locked door, that a stage past the search
needs the lock (`ToldAtLock`), and that the code is approached where it was seen
(`CodeSeen`); `Lockable` says the same of every door an inference may leave behind.
The lock restarts the clock (`Clock`), so that one pass cannot both lock an exit and
leave by it, and a locked door no longer changes, as `InferenceDue` is false: that is
why every pass of the planner is one step of `MissionOrder` or none.

`RelayRoute_proofs` proves all five properties of the run `relay_route`, for every
ground, metric and threshold that satisfy the assumptions of the module. `QueueOrder`
and `PausedHasNoCandidate` relate the labels in the queue to the flags (the landing
point is queued iff `terminal_mode_active`, and so on). The others need to know what
`appendBranch` and the trimming make of a route of any length. `RouteRecording_proofs`
shows it: `AcceptedPoint` and `AcceptedBranch` say that the result is a route again,
that it ends at the last cell, and how far its progress grew. As the provers take no
induction theorem with an operator for a parameter, the induction over a branch is
stated with sets: `InductiveSet` follows from `LeastElement`, and that from `WFMin` for
`<` on the natural numbers.

The invariant `RInv` has six parts. `RouteInv` says that the route and its candidates
are ways over the ground, that their length is bounded by the moves, and that only the
candidates are missing between the end of the route and the leader, which is
`RecordingIsCurrent` when the recording is not paused. `SelectionInv` and `WaypointInv`
order three marks along the route: the relays queued, the last selection, and the
candidate. `RelaysInRouteOrder` is not inductive without them, because the landing point
is measured back from the end of the route and not from the last selection: it comes
after every relay because the leader was `Release` beyond each relay, or `DoorInside`
beyond the door, when that was released. This is `LandingAssumption`, and the launch
file's values satisfy it. `GroundAssumption` and `DistanceAssumption` say that cells are
points of a plane, that two different ones are a sample apart, and that a distance
grows by at most a cell when the leader moves by one, which is what rounding down
leaves of the triangle inequality. TLC evaluates them, and `RInv`, on the run's instance.

`RelayFlight_proofs` proves type correctness, `NeverBeyondRelease`, `HoldHasReason`, the
refinement `KeepsJourney` and `LandsAtTerminal`, for every list of relays, failure limits, queue length and number
of faults. Positions, goals, messages and trajectories form a cycle, none of which is
bounded alone: `Cleared` says that all of them lie in `0 .. Relays[released]`, and
that the active relay is at most the next one. `PlanReady` says in which states a
goal is known. With both, every goal the planner moves along its global trajectory,
whose start lies in `Cleared` too, stays behind the leader (`GoalMoved`).

`JourneyKept` maps the steps to those of `RelayJourney` (`TickJourney`, `StepJourney`): a
tick that changes the active relay is `GoOn`, which needs `HoldHasReason`, as the tick sets
the wait hold only if it was not set before; the vehicle's step is `Fly`, which needs
`Cleared`. `JourneyStaysBehind` draws the consequences from the abstract module
alone, among them `LandsAfterLeader`: a follower that asks to land had the whole route
cleared for it.

The assumption on `Relays` is what `RelaysAlongRoute` shows of the queue the relays are
taken from, the exit excepted: their order along the route is not strict, and two of
them may lie at the same place.

Only model-checked: the liveness properties, as temporal reasoning under fairness and
`ENABLED` are outside of what the prover does. Every invariant, action property and
refinement that a passing run checks is a theorem. The violations are TLC's.

## 5. Not modelled

Geometry, velocity laws and all numeric algorithms are answers or choices. Not
modelled are the restart of a node; selection and cool-down of search goals; the
code the follower runs without its Diff-Planner (continuous following, stuck
recovery and the terminal descent, which the launch files switch off); targets
preset or searched by Diff-Planner and its corridor search manager; the swarm
bridge and the upstream PX4 node, which this workspace does not start; the sensor
drivers, FAST_LIO, LDOT's filters, simulators and third-party libraries. These
make up most of the lines of the repository and hold no protocol state. The ROS
queues of odometry and state streams are taken as delivering the newest message at
any moment.

## 6. Plan

1. `ExplorationFSM`, `EgoController`, `TrajServer`, `LeaderFlight`, `DualTakeoff` (done).
2. `MissionTask` and its refinement of `MissionOrder` (done).
3. `RelayRoute`, `RelayExecution`, `DiffReplan`, `RelayFlight` (done).
4. The proofs about all of them, but for liveness (done).
5. `CorridorSearch`: the search manager of Diff-Planner, with its stages up to the
   entry door, so that the door the follower is told is no longer an input.
6. `VelocityLimiter`: the velocity law of `control` over a small integer range,
   checked against a reference definition (final speed, reverse speed, slew).
7. `JointTakeoff` and `TrajectoryRelease` and their refinements (done); `RelayJourney`
   and its refinement (done); a restart of the exploration node in `LeaderFlight`.
