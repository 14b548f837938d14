------------------------------ MODULE RelayRoute ------------------------------
(***************************************************************************)
(* leader_safe_path_follower.cpp, the side of the follower (UAV1) that      *)
(* listens to the leader (UAV0).  It records the way the leader flew, drops *)
(* the parts where the leader turned back, and turns the way into a queue   *)
(* of relay waypoints: the door, internal points at a distance from each    *)
(* other, the final exit and a landing point behind the leader.             *)
(*                                                                          *)
(* The ground is a set of grid cells <<x, y>>, lengths are in centimetres,  *)
(* rounded down, and the leader moves by one cell from one sample to the    *)
(* next.  A cell is longer than path_sample_spacing, so a sample is skipped *)
(* only where the leader did not move.  The callbacks of the node run one   *)
(* at a time in one spinner thread: every action is one callback.           *)
(***************************************************************************)
EXTENDS Integers, Sequences

CONSTANTS
  Ground,            \* cells the leader can fly over
  Start,             \* the cell it takes off from
  Outside,           \* cells beyond the final exit
  Door, Exit,        \* centres of the entry, entered along +x, and of the final exit
  Cell,              \* side of a cell
  Distance,          \* Distance[dx][dy]: length of a displacement
  DirectionWindow,   \* route_direction_window_
  BranchConfirm,     \* turn_branch_confirm_distance_
  RevisitRadius,     \* route_revisit_radius_
  RevisitGap,        \* route_revisit_progress_gap_
  ResumeRadius,      \* route_resume_radius_
  BacktrackPause,    \* backtrack_pause_distance_
  SampleSpacing,     \* path_sample_spacing_
  MaxRoute,          \* max_route_length_
  DoorInside,        \* door_release_inside_distance_
  Spacing,           \* relay_waypoint_spacing_
  Release,           \* relay_release_distance_
  TerminalSpacing,   \* terminal_landing_spacing_
  MaxMoves,          \* bound: moves of the leader in a behaviour
  None               \* no value

ASSUME ReleaseAssumption == Release \in Nat \ {0} /\ None \notin Int \cup Ground

\* What is beyond the exit is ground the leader can fly over.
ASSUME GroundAssumption ==
  /\ Outside \subseteq Ground
  /\ Ground \cup {Door} \subseteq Int \X Int
  /\ {Cell, SampleSpacing, BacktrackPause} \subseteq Nat \ {0}
  /\ {DoorInside, Spacing, TerminalSpacing, MaxMoves} \subseteq Nat

\* leader_safe_path_follower.launch: the landing point is nearer to the end of the route
\* than the leader is to a waypoint when that is released.
ASSUME LandingAssumption == TerminalSpacing <= Release /\ TerminalSpacing <= DoorInside

VARIABLES
  last_leader_sample,            \* the cell of the last sample, None before the first
  route,                         \* route_: points [at, progress]
  turn_candidate_route,          \* cells flown against the route since the last accepted one
  relay_route_paused,
  have_confirmed_door, door_waypoint_released,
  have_final_exit, leader_outside_exit, exit_waypoint_released,
  terminal_mode_active,
  pending_relay,                 \* progress of the candidate, None when there is none
  last_relay_selection_progress,
  relay_waypoints,               \* sequence of [label, progress]
  moves                          \* history: how often the leader moved

route_vars == <<last_leader_sample, route, turn_candidate_route, relay_route_paused, moves>>
door_vars == <<have_confirmed_door, door_waypoint_released>>
exit_vars == <<have_final_exit, leader_outside_exit, exit_waypoint_released>>
relay_vars == <<pending_relay, last_relay_selection_progress, relay_waypoints>>
vars == <<route_vars, door_vars, exit_vars, terminal_mode_active, relay_vars>>

Init ==
  /\ last_leader_sample = None /\ route = <<>> /\ turn_candidate_route = <<>>
  /\ relay_route_paused = FALSE
  /\ have_confirmed_door = FALSE /\ door_waypoint_released = FALSE
  /\ have_final_exit = FALSE /\ leader_outside_exit = FALSE /\ exit_waypoint_released = FALSE
  /\ terminal_mode_active = FALSE
  /\ pending_relay = None /\ last_relay_selection_progress = 0
  /\ relay_waypoints = <<>>
  /\ moves = 0

-------------------------------------------------------------------------------
(* Geometry.                                                                *)

Abs(n) == IF n < 0 THEN -n ELSE n
Between(a, b) == Distance[Abs(a[1] - b[1])][Abs(a[2] - b[2])]
Toward(a, b) == <<b[1] - a[1], b[2] - a[2]>>
Dot(u, v) == u[1] * v[1] + u[2] * v[2]
Neighbour(a, b) == Abs(a[1] - b[1]) + Abs(a[2] - b[2]) = 1

\* A length rounded down grows by a cell at most where one end moves by a cell.
ASSUME DistanceAssumption ==
  /\ \A a \in Ground, b \in Ground \cup {Exit} : Between(a, b) \in Nat
  /\ \A a, b \in Ground : IF a = b THEN Between(a, b) = 0 ELSE Between(a, b) >= SampleSpacing
  /\ \A a, b, c \in Ground : Neighbour(b, c) => Between(a, c) <= Between(a, b) + Cell

\* Distance to the nearest of the points is above r.
ClearOf(points, cell, r) == \A p \in points : Between(p.at, cell) > r

-------------------------------------------------------------------------------
(* The recorded route.                                                      *)

End(r) == r[Len(r)]
EndProgress(r) == IF r = <<>> THEN 0 ELSE End(r).progress
Points(r) == {r[i] : i \in DOMAIN r}

\* The route is cut from its beginning to max_route_length_, two points stay.
Trim(r) ==
  LET Kept(i) == i >= Len(r) - 1 \/ End(r).progress - r[i].progress <= MaxRoute
      first == CHOOSE i \in DOMAIN r : Kept(i) /\ \A j \in 1 .. i - 1 : ~Kept(j)
  IN  SubSeq(r, first, Len(r))

appendAcceptedRoutePoint(r, cell) ==
  IF r = <<>> THEN <<[at |-> cell, progress |-> 0]>>
  ELSE LET segment == Between(End(r).at, cell)
       IN  IF segment < SampleSpacing THEN r
           ELSE Trim(Append(r, [at |-> cell, progress |-> End(r).progress + segment]))

\* The cells of a branch, one after the other.
appendBranch(r, cells) ==
  LET extended[n \in 0 .. Len(cells)] ==
        IF n = 0 THEN r ELSE appendAcceptedRoutePoint(extended[n - 1], cells[n])
  IN  extended[Len(cells)]

\* From the point a window before the end of the route, or its first, to the end.
getRouteForwardDirection(r) ==
  LET Before(i) == End(r).progress - r[i].progress >= DirectionWindow
      start == IF \E i \in DOMAIN r : Before(i)
                 THEN CHOOSE i \in DOMAIN r : Before(i) /\ \A j \in i + 1 .. Len(r) : ~Before(j)
                 ELSE 1
  IN  Toward(r[start].at, End(r).at)

\* The step from a to b, projected on the direction of the route, is below
\* forward_projection_ratio_ (-1/5) of its length.  A route without direction has
\* a zero vector here and makes no step a reverse one.
ReverseStep(a, b) ==
  LET d == getRouteForwardDirection(route)
      s == Toward(a, b)
  IN  /\ Dot(d, s) < 0
      /\ 25 * Dot(d, s) * Dot(d, s) > Dot(d, d) * Dot(s, s)

\* Another part of the route, flown a while ago, is near the cell.
RevisitsOldRoute(cell) ==
  ~ClearOf({p \in Points(route) : EndProgress(route) - p.progress >= RevisitGap},
           cell, RevisitRadius)

\* The progress of the first point nearest to the cell, 0 on an empty route.
nearestRouteProgress(cell) ==
  IF route = <<>> THEN 0
  ELSE LET D(i) == Between(route[i].at, cell)
           nearest == CHOOSE i \in DOMAIN route :
                        /\ \A j \in DOMAIN route : D(i) <= D(j)
                        /\ \A j \in 1 .. i - 1 : D(i) < D(j)
       IN  route[nearest].progress

\* The point a distance before the end, or the first point of a short route.
getRouteTargetAtStart(distance) == 0
getRouteTargetBehindEnd(distance) ==
  IF End(route).progress - route[1].progress >= distance
    THEN End(route).progress - distance ELSE route[1].progress

-------------------------------------------------------------------------------
(* Relay waypoints.                                                         *)

appendRelayWaypoint(label, progress) ==
  relay_waypoints' = Append(relay_waypoints, [label |-> label, progress |-> progress])

inside_progress(cell) == Cell * (cell[1] - Door[1])

releaseDoor(cell, progress) ==
  /\ UNCHANGED pending_relay
  /\ IF inside_progress(cell) < DoorInside
       THEN UNCHANGED <<door_waypoint_released, last_relay_selection_progress,
                        relay_waypoints>>
       ELSE LET at == IF progress < inside_progress(cell) THEN 0
                      ELSE progress - inside_progress(cell)
            IN  /\ door_waypoint_released' = TRUE
                /\ last_relay_selection_progress' = at
                /\ appendRelayWaypoint("DOOR", at)

chooseInternal(progress) ==
  /\ pending_relay' = IF progress - last_relay_selection_progress >= Spacing
                        THEN progress ELSE None
  /\ UNCHANGED <<door_waypoint_released, last_relay_selection_progress, relay_waypoints>>

LeaderClear(progress) == progress - pending_relay >= Release

\* The leader is a release distance beyond the candidate.
releaseInternalStale(progress) ==
  /\ appendRelayWaypoint("INTERNAL", pending_relay)
  /\ pending_relay' = None /\ last_relay_selection_progress' = pending_relay'
  /\ UNCHANGED door_waypoint_released
releaseInternal(progress) ==
  /\ appendRelayWaypoint("INTERNAL", pending_relay)
  /\ last_relay_selection_progress' = pending_relay /\ pending_relay' = None
  /\ UNCHANGED door_waypoint_released

\* The end of leaderOdomCallback, for a sample that was appended to the route.
releaseRelays(cell, progress) ==
  IF ~have_confirmed_door \/ terminal_mode_active
    THEN UNCHANGED <<door_waypoint_released, relay_vars>>
  ELSE IF ~door_waypoint_released THEN releaseDoor(cell, progress)
  ELSE IF exit_waypoint_released THEN UNCHANGED <<door_waypoint_released, relay_vars>>
  ELSE IF pending_relay = None THEN chooseInternal(progress)
  ELSE IF LeaderClear(progress) THEN releaseInternal(progress)
  ELSE UNCHANGED <<door_waypoint_released, relay_vars>>

-------------------------------------------------------------------------------
(* leaderOdomCallback.  Take-off is over: UAV0 was above leader_start_height *)
(* once and flies above min_record_height.                                  *)

firstSample(cell) ==
  /\ last_leader_sample = None
  /\ cell = Start
  /\ route' = appendAcceptedRoutePoint(<<>>, cell)
  /\ UNCHANGED <<turn_candidate_route, relay_route_paused, moves>>
  /\ releaseRelays(cell, 0)

\* What the code keeps in turn_candidate_length_ and in
\* consecutive_backward_distance_: both are reset where the candidates are.
turn_candidate_length(candidates) == Cell * Len(candidates)

pauseRouteOpen == UNCHANGED relay_route_paused /\ pending_relay' = None
pauseRouteKeeping == relay_route_paused' = TRUE /\ UNCHANGED pending_relay
pauseRoute == relay_route_paused' = TRUE /\ pending_relay' = None

Candidates(cell) == Append(turn_candidate_route, cell)

confirms_new_turn_branch(cell) ==
  /\ turn_candidate_length(Candidates(cell)) >= BranchConfirm
  /\ ClearOf(Points(route), cell, RevisitRadius)

acceptBranch(cell) ==
  LET extended == appendBranch(route, Candidates(cell))
  IN  /\ route' = extended
      /\ turn_candidate_route' = <<>> /\ relay_route_paused' = FALSE
      /\ releaseRelays(cell, EndProgress(extended))

\* A step against the route.  Away from every old point, the steps kept as
\* candidates become a branch of the route.
reverseSample(cell) ==
  IF confirms_new_turn_branch(cell) THEN acceptBranch(cell)
  ELSE /\ turn_candidate_route' = Candidates(cell)
       /\ IF turn_candidate_length(Candidates(cell)) >= BacktrackPause
            THEN pauseRoute
            ELSE UNCHANGED <<relay_route_paused, pending_relay>>
       /\ UNCHANGED <<route, door_waypoint_released, last_relay_selection_progress,
                      relay_waypoints>>

\* Recording is paused until the leader is back where it left the route, and pauses
\* when the leader flies along an old part of it.
forwardSample(cell) ==
  LET away == relay_route_paused /\ Between(End(route).at, cell) > ResumeRadius
  IN  /\ turn_candidate_route' = <<>>
      /\ IF away \/ RevisitsOldRoute(cell)
           THEN /\ pauseRoute
                /\ UNCHANGED <<route, door_waypoint_released, last_relay_selection_progress,
                               relay_waypoints>>
           ELSE /\ relay_route_paused' = FALSE
                /\ route' = appendAcceptedRoutePoint(route, cell)
                /\ IF route' = route
                     THEN UNCHANGED <<door_waypoint_released, relay_vars>>
                     ELSE releaseRelays(cell, EndProgress(route'))

nextSample(cell) ==
  /\ last_leader_sample # None
  /\ Neighbour(last_leader_sample, cell)
  /\ moves < MaxMoves /\ moves' = moves + 1
  /\ IF ReverseStep(last_leader_sample, cell) THEN reverseSample(cell) ELSE forwardSample(cell)

leaderOdomCallback(cell) ==
  /\ firstSample(cell) \/ nextSample(cell)
  /\ last_leader_sample' = cell
  /\ UNCHANGED <<have_confirmed_door, exit_vars, terminal_mode_active>>

-------------------------------------------------------------------------------
(* The other callbacks.                                                     *)

\* workspace_lock: only the first door counts.
doorPoseCallback ==
  /\ ~have_confirmed_door
  /\ have_confirmed_door' = TRUE
  /\ UNCHANGED <<route_vars, door_waypoint_released, exit_vars, terminal_mode_active, relay_vars>>

CanReleaseExitLate(final_exit, outside) == final_exit /\ outside /\ ~exit_waypoint_released
CanReleaseExit(final_exit, outside) ==
  final_exit /\ outside /\ ~exit_waypoint_released /\ ~terminal_mode_active

\* final_exit and outside are what the caller has just learned.
tryReleaseFinalExitWaypoint(final_exit, outside) ==
  IF CanReleaseExit(final_exit, outside)
    THEN /\ exit_waypoint_released' = TRUE
         /\ pending_relay' = None
         /\ UNCHANGED last_relay_selection_progress
         /\ appendRelayWaypoint("EXIT", nearestRouteProgress(Exit))
    ELSE UNCHANGED <<exit_waypoint_released, relay_vars>>

finalExitPoseCallback ==
  /\ ~have_final_exit
  /\ have_final_exit' = TRUE
  /\ tryReleaseFinalExitWaypoint(TRUE, leader_outside_exit)
  /\ UNCHANGED <<route_vars, door_vars, leader_outside_exit, terminal_mode_active>>

\* The stage of the leader's mission: outside once the leader has crossed the exit,
\* and it stays outside.
leaderTaskStatusCallback ==
  /\ ~leader_outside_exit /\ last_leader_sample \in Outside
  /\ leader_outside_exit' = TRUE
  /\ tryReleaseFinalExitWaypoint(have_final_exit, TRUE)
  /\ UNCHANGED <<route_vars, door_vars, have_final_exit, terminal_mode_active>>

\* The leader lands outside; its request may overtake the status.
leaderLandingRequestCallback ==
  /\ ~terminal_mode_active
  /\ leader_outside_exit \/ last_leader_sample \in Outside
  /\ terminal_mode_active' = TRUE
  /\ pending_relay' = None
  /\ appendRelayWaypoint("TERMINAL", getRouteTargetBehindEnd(TerminalSpacing))
  /\ UNCHANGED <<route_vars, door_vars, exit_vars, last_relay_selection_progress>>

Next ==
  \/ \E cell \in Ground : leaderOdomCallback(cell)
  \/ doorPoseCallback
  \/ finalExitPoseCallback
  \/ leaderTaskStatusCallback
  \/ leaderLandingRequestCallback

Spec == Init /\ [][Next]_vars

-------------------------------------------------------------------------------
(* Properties.                                                              *)

Progress == 0 .. Cell * MaxMoves
Labels == {"DOOR", "INTERNAL", "EXIT", "TERMINAL"}

\* Every variable keeps its type; the longest queue is bounded by the moves.
TypeOK ==
  /\ last_leader_sample \in Ground \cup {None}
  /\ route \in Seq([at : Ground, progress : Progress])
  /\ turn_candidate_route \in Seq(Ground)
  /\ relay_waypoints \in Seq([label : Labels, progress : Progress])
  /\ pending_relay \in Progress \cup {None}
  /\ last_relay_selection_progress \in Progress
  /\ moves \in 0 .. MaxMoves
  /\ \A flag \in {relay_route_paused, have_confirmed_door, door_waypoint_released,
                  have_final_exit, leader_outside_exit, exit_waypoint_released,
                  terminal_mode_active} : flag \in BOOLEAN

\* leaderOdomCallback: while recording is not paused the leader is less than the pause
\* distance from the end of the recorded route, whatever it flew: forwards, back, or
\* along an old part of the route.  What is measured along the route is then what the
\* leader has cleared, up to that distance.
RecordingIsCurrent ==
  (route # <<>> /\ ~relay_route_paused)
    => Between(End(route).at, last_leader_sample) < BacktrackPause

\* appendRelayWaypoint: the waypoints of the leader's own route are queued in the order
\* in which it flew over them, the landing point too, although that one is measured
\* back from the end of the route and not from the last waypoint.
RelaysInRouteOrder ==
  \A i, j \in DOMAIN relay_waypoints :
    (i < j /\ {relay_waypoints[i].label, relay_waypoints[j].label} \cap {"EXIT"} = {})
      => relay_waypoints[i].progress <= relay_waypoints[j].progress

\* tryReleaseFinalExitWaypoint, leaderLandingRequestCallback: the leader's odometry, its
\* mission status and its landing request arrive in any order.  Nothing is queued behind
\* the landing point, no internal point behind the exit, the door behind no internal
\* point, and no waypoint of which there is one is queued twice.
QueueOrder ==
  \A i, j \in DOMAIN relay_waypoints :
    i < j => /\ relay_waypoints[i].label # "TERMINAL"
             /\ relay_waypoints[j].label = "INTERNAL"
                  => relay_waypoints[i].label \in {"DOOR", "INTERNAL"}
             /\ relay_waypoints[j].label = "DOOR" => relay_waypoints[i].label # "INTERNAL"
             /\ relay_waypoints[i].label = relay_waypoints[j].label
                  => relay_waypoints[i].label = "INTERNAL"

\* leaderOdomCallback: while the leader flies back no candidate waits for its release,
\* so the first sample of a new branch cannot release a point of the way it left.
PausedHasNoCandidate ==
  /\ relay_route_paused => pending_relay = None
  /\ terminal_mode_active \/ exit_waypoint_released => pending_relay = None

===============================================================================
