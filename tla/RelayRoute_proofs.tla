-------------------------- MODULE RelayRoute_proofs --------------------------
(***************************************************************************)
(* Proofs about RelayRoute: the queue, the candidate, the recorded way and  *)
(* the progress of the relays, for every ground, every way of the leader    *)
(* and every setting of the lengths the assumptions allow.  What is         *)
(* recorded of the route plays no part in the first two.                    *)
(***************************************************************************)
EXTENDS RouteRecording_proofs

Queued(label) == \E i \in DOMAIN relay_waypoints : relay_waypoints[i].label = label

\* A label of which there is one is queued only once its flag is set.
FlagsTell ==
  /\ ~door_waypoint_released => ~Queued("DOOR") /\ ~Queued("INTERNAL")
  /\ ~exit_waypoint_released => ~Queued("EXIT")
  /\ ~terminal_mode_active => ~Queued("TERMINAL")

\* The queue is a sequence of labelled waypoints, whatever their progress is.
Queue ==
  /\ \E S : relay_waypoints \in Seq(S)
  /\ \A i \in DOMAIN relay_waypoints : relay_waypoints[i].label \in Labels

QInv == Queue /\ FlagsTell /\ QueueOrder

\* Before its first sample the leader cannot have turned back.
CInv == PausedHasNoCandidate /\ (last_leader_sample = None => ~relay_route_paused)

-------------------------------------------------------------------------------
(* The queue.                                                               *)

\* One waypoint more at the end, and the others as they were.
LEMMA AppendRelay ==
  ASSUME Queue, NEW label \in Labels, NEW progress, appendRelayWaypoint(label, progress)
  PROVE  /\ Queue'
         /\ Len(relay_waypoints) \in Nat
         /\ DOMAIN relay_waypoints = 1 .. Len(relay_waypoints)
         /\ DOMAIN relay_waypoints' = 1 .. Len(relay_waypoints) + 1
         /\ \A i \in DOMAIN relay_waypoints : relay_waypoints'[i] = relay_waypoints[i]
         /\ relay_waypoints'[Len(relay_waypoints) + 1].label = label
<1> DEFINE w == [label |-> label, progress |-> progress]
<1>1. PICK S : relay_waypoints \in Seq(S)
  BY DEF Queue
<1>2. relay_waypoints \in Seq(S \cup {w})
  BY <1>1
<1>3. relay_waypoints' = Append(relay_waypoints, w)
  BY DEF appendRelayWaypoint
<1> HIDE DEF w
<1>4. /\ relay_waypoints' \in Seq(S \cup {w})
      /\ Len(relay_waypoints) \in Nat
      /\ DOMAIN relay_waypoints = 1 .. Len(relay_waypoints)
      /\ DOMAIN relay_waypoints' = 1 .. Len(relay_waypoints) + 1
      /\ \A i \in 1 .. Len(relay_waypoints) : relay_waypoints'[i] = relay_waypoints[i]
      /\ relay_waypoints'[Len(relay_waypoints) + 1] = w
  BY <1>2, <1>3
<1>5. w.label = label
  BY DEF w
<1>6. Queue'
  <2>1. \A i \in DOMAIN relay_waypoints' : relay_waypoints'[i].label \in Labels
    BY <1>4, <1>5 DEF Queue
  <2> QED BY <1>4, <2>1 DEF Queue
<1> QED BY <1>4, <1>5, <1>6

\* What may be queued behind what: the rest of the order follows.
LEMMA AppendOrder ==
  ASSUME Queue, QueueOrder, NEW label \in Labels, NEW progress,
         appendRelayWaypoint(label, progress), ~Queued("TERMINAL"),
         label # "INTERNAL" => ~Queued(label),
         label = "INTERNAL" => ~Queued("EXIT"),
         label = "DOOR" => ~Queued("INTERNAL")
  PROVE  /\ Queue' /\ QueueOrder'
         /\ \A other : other # label /\ ~Queued(other) => ~Queued(other)'
<1>1. /\ Queue' /\ Len(relay_waypoints) \in Nat
      /\ DOMAIN relay_waypoints = 1 .. Len(relay_waypoints)
      /\ DOMAIN relay_waypoints' = 1 .. Len(relay_waypoints) + 1
      /\ \A i \in DOMAIN relay_waypoints : relay_waypoints'[i] = relay_waypoints[i]
      /\ relay_waypoints'[Len(relay_waypoints) + 1].label = label
  BY AppendRelay
<1>2. \A i \in DOMAIN relay_waypoints : relay_waypoints[i].label \in Labels
  BY DEF Queue
<1>3. QueueOrder'
  <2> SUFFICES ASSUME NEW i \in DOMAIN relay_waypoints', NEW j \in DOMAIN relay_waypoints', i < j
               PROVE  /\ relay_waypoints'[i].label # "TERMINAL"
                      /\ relay_waypoints'[j].label = "INTERNAL"
                           => relay_waypoints'[i].label \in {"DOOR", "INTERNAL"}
                      /\ relay_waypoints'[j].label = "DOOR"
                           => relay_waypoints'[i].label # "INTERNAL"
                      /\ relay_waypoints'[i].label = relay_waypoints'[j].label
                           => relay_waypoints'[i].label = "INTERNAL"
    BY DEF QueueOrder
  <2>1. i \in DOMAIN relay_waypoints
    BY <1>1
  <2>2. CASE j \in DOMAIN relay_waypoints
    <3>1. relay_waypoints'[i] = relay_waypoints[i] /\ relay_waypoints'[j] = relay_waypoints[j]
      BY <1>1, <2>1, <2>2
    <3> QED BY <2>1, <2>2, <3>1 DEF QueueOrder
  <2>3. CASE j = Len(relay_waypoints) + 1
    <3>1. relay_waypoints'[i].label = relay_waypoints[i].label /\ relay_waypoints'[j].label = label
      BY <1>1, <2>1, <2>3
    <3> QED BY <1>2, <2>1, <3>1 DEF Queued, Labels
  <2> QED BY <1>1, <2>2, <2>3
<1>4. ASSUME NEW other, other # label, ~Queued(other) PROVE ~Queued(other)'
  BY <1>1, <1>4 DEF Queued
<1> QED BY <1>1, <1>3, <1>4

\* A step that leaves the queue alone may only set flags.
LEMMA QueueKept ==
  ASSUME QInv, UNCHANGED relay_waypoints,
         door_waypoint_released => door_waypoint_released',
         exit_waypoint_released => exit_waypoint_released',
         terminal_mode_active => terminal_mode_active'
  PROVE  QInv'
BY DEF QInv, Queue, FlagsTell, QueueOrder, Queued

\* releaseRelays, the end of a sample of the leader.
LEMMA ReleaseQueue ==
  ASSUME QInv, NEW cell, NEW progress, releaseRelays(cell, progress),
         UNCHANGED <<exit_waypoint_released, terminal_mode_active>>
  PROVE  QInv'
<1>1. CASE UNCHANGED relay_waypoints /\ (door_waypoint_released => door_waypoint_released')
  BY <1>1, QueueKept
<1>2. CASE /\ ~terminal_mode_active /\ ~door_waypoint_released /\ door_waypoint_released'
           /\ \E at : appendRelayWaypoint("DOOR", at)
  <2>1. PICK at : appendRelayWaypoint("DOOR", at)
    BY <1>2
  <2>2. "DOOR" \in Labels
    BY DEF Labels
  <2>3. /\ Queue' /\ QueueOrder'
        /\ \A other : other # "DOOR" /\ ~Queued(other) => ~Queued(other)'
    BY <1>2, <2>1, <2>2, AppendOrder DEF QInv, FlagsTell
  <2> QED BY <1>2, <2>3 DEF QInv, FlagsTell
<1>3. CASE /\ ~terminal_mode_active /\ door_waypoint_released /\ ~exit_waypoint_released
           /\ releaseInternal(progress)
  <2>1. appendRelayWaypoint("INTERNAL", pending_relay) /\ door_waypoint_released'
    BY <1>3 DEF releaseInternal
  <2>2. "INTERNAL" \in Labels
    BY DEF Labels
  <2>3. /\ Queue' /\ QueueOrder'
        /\ \A other : other # "INTERNAL" /\ ~Queued(other) => ~Queued(other)'
    BY <1>3, <2>1, <2>2, AppendOrder DEF QInv, FlagsTell
  <2> QED BY <1>3, <2>1, <2>3 DEF QInv, FlagsTell
<1> QED BY <1>1, <1>2, <1>3 DEF releaseRelays, releaseDoor, chooseInternal, relay_vars

LEMMA OdomQueue == \A cell : QInv /\ leaderOdomCallback(cell) => QInv'
<1> SUFFICES ASSUME NEW cell, QInv, leaderOdomCallback(cell) PROVE QInv'
  OBVIOUS
<1>1. UNCHANGED <<exit_waypoint_released, terminal_mode_active>>
  BY DEF leaderOdomCallback, exit_vars
<1>2. CASE \E progress : releaseRelays(cell, progress)
  BY <1>1, <1>2, ReleaseQueue
<1>3. CASE UNCHANGED <<door_waypoint_released, relay_waypoints>>
  BY <1>1, <1>3, QueueKept
<1> QED BY <1>2, <1>3 DEF leaderOdomCallback, firstSample, nextSample, reverseSample, forwardSample,
                         acceptBranch, relay_vars

\* tryReleaseFinalExitWaypoint, called by both callbacks.
LEMMA ExitQueue ==
  ASSUME QInv, NEW final_exit, NEW outside, tryReleaseFinalExitWaypoint(final_exit, outside),
         UNCHANGED <<door_waypoint_released, terminal_mode_active>>
  PROVE  QInv'
<1>1. CASE CanReleaseExit(final_exit, outside)
  <2>1. /\ appendRelayWaypoint("EXIT", nearestRouteProgress(Exit)) /\ exit_waypoint_released'
        /\ ~exit_waypoint_released /\ ~terminal_mode_active
    BY <1>1 DEF tryReleaseFinalExitWaypoint, CanReleaseExit
  <2>2. "EXIT" \in Labels
    BY DEF Labels
  <2>3. /\ Queue' /\ QueueOrder'
        /\ \A other : other # "EXIT" /\ ~Queued(other) => ~Queued(other)'
    BY <2>1, <2>2, AppendOrder DEF QInv, FlagsTell
  <2> QED BY <2>1, <2>3 DEF QInv, FlagsTell
<1>2. CASE ~CanReleaseExit(final_exit, outside)
  BY <1>2, QueueKept DEF tryReleaseFinalExitWaypoint, relay_vars
<1> QED BY <1>1, <1>2

LEMMA LandingQueue == QInv /\ leaderLandingRequestCallback => QInv'
<1> SUFFICES ASSUME QInv, leaderLandingRequestCallback PROVE QInv'
  OBVIOUS
<1>1. /\ appendRelayWaypoint("TERMINAL", getRouteTargetBehindEnd(TerminalSpacing))
      /\ ~terminal_mode_active /\ terminal_mode_active'
      /\ UNCHANGED <<door_waypoint_released, exit_waypoint_released>>
  BY DEF leaderLandingRequestCallback, door_vars, exit_vars
<1>2. "TERMINAL" \in Labels
  BY DEF Labels
<1>3. /\ Queue' /\ QueueOrder'
      /\ \A other : other # "TERMINAL" /\ ~Queued(other) => ~Queued(other)'
  BY <1>1, <1>2, AppendOrder DEF QInv, FlagsTell
<1> QED BY <1>1, <1>3 DEF QInv, FlagsTell

LEMMA StepQueue == QInv /\ [Next]_vars => QInv'
<1> SUFFICES ASSUME QInv, [Next]_vars PROVE QInv'
  OBVIOUS
<1>1. CASE \E cell \in Ground : leaderOdomCallback(cell)
  BY <1>1, OdomQueue
<1>2. CASE doorPoseCallback
  BY <1>2, QueueKept DEF doorPoseCallback, exit_vars, relay_vars
<1>3. CASE finalExitPoseCallback
  BY <1>3, ExitQueue DEF finalExitPoseCallback, door_vars
<1>4. CASE leaderTaskStatusCallback
  BY <1>4, ExitQueue DEF leaderTaskStatusCallback, door_vars
<1>5. CASE leaderLandingRequestCallback
  BY <1>5, LandingQueue
<1>6. CASE UNCHANGED vars
  BY <1>6, QueueKept DEF vars, door_vars, exit_vars, relay_vars
<1> QED BY <1>1, <1>2, <1>3, <1>4, <1>5, <1>6 DEF Next

LEMMA InitQueue == Init => QInv
<1> SUFFICES ASSUME Init PROVE QInv
  OBVIOUS
<1>1. relay_waypoints = <<>>
  BY DEF Init
<1>2. relay_waypoints \in Seq({}) /\ DOMAIN relay_waypoints = {}
  BY <1>1
<1> QED BY <1>2 DEF QInv, Queue, FlagsTell, QueueOrder, Queued

\* appendRelayWaypoint and its four callers: whatever order the leader's odometry, mission
\* status and landing request arrive in, the queue keeps its order, over any route.
THEOREM QueueInOrder == Spec => []QueueOrder
<1>1. QInv => QueueOrder
  BY DEF QInv
<1> QED BY <1>1, InitQueue, StepQueue, PTL DEF Spec

-------------------------------------------------------------------------------
(* The candidate.                                                           *)

\* The end of a sample chooses a candidate only with recording on.
LEMMA ReleaseCandidate ==
  ASSUME PausedHasNoCandidate, NEW cell, NEW progress, releaseRelays(cell, progress),
         UNCHANGED <<exit_waypoint_released, terminal_mode_active>>, ~relay_route_paused'
  PROVE  PausedHasNoCandidate'
BY DEF releaseRelays, releaseDoor, chooseInternal, releaseInternal, PausedHasNoCandidate, relay_vars

LEMMA OdomCandidate == \A cell \in Ground : CInv /\ leaderOdomCallback(cell) => CInv'
<1> SUFFICES ASSUME NEW cell \in Ground, CInv, leaderOdomCallback(cell) PROVE CInv'
  OBVIOUS
<1>1. UNCHANGED <<exit_waypoint_released, terminal_mode_active>> /\ last_leader_sample' # None
  BY ReleaseAssumption DEF leaderOdomCallback, exit_vars
<1>2. CASE ~relay_route_paused' /\ \E progress : releaseRelays(cell, progress)
  BY <1>1, <1>2, ReleaseCandidate DEF CInv
<1>3. CASE pauseRoute
  BY <1>1, <1>3 DEF CInv, PausedHasNoCandidate, pauseRoute
<1>4. CASE UNCHANGED pending_relay /\ (relay_route_paused' => relay_route_paused)
  BY <1>1, <1>4 DEF CInv, PausedHasNoCandidate
<1> QED BY <1>2, <1>3, <1>4 DEF leaderOdomCallback, firstSample, nextSample, reverseSample,
                              forwardSample, acceptBranch, relay_vars, CInv

LEMMA StepCandidate == CInv /\ [Next]_vars => CInv'
<1> SUFFICES ASSUME CInv, [Next]_vars PROVE CInv'
  OBVIOUS
<1>1. CASE \E cell \in Ground : leaderOdomCallback(cell)
  BY <1>1, OdomCandidate
<1>2. CASE doorPoseCallback
  BY <1>2 DEF doorPoseCallback, route_vars, exit_vars, relay_vars, CInv, PausedHasNoCandidate
<1>3. CASE finalExitPoseCallback
  BY <1>3 DEF finalExitPoseCallback, tryReleaseFinalExitWaypoint, route_vars, relay_vars, CInv,
              PausedHasNoCandidate
<1>4. CASE leaderTaskStatusCallback
  BY <1>4 DEF leaderTaskStatusCallback, tryReleaseFinalExitWaypoint, route_vars, relay_vars, CInv,
              PausedHasNoCandidate
<1>5. CASE leaderLandingRequestCallback
  BY <1>5 DEF leaderLandingRequestCallback, route_vars, exit_vars, CInv, PausedHasNoCandidate
<1>6. CASE UNCHANGED vars
  BY <1>6 DEF vars, route_vars, exit_vars, relay_vars, CInv, PausedHasNoCandidate
<1> QED BY <1>1, <1>2, <1>3, <1>4, <1>5, <1>6 DEF Next

\* leaderOdomCallback, tryReleaseFinalExitWaypoint, leaderLandingRequestCallback: no
\* candidate survives a pause of the recording, the exit or the landing point, so none
\* can be released when recording goes on.
THEOREM NoStaleCandidate == Spec => []PausedHasNoCandidate
<1>1. Init => CInv
  BY DEF Init, CInv, PausedHasNoCandidate
<1>2. CInv => PausedHasNoCandidate
  BY DEF CInv
<1> QED BY <1>1, <1>2, StepCandidate, PTL DEF Spec

-------------------------------------------------------------------------------
(* The recorded way.                                                        *)

LEMMA StepRoute == RouteInv /\ CInv /\ [Next]_vars => RouteInv'
<1> SUFFICES ASSUME RouteInv, CInv, [Next]_vars PROVE RouteInv'
  OBVIOUS
<1>1. CASE \E cell \in Ground : leaderOdomCallback(cell)
  BY <1>1, OdomRoute DEF CInv, SampleEffect
<1>2. CASE UNCHANGED route_vars
  BY <1>2 DEF route_vars, RouteInv, HasBegun, CandidatesFollow, WithinWay, OnlyCandidatesMissing
<1>3. CASE UNCHANGED vars
  BY <1>2, <1>3 DEF vars
<1> QED BY <1>1, <1>2, <1>3 DEF Next, doorPoseCallback, finalExitPoseCallback,
                              leaderTaskStatusCallback, leaderLandingRequestCallback

LEMMA InitRoute == Init => RouteInv /\ CInv
<1> SUFFICES ASSUME Init PROVE RouteInv /\ CInv
  OBVIOUS
<1>1. /\ last_leader_sample = None /\ route = <<>> /\ turn_candidate_route = <<>>
      /\ relay_route_paused = FALSE /\ pending_relay = None /\ moves = 0
  BY DEF Init
<1>2. IsRoute(route)
  BY <1>1 DEF IsRoute
<1>3. turn_candidate_route \in Seq(Ground) /\ Len(turn_candidate_route) = 0
  BY <1>1
<1>4. moves \in 0 .. MaxMoves
  BY <1>1, GroundAssumption
<1> QED BY <1>1, <1>2, <1>3, <1>4
       DEF RouteInv, HasBegun, CandidatesFollow, WithinWay, OnlyCandidatesMissing,
           CInv, PausedHasNoCandidate

\* leaderOdomCallback, appendAcceptedRoutePoint: on every ground and every way over it, the
\* leader is less than the pause distance from the end of the route while recording is on.
THEOREM RecordedWay == Spec => []RecordingIsCurrent
<1>1. RouteInv => RecordingIsCurrent
  <2> SUFFICES ASSUME RouteInv, route # <<>>, ~relay_route_paused
               PROVE  Between(End(route).at, last_leader_sample) < BacktrackPause
    BY DEF RecordingIsCurrent
  <2>1. /\ turn_candidate_length(turn_candidate_route) < BacktrackPause
        /\ Between(End(route).at, last_leader_sample) <= turn_candidate_length(turn_candidate_route)
    BY DEF RouteInv, OnlyCandidatesMissing
  <2>2. turn_candidate_length(turn_candidate_route) \in Int /\ BacktrackPause \in Int
    <3>1. Len(turn_candidate_route) \in Int
      BY DEF RouteInv, CandidatesFollow
    <3> QED BY <3>1, CellTimes, GroundAssumption DEF turn_candidate_length
  <2>3. Between(End(route).at, last_leader_sample) \in Int
    <3>1. End(route).at \in Ground /\ last_leader_sample \in Ground
      BY EndOfRoute DEF RouteInv, HasBegun
    <3> QED BY <3>1, DistanceAssumption
  <2> QED BY <2>1, <2>2, <2>3
<1> QED BY <1>1, InitRoute, StepRoute, StepCandidate, PTL DEF Spec

-------------------------------------------------------------------------------
(* The progress of the relays.                                              *)

\* No route is longer than the moves of the leader.
LEMMA ProgressOfRoute ==
  ASSUME RouteInv
  PROVE  /\ EndProgress(route) \in Progress
         /\ \A i \in DOMAIN route : route[i].progress \in Progress
         /\ Progress \subseteq Nat
<1>1. Cell * moves <= Cell * MaxMoves /\ Cell * moves \in Nat /\ Cell * MaxMoves \in Nat
  <2>1. moves \in Nat /\ MaxMoves \in Nat /\ moves <= MaxMoves /\ Cell \in Nat
    BY GroundAssumption DEF RouteInv
  <2>2. Cell * moves <= Cell * MaxMoves
    BY <2>1, CellTimes
  <2> QED BY <2>1, <2>2
<1>2. CASE route = <<>>
  BY <1>1, <1>2 DEF Progress, EndProgress
<1>3. CASE route # <<>>
  <2>1. /\ End(route).at \in Ground /\ EndProgress(route) = End(route).progress
        /\ End(route).progress \in Nat /\ DOMAIN route = 1 .. Len(route)
    BY <1>3, EndOfRoute DEF RouteInv
  <2>2. last_leader_sample \in Ground
    BY <1>3 DEF RouteInv, HasBegun
  <2>3. Between(End(route).at, last_leader_sample) \in Nat
    BY <2>1, <2>2, DistanceAssumption
  <2>4. EndProgress(route) + Between(End(route).at, last_leader_sample) <= Cell * moves
    BY <1>3 DEF RouteInv, WithinWay
  <2>5. EndProgress(route) <= Cell * MaxMoves
    BY <1>1, <2>1, <2>3, <2>4
  <2>6. ASSUME NEW i \in DOMAIN route PROVE route[i].progress \in Progress
    <3>1. route[i].progress \in Nat /\ route[i].progress <= End(route).progress
      BY <1>3, <2>1, PointOfRoute DEF RouteInv
    <3> QED BY <1>1, <2>1, <2>5, <3>1 DEF Progress
  <2> QED BY <1>1, <2>1, <2>5, <2>6 DEF Progress
<1> QED BY <1>2, <1>3

LEMMA EndWithinMoves == RouteInv => EndProgress(route) \in Progress
BY ProgressOfRoute

\* nearestRouteProgress: some point of the route is nearest.
LEMMA NearestProgress ==
  ASSUME RouteInv
  PROVE  nearestRouteProgress(Exit) \in Progress
<1>1. CASE route = <<>>
  BY <1>1, ProgressOfRoute DEF nearestRouteProgress, EndProgress
<1>2. CASE route # <<>>
  <2> DEFINE D(i) == Between(route[i].at, Exit)
             T == {D(i) : i \in DOMAIN route}
             nearest == CHOOSE i \in DOMAIN route : /\ \A j \in DOMAIN route : D(i) <= D(j)
                                                    /\ \A j \in 1 .. i - 1 : D(i) < D(j)
  <2>1. Len(route) \in Nat \ {0} /\ DOMAIN route = 1 .. Len(route)
    BY <1>2, EndOfRoute DEF RouteInv
  <2>2. \A i \in DOMAIN route : D(i) \in Nat
    <3> SUFFICES ASSUME NEW i \in DOMAIN route PROVE D(i) \in Nat
      OBVIOUS
    <3>1. route[i].at \in Ground
      BY <1>2, <2>1, PointOfRoute DEF RouteInv
    <3> QED BY <3>1, DistanceAssumption
  <2> HIDE DEF D
  <2>3. T \in SUBSET Nat /\ T # {}
    BY <2>1, <2>2
  <2>4. PICK d \in T : \A e \in T : d <= e
    BY <2>3, LeastElement
  <2> DEFINE S == {i \in DOMAIN route : D(i) = d}
  <2>5. S \in SUBSET Nat /\ S # {}
    BY <2>1, <2>4
  <2>6. PICK i \in S : \A j \in S : i <= j
    BY <2>5, LeastElement
  <2>7. i \in DOMAIN route /\ \A j \in DOMAIN route : D(i) <= D(j)
    BY <2>4, <2>6
  <2>8. \A j \in 1 .. i - 1 : D(i) < D(j)
    <3> SUFFICES ASSUME NEW j \in 1 .. i - 1 PROVE D(i) < D(j)
      OBVIOUS
    <3>1. i \in Nat /\ j \in DOMAIN route /\ ~(i <= j)
      BY <2>1, <2>7
    <3>2. D(j) # d
      BY <2>6, <3>1
    <3>3. D(i) = d /\ D(i) <= D(j) /\ D(i) \in Nat /\ D(j) \in Nat
      BY <2>2, <2>6, <2>7, <3>1
    <3> QED BY <3>2, <3>3
  <2>9. nearest \in DOMAIN route
    BY <2>7, <2>8
  <2>10. nearestRouteProgress(Exit) = route[nearest].progress
    BY <1>2 DEF nearestRouteProgress, D
  <2> HIDE DEF nearest
  <2> QED BY <2>9, <2>10, ProgressOfRoute
<1> QED BY <1>1, <1>2

Waypoint == [label : Labels, progress : Progress]

\* A waypoint of the leader's own route before the landing point.
OnTheWay(w) == w.label \in {"DOOR", "INTERNAL"}

\* The queue holds nothing beyond the last selection, the landing point is not yet behind
\* it, and a candidate is between it and the end of the route.
SelectionInv ==
  /\ last_relay_selection_progress \in Nat
  /\ last_relay_selection_progress <= EndProgress(route)
  /\ \/ last_relay_selection_progress = 0
     \/ last_relay_selection_progress + TerminalSpacing <= EndProgress(route)
  /\ \/ pending_relay = None
     \/ /\ pending_relay \in Nat /\ door_waypoint_released
        /\ last_relay_selection_progress <= pending_relay
        /\ pending_relay <= EndProgress(route)

WaypointInv ==
  /\ relay_waypoints \in Seq(Waypoint)
  /\ \A i \in DOMAIN relay_waypoints :
       OnTheWay(relay_waypoints[i])
         => relay_waypoints[i].progress <= last_relay_selection_progress
  /\ RelaysInRouteOrder

FlagInv ==
  /\ leader_outside_exit => last_leader_sample # None
  /\ \A flag \in {relay_route_paused, have_confirmed_door, door_waypoint_released,
                  have_final_exit, leader_outside_exit, exit_waypoint_released,
                  terminal_mode_active} : flag \in BOOLEAN

RInv == RouteInv /\ CInv /\ QInv /\ SelectionInv /\ WaypointInv /\ FlagInv

\* A waypoint that is not nearer to the beginning than those of the route before it.
LEMMA AppendInRouteOrder ==
  ASSUME WaypointInv, NEW label \in Labels, NEW progress \in Progress,
         appendRelayWaypoint(label, progress),
         last_relay_selection_progress' \in Nat,
         \A i \in DOMAIN relay_waypoints :
           /\ label = "EXIT" \/ relay_waypoints[i].label = "EXIT"
                \/ relay_waypoints[i].progress <= progress
           /\ OnTheWay(relay_waypoints[i])
                => relay_waypoints[i].progress <= last_relay_selection_progress',
         label \in {"DOOR", "INTERNAL"} => progress <= last_relay_selection_progress'
  PROVE  WaypointInv'
<1> DEFINE w == [label |-> label, progress |-> progress]
           n == Len(relay_waypoints)
<1>1. w \in Waypoint /\ w.label = label /\ w.progress = progress
  BY DEF Waypoint
<1>2. relay_waypoints' = Append(relay_waypoints, w)
  BY DEF appendRelayWaypoint
<1> HIDE DEF w
<1>3. relay_waypoints \in Seq(Waypoint)
  BY DEF WaypointInv
<1>4. /\ n \in Nat /\ DOMAIN relay_waypoints = 1 .. n
      /\ relay_waypoints' \in Seq(Waypoint)
      /\ DOMAIN relay_waypoints' = 1 .. n + 1
      /\ \A i \in 1 .. n : relay_waypoints'[i] = relay_waypoints[i]
      /\ relay_waypoints'[n + 1] = w
  BY <1>1, <1>2, <1>3
<1> HIDE DEF n
<1>5. \A i \in 1 .. n + 1 : i \in 1 .. n \/ i = n + 1
  BY <1>4
<1>6. ASSUME NEW i \in DOMAIN relay_waypoints', OnTheWay(relay_waypoints'[i])
      PROVE  relay_waypoints'[i].progress <= last_relay_selection_progress'
  <2>1. CASE i \in 1 .. n
    BY <1>4, <1>6, <2>1
  <2>2. CASE i = n + 1
    BY <1>1, <1>4, <1>6, <2>2 DEF OnTheWay
  <2> QED BY <1>4, <1>5, <2>1, <2>2
<1>7. RelaysInRouteOrder'
  <2> SUFFICES ASSUME NEW i \in DOMAIN relay_waypoints', NEW j \in DOMAIN relay_waypoints', i < j,
                      relay_waypoints'[i].label # "EXIT", relay_waypoints'[j].label # "EXIT"
               PROVE  relay_waypoints'[i].progress <= relay_waypoints'[j].progress
    BY DEF RelaysInRouteOrder
  <2>1. i \in 1 .. n
    BY <1>4
  <2>2. CASE j \in 1 .. n
    <3>1. relay_waypoints'[i] = relay_waypoints[i] /\ relay_waypoints'[j] = relay_waypoints[j]
      BY <1>4, <2>1, <2>2
    <3>2. i \in DOMAIN relay_waypoints /\ j \in DOMAIN relay_waypoints
      BY <1>4, <2>1, <2>2
    <3>3. RelaysInRouteOrder
      BY DEF WaypointInv
    <3>4. {relay_waypoints[i].label, relay_waypoints[j].label} \cap {"EXIT"} = {}
      BY <3>1
    <3> QED BY <3>1, <3>2, <3>3, <3>4 DEF RelaysInRouteOrder
  <2>3. CASE j = n + 1
    <3>1. relay_waypoints'[i] = relay_waypoints[i] /\ relay_waypoints'[j] = w
      BY <1>4, <2>1, <2>3
    <3>2. i \in DOMAIN relay_waypoints
      BY <1>4, <2>1
    <3> QED BY <1>1, <3>1, <3>2
  <2> QED BY <1>4, <1>5, <2>2, <2>3
<1> QED BY <1>4, <1>6, <1>7 DEF WaypointInv

\* A step that leaves the queue and the selection alone; the route only grows.
LEMMA SelectionKept ==
  ASSUME SelectionInv, UNCHANGED last_relay_selection_progress,
         door_waypoint_released => door_waypoint_released',
         pending_relay' = None \/ UNCHANGED pending_relay,
         EndProgress(route) \in Nat, EndProgress(route') \in Nat,
         EndProgress(route) <= EndProgress(route')
  PROVE  SelectionInv'
BY GroundAssumption DEF SelectionInv

LEMMA WaypointsKept ==
  ASSUME WaypointInv, UNCHANGED <<relay_waypoints, last_relay_selection_progress>>
  PROVE  WaypointInv'
BY DEF WaypointInv, RelaysInRouteOrder

\* releaseRelays.
LEMMA ReleaseProgress ==
  ASSUME QInv, SelectionInv, WaypointInv, NEW cell \in Ground,
         releaseRelays(cell, EndProgress(route')),
         EndProgress(route) \in Nat, EndProgress(route') \in Progress, Progress \subseteq Nat,
         EndProgress(route) <= EndProgress(route')
  PROVE  SelectionInv' /\ WaypointInv'
<1> DEFINE progress == EndProgress(route')
           inside == inside_progress(cell)
<1>1. CASE UNCHANGED <<door_waypoint_released, relay_vars>>
  BY <1>1, SelectionKept, WaypointsKept DEF relay_vars
<1>2. CASE ~terminal_mode_active /\ ~door_waypoint_released /\ releaseDoor(cell, progress)
  <2>1. CASE inside < DoorInside
    BY <1>2, <2>1, SelectionKept, WaypointsKept DEF releaseDoor
  <2>2. CASE ~(inside < DoorInside)
    <3> DEFINE at == IF progress < inside THEN 0 ELSE progress - inside
    <3>1. /\ UNCHANGED pending_relay /\ door_waypoint_released'
          /\ last_relay_selection_progress' = at /\ appendRelayWaypoint("DOOR", at)
      BY <1>2, <2>2 DEF releaseDoor
    <3>2. inside \in Int /\ TerminalSpacing <= inside /\ TerminalSpacing \in Nat
      <4>1. cell[1] - Door[1] \in Int
        BY GroundAssumption
      <4>2. inside \in Int
        BY <4>1, CellTimes DEF inside_progress
      <4> HIDE DEF inside
      <4>3. DoorInside \in Nat /\ TerminalSpacing \in Nat
        BY GroundAssumption
      <4> QED BY <2>2, <4>2, <4>3, LandingAssumption
    <3> HIDE DEF inside
    <3>3. /\ at \in Nat /\ at <= progress /\ (at = 0 \/ at + TerminalSpacing <= progress)
      <4>1. progress \in Nat
        OBVIOUS
      <4> HIDE DEF progress
      <4> QED BY <3>2, <4>1
    <3>4. at \in Progress
      <4>1. progress <= Cell * MaxMoves /\ Cell * MaxMoves \in Int
        <5>1. MaxMoves \in Int
          BY GroundAssumption
        <5> QED BY <5>1, CellTimes DEF Progress
      <4> HIDE DEF at, progress
      <4>2. progress \in Nat
        BY DEF progress
      <4> QED BY <3>3, <4>1, <4>2 DEF Progress
    <3> HIDE DEF at
    <3>5. pending_relay = None
      BY <1>2 DEF SelectionInv
    <3>6. SelectionInv'
      BY <3>1, <3>3, <3>5 DEF SelectionInv
    <3>7. \A i \in DOMAIN relay_waypoints : relay_waypoints[i].label = "EXIT"
      BY <1>2 DEF QInv, Queue, FlagsTell, Queued, Labels
    <3>8. WaypointInv'
      <4>1. "DOOR" \in Labels
        BY DEF Labels
      <4>2. at <= last_relay_selection_progress' /\ last_relay_selection_progress' \in Nat
        BY <3>1, <3>3
      <4>3. \A i \in DOMAIN relay_waypoints : ~OnTheWay(relay_waypoints[i])
        BY <3>7 DEF OnTheWay
      <4> QED BY <3>1, <3>4, <3>7, <4>1, <4>2, <4>3, AppendInRouteOrder
    <3> QED BY <3>6, <3>8
  <2> QED BY <2>1, <2>2
<1>3. CASE door_waypoint_released /\ pending_relay = None /\ chooseInternal(progress)
  <2>1. UNCHANGED <<door_waypoint_released, last_relay_selection_progress, relay_waypoints>>
    BY <1>3 DEF chooseInternal
  <2>2. pending_relay' = None \/ /\ pending_relay' = progress
                                 /\ last_relay_selection_progress <= progress
    <3>1. last_relay_selection_progress \in Nat /\ Spacing \in Nat /\ progress \in Nat
      BY GroundAssumption DEF SelectionInv
    <3> QED BY <1>3, <3>1 DEF chooseInternal
  <2>3. SelectionInv'
    <3>1. CASE pending_relay' = None
      BY <2>1, <3>1, SelectionKept
    <3>2. CASE pending_relay' = progress /\ last_relay_selection_progress <= progress
      <4>1. TerminalSpacing \in Nat /\ progress \in Nat
        BY GroundAssumption
      <4> QED BY <1>3, <2>1, <3>2, <4>1 DEF SelectionInv
    <3> QED BY <2>2, <3>1, <3>2
  <2> QED BY <2>1, <2>3, WaypointsKept
<1>4. CASE /\ ~terminal_mode_active /\ door_waypoint_released /\ pending_relay # None
           /\ LeaderClear(progress) /\ releaseInternal(progress)
  <2>1. /\ appendRelayWaypoint("INTERNAL", pending_relay) /\ UNCHANGED door_waypoint_released
        /\ last_relay_selection_progress' = pending_relay /\ pending_relay' = None
    BY <1>4 DEF releaseInternal
  <2>2. /\ pending_relay \in Nat /\ last_relay_selection_progress \in Nat
        /\ last_relay_selection_progress <= pending_relay
        /\ pending_relay <= EndProgress(route)
    BY <1>4 DEF SelectionInv
  <2>3. progress \in Nat /\ Release \in Nat /\ TerminalSpacing \in Nat
    BY GroundAssumption, ReleaseAssumption
  <2>4. pending_relay + TerminalSpacing <= progress /\ pending_relay <= progress
    BY <1>4, <2>2, <2>3, LandingAssumption DEF LeaderClear
  <2>5. pending_relay \in Progress
    <3>1. MaxMoves \in Int
      BY GroundAssumption
    <3>2. progress <= Cell * MaxMoves /\ Cell * MaxMoves \in Int
      BY <3>1, CellTimes DEF Progress
    <3> HIDE DEF progress
    <3> QED BY <2>2, <2>3, <2>4, <3>2 DEF Progress
  <2>6. SelectionInv'
    BY <2>1, <2>2, <2>4 DEF SelectionInv
  <2>7. ASSUME NEW i \in DOMAIN relay_waypoints
        PROVE  /\ relay_waypoints[i].label = "EXIT" \/ relay_waypoints[i].progress <= pending_relay
               /\ OnTheWay(relay_waypoints[i]) => relay_waypoints[i].progress <= pending_relay
    <3>1. relay_waypoints[i].label \in {"DOOR", "INTERNAL", "EXIT"}
      BY <1>4 DEF QInv, Queue, FlagsTell, Queued, Labels
    <3>2. relay_waypoints[i].progress \in Nat
      <4>1. relay_waypoints \in Seq(Waypoint)
        BY DEF WaypointInv
      <4>2. relay_waypoints[i] \in Waypoint
        BY <4>1
      <4> QED BY <4>2 DEF Waypoint
    <3>3. OnTheWay(relay_waypoints[i])
            => relay_waypoints[i].progress <= last_relay_selection_progress
      BY DEF WaypointInv
    <3> QED BY <2>2, <3>1, <3>2, <3>3 DEF OnTheWay
  <2>8. WaypointInv'
    <3>1. "INTERNAL" \in Labels
      BY DEF Labels
    <3>2. last_relay_selection_progress' \in Nat /\ pending_relay <= last_relay_selection_progress'
      BY <2>1, <2>2
    <3>3. \A i \in DOMAIN relay_waypoints :
            /\ "INTERNAL" = "EXIT" \/ relay_waypoints[i].label = "EXIT"
                 \/ relay_waypoints[i].progress <= pending_relay
            /\ OnTheWay(relay_waypoints[i])
                 => relay_waypoints[i].progress <= last_relay_selection_progress'
      BY <2>1, <2>7
    <3> QED BY <2>1, <2>5, <3>1, <3>2, <3>3, AppendInRouteOrder
  <2> QED BY <2>6, <2>8
<1> QED BY <1>1, <1>2, <1>3, <1>4 DEF releaseRelays
LEMMA OdomProgress ==
  ASSUME RInv, NEW cell \in Ground, leaderOdomCallback(cell)
  PROVE  SelectionInv' /\ WaypointInv' /\ FlagInv'
<1>1. SampleEffect(cell)
  BY OdomRoute DEF RInv, CInv
<1>2. RouteInv' /\ EndProgress(route) <= EndProgress(route')
  BY <1>1 DEF SampleEffect
<1>3. EndProgress(route) \in Nat /\ EndProgress(route') \in Progress /\ Progress \subseteq Nat
  <2>1. EndProgress(route) \in Progress /\ Progress \subseteq Nat
    BY ProgressOfRoute DEF RInv
  <2>2. (EndProgress(route) \in Progress)'
    BY <1>2, EndWithinMoves, PTL
  <2>3. EndProgress(route') \in Progress
    BY <2>2 DEF Progress
  <2> QED BY <2>1, <2>3
<1>4. last_leader_sample' = cell /\ UNCHANGED <<have_confirmed_door, exit_vars, terminal_mode_active>>
  BY DEF leaderOdomCallback
<1>5. FlagInv'
  <2>1. last_leader_sample' # None
    BY <1>4, ReleaseAssumption
  <2>2. relay_route_paused' \in BOOLEAN /\ door_waypoint_released' \in BOOLEAN
    BY DEF RInv, FlagInv, leaderOdomCallback, firstSample, nextSample, reverseSample, forwardSample,
           acceptBranch, pauseRoute, releaseRelays, releaseDoor, chooseInternal, releaseInternal,
           relay_vars
  <2> QED BY <1>4, <2>1, <2>2 DEF RInv, FlagInv, exit_vars
<1>6. CASE releaseRelays(cell, EndProgress(route'))
  BY <1>2, <1>3, <1>5, <1>6, ReleaseProgress DEF RInv
<1>7. CASE /\ UNCHANGED <<door_waypoint_released, last_relay_selection_progress, relay_waypoints>>
           /\ pending_relay' = None \/ UNCHANGED pending_relay
  <2>1. SelectionInv'
    BY <1>2, <1>3, <1>7, SelectionKept DEF RInv
  <2> QED BY <1>5, <1>7, <2>1, WaypointsKept DEF RInv
<1> QED BY <1>1, <1>6, <1>7 DEF SampleEffect

LEMMA ExitProgress ==
  ASSUME RInv, NEW final_exit, NEW outside, tryReleaseFinalExitWaypoint(final_exit, outside),
         UNCHANGED <<route, door_waypoint_released>>
  PROVE  SelectionInv' /\ WaypointInv' /\ exit_waypoint_released' \in BOOLEAN
<1>1. EndProgress(route) \in Nat
  BY ProgressOfRoute DEF RInv
<1>2. /\ UNCHANGED last_relay_selection_progress
      /\ pending_relay' = None \/ UNCHANGED pending_relay
      /\ exit_waypoint_released' \in BOOLEAN
  BY DEF tryReleaseFinalExitWaypoint, relay_vars, RInv, FlagInv
<1>3. SelectionInv'
  BY <1>1, <1>2, SelectionKept DEF RInv
<1>4. CASE CanReleaseExit(final_exit, outside)
  <2>1. appendRelayWaypoint("EXIT", nearestRouteProgress(Exit))
    BY <1>4 DEF tryReleaseFinalExitWaypoint
  <2>2. "EXIT" \in Labels /\ nearestRouteProgress(Exit) \in Progress
    BY NearestProgress DEF Labels, RInv
  <2>3. last_relay_selection_progress' \in Nat
    BY <1>2 DEF RInv, SelectionInv
  <2>4. \A i \in DOMAIN relay_waypoints :
          OnTheWay(relay_waypoints[i])
            => relay_waypoints[i].progress <= last_relay_selection_progress'
    BY <1>2 DEF RInv, WaypointInv
  <2>5. WaypointInv
    BY DEF RInv
  <2>6. WaypointInv'
    BY <2>1, <2>2, <2>3, <2>4, <2>5, AppendInRouteOrder
  <2> QED BY <1>2, <1>3, <2>6
<1>5. CASE ~CanReleaseExit(final_exit, outside)
  <2>1. UNCHANGED <<relay_waypoints, last_relay_selection_progress>>
    BY <1>5 DEF tryReleaseFinalExitWaypoint, relay_vars
  <2> QED BY <1>2, <1>3, <2>1, WaypointsKept DEF RInv
<1> QED BY <1>4, <1>5

\* leaderLandingRequestCallback: the landing point is behind every waypoint of the route,
\* or the route is shorter than the spacing and begins behind them.
LEMMA LandingProgress ==
  ASSUME RInv, leaderLandingRequestCallback
  PROVE  SelectionInv' /\ WaypointInv' /\ FlagInv'
<1> DEFINE target == getRouteTargetBehindEnd(TerminalSpacing)
<1>1. /\ appendRelayWaypoint("TERMINAL", target) /\ ~terminal_mode_active /\ terminal_mode_active'
      /\ pending_relay' = None
      /\ UNCHANGED <<route_vars, door_vars, exit_vars, last_relay_selection_progress>>
  BY DEF leaderLandingRequestCallback
<1>2. terminal_mode_active' = TRUE
  BY DEF leaderLandingRequestCallback
<1>3. route # <<>>
  <2>1. last_leader_sample # None
    BY GroundAssumption, ReleaseAssumption DEF leaderLandingRequestCallback, RInv, FlagInv
  <2> QED BY <2>1 DEF RInv, RouteInv, HasBegun
<1>4. /\ EndProgress(route) = End(route).progress /\ EndProgress(route) \in Progress
      /\ 1 \in DOMAIN route /\ route[1].progress \in Progress /\ Progress \subseteq Nat
      /\ route[1].progress <= End(route).progress
  <2>1. Len(route) \in Nat \ {0} /\ DOMAIN route = 1 .. Len(route)
        /\ EndProgress(route) = End(route).progress
    BY <1>3, EndOfRoute DEF RInv, RouteInv
  <2>2. 1 \in DOMAIN route
    BY <2>1
  <2> QED BY <2>1, <2>2, ProgressOfRoute DEF RInv, RouteInv, IsRoute
<1>5. /\ target \in Nat /\ target <= EndProgress(route)
      /\ last_relay_selection_progress <= target
  <2>1. /\ last_relay_selection_progress \in Nat
        /\ \/ last_relay_selection_progress = 0
           \/ last_relay_selection_progress + TerminalSpacing <= EndProgress(route)
    BY DEF RInv, SelectionInv
  <2>2. TerminalSpacing \in Nat /\ EndProgress(route) \in Nat /\ route[1].progress \in Nat
    BY <1>4, GroundAssumption
  <2>3. target = IF EndProgress(route) - route[1].progress >= TerminalSpacing
                   THEN EndProgress(route) - TerminalSpacing ELSE route[1].progress
    BY <1>4 DEF getRouteTargetBehindEnd
  <2> HIDE DEF target
  <2> QED BY <1>4, <2>1, <2>2, <2>3
<1> HIDE DEF target
<1>6. target \in Progress
  <2>1. EndProgress(route) <= Cell * MaxMoves /\ Cell * MaxMoves \in Int /\ EndProgress(route) \in Nat
    <3>1. MaxMoves \in Int
      BY GroundAssumption
    <3> QED BY <1>4, <3>1, CellTimes DEF Progress
  <2> QED BY <1>5, <2>1 DEF Progress
<1>7. SelectionInv'
  <2>1. UNCHANGED <<route, door_waypoint_released>>
    BY <1>1 DEF route_vars, door_vars
  <2>2. EndProgress(route') = EndProgress(route) /\ EndProgress(route) \in Nat
    BY <1>4, <2>1
  <2> QED BY <1>1, <2>1, <2>2, SelectionKept DEF RInv
<1>8. FlagInv'
  BY <1>1, <1>2 DEF RInv, FlagInv, route_vars, door_vars, exit_vars
<1>9. ASSUME NEW i \in DOMAIN relay_waypoints
      PROVE  /\ relay_waypoints[i].label = "EXIT" \/ relay_waypoints[i].progress <= target
             /\ OnTheWay(relay_waypoints[i])
                  => relay_waypoints[i].progress <= last_relay_selection_progress
  <2>1. relay_waypoints[i].label \in {"DOOR", "INTERNAL", "EXIT"}
    BY <1>1 DEF RInv, QInv, Queue, FlagsTell, Queued, Labels
  <2>2. relay_waypoints[i].progress \in Nat
    <3>1. relay_waypoints \in Seq(Waypoint)
      BY DEF RInv, WaypointInv
    <3>2. relay_waypoints[i] \in Waypoint
      BY <3>1
    <3> QED BY <1>4, <3>2 DEF Waypoint
  <2>3. OnTheWay(relay_waypoints[i])
          => relay_waypoints[i].progress <= last_relay_selection_progress
    BY DEF RInv, WaypointInv
  <2>4. last_relay_selection_progress \in Nat
    BY DEF RInv, SelectionInv
  <2>5. OnTheWay(relay_waypoints[i]) => relay_waypoints[i].progress <= target
    BY <1>5, <2>2, <2>3, <2>4
  <2>6. relay_waypoints[i].label = "EXIT" \/ OnTheWay(relay_waypoints[i])
    BY <2>1 DEF OnTheWay
  <2> QED BY <2>3, <2>5, <2>6
<1>10. WaypointInv'
  <2>1. "TERMINAL" \in Labels /\ WaypointInv /\ last_relay_selection_progress' \in Nat
    BY <1>1 DEF Labels, RInv, SelectionInv
  <2>2. \A i \in DOMAIN relay_waypoints :
          /\ "TERMINAL" = "EXIT" \/ relay_waypoints[i].label = "EXIT"
               \/ relay_waypoints[i].progress <= target
          /\ OnTheWay(relay_waypoints[i])
               => relay_waypoints[i].progress <= last_relay_selection_progress'
    BY <1>1, <1>9
  <2> QED BY <1>1, <1>6, <2>1, <2>2, AppendInRouteOrder
<1> QED BY <1>7, <1>8, <1>10

LEMMA RelaysKept ==
  ASSUME RInv, UNCHANGED <<route, door_waypoint_released, relay_vars>>
  PROVE  SelectionInv' /\ WaypointInv'
<1>1. EndProgress(route) \in Nat
  BY ProgressOfRoute DEF RInv
<1>2. SelectionInv'
  BY <1>1, SelectionKept DEF RInv, relay_vars
<1> QED BY <1>2, WaypointsKept DEF RInv, relay_vars

LEMMA StepProgress == RInv /\ [Next]_vars => RInv'
<1> SUFFICES ASSUME RInv, [Next]_vars PROVE RInv'
  OBVIOUS
<1>1. RouteInv' /\ CInv' /\ QInv'
  BY StepRoute, StepCandidate, StepQueue DEF RInv
<1>2. CASE \E cell \in Ground : leaderOdomCallback(cell)
  BY <1>1, <1>2, OdomProgress DEF RInv
<1>3. CASE doorPoseCallback
  <2>1. FlagInv'
    BY <1>3 DEF doorPoseCallback, route_vars, exit_vars, RInv, FlagInv
  <2>2. SelectionInv' /\ WaypointInv'
    BY <1>3, RelaysKept DEF doorPoseCallback, route_vars
  <2> QED BY <1>1, <2>1, <2>2 DEF RInv
<1>4. CASE finalExitPoseCallback
  <2>1. SelectionInv' /\ WaypointInv' /\ exit_waypoint_released' \in BOOLEAN
    BY <1>4, ExitProgress DEF finalExitPoseCallback, route_vars, door_vars
  <2>2. FlagInv'
    BY <1>4, <2>1 DEF finalExitPoseCallback, route_vars, door_vars, RInv, FlagInv
  <2> QED BY <1>1, <2>1, <2>2 DEF RInv
<1>5. CASE leaderTaskStatusCallback
  <2>1. SelectionInv' /\ WaypointInv' /\ exit_waypoint_released' \in BOOLEAN
    BY <1>5, ExitProgress DEF leaderTaskStatusCallback, route_vars, door_vars
  <2>2. last_leader_sample' # None /\ leader_outside_exit' = TRUE
    BY <1>5, GroundAssumption, ReleaseAssumption DEF leaderTaskStatusCallback, route_vars
  <2>3. FlagInv'
    BY <1>5, <2>1, <2>2 DEF leaderTaskStatusCallback, route_vars, door_vars, RInv, FlagInv
  <2> QED BY <1>1, <2>1, <2>3 DEF RInv
<1>6. CASE leaderLandingRequestCallback
  BY <1>1, <1>6, LandingProgress DEF RInv
<1>7. CASE UNCHANGED vars
  <2>1. FlagInv'
    BY <1>7 DEF vars, route_vars, door_vars, exit_vars, RInv, FlagInv
  <2>2. SelectionInv' /\ WaypointInv'
    BY <1>7, RelaysKept DEF vars, route_vars, door_vars
  <2> QED BY <1>1, <2>1, <2>2 DEF RInv
<1> QED BY <1>2, <1>3, <1>4, <1>5, <1>6, <1>7 DEF Next

LEMMA InitProgress == Init => RInv
<1> SUFFICES ASSUME Init PROVE RInv
  OBVIOUS
<1>1. RouteInv /\ CInv
  BY InitRoute
<1>2. QInv
  BY InitQueue
<1>3. relay_waypoints \in Seq(Waypoint) /\ DOMAIN relay_waypoints = {}
  BY DEF Init
<1>4. WaypointInv
  BY <1>3 DEF WaypointInv, RelaysInRouteOrder
<1>5. SelectionInv
  BY DEF Init, SelectionInv, EndProgress
<1>6. FlagInv
  BY DEF Init, FlagInv
<1> QED BY <1>1, <1>2, <1>4, <1>5, <1>6 DEF RInv

\* appendRelayWaypoint and its callers: on every ground and every way of the leader the
\* waypoints of the route are queued in the order in which it was flown, the landing point
\* behind them.
THEOREM RelaysAlongRoute == Spec => []RelaysInRouteOrder
<1>1. RInv => RelaysInRouteOrder
  BY DEF RInv, WaypointInv
<1> QED BY <1>1, InitProgress, StepProgress, PTL DEF Spec

\* All callbacks: every variable keeps its type, no progress is beyond the way the leader
\* flew, and a landing point is measured on a route that has begun.
THEOREM RouteTyped == Spec => []TypeOK
<1>1. RInv => TypeOK
  <2> SUFFICES ASSUME RInv PROVE TypeOK
    OBVIOUS
  <2>1. /\ EndProgress(route) \in Progress /\ Progress \subseteq Nat
        /\ \A i \in DOMAIN route : route[i].progress \in Progress
    BY ProgressOfRoute DEF RInv
  <2>2. route \in Seq([at : Ground, progress : Progress])
    <3>1. route \in Seq(RoutePoint)
      BY DEF RInv, RouteInv, IsRoute
    <3>2. Len(route) \in Nat /\ DOMAIN route = 1 .. Len(route)
      BY <3>1
    <3>3. ASSUME NEW i \in 1 .. Len(route) PROVE route[i] \in [at : Ground, progress : Progress]
      <4>1. route[i] \in RoutePoint /\ route[i].progress \in Progress
        BY <2>1, <3>1, <3>2, <3>3
      <4> QED BY <4>1 DEF RoutePoint
    <3>4. route \in [1 .. Len(route) -> [at : Ground, progress : Progress]]
      <4>1. route \in [1 .. Len(route) -> RoutePoint]
        BY <3>1, LenProperties
      <4> QED BY <3>3, <4>1
    <3> QED BY ZenonT(30), <3>2, <3>4, SeqDef
  <2>3. /\ last_relay_selection_progress \in Progress
        /\ pending_relay \in Progress \cup {None}
    <3>1. MaxMoves \in Int
      BY GroundAssumption
    <3>2. Cell * MaxMoves \in Int
      BY <3>1, CellTimes
    <3> QED BY <2>1, <3>2 DEF RInv, SelectionInv, Progress
  <2>4. /\ last_leader_sample \in Ground \cup {None} /\ turn_candidate_route \in Seq(Ground)
        /\ moves \in 0 .. MaxMoves
    BY DEF RInv, RouteInv, HasBegun, CandidatesFollow
  <2>5. relay_waypoints \in Seq([label : Labels, progress : Progress])
    BY DEF RInv, WaypointInv, Waypoint
  <2> QED BY <2>2, <2>3, <2>4, <2>5 DEF RInv, FlagInv, TypeOK
<1> QED BY <1>1, InitProgress, StepProgress, PTL DEF Spec

===============================================================================
