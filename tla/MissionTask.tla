----------------------------- MODULE MissionTask -----------------------------
(***************************************************************************)
(* TaskSearchManager (task_search_manager.cpp) of UAV0, the stages of its   *)
(* mission: searching the corridor, fixing the exit from repeated sightings *)
(* of one door, leaving by it, finding the landing code outside, landing.   *)
(* Its callers are the odometry callback and planExploreMotion, both on the *)
(* one spinner of the node.                                                 *)
(*                                                                          *)
(* The corridor is a line of stations a metre apart, the entry between 0    *)
(* and 1.  A door is named by the last station inside it.  What the map and *)
(* the radar show is a parameter: an observation.  As launched, the targets *)
(* of the second stage are not required and the code is.                    *)
(***************************************************************************)
EXTENDS Integers

CONSTANTS
  Last,                \* the last station
  ConfirmationCount,   \* sightings that confirm a door: 5
  SupersedeCount,      \* sightings that unseat a confirmed one: 2
  ObservationHits,     \* sightings that are worth a second look: 3
  LockDepth,           \* lock_min_geodesic_distance, among the depths
  Depths,              \* lengths of the way to the far end, as inferred
  CodeCount,           \* consistent sightings that confirm the code: 3
  Code,                \* station of the landing code
  None,
  MaxHits,             \* bound: sightings counted
  MaxFrontiers,        \* bound: planning calls that find a frontier to visit
  MaxMishaps           \* bound: blocked goals and misread codes

ASSUME MissionAssumption ==
  /\ Last \in Nat \ {0, 1} /\ Code \in 1 .. Last /\ None \notin Int
  /\ {ConfirmationCount, SupersedeCount, ObservationHits, CodeCount} \subseteq Nat \ {0}
  /\ LockDepth \in Nat /\ Depths \subseteq Nat
  /\ MaxHits \in Nat \ {0} /\ {MaxFrontiers, MaxMishaps} \subseteq Nat

VARIABLES
  pos, target,              \* the vehicle, and where its trajectory ends
  corridor_entry_crossed,
  mission_stage,
  door,                     \* what is known of the exit: see Door
  search_exhausted,         \* search_exhausted_since_: "no", "running" or "over" (5 s)
  final_exit_pose,          \* what was published, latched, for the follower
  code,                     \* final_qrcode_: where it was last seen, hits, found
  landing_requested,
  frontiers, mishaps        \* so far

door_vars == <<door, search_exhausted, final_exit_pose>>
vars == <<pos, target, corridor_entry_crossed, mission_stage, door_vars, code,
          landing_requested, frontiers, mishaps>>

Stations == 0 .. Last
Doors == 1 .. Last - 1
Stages == {"SEARCH_CORRIDOR", "EXIT_APPROACH_INSIDE", "CROSS_EXIT", "SEARCH_OUTSIDE_QR",
           "APPROACH_LANDING", "LANDING"}

\* pending and hits: the door sighted last, and how often.  portal, depth: the confirmed one.
Door == [pending : Doors \cup {None}, pending_outside : BOOLEAN, hits : 0 .. MaxHits,
         portal : Doors \cup {None}, outside : BOOLEAN, depth : Depths \cup {None},
         confirmed : BOOLEAN, locked : BOOLEAN]

NoDoor == [pending |-> None, pending_outside |-> FALSE, hits |-> 0, portal |-> None,
           outside |-> FALSE, depth |-> None, confirmed |-> FALSE, locked |-> FALSE]

Init ==
  /\ pos = 0 /\ target = 0
  /\ corridor_entry_crossed = FALSE
  /\ mission_stage = "SEARCH_CORRIDOR"
  /\ door = NoDoor
  /\ search_exhausted = "no"
  /\ final_exit_pose = None
  /\ code = [at |-> None, hits |-> 0, found |-> FALSE]
  /\ landing_requested = FALSE
  /\ frontiers = 0 /\ mishaps = 0

stage3Active == mission_stage # "SEARCH_CORRIDOR"
\* finalExitFrontierGuardActive
GuardActive == door.locked \/ mission_stage \in {"EXIT_APPROACH_INSIDE", "CROSS_EXIT"}

-------------------------------------------------------------------------------
(* updateExitCandidate: d becomes what is returned, seen from station p.    *)

Near(p, q) == p - q \in -2 .. 2
DecayedBelow(d) == [d EXCEPT !.hits = @ - 1]
Decayed(d) == [d EXCEPT !.hits = IF @ = 0 THEN 0 ELSE @ - 1]
Revoked(d) == [d EXCEPT !.confirmed = FALSE, !.outside = FALSE]

\* A door the vehicle has passed, still searching, is none.
DropPassed(d, p) ==
  LET e == IF d.hits > 0 /\ p > d.pending
             THEN [d EXCEPT !.hits = 0, !.pending_outside = FALSE] ELSE d
  IN  IF e.confirmed /\ p > e.portal THEN [Revoked(e) EXCEPT !.hits = 0] ELSE e

\* A cross-section the topology takes for a turn of the corridor.
TurnRejected(d, at) ==
  LET e == Decayed(d) IN IF e.confirmed /\ e.portal = at THEN Revoked(e) ELSE e

\* One sighting more of the pending door, or the first one of another.
Sighted(d, o) ==
  IF d.hits > 0 /\ d.pending = o.at
    THEN [d EXCEPT !.hits = @ + 1, !.pending_outside = @ /\ o.outside]
    ELSE [d EXCEPT !.hits = 1, !.pending_outside = o.outside, !.pending = o.at]

\* A door farther along the way unseats the confirmed one.
Superseded(d, o) ==
  IF d.confirmed /\ d.hits >= SupersedeCount /\ o.depth > d.depth /\ d.pending # d.portal
    THEN [d EXCEPT !.confirmed = FALSE] ELSE d

Confirmable(d, p) ==
  /\ d.hits >= ConfirmationCount /\ Near(p, d.pending) /\ d.pending_outside

\* Confirmed, and locked for good at the depth of an exit.
Confirmed(d, o, p) ==
  IF Confirmable(d, p)
       /\ (~d.confirmed \/ o.depth > d.depth \/ d.pending - d.portal \in -1 .. 1)
    THEN [d EXCEPT !.portal = d.pending, !.outside = d.pending_outside, !.depth = o.depth,
                   !.confirmed = TRUE, !.locked = @ \/ o.depth >= LockDepth]
    ELSE d

Observations ==
  [kind : {"nothing", "weak"}] \cup [kind : {"turn"}, at : Doors]
    \cup [kind : {"door"}, at : Doors, depth : Depths, outside : BOOLEAN]

Observed(d, p, o) ==
  LET e == DropPassed(d, p)
  IN  CASE o.kind = "nothing" -> e
        [] o.kind = "weak" -> Decayed(e)
        [] o.kind = "turn" -> TurnRejected(e, o.at)
        [] o.kind = "door" -> Confirmed(Superseded(Sighted(e, o), o), o, p)

\* Doors are inferred in the corridor, until the exit is locked.
InferenceDueAlways == corridor_entry_crossed /\ mission_stage = "SEARCH_CORRIDOR"
InferenceDue == corridor_entry_crossed /\ mission_stage = "SEARCH_CORRIDOR" /\ ~door.locked

\* A door is sighted from less than 1.25 m.
Possible(p) ==
  {o \in Observations :
     o.kind = "door" => o.at \in {p, p + 1} /\ (door.hits < MaxHits \/ o.at # door.pending)}

\* Soon after the last inference nothing happens.
Afterwards(p) == {door} \cup IF InferenceDue THEN {Observed(door, p, o) : o \in Possible(p)} ELSE {}

\* The lock starts the exhaustion anew and is told to the follower.
ClockKept(d) == search_exhausted
Clock(d) == IF d.locked /\ ~door.locked THEN "no" ELSE search_exhausted
Published(d) == IF d.locked /\ ~door.locked THEN d.portal ELSE final_exit_pose

updateExitCandidate(d) ==
  door' = d /\ final_exit_pose' = Published(d)

-------------------------------------------------------------------------------
(* Odometry: updateRobotPose, with the sample p.                            *)

Toward(a, b) == IF a < b THEN a + 1 ELSE IF a > b THEN a - 1 ELSE a

updateRobotPose(p) ==
  /\ pos' = p
  /\ corridor_entry_crossed' = (corridor_entry_crossed \/ p >= 1)
  /\ \E d \in Afterwards(p) : updateExitCandidate(d) /\ search_exhausted' = Clock(d)
  /\ IF mission_stage = "APPROACH_LANDING" /\ code.found /\ p = code.at
       THEN mission_stage' = "LANDING" /\ landing_requested' = TRUE
       ELSE UNCHANGED <<mission_stage, landing_requested>>
  /\ UNCHANGED <<target, code, frontiers, mishaps>>

Odometry == \E p \in {pos, Toward(pos, target)} : updateRobotPose(p)

-------------------------------------------------------------------------------
(* planExploreMotion and the stages it asks for.                            *)

\* buildStage3Goal goes through the stages in their order, as far as they are over.
StageAfter(stage, ends, d) ==
  LET outside == IF code.found THEN "APPROACH_LANDING" ELSE "SEARCH_OUTSIDE_QR"
      cross == IF pos > d.portal THEN outside ELSE "CROSS_EXIT"
      inside == IF pos = d.portal THEN cross ELSE "EXIT_APPROACH_INSIDE"
  IN  CASE stage = "SEARCH_CORRIDOR" -> IF ends THEN inside ELSE stage
        [] stage = "EXIT_APPROACH_INSIDE" -> inside
        [] stage = "CROSS_EXIT" -> cross
        [] stage = "SEARCH_OUTSIDE_QR" -> outside
        [] OTHER -> stage

\* The search ends after 5 s without anything to cover, at a locked exit.
Ends(d) == Clock(d) = "over" /\ d.confirmed /\ d.locked /\ d.outside

\* buildPendingExitObservationGoal: a door sighted a few times is worth a second look.
SecondLook(d) ==
  Clock(d) = "over" /\ ~d.confirmed /\ d.hits >= ObservationHits /\ d.pending_outside

\* The goal buildStage3Goal returns in a stage, None where it returns false.
StageGoalAtDoor(stage, exhausted, d, blocked) ==
  CASE stage = "APPROACH_LANDING" -> code.at
    [] blocked -> None
    [] stage \in {"EXIT_APPROACH_INSIDE", "CROSS_EXIT"} -> d.portal
    [] stage = "SEARCH_OUTSIDE_QR" /\ exhausted -> pos
    [] OTHER -> None
StageGoal(stage, exhausted, d, blocked) ==
  CASE stage = "APPROACH_LANDING" -> code.at
    [] blocked -> None
    [] stage = "EXIT_APPROACH_INSIDE" -> d.portal
    [] stage = "CROSS_EXIT" -> d.portal + 1
    [] stage = "SEARCH_OUTSIDE_QR" /\ exhausted -> pos
    [] stage = "SEARCH_CORRIDOR" /\ exhausted /\ SecondLook(d) -> d.pending
    [] OTHER -> None

\* search_exhausted_since_ starts in the search, and is reset outside.
ClockAfter(stage, next, d) ==
  IF mission_stage = "CROSS_EXIT" /\ stage # "CROSS_EXIT" THEN "no"
  ELSE IF next = "SEARCH_CORRIDOR" /\ Clock(d) = "no" THEN "running"
  ELSE Clock(d)

\* Nothing to visit: a short step along the corridor, unless the exit is known.
Fallback == IF GuardActive THEN {target} ELSE {pos - 1, pos + 1, target} \cap Stations

\* Asked before the frontiers are searched, and again with nothing to visit.
planExploreMotion(covered, blocked) ==
  /\ ~landing_requested
  /\ mishaps' = mishaps + (IF blocked THEN 1 ELSE 0) /\ mishaps' <= MaxMishaps
  /\ \E d \in Afterwards(pos) :
       LET stage == StageAfter(mission_stage, FALSE, d)
           goal == StageGoal(stage, FALSE, d, blocked)
           next == StageAfter(stage, Ends(d), d)
           last == StageGoal(next, TRUE, d, blocked)
       IN  /\ updateExitCandidate(d)
           /\ \/ /\ goal # None /\ target' = goal
                 /\ mission_stage' = stage /\ search_exhausted' = ClockAfter(stage, stage, d)
                 /\ UNCHANGED frontiers
              \/ /\ goal = None /\ covered
                 /\ mission_stage' = stage
                 /\ search_exhausted' = "no"    \* reportSearchCoverageAvailable
                 /\ target' \in Stations
                 /\ frontiers' = frontiers + 1 /\ frontiers' <= MaxFrontiers
              \/ /\ goal = None /\ ~covered
                 /\ mission_stage' = next /\ search_exhausted' = ClockAfter(stage, next, d)
                 /\ IF last # None THEN target' = last ELSE target' \in Fallback
                 /\ UNCHANGED frontiers
  /\ UNCHANGED <<pos, corridor_entry_crossed, code, landing_requested>>

\* shouldUseMissionEntryTransit: the entry first.
EntryTransit ==
  /\ ~corridor_entry_crossed
  /\ target' = 1
  /\ UNCHANGED <<pos, corridor_entry_crossed, mission_stage, door_vars, code,
                 landing_requested, frontiers, mishaps>>

Plan == \E covered, blocked \in BOOLEAN : planExploreMotion(covered, blocked)

\* Five seconds without coverage pass.
Exhausts ==
  /\ search_exhausted = "running" /\ search_exhausted' = "over"
  /\ UNCHANGED <<pos, target, corridor_entry_crossed, mission_stage, door, final_exit_pose,
                 code, landing_requested, frontiers, mishaps>>

-------------------------------------------------------------------------------
(* finalQrcodeDetectionCallback: counted outside only.  What was found once *)
(* stays found, at the place seen last.                                     *)

finalQrcodeDetectionCallback(at, soon) ==
  /\ mission_stage \in {"SEARCH_OUTSIDE_QR", "APPROACH_LANDING"}
  /\ LET hits == IF code.hits > 0 /\ soon /\ at = code.at THEN code.hits + 1 ELSE 1
         kept == IF hits > CodeCount THEN CodeCount ELSE hits
     IN  code' = [at |-> at, hits |-> kept, found |-> code.found \/ hits >= CodeCount]
  /\ mishaps' = mishaps + (IF at = Code /\ soon THEN 0 ELSE 1) /\ mishaps' <= MaxMishaps
  /\ UNCHANGED <<pos, target, corridor_entry_crossed, mission_stage, door_vars,
                 landing_requested, frontiers>>

Detect == \E at \in Stations, soon \in BOOLEAN : finalQrcodeDetectionCallback(at, soon)

Next == Odometry \/ Plan \/ EntryTransit \/ Exhausts \/ Detect

Spec == Init /\ [][Next]_vars

\* From the lock of the exit on, the planner is asked again and again and its trajectories
\* are flown; time passes, and the code lies where it can be seen.
Fairness ==
  /\ WF_vars(door.locked /\ updateRobotPose(Toward(pos, target)))
  /\ WF_vars(door.locked /\ planExploreMotion(FALSE, FALSE))
  /\ WF_vars(Exhausts)
  /\ WF_vars(finalQrcodeDetectionCallback(Code, TRUE))

FairSpec == Spec /\ Fairness

-------------------------------------------------------------------------------
(* Properties.                                                              *)

TypeOK ==
  /\ pos \in Stations /\ target \in Stations
  /\ corridor_entry_crossed \in BOOLEAN
  /\ mission_stage \in Stages
  /\ door \in Door
  /\ search_exhausted \in {"no", "running", "over"}
  /\ final_exit_pose \in Doors \cup {None}
  /\ code \in [at : Stations \cup {None}, hits : 0 .. CodeCount, found : BOOLEAN]
  /\ landing_requested \in BOOLEAN
  /\ frontiers \in 0 .. MaxFrontiers /\ mishaps \in 0 .. MaxMishaps

\* updateExitCandidate: the exit the follower was told, once, is the one the leader goes
\* by, confirmed and open to the outside, whatever was sighted, passed or revoked since.
ToldExitHolds ==
  final_exit_pose # None
    => /\ door.locked /\ door.confirmed /\ door.outside
       /\ door.portal = final_exit_pose

\* buildStage3Goal: the stages keep the order the mission promises.
Phase == CASE mission_stage = "SEARCH_CORRIDOR" -> "search"
           [] mission_stage \in {"EXIT_APPROACH_INSIDE", "CROSS_EXIT"} -> "leave"
           [] mission_stage \in {"SEARCH_OUTSIDE_QR", "APPROACH_LANDING"} -> "outside"
           [] OTHER -> "land"

Mission == INSTANCE MissionOrder
             WITH phase <- Phase, exit <- final_exit_pose, place <- pos, None <- None
KeepsOrder == Mission!Spec

\* buildStage3Goal, finalQrcodeDetectionCallback: no stage is a dead end.  Once an exit is
\* locked the leader comes to ask for its landing.
LockedLands == door.locked ~> landing_requested

===============================================================================
