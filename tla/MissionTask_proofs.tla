-------------------------- MODULE MissionTask_proofs --------------------------
(***************************************************************************)
(* Proofs about MissionTask: the exit told to the follower is the one used, *)
(* and the stages implement MissionOrder.                                   *)
(***************************************************************************)
EXTENDS MissionTask, TLAPS

\* Votes are for a door, and a locked exit is a confirmed one that opens to the outside.
Lockable(d) ==
  /\ d.hits > 0 => d.pending \in Doors
  /\ d.locked => d.confirmed /\ d.outside /\ d.portal \in Doors

-------------------------------------------------------------------------------
(* The operators on doors.                                                  *)

\* A decay of the votes keeps a door a door.
LEMMA DecayedDoor ==
  ASSUME NEW d \in Door
  PROVE  /\ Decayed(d) \in Door
         /\ Decayed(d).locked = d.locked /\ Decayed(d).pending = d.pending
         /\ Decayed(d).hits > 0 => d.hits > 0
BY MissionAssumption DEF Decayed, Door

\* Dropping a passed door only takes away.
LEMMA DropPassedDoor ==
  ASSUME NEW d \in Door, NEW p \in Stations
  PROVE  /\ DropPassed(d, p) \in Door
         /\ DropPassed(d, p).locked = d.locked
         /\ DropPassed(d, p).pending = d.pending
         /\ DropPassed(d, p).hits \in {0, d.hits}
<1> DEFINE e == IF d.hits > 0 /\ p > d.pending
                  THEN [d EXCEPT !.hits = 0, !.pending_outside = FALSE] ELSE d
<1>1. e \in Door /\ e.locked = d.locked /\ e.pending = d.pending /\ e.hits \in {0, d.hits}
  <2>1. 0 \in 0 .. MaxHits
    BY MissionAssumption
  <2>2. CASE e = d
    BY <2>2
  <2>3. CASE e = [d EXCEPT !.hits = 0, !.pending_outside = FALSE]
    <3> HIDE DEF e
    <3> QED BY <2>1, <2>3 DEF Door
  <2> QED BY <2>2, <2>3
<1>2. DropPassed(d, p) = IF e.confirmed /\ p > e.portal THEN [Revoked(e) EXCEPT !.hits = 0] ELSE e
  BY DEF DropPassed
<1> HIDE DEF e
<1>3. Revoked(e) \in Door /\ Revoked(e).locked = e.locked /\ Revoked(e).pending = e.pending
  BY <1>1 DEF Revoked, Door
<1>4. \A f \in Door : /\ [f EXCEPT !.hits = 0] \in Door
                     /\ [f EXCEPT !.hits = 0].locked = f.locked
                     /\ [f EXCEPT !.hits = 0].pending = f.pending
                     /\ [f EXCEPT !.hits = 0].hits = 0
  BY MissionAssumption DEF Door
<1>5. CASE DropPassed(d, p) = [Revoked(e) EXCEPT !.hits = 0]
  BY <1>1, <1>3, <1>4, <1>5
<1>6. CASE DropPassed(d, p) = e
  BY <1>1, <1>6
<1> QED BY <1>2, <1>5, <1>6

\* A sighting makes its door the pending one.
LEMMA SightedDoor ==
  ASSUME NEW d \in Door, NEW o, o.at \in Doors, o.outside \in BOOLEAN,
         d.hits < MaxHits \/ o.at # d.pending \/ d.hits = 0
  PROVE  /\ Sighted(d, o) \in Door
         /\ Sighted(d, o).locked = d.locked
         /\ Sighted(d, o).pending = o.at
<1>1. CASE d.hits > 0 /\ d.pending = o.at
  <2>1. Sighted(d, o) = [d EXCEPT !.hits = @ + 1, !.pending_outside = @ /\ o.outside]
    BY <1>1 DEF Sighted
  <2>2. d.hits + 1 \in 0 .. MaxHits /\ (d.pending_outside /\ o.outside) \in BOOLEAN
    BY <1>1, MissionAssumption DEF Door
  <2> QED BY <1>1, <2>1, <2>2 DEF Door
<1>2. CASE ~(d.hits > 0 /\ d.pending = o.at)
  <2>1. Sighted(d, o) = [d EXCEPT !.hits = 1, !.pending_outside = o.outside, !.pending = o.at]
    BY <1>2 DEF Sighted
  <2>2. 1 \in 0 .. MaxHits
    BY MissionAssumption
  <2> QED BY <2>1, <2>2 DEF Door
<1> QED BY <1>1, <1>2

LEMMA SupersededDoor ==
  ASSUME NEW d \in Door, NEW o
  PROVE  /\ Superseded(d, o) \in Door
         /\ Superseded(d, o).locked = d.locked
         /\ Superseded(d, o).pending = d.pending
BY DEF Superseded, Door

\* A confirmation may lock the pending door.
LEMMA ConfirmedDoor ==
  ASSUME NEW d \in Door, NEW o, o.depth \in Depths, NEW p, d.pending \in Doors, ~d.locked
  PROVE  Confirmed(d, o, p) \in Door /\ Lockable(Confirmed(d, o, p))
<1>1. CASE Confirmed(d, o, p) = d
  BY <1>1 DEF Lockable
<1>2. CASE /\ Confirmable(d, p)
           /\ Confirmed(d, o, p) =
                [d EXCEPT !.portal = d.pending, !.outside = d.pending_outside, !.depth = o.depth,
                          !.confirmed = TRUE, !.locked = @ \/ o.depth >= LockDepth]
  BY <1>2 DEF Lockable, Confirmable, Door
<1> QED BY <1>1, <1>2 DEF Confirmed

\* Whatever is observed, a door that was not locked is locked only as an exit.
LEMMA ObservedDoor ==
  ASSUME NEW d \in Door, ~d.locked, Lockable(d), NEW p \in Stations,
         NEW o \in Observations, o.kind = "door" => d.hits < MaxHits \/ o.at # d.pending
  PROVE  Observed(d, p, o) \in Door /\ Lockable(Observed(d, p, o))
<1> DEFINE e == DropPassed(d, p)
<1>1. e \in Door /\ ~e.locked /\ e.pending = d.pending /\ e.hits \in {0, d.hits} /\ Lockable(e)
  BY DropPassedDoor DEF Lockable
<1> HIDE DEF e
<1>2. CASE o.kind = "nothing"
  BY <1>1, <1>2 DEF Observed, e, Lockable
<1>3. CASE o.kind = "weak"
  <2>1. Observed(d, p, o) = Decayed(e)
    BY <1>3 DEF Observed, e
  <2> QED BY <2>1, <1>1, DecayedDoor DEF Lockable
<1>4. CASE o.kind = "turn"
  <2>1. Observed(d, p, o) = TurnRejected(e, o.at)
    BY <1>4 DEF Observed, e
  <2>2. Decayed(e) \in Door /\ ~Decayed(e).locked /\ Lockable(Decayed(e))
    BY <1>1, DecayedDoor DEF Lockable
  <2>3. TurnRejected(e, o.at) \in {Decayed(e), Revoked(Decayed(e))}
    BY DEF TurnRejected
  <2> QED BY <2>1, <2>2, <2>3 DEF Lockable, Revoked, Door
<1>5. CASE o.kind = "door"
  <2>1. o.at \in Doors /\ o.depth \in Depths /\ o.outside \in BOOLEAN
    BY <1>5 DEF Observations
  <2>2. Sighted(e, o) \in Door /\ ~Sighted(e, o).locked /\ Sighted(e, o).pending = o.at
    BY <1>1, <1>5, <2>1, SightedDoor DEF Door
  <2>3. /\ Superseded(Sighted(e, o), o) \in Door /\ ~Superseded(Sighted(e, o), o).locked
        /\ Superseded(Sighted(e, o), o).pending = o.at
    BY <2>2, SupersededDoor
  <2>4. Observed(d, p, o) = Confirmed(Superseded(Sighted(e, o), o), o, p)
    BY <1>5 DEF Observed, e
  <2> QED BY <2>1, <2>3, <2>4, ConfirmedDoor
<1> QED BY <1>2, <1>3, <1>4, <1>5 DEF Observations

-------------------------------------------------------------------------------
(* The inductive invariant.                                                 *)

\* The latched message is the lock, and a stage past the search needs the lock.
ToldAtLock ==
  /\ Lockable(door)
  /\ final_exit_pose = IF door.locked THEN door.portal ELSE None
  /\ stage3Active => door.locked

\* The code is approached where it was seen.
CodeSeen ==
  /\ mission_stage = "APPROACH_LANDING" => code.found
  /\ code.found => code.at \in Stations

IInv == TypeOK /\ ToldAtLock /\ CodeSeen

\* What the inference leaves, whatever it saw.
LEMMA AfterwardsDoor ==
  ASSUME IInv, NEW p \in Stations, NEW d \in Afterwards(p)
  PROVE  d \in Door /\ Lockable(d) /\ (door.locked => d = door)
<1>1. CASE d = door
  BY <1>1 DEF IInv, TypeOK, ToldAtLock
<1>2. CASE d # door
  <2>1. PICK o \in Possible(p) : d = Observed(door, p, o)
    BY <1>2 DEF Afterwards
  <2>2. ~door.locked
    BY <1>2 DEF Afterwards, InferenceDue
  <2>3. o \in Observations /\ (o.kind = "door" => door.hits < MaxHits \/ o.at # door.pending)
    BY DEF Possible
  <2> QED BY <2>1, <2>2, <2>3, ObservedDoor DEF IInv, TypeOK, ToldAtLock
<1> QED BY <1>1, <1>2

\* The update keeps the message true to the lock.
LEMMA UpdateTold ==
  ASSUME IInv, NEW p \in Stations, NEW d \in Afterwards(p), updateExitCandidate(d)
  PROVE  /\ door' = d /\ d \in Door /\ Lockable(d) /\ (door.locked => d = door)
         /\ final_exit_pose' = IF d.locked THEN d.portal ELSE None
         /\ final_exit_pose' \in Doors \cup {None}
         /\ Clock(d) \in {"no", "running", "over"}
         /\ Clock(d) = "over" /\ d.locked => door.locked
<1>1. d \in Door /\ Lockable(d) /\ (door.locked => d = door)
  BY AfterwardsDoor
<1>2. door' = d /\ final_exit_pose' = Published(d)
  BY DEF updateExitCandidate
<1>3. Published(d) = IF d.locked THEN d.portal ELSE None
  BY <1>1 DEF Published, IInv, ToldAtLock
<1>4. Published(d) \in Doors \cup {None}
  BY <1>1, <1>3 DEF Door
<1>5. Clock(d) \in {"no", "running", "over"} /\ (Clock(d) = "over" /\ d.locked => door.locked)
  BY DEF Clock, IInv, TypeOK
<1> QED BY <1>1, <1>2, <1>3, <1>4, <1>5

LEMMA InitInv == Init => IInv
<1> SUFFICES ASSUME Init PROVE IInv
  OBVIOUS
<1>1. NoDoor \in Door /\ Lockable(NoDoor) /\ ~NoDoor.locked
  <2>1. 0 \in 0 .. MaxHits
    BY MissionAssumption
  <2>2. NoDoor.hits = 0 /\ ~NoDoor.locked
    BY DEF NoDoor
  <2>3. NoDoor \in Door
    BY <2>1 DEF NoDoor, Door
  <2> QED BY <2>2, <2>3 DEF Lockable
<1>2. TypeOK
  <2>1. 0 \in Stations /\ 0 \in 0 .. CodeCount /\ 0 \in 0 .. MaxFrontiers /\ 0 \in 0 .. MaxMishaps
    BY MissionAssumption DEF Stations
  <2>2. "SEARCH_CORRIDOR" \in Stages
    BY DEF Stages
  <2>3. code \in [at : Stations \cup {None}, hits : 0 .. CodeCount, found : BOOLEAN]
    BY <2>1 DEF Init
  <2> QED BY <1>1, <2>1, <2>2, <2>3 DEF Init, TypeOK
<1>3. ToldAtLock
  BY <1>1 DEF Init, ToldAtLock, stage3Active
<1>4. CodeSeen
  BY DEF Init, CodeSeen
<1> QED BY <1>2, <1>3, <1>4 DEF IInv

\* The sample of the odometry.
LEMMA OdometryInv == IInv /\ Odometry => IInv'
<1> SUFFICES ASSUME IInv, NEW p \in {pos, Toward(pos, target)}, updateRobotPose(p)
             PROVE  IInv'
  BY DEF Odometry
<1>1. p \in Stations
  BY MissionAssumption DEF Toward, Stations, IInv, TypeOK
<1>2. PICK d \in Afterwards(p) : updateExitCandidate(d) /\ search_exhausted' = Clock(d)
  BY DEF updateRobotPose
<1>3. /\ door' = d /\ d \in Door /\ Lockable(d) /\ (door.locked => d = door)
      /\ final_exit_pose' = IF d.locked THEN d.portal ELSE None
      /\ final_exit_pose' \in Doors \cup {None}
      /\ Clock(d) \in {"no", "running", "over"}
  BY <1>1, <1>2, UpdateTold
<1>4. mission_stage' = mission_stage
        \/ (mission_stage = "APPROACH_LANDING" /\ mission_stage' = "LANDING")
  BY DEF updateRobotPose
<1>5. TypeOK'
  BY <1>1, <1>2, <1>3, <1>4 DEF updateRobotPose, IInv, TypeOK, Stages
<1>6. ToldAtLock'
  BY <1>3, <1>4 DEF ToldAtLock, IInv, stage3Active, Lockable
<1>7. CodeSeen'
  BY <1>4 DEF CodeSeen, IInv, updateRobotPose
<1> QED BY <1>5, <1>6, <1>7 DEF IInv

\* The stages follow one another: the search is left only when it ends.
LEMMA StageAfterStage ==
  ASSUME NEW stage \in Stages, NEW ends \in BOOLEAN, NEW d
  PROVE  LET s == StageAfter(stage, ends, d)
         IN  /\ s \in Stages
             /\ s # "SEARCH_CORRIDOR" => stage # "SEARCH_CORRIDOR" \/ ends
             /\ s = "APPROACH_LANDING" => stage = "APPROACH_LANDING" \/ code.found
BY DEF StageAfter, Stages

\* A goal is a station.
LEMMA StageGoalStation ==
  ASSUME IInv, NEW d \in Door, Lockable(d), NEW stage \in Stages,
         NEW exhausted \in BOOLEAN, NEW blocked \in BOOLEAN,
         stage # "SEARCH_CORRIDOR" => d.locked,
         stage = "APPROACH_LANDING" => code.found,
         StageGoal(stage, exhausted, d, blocked) # None
  PROVE  StageGoal(stage, exhausted, d, blocked) \in Stations
<1>1. \A p \in Doors : p \in Stations /\ p + 1 \in Stations
  BY MissionAssumption DEF Doors, Stations
<1>2. SecondLook(d) => d.pending \in Doors
  BY MissionAssumption DEF SecondLook, Lockable, Door
<1>3. pos \in Stations /\ (code.found => code.at \in Stations)
  BY DEF IInv, TypeOK, CodeSeen
<1> QED BY <1>1, <1>2, <1>3 DEF StageGoal, Lockable, Stages

\* One planning call.
LEMMA PlanInv == IInv /\ Plan => IInv'
<1> SUFFICES ASSUME IInv, NEW covered \in BOOLEAN, NEW blocked \in BOOLEAN,
                    planExploreMotion(covered, blocked)
             PROVE  IInv'
  BY DEF Plan
<1>1. pos \in Stations /\ target \in Stations /\ mission_stage \in Stages
  BY DEF IInv, TypeOK
<1> DEFINE stage(d) == StageAfter(mission_stage, FALSE, d)
           goal(d) == StageGoal(stage(d), FALSE, d, blocked)
           next(d) == StageAfter(stage(d), Ends(d), d)
           last(d) == StageGoal(next(d), TRUE, d, blocked)
<1>2. PICK d \in Afterwards(pos) :
        /\ updateExitCandidate(d)
        /\ \/ /\ goal(d) # None /\ target' = goal(d)
              /\ mission_stage' = stage(d) /\ search_exhausted' = ClockAfter(stage(d), stage(d), d)
              /\ UNCHANGED frontiers
           \/ /\ goal(d) = None /\ covered
              /\ mission_stage' = stage(d)
              /\ search_exhausted' = "no"
              /\ target' \in Stations
              /\ frontiers' = frontiers + 1 /\ frontiers' <= MaxFrontiers
           \/ /\ goal(d) = None /\ ~covered
              /\ mission_stage' = next(d) /\ search_exhausted' = ClockAfter(stage(d), next(d), d)
              /\ IF last(d) # None THEN target' = last(d) ELSE target' \in Fallback
              /\ UNCHANGED frontiers
  BY DEF planExploreMotion
<1>3. /\ door' = d /\ d \in Door /\ Lockable(d) /\ (door.locked => d = door)
      /\ final_exit_pose' = IF d.locked THEN d.portal ELSE None
      /\ final_exit_pose' \in Doors \cup {None}
      /\ Clock(d) \in {"no", "running", "over"}
  BY <1>1, <1>2, UpdateTold
<1>4. Ends(d) \in BOOLEAN /\ (Ends(d) => d.locked)
  BY <1>3 DEF Ends, Door
<1>5. mission_stage # "SEARCH_CORRIDOR" => d.locked
  BY <1>3 DEF IInv, ToldAtLock, stage3Active
<1>6. mission_stage = "APPROACH_LANDING" => code.found
  BY DEF IInv, CodeSeen
<1>7. /\ stage(d) \in Stages
      /\ stage(d) # "SEARCH_CORRIDOR" => d.locked
      /\ stage(d) = "APPROACH_LANDING" => code.found
  BY <1>1, <1>5, <1>6, StageAfterStage
<1> HIDE DEF stage
<1>8. /\ next(d) \in Stages
      /\ next(d) # "SEARCH_CORRIDOR" => d.locked
      /\ next(d) = "APPROACH_LANDING" => code.found
  BY <1>4, <1>7, StageAfterStage
<1> HIDE DEF next
<1>9. goal(d) # None => goal(d) \in Stations
  BY <1>3, <1>7, StageGoalStation
<1>10. last(d) # None => last(d) \in Stations
  BY <1>3, <1>8, StageGoalStation
<1>11. Fallback \subseteq Stations
  BY <1>1 DEF Fallback
<1> HIDE DEF goal, last
<1>12. target' \in Stations
  BY <1>2, <1>9, <1>10, <1>11
<1>13. mission_stage' \in {stage(d), next(d)}
  BY <1>2
<1>14. search_exhausted' \in {"no", "running", "over"}
  BY <1>2, <1>3 DEF ClockAfter
<1>15. frontiers' \in 0 .. MaxFrontiers
  BY <1>2, MissionAssumption DEF IInv, TypeOK
<1>16. mishaps' \in 0 .. MaxMishaps
  BY MissionAssumption DEF IInv, TypeOK, planExploreMotion
<1>17. UNCHANGED <<pos, corridor_entry_crossed, code, landing_requested>>
  BY DEF planExploreMotion
<1>18. TypeOK'
  BY <1>3, <1>7, <1>8, <1>12, <1>13, <1>14, <1>15, <1>16, <1>17 DEF IInv, TypeOK
<1>19. ToldAtLock'
  BY <1>3, <1>7, <1>8, <1>13 DEF ToldAtLock, stage3Active, Lockable
<1>20. CodeSeen'
  BY <1>7, <1>8, <1>13, <1>17 DEF IInv, CodeSeen
<1> QED BY <1>18, <1>19, <1>20 DEF IInv

\* A detection of the landing code.
LEMMA DetectInv == IInv /\ Detect => IInv'
<1> SUFFICES ASSUME IInv, NEW at \in Stations, NEW soon \in BOOLEAN,
                    finalQrcodeDetectionCallback(at, soon)
             PROVE  IInv'
  BY DEF Detect
<1> DEFINE hits == IF code.hits > 0 /\ soon /\ at = code.at THEN code.hits + 1 ELSE 1
           kept == IF hits > CodeCount THEN CodeCount ELSE hits
<1>1. code' = [at |-> at, hits |-> kept, found |-> code.found \/ hits >= CodeCount]
  BY DEF finalQrcodeDetectionCallback
<1>2. hits \in Nat /\ kept \in 0 .. CodeCount
  BY MissionAssumption DEF IInv, TypeOK
<1>3. code.found \in BOOLEAN
  BY DEF IInv, TypeOK
<1> HIDE DEF hits, kept
<1>4. /\ code' \in [at : Stations \cup {None}, hits : 0 .. CodeCount, found : BOOLEAN]
      /\ code'.at \in Stations /\ (code.found => code'.found)
  BY <1>1, <1>2, <1>3
<1>5. mishaps' \in 0 .. MaxMishaps
  BY MissionAssumption DEF IInv, TypeOK, finalQrcodeDetectionCallback
<1>6. UNCHANGED <<pos, target, corridor_entry_crossed, mission_stage, door_vars,
                  landing_requested, frontiers>>
  BY DEF finalQrcodeDetectionCallback
<1>7. TypeOK'
  BY <1>4, <1>5, <1>6 DEF IInv, TypeOK, door_vars
<1>8. ToldAtLock' /\ CodeSeen'
  BY <1>4, <1>6 DEF IInv, ToldAtLock, CodeSeen, door_vars, stage3Active, Lockable
<1> QED BY <1>7, <1>8 DEF IInv

\* The other steps.
LEMMA RestInv == IInv /\ (EntryTransit \/ Exhausts \/ UNCHANGED vars) => IInv'
<1> SUFFICES ASSUME IInv, EntryTransit \/ Exhausts \/ UNCHANGED vars PROVE IInv'
  OBVIOUS
<1>1. /\ UNCHANGED <<pos, corridor_entry_crossed, mission_stage, door, final_exit_pose, code,
                     landing_requested, frontiers, mishaps>>
      /\ target' \in {target, 1}
      /\ search_exhausted' \in {search_exhausted, "over"}
  BY DEF EntryTransit, Exhausts, vars, door_vars
<1>2. 1 \in Stations
  BY MissionAssumption DEF Stations
<1>3. TypeOK'
  BY <1>1, <1>2 DEF IInv, TypeOK
<1>4. ToldAtLock' /\ CodeSeen'
  BY <1>1 DEF IInv, ToldAtLock, CodeSeen, stage3Active, Lockable
<1> QED BY <1>3, <1>4 DEF IInv

\* Every step keeps the invariant.
LEMMA StepInv == IInv /\ [Next]_vars => IInv'
BY OdometryInv, PlanInv, DetectInv, RestInv DEF Next

LEMMA AlwaysInv == Spec => []IInv
BY InitInv, StepInv, PTL DEF Spec

-------------------------------------------------------------------------------
(* The theorems.                                                            *)

\* updateRobotPose, planExploreMotion, finalQrcodeDetectionCallback: every variable stays
\* in its range; in particular a goal is asked for at a place of the corridor, never at the
\* None of a door or a code that was not seen.
THEOREM TypeCorrect == Spec => []TypeOK
<1>1. IInv => TypeOK
  BY DEF IInv
<1> QED BY <1>1, AlwaysInv, PTL

\* updateExitCandidate: the exit the follower was told is the locked, confirmed one that
\* opens to the outside, for any number of stations, sightings and depths.
THEOREM ToldExit == Spec => []ToldExitHolds
<1>1. IInv => ToldExitHolds
  BY DEF IInv, ToldAtLock, ToldExitHolds, Lockable
<1> QED BY <1>1, AlwaysInv, PTL

\* A step that leaves the stage alone, or goes on outside, moves or fixes the exit.
LEMMA SamePhase ==
  ASSUME IInv, NEW p \in Stations, NEW d \in Afterwards(p), updateExitCandidate(d),
         Phase' = Phase
  PROVE  Mission!Next
<1>1. (door.locked => d = door) /\ final_exit_pose' = IF d.locked THEN d.portal ELSE None
  BY UpdateTold
<1>2. CASE door.locked
  BY <1>1, <1>2 DEF IInv, ToldAtLock, Mission!Next, Mission!Move
<1>3. CASE ~door.locked
  <2>1. final_exit_pose = None /\ Phase = "search"
    BY <1>3 DEF IInv, ToldAtLock, stage3Active, Phase
  <2> QED BY <2>1 DEF Mission!Next, Mission!Move, Mission!Fix
<1> QED BY <1>2, <1>3

\* The odometry moves the vehicle, fixes the exit, or has the landing asked for.
LEMMA OdometryOrder == IInv /\ Odometry => Mission!Next
<1> SUFFICES ASSUME IInv, NEW p \in {pos, Toward(pos, target)}, updateRobotPose(p)
             PROVE  Mission!Next
  BY DEF Odometry
<1>1. p \in Stations
  BY MissionAssumption DEF Toward, Stations, IInv, TypeOK
<1>2. PICK d \in Afterwards(p) : updateExitCandidate(d)
  BY DEF updateRobotPose
<1>3. CASE mission_stage' = mission_stage
  BY <1>1, <1>2, <1>3, SamePhase DEF Phase
<1>4. CASE mission_stage = "APPROACH_LANDING" /\ mission_stage' = "LANDING"
  <2>1. door.locked
    BY <1>4 DEF IInv, ToldAtLock, stage3Active
  <2>2. final_exit_pose' = final_exit_pose
    BY <1>1, <1>2, <2>1, UpdateTold DEF IInv, ToldAtLock
  <2> QED BY <1>4, <2>2 DEF Phase, Mission!Next, Mission!Land
<1> QED BY <1>3, <1>4 DEF updateRobotPose

\* One stage to the next, as the mission has it: the corridor is not left and the outside
\* not reached in one step, and the outside is reached beyond the portal only.
LEMMA StageOrder ==
  ASSUME IInv, NEW stage \in Stages, NEW ends \in BOOLEAN, NEW d, d.portal \in Int
  PROVE  LET s == StageAfter(stage, ends, d)
             outside == {"SEARCH_OUTSIDE_QR", "APPROACH_LANDING"}
             leave == {"EXIT_APPROACH_INSIDE", "CROSS_EXIT"}
         IN  /\ stage = "SEARCH_CORRIDOR" => s \in leave \cup {stage}
             /\ stage = "SEARCH_CORRIDOR" /\ ~ends => s = stage
             /\ stage \in leave => s \in leave \cup outside
             /\ stage \in leave /\ s \in outside => pos > d.portal
             /\ stage \in outside => s \in outside
             /\ stage = "LANDING" => s = stage
BY DEF StageAfter, Stages, IInv, TypeOK, Stations

\* A planning call goes at most one phase further.
LEMMA PlanOrder == IInv /\ Plan => Mission!Next
<1> SUFFICES ASSUME IInv, NEW covered \in BOOLEAN, NEW blocked \in BOOLEAN,
                    planExploreMotion(covered, blocked)
             PROVE  Mission!Next
  BY DEF Plan
<1>1. pos \in Stations /\ mission_stage \in Stages /\ pos' = pos
  BY DEF IInv, TypeOK, planExploreMotion
<1> DEFINE stage(d) == StageAfter(mission_stage, FALSE, d)
           next(d) == StageAfter(stage(d), Ends(d), d)
<1>2. PICK d \in Afterwards(pos) :
        updateExitCandidate(d) /\ mission_stage' \in {stage(d), next(d)}
  BY DEF planExploreMotion
<1>3. /\ d \in Door /\ Lockable(d) /\ (door.locked => d = door)
      /\ final_exit_pose' = IF d.locked THEN d.portal ELSE None
      /\ Clock(d) = "over" /\ d.locked => door.locked
  BY <1>1, <1>2, UpdateTold
<1>4. Phase' = Phase => Mission!Next
  BY <1>1, <1>2, SamePhase
<1>5. CASE ~door.locked
  <2>1. mission_stage = "SEARCH_CORRIDOR" /\ ~Ends(d)
    BY <1>3, <1>5 DEF IInv, ToldAtLock, stage3Active, Ends
  <2>2. stage(d) = "SEARCH_CORRIDOR" /\ next(d) = "SEARCH_CORRIDOR"
    BY <2>1 DEF StageAfter, Ends
  <2> QED BY <1>2, <1>4, <2>1, <2>2 DEF Phase
<1>6. CASE door.locked
  <2>1. d = door /\ final_exit_pose' = final_exit_pose /\ final_exit_pose = d.portal
    BY <1>3, <1>6 DEF IInv, ToldAtLock
  <2>2. d.portal \in Int /\ final_exit_pose # None
    BY <1>3, <1>6, <2>1, MissionAssumption DEF Lockable, Doors
  <2> DEFINE outside == {"SEARCH_OUTSIDE_QR", "APPROACH_LANDING"}
             leave == {"EXIT_APPROACH_INSIDE", "CROSS_EXIT"}
  <2>3. stage(d) \in Stages /\ Ends(d) \in BOOLEAN
    BY <1>1, <1>3, StageAfterStage DEF Ends, Door
  <2>4. /\ mission_stage = "SEARCH_CORRIDOR" => stage(d) = mission_stage
        /\ mission_stage \in leave => stage(d) \in leave \cup outside
        /\ mission_stage \in leave /\ stage(d) \in outside => pos > d.portal
        /\ mission_stage \in outside => stage(d) \in outside
        /\ mission_stage = "LANDING" => stage(d) = mission_stage
    BY <1>1, <2>2, StageOrder
  <2>5. /\ stage(d) = "SEARCH_CORRIDOR" => next(d) \in leave \cup {"SEARCH_CORRIDOR"}
        /\ stage(d) \in leave => next(d) \in leave \cup outside
        /\ stage(d) \in leave /\ next(d) \in outside => pos > d.portal
        /\ stage(d) \in outside => next(d) \in outside
        /\ stage(d) = "LANDING" => next(d) = stage(d)
    BY ZenonT(30), <2>2, <2>3, StageOrder
  <2> HIDE DEF stage, next
  <2>6. CASE mission_stage = "SEARCH_CORRIDOR"
    <3>1. mission_stage' \in leave \cup {"SEARCH_CORRIDOR"}
      BY <1>2, <2>4, <2>5, <2>6
    <3> QED BY <1>4, <2>1, <2>2, <2>6, <3>1 DEF Phase, Mission!Next, Mission!Leave
  <2>7. CASE mission_stage \in leave
    <3>1. mission_stage' \in leave \cup outside /\ (mission_stage' \in outside => pos > d.portal)
      BY <1>2, <2>4, <2>5, <2>7
    <3> QED BY <1>1, <1>4, <2>1, <2>7, <3>1 DEF Phase, Mission!Next, Mission!Cross
  <2>8. CASE mission_stage \in outside
    <3>1. mission_stage' \in outside
      BY <1>2, <2>4, <2>5, <2>8
    <3> QED BY <1>4, <2>8, <3>1 DEF Phase
  <2>9. CASE mission_stage = "LANDING"
    <3>1. mission_stage' = "LANDING"
      BY <1>2, <2>4, <2>5, <2>9
    <3> QED BY <1>4, <2>9, <3>1 DEF Phase
  <2> QED BY <1>1, <2>6, <2>7, <2>8, <2>9 DEF Stages
<1> QED BY <1>5, <1>6

\* buildStage3Goal, updateExitCandidate: MissionTask implements MissionOrder.  One exit is
\* fixed in the search, the corridor is left by it later, the outside reached beyond it,
\* and the landing asked for from there, for every value of the constants.
THEOREM Order == Spec => KeepsOrder
<1>1. Init => Mission!Init
  BY DEF Init, Mission!Init, Phase
<1>2. IInv /\ [Next]_vars => [Mission!Next]_<<Phase, final_exit_pose, pos>>
  <2> SUFFICES ASSUME IInv, [Next]_vars
               PROVE  [Mission!Next]_<<Phase, final_exit_pose, pos>>
    OBVIOUS
  <2>1. CASE Odometry
    BY <2>1, OdometryOrder
  <2>2. CASE Plan
    BY <2>2, PlanOrder
  <2>3. CASE EntryTransit \/ Exhausts \/ Detect \/ UNCHANGED vars
    <3>1. UNCHANGED <<mission_stage, final_exit_pose>>
      BY <2>3 DEF EntryTransit, Exhausts, Detect, finalQrcodeDetectionCallback, vars, door_vars
    <3> QED BY <3>1 DEF Phase, Mission!Next, Mission!Move
  <2> QED BY <2>1, <2>2, <2>3 DEF Next
<1> QED BY <1>1, <1>2, AlwaysInv, PTL DEF Spec, KeepsOrder, Mission!Spec

===============================================================================
