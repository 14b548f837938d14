------------------------- MODULE LeaderFlight_proofs --------------------------
(***************************************************************************)
(* Proofs about LeaderFlight, for every number of trajectories, every       *)
(* timing of the release, and every length of the queues.  What the three   *)
(* processes keep for themselves is proved in the modules about them and    *)
(* taken over from there; what is added is what the queues carry.           *)
(***************************************************************************)
EXTENDS LeaderFlight, TLAPS

FP == INSTANCE ExplorationFSM_proofs
CP == INSTANCE EgoController_proofs
         WITH Cells <- {Here}, TrajIds <- 1 .. MaxTraj, have_odom <- ctl_have_odom,
              safety_hold_active <- ctl_hold, landing_requested <- ctl_landing

-------------------------------------------------------------------------------
(* The inductive invariant.                                                 *)

\* The newest hold message says what exploration wants; with none left the
\* controller has it.
HoldQueue ==
  /\ hold_q \in Seq(BOOLEAN) /\ Len(hold_q) <= QueueSize
  /\ hold_q # <<>> => hold_q[Len(hold_q)] = safety_hold_active
  /\ HoldAgrees

\* A landing is requested once, so one message is all there ever is, and it is on
\* its way until the controller takes it.
LandingQueue ==
  /\ landing_q \in Seq({TRUE}) /\ Len(landing_q) <= 1
  /\ landing_q # <<>> \/ ctl_landing => landing_requested
  /\ LandingNeverLost
  /\ landing_q # <<>> => ~ctl_landing

Released == [id : 1 .. MaxTraj, start : {"now"}]

\* A queue of trajectories, each newer than the one before and than the one held.
Ordered(q, held) ==
  /\ \A i \in 1 .. Len(q) : held < q[i].id
  /\ \A i, j \in 1 .. Len(q) : i < j => q[i].id < q[j].id

\* Trajectories on their way are newer than the one the server has, in order, and
\* the last of them is the last published.
BsplineQueue ==
  /\ bspline_q \in Seq(Released) /\ Len(bspline_q) <= QueueSize
  /\ Ordered(bspline_q, traj_id)
  /\ bspline_q # <<>> => bspline_q[Len(bspline_q)].id = published.id
  /\ ReleasedReachesServer

\* Once it has a trajectory, the server samples it after its start.
Started == receive_traj => traj_id \in 1 .. MaxTraj /\ traj_time # "future"

CommandQueue == cmd_q \in Seq(1 .. MaxTraj) /\ Len(cmd_q) <= QueueSize

IInv ==
  /\ FP!IInv
  /\ CP!IInv
  /\ Server!TypeOK
  /\ HoldQueue
  /\ LandingQueue
  /\ BsplineQueue
  /\ Started
  /\ CommandQueue

-------------------------------------------------------------------------------
(* Queues.                                                                  *)

\* A queue that drops its oldest message still ends with the one just sent.
LEMMA EnqueueEnds ==
  ASSUME NEW S, NEW q \in Seq(S), Len(q) <= QueueSize, NEW m \in S
  PROVE  /\ Enqueue(q, m) \in Seq(S) /\ Len(Enqueue(q, m)) <= QueueSize
         /\ Enqueue(q, m) # <<>> /\ Enqueue(q, m)[Len(Enqueue(q, m))] = m
<1>1. CASE Len(q) < QueueSize
  BY <1>1, QueueSizeAssumption DEF Enqueue
<1>2. CASE ~(Len(q) < QueueSize)
  <2>1. q # <<>> /\ Tail(q) \in Seq(S) /\ Len(Tail(q)) = Len(q) - 1
    BY <1>2, QueueSizeAssumption
  <2> QED
    BY <1>2, <2>1, QueueSizeAssumption DEF Enqueue
<1> QED
  BY <1>1, <1>2

\* What was in the queue before stays in its order.
LEMMA EnqueueOrder ==
  ASSUME NEW S, NEW q \in Seq(S), Len(q) <= QueueSize, NEW m \in S
  PROVE  \E d \in {0, 1} :
           /\ Len(Enqueue(q, m)) = Len(q) + 1 - d
           /\ \A i \in 1 .. Len(Enqueue(q, m)) - 1 :
                i + d \in 1 .. Len(q) /\ Enqueue(q, m)[i] = q[i + d]
<1>1. CASE Len(q) < QueueSize
  <2>1. /\ Len(Enqueue(q, m)) = Len(q) + 1 - 0
        /\ \A i \in 1 .. Len(Enqueue(q, m)) - 1 :
             i + 0 \in 1 .. Len(q) /\ Enqueue(q, m)[i] = q[i + 0]
    BY <1>1 DEF Enqueue
  <2> QED
    BY <2>1
<1>2. CASE ~(Len(q) < QueueSize)
  <2>1. q # <<>> /\ Tail(q) \in Seq(S) /\ Len(Tail(q)) = Len(q) - 1
    BY <1>2, QueueSizeAssumption
  <2>2. \A i \in 1 .. Len(q) - 1 : Tail(q)[i] = q[i + 1]
    BY <2>1
  <2>3. /\ Len(Enqueue(q, m)) = Len(q) + 1 - 1
        /\ \A i \in 1 .. Len(Enqueue(q, m)) - 1 :
             i + 1 \in 1 .. Len(q) /\ Enqueue(q, m)[i] = q[i + 1]
    BY <1>2, <2>1, <2>2 DEF Enqueue
  <2> QED
    BY <2>3
<1> QED
  BY <1>1, <1>2

LEMMA Taken ==
  ASSUME NEW S, NEW q \in Seq(S), q # <<>>
  PROVE  /\ Head(q) \in S /\ Head(q) = q[1]
         /\ Tail(q) \in Seq(S) /\ Len(Tail(q)) = Len(q) - 1
         /\ \A i \in 1 .. Len(q) - 1 : Tail(q)[i] = q[i + 1]
         /\ Tail(q) = <<>> <=> Len(q) = 1
<1>1. Len(q) \in Nat \ {0} /\ q[1] \in S /\ Head(q) = q[1]
  OBVIOUS
<1>2. /\ Tail(q) \in Seq(S) /\ Len(Tail(q)) = Len(q) - 1
      /\ \A i \in 1 .. Len(q) - 1 : Tail(q)[i] = q[i + 1]
  OBVIOUS
<1>3. Tail(q) = <<>> <=> Len(Tail(q)) = 0
  BY SMTT(20), <1>2
<1> QED
  BY <1>1, <1>2, <1>3

-------------------------------------------------------------------------------
(* The processes.                                                           *)

\* What the modules about the processes prove holds for their instances here.
LEMMA ExplorationKept == FP!IInv /\ [FP!Next]_FP!vars => FP!IInv'
<1>1. FP!ConstantsAssumption
  BY PlannerAssumption DEF FP!ConstantsAssumption
<1> QED
  BY <1>1, FP!StepInv

LEMMA ControllerKept == CP!IInv /\ [CP!Next]_CP!vars => CP!IInv'
<1>1. CP!CellsAssumption
  BY ValuesAssumption DEF CP!CellsAssumption
<1> QED
  BY <1>1, CP!StepInv

\* Only a release publishes, and only something newer that starts now; a landing
\* request is never taken back.
LEMMA ExplorationStep ==
  ASSUME FP!IInv, Exploration
  PROVE  /\ FP!Next
         /\ PublishChanges
         /\ UNCHANGED <<cmd_q, server_vars, ctl_vars, discarded>>
         /\ published' # published =>
              published.id < published'.id /\ published'.start = "now"
         /\ landing_requested => landing_requested'
<1> DEFINE Newer == published' # published =>
                      published.id < published'.id /\ published'.start = "now"
<1> USE DEF FSM!plan_vars, FP!plan_vars, FSM!release_vars, FP!release_vars,
            FSM!monitor_vars, FP!monitor_vars, FSM!detect_vars, FP!detect_vars,
            FSM!task_vars, FP!task_vars, FSM!hist_vars, FP!hist_vars
<1>1. ASSUME NEW lands \in BOOLEAN, FSM!odometryCallback(lands)
      PROVE  FP!Next /\ Newer /\ (landing_requested => landing_requested')
  <2>1. FP!odometryCallback(lands)
    BY <1>1 DEF FSM!odometryCallback, FP!odometryCallback
  <2> QED
    BY <1>1, <2>1 DEF FP!Next, FSM!odometryCallback
<1>2. ASSUME FSM!triggerCallback
      PROVE  FP!Next /\ Newer /\ (landing_requested => landing_requested')
  <2>1. FP!triggerCallback
    BY <1>2 DEF FSM!triggerCallback, FP!triggerCallback
  <2> QED
    BY <1>2, <2>1 DEF FP!Next, FSM!triggerCallback
<1>3. ASSUME FSM!Finish
      PROVE  FP!Next /\ Newer /\ (landing_requested => landing_requested')
  <2>1. FP!Finish
    BY <1>3 DEF FSM!Finish, FP!Finish
  <2> QED
    BY <1>3, <2>1 DEF FP!Next, FP!FSMCallback, FSM!Finish
<1>4. ASSUME FSM!ExecReplan
      PROVE  FP!Next /\ Newer /\ (landing_requested => landing_requested')
  <2>1. FP!ExecReplan
    BY <1>4 DEF FSM!ExecReplan, FP!ExecReplan
  <2> QED
    BY <1>4, <2>1 DEF FP!Next, FP!FSMCallback, FSM!ExecReplan
<1>5. ASSUME FSM!PlanTraj
      PROVE  FP!Next /\ Newer /\ (landing_requested => landing_requested')
  <2> SUFFICES ASSUME NEW reaches_qr \in BOOLEAN,
                      \/ FSM!PlanSucceeds(reaches_qr)
                      \/ FSM!PlanExhausted(reaches_qr)
                      \/ \E replaced \in BOOLEAN : FSM!PlanFails(reaches_qr, replaced)
               PROVE  FP!PlanTraj /\ Newer /\ (landing_requested => landing_requested')
    BY <1>5 DEF FSM!PlanTraj, FP!Next, FP!FSMCallback
  <2> USE DEF FSM!StageAdvance, FP!StageAdvance, FSM!PlannerStopped, FP!PlannerStopped
  <2>1. CASE FSM!PlanSucceeds(reaches_qr)
    <3>1. FP!PlanSucceeds(reaches_qr)
      BY <2>1 DEF FSM!PlanSucceeds, FP!PlanSucceeds, FSM!NextTraj, FP!NextTraj,
                  FSM!EvidenceCleared, FP!EvidenceCleared, FSM!HoldKept, FP!HoldKept,
                  FSM!NotSet, FP!NotSet
    <3> QED
      BY <2>1, <3>1 DEF FP!PlanTraj, FSM!PlanSucceeds
  <2>2. CASE FSM!PlanExhausted(reaches_qr)
    <3>1. FP!PlanExhausted(reaches_qr)
      BY <2>2 DEF FSM!PlanExhausted, FP!PlanExhausted
    <3> QED
      BY <2>2, <3>1 DEF FP!PlanTraj, FSM!PlanExhausted
  <2>3. ASSUME NEW replaced \in BOOLEAN, FSM!PlanFails(reaches_qr, replaced)
        PROVE  FP!PlanTraj /\ Newer /\ (landing_requested => landing_requested')
    <3>1. FP!PlanFails(reaches_qr, replaced)
      BY <2>3 DEF FSM!PlanFails, FP!PlanFails, FSM!BackOff, FP!BackOff
    <3> QED
      BY <2>3, <3>1 DEF FP!PlanTraj, FSM!PlanFails
  <2> QED
    BY <2>1, <2>2, <2>3
<1>6. ASSUME NEW elapsed \in 1 .. MaxJitter, NEW r \in FSM!ReleaseReading,
             \/ FSM!RejectRelease(elapsed, r)
             \/ FSM!AwaitRelease(elapsed, r)
             \/ FSM!Release(elapsed, r)
      PROVE  FP!Next /\ Newer /\ (landing_requested => landing_requested')
  <2> SUFFICES FP!PubTraj /\ Newer /\ (landing_requested => landing_requested')
    BY DEF FP!Next, FP!FSMCallback
  <2> USE DEF FSM!CheckDue, FP!CheckDue, FSM!ReleaseSafe, FP!ReleaseSafe,
              FSM!EvidenceAge, FP!EvidenceAge, FSM!AtMost, FP!AtMost,
              FSM!ChecksPassed, FP!ChecksPassed, FSM!NotSet, FP!NotSet
  <2>1. r \in FP!ReleaseReading
    BY DEF FSM!ReleaseReading, FP!ReleaseReading
  <2>2. CASE FSM!RejectRelease(elapsed, r)
    <3>1. FP!RejectRelease(elapsed, r)
      BY <2>2 DEF FSM!RejectRelease, FP!RejectRelease, FSM!BackOff, FP!BackOff
    <3> QED
      BY <2>1, <2>2, <3>1 DEF FP!PubTraj, FSM!RejectRelease
  <2>3. CASE FSM!AwaitRelease(elapsed, r)
    <3>1. FP!AwaitRelease(elapsed, r)
      BY <2>3 DEF FSM!AwaitRelease, FP!AwaitRelease
    <3> QED
      BY <2>1, <2>3, <3>1 DEF FP!PubTraj, FSM!AwaitRelease
  <2>4. CASE FSM!Release(elapsed, r)
    <3>1. FP!Release(elapsed, r)
      BY <2>4 DEF FSM!Release, FP!Release, FSM!StartOnRelease, FP!StartOnRelease,
                  FSM!DetectionOnRelease, FP!DetectionOnRelease,
                  FSM!EscapeOnRelease, FP!EscapeOnRelease
    <3>2. published.id < local_traj
      BY <2>4 DEF FSM!Release, FP!IInv, FP!Pending
    <3> QED
      BY <2>1, <2>4, <3>1, <3>2 DEF FP!PubTraj, FSM!Release, FSM!StartOnRelease
  <2> QED
    BY <1>6, <2>2, <2>3, <2>4
<1>7. ASSUME NEW r \in FSM!SafetyReading, FSM!TrackingReplan(r) \/ FSM!Monitor(r)
      PROVE  FP!Next /\ Newer /\ (landing_requested => landing_requested')
  <2>1. r \in FP!SafetyReading
    BY DEF FSM!SafetyReading, FP!SafetyReading
  <2>2. FP!TrackingReplan(r) \/ FP!Monitor(r)
    BY <1>7 DEF FSM!TrackingReplan, FP!TrackingReplan, FSM!Monitor, FP!Monitor,
                FSM!TrackingConfirmed, FP!TrackingConfirmed, FSM!EscapeUpdate, FP!EscapeUpdate
  <2>3. Newer /\ (landing_requested => landing_requested')
    BY <1>7 DEF FSM!TrackingReplan, FSM!Monitor
  <2> QED
    BY <2>1, <2>2, <2>3 DEF FP!Next, FP!safetyCallback
<1>8. /\ PublishChanges
      /\ UNCHANGED <<cmd_q, server_vars, ctl_vars, discarded>>
  BY DEF Exploration, Explores, Odometry, Trigger, Finish, Plan, PubTraj, ExecReplan, Safety
<1>9. FP!Next /\ Newer /\ (landing_requested => landing_requested')
  BY <1>1, <1>2, <1>3, <1>4, <1>5, <1>6, <1>7
     DEF Exploration, Explores, Odometry, Trigger, Finish, Plan, PubTraj, ExecReplan, Safety
<1> QED
  BY <1>8, <1>9

-------------------------------------------------------------------------------
(* The invariant.                                                           *)

LEMMA InitInv == Init => IInv
<1> SUFFICES ASSUME Init PROVE IInv
  OBVIOUS
<1>1. FP!IInv
  <2> USE DEF Init, CruiseInit, ExplorationInit
  <2>1. safe_since \in FP!NotSet .. ConfirmTicks /\ next_check \in 0 .. CheckTicks
    BY PlannerAssumption DEF FP!NotSet, FSM!NotSet
  <2>2. published \in [id : FP!TrajIds, start : {"planned", "now"}] /\ rejected \in SUBSET FP!TrajIds
    BY PlannerAssumption DEF FP!TrajIds
  <2>3. FP!TypeOK
    BY <2>1, <2>2, PlannerAssumption DEF FP!TypeOK, FP!EXPL_STATE, FP!TrajIds
  <2>4. FP!NoCooldown /\ FP!Identifiers /\ FP!Pending /\ FP!Executed /\ FP!Evidence
    BY DEF FP!NoCooldown, FP!Identifiers, FP!Pending, FP!Executed, FP!Evidence
  <2>5. FP!FailureCooldownIsHeld /\ FP!NonStaticStartIsFlown /\ FP!NeverPublishRejected
    BY DEF FP!FailureCooldownIsHeld, FP!NonStaticStartIsFlown, FP!NeverPublishRejected
  <2>6. FP!EscapeBelongsToTrajectory
    BY DEF FP!EscapeBelongsToTrajectory
  <2>7. ~detection_enabled /\ ~first_traj_published
    OBVIOUS
  <2>8. FP!DetectionGate
    BY <2>7 DEF FP!DetectionGate
  <2> QED
    BY <2>3, <2>4, <2>5, <2>6, <2>8 DEF FP!IInv
<1>2. CP!IInv
  <2> USE DEF Init, CruiseInit
  <2>1. setpoint \in CP!SetpointType /\ setpoint.kind = "home" /\ setpoint.to = Here
    BY DEF Ctl!HomeSetpoint, CP!SetpointType, CP!HoldKinds, CP!Positions
  <2>2. CP!TypeOK
    BY <2>1 DEF CP!TypeOK, CP!Positions, CP!Modes
  <2>3. CP!PosesKnown /\ CP!LockKnown /\ CP!MavrosLockTrusted /\ CP!TrackableCommand
    BY DEF CP!PosesKnown, CP!LockKnown, CP!MavrosLockTrusted, CP!TrackableCommand
  <2>4. CP!HoldTargetWasAPose
    BY <2>1 DEF CP!HoldTargetWasAPose
  <2> QED
    BY <2>2, <2>3, <2>4 DEF CP!IInv
<1>3. Server!TypeOK /\ Started
  <2>1. traj_id = 0 /\ ~receive_traj /\ receive_traj \in BOOLEAN /\ traj_time = "over"
    BY DEF Init, Server!Init
  <2> QED
    BY <2>1, PlannerAssumption DEF Server!TypeOK, Server!TrajTime, Started
<1>4. HoldQueue /\ LandingQueue /\ CommandQueue
  <2>1. /\ hold_q = <<>> /\ landing_q = <<>> /\ cmd_q = <<>>
        /\ ctl_hold = safety_hold_active /\ ~ctl_landing /\ ~landing_requested
    BY DEF Init, CruiseInit, ExplorationInit
  <2> QED
    BY <2>1, QueueSizeAssumption
       DEF HoldQueue, HoldAgrees, LandingQueue, LandingNeverLost, CommandQueue
<1>5. BsplineQueue
  BY QueueSizeAssumption
     DEF Init, ExplorationInit, Server!Init, BsplineQueue, Ordered, ReleasedReachesServer
<1> QED
  BY <1>1, <1>2, <1>3, <1>4, <1>5 DEF IInv

\* A trajectory newer than the one sent last keeps the order.
LEMMA OrderedSent ==
  ASSUME NEW q \in Seq(Released), Len(q) <= QueueSize, NEW held \in Nat, Ordered(q, held),
         NEW m \in Released, held < m.id,
         \A i \in 1 .. Len(q) : q[i].id < m.id
  PROVE  Ordered(Enqueue(q, m), held)
<1> DEFINE p == Enqueue(q, m)
<1>1. p \in Seq(Released) /\ p # <<>> /\ p[Len(p)] = m
  BY EnqueueEnds
<1>2. PICK d \in {0, 1} :
        /\ Len(p) = Len(q) + 1 - d
        /\ \A i \in 1 .. Len(p) - 1 : i + d \in 1 .. Len(q) /\ p[i] = q[i + d]
  BY EnqueueOrder
<1> HIDE DEF p
<1>3. \A i \in 1 .. Len(p) : i # Len(p) => i \in 1 .. Len(p) - 1
  BY <1>1
<1>4. ASSUME NEW i \in 1 .. Len(p) PROVE held < p[i].id
  <2>1. CASE i = Len(p)
    BY <1>1, <2>1
  <2>2. CASE i # Len(p)
    <3>1. i + d \in 1 .. Len(q) /\ p[i] = q[i + d]
      BY <1>2, <1>3, <2>2
    <3> QED
      BY <3>1 DEF Ordered
  <2> QED
    BY <2>1, <2>2
<1>5. ASSUME NEW i \in 1 .. Len(p), NEW j \in 1 .. Len(p), i < j PROVE p[i].id < p[j].id
  <2>1. i \in 1 .. Len(p) - 1
    BY <1>1, <1>5
  <2>2. i + d \in 1 .. Len(q) /\ p[i] = q[i + d]
    BY <1>2, <2>1
  <2>3. CASE j = Len(p)
    BY <1>1, <2>2, <2>3
  <2>4. CASE j # Len(p)
    <3>1. j + d \in 1 .. Len(q) /\ p[j] = q[j + d]
      BY <1>2, <1>3, <2>4
    <3>2. i + d < j + d
      BY <1>5
    <3> QED
      BY <2>2, <3>1, <3>2 DEF Ordered
  <2> QED
    BY <2>3, <2>4
<1>6. p = Enqueue(q, m)
  BY DEF p
<1> QED
  BY <1>4, <1>5, <1>6 DEF Ordered

\* The server takes the oldest; the rest are newer.
LEMMA OrderedTaken ==
  ASSUME NEW q \in Seq(Released), q # <<>>, NEW held \in Nat, Ordered(q, held)
  PROVE  Ordered(Tail(q), q[1].id)
<1>1. /\ Tail(q) \in Seq(Released) /\ Len(Tail(q)) = Len(q) - 1 /\ Len(q) \in Nat
      /\ \A i \in 1 .. Len(q) - 1 : Tail(q)[i] = q[i + 1]
  BY Taken
<1>2. ASSUME NEW i \in 1 .. Len(Tail(q)) PROVE q[1].id < Tail(q)[i].id
  <2>1. 1 \in 1 .. Len(q) /\ i + 1 \in 1 .. Len(q) /\ 1 < i + 1 /\ i \in 1 .. Len(q) - 1
    BY <1>1
  <2>2. Tail(q)[i] = q[i + 1]
    BY <1>1, <2>1
  <2> QED
    BY <2>1, <2>2 DEF Ordered
<1>3. ASSUME NEW i \in 1 .. Len(Tail(q)), NEW j \in 1 .. Len(Tail(q)), i < j
      PROVE  Tail(q)[i].id < Tail(q)[j].id
  <2>1. /\ i + 1 \in 1 .. Len(q) /\ j + 1 \in 1 .. Len(q) /\ i + 1 < j + 1
        /\ i \in 1 .. Len(q) - 1 /\ j \in 1 .. Len(q) - 1
    BY <1>1, <1>3
  <2>2. Tail(q)[i] = q[i + 1] /\ Tail(q)[j] = q[j + 1]
    BY <1>1, <2>1
  <2> QED
    BY <2>1, <2>2 DEF Ordered
<1> QED
  BY <1>2, <1>3 DEF Ordered

\* A trajectory published behind those on their way is newer than all of them.
LEMMA BsplineSent ==
  ASSUME BsplineQueue, Server!TypeOK, FP!IInv, FP!IInv', published' # published,
         published.id < published'.id, published'.start = "now",
         bspline_q' = Enqueue(bspline_q, published'), UNCHANGED traj_id
  PROVE  BsplineQueue'
<1>1. published.id \in Nat /\ published' \in Released /\ traj_id \in Nat
  BY PlannerAssumption DEF FP!IInv, FP!TypeOK, FP!TrajIds, Released, Server!TypeOK
<1>2. bspline_q \in Seq(Released) /\ Len(bspline_q) <= QueueSize /\ Len(bspline_q) \in Nat
  BY DEF BsplineQueue
<1>3. \A i \in 1 .. Len(bspline_q) : bspline_q[i].id \in Nat
  <2>1. \A i \in 1 .. Len(bspline_q) : bspline_q[i] \in Released
    BY <1>2
  <2> QED
    BY <2>1, PlannerAssumption DEF Released
<1>4. ASSUME NEW i \in 1 .. Len(bspline_q) PROVE bspline_q[i].id <= published.id
  <2>1. /\ Len(bspline_q) \in 1 .. Len(bspline_q) /\ bspline_q # <<>>
        /\ bspline_q[Len(bspline_q)].id = published.id
    BY <1>2 DEF BsplineQueue
  <2>2. i < Len(bspline_q) => bspline_q[i].id < bspline_q[Len(bspline_q)].id
    BY <2>1 DEF BsplineQueue, Ordered
  <2> QED
    BY <1>1, <1>2, <1>3, <2>1, <2>2
<1>5. \A i \in 1 .. Len(bspline_q) : bspline_q[i].id < published'.id
  BY <1>1, <1>3, <1>4, PlannerAssumption DEF Released
<1>6. traj_id < published'.id
  <2>1. CASE bspline_q = <<>>
    BY <1>1, <2>1 DEF BsplineQueue, ReleasedReachesServer
  <2>2. CASE bspline_q # <<>>
    <3>1. 1 \in 1 .. Len(bspline_q)
      BY <1>2, <2>2
    <3>2. traj_id < bspline_q[1].id /\ bspline_q[1].id < published'.id /\ bspline_q[1].id \in Nat
      BY <1>3, <1>5, <3>1 DEF BsplineQueue, Ordered
    <3> QED
      BY <1>1, <3>2, PlannerAssumption DEF Released
  <2> QED
    BY <2>1, <2>2
<1>7. Ordered(bspline_q', traj_id')
  BY <1>1, <1>2, <1>5, <1>6, OrderedSent DEF BsplineQueue
<1>8. /\ bspline_q' \in Seq(Released) /\ Len(bspline_q') <= QueueSize
      /\ bspline_q' # <<>> /\ bspline_q'[Len(bspline_q')] = published'
  BY ZenonT(30), <1>1, <1>2, EnqueueEnds
<1> QED
  BY <1>7, <1>8 DEF BsplineQueue, ReleasedReachesServer

LEMMA ExplorationInv == IInv /\ Exploration => IInv'
<1> SUFFICES ASSUME IInv, Exploration PROVE IInv'
  OBVIOUS
<1>0. /\ FP!Next /\ PublishChanges
      /\ UNCHANGED <<cmd_q, server_vars, ctl_vars, discarded>>
      /\ published' # published => published.id < published'.id /\ published'.start = "now"
      /\ landing_requested => landing_requested'
  BY ExplorationStep DEF IInv
<1>1. FP!IInv'
  BY <1>0, ExplorationKept DEF IInv
<1>2. CP!IInv'
  <2>1. UNCHANGED CP!vars
    BY <1>0 DEF ctl_vars, CP!vars, CP!pose_vars, CP!cmd_vars, CP!hold_vars
  <2> QED
    BY <2>1, ControllerKept DEF IInv
<1>3. (Server!TypeOK /\ Started /\ CommandQueue)'
  BY <1>0 DEF IInv, server_vars, Server!TypeOK, Started, CommandQueue
<1>4. HoldQueue'
  <2>1. safety_hold_active \in BOOLEAN /\ safety_hold_active' \in BOOLEAN
    BY <1>1 DEF IInv, FP!IInv, FP!TypeOK
  <2>2. UNCHANGED <<ctl_hold, ctl_landing>>
    BY <1>0 DEF ctl_vars
  <2>3. CASE safety_hold_active' # safety_hold_active
    BY ZenonT(30), <1>0, <2>1, <2>3, EnqueueEnds DEF IInv, PublishChanges, HoldQueue, HoldAgrees
  <2>4. CASE safety_hold_active' = safety_hold_active
    BY <1>0, <2>2, <2>4 DEF IInv, PublishChanges, HoldQueue, HoldAgrees
  <2> QED
    BY <2>3, <2>4
<1>5. LandingQueue'
  <2>1. UNCHANGED ctl_landing
    BY <1>0 DEF ctl_vars
  <2>2. landing_requested \in BOOLEAN /\ landing_requested' \in BOOLEAN
    BY <1>1 DEF IInv, FP!IInv, FP!TypeOK
  <2>3. CASE landing_requested' = landing_requested
    BY <1>0, <2>1, <2>3 DEF IInv, PublishChanges, LandingQueue, LandingNeverLost
  <2>4. CASE landing_requested' # landing_requested
    <3>1. ~landing_requested /\ landing_requested' /\ landing_q = <<>> /\ ~ctl_landing
      BY <1>0, <2>2, <2>4 DEF IInv, LandingQueue, LandingNeverLost
    <3>2. Enqueue(<<>>, TRUE) = <<TRUE>>
      BY QueueSizeAssumption DEF Enqueue
    <3>3. landing_q' = <<TRUE>>
      BY <1>0, <2>4, <3>1, <3>2 DEF PublishChanges
    <3> QED
      BY <2>1, <3>1, <3>3 DEF LandingQueue, LandingNeverLost
  <2> QED
    BY <2>3, <2>4
<1>6. BsplineQueue'
  <2>1. UNCHANGED traj_id
    BY <1>0 DEF server_vars
  <2>2. CASE published' = published
    BY <1>0, <2>1, <2>2 DEF IInv, PublishChanges, BsplineQueue, ReleasedReachesServer
  <2>3. CASE published' # published
    BY <1>0, <1>1, <2>1, <2>3, BsplineSent DEF IInv, PublishChanges
  <2> QED
    BY <2>2, <2>3
<1> QED
  BY <1>1, <1>2, <1>3, <1>4, <1>5, <1>6 DEF IInv

LEMMA ServerInv == IInv /\ TrajectoryServer => IInv'
<1> SUFFICES ASSUME IInv, TrajectoryServer PROVE IInv'
  OBVIOUS
<1>0. UNCHANGED <<fsm_vars, ctl_vars, hold_q, landing_q>>
  BY DEF TrajectoryServer, TakeBspline, SendCommand, TrajectoryTime, queue_vars
<1>1. FP!IInv'
  <2>1. UNCHANGED FP!vars
    BY <1>0 DEF fsm_vars, FP!vars, FP!plan_vars, FP!release_vars, FP!monitor_vars,
                FP!detect_vars, FP!task_vars, FP!hist_vars
  <2> QED
    BY <2>1, ExplorationKept DEF IInv
<1>2. CP!IInv'
  <2>1. UNCHANGED CP!vars
    BY <1>0 DEF ctl_vars, CP!vars, CP!pose_vars, CP!cmd_vars, CP!hold_vars
  <2> QED
    BY <2>1, ControllerKept DEF IInv
<1>3. HoldQueue' /\ LandingQueue'
  BY <1>0 DEF IInv, fsm_vars, ctl_vars, HoldQueue, HoldAgrees, LandingQueue, LandingNeverLost
<1>4. UNCHANGED published
  BY <1>0 DEF fsm_vars
<1>5. CASE TakeBspline
  <2>1. bspline_q # <<>> /\ bspline_q \in Seq(Released) /\ traj_id \in Nat
    BY <1>5, PlannerAssumption DEF TakeBspline, IInv, BsplineQueue, Server!TypeOK
  <2>2. /\ Head(bspline_q) \in Released /\ Head(bspline_q) = bspline_q[1]
        /\ Tail(bspline_q) \in Seq(Released) /\ Len(Tail(bspline_q)) = Len(bspline_q) - 1
        /\ \A i \in 1 .. Len(bspline_q) - 1 : Tail(bspline_q)[i] = bspline_q[i + 1]
        /\ Tail(bspline_q) = <<>> <=> Len(bspline_q) = 1
    BY <2>1, Taken
  <2>3. 1 \in 1 .. Len(bspline_q) /\ Len(bspline_q) \in Nat
    BY <2>1
  <2>4. traj_id < bspline_q[1].id
    BY <2>3 DEF IInv, BsplineQueue, Ordered
  <2>5. /\ traj_id' = bspline_q[1].id /\ traj_time' = "running" /\ receive_traj'
        /\ receive_traj' \in BOOLEAN /\ bspline_q' = Tail(bspline_q) /\ UNCHANGED cmd_q
    BY <1>5, <2>2, <2>4 DEF TakeBspline, Server!bsplineCallback, Server!InOrder, Released
  <2>6. traj_id' \in 1 .. MaxTraj
    BY <2>2, <2>5 DEF Released
  <2>7. (Server!TypeOK /\ Started /\ CommandQueue)'
    BY <2>5, <2>6, PlannerAssumption
       DEF IInv, Server!TypeOK, Server!TrajTime, Started, CommandQueue
  <2>8. Ordered(bspline_q', traj_id')
    BY <2>1, <2>5, OrderedTaken DEF IInv, BsplineQueue
  <2>9. bspline_q[Len(bspline_q)].id = published.id /\ Len(bspline_q) <= QueueSize
    BY <2>1 DEF IInv, BsplineQueue
  <2>10. bspline_q' # <<>> => bspline_q'[Len(bspline_q')].id = published.id
    <3> SUFFICES ASSUME bspline_q' # <<>>
                 PROVE  bspline_q'[Len(bspline_q')].id = published.id
      OBVIOUS
    <3>1. Len(bspline_q) - 1 \in 1 .. Len(bspline_q) - 1
      BY <2>2, <2>3, <2>5
    <3>2. Tail(bspline_q)[Len(bspline_q) - 1] = bspline_q[Len(bspline_q)]
      BY <2>2, <2>3, <3>1
    <3> QED
      BY <2>2, <2>5, <2>9, <3>2
  <2>11. bspline_q' = <<>> => traj_id' = published.id
    BY <2>2, <2>5, <2>9
  <2>12. BsplineQueue'
    BY <1>4, <2>2, <2>3, <2>5, <2>8, <2>9, <2>10, <2>11, QueueSizeAssumption
       DEF BsplineQueue, ReleasedReachesServer
  <2> QED
    BY <1>1, <1>2, <1>3, <2>7, <2>12 DEF IInv
<1>6. CASE SendCommand
  <2>1. /\ UNCHANGED <<traj_id, receive_traj, traj_time, bspline_q>>
        /\ receive_traj /\ cmd_q' = Enqueue(cmd_q, traj_id)
    BY <1>6 DEF SendCommand, Server!cmdCallback, Server!vars
  <2>2. traj_id \in 1 .. MaxTraj
    BY <2>1 DEF IInv, Started
  <2>3. CommandQueue'
    BY <2>1, <2>2, EnqueueEnds DEF IInv, CommandQueue
  <2>4. (Server!TypeOK /\ Started /\ BsplineQueue)'
    BY <1>4, <2>1 DEF IInv, Server!TypeOK, Started, BsplineQueue, Ordered, ReleasedReachesServer
  <2> QED
    BY <1>1, <1>2, <1>3, <2>3, <2>4 DEF IInv
<1>7. CASE TrajectoryTime
  <2>1. /\ UNCHANGED <<traj_id, receive_traj, bspline_q, cmd_q>>
        /\ traj_time' \in {"running", "over"}
    BY <1>7 DEF TrajectoryTime, Server!TimePasses, queue_vars
  <2>2. (Server!TypeOK /\ Started)'
    BY <2>1 DEF IInv, Server!TypeOK, Server!TrajTime, Started
  <2>3. (CommandQueue /\ BsplineQueue)'
    BY <1>4, <2>1 DEF IInv, CommandQueue, BsplineQueue, Ordered, ReleasedReachesServer
  <2> QED
    BY <1>1, <1>2, <1>3, <2>2, <2>3 DEF IInv
<1> QED
  BY <1>5, <1>6, <1>7 DEF TrajectoryServer

\* Each step of the controller is one of the controller's own module; only a hold
\* message and a landing request change whether it holds.
LEMMA ControllerStep ==
  ASSUME IInv, Controller
  PROVE  /\ CP!Next
         /\ ~TakeHold /\ ~TakeLanding => UNCHANGED <<ctl_hold, ctl_landing, hold_q, landing_q>>
<1> USE DEF Ctl!pose_vars, CP!pose_vars, Ctl!cmd_vars, CP!cmd_vars, Ctl!hold_vars, CP!hold_vars
<1>1. CASE TakeHold
  <2>1. hold_q # <<>> /\ hold_q \in Seq(BOOLEAN) /\ Ctl!safety_hold_cb(Head(hold_q))
    BY <1>1 DEF TakeHold, IInv, HoldQueue
  <2>2. Head(hold_q) \in BOOLEAN
    BY <2>1, Taken
  <2>3. CP!safety_hold_cb(Head(hold_q))
    BY <2>1 DEF Ctl!safety_hold_cb, CP!safety_hold_cb, Ctl!EnteringHold, CP!EnteringHold,
                Ctl!LatchHold, CP!LatchHold, Ctl!LockPoint, CP!LockPoint,
                Ctl!MavrosTrusted, CP!MavrosTrusted
  <2> QED
    BY <1>1, <2>2, <2>3 DEF CP!Next
<1>2. CASE TakeLanding
  <2>1. Ctl!landing_request_cb /\ ~ctl_landing
    BY <1>2 DEF TakeLanding, IInv, LandingQueue
  <2>2. CP!landing_request_cb
    BY <2>1 DEF Ctl!landing_request_cb, CP!landing_request_cb, Ctl!LatchHold, CP!LatchHold,
                Ctl!LockPoint, CP!LockPoint, Ctl!MavrosTrusted, CP!MavrosTrusted
  <2> QED
    BY <1>2, <2>1, <2>2 DEF CP!Next
<1>3. CASE TakeCommand
  <2>1. cmd_q # <<>> /\ cmd_q \in Seq(1 .. MaxTraj) /\ Ctl!twist_cb(Head(cmd_q))
    BY <1>3 DEF TakeCommand, IInv, CommandQueue
  <2>2. Head(cmd_q) \in 1 .. MaxTraj
    BY <2>1, Taken
  <2>3. CP!twist_cb(Head(cmd_q))
    BY <2>1 DEF Ctl!twist_cb, CP!twist_cb, Ctl!CommandsAccepted, CP!CommandsAccepted,
                Ctl!StoreCommand, CP!StoreCommand
  <2>4. UNCHANGED <<ctl_hold, ctl_landing, hold_q, landing_q>>
    BY <1>3, <2>1 DEF TakeCommand, Ctl!twist_cb
  <2> QED
    BY <2>2, <2>3, <2>4 DEF CP!Next
<1>4. CASE State
  <2>1. CP!state_cb
    BY <1>4 DEF State, Controls, Ctl!state_cb, CP!state_cb
  <2>2. UNCHANGED <<ctl_hold, ctl_landing, hold_q, landing_q>>
    BY <1>4 DEF State, Controls, Ctl!state_cb, queue_vars
  <2> QED
    BY <2>1, <2>2 DEF CP!Next
<1>5. CASE Control
  <2> PICK elapsed \in BOOLEAN, accepted \in BOOLEAN, armed \in BOOLEAN :
        Ctl!control(elapsed, accepted, armed)
    BY <1>5 DEF Control, Controls, Ctl!ControlTick
  <2>1. Ctl!RequestLand(elapsed, accepted) => CP!RequestLand(elapsed, accepted)
    BY DEF Ctl!RequestLand, CP!RequestLand, Ctl!LandRequestDue, CP!LandRequestDue
  <2>2. Ctl!Steer(armed) => CP!Steer(armed)
    BY DEF Ctl!Steer, CP!Steer, Ctl!LandsByItself, CP!LandsByItself, Ctl!HoldFirst, CP!HoldFirst,
           Ctl!PublishHold, CP!PublishHold, Ctl!LatchLate, CP!LatchLate,
           Ctl!MavrosTrusted, CP!MavrosTrusted, Ctl!LockPoint, CP!LockPoint,
           Ctl!HoldSetpoint, CP!HoldSetpoint, Ctl!PublishHome, CP!PublishHome,
           Ctl!HomeSetpoint, CP!HomeSetpoint, Ctl!DropStaleCommand, CP!DropStaleCommand,
           Ctl!PublishTrack, CP!PublishTrack, Ctl!TrackSetpoint, CP!TrackSetpoint
  <2>3. CP!control(elapsed, accepted, armed)
    BY <2>1, <2>2 DEF Ctl!control, CP!control
  <2>4. UNCHANGED <<ctl_hold, ctl_landing, hold_q, landing_q>>
    BY <1>5 DEF Control, Controls, queue_vars, Ctl!control, Ctl!Steer, Ctl!PublishHold,
                Ctl!PublishHome, Ctl!DropStaleCommand, Ctl!PublishTrack
  <2> QED
    BY <2>3, <2>4 DEF CP!Next, CP!ControlTick
<1>6. CASE CommandExpires
  <2>1. CP!CommandExpires
    BY <1>6 DEF CommandExpires, Controls, Ctl!CommandExpires, CP!CommandExpires
  <2>2. UNCHANGED <<ctl_hold, ctl_landing, hold_q, landing_q>>
    BY <1>6 DEF CommandExpires, Controls, Ctl!CommandExpires, queue_vars
  <2> QED
    BY <2>1, <2>2 DEF CP!Next
<1> QED
  BY <1>1, <1>2, <1>3, <1>4, <1>5, <1>6 DEF Controller

LEMMA ControllerInv == IInv /\ Controller => IInv'
<1> SUFFICES ASSUME IInv, Controller PROVE IInv'
  OBVIOUS
<1>0. UNCHANGED <<fsm_vars, server_vars, bspline_q>>
  BY DEF Controller, TakeHold, TakeLanding, TakeCommand, State, Control, CommandExpires, Controls,
         queue_vars
<1>1. FP!IInv'
  <2>1. UNCHANGED FP!vars
    BY <1>0 DEF fsm_vars, FP!vars, FP!plan_vars, FP!release_vars, FP!monitor_vars,
                FP!detect_vars, FP!task_vars, FP!hist_vars
  <2> QED
    BY <2>1, ExplorationKept DEF IInv
<1>2. CP!IInv'
  BY ControllerStep, ControllerKept DEF IInv
<1>3. (Server!TypeOK /\ Started /\ BsplineQueue)'
  BY <1>0 DEF IInv, fsm_vars, server_vars, Server!TypeOK, Started, BsplineQueue, Ordered,
              ReleasedReachesServer
<1>4. CommandQueue'
  <2>1. CASE TakeCommand
    <3>1. cmd_q # <<>> /\ cmd_q \in Seq(1 .. MaxTraj) /\ Len(cmd_q) <= QueueSize
      BY <2>1 DEF TakeCommand, IInv, CommandQueue
    <3> QED
      BY <2>1, <3>1, Taken, QueueSizeAssumption DEF TakeCommand, CommandQueue
  <2>2. CASE ~TakeCommand
    <3>1. UNCHANGED cmd_q
      BY <2>2 DEF Controller, TakeHold, TakeLanding, State, Control, CommandExpires, Controls,
                  queue_vars
    <3> QED
      BY <3>1 DEF IInv, CommandQueue
  <2> QED
    BY <2>1, <2>2
<1>5. UNCHANGED <<safety_hold_active, landing_requested>>
  BY <1>0 DEF fsm_vars
<1>6. HoldQueue'
  <2>1. CASE TakeHold
    <3>1. /\ hold_q # <<>> /\ hold_q \in Seq(BOOLEAN) /\ Len(hold_q) <= QueueSize
          /\ hold_q[Len(hold_q)] = safety_hold_active
      BY <2>1 DEF TakeHold, IInv, HoldQueue
    <3>2. ctl_hold' = Head(hold_q) /\ hold_q' = Tail(hold_q)
      BY <2>1 DEF TakeHold, Ctl!safety_hold_cb
    <3>3. /\ Head(hold_q) = hold_q[1] /\ Len(hold_q) \in Nat \ {0}
          /\ Tail(hold_q) \in Seq(BOOLEAN) /\ Len(Tail(hold_q)) = Len(hold_q) - 1
          /\ \A i \in 1 .. Len(hold_q) - 1 : Tail(hold_q)[i] = hold_q[i + 1]
          /\ Tail(hold_q) = <<>> <=> Len(hold_q) = 1
      BY <3>1, Taken
    <3>4. hold_q' # <<>> => hold_q'[Len(hold_q')] = safety_hold_active
      <4> SUFFICES ASSUME hold_q' # <<>> PROVE hold_q'[Len(hold_q')] = safety_hold_active
        OBVIOUS
      <4>1. Len(hold_q) - 1 \in 1 .. Len(hold_q) - 1
        BY <3>2, <3>3
      <4>2. Tail(hold_q)[Len(hold_q) - 1] = hold_q[Len(hold_q)]
        BY <3>3, <4>1
      <4> QED
        BY <3>1, <3>2, <3>3, <4>2
    <3>5. hold_q' = <<>> => ctl_hold' = safety_hold_active
      BY <3>1, <3>2, <3>3
    <3>6. hold_q' \in Seq(BOOLEAN) /\ Len(hold_q') <= QueueSize
      BY <3>1, <3>2, <3>3, QueueSizeAssumption
    <3> QED
      BY <1>5, <3>4, <3>5, <3>6 DEF HoldQueue, HoldAgrees
  <2>2. CASE TakeLanding
    <3>1. ctl_landing' /\ ctl_hold' /\ UNCHANGED hold_q
      BY <2>2 DEF TakeLanding, Ctl!landing_request_cb
    <3> QED
      BY <1>5, <3>1 DEF IInv, HoldQueue, HoldAgrees
  <2>3. CASE ~TakeHold /\ ~TakeLanding
    <3>1. UNCHANGED <<ctl_hold, ctl_landing, hold_q>>
      BY <2>3, ControllerStep
    <3> QED
      BY <1>5, <3>1 DEF IInv, HoldQueue, HoldAgrees
  <2> QED
    BY <2>1, <2>2, <2>3
<1>7. LandingQueue'
  <2>1. CASE TakeHold
    <3>1. UNCHANGED <<ctl_landing, landing_q>>
      BY <2>1 DEF TakeHold, Ctl!safety_hold_cb
    <3> QED
      BY <1>5, <3>1 DEF IInv, LandingQueue, LandingNeverLost
  <2>2. CASE TakeLanding
    <3>1. landing_q # <<>> /\ landing_q \in Seq({TRUE}) /\ Len(landing_q) <= 1
      BY <2>2 DEF TakeLanding, IInv, LandingQueue
    <3>2. landing_q' = <<>>
      BY <2>2, <3>1, Taken DEF TakeLanding
    <3>3. landing_requested /\ ctl_landing'
      BY <2>2, <3>1 DEF TakeLanding, Ctl!landing_request_cb, IInv, LandingQueue
    <3> QED
      BY <1>5, <3>2, <3>3 DEF LandingQueue, LandingNeverLost
  <2>3. CASE ~TakeHold /\ ~TakeLanding
    <3>1. UNCHANGED <<ctl_landing, landing_q>>
      BY <2>3, ControllerStep
    <3> QED
      BY <1>5, <3>1 DEF IInv, LandingQueue, LandingNeverLost
  <2> QED
    BY <2>1, <2>2, <2>3
<1> QED
  BY <1>1, <1>2, <1>3, <1>4, <1>6, <1>7 DEF IInv

LEMMA StepInv == IInv /\ [Next]_vars => IInv'
<1>1. IInv /\ UNCHANGED vars => IInv'
  <2> SUFFICES ASSUME IInv, UNCHANGED vars PROVE IInv'
    OBVIOUS
  <2>1. UNCHANGED FP!vars /\ UNCHANGED CP!vars
    BY DEF vars, fsm_vars, ctl_vars, FP!vars, FP!plan_vars, FP!release_vars, FP!monitor_vars,
           FP!detect_vars, FP!task_vars, FP!hist_vars, CP!vars, CP!pose_vars, CP!cmd_vars,
           CP!hold_vars
  <2>2. FP!IInv' /\ CP!IInv'
    BY <2>1, ExplorationKept, ControllerKept DEF IInv
  <2>3. UNCHANGED <<safety_hold_active, landing_requested, published, traj_id, receive_traj,
                    traj_time, ctl_hold, ctl_landing, queue_vars>>
    BY DEF vars, fsm_vars, server_vars, ctl_vars
  <2>4. (HoldQueue /\ LandingQueue /\ CommandQueue)'
    BY <2>3 DEF IInv, queue_vars, HoldQueue, HoldAgrees, LandingQueue, LandingNeverLost,
                CommandQueue
  <2>5. (Server!TypeOK /\ Started /\ BsplineQueue)'
    BY <2>3 DEF IInv, queue_vars, Server!TypeOK, Started, BsplineQueue, Ordered,
                ReleasedReachesServer
  <2> QED
    BY <2>2, <2>4, <2>5 DEF IInv
<1> QED
  BY <1>1, ExplorationInv, ServerInv, ControllerInv DEF Next

THEOREM Invariance == Spec => []IInv
BY InitInv, StepInv, PTL DEF Spec

-------------------------------------------------------------------------------
(* The properties.                                                          *)

\* Every variable of the three processes keeps its type, and no queue exceeds its length.
THEOREM TypeCorrect == Spec => []TypeOK
<1>1. ASSUME IInv PROVE TypeOK
  <2>1. FSM!TypeOK
    BY <1>1 DEF IInv, FP!IInv, FP!TypeOK, FSM!TypeOK, FP!EXPL_STATE, FSM!EXPL_STATE,
                FP!TrajIds, FSM!TrajIds, FP!NotSet, FSM!NotSet
  <2>2. Ctl!TypeOK
    BY <1>1 DEF IInv, CP!IInv, CP!TypeOK, Ctl!TypeOK, CP!Positions, Ctl!Positions, CP!Modes,
                Ctl!Modes, CP!SetpointType, Ctl!SetpointType, CP!HoldKinds, Ctl!HoldKinds,
                CP!NoSetpoint, Ctl!NoSetpoint
  <2>3. /\ Len(hold_q) <= QueueSize /\ Len(bspline_q) <= QueueSize /\ Len(cmd_q) <= QueueSize
    BY <1>1 DEF IInv, HoldQueue, BsplineQueue, CommandQueue
  <2>4. Len(landing_q) <= QueueSize
    BY <1>1, QueueSizeAssumption DEF IInv, LandingQueue
  <2> QED
    BY <1>1, <2>1, <2>2, <2>3, <2>4 DEF IInv, TypeOK
<1> QED
  BY <1>1, Invariance, PTL

\* Once the controller has read its hold messages it holds exactly when exploration
\* wants it to, whatever a full queue dropped.
THEOREM HoldAgreement == Spec => []HoldAgrees
<1>1. IInv => HoldAgrees
  BY DEF IInv, HoldQueue
<1> QED
  BY <1>1, Invariance, PTL

\* The trajectory server never samples a trajectory before its start.
THEOREM CommandsAssigned == Spec => []NoUnassignedCommand
<1>1. IInv => NoUnassignedCommand
  BY DEF IInv, Started, NoUnassignedCommand, Server!CommandSource, Server!TypeOK, Server!TrajTime
<1> QED
  BY <1>1, Invariance, PTL

\* Once the trajectory server has read its queue it has the trajectory released last.
THEOREM ServerUpToDate == Spec => []ReleasedReachesServer
<1>1. IInv => ReleasedReachesServer
  BY DEF IInv, BsplineQueue
<1> QED
  BY <1>1, Invariance, PTL

\* A landing request of the task layer is on its way or taken: no queue loses it.
THEOREM LandingKept == Spec => []LandingNeverLost
<1>1. IInv => LandingNeverLost
  BY DEF IInv, LandingQueue
<1> QED
  BY <1>1, Invariance, PTL

-------------------------------------------------------------------------------
(* The flight as an implementation of the modules about its processes.      *)

LEMMA UnchangedParts ==
  /\ UNCHANGED fsm_vars => UNCHANGED FP!vars
  /\ UNCHANGED ctl_vars => UNCHANGED CP!vars
BY DEF fsm_vars, ctl_vars, FP!vars, FP!plan_vars, FP!release_vars, FP!monitor_vars,
       FP!detect_vars, FP!task_vars, FP!hist_vars, CP!vars, CP!pose_vars, CP!cmd_vars, CP!hold_vars

LEMMA FlightStep == IInv /\ [Next]_vars => [FP!Next]_FP!vars /\ [CP!Next]_CP!vars
<1> SUFFICES ASSUME IInv, [Next]_vars PROVE [FP!Next]_FP!vars /\ [CP!Next]_CP!vars
  OBVIOUS
<1>1. CASE Exploration
  <2>1. FP!Next /\ UNCHANGED ctl_vars
    BY <1>1, ExplorationStep DEF IInv
  <2> QED
    BY <2>1, UnchangedParts
<1>2. CASE TrajectoryServer
  <2>1. UNCHANGED fsm_vars /\ UNCHANGED ctl_vars
    BY <1>2 DEF TrajectoryServer, TakeBspline, SendCommand, TrajectoryTime
  <2> QED
    BY <2>1, UnchangedParts
<1>3. CASE Controller
  <2>1. UNCHANGED fsm_vars
    BY <1>3 DEF Controller, TakeHold, TakeLanding, TakeCommand, State, Control, CommandExpires,
                Controls
  <2>2. CP!Next
    BY <1>3, ControllerStep
  <2> QED
    BY <2>1, <2>2, UnchangedParts
<1>4. CASE UNCHANGED vars
  BY <1>4, UnchangedParts DEF vars
<1> QED
  BY <1>1, <1>2, <1>3, <1>4 DEF Next

\* With the topics between them, the processes still take only the steps of their own
\* modules: what exploration and the controller are proved never to do, they never do
\* in flight.
THEOREM FlightImplements == Spec => [][FP!Next]_FP!vars /\ [][CP!Next]_CP!vars
BY FlightStep, Invariance, PTL DEF Spec

\* In flight too, a hold is only released with a newer trajectory that starts now.
THEOREM HoldReleaseInFlight == Spec => FP!HoldReleasedByNewTrajectory
<1>0. FP!ConstantsAssumption
  BY PlannerAssumption DEF FP!ConstantsAssumption
<1>1. IInv /\ [FP!Next]_FP!vars
        => [safety_hold_active /\ ~safety_hold_active' =>
              published'.id > published.id /\ published'.start = "now"]_FP!vars
  BY <1>0, FP!HoldStep DEF IInv
<1> QED
  BY <1>1, Invariance, FlightImplements, PTL DEF FP!HoldReleasedByNewTrajectory

\* In flight too, a lock point stays where it is while its hold lasts.
THEOREM HoldPointInFlight == Spec => CP!HoldPointFixed
<1>0. CP!CellsAssumption
  BY ValuesAssumption DEF CP!CellsAssumption
<1>1. IInv /\ [CP!Next]_CP!vars
        => [ctl_hold /\ ctl_hold' /\ hold_latched /\ ctl_landing' = ctl_landing
              => hold_latched' /\ UNCHANGED <<hold_mavros, hold_pos>>]_CP!vars
  BY <1>0, CP!HoldPointStep DEF IInv
<1> QED
  BY <1>1, Invariance, FlightImplements, PTL DEF CP!HoldPointFixed

\* A controller that holds publishes no setpoint but that of the hold.
LEMMA ShieldStep ==
  ASSUME CP!Next, ctl_hold, setpoint' # setpoint
  PROVE  setpoint'.kind \in CP!HoldKinds
<1> USE DEF CP!pose_vars, CP!cmd_vars, CP!hold_vars
<1>1. PICK elapsed, accepted, armed \in BOOLEAN : CP!control(elapsed, accepted, armed)
  BY DEF CP!Next, CP!state_cb, CP!position_cb, CP!mavros_pose_cb, CP!twist_cb,
         CP!safety_hold_cb, CP!landing_request_cb, CP!ControlTick, CP!CommandExpires,
         CP!ModeChanges
<1>2. CP!PublishHold
  BY <1>1 DEF CP!control, CP!Steer, CP!HoldFirst
<1> QED
  BY <1>2 DEF CP!PublishHold, CP!HoldSetpoint, CP!HoldKinds

\* Once its hold messages are read, no setpoint but one of the hold is published until
\* exploration releases it, whatever commands arrive.
THEOREM HoldShieldsVehicle == Spec => HoldShields
<1>1. IInv /\ [Next]_vars
        => [hold_q = <<>> /\ safety_hold_active /\ setpoint' # setpoint
              => setpoint'.kind \in Ctl!HoldKinds]_vars
  <2> SUFFICES ASSUME IInv, Next, hold_q = <<>>, safety_hold_active, setpoint' # setpoint
               PROVE  setpoint'.kind \in Ctl!HoldKinds
    BY DEF vars, ctl_vars
  <2>1. ctl_hold
    BY DEF IInv, HoldQueue, HoldAgrees
  <2>2. CP!Next
    BY FlightStep DEF CP!vars
  <2> QED
    BY <2>1, <2>2, ShieldStep DEF CP!HoldKinds, Ctl!HoldKinds
<1> QED
  BY <1>1, Invariance, PTL DEF Spec, HoldShields

\* With the topics between them, exploration keeps the promise of TrajectoryRelease to the
\* controller: the trajectories it sends are new, accepted ones, and end the hold alone.
THEOREM FlightKeepsRelease == Spec => FP!KeepsReleasePromise
<1>0. FP!ConstantsAssumption
  BY PlannerAssumption DEF FP!ConstantsAssumption
<1>1. Init => FP!Promise!Init
  BY DEF Init, ExplorationInit, FP!Promise!Init
<1>2. IInv /\ [FP!Next]_FP!vars => [FP!Promise!Next]_FP!Promise!vars
  BY <1>0, FP!PromiseStep DEF IInv
<1> QED
  BY <1>1, <1>2, Invariance, FlightImplements, PTL DEF Spec, FP!Promise!Spec, FP!KeepsReleasePromise

-------------------------------------------------------------------------------
(* The trajectories on their way.                                           *)

\* What the processes leave alone.
LEMMA OthersKeep ==
  /\ Exploration => UNCHANGED <<cmd_q, server_vars, ctl_vars, discarded>>
  /\ TrajectoryServer => UNCHANGED <<fsm_vars, ctl_vars, hold_q, landing_q>>
  /\ Controller => UNCHANGED <<fsm_vars, server_vars, bspline_q>>
<1>1. Exploration => UNCHANGED <<cmd_q, server_vars, ctl_vars, discarded>>
  BY DEF Exploration, Explores, Odometry, Trigger, Finish, Plan, PubTraj, ExecReplan, Safety
<1>2. TrajectoryServer => UNCHANGED <<fsm_vars, ctl_vars, hold_q, landing_q>>
  BY DEF TrajectoryServer, TakeBspline, SendCommand, TrajectoryTime, queue_vars
<1>3. Controller => UNCHANGED <<fsm_vars, server_vars, bspline_q>>
  <2>1. TakeHold \/ TakeLanding \/ TakeCommand => UNCHANGED <<fsm_vars, server_vars, bspline_q>>
    BY ZenonT(30) DEF TakeHold, TakeLanding, TakeCommand
  <2>2. State \/ Control \/ CommandExpires => UNCHANGED <<fsm_vars, server_vars, bspline_q>>
    BY DEF State, Control, CommandExpires, Controls, Ctl!state_cb, Ctl!ControlTick,
           Ctl!CommandExpires, queue_vars
  <2> QED BY <2>1, <2>2 DEF Controller
<1> QED BY <1>1, <1>2, <1>3

\* The controller only takes from its queue of commands.
LEMMA CommandsTaken == Controller => cmd_q' = cmd_q \/ (cmd_q # <<>> /\ cmd_q' = Tail(cmd_q))
<1>1. TakeHold \/ TakeLanding \/ TakeCommand => cmd_q' = cmd_q \/ (cmd_q # <<>> /\ cmd_q' = Tail(cmd_q))
  <2>1. TakeHold => cmd_q' = cmd_q
    BY ZenonT(30) DEF TakeHold
  <2>2. TakeLanding => cmd_q' = cmd_q
    BY ZenonT(30) DEF TakeLanding
  <2>3. TakeCommand => cmd_q # <<>> /\ cmd_q' = Tail(cmd_q)
    BY ZenonT(30) DEF TakeCommand
  <2> QED BY <2>1, <2>2, <2>3
<1>2. State \/ Control \/ CommandExpires => cmd_q' = cmd_q
  BY DEF State, Control, CommandExpires, Controls, Ctl!state_cb, Ctl!ControlTick,
         Ctl!CommandExpires, queue_vars
<1> QED
  BY <1>1, <1>2 DEF Controller

\* What is accepted stays so, and a trajectory is accepted once it is published.
LEMMA AcceptedStep ==
  ASSUME IInv, [Next]_vars
  PROVE  /\ Accepted \subseteq Accepted'
         /\ published' # published => published'.id \in Accepted'
<1>0. FP!ConstantsAssumption
  BY PlannerAssumption DEF FP!ConstantsAssumption
<1>1. [FP!Promise!Next]_FP!Promise!vars /\ FP!IInv'
  <2>1. [FP!Next]_FP!vars
    BY FlightStep
  <2> QED
    BY <1>0, <2>1, FP!PromiseStep, ExplorationKept DEF IInv
<1>2. /\ published.id \in Nat /\ published'.id \in Nat
      /\ local_traj \in Nat /\ published.id <= local_traj
  BY <1>1, PlannerAssumption
     DEF IInv, FP!IInv, FP!TypeOK, FP!TrajIds, FP!Identifiers
<1>3. /\ published.id <= published'.id
      /\ \A id \in rejected' \ rejected : published.id < id
  BY <1>1, <1>2 DEF FP!Promise!Next, FP!Promise!Plan, FP!Promise!PlanRefused, FP!Promise!Refuse,
                    FP!Promise!Release, FP!Promise!Hold, FP!Promise!RequestLanding,
                    FP!Promise!vars
<1>4. Accepted \subseteq Accepted'
  BY <1>2, <1>3 DEF Accepted
<1>5. ASSUME published' # published PROVE published'.id \in Accepted'
  <2>1. published'.id \notin rejected'
    BY <1>1 DEF FP!IInv, FP!NeverPublishRejected
  <2>2. published.id < published'.id
    <3>1. CASE Exploration
      BY <3>1, <1>5, ExplorationStep DEF IInv
    <3>2. CASE TrajectoryServer \/ Controller \/ UNCHANGED vars
      <4>1. UNCHANGED fsm_vars
        BY <3>2, OthersKeep DEF vars
      <4> QED BY <1>5, <4>1 DEF fsm_vars
    <3> QED BY <3>1, <3>2 DEF Next
  <2> QED BY <1>2, <2>1, <2>2 DEF Accepted
<1> QED BY <1>4, <1>5

\* All that is on its way to the controller, or reached it, was accepted.
AllAccepted ==
  /\ bspline_q \in Seq([id : Accepted, start : {"now"}])
  /\ receive_traj => traj_id \in Accepted
  /\ cmd_q \in Seq(Accepted)
  /\ {cmd, setpoint.traj} \subseteq Accepted \union {NoTraj}

\* Commands are in the order of the trajectories: after the one the controller has, up to
\* the one the server has.
CommandsOrdered ==
  /\ cmd # NoTraj => cmd <= traj_id /\ \A i \in 1 .. Len(cmd_q) : cmd <= cmd_q[i]
  /\ \A i \in 1 .. Len(cmd_q) : cmd_q[i] <= traj_id
  /\ \A i, j \in 1 .. Len(cmd_q) : i < j => cmd_q[i] <= cmd_q[j]

\* What the controller makes of its last command.
LEMMA SteeredBy ==
  ASSUME IInv, [Next]_vars
  PROVE  /\ setpoint' # setpoint => setpoint'.traj \in {NoTraj, cmd}
         /\ \/ UNCHANGED <<cmd, cmd_q>>
            \/ SendCommand /\ UNCHANGED cmd
            \/ cmd_q # <<>> /\ cmd' = Head(cmd_q) /\ cmd_q' = Tail(cmd_q) /\ UNCHANGED setpoint
<1> DEFINE Steered == setpoint' # setpoint => setpoint'.traj \in {NoTraj, cmd}
           Stored == \/ UNCHANGED <<cmd, cmd_q>>
                     \/ SendCommand /\ UNCHANGED cmd
                     \/ /\ cmd_q # <<>> /\ cmd' = Head(cmd_q) /\ cmd_q' = Tail(cmd_q)
                        /\ UNCHANGED setpoint
<1>1. CASE Exploration \/ UNCHANGED vars
  <2>1. UNCHANGED <<ctl_vars, cmd_q>>
    BY <1>1, OthersKeep DEF vars, queue_vars
  <2> QED BY <2>1 DEF ctl_vars
<1>2. CASE TrajectoryServer
  <2>1. UNCHANGED ctl_vars /\ (SendCommand \/ UNCHANGED cmd_q)
    BY <1>2 DEF TrajectoryServer, TakeBspline, SendCommand, TrajectoryTime, queue_vars
  <2> QED BY <2>1 DEF ctl_vars
<1>3. CASE TakeCommand
  BY <1>3 DEF TakeCommand, Ctl!twist_cb, Ctl!StoreCommand
<1>4. CASE TakeHold \/ TakeLanding
  <2>1. CASE TakeHold
    <3>1. UNCHANGED <<cmd, setpoint>>
      BY ZenonT(30), <2>1 DEF TakeHold, Ctl!safety_hold_cb
    <3>2. UNCHANGED cmd_q
      BY ZenonT(30), <2>1 DEF TakeHold
    <3> QED BY <3>1, <3>2
  <2>2. CASE TakeLanding
    BY <2>2 DEF TakeLanding, Ctl!landing_request_cb
  <2> QED BY <1>4, <2>1, <2>2
<1>5. CASE State \/ CommandExpires
  <2>1. UNCHANGED <<cmd, setpoint>>
    BY <1>5 DEF State, CommandExpires, Controls, Ctl!state_cb, Ctl!CommandExpires, Ctl!cmd_vars
  <2>2. UNCHANGED cmd_q
    BY <1>5 DEF State, CommandExpires, Controls, queue_vars
  <2> QED BY <2>1, <2>2
<1>6. CASE Control
  <2> PICK elapsed \in BOOLEAN, accepted \in BOOLEAN, armed \in BOOLEAN :
        Ctl!control(elapsed, accepted, armed)
    BY <1>6 DEF Control, Controls, Ctl!ControlTick
  <2>1. UNCHANGED <<cmd, cmd_q>> /\ Ctl!Steer(armed)
    BY <1>6 DEF Control, Controls, queue_vars, Ctl!control
  <2>2. Steered
    BY <2>1 DEF Ctl!Steer, Ctl!PublishHold, Ctl!HoldSetpoint, Ctl!PublishHome, Ctl!HomeSetpoint,
                Ctl!DropStaleCommand, Ctl!PublishTrack, Ctl!TrackSetpoint
  <2> QED BY <2>1, <2>2
<1> QED BY <1>1, <1>2, <1>3, <1>4, <1>5, <1>6 DEF Next, Controller

LEMMA SequencesOfMore ==
  ASSUME NEW S, NEW T, S \subseteq T
  PROVE  Seq(S) \subseteq Seq(T)
OBVIOUS

LEMMA AllAcceptedStep == IInv /\ AllAccepted /\ [Next]_vars => AllAccepted'
<1> SUFFICES ASSUME IInv, AllAccepted, [Next]_vars PROVE AllAccepted'
  OBVIOUS
<1> DEFINE Sent == [id : Accepted, start : {"now"}]
<1>1. Accepted \subseteq Accepted' /\ (published' # published => published'.id \in Accepted')
  BY AcceptedStep
<1>2. /\ bspline_q \in Seq(Sent') /\ Len(bspline_q) <= QueueSize
      /\ cmd_q \in Seq(Accepted') /\ Len(cmd_q) <= QueueSize
  <2>1. Sent \subseteq Sent'
    BY <1>1
  <2>2. Seq(Sent) \subseteq Seq(Sent') /\ Seq(Accepted) \subseteq Seq(Accepted')
    BY <1>1, <2>1, SequencesOfMore
  <2> QED
    BY <2>2 DEF AllAccepted, IInv, BsplineQueue, CommandQueue
<1>3. {cmd', setpoint'.traj} \subseteq Accepted' \union {NoTraj}
  <2>1. cmd_q # <<>> => Head(cmd_q) \in Accepted'
    BY <1>2, Taken
  <2>2. /\ setpoint' = setpoint \/ setpoint'.traj \in {NoTraj, cmd}
        /\ cmd' = cmd \/ (cmd_q # <<>> /\ cmd' = Head(cmd_q))
    BY SteeredBy
  <2>3. {cmd, setpoint.traj} \subseteq Accepted' \union {NoTraj}
    BY <1>1 DEF AllAccepted
  <2> QED
    BY <2>1, <2>2, <2>3
<1> DEFINE Rest == /\ bspline_q' \in Seq(Sent')
                   /\ receive_traj' => traj_id' \in Accepted'
                   /\ cmd_q' \in Seq(Accepted')
<1>4. CASE Exploration
  <2>1. PublishChanges /\ UNCHANGED <<cmd_q, traj_id, receive_traj>>
    BY <1>4, ExplorationStep DEF IInv, server_vars
  <2>2. published' # published => published' \in Sent'
    <3>1. FP!IInv'
      BY <1>4, ExplorationInv DEF IInv
    <3>2. published' # published => published'.start = "now"
      BY <1>4, ExplorationStep DEF IInv
    <3> QED
      BY <1>1, <3>1, <3>2 DEF FP!IInv, FP!TypeOK
  <2>3. bspline_q' \in Seq(Sent')
    BY ZenonT(30), <1>2, <2>1, <2>2, EnqueueEnds DEF PublishChanges
  <2> QED
    BY <1>1, <1>2, <1>3, <2>1, <2>3 DEF AllAccepted
<1>5. CASE TakeBspline
  <2>1. /\ bspline_q # <<>> /\ bspline_q' = Tail(bspline_q) /\ UNCHANGED cmd_q
        /\ \/ UNCHANGED <<traj_id, receive_traj>>
           \/ traj_id' = Head(bspline_q).id
    BY <1>5 DEF TakeBspline, Server!bsplineCallback, Server!vars
  <2>2. Head(bspline_q) \in Sent' /\ bspline_q' \in Seq(Sent')
    BY <1>2, <2>1, Taken
  <2>3. receive_traj' => traj_id' \in Accepted'
    BY <1>1, <2>1, <2>2 DEF AllAccepted
  <2> QED
    BY <1>2, <1>3, <2>1, <2>2, <2>3 DEF AllAccepted
<1>6. CASE SendCommand
  <2>1. /\ UNCHANGED <<traj_id, receive_traj, bspline_q>>
        /\ receive_traj /\ cmd_q' = Enqueue(cmd_q, traj_id)
    BY <1>6 DEF SendCommand, Server!cmdCallback, Server!vars
  <2>2. traj_id \in Accepted'
    BY <1>1, <2>1 DEF AllAccepted
  <2>3. cmd_q' \in Seq(Accepted')
    BY <1>2, <2>1, <2>2, EnqueueEnds
  <2> QED
    BY <1>2, <1>3, <2>1, <2>2, <2>3 DEF AllAccepted
<1>7. CASE TrajectoryTime
  <2>1. UNCHANGED <<traj_id, receive_traj, bspline_q, cmd_q>>
    BY <1>7 DEF TrajectoryTime, Server!TimePasses, queue_vars
  <2> QED
    BY <1>1, <1>2, <1>3, <2>1 DEF AllAccepted
<1>8. CASE Controller
  <2>1. UNCHANGED <<traj_id, receive_traj, bspline_q>>
    BY <1>8, OthersKeep DEF server_vars
  <2>2. cmd_q' = cmd_q \/ (cmd_q # <<>> /\ cmd_q' = Tail(cmd_q))
    BY <1>8, CommandsTaken
  <2>3. cmd_q' \in Seq(Accepted')
    BY <1>2, <2>2, Taken
  <2> QED
    BY <1>1, <1>2, <1>3, <2>1, <2>3 DEF AllAccepted
<1>9. CASE UNCHANGED vars
  BY <1>1, <1>2, <1>3, <1>9 DEF AllAccepted, vars, queue_vars, server_vars
<1> QED
  BY <1>4, <1>5, <1>6, <1>7, <1>8, <1>9 DEF Next, TrajectoryServer

\* The controller steers along nothing but trajectories that exploration released and that
\* had passed all of its checks, however long they were on their way.
THEOREM FlownReleased == Spec => []FlownWasReleased
<1>1. Init => AllAccepted
  BY DEF Init, CruiseInit, Server!Init, Ctl!HomeSetpoint, AllAccepted
<1>2. AllAccepted => FlownWasReleased
  BY DEF AllAccepted, FlownWasReleased
<1> QED
  BY <1>1, <1>2, AllAcceptedStep, Invariance, PTL DEF Spec

LEMMA CommandsOrderedStep == IInv /\ CommandsOrdered /\ [Next]_vars => CommandsOrdered'
<1> SUFFICES ASSUME IInv, CommandsOrdered, [Next]_vars PROVE CommandsOrdered'
  OBVIOUS
<1>1. /\ cmd_q \in Seq(1 .. MaxTraj) /\ Len(cmd_q) <= QueueSize /\ Len(cmd_q) \in Nat
      /\ \A i \in 1 .. Len(cmd_q) : cmd_q[i] \in Nat
      /\ traj_id \in Nat /\ (cmd # NoTraj => cmd \in Nat)
  <2>1. cmd_q \in Seq(1 .. MaxTraj) /\ Len(cmd_q) <= QueueSize
    BY DEF IInv, CommandQueue
  <2>2. traj_id \in Nat
    BY PlannerAssumption DEF IInv, Server!TypeOK
  <2>3. cmd # NoTraj => cmd \in 1 .. MaxTraj
    BY DEF IInv, CP!IInv, CP!TypeOK
  <2> QED
    BY <2>1, <2>2, <2>3, PlannerAssumption
<1>2. CASE SendCommand
  <2>1. UNCHANGED <<cmd, traj_id>> /\ cmd_q' = Enqueue(cmd_q, traj_id) /\ receive_traj
    <3>1. UNCHANGED cmd
      BY <1>2 DEF SendCommand, ctl_vars
    <3> QED
      BY <1>2, <3>1 DEF SendCommand, Server!cmdCallback, Server!vars
  <2>2. traj_id \in 1 .. MaxTraj
    BY <2>1 DEF IInv, Started
  <2>3. /\ cmd_q' \in Seq(1 .. MaxTraj) /\ Len(cmd_q') \in Nat
        /\ cmd_q' # <<>> /\ cmd_q'[Len(cmd_q')] = traj_id
    <3>1. /\ Enqueue(cmd_q, traj_id) \in Seq(1 .. MaxTraj) /\ Enqueue(cmd_q, traj_id) # <<>>
          /\ Enqueue(cmd_q, traj_id)[Len(Enqueue(cmd_q, traj_id))] = traj_id
      BY ZenonT(30), <1>1, <2>2, EnqueueEnds
    <3> QED
      BY <2>1, <3>1
  <2>4. PICK d \in {0, 1} :
          /\ Len(cmd_q') = Len(cmd_q) + 1 - d
          /\ \A i \in 1 .. Len(cmd_q') - 1 : i + d \in 1 .. Len(cmd_q) /\ cmd_q'[i] = cmd_q[i + d]
    BY ZenonT(30), <1>1, <2>1, <2>2, EnqueueOrder
  <2>5. ASSUME NEW i \in 1 .. Len(cmd_q')
        PROVE  /\ cmd_q'[i] <= traj_id
               /\ cmd # NoTraj => cmd <= cmd_q'[i]
    <3>1. CASE i = Len(cmd_q')
      BY <1>1, <2>3, <3>1 DEF CommandsOrdered
    <3>2. CASE i # Len(cmd_q')
      <4>1. i \in 1 .. Len(cmd_q') - 1
        BY <2>3, <3>2
      <4>2. i + d \in 1 .. Len(cmd_q) /\ cmd_q'[i] = cmd_q[i + d]
        BY <2>4, <4>1
      <4> QED
        BY <4>2 DEF CommandsOrdered
    <3> QED
      BY <3>1, <3>2
  <2>6. ASSUME NEW i \in 1 .. Len(cmd_q'), NEW j \in 1 .. Len(cmd_q'), i < j
        PROVE  cmd_q'[i] <= cmd_q'[j]
    <3>1. i + d \in 1 .. Len(cmd_q) /\ cmd_q'[i] = cmd_q[i + d]
      <4>1. i \in 1 .. Len(cmd_q') - 1
        BY <2>3, <2>6
      <4> QED
        BY <2>4, <4>1
    <3>2. CASE j = Len(cmd_q')
      BY <2>3, <2>5, <3>2
    <3>3. CASE j # Len(cmd_q')
      <4>1. j \in 1 .. Len(cmd_q') - 1 /\ i + d < j + d
        BY <2>3, <2>6, <3>3
      <4>2. j + d \in 1 .. Len(cmd_q) /\ cmd_q'[j] = cmd_q[j + d]
        BY <2>4, <4>1
      <4> QED
        BY <3>1, <4>1, <4>2 DEF CommandsOrdered
    <3> QED
      BY <3>2, <3>3
  <2>7. cmd # NoTraj => cmd <= traj_id
    BY DEF CommandsOrdered
  <2> QED
    BY <2>1, <2>5, <2>6, <2>7 DEF CommandsOrdered
<1>3. CASE ~SendCommand
  <2>1. traj_id <= traj_id' /\ traj_id' \in Nat
    <3>1. CASE TakeBspline
      <4>1. traj_id' = traj_id \/ (traj_id' = Head(bspline_q).id /\ traj_id < Head(bspline_q).id)
        BY <3>1 DEF TakeBspline, Server!bsplineCallback, Server!InOrder, Server!vars
      <4>2. Head(bspline_q) \in Released
        BY <3>1, Taken DEF TakeBspline, IInv, BsplineQueue
      <4> QED
        BY <1>1, <4>1, <4>2, PlannerAssumption DEF Released
    <3>2. CASE ~TakeBspline
      <4>1. UNCHANGED traj_id
        <5>1. CASE Exploration \/ Controller
          BY <5>1, OthersKeep DEF server_vars
        <5>2. CASE TrajectoryTime
          BY <5>2 DEF TrajectoryTime, Server!TimePasses
        <5>3. CASE UNCHANGED vars
          BY <5>3 DEF vars, server_vars
        <5> QED
          BY <1>3, <3>2, <5>1, <5>2, <5>3 DEF Next, TrajectoryServer
      <4> QED
        BY <1>1, <4>1
    <3> QED
      BY <3>1, <3>2
  <2>2. CASE UNCHANGED <<cmd, cmd_q>>
    BY <1>1, <2>1, <2>2 DEF CommandsOrdered
  <2>3. CASE cmd_q # <<>> /\ cmd' = Head(cmd_q) /\ cmd_q' = Tail(cmd_q)
    <3>1. /\ cmd' = cmd_q[1] /\ Len(cmd_q') = Len(cmd_q) - 1 /\ 1 \in 1 .. Len(cmd_q)
          /\ \A i \in 1 .. Len(cmd_q) - 1 : cmd_q'[i] = cmd_q[i + 1]
      BY <1>1, <2>3, Taken
    <3>2. cmd' <= traj_id'
      BY <1>1, <2>1, <3>1 DEF CommandsOrdered
    <3>3. ASSUME NEW i \in 1 .. Len(cmd_q')
          PROVE  cmd' <= cmd_q'[i] /\ cmd_q'[i] <= traj_id'
      <4>1. i + 1 \in 1 .. Len(cmd_q) /\ 1 < i + 1 /\ cmd_q'[i] = cmd_q[i + 1]
        BY <1>1, <3>1
      <4> QED
        BY <1>1, <2>1, <3>1, <4>1 DEF CommandsOrdered
    <3>4. ASSUME NEW i \in 1 .. Len(cmd_q'), NEW j \in 1 .. Len(cmd_q'), i < j
          PROVE  cmd_q'[i] <= cmd_q'[j]
      <4>1. /\ i + 1 \in 1 .. Len(cmd_q) /\ j + 1 \in 1 .. Len(cmd_q) /\ i + 1 < j + 1
            /\ cmd_q'[i] = cmd_q[i + 1] /\ cmd_q'[j] = cmd_q[j + 1]
        BY <1>1, <3>1, <3>4
      <4> QED
        BY <4>1 DEF CommandsOrdered
    <3> QED
      BY <3>2, <3>3, <3>4 DEF CommandsOrdered
  <2> QED
    BY <1>3, <2>2, <2>3, SteeredBy
<1> QED
  BY <1>2, <1>3

\* The controller never goes back to an older trajectory, across a hold neither, whatever the
\* queues dropped; and it publishes no setpoint along any but its newest.
THEOREM ForwardFlight == Spec => FliesForward
<1>1. Init => CommandsOrdered
  BY DEF Init, CruiseInit, CommandsOrdered
<1>2. IInv /\ CommandsOrdered /\ [Next]_vars
        => [/\ cmd # NoTraj => cmd' # NoTraj /\ cmd' >= cmd
            /\ setpoint' # setpoint => setpoint'.traj \in {NoTraj, cmd}]_vars
  <2> SUFFICES ASSUME IInv, CommandsOrdered, [Next]_vars
               PROVE  /\ cmd # NoTraj => cmd' # NoTraj /\ cmd' >= cmd
                      /\ setpoint' # setpoint => setpoint'.traj \in {NoTraj, cmd}
    OBVIOUS
  <2>1. cmd # NoTraj => cmd \in 1 .. MaxTraj
    BY DEF IInv, CP!IInv, CP!TypeOK
  <2>2. ASSUME cmd_q # <<>>, cmd' = Head(cmd_q)
        PROVE  cmd' # NoTraj /\ (cmd # NoTraj => cmd' >= cmd)
    <3>1. /\ cmd_q \in Seq(1 .. MaxTraj) /\ 1 \in 1 .. Len(cmd_q)
          /\ Head(cmd_q) \in 1 .. MaxTraj /\ Head(cmd_q) = cmd_q[1]
      <4>1. cmd_q \in Seq(1 .. MaxTraj)
        BY DEF IInv, CommandQueue
      <4>2. Head(cmd_q) \in 1 .. MaxTraj /\ Head(cmd_q) = cmd_q[1]
        BY ZenonT(30), <2>2, <4>1, Taken
      <4>3. 1 \in 1 .. Len(cmd_q)
        BY <2>2, <4>1
      <4> QED
        BY <4>1, <4>2, <4>3
    <3>2. cmd # NoTraj => cmd <= cmd_q[1]
      BY <3>1 DEF CommandsOrdered
    <3> QED
      BY <2>1, <2>2, <3>1, <3>2, ValuesAssumption, PlannerAssumption
  <2>3. cmd' = cmd \/ (cmd_q # <<>> /\ cmd' = Head(cmd_q))
    BY SteeredBy
  <2> QED
    BY <2>1, <2>2, <2>3, SteeredBy, PlannerAssumption
<1> QED
  BY <1>1, <1>2, CommandsOrderedStep, Invariance, PTL DEF Spec, FliesForward

===============================================================================
