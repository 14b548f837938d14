------------------------- MODULE EgoController_proofs -------------------------
(***************************************************************************)
(* Proofs about EgoController, for every set of positions and of            *)
(* trajectories.                                                            *)
(***************************************************************************)
EXTENDS EgoController, TLAPS

(***************************************************************************)
(* The inductive invariant: besides the safety properties, what the         *)
(* controller knows of the two pose sources and of its lock point.          *)
(***************************************************************************)

\* A pose source that delivered has delivered a position.
PosesKnown ==
  /\ have_odom => pos \in Cells /\ home \in Cells
  /\ have_mavros_pose => mavros_pos \in Cells

\* A lock point that is latched is a position.
LockKnown == hold_latched => hold_pos \in Cells

IInv ==
  /\ TypeOK
  /\ PosesKnown
  /\ LockKnown
  /\ MavrosLockTrusted
  /\ TrackableCommand
  /\ HoldTargetWasAPose

-------------------------------------------------------------------------------

\* A lock taken from the trusted pose source is a position, and the MAVROS frame is
\* only used once it was aligned.
LEMMA LatchStep ==
  ASSUME IInv, LatchHold
  PROVE  /\ hold_mavros' \in BOOLEAN /\ hold_latched' \in BOOLEAN
         /\ hold_pos' \in Positions
         /\ hold_latched' => hold_pos' \in Cells
         /\ hold_latched' /\ hold_mavros' => mavros_aligned
<1>1. hold_mavros' \in BOOLEAN /\ hold_latched' \in BOOLEAN
  BY DEF LatchHold, IInv, TypeOK, MavrosTrusted
<1>2. hold_pos' \in Positions /\ (hold_latched' => hold_pos' \in Cells)
  BY DEF LatchHold, LockPoint, MavrosTrusted, IInv, TypeOK, PosesKnown, MavrosLockTrusted, Positions
<1>3. hold_latched' /\ hold_mavros' => mavros_aligned
  BY DEF LatchHold, MavrosTrusted, IInv, MavrosLockTrusted
<1> QED
  BY <1>1, <1>2, <1>3

LEMMA InitInv == Init => IInv
<1> SUFFICES ASSUME Init PROVE IInv
  OBVIOUS
<1>1. TypeOK
  BY DEF Init, TypeOK, Positions, Modes, SetpointType, NoSetpoint
<1>2. PosesKnown /\ LockKnown /\ MavrosLockTrusted /\ TrackableCommand
  BY DEF Init, PosesKnown, LockKnown, MavrosLockTrusted, TrackableCommand
<1>3. HoldTargetWasAPose
  BY DEF Init, HoldTargetWasAPose, HoldKinds, NoSetpoint
<1> QED
  BY <1>1, <1>2, <1>3 DEF IInv

-------------------------------------------------------------------------------

LEMMA StepInv == IInv /\ [Next]_vars => IInv'
<1> SUFFICES ASSUME IInv, [Next]_vars PROVE IInv'
  OBVIOUS
<1> USE DEF IInv, pose_vars, cmd_vars, hold_vars
<1>1. CASE state_cb
  <2>1. TypeOK'
    BY <1>1 DEF TypeOK, Positions, Modes, state_cb
  <2>2. (PosesKnown /\ LockKnown /\ MavrosLockTrusted)'
    BY <1>1 DEF TypeOK, PosesKnown, LockKnown, MavrosLockTrusted, state_cb
  <2>3. (TrackableCommand /\ HoldTargetWasAPose)'
    BY <1>1 DEF TypeOK, TrackableCommand, HoldTargetWasAPose, state_cb
  <2> QED
    BY <2>1, <2>2, <2>3
<1>2. ASSUME NEW p \in Cells, NEW above \in BOOLEAN, position_cb(p, above) PROVE IInv'
  <2>0. /\ planner_cmd_enabled' \in BOOLEAN /\ receive' \in BOOLEAN
        /\ cmd' \in TrajIds \union {NoTraj}
        /\ cmd_age' \in {"never", "fresh", "stale"}
    BY <1>2 DEF position_cb, TypeOK
  <2>01. mavros_aligned' \in BOOLEAN /\ mavros_pose_consistent' \in BOOLEAN
    BY <1>2 DEF position_cb, TypeOK
  <2>02. pos' \in Positions /\ home' \in Positions /\ have_odom' \in BOOLEAN
    BY <1>2 DEF position_cb, TypeOK, Positions
  <2>1. TypeOK'
    BY <1>2, <2>0, <2>01, <2>02 DEF TypeOK, position_cb
  <2>2. (PosesKnown /\ LockKnown /\ MavrosLockTrusted)'
    BY <1>2 DEF TypeOK, PosesKnown, LockKnown, MavrosLockTrusted, position_cb
  <2>3. (TrackableCommand /\ HoldTargetWasAPose)'
    BY <1>2 DEF TypeOK, TrackableCommand, HoldTargetWasAPose, position_cb
  <2> QED
    BY <2>1, <2>2, <2>3
<1>3. ASSUME NEW p \in Cells, NEW finite \in BOOLEAN, NEW agrees \in BOOLEAN,
   mavros_pose_cb(p, finite, agrees) PROVE IInv'
  <2>0. /\ have_mavros_pose' \in BOOLEAN /\ mavros_aligned' \in BOOLEAN
        /\ mavros_pose_consistent' \in BOOLEAN
    BY <1>3 DEF mavros_pose_cb, Consistency
  <2>1. TypeOK'
    BY <1>3, <2>0 DEF TypeOK, Positions, mavros_pose_cb
  <2>2. (PosesKnown /\ LockKnown /\ MavrosLockTrusted)'
    BY <1>3 DEF TypeOK, PosesKnown, LockKnown, MavrosLockTrusted, mavros_pose_cb, Consistency
  <2>3. (TrackableCommand /\ HoldTargetWasAPose)'
    BY <1>3 DEF TypeOK, TrackableCommand, HoldTargetWasAPose, mavros_pose_cb, Consistency
  <2> QED
    BY <2>1, <2>2, <2>3
<1>4. ASSUME NEW traj \in TrajIds, twist_cb(traj) PROVE IInv'
  <2>1. TypeOK'
    BY <1>4 DEF TypeOK, Positions, Modes, twist_cb, CommandsAccepted, StoreCommand
  <2>2. (PosesKnown /\ LockKnown /\ MavrosLockTrusted)'
    BY <1>4 DEF TypeOK, PosesKnown, LockKnown, MavrosLockTrusted, twist_cb, CommandsAccepted,
       StoreCommand
  <2>3. (TrackableCommand /\ HoldTargetWasAPose)'
    BY <1>4 DEF TypeOK, TrackableCommand, HoldTargetWasAPose, twist_cb, CommandsAccepted,
       StoreCommand
  <2> QED
    BY <2>1, <2>2, <2>3
<1>5. ASSUME NEW active \in BOOLEAN, safety_hold_cb(active) PROVE IInv'
  <2>0. /\ hold_mavros' \in BOOLEAN /\ hold_latched' \in BOOLEAN
        /\ hold_pos' \in Positions
    <3>1. CASE LatchHold
      BY <3>1, LatchStep
    <3>2. CASE ~LatchHold
      BY <1>5, <3>2 DEF safety_hold_cb, TypeOK
    <3> QED
      BY <3>1, <3>2
  <2>1. TypeOK'
    BY ZenonT(30), <1>5, <2>0 DEF TypeOK, safety_hold_cb
  <2>2. (PosesKnown /\ LockKnown /\ MavrosLockTrusted)'
    BY <1>5, LatchStep DEF TypeOK, PosesKnown, LockKnown, MavrosLockTrusted, safety_hold_cb
  <2>3. (TrackableCommand /\ HoldTargetWasAPose)'
    BY <1>5 DEF TypeOK, TrackableCommand, HoldTargetWasAPose, safety_hold_cb
  <2> QED
    BY <2>1, <2>2, <2>3
<1>6. CASE landing_request_cb
  <2>0. /\ hold_mavros' \in BOOLEAN /\ hold_latched' \in BOOLEAN
        /\ hold_pos' \in Positions
    BY <1>6, LatchStep DEF landing_request_cb
  <2>1. TypeOK'
    BY <1>6, <2>0 DEF TypeOK, landing_request_cb
  <2>2. (PosesKnown /\ LockKnown /\ MavrosLockTrusted)'
    BY <1>6, LatchStep DEF TypeOK, PosesKnown, LockKnown, MavrosLockTrusted,
       landing_request_cb
  <2>3. (TrackableCommand /\ HoldTargetWasAPose)'
    BY <1>6 DEF TypeOK, TrackableCommand, HoldTargetWasAPose, landing_request_cb
  <2> QED
    BY <2>1, <2>2, <2>3
<1>7. CASE ControlTick
  <2> SUFFICES ASSUME NEW elapsed \in BOOLEAN, NEW accepted \in BOOLEAN, NEW armed \in BOOLEAN,
                      control(elapsed, accepted, armed)
               PROVE  IInv'
    BY <1>7 DEF ControlTick
  <2> USE DEF control
  <2>1. px4_mode' \in Modes
    BY DEF RequestLand, TypeOK, Modes
  <2>2. CASE UNCHANGED <<hold_vars, receive, setpoint>>
    <3>1. TypeOK'
      BY <2>1, <2>2 DEF TypeOK
    <3>2. (PosesKnown /\ LockKnown /\ MavrosLockTrusted)'
      BY <2>2 DEF PosesKnown, LockKnown, MavrosLockTrusted
    <3>3. (TrackableCommand /\ HoldTargetWasAPose)'
      BY <2>2 DEF TrackableCommand, HoldTargetWasAPose
    <3> QED
      BY <3>1, <3>2, <3>3
  <2>3. CASE PublishHold
    <3>1. /\ hold_mavros' \in BOOLEAN /\ hold_latched' \in BOOLEAN
          /\ hold_latched' /\ hold_mavros' => mavros_aligned
      BY <2>3 DEF PublishHold, LatchLate, MavrosTrusted, TypeOK, MavrosLockTrusted
    <3>2. hold_pos' \in Cells
      BY <2>3 DEF PublishHold, LatchLate, LockPoint, MavrosTrusted, TypeOK, PosesKnown, LockKnown
    <3>3. /\ setpoint' = HoldSetpoint(IF hold_mavros' THEN "hold_mavros" ELSE "hold_odom", hold_pos')
          /\ UNCHANGED <<safety_hold_active, receive>>
      BY <2>3 DEF PublishHold
    <3>4. setpoint' \in SetpointType
      BY <3>2, <3>3 DEF SetpointType, HoldSetpoint, HoldKinds, Positions
    <3>5. TypeOK'
      BY <2>1, <3>1, <3>2, <3>3, <3>4 DEF TypeOK, Positions
    <3>6. (PosesKnown /\ LockKnown /\ MavrosLockTrusted)'
      BY <3>1, <3>2 DEF PosesKnown, LockKnown, MavrosLockTrusted
    <3>7. (TrackableCommand /\ HoldTargetWasAPose)'
      BY <3>2, <3>3 DEF TrackableCommand, HoldTargetWasAPose, HoldSetpoint
    <3> QED
      BY <3>5, <3>6, <3>7
  <2>4. CASE PublishHome
    <3>1. setpoint' = HomeSetpoint /\ home \in Cells
      BY <2>4 DEF PublishHome, PosesKnown
    <3>2. setpoint' \in SetpointType
      BY <3>1 DEF HomeSetpoint, SetpointType, Positions
    <3>3. TypeOK'
      BY <2>1, <2>4, <3>2 DEF TypeOK, PublishHome
    <3>4. (PosesKnown /\ LockKnown /\ MavrosLockTrusted)'
      BY <2>4 DEF PublishHome, PosesKnown, LockKnown, MavrosLockTrusted
    <3>5. (TrackableCommand /\ HoldTargetWasAPose)'
      BY <2>4, <3>1 DEF PublishHome, TrackableCommand, HoldTargetWasAPose, HomeSetpoint
    <3> QED
      BY <3>3, <3>4, <3>5
  <2>5. CASE DropStaleCommand
    <3>1. TypeOK'
      BY ZenonT(30), <2>1, <2>5 DEF TypeOK, DropStaleCommand
    <3>2. (PosesKnown /\ LockKnown /\ MavrosLockTrusted)'
      BY <2>5 DEF DropStaleCommand, PosesKnown, LockKnown, MavrosLockTrusted
    <3>3. (TrackableCommand /\ HoldTargetWasAPose)'
      BY <2>5 DEF DropStaleCommand, TrackableCommand, HoldTargetWasAPose
    <3> QED
      BY <3>1, <3>2, <3>3
  <2>6. CASE receive /\ PublishTrack(armed)
    <3>1. setpoint' = TrackSetpoint(armed) /\ cmd \in TrajIds
      BY <2>6 DEF PublishTrack, TrackableCommand
    <3>2. setpoint' \in SetpointType
      BY <3>1 DEF TrackSetpoint, SetpointType
    <3>3. TypeOK'
      BY <2>1, <2>6, <3>2 DEF TypeOK, PublishTrack
    <3>4. (PosesKnown /\ LockKnown /\ MavrosLockTrusted)'
      BY <2>6 DEF PublishTrack, PosesKnown, LockKnown, MavrosLockTrusted
    <3>5. (TrackableCommand /\ HoldTargetWasAPose)'
      BY <2>6, <3>1 DEF PublishTrack, TrackableCommand, HoldTargetWasAPose, TrackSetpoint, HoldKinds
    <3> QED
      BY <3>3, <3>4, <3>5
  <2> QED
    BY <2>2, <2>3, <2>4, <2>5, <2>6 DEF Steer
<1>8. CASE CommandExpires
  <2>1. TypeOK'
    BY <1>8 DEF TypeOK, Positions, Modes, CommandExpires
  <2>2. (PosesKnown /\ LockKnown /\ MavrosLockTrusted)'
    BY <1>8 DEF TypeOK, PosesKnown, LockKnown, MavrosLockTrusted, CommandExpires
  <2>3. (TrackableCommand /\ HoldTargetWasAPose)'
    BY <1>8 DEF TypeOK, TrackableCommand, HoldTargetWasAPose, CommandExpires
  <2> QED
    BY <2>1, <2>2, <2>3
<1>9. ASSUME NEW m \in Modes, ModeChanges(m) PROVE IInv'
  <2>1. TypeOK'
    BY <1>9 DEF TypeOK, Positions, Modes, ModeChanges
  <2>2. (PosesKnown /\ LockKnown /\ MavrosLockTrusted)'
    BY <1>9 DEF TypeOK, PosesKnown, LockKnown, MavrosLockTrusted, ModeChanges
  <2>3. (TrackableCommand /\ HoldTargetWasAPose)'
    BY <1>9 DEF TypeOK, TrackableCommand, HoldTargetWasAPose, ModeChanges
  <2> QED
    BY <2>1, <2>2, <2>3
<1>10. CASE UNCHANGED vars
  <2>1. TypeOK'
    BY <1>10 DEF TypeOK, Positions, Modes, vars
  <2>2. (PosesKnown /\ LockKnown /\ MavrosLockTrusted)'
    BY <1>10 DEF TypeOK, PosesKnown, LockKnown, MavrosLockTrusted, vars
  <2>3. (TrackableCommand /\ HoldTargetWasAPose)'
    BY <1>10 DEF TypeOK, TrackableCommand, HoldTargetWasAPose, vars
  <2> QED
    BY <2>1, <2>2, <2>3
<1> QED
  BY <1>1, <1>2, <1>3, <1>4, <1>5, <1>6, <1>7, <1>8, <1>9, <1>10 DEF Next

THEOREM Invariance == Spec => []IInv
BY InitInv, StepInv, PTL DEF Spec

\* Every variable keeps its type.
THEOREM TypeCorrect == Spec => []TypeOK
<1>1. IInv => TypeOK
  BY DEF IInv
<1> QED
  BY <1>1, Invariance, PTL

\* A hold or a return to the take-off point steers to a position that some pose
\* callback delivered, never to the zeros of the constructor.
THEOREM HoldTargets == Spec => []HoldTargetWasAPose
<1>1. IInv => HoldTargetWasAPose
  BY DEF IInv
<1> QED
  BY <1>1, Invariance, PTL

\* A command that may be tracked was received after the height gate opened.
THEOREM TrackedCommands == Spec => []TrackableCommand
<1>1. IInv => TrackableCommand
  BY DEF IInv
<1> QED
  BY <1>1, Invariance, PTL

\* MAVROS poses are only trusted and locked after an alignment.
THEOREM MavrosTrust == Spec => []MavrosLockTrusted
<1>1. IInv => MavrosLockTrusted
  BY DEF IInv
<1> QED
  BY <1>1, Invariance, PTL

-------------------------------------------------------------------------------

\* Only three actions touch the lock point: a hold message keeps a latched one, the
\* control loop latches a missing one, and a landing request is the exception.
LEMMA HoldPointStep ==
  ASSUME IInv, [Next]_vars, safety_hold_active, safety_hold_active', hold_latched,
         landing_requested' = landing_requested
  PROVE  hold_latched' /\ UNCHANGED <<hold_mavros, hold_pos>>
<1> USE DEF pose_vars, cmd_vars, hold_vars
<1>1. ASSUME NEW active \in BOOLEAN, safety_hold_cb(active)
      PROVE  hold_latched' /\ UNCHANGED <<hold_mavros, hold_pos>>
  BY <1>1 DEF safety_hold_cb, EnteringHold
<1>2. ASSUME ~landing_requested /\ landing_request_cb PROVE FALSE
  BY <1>2 DEF landing_request_cb
<1>3. ASSUME ControlTick PROVE hold_latched' /\ UNCHANGED <<hold_mavros, hold_pos>>
  BY <1>3 DEF ControlTick, control, Steer, PublishHold, LatchLate, PublishHome,
              DropStaleCommand, PublishTrack
<1>4. ASSUME \/ state_cb
             \/ \E p \in Cells, above \in BOOLEAN : position_cb(p, above)
             \/ \E p \in Cells, finite, agrees \in BOOLEAN : mavros_pose_cb(p, finite, agrees)
             \/ \E traj \in TrajIds : twist_cb(traj)
             \/ CommandExpires
             \/ \E m \in Modes : ModeChanges(m)
             \/ UNCHANGED vars
      PROVE  hold_latched' /\ UNCHANGED <<hold_mavros, hold_pos>>
  BY <1>4 DEF state_cb, position_cb, mavros_pose_cb, twist_cb, CommandExpires, ModeChanges, vars
<1> QED
  BY <1>1, <1>2, <1>3, <1>4 DEF Next

\* The lock point of a hold stays where it is for as long as the hold lasts.
THEOREM HoldPoint == Spec => HoldPointFixed
<1>1. IInv /\ [Next]_vars
        => [safety_hold_active /\ safety_hold_active' /\ hold_latched
              /\ landing_requested' = landing_requested
              => hold_latched' /\ UNCHANGED <<hold_mavros, hold_pos>>]_vars
  BY HoldPointStep
<1> QED
  BY <1>1, Invariance, PTL DEF Spec, HoldPointFixed

===============================================================================
