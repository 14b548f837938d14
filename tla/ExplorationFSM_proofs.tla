------------------------ MODULE ExplorationFSM_proofs -------------------------
(***************************************************************************)
(* Proofs about ExplorationFSM, for every bound, confirmation time, check   *)
(* interval and timer jitter.                                               *)
(***************************************************************************)
EXTENDS ExplorationFSM, TLAPS

(***************************************************************************)
(* The inductive invariant.  The properties speak of what is published;     *)
(* what carries them from step to step is what each state of the machine    *)
(* knows of the planner's current trajectory, local_traj.                   *)
(***************************************************************************)

\* Before the trigger nothing was planned; a plan that passed, and a trajectory
\* that is executed, have ended the cool-down.
NoCooldown ==
  /\ state \in {"INIT", "WAIT_TRIGGER"} => static_state
  /\ state \in {"PUB_TRAJ", "EXEC_TRAJ"} => ~retry_pending

\* Identifiers are only handed out upwards, and a rejected one was handed out.
Identifiers ==
  /\ published.id <= local_traj
  /\ \A id \in rejected : 0 < id /\ id <= local_traj

\* The pending trajectory is newer than the published one and was not rejected.
Pending == state = "PUB_TRAJ" => published.id < local_traj /\ local_traj \notin rejected

\* The executed trajectory is the published one, and replanned from its own state.
Executed == state = "EXEC_TRAJ" => local_traj = published.id /\ ~static_state

\* The release evidence counts from its first safe check, and the second check is
\* due before the evidence is one check interval old.
Evidence ==
  state = "PUB_TRAJ" =>
    /\ safe_since # NotSet => safe_checks >= 1
    /\ safe_checks = 1 => safe_since + next_check <= CheckTicks

IInv ==
  /\ TypeOK
  /\ NoCooldown
  /\ Identifiers
  /\ Pending
  /\ Executed
  /\ Evidence
  /\ FailureCooldownIsHeld
  /\ NonStaticStartIsFlown
  /\ NeverPublishRejected
  /\ EscapeBelongsToTrajectory
  /\ DetectionGate

-------------------------------------------------------------------------------

LEMMA NotSetType == NotSet \in Int /\ NotSet < 0
BY DEF NotSet

\* The age of the evidence stays within the confirmation time, and the next check
\* is never planned in the past.
LEMMA EvidenceType ==
  ASSUME TypeOK, NEW elapsed \in 1 .. MaxJitter
  PROVE  /\ EvidenceAge(elapsed) \in NotSet .. ConfirmTicks
         /\ (IF CheckDue(elapsed) THEN CheckTicks ELSE next_check - elapsed) \in 0 .. CheckTicks
         /\ ChecksPassed(elapsed) \in Nat
<1>1. EvidenceAge(elapsed) \in NotSet .. ConfirmTicks
  BY NotSetType, ConstantsAssumption DEF TypeOK, EvidenceAge, AtMost
<1>2. ChecksPassed(elapsed) \in Nat
  BY DEF TypeOK, ChecksPassed
<1>3. (IF CheckDue(elapsed) THEN CheckTicks ELSE next_check - elapsed) \in 0 .. CheckTicks
  BY ConstantsAssumption DEF TypeOK, CheckDue
<1> QED
  BY <1>1, <1>2, <1>3

LEMMA InitInv == Init => IInv
<1> SUFFICES ASSUME Init PROVE IInv
  OBVIOUS
<1>1. TypeOK
  <2>1. safe_since \in NotSet .. ConfirmTicks /\ next_check \in 0 .. CheckTicks
    BY NotSetType, ConstantsAssumption DEF Init
  <2>2. published \in [id : TrajIds, start : {"planned", "now"}] /\ rejected \in SUBSET TrajIds
    BY ConstantsAssumption DEF Init, TrajIds
  <2> QED
    BY <2>1, <2>2, ConstantsAssumption DEF Init, TypeOK, EXPL_STATE, TrajIds
<1>2. NoCooldown /\ Pending /\ Executed /\ Evidence
  BY DEF Init, NoCooldown, Pending, Executed, Evidence
<1>3. Identifiers
  BY DEF Init, Identifiers
<1>4. FailureCooldownIsHeld /\ NonStaticStartIsFlown
  BY DEF Init, FailureCooldownIsHeld, NonStaticStartIsFlown
<1>5. NeverPublishRejected /\ EscapeBelongsToTrajectory
  BY DEF Init, NeverPublishRejected, EscapeBelongsToTrajectory
<1>6. DetectionGate
  <2>1. ~detection_enabled /\ ~first_traj_published
    BY DEF Init
  <2> QED
    BY <2>1 DEF DetectionGate
<1> QED
  BY <1>1, <1>2, <1>3, <1>4, <1>5, <1>6 DEF IInv

-------------------------------------------------------------------------------

LEMMA StepInv == IInv /\ [Next]_vars => IInv'
<1> SUFFICES ASSUME IInv, [Next]_vars PROVE IInv'
  OBVIOUS
<1> USE DEF IInv, plan_vars, release_vars, monitor_vars, detect_vars, task_vars, hist_vars
<1>1. ASSUME NEW lands \in BOOLEAN, odometryCallback(lands) PROVE IInv'
  <2>1. TypeOK'
    BY <1>1, ConstantsAssumption DEF TypeOK, EXPL_STATE, TrajIds, odometryCallback
  <2>2. (NoCooldown /\ Identifiers /\ Pending /\ Executed)'
    BY <1>1 DEF NoCooldown, Identifiers, Pending, Executed, NonStaticStartIsFlown, TypeOK,
       TrajIds, odometryCallback
  <2>3. (FailureCooldownIsHeld /\ NonStaticStartIsFlown)'
    BY <1>1 DEF NoCooldown, Pending, Executed, FailureCooldownIsHeld, NonStaticStartIsFlown,
       TypeOK, odometryCallback
  <2>4. (NeverPublishRejected /\ EscapeBelongsToTrajectory)'
    BY <1>1 DEF Identifiers, Pending, NeverPublishRejected, EscapeBelongsToTrajectory, TypeOK,
       TrajIds, odometryCallback
  <2>5. DetectionGate'
    BY <1>1 DEF DetectionGate, TypeOK, odometryCallback
  <2>6. Evidence'
    BY <1>1 DEF Evidence, odometryCallback
  <2> QED
    BY <2>1, <2>2, <2>3, <2>4, <2>5, <2>6
<1>2. CASE triggerCallback
  <2>1. TypeOK'
    BY <1>2, ConstantsAssumption DEF TypeOK, EXPL_STATE, TrajIds, triggerCallback
  <2>2. (NoCooldown /\ Identifiers /\ Pending /\ Executed)'
    BY <1>2 DEF NoCooldown, Identifiers, Pending, Executed, NonStaticStartIsFlown, TypeOK,
       TrajIds, triggerCallback
  <2>3. (FailureCooldownIsHeld /\ NonStaticStartIsFlown)'
    BY <1>2 DEF NoCooldown, Pending, Executed, FailureCooldownIsHeld, NonStaticStartIsFlown,
       TypeOK, triggerCallback
  <2>4. (NeverPublishRejected /\ EscapeBelongsToTrajectory)'
    BY <1>2 DEF Identifiers, Pending, NeverPublishRejected, EscapeBelongsToTrajectory, TypeOK,
       TrajIds, triggerCallback
  <2>5. DetectionGate'
    BY <1>2 DEF DetectionGate, TypeOK, triggerCallback
  <2>6. Evidence'
    BY <1>2 DEF Evidence, triggerCallback
  <2> QED
    BY <2>1, <2>2, <2>3, <2>4, <2>5, <2>6
<1>3. ASSUME NEW allows \in BOOLEAN, missionStatusCallback(allows) PROVE IInv'
  <2>1. TypeOK'
    BY <1>3, ConstantsAssumption DEF TypeOK, EXPL_STATE, TrajIds, missionStatusCallback
  <2>2. (NoCooldown /\ Identifiers /\ Pending /\ Executed)'
    BY <1>3 DEF NoCooldown, Identifiers, Pending, Executed, NonStaticStartIsFlown, TypeOK,
       TrajIds, missionStatusCallback
  <2>3. (FailureCooldownIsHeld /\ NonStaticStartIsFlown)'
    BY <1>3 DEF NoCooldown, Pending, Executed, FailureCooldownIsHeld, NonStaticStartIsFlown,
       TypeOK, missionStatusCallback
  <2>4. (NeverPublishRejected /\ EscapeBelongsToTrajectory)'
    BY <1>3 DEF Identifiers, Pending, NeverPublishRejected, EscapeBelongsToTrajectory, TypeOK,
       TrajIds, missionStatusCallback
  <2>5. DetectionGate'
    BY <1>3 DEF DetectionGate, TypeOK, missionStatusCallback
  <2>6. Evidence'
    BY <1>3 DEF Evidence, missionStatusCallback
  <2> QED
    BY <2>1, <2>2, <2>3, <2>4, <2>5, <2>6
<1>4. CASE InitDone
  <2>1. TypeOK'
    BY <1>4, ConstantsAssumption DEF TypeOK, EXPL_STATE, TrajIds, InitDone
  <2>2. (NoCooldown /\ Identifiers /\ Pending /\ Executed)'
    BY <1>4 DEF NoCooldown, Identifiers, Pending, Executed, NonStaticStartIsFlown, TypeOK,
       TrajIds, InitDone
  <2>3. (FailureCooldownIsHeld /\ NonStaticStartIsFlown)'
    BY <1>4 DEF NoCooldown, Pending, Executed, FailureCooldownIsHeld, NonStaticStartIsFlown,
       TypeOK, InitDone
  <2>4. (NeverPublishRejected /\ EscapeBelongsToTrajectory)'
    BY <1>4 DEF Identifiers, Pending, NeverPublishRejected, EscapeBelongsToTrajectory, TypeOK,
       TrajIds, InitDone
  <2>5. DetectionGate'
    BY <1>4 DEF DetectionGate, TypeOK, InitDone
  <2>6. Evidence'
    BY <1>4 DEF Evidence, InitDone
  <2> QED
    BY <2>1, <2>2, <2>3, <2>4, <2>5, <2>6
<1>5. CASE Finish
  <2>1. TypeOK'
    BY <1>5, ConstantsAssumption DEF TypeOK, EXPL_STATE, TrajIds, Finish
  <2>2. (NoCooldown /\ Identifiers /\ Pending /\ Executed)'
    BY <1>5 DEF NoCooldown, Identifiers, Pending, Executed, NonStaticStartIsFlown, TypeOK,
       TrajIds, Finish
  <2>3. (FailureCooldownIsHeld /\ NonStaticStartIsFlown)'
    BY <1>5 DEF NoCooldown, Pending, Executed, FailureCooldownIsHeld, NonStaticStartIsFlown,
       TypeOK, Finish
  <2>4. (NeverPublishRejected /\ EscapeBelongsToTrajectory)'
    BY <1>5 DEF Identifiers, Pending, NeverPublishRejected, EscapeBelongsToTrajectory, TypeOK,
       TrajIds, Finish
  <2>5. DetectionGate'
    BY <1>5 DEF DetectionGate, TypeOK, Finish
  <2>6. Evidence'
    BY <1>5 DEF Evidence, Finish
  <2> QED
    BY <2>1, <2>2, <2>3, <2>4, <2>5, <2>6
<1>6. ASSUME NEW reaches_qr \in BOOLEAN, PlanSucceeds(reaches_qr) PROVE IInv'
  <2>1. TypeOK'
    <3>1. safe_since' \in NotSet .. ConfirmTicks /\ next_check' \in 0 .. CheckTicks
      BY <1>6, NotSetType, ConstantsAssumption DEF PlanSucceeds, EvidenceCleared
    <3>2. local_traj' \in TrajIds
      BY <1>6, ConstantsAssumption DEF PlanSucceeds, NextTraj, TypeOK, TrajIds
    <3>3. approach_landing' \in BOOLEAN /\ landing_requested' \in BOOLEAN
      BY <1>6 DEF PlanSucceeds, StageAdvance, TypeOK
    <3> QED
      BY ZenonT(30), <1>6, <3>1, <3>2, <3>3
         DEF TypeOK, EXPL_STATE, PlanSucceeds, EvidenceCleared, HoldKept
  <2>2. (NoCooldown /\ Identifiers /\ Pending /\ Executed)'
    BY <1>6 DEF NoCooldown, Identifiers, Pending, Executed, NonStaticStartIsFlown, TypeOK,
       TrajIds, PlanSucceeds, StageAdvance, NextTraj, EvidenceCleared, HoldKept
  <2>3. (FailureCooldownIsHeld /\ NonStaticStartIsFlown)'
    BY <1>6 DEF NoCooldown, Pending, Executed, FailureCooldownIsHeld, NonStaticStartIsFlown,
       TypeOK, PlanSucceeds, StageAdvance, NextTraj, EvidenceCleared, HoldKept
  <2>4. (NeverPublishRejected /\ EscapeBelongsToTrajectory)'
    BY <1>6 DEF Identifiers, Pending, NeverPublishRejected, EscapeBelongsToTrajectory, TypeOK,
       TrajIds, PlanSucceeds, StageAdvance, NextTraj, EvidenceCleared, HoldKept
  <2>5. DetectionGate'
    BY <1>6 DEF DetectionGate, TypeOK, PlanSucceeds, StageAdvance, NextTraj, EvidenceCleared,
       HoldKept
  <2>6. Evidence'
    BY <1>6, NotSetType DEF Evidence, PlanSucceeds, EvidenceCleared
  <2> QED
    BY <2>1, <2>2, <2>3, <2>4, <2>5, <2>6
<1>7. ASSUME NEW reaches_qr \in BOOLEAN, PlanExhausted(reaches_qr) PROVE IInv'
  <2>1. TypeOK'
    BY <1>7, ConstantsAssumption DEF TypeOK, EXPL_STATE, TrajIds, PlanExhausted, PlannerStopped,
       StageAdvance
  <2>2. (NoCooldown /\ Identifiers /\ Pending /\ Executed)'
    BY <1>7 DEF NoCooldown, Identifiers, Pending, Executed, NonStaticStartIsFlown, TypeOK,
       TrajIds, PlanExhausted, PlannerStopped, StageAdvance
  <2>3. (FailureCooldownIsHeld /\ NonStaticStartIsFlown)'
    BY <1>7 DEF NoCooldown, Pending, Executed, FailureCooldownIsHeld, NonStaticStartIsFlown,
       TypeOK, PlanExhausted, PlannerStopped, StageAdvance
  <2>4. (NeverPublishRejected /\ EscapeBelongsToTrajectory)'
    BY <1>7 DEF Identifiers, Pending, NeverPublishRejected, EscapeBelongsToTrajectory, TypeOK,
       TrajIds, PlanExhausted, PlannerStopped, StageAdvance
  <2>5. DetectionGate'
    BY <1>7 DEF DetectionGate, TypeOK, PlanExhausted, PlannerStopped, StageAdvance
  <2>6. Evidence'
    BY <1>7 DEF Evidence, PlanExhausted
  <2> QED
    BY <2>1, <2>2, <2>3, <2>4, <2>5, <2>6
<1>8. ASSUME NEW reaches_qr \in BOOLEAN, NEW replaced \in BOOLEAN, PlanFails(reaches_qr,
   replaced) PROVE IInv'
  <2>1. TypeOK'
    BY <1>8, ConstantsAssumption DEF TypeOK, EXPL_STATE, TrajIds, PlanFails, StageAdvance,
       BackOff
  <2>2. (NoCooldown /\ Identifiers /\ Pending /\ Executed)'
    BY <1>8 DEF NoCooldown, Identifiers, Pending, Executed, NonStaticStartIsFlown, TypeOK,
       TrajIds, PlanFails, StageAdvance, BackOff
  <2>3. (FailureCooldownIsHeld /\ NonStaticStartIsFlown)'
    BY <1>8 DEF NoCooldown, Pending, Executed, FailureCooldownIsHeld, NonStaticStartIsFlown,
       TypeOK, PlanFails, StageAdvance, BackOff
  <2>4. (NeverPublishRejected /\ EscapeBelongsToTrajectory)'
    BY <1>8 DEF Identifiers, Pending, NeverPublishRejected, EscapeBelongsToTrajectory, TypeOK,
       TrajIds, PlanFails, StageAdvance, BackOff
  <2>5. DetectionGate'
    BY <1>8 DEF DetectionGate, TypeOK, PlanFails, StageAdvance, BackOff
  <2>6. Evidence'
    BY <1>8 DEF Evidence, PlanFails
  <2> QED
    BY <2>1, <2>2, <2>3, <2>4, <2>5, <2>6
<1>9. ASSUME NEW elapsed \in 1 .. MaxJitter, NEW r \in ReleaseReading, RejectRelease(elapsed, r)
   PROVE IInv'
  <2>1. TypeOK'
    BY <1>9, NotSetType, ConstantsAssumption DEF TypeOK, EXPL_STATE, TrajIds, RejectRelease,
       BackOff
  <2>2. (NoCooldown /\ Identifiers /\ Pending /\ Executed)'
    BY <1>9 DEF NoCooldown, Identifiers, Pending, Executed, NonStaticStartIsFlown, TypeOK,
       TrajIds, RejectRelease, BackOff
  <2>3. (FailureCooldownIsHeld /\ NonStaticStartIsFlown)'
    BY <1>9 DEF NoCooldown, Pending, Executed, FailureCooldownIsHeld, NonStaticStartIsFlown,
       TypeOK, RejectRelease, BackOff
  <2>4. (NeverPublishRejected /\ EscapeBelongsToTrajectory)'
    BY <1>9 DEF Identifiers, Pending, NeverPublishRejected, EscapeBelongsToTrajectory, TypeOK,
       TrajIds, RejectRelease, BackOff
  <2>5. DetectionGate'
    BY <1>9 DEF DetectionGate, TypeOK, RejectRelease, BackOff
  <2>6. Evidence'
    BY <1>9 DEF Evidence, RejectRelease
  <2> QED
    BY <2>1, <2>2, <2>3, <2>4, <2>5, <2>6
<1>10. ASSUME NEW elapsed \in 1 .. MaxJitter, NEW r \in ReleaseReading, AwaitRelease(elapsed, r)
   PROVE IInv'
  <2>1. TypeOK'
    BY <1>10, EvidenceType, ConstantsAssumption DEF TypeOK, EXPL_STATE, TrajIds, AwaitRelease
  <2>2. (NoCooldown /\ Identifiers /\ Pending /\ Executed)'
    BY <1>10 DEF NoCooldown, Identifiers, Pending, Executed, NonStaticStartIsFlown, TypeOK,
       TrajIds, AwaitRelease
  <2>3. (FailureCooldownIsHeld /\ NonStaticStartIsFlown)'
    BY <1>10 DEF NoCooldown, Pending, Executed, FailureCooldownIsHeld, NonStaticStartIsFlown,
       TypeOK, AwaitRelease
  <2>4. (NeverPublishRejected /\ EscapeBelongsToTrajectory)'
    BY <1>10 DEF Identifiers, Pending, NeverPublishRejected, EscapeBelongsToTrajectory, TypeOK,
       TrajIds, AwaitRelease
  <2>5. DetectionGate'
    BY <1>10 DEF DetectionGate, TypeOK, AwaitRelease
  <2>6. Evidence'
    <3>1. safe_since \in NotSet .. ConfirmTicks /\ safe_checks \in Nat /\ next_check \in Int
      BY DEF TypeOK
    <3>2. state = "PUB_TRAJ" /\ safe_since' = EvidenceAge(elapsed)
          /\ safe_checks' = ChecksPassed(elapsed)
          /\ next_check' = (IF CheckDue(elapsed) THEN CheckTicks ELSE next_check - elapsed)
      BY <1>10 DEF AwaitRelease
    <3>3. CASE CheckDue(elapsed)
      BY <3>1, <3>2, <3>3, NotSetType, ConstantsAssumption
         DEF Evidence, EvidenceAge, AtMost, ChecksPassed
    <3>4. CASE ~CheckDue(elapsed)
      BY <3>1, <3>2, <3>4, NotSetType, ConstantsAssumption
         DEF Evidence, EvidenceAge, AtMost, ChecksPassed
    <3> QED
      BY <3>3, <3>4
  <2> QED
    BY <2>1, <2>2, <2>3, <2>4, <2>5, <2>6
<1>11. ASSUME NEW elapsed \in 1 .. MaxJitter, NEW r \in ReleaseReading, Release(elapsed, r)
   PROVE IInv'
  <2>1. TypeOK'
    BY <1>11, EvidenceType, ConstantsAssumption DEF TypeOK, EXPL_STATE, TrajIds, Release,
       ReleaseReading, StartOnRelease, EscapeOnRelease, DetectionOnRelease
  <2>2. (NoCooldown /\ Identifiers /\ Pending /\ Executed)'
    BY <1>11 DEF NoCooldown, Identifiers, Pending, Executed, NonStaticStartIsFlown, TypeOK,
       TrajIds, Release, ReleaseReading, StartOnRelease, EscapeOnRelease, DetectionOnRelease
  <2>3. (FailureCooldownIsHeld /\ NonStaticStartIsFlown)'
    BY <1>11 DEF NoCooldown, Pending, Executed, FailureCooldownIsHeld, NonStaticStartIsFlown,
       TypeOK, Release, ReleaseReading, StartOnRelease, EscapeOnRelease, DetectionOnRelease
  <2>4. (NeverPublishRejected /\ EscapeBelongsToTrajectory)'
    BY <1>11 DEF Identifiers, Pending, NeverPublishRejected, EscapeBelongsToTrajectory, TypeOK,
       TrajIds, Release, ReleaseReading, StartOnRelease, EscapeOnRelease, DetectionOnRelease
  <2>5. DetectionGate'
    BY <1>11 DEF DetectionGate, TypeOK, Release, ReleaseReading, StartOnRelease,
       EscapeOnRelease, DetectionOnRelease
  <2>6. Evidence'
    BY <1>11 DEF Evidence, Release
  <2> QED
    BY <2>1, <2>2, <2>3, <2>4, <2>5, <2>6
<1>12. CASE ExecReplan
  <2>1. TypeOK'
    BY <1>12, ConstantsAssumption DEF TypeOK, EXPL_STATE, TrajIds, ExecReplan
  <2>2. (NoCooldown /\ Identifiers /\ Pending /\ Executed)'
    BY <1>12 DEF NoCooldown, Identifiers, Pending, Executed, NonStaticStartIsFlown, TypeOK,
       TrajIds, ExecReplan
  <2>3. (FailureCooldownIsHeld /\ NonStaticStartIsFlown)'
    BY <1>12 DEF NoCooldown, Pending, Executed, FailureCooldownIsHeld, NonStaticStartIsFlown,
       TypeOK, ExecReplan
  <2>4. (NeverPublishRejected /\ EscapeBelongsToTrajectory)'
    BY <1>12 DEF Identifiers, Pending, NeverPublishRejected, EscapeBelongsToTrajectory, TypeOK,
       TrajIds, ExecReplan
  <2>5. DetectionGate'
    BY <1>12 DEF DetectionGate, TypeOK, ExecReplan
  <2>6. Evidence'
    BY <1>12 DEF Evidence, ExecReplan
  <2> QED
    BY <2>1, <2>2, <2>3, <2>4, <2>5, <2>6
<1>13. ASSUME NEW r \in SafetyReading, TrackingReplan(r) PROVE IInv'
  <2>1. TypeOK'
    <3>1. safety_hold_active' \in BOOLEAN
      BY <1>13 DEF TrackingReplan
    <3> QED
      BY ZenonT(30), <1>13, <3>1 DEF TypeOK, EXPL_STATE, TrackingReplan
  <2>2. (NoCooldown /\ Identifiers /\ Pending /\ Executed)'
    BY <1>13 DEF NoCooldown, Identifiers, Pending, Executed, NonStaticStartIsFlown, TypeOK,
       TrajIds, TrackingReplan, SafetyReading
  <2>3. (FailureCooldownIsHeld /\ NonStaticStartIsFlown)'
    BY <1>13 DEF NoCooldown, Pending, Executed, FailureCooldownIsHeld, NonStaticStartIsFlown,
       TypeOK, TrackingReplan, SafetyReading
  <2>4. (NeverPublishRejected /\ EscapeBelongsToTrajectory)'
    BY <1>13 DEF Identifiers, Pending, NeverPublishRejected, EscapeBelongsToTrajectory, TypeOK,
       TrajIds, TrackingReplan, SafetyReading
  <2>5. DetectionGate'
    BY <1>13 DEF DetectionGate, TypeOK, TrackingReplan, SafetyReading
  <2>6. Evidence'
    BY <1>13 DEF Evidence, TrackingReplan
  <2> QED
    BY <2>1, <2>2, <2>3, <2>4, <2>5, <2>6
<1>14. ASSUME NEW r \in SafetyReading, EscapeFailed(r) PROVE IInv'
  <2>1. TypeOK'
    <3>1. tracking_error_since' \in BOOLEAN
      BY <1>14 DEF EscapeFailed
    <3> QED
      BY ZenonT(30), <1>14, <3>1 DEF TypeOK, EXPL_STATE, EscapeFailed
  <2>2. (NoCooldown /\ Identifiers /\ Pending /\ Executed)'
    BY <1>14 DEF NoCooldown, Identifiers, Pending, Executed, NonStaticStartIsFlown, TypeOK,
       TrajIds, EscapeFailed, SafetyReading
  <2>3. (FailureCooldownIsHeld /\ NonStaticStartIsFlown)'
    BY <1>14 DEF NoCooldown, Pending, Executed, FailureCooldownIsHeld, NonStaticStartIsFlown,
       TypeOK, EscapeFailed, SafetyReading
  <2>4. (NeverPublishRejected /\ EscapeBelongsToTrajectory)'
    BY <1>14 DEF Identifiers, Pending, NeverPublishRejected, EscapeBelongsToTrajectory, TypeOK,
       TrajIds, EscapeFailed, SafetyReading
  <2>5. DetectionGate'
    BY <1>14 DEF DetectionGate, TypeOK, EscapeFailed, SafetyReading
  <2>6. Evidence'
    BY <1>14 DEF Evidence, EscapeFailed
  <2> QED
    BY <2>1, <2>2, <2>3, <2>4, <2>5, <2>6
<1>15. ASSUME NEW r \in SafetyReading, Monitor(r) PROVE IInv'
  <2>1. TypeOK'
    <3>1. tracking_error_since' \in BOOLEAN
      BY <1>15 DEF Monitor
    <3>2. inflation_escape_active' \in BOOLEAN /\ escape_clear_since' \in BOOLEAN
      BY <1>15 DEF Monitor, EscapeUpdate, TypeOK
    <3>3. state' \in EXPL_STATE /\ safety_hold_active' \in BOOLEAN
      BY <1>15 DEF Monitor, TypeOK, EXPL_STATE
    <3> QED
      BY <1>15, <3>1, <3>2, <3>3 DEF TypeOK, Monitor
  <2>2. (NoCooldown /\ Identifiers /\ Pending /\ Executed)'
    BY <1>15 DEF NoCooldown, Identifiers, Pending, Executed, NonStaticStartIsFlown, TypeOK,
       TrajIds, Monitor, EscapeUpdate, SafetyReading
  <2>3. (FailureCooldownIsHeld /\ NonStaticStartIsFlown)'
    BY <1>15 DEF NoCooldown, Pending, Executed, FailureCooldownIsHeld, NonStaticStartIsFlown,
       TypeOK, Monitor, EscapeUpdate, SafetyReading
  <2>4. (NeverPublishRejected /\ EscapeBelongsToTrajectory)'
    BY <1>15 DEF Identifiers, Pending, NeverPublishRejected, EscapeBelongsToTrajectory, TypeOK,
       TrajIds, Monitor, EscapeUpdate, SafetyReading
  <2>5. DetectionGate'
    BY <1>15 DEF DetectionGate, TypeOK, Monitor, EscapeUpdate, SafetyReading
  <2>6. Evidence'
    BY <1>15 DEF Evidence, Monitor
  <2> QED
    BY <2>1, <2>2, <2>3, <2>4, <2>5, <2>6
<1>16. CASE UNCHANGED vars
  <2>1. TypeOK'
    BY <1>16, ConstantsAssumption DEF TypeOK, EXPL_STATE, TrajIds, vars
  <2>2. (NoCooldown /\ Identifiers /\ Pending /\ Executed)'
    BY <1>16 DEF NoCooldown, Identifiers, Pending, Executed, NonStaticStartIsFlown, TypeOK,
       TrajIds, vars
  <2>3. (FailureCooldownIsHeld /\ NonStaticStartIsFlown)'
    BY <1>16 DEF NoCooldown, Pending, Executed, FailureCooldownIsHeld, NonStaticStartIsFlown,
       TypeOK, vars
  <2>4. (NeverPublishRejected /\ EscapeBelongsToTrajectory)'
    BY <1>16 DEF Identifiers, Pending, NeverPublishRejected, EscapeBelongsToTrajectory, TypeOK,
       TrajIds, vars
  <2>5. DetectionGate'
    BY <1>16 DEF DetectionGate, TypeOK, vars
  <2>6. Evidence'
    BY <1>16 DEF Evidence, vars
  <2> QED
    BY <2>1, <2>2, <2>3, <2>4, <2>5, <2>6
<1> QED
  BY <1>1, <1>2, <1>3, <1>4, <1>5, <1>6, <1>7, <1>8, <1>9, <1>10, <1>11, <1>12, <1>13,
     <1>14, <1>15, <1>16
     DEF Next, FSMCallback, PlanTraj, PubTraj, safetyCallback

THEOREM Invariance == Spec => []IInv
BY InitInv, StepInv, PTL DEF Spec

\* Every variable keeps its type: in particular the age of the release evidence
\* never exceeds the confirmation time the code compares it with.
THEOREM TypeCorrect == Spec => []TypeOK
<1>1. IInv => TypeOK
  BY DEF IInv
<1> QED
  BY <1>1, Invariance, PTL

\* During the cool-down after a failed plan or a failed release validation the
\* vehicle is held and the next plan starts from odometry.
THEOREM CooldownHeld == Spec => []FailureCooldownIsHeld
<1>1. IInv => FailureCooldownIsHeld
  BY DEF IInv
<1> QED
  BY <1>1, Invariance, PTL

\* A replan that extrapolates the planner's trajectory extrapolates the one the
\* vehicle was given.
THEOREM ReplanFromFlown == Spec => []NonStaticStartIsFlown
<1>1. IInv => NonStaticStartIsFlown
  BY DEF IInv
<1> QED
  BY <1>1, Invariance, PTL

\* No trajectory that failed a check is ever the published one.
THEOREM RejectedUnpublished == Spec => []NeverPublishRejected
<1>1. IInv => NeverPublishRejected
  BY DEF IInv
<1> QED
  BY <1>1, Invariance, PTL

\* The relaxed rule of an inflation escape only ever applies to the trajectory that
\* was validated as one.
THEOREM EscapeScoped == Spec => []EscapeBelongsToTrajectory
<1>1. IInv => EscapeBelongsToTrajectory
  BY DEF IInv
<1> QED
  BY <1>1, Invariance, PTL

\* Dynamic detection runs exactly inside the corridor and after a first trajectory.
THEOREM DetectionGated == Spec => []DetectionGate
<1>1. IInv => DetectionGate
  BY DEF IInv
<1> QED
  BY <1>1, Invariance, PTL

-------------------------------------------------------------------------------

\* Of all steps only Release lowers the hold, and what it publishes is newer than
\* the last bspline because the pending trajectory is.
LEMMA HoldStep ==
  ASSUME IInv, [Next]_vars, safety_hold_active, ~safety_hold_active'
  PROVE  published'.id > published.id /\ published'.start = "now"
<1> USE DEF plan_vars, release_vars, monitor_vars, detect_vars, task_vars, hist_vars
<1>1. ASSUME NEW elapsed \in 1 .. MaxJitter, NEW r \in ReleaseReading, Release(elapsed, r)
      PROVE  published'.id > published.id /\ published'.start = "now"
  <2>1. published' = [id |-> local_traj, start |-> "now"]
    BY <1>1 DEF Release, StartOnRelease
  <2>2. published.id < local_traj
    BY <1>1 DEF Release, IInv, Pending
  <2>3. published.id \in Int /\ local_traj \in Int
    BY ConstantsAssumption DEF IInv, TypeOK, TrajIds
  <2> QED
    BY <2>1, <2>2, <2>3
<1>2. ASSUME NEW lands \in BOOLEAN, odometryCallback(lands) PROVE FALSE
  BY <1>2 DEF odometryCallback
<1>3. ASSUME NEW allows \in BOOLEAN, missionStatusCallback(allows) PROVE FALSE
  BY <1>3 DEF missionStatusCallback
<1>4. ASSUME triggerCallback \/ InitDone \/ Finish \/ ExecReplan \/ UNCHANGED vars PROVE FALSE
  BY <1>4 DEF triggerCallback, InitDone, Finish, ExecReplan, vars
<1>5. ASSUME NEW reaches_qr \in BOOLEAN, PlanSucceeds(reaches_qr) PROVE FALSE
  BY <1>5 DEF PlanSucceeds, HoldKept
<1>6. ASSUME NEW reaches_qr \in BOOLEAN, PlanExhausted(reaches_qr) PROVE FALSE
  BY <1>6 DEF PlanExhausted
<1>7. ASSUME NEW reaches_qr \in BOOLEAN, NEW replaced \in BOOLEAN,
             PlanFails(reaches_qr, replaced)
      PROVE  FALSE
  BY <1>7 DEF PlanFails, BackOff
<1>8. ASSUME NEW elapsed \in 1 .. MaxJitter, NEW r \in ReleaseReading,
             RejectRelease(elapsed, r) \/ AwaitRelease(elapsed, r)
      PROVE  FALSE
  BY <1>8 DEF RejectRelease, BackOff, AwaitRelease
<1>9. ASSUME NEW r \in SafetyReading, TrackingReplan(r) PROVE FALSE
  BY <1>9 DEF TrackingReplan
<1>10. ASSUME NEW r \in SafetyReading, EscapeFailed(r) \/ Monitor(r) PROVE FALSE
  BY <1>10 DEF EscapeFailed, Monitor
<1> QED
  BY <1>1, <1>2, <1>3, <1>4, <1>5, <1>6, <1>7, <1>8, <1>9, <1>10
     DEF Next, FSMCallback, PlanTraj, PubTraj, safetyCallback

\* The safety hold is only released together with a newer trajectory that starts
\* at the moment of release.
THEOREM HoldRelease == Spec => HoldReleasedByNewTrajectory
<1>1. IInv /\ [Next]_vars
        => [safety_hold_active /\ ~safety_hold_active' =>
              published'.id > published.id /\ published'.start = "now"]_vars
  BY HoldStep
<1> QED
  BY <1>1, Invariance, PTL DEF Spec, HoldReleasedByNewTrajectory

-------------------------------------------------------------------------------

\* Of all steps only Release publishes, and when it does the evidence has grown from
\* its first safe check to the confirmation time: a second check fell due on the way.
LEMMA ReleaseStep ==
  ASSUME IInv, [Next]_vars, published' # published
  PROVE  next_check' > 0 /\ (ConfirmTicks >= CheckTicks => safe_checks' >= 2)
<1> USE DEF plan_vars, release_vars, monitor_vars, detect_vars, task_vars, hist_vars
<1>1. ASSUME NEW elapsed \in 1 .. MaxJitter, NEW r \in ReleaseReading, Release(elapsed, r)
      PROVE  next_check' > 0 /\ (ConfirmTicks >= CheckTicks => safe_checks' >= 2)
  <2>1. /\ safe_since \in NotSet .. ConfirmTicks
        /\ safe_checks \in Nat
        /\ next_check \in 0 .. CheckTicks
        /\ elapsed \in Nat
    BY ConstantsAssumption DEF IInv, TypeOK
  <2>2. /\ EvidenceAge(elapsed) >= ConfirmTicks
        /\ safe_checks' = ChecksPassed(elapsed)
        /\ next_check' = (IF CheckDue(elapsed) THEN CheckTicks ELSE next_check - elapsed)
    BY <1>1 DEF Release
  <2>3. /\ safe_since # NotSet => safe_checks >= 1
        /\ safe_checks = 1 => safe_since + next_check <= CheckTicks
    BY <1>1 DEF Release, IInv, Evidence
  <2>4. next_check' > 0
    BY <2>1, <2>2, ConstantsAssumption DEF CheckDue
  <2>5. ASSUME ConfirmTicks >= CheckTicks PROVE safe_checks' >= 2
    <3>1. safe_since # NotSet /\ safe_since + elapsed >= ConfirmTicks
      BY <2>1, <2>2, <2>5, NotSetType, ConstantsAssumption DEF EvidenceAge, AtMost
    <3>2. safe_checks = 1 => CheckDue(elapsed)
      BY <2>1, <2>3, <2>5, <3>1, NotSetType, ConstantsAssumption DEF CheckDue
    <3> QED
      BY <2>1, <2>2, <2>3, <3>1, <3>2 DEF ChecksPassed
  <2> QED
    BY <2>4, <2>5
<1>2. ASSUME NEW lands \in BOOLEAN, odometryCallback(lands) PROVE FALSE
  BY <1>2 DEF odometryCallback
<1>3. ASSUME NEW allows \in BOOLEAN, missionStatusCallback(allows) PROVE FALSE
  BY <1>3 DEF missionStatusCallback
<1>4. ASSUME triggerCallback \/ InitDone \/ Finish \/ ExecReplan \/ UNCHANGED vars PROVE FALSE
  BY <1>4 DEF triggerCallback, InitDone, Finish, ExecReplan, vars
<1>5. ASSUME PlanTraj PROVE FALSE
  BY <1>5 DEF PlanTraj, PlanSucceeds, PlanExhausted, PlanFails
<1>6. ASSUME NEW elapsed \in 1 .. MaxJitter, NEW r \in ReleaseReading,
             RejectRelease(elapsed, r) \/ AwaitRelease(elapsed, r)
      PROVE  FALSE
  BY <1>6 DEF RejectRelease, AwaitRelease
<1>7. ASSUME safetyCallback PROVE FALSE
  BY <1>7 DEF safetyCallback, TrackingReplan, EscapeFailed, Monitor
<1> QED
  BY <1>1, <1>2, <1>3, <1>4, <1>5, <1>6, <1>7 DEF Next, FSMCallback, PubTraj

\* For every confirmation time, check interval and timer jitter: the last check of
\* a released trajectory is younger than the interval, and at least two were safe.
THEOREM ReleaseOnEvidence == Spec => ReleaseEvidence
<1>1. IInv /\ [Next]_vars
        => [published' # published =>
              /\ next_check' > 0
              /\ ConfirmTicks >= CheckTicks => safe_checks' >= 2]_vars
  BY ReleaseStep
<1> QED
  BY <1>1, Invariance, PTL DEF Spec, ReleaseEvidence

-------------------------------------------------------------------------------

\* After a landing request the planner only ever answers that there is nothing left.
LEMMA LandingStep ==
  ASSUME IInv, Next, landing_requested
  PROVE  /\ landing_requested' /\ UNCHANGED local_traj
         /\ published' # published => published.id < local_traj /\ published'.id = local_traj
         /\ state = "FINISH" /\ safety_hold_active => state' = "FINISH" /\ safety_hold_active'
<1> USE DEF plan_vars, release_vars, monitor_vars, detect_vars, task_vars, hist_vars
<1> DEFINE Kept == /\ landing_requested' /\ UNCHANGED local_traj
                   /\ UNCHANGED published
                   /\ state = "FINISH" /\ safety_hold_active
                        => state' = "FINISH" /\ safety_hold_active'
<1>1. ASSUME NEW elapsed \in 1 .. MaxJitter, NEW r \in ReleaseReading, Release(elapsed, r)
      PROVE  /\ landing_requested' /\ UNCHANGED local_traj
             /\ published.id < local_traj /\ published'.id = local_traj
             /\ state # "FINISH"
  BY <1>1 DEF Release, StartOnRelease, IInv, Pending
<1>2. ASSUME NEW lands \in BOOLEAN, odometryCallback(lands) PROVE Kept
  BY <1>2 DEF odometryCallback
<1>3. ASSUME NEW allows \in BOOLEAN, missionStatusCallback(allows) PROVE Kept
  BY <1>3 DEF missionStatusCallback
<1>4. ASSUME triggerCallback \/ InitDone \/ Finish \/ ExecReplan PROVE Kept
  BY <1>4 DEF triggerCallback, InitDone, Finish, ExecReplan
<1>5. ASSUME PlanTraj PROVE Kept
  BY <1>5 DEF PlanTraj, PlanSucceeds, PlanExhausted, PlanFails, PlannerStopped
<1>6. ASSUME NEW elapsed \in 1 .. MaxJitter, NEW r \in ReleaseReading,
             RejectRelease(elapsed, r) \/ AwaitRelease(elapsed, r)
      PROVE  Kept
  BY <1>6 DEF RejectRelease, AwaitRelease
<1>7. ASSUME NEW r \in SafetyReading, TrackingReplan(r) \/ EscapeFailed(r) \/ Monitor(r)
      PROVE  Kept
  BY <1>7 DEF TrackingReplan, EscapeFailed, Monitor
<1> HIDE DEF Kept
<1>8. (\E elapsed \in 1 .. MaxJitter, r \in ReleaseReading : Release(elapsed, r)) \/ Kept
  BY <1>2, <1>3, <1>4, <1>5, <1>6, <1>7 DEF Next, FSMCallback, PubTraj, safetyCallback
<1> QED
  BY <1>1, <1>8 DEF Kept

\* planExploreMotion after a landing request: the trajectory whose release was pending is
\* the last one ever published.
THEOREM LastTrajectory == Spec => PendingIsLast
<1>1. IInv /\ [Next]_vars
        => [landing_requested =>
              /\ UNCHANGED local_traj
              /\ published' # published
                   => published.id < local_traj /\ published'.id = local_traj]_vars
  BY LandingStep
<1> QED
  BY <1>1, Invariance, PTL DEF Spec, PendingIsLast

\* An exploration that is over after a landing request stays over, and held: with the
\* progress that is model-checked, the landing ends it for good.
THEOREM StaysOver == Spec => OverForGood
<1>1. IInv /\ [Next]_vars
        => [landing_requested /\ state = "FINISH" /\ safety_hold_active
              => landing_requested' /\ state' = "FINISH" /\ safety_hold_active']_vars
  BY LandingStep
<1> QED
  BY <1>1, Invariance, PTL DEF Spec, OverForGood

-------------------------------------------------------------------------------
(* The state machine implements TrajectoryRelease.                          *)

LEMMA PromiseInit == Init => Promise!Init
BY DEF Init, Promise!Init

LEMMA PlanPromise == IInv /\ PlanTraj => [Promise!Next]_Promise!vars
<1> SUFFICES ASSUME IInv, PlanTraj PROVE [Promise!Next]_Promise!vars
  OBVIOUS
<1> USE DEF plan_vars, release_vars, monitor_vars, detect_vars, task_vars, hist_vars
<1>1. ASSUME NEW reaches_qr \in BOOLEAN, PlanSucceeds(reaches_qr) PROVE Promise!Plan
  BY <1>1 DEF PlanSucceeds, PlannerStopped, StageAdvance, NextTraj, HoldKept, Promise!Plan
<1>2. ASSUME NEW reaches_qr \in BOOLEAN, PlanExhausted(reaches_qr) PROVE UNCHANGED Promise!vars
  BY <1>2 DEF PlanExhausted, StageAdvance, Promise!vars
<1>3. ASSUME NEW reaches_qr \in BOOLEAN, PlanFails(reaches_qr, TRUE) PROVE Promise!PlanRefused
  BY <1>3 DEF PlanFails, PlannerStopped, StageAdvance, BackOff, Promise!PlanRefused
<1>4. ASSUME NEW reaches_qr \in BOOLEAN, PlanFails(reaches_qr, FALSE) PROVE Promise!Hold
  BY <1>4 DEF PlanFails, StageAdvance, BackOff, Promise!Hold
<1> QED
  BY <1>1, <1>2, <1>3, <1>4 DEF PlanTraj, Promise!Next

LEMMA PubPromise == IInv /\ PubTraj => [Promise!Next]_Promise!vars
<1> SUFFICES ASSUME IInv, NEW elapsed \in 1 .. MaxJitter, NEW r \in ReleaseReading,
                    \/ RejectRelease(elapsed, r) \/ AwaitRelease(elapsed, r)
                    \/ Release(elapsed, r)
             PROVE  [Promise!Next]_Promise!vars
  BY DEF PubTraj
<1> USE DEF plan_vars, release_vars, monitor_vars, detect_vars, task_vars, hist_vars
<1>0. state = "PUB_TRAJ" => local_traj > published.id /\ local_traj \notin rejected
  BY ConstantsAssumption DEF IInv, Pending, TypeOK, TrajIds
<1>1. CASE RejectRelease(elapsed, r)
  <2>1. Promise!Refuse
    BY <1>0, <1>1 DEF RejectRelease, BackOff, Promise!Refuse
  <2> QED BY <2>1 DEF Promise!Next
<1>2. CASE AwaitRelease(elapsed, r)
  BY <1>2 DEF AwaitRelease, Promise!vars
<1>3. CASE Release(elapsed, r)
  <2>1. Promise!Release
    BY <1>0, <1>3 DEF Release, Promise!Release
  <2> QED BY <2>1 DEF Promise!Next
<1> QED
  BY <1>1, <1>2, <1>3

LEMMA PromiseStep == IInv /\ [Next]_vars => [Promise!Next]_Promise!vars
<1> SUFFICES ASSUME IInv, [Next]_vars PROVE [Promise!Next]_Promise!vars
  OBVIOUS
<1> USE DEF plan_vars, release_vars, monitor_vars, detect_vars, task_vars, hist_vars
<1> DEFINE Same == UNCHANGED <<local_traj, published, rejected, landing_requested>>
<1>1. ASSUME Same, UNCHANGED safety_hold_active \/ safety_hold_active'
      PROVE  [Promise!Next]_Promise!vars
  BY <1>1 DEF Promise!Next, Promise!Hold, Promise!vars
<1>2. ASSUME NEW lands \in BOOLEAN, odometryCallback(lands)
      PROVE  UNCHANGED Promise!vars \/ Promise!RequestLanding
  <2>1. landing_requested \in BOOLEAN /\ approach_landing \in BOOLEAN
    BY DEF IInv, TypeOK
  <2> QED
    BY <1>2, <2>1 DEF odometryCallback, Promise!vars, Promise!RequestLanding
<1>3. ASSUME \/ \E allows \in BOOLEAN : missionStatusCallback(allows)
             \/ triggerCallback \/ InitDone \/ Finish \/ ExecReplan \/ UNCHANGED vars
      PROVE  Same /\ (UNCHANGED safety_hold_active \/ safety_hold_active')
  BY <1>3 DEF missionStatusCallback, triggerCallback, InitDone, Finish, ExecReplan, vars
<1>4. ASSUME NEW r \in SafetyReading, TrackingReplan(r) \/ EscapeFailed(r) \/ Monitor(r)
      PROVE  Same /\ (UNCHANGED safety_hold_active \/ safety_hold_active')
  <2>1. CASE TrackingReplan(r)
    <3>1. safety_hold_active \in BOOLEAN
      BY DEF IInv, TypeOK
    <3> QED BY <2>1, <3>1 DEF TrackingReplan
  <2>2. CASE EscapeFailed(r)
    BY <2>2 DEF EscapeFailed
  <2>3. CASE Monitor(r)
    BY <2>3 DEF Monitor
  <2> QED BY <1>4, <2>1, <2>2, <2>3
<1>5. CASE PlanTraj \/ PubTraj
  BY <1>5, PlanPromise, PubPromise
<1>6. ASSUME NEW lands \in BOOLEAN, odometryCallback(lands) PROVE [Promise!Next]_Promise!vars
  BY <1>2, <1>6 DEF Promise!Next
<1> HIDE DEF Same
<1> QED
  BY <1>1, <1>3, <1>4, <1>5, <1>6 DEF Next, FSMCallback, safetyCallback

\* fast_exploration_fsm.cpp as a whole: each trajectory is released at most once, newer than
\* the one before and never after a failed check, and nothing else ends a hold.
THEOREM KeepsPromise == Spec => KeepsReleasePromise
BY PromiseInit, PromiseStep, Invariance, PTL DEF Spec, Promise!Spec, KeepsReleasePromise

\* What TrajectoryRelease promises includes that a trajectory that failed a check is never
\* the published one, and that no planning starts after the landing was requested.
THEOREM PromiseRefusesForGood ==
  KeepsReleasePromise
    => /\ []NeverPublishRejected
       /\ [][landing_requested => local_traj' = local_traj]_<<local_traj, landing_requested>>
<1> DEFINE Past == /\ local_traj \in Nat /\ published.id \in Nat
                   /\ published.id <= local_traj
                   /\ published.id \notin rejected
<1>1. Promise!Init => Past
  BY DEF Promise!Init
<1>2. Past /\ [Promise!Next]_Promise!vars => Past'
  BY DEF Promise!Next, Promise!vars, Promise!Plan, Promise!PlanRefused, Promise!Refuse,
         Promise!Release, Promise!Hold, Promise!RequestLanding
<1>3. Past => NeverPublishRejected
  BY DEF NeverPublishRejected
<1>4. [Promise!Next]_Promise!vars
        => [landing_requested => local_traj' = local_traj]_<<local_traj, landing_requested>>
  BY DEF Promise!Next, Promise!vars, Promise!Plan, Promise!PlanRefused, Promise!Refuse,
         Promise!Release, Promise!Hold, Promise!RequestLanding
<1> QED
  BY <1>1, <1>2, <1>3, <1>4, PTL DEF Promise!Spec, KeepsReleasePromise

===============================================================================
