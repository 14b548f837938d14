SPECIFICATION FairSpec
CONSTANTS
  MaxTraj = 3
  ConfirmTicks = 3
  CheckTicks = 2
  MaxJitter = 2

INVARIANTS
  TypeOK
  FailureCooldownIsHeld
  NonStaticStartIsFlown
  EscapeBelongsToTrajectory
  DetectionGate
PROPERTIES
  KeepsReleasePromise
  ReleaseEvidence
  PlanningStallIsHeld
  LandingEndsExploration
