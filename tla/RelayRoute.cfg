SPECIFICATION Spec
CONSTANTS
  Ground <- Corridor
  Start <- Origin
  Outside <- Beyond
  Door <- Origin
  Exit <- Portal
  Cell = 25
  Distance <- Table
  DirectionWindow = 45
  BranchConfirm = 50
  RevisitRadius = 45
  RevisitGap = 100
  ResumeRadius = 45
  BacktrackPause = 60
  SampleSpacing = 8
  MaxRoute = 275
  DoorInside = 70
  Spacing = 75
  Release = 70
  TerminalSpacing = 50
  MaxMoves = 15
  None = none
CHECK_DEADLOCK FALSE

INVARIANTS
  TypeOK
  RecordingIsCurrent
  RelaysInRouteOrder
  QueueOrder
  PausedHasNoCandidate
