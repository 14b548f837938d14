SPECIFICATION FairSpec
CONSTANTS
  Last = 4
  ConfirmationCount = 3
  SupersedeCount = 2
  ObservationHits = 2
  LockDepth = 2
  Depths <- TwoDepths
  CodeCount = 2
  Code = 4
  None = none
  MaxHits = 4
  MaxFrontiers = 2
  MaxMishaps = 2

CHECK_DEADLOCK FALSE

INVARIANTS
  TypeOK
  ToldExitHolds
PROPERTIES
  KeepsOrder
  LockedLands
