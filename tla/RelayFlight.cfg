SPECIFICATION FairSpec
CONSTANTS
  Relays <- Line
  SeqFails = 1
  ReplanFails = 2
  MaxFail = 2
  StatusQueue = 2
  None = none
  MaxFaults = 1
  MaxWaiting = 1

CHECK_DEADLOCK FALSE

INVARIANTS
  TypeOK
  HoldHasReason
  NeverBeyondRelease
PROPERTIES
  KeepsJourney
  MissionCompletes
