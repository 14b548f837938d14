SPECIFICATION FairSpec
CONSTANTS
  MaxTraj = 2
  ConfirmTicks = 1
  CheckTicks = 1
  MaxJitter = 1
  Here = here
  Zero = zero
  NoTraj = none
  QueueSize = 1

INVARIANTS
  TypeOK
  HoldAgrees
  NoUnassignedCommand
  ReleasedReachesServer
  FlownWasReleased
PROPERTIES
  HoldStopsVehicle
  LandingIsFinal
