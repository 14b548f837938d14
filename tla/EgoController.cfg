SPECIFICATION FairSpec
CONSTANTS
  Cells = {c1, c2}
  Zero = zero
  TrajIds = {t1}
  NoTraj = none

INVARIANTS
  TypeOK
  HoldTargetWasAPose
  TrackableCommand
  MavrosLockTrusted
PROPERTIES
  HoldPointFixed
  LandingOwnsVehicle
