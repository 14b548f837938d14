SPECIFICATION Spec
CONSTANTS
  MaxTraj = 3
  ConfirmTicks = 3
  CheckTicks = 2
  MaxJitter = 2

PROPERTY NoTrajectoryAfterLanding
