SPECIFICATION Spec
CONSTANTS
  Cells = {c1, c2}
  Zero = zero
  TrajIds = {t1}
  NoTraj = none

PROPERTY NoTrajectoryMeansNoMotion
