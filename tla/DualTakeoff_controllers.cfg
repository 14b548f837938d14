SPECIFICATION Spec
CONSTANTS
  Vehicles = {UAV0, UAV1}
  MaxAttempts = 2
  MaxLosses = 2
SYMMETRY VehicleSymmetry

PROPERTY NoSoloTakeoff
