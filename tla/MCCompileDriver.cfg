SPECIFICATION Spec
CONSTANTS
  Phases <- MCPhases
  Preprocessing = 1
  Stream = 3
  Serializing = 4
  IoMinThresholdBytes = 8
  Options <- MCOptions
  Inputs <- MCInputs
INVARIANTS
  KeptOutputIsWhole
  PhasesOnceInOrder
  NothingLeaks
  ProfileIsPlacement
CHECK_DEADLOCK FALSE
