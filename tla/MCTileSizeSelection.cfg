SPECIFICATION FairSpec
CONSTANTS
  Roots <- MCRoots
  Targets <- MCTargets
  OptionSets <- MCOptionSets
  DtcmSizes = {1, 2}
  MaxTripCount = 2147483647
  Pipelines <- MCPipelines
INVARIANTS
  TilesUsable
  FitsDtcm
  GivesUpOnlyWhenHopeless
  MultiplesUnlessCapped
PROPERTIES
  Terminates
CHECK_DEADLOCK FALSE
