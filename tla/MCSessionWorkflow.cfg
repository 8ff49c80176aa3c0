SPECIFICATION FairSpec
CONSTANTS
  Configs <- MCConfigs
  Stages <- MCStages
  MaxWave = 2
CHECK_DEADLOCK FALSE
INVARIANTS
  UpstreamSound
  MinimaFail
  SeamsMarkInterruptions
  CountsOnce
PROPERTIES
  CutSeals
  SessionEnds
