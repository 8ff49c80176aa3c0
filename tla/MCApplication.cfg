SPECIFICATION FairApplication
CONSTANTS
  None = None
  Bad = Bad
  Configs <- MCConfigs
  Starts <- MCStarts
  Edits <- MCEdits
  MaxEdits = 2
CHECK_DEADLOCK FALSE
INVARIANTS
  Balanced
  DeliveredRows
  VerdictTrue
  RehearsalAgrees
  AcceptedServes
PROPERTIES
  StopEnds
