SPECIFICATION RunSpec
CONSTANTS
  b1 = b1
  b2 = b2
  Bytes = {b1, b2}
  Absent = Absent
  Torn = Torn
  None = None
  MaxRuns = 2
  Outages = 1
  PlannedRuns = 1
  RolesCap = 3
  VariantsCap = 3
  RowsCap = 30
  UnitsCap = 40
  Absence = Absence
  DayLength = 6
  Week = 2
  Horizon = 3
  BlockCap = 5
  Programs <- MCPrograms
  Generated <- Attempted
  Callers <- MCCallers
  Answers <- MCAnswers
  Marks <- MCMarks
  Hook <- MCHook
  Outcomes <- MCOutcomes
  Errors = {"retryable", "fatal", "cancelled"}
  MaxRepair = 1
  Validated = TRUE
SYMMETRY Interchangeable
CHECK_DEADLOCK FALSE
INVARIANTS
  PlanRealises
  TracesEarned
  RowsReconcile
PROPERTY
  Publishes
