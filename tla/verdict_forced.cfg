SPECIFICATION Spec
CONSTANTS
  MaxInvestigations = 2
  Reasons <- MCOneReason
  Forced = TRUE
  IsFirst = FALSE
  Faults = {}
CHECK_DEADLOCK FALSE
INVARIANTS
  VerdictIsRight
  VerdictRestsOnFinishedJobs
