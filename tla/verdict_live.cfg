SPECIFICATION FairSpec
CONSTANTS
  MaxInvestigations = 1
  Reasons <- MCAnyReason
  Forced = FALSE
  IsFirst = TRUE
  Faults = {"cancel", "delete"}
CHECK_DEADLOCK FALSE
INVARIANTS
  TypeOK
PROPERTIES
  VerdictArrives
