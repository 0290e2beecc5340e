SPECIFICATION Spec
CONSTANTS
  Kinds = {"failed"}
  Faults = {}
CHECK_DEADLOCK FALSE
INVARIANTS
  PostponedIsInvestigated
