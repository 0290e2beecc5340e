SPECIFICATION FairSpec
CONSTANTS
  Kinds <- MCAllKinds
  Faults = {"read", "llm", "post"}
CHECK_DEADLOCK FALSE
INVARIANTS
  TypeOK
  OnlyMailsRepeat
  DeclinedIsNotInvestigated
  FinishedIsInvestigated
  StreakIsNotInvestigated
PROPERTIES
  HookEnds
