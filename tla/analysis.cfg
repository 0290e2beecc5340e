SPECIFICATION Spec
CONSTANTS
  MaxBytes = 6
  Chunks = {1, 2, 3, 5}
  BodyBound = 10
  Newlines <- MCNewlines
  Gap = 1
  HalfShown = 1
  ScanBefore = 3
  ShownBefore = 2
  ScanAfter = 2
  AfterCommands = 1
  Context = 2
  FramesShown = 1
  EventGap = 2
  EventBefore = 1
  EventAfter = 1
  LookBack = 1
  SignalContext = 2
  ExcerptMax = 2
  TailLines = 1
  Results = {"failed", "incomplete", "passed", "none"}
  ModulesMax = 2
  FailedBound = 3
  MaxFetches = 2
  MaxGroups = 2
  RunsBound = 3
  StepsBound = 5
  LinesBound = 6
  Details <- MCDetails
  Texts <- MCTexts
  Ranges <- MCRanges
  Consoles <- MCConsoles
  JobLogs <- MCJobLogs
INVARIANTS
  TypeOK
  OnlyEdgesLost
  BudgetForOwnFlavor
  LastOwnFailureChosen
  MarkerBeforeFailure
  StepsAccounted
  SignalsKept
  RangeSpansSteps
  UntriggeredCrashShown
CHECK_DEADLOCK FALSE
