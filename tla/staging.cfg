SPECIFICATION FairSpec
CONSTANTS
  p1 = p1
  p2 = p2
  worker = worker
  server = server
  Pipelines <- MCOnePipeline
  Packages <- MCPackages
  LastRev = 2
  FaultSets <- MCFaultSets
INVARIANTS
  SubmittedWasTested
PROPERTIES
  StagingIsFreed
