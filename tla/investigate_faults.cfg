SPECIFICATION Spec
CONSTANTS
  r1 = r1
  r2 = r2
  r3 = r3
  Jobs <- MCJobs
  Cluster <- MCCluster
  Chained = {}
  Excluded = {}
  Restartable = {1, 2}
  Runs <- MCTwoRuns
  JobOf <- MCJobOfTwo
  Forced = {}
  Faults <- MCAllFaults
INVARIANTS
  OneHolder
  OrderlyExitClearsStarting
  ReportReachesOrigin
PROPERTIES
  ImplementsLock
