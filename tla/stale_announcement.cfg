SPECIFICATION Spec
CONSTANTS
  r1 = r1
  r2 = r2
  r3 = r3
  Jobs <- MCJobs
  Cluster <- MCCluster
  Chained = {2}
  Excluded = {}
  Restartable = {}
  Runs <- MCTwoRuns
  JobOf <- MCJobOfTwo
  Forced = {}
  Faults = {}
PROPERTIES
  SkipsOnlyForInvestigation
