SPECIFICATION FairSpec
CONSTANTS
  r1 = r1
  r2 = r2
  r3 = r3
  Jobs <- MCThreeJobs
  Cluster <- MCThreeCluster
  Chained = {}
  Excluded = {}
  Restartable = {}
  Runs <- MCThreeRuns
  JobOf <- MCJobOfEach
  Forced = {r3}
  Faults = {}
INVARIANTS
  SkipperHasLeader
  WaitsForCluster
PROPERTIES
  RunsEnd
  ClusterSettled
