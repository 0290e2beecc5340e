SPECIFICATION FairSpec
CONSTANTS
  w1 = w1
  w2 = w2
  w3 = w3
  j1 = j1
  j2 = j2
  Machines <- MCMachines
  Workers <- MCWorkers
  Host <- MCHost
  Provides <- MCProvides
  Jobs <- MCJobs
  Needs <- MCNeeds
  NoWorker = NoWorker
INVARIANTS
  TypeOK
PROPERTIES
  RunningJobsKeepPower
  NeededMachineStarts
  UnusedMachinesStop
