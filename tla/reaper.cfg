SPECIFICATION FairSpec
CONSTANTS
  z12 = z12
  z13 = z13
  p1 = p1
  p2 = p2
  NoRun = NoRun
  Hosts <- MCOneHost
  Procs <- MCProcs
  MaxWait = 2
  BootWait = 2
  Stability = 1
  BootTime = 1
  HmcWait = 1
  Concurrency = 5
  HmcFallback = TRUE
  Methods <- MCBoth
  FaultSets <- MCFaults
  Hangs = 1
INVARIANTS
  GraceRespected
  SysrqRestartsOnHostThatIsBack
PROPERTIES
  RunsGiveLockBack
  DeadHostRecovers
  ListedJobsRestarted
