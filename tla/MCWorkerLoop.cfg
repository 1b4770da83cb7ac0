SPECIFICATION LoopSpec
CONSTANTS
  Syncer = {button, clock}
  Worker = {clock}
  Lease = 4
  Overruns = FALSE
  Longest = 1
  PurgeEvery = 3
  HealthyFor = 1
  MostFaults = 1
INVARIANTS
  OneSyncAtATime
  AHeartbeatMeansWork
PROPERTIES
  DeadClaimsAreTaken
  TheOutboxIsDrained
