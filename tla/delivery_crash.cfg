SPECIFICATION FairSpec
CONSTANTS
  Procs = {p1}
  MaxJobs = 2
  MaxRoots = 1
  MaxAttempts = 3
  MaxMsgs = 3
  MaxStarts = 2
  MaxRetries = 1
  MaxConcurrency = 1
  Budget <- OneOutage
  GroupAtStart = TRUE
  HeartbeatsMayLapse = FALSE
  MayDrain = FALSE
  AtomicPublish = TRUE
  SlowPoints <- NeverSlow
PROPERTIES
  AcksSound
  RunsFinish
  FollowsLifecycle
INVARIANTS
  RunBacked
  OneUnfinishedAttempt
