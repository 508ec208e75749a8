SPECIFICATION Spec
CONSTANTS
  Procs = {p1}
  MaxJobs = 1
  MaxRoots = 1
  MaxAttempts = 3
  MaxMsgs = 3
  MaxStarts = 2
  MaxRetries = 0
  MaxConcurrency = 1
  Budget <- OneDbFault
  GroupAtStart = TRUE
  HeartbeatsMayLapse = FALSE
  MayDrain = TRUE
  AtomicPublish = FALSE
  SlowPoints <- SlowHandler
INVARIANTS
  CompletedHasSuccess
  CapacityReleased
PROPERTY
  AbandonOnlyDead
