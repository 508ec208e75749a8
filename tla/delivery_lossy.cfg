SPECIFICATION Spec
CONSTANTS
  Procs = {p1}
  MaxJobs = 1
  MaxRoots = 1
  MaxAttempts = 4
  MaxMsgs = 4
  MaxStarts = 2
  MaxRetries = 0
  MaxConcurrency = 1
  Budget <- Lossy
  GroupAtStart = FALSE
  HeartbeatsMayLapse = TRUE
  MayDrain = FALSE
  AtomicPublish = TRUE
  SlowPoints <- NeverSlow
INVARIANT TypeOK
PROPERTY TerminalIsFinal
