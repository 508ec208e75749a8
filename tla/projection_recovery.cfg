SPECIFICATION Spec
CONSTANTS
    MaxTime = 14
    Offset <- OneAhead
    Reclaimers = {"second"}
    Outcomes = {"task.completed", "task.failed"}
    MaxFaults = 1
    MaySkipDeath = TRUE
    MayRebuild = FALSE
INVARIANT ReplayAgrees
INVARIANT ReducedInAnyOrder
INVARIANT CaughtUp
PROPERTY TerminalProjectionFinal
CHECK_DEADLOCK FALSE
