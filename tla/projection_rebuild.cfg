SPECIFICATION FairSpec
CONSTANTS
    MaxTime = 14
    Offset <- OneAhead
    Reclaimers = {"second"}
    Outcomes = {"task.completed"}
    MaxFaults = 1
    MaySkipDeath = FALSE
    MayRebuild = TRUE
PROPERTY RebuildRepairs
CHECK_DEADLOCK FALSE
