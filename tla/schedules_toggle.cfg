SPECIFICATION FairSpec
CONSTANTS
    Instances = {s1, s2}
    Interval = 2
    FirstRun = 1
    MaxSkipped = 2
    MaxCrashes = 0
    MaxFaults = 0
    MaxToggles = 1
    MaxNow = 6
INVARIANT LedgerComplete
PROPERTY OutcomeIsFinal
PROPERTY DueIsCreated
CHECK_DEADLOCK FALSE
