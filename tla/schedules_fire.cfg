SPECIFICATION Spec
CONSTANTS
    Instances = {s1, s2}
    Interval = 2
    FirstRun = 1
    MaxNow = 8
    MaxSkipped = 2
    MaxToggles = 0
    MaxCrashes = 1
    MaxFaults = 1
INVARIANT OccurrenceOnce
INVARIANT SkipsExact
CHECK_DEADLOCK FALSE
