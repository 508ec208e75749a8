SPECIFICATION FairSpec
CONSTANTS
    Instances = {i, j}
    Schedules = {s}
    Hashes = {A, B}
    MaxEdits = 2
    MaxTroubles = 1
INVARIANTS CreatedOnce LateIsAnnounced EventsAccurate
PROPERTY SnapshotsConverge
