SPECIFICATION FairSpec
CONSTANTS
    FreshWindow = 0
    SilentAfter = 1
    DegradedAfter = 1
    SubsystemAfter = 2
    OfflineAfter = 2
    Checksums = {c1, c2}
    Requests = {r1, r2}
    Foci = {"silence", "attempts", "schedule", "worker", "instance", "queue", "policy",
            "event-ingestion", "projection", "redis-queue-inspection"}
    MaxChanges = 3
    MaxTroubles = 1
INVARIANTS SaidOnce ViewsAgree
PROPERTIES WrongIsReported EndedIsCleared ChangesArrive
CHECK_DEADLOCK FALSE
