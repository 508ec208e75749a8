SPECIFICATION Spec
CONSTANTS
    Requests = {"c1", "c2", "r"}
    Reruns = {"r"}
    Scenarios <- MCScenarios
    MaxArtifact = 3
    MaxTroubles = 2
INVARIANTS KeyHonoured EvidenceSound TextRewritten ArtifactSafe
CHECK_DEADLOCK FALSE
