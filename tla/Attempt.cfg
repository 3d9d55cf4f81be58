SPECIFICATION Spec
CONSTANTS
    Manifests <- MCManifests
    Commits = {"c1", "c2"}
    MaxEdits = 1
    MaxLoads = 1
    MaxLate = 1
CHECK_DEADLOCK FALSE
INVARIANTS
    SuccessIsEarned
    ResultIsNotLeftOver
    SnapshotDecided
    
