SPECIFICATION GatewaySpec
CONSTANTS
    u1 = u1
    u2 = u2
    k1 = k1
    k2 = k2
    p1 = p1
    p2 = p2
    Users = {u1, u2}
    Program <- MCProgram
    Keys = {k1, k2, p1, p2}
    Threads = {h1, h2}
    NoOne = NoOne
    NoThread = NoThread
    NoFile = NoFile
    MAX_RUN_LIMIT = 2
    MAX_COMPARISON_RUNS = 1
    MaxRuns = 4
    MaxInputs = 4
    Patience = 1
    MaxFaults = 1
SYMMETRY MCSymmetry
CHECK_DEADLOCK FALSE
INVARIANTS
    UploadIsWhole
    AnsweredRunIsTheirs
    KeyMeansOneRun
    OrphanMeansRestart
    CountIsBetween
    
