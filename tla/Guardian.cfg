SPECIFICATION Spec
CONSTANTS
    Root = root
    Descendants = {p1, p2}
    Init1 = init
    ProcessLimit = 2
    TELEMETRY_QUEUE_SIZE = 2
    DRAIN_BATCH = 1
    FINAL_DRAIN_BATCH = 1
    MaxRecordFailures = 1
CHECK_DEADLOCK FALSE

    
    
PROPERTIES
    DeadlineIsEnforced
