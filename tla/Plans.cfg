SPECIFICATION FairSpec
CONSTANTS
    Plans = {p1}
    Payloads <- MCPayloads
    MAX_STEPS = 2
    Unmatched = {"c"}
    MaxRuns = 3
    Endings = {"succeeded", "failed", "cancelled"}
    MaxOutages = 2
    MaxRefusals = 1
    MaxCancels = 2
    MaxCrashes = 1
    MaxReopens = 1
CHECK_DEADLOCK FALSE
INVARIANTS
    
    StepsInOrder
    PlanSuccessIsEarned
    CancelledRunsStopped
PROPERTIES
    PlansSettle
