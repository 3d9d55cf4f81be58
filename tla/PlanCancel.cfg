SPECIFICATION Spec
CONSTANTS
    Plans = {p1}
    Payloads <- MCPayloads
    MAX_STEPS = 2
    Unmatched = {"c"}
    MaxRuns = 3
    Endings = {"succeeded", "failed", "cancelled"}
    MaxOutages = 1
    MaxRefusals = 0
    MaxCancels = 1
    MaxCrashes = 0
    MaxReopens = 0
CHECK_DEADLOCK FALSE
PROPERTIES
    CancelStartsNothing
