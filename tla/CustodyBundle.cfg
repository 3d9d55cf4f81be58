SPECIFICATION Spec
CONSTANTS
    r1 = r1
    c1 = c1
    c2 = c2
    Contents = {c1, c2}
    Runs = {r1}
    FromOf <- MCFromOf
    Required = {r1}
    OutputsOf <- MCOutputsOf
    HostAtStart <- MCHostAtStart
    Earlier <- MCEarlier
    Written <- MCWritten
    EvidenceKeys = {"log"}
    Exported = {r1}
    MaxAttempts <- MCMaxAttempts
    MaxFaults = 0
    MaxLosses = 0
    Uploads = {c2}
CHECK_DEADLOCK FALSE
INVARIANT
    BundleIsComplete
