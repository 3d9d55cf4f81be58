SPECIFICATION Spec
CONSTANTS
    r1 = r1
    c1 = c1
    c2 = c2
    Contents = {c1, c2}
    Runs = {r1}
    FromOf <- MCFromOf
    Required = {}
    OutputsOf <- MCOutputsOf
    HostAtStart <- MCHostAtStart
    Earlier <- MCEarlier
    Written <- MCWritten
    EvidenceKeys = {"log"}
    Exported = {r1}
    MaxAttempts <- MCMaxAttempts
    MaxFaults = 1
    MaxLosses = 1
    Uploads = {c2}
CHECK_DEADLOCK FALSE
INVARIANTS
    NoForeignObject
    RowsHaveTheirBytes
    ExecutesWhatWasSubmitted
    
    SettledBundleIsComplete
