\* A server that stalls: poll timeouts leave bytes behind on kept connections.
SPECIFICATION Spec
CONSTANTS
    NumReqs = 3
    Methods <- OnlyGet
    MaxBody = 2
    BufUnits = 2
    Faults <- StallFaults
    MaxRetries = 2
INVARIANTS
    KeptInStep
PROPERTIES
    AbandonsOnlyStale
    Termination
