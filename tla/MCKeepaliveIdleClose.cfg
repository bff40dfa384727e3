\* The server closes a kept connection after check_socket looked at it.
SPECIFICATION IdleSpec
CONSTANTS
    NumReqs = 2
    Methods <- OnlyGet
    MaxBody = 1
    BufUnits = 2
    Faults <- IdleFaults
    MaxRetries = 2
INVARIANTS
    IdleCloseDetected
