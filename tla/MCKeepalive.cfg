\* A prompt server.  The third request follows the reuse of a connection; a body
\* of three units takes more than one read of two.
SPECIFICATION Spec
CONSTANTS
    NumReqs = 3
    Methods <- BothMethods
    MaxBody = 3
    BufUnits = 2
    Faults <- PromptFaults
    MaxRetries = 2
INVARIANTS
    TypeOK
    NoUseAfterClose
    RemainingIsOwed
    OwnResponse
    WholeResponse
    DrainedBeforeReuse
PROPERTIES
    AbandonsOnlyDead
    Termination
