\* Startdelay and startcount in every combination, the farmers of MCFarm.
SPECIFICATION Spec
CONSTANTS
    N = 3
    StartDelays = {0, 2}
    StartCounts = {0, 2}
    Count <- MCCount
    Time <- MCTime
    Profiles <- MCProfiles
    Hazards <- AllHazards
    MaxTime = 2
    MaxRounds = 2
INVARIANTS
    TypeOK
    SuccessMeansAllEnded
    JoinsOnlyCreated
    Pacing
    Quota
PROPERTIES
    Termination
