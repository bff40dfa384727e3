\* Nothing goes wrong but a profile run.
SPECIFICATION Spec
CONSTANTS
    N = 3
    StartDelays = {0}
    StartCounts = {1}
    Count <- MCCount
    Time <- MCTime
    Profiles <- MCProfiles
    Hazards <- ProfileHazard
    MaxTime = 2
    MaxRounds = 2
INVARIANTS
    SuccessMeansNoError
