\* Two elements are enough for one to overwrite or cancel the other.
SPECIFICATION Spec
CONSTANTS
    FarmerNames = {joe, jim}
    Malformed = malformed
    Farms <- MCFarms
    Profiles <- MCProfiles
    Configurations <- MCConfigurations
INVARIANTS
    TableFitsFarm
    TableAsMeant
    OneFamily
