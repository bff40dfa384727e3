\* Three URLs twice: the wrap-around happens in the middle and at the end.
SPECIFICATION Spec
CONSTANTS
    Urls = 3
    Rounds = 2
    Failing <- MayFail
INVARIANTS
    TypeOK
    CountsMatch
    DelaysInOrder
    ReportIsComplete
PROPERTIES
    ImplementsPlan
    Termination
