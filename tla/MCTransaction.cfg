\* Lists of two URLs, the first one twice; a response of two units does not fit one read, and
\* three units do not fit the pipe.
SPECIFICATION Spec
CONSTANTS
    NumReqs = 3
    Methods <- BothMethods
    MaxBody = 1
    BufUnits = 1
    Faults <- MCFaults
    PipeUnits = 2
    Names <- MCNames
    FileOf <- MCFiles
    Terminated = TRUE
    CookieNames = {"c", "d"}
    SetCookies <- MCSetCookies
    MayBeLeft = {"id"}
    UrlLists <- MCUrlLists
INVARIANTS
    TypeOK
    AnswerComes
    NewestCookieFirst
    ParamsAgree
    NothingLeft
PROPERTIES
    TemplateFindsValue
    Termination
