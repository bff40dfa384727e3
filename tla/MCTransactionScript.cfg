\* One request to a prompt server; its response of two units does not fit the pipe.
SPECIFICATION Spec
CONSTANTS
    NumReqs = 1
    Methods <- BothMethods
    MaxBody = 1
    BufUnits = 1
    Faults = {}
    PipeUnits = 1
    Names <- MCNames
    FileOf <- NoFiles
    Terminated = TRUE
    CookieNames = {"c"}
    SetCookies <- NoCookies
    MayBeLeft = {}
    UrlLists <- Scripted
INVARIANT
    ScriptGetsResponse
