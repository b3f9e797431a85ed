SPECIFICATION ServicesSpec
CONSTANTS
    Requests <- MCRequests
    Calls <- MCCalls
    Parameters = {":p"}
    Folders <- MCFolders
    Wildcards = {"{p}", "{q}"}
    Malformed <- MCMalformed
    MaxCalls = 2
    Databases = {d1, d2}
    Tables = {t}
    Rows = {r}
    None = None
INVARIANT
    PanicsOnlyOnRetry
PROPERTIES
    AnswersKept
    OnlyLatestDatabase
CONSTRAINT
    MuchOfOne
CHECK_DEADLOCK FALSE
