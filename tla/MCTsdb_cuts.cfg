SPECIFICATION Spec
CONSTANTS
    small = small
    large = large
    Logs = {small, large}
    Size <- SizeOne
    MaxLen = 1
    MaxTime = 3
    Marks = {3, 4}
    Rollovers = {FALSE}
    Late = TRUE
    NSec = 2
    Cap = 5
    IdxLen = 2
    MaxCuts = 2
    CutAt <- Anywhere
    MaxRestarts = 1
INVARIANT TypeOK OneInUse CurrentKnown AssertsOnlyAtInit
PROPERTY StoredLogsStay
CHECK_DEADLOCK FALSE
