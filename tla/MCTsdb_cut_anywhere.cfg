\* Each property is refuted; TLC stops at the first, so check them one by one.
SPECIFICATION Spec
CONSTANTS
    small = small
    large = large
    Logs = {small, large}
    Size <- SizeOne
    MaxLen = 1
    MaxTime = 5
    Marks = {}
    Rollovers = {}
    Late = FALSE
    NSec = 2
    Cap = 7
    IdxLen = 2
    MaxCuts = 1
    CutAt <- Anywhere
    MaxRestarts = 0
INVARIANT LogsWhole
PROPERTY InitKeepsLogs
PROPERTY TimesIncrease
CHECK_DEADLOCK FALSE
