\* Each property is refuted; TLC stops at the first, so check them one by one.
SPECIFICATION Spec
CONSTANTS
    small = small
    large = large
    Logs = {small, large}
    Size <- SizeOne
    MaxLen = 1
    MaxTime = 5
    Marks = {}
    Rollovers = {TRUE, FALSE}
    Late = TRUE
    NSec = 2
    Cap = 5
    IdxLen = 2
    MaxCuts = 0
    CutAt = {}
    MaxRestarts = 0
INVARIANT RolloverAccepts
PROPERTY NoRolloverKeepsLogs
CHECK_DEADLOCK FALSE
