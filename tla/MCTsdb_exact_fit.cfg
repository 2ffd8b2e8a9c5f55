SPECIFICATION QSpec
CONSTANTS
    small = small
    large = large
    Logs = {small, large}
    Size <- SizeOne
    MaxLen = 1
    MaxTime = 5
    Marks = {}
    Rollovers = {}
    Late = FALSE
    NSec = 2
    Cap = 6
    IdxLen = 2
    MaxCuts = 0
    CutAt = {}
    MaxRestarts = 0
    AsIndex <- LogBytes
    MayRead = {}
INVARIANT QueryRight
CHECK_DEADLOCK FALSE
