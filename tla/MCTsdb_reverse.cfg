SPECIFICATION QSpec
CONSTANTS
    small = small
    large = large
    Logs = {small, large}
    Size <- SizeOne
    MaxLen = 1
    MaxTime = 5
    Marks = {}
    Rollovers = {}
    Late = FALSE
    NSec = 2
    Cap = 7
    IdxLen = 2
    MaxCuts = 1
    CutAt = {"using"}
    MaxRestarts = 0
    AsIndex <- LogBytes
    MayRead = {}
INVARIANT IterRight
CHECK_DEADLOCK FALSE
