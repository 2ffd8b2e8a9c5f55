SPECIFICATION QSpec
CONSTANTS
    small = small
    large = large
    Logs = {small, large}
    Size <- SizeOne
    MaxLen = 1
    MaxTime = 5
    Marks = {}
    Rollovers = {}
    Late = FALSE
    NSec = 2
    Cap = 7
    IdxLen = 2
    MaxCuts = 0
    CutAt = {}
    MaxRestarts = 0
    AsIndex <- LogBytes
    MayRead = {"forward"}
INVARIANT StaleQueryComplete
CHECK_DEADLOCK FALSE
