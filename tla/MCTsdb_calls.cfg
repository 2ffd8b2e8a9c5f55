SPECIFICATION QSpec
CONSTANTS
    small = small
    large = large
    Logs = {small}
    Size <- SizeOnly
    MaxLen = 1
    MaxTime = 7
    Marks = {}
    Rollovers = {}
    Late = FALSE
    NSec = 3
    Cap = 7
    IdxLen = 2
    MaxCuts = 1
    CutAt <- EndCuts
    MaxRestarts = 1
    AsIndex <- LogBytes
    MayRead = {"forward", "reverse"}
INVARIANT IterRight QueryRight StaleIterComplete
PROPERTY TimeOrderedLog CallsReturn
CHECK_DEADLOCK FALSE
