SPECIFICATION QSpec
CONSTANTS
    small = small
    large = large
    Logs = {small, large}
    Size <- SizeTwo
    MaxLen = 3
    MaxTime = 5
    Marks = {}
    Rollovers = {}
    Late = FALSE
    NSec = 2
    Cap = 7
    IdxLen = 2
    MaxCuts = 1
    CutAt <- EndCuts
    MaxRestarts = 0
    AsIndex <- LogBytes
    MayRead = {}
INVARIANT IterRight
CHECK_DEADLOCK FALSE
