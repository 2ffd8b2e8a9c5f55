SPECIFICATION Spec
CONSTANTS
    small = small
    large = large
    Logs = {small, large}
    Size <- SizeOne
    MaxLen = 1
    MaxTime = 3
    Marks = {}
    Rollovers = {}
    Late = FALSE
    NSec = 2
    Cap = 5
    IdxLen = 2
    MaxCuts = 2
    CutAt <- Anywhere
    MaxRestarts = 0
PROPERTY CallsReturn
CHECK_DEADLOCK FALSE
