SPECIFICATION DriverSpec
CONSTANTS
    MtdLists <- Boards
    MasterLen <- MasterSizes
    MtdName = "spi0.0"
    PartName = "flashdb"
    MemSize = 4
    FlashSize = 4
    TableCap = 16
    TempTables <- Tables
    Addrs = {0, 3}
    Sizes = {1, 2}
    Values = {"a"}
    Word = 64
    MaxFails = 1
    MayFail <- Most
INVARIANT NothingLeft
INVARIANT ReleasedInOrder
PROPERTY SeparateAreas
PROPERTY UsableInTheEnd
CHECK_DEADLOCK FALSE
