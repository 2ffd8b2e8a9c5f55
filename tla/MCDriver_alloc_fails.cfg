\* Each property is refuted; TLC stops at the first, so check them one by one.
SPECIFICATION DriverSpec
CONSTANTS
    MtdLists <- Boards
    MasterLen <- MasterSizes
    MtdName = "spi0.0"
    PartName = "flashdb"
    MemSize = 4
    FlashSize = 4
    TableCap = 16
    TempTables <- NoTables
    Addrs = {0}
    Sizes = {1}
    Values = {"a"}
    Word = 64
    MaxFails = 1
    MayFail <- Nothing
INVARIANT OkMeansUsable
INVARIANT LoadedUsable
INVARIANT PrintsTable
CHECK_DEADLOCK FALSE
