\* Each property is refuted; TLC stops at the first, so check them one by one.
SPECIFICATION DriverSpec
CONSTANTS
    MtdLists <- OwnPart
    MasterLen <- MasterSizes
    MtdName = "spi0.0"
    PartName = "flashdb"
    MemSize = 2
    FlashSize = 4
    TableCap = 16
    TempTables <- NoTables
    Addrs = {0}
    Sizes = {1}
    Values = {"a"}
    Word = 64
    MaxFails = 0
    MayFail <- ClassOnly
INVARIANT PartitionsFit
INVARIANT PhysicalFirst
INVARIANT ClassFailureHandled
CHECK_DEADLOCK FALSE
