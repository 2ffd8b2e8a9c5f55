SPECIFICATION DriverSpec
CONSTANTS
    MtdLists <- Boards
    MasterLen <- MasterSizes
    MtdName = "spi0.0"
    PartName = "flashdb"
    MemSize = 4
    FlashSize = 4
    TableCap = 16
    TempTables <- NoTables
    Addrs = {14}
    Sizes = {2}
    Values = {"a"}
    Word = 16
    MaxFails = 0
    MayFail <- Nothing
INVARIANT NoFault
CHECK_DEADLOCK FALSE
