SPECIFICATION DriverSpec
CONSTANTS
    MtdLists <- OtherFirst
    MasterLen <- MasterSizes
    MtdName = "spi0.0"
    PartName = "flashdb"
    MemSize = 4
    FlashSize = 4
    TableCap = 16
    TempTables <- NoTables
    Addrs = {0}
    Sizes = {1}
    Values = {"a"}
    Word = 64
    MaxFails = 0
    MayFail <- Nothing
INVARIANT NoFault
CHECK_DEADLOCK FALSE
