SPECIFICATION FairSpec
CONSTANTS
    a = a
    b = b
    Files <- LiveFiles
    Ignored <- LiveIgnored
    Customers <- LiveCustomers
    CustomerOf <- LiveCustomerOf
    Names <- MCNames
    FullName <- LiveFullName
    Products <- LiveProducts
    Interval = 1
    UpdatesDisabled = FALSE
    MaxTime = 1
    MaxEdits = 1
    MaxFaults = 1
    NoFile = NoFile
    NoLayer = NoLayer
    NoWork = NoWork
PROPERTIES ShutdownCompletes EditsArePublished EditsMoveTheTime
