SPECIFICATION Spec
CONSTANTS
    a = a
    b = b
    Files <- MCFiles
    Ignored <- MCIgnored
    Customers <- MCCustomers
    CustomerOf <- MCCustomerOf
    Names <- MCNames
    FullName <- MCFullName
    Products <- MCProducts
    Interval = 1
    UpdatesDisabled = FALSE
    MaxTime = 1
    MaxEdits = 1
    MaxFaults = 1
    NoFile = NoFile
    NoLayer = NoLayer
    NoWork = NoWork
INVARIANTS TypeOK StalenessBound CompleteMap OwnNames
PROPERTIES SweepCovers ImplementsCatalogue
