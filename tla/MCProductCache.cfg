SPECIFICATION Spec
CONSTANTS
    c1 = c1
    c2 = c2
    Clients <- MCClients
    Products <- MCProducts
    Requests <- ImageRequests
    MaxModel = 1
    MaxFile = 1
    MaxFaults = 1
    Nothing = Nothing
SYMMETRY Symmetry
INVARIANTS TypeOK NeverStale
PROPERTY ImplementsServer
