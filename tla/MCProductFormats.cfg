SPECIFICATION Spec
CONSTANTS
    c1 = c1
    c2 = c2
    Clients <- MCClients
    Products <- MCProducts
    Requests <- FormatRequests
    MaxModel = 0
    MaxFile = 1
    MaxFaults = 0
    Nothing = Nothing
SYMMETRY Symmetry
INVARIANTS OwnImage
PROPERTY ImplementsServer
