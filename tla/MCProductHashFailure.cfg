SPECIFICATION Spec
CONSTANTS
    c1 = c1
    c2 = c2
    Clients <- MCClients
    Products <- MCProducts
    Requests <- TileRequests
    MaxModel = 0
    MaxFile = 0
    MaxFaults = 2
    Nothing = Nothing
SYMMETRY Symmetry
INVARIANTS HashFailureDisablesCaching
