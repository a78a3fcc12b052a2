SPECIFICATION Spec
CONSTANTS
    c1 = c1
    c2 = c2
    old = old
    new = new
    Clients <- MCClients
    Requests <- MCRequests
    Contents <- MCContents
    Ttl = 1
    MaxEntries = 1
    MaxTime = 1
    MaxVersion = 1
    Nothing = Nothing
SYMMETRY Symmetry
INVARIANTS TypeOK BoundedStaleness VersionFence OwnDocument
