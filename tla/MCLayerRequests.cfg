SPECIFICATION Spec
CONSTANTS
    c1 = c1
    c2 = c2
    Absent = Absent
    Clients = {c1, c2}
    Layers <- MCLayers
    CustomerOf <- MCCustomerOf
    VersionsOf <- MCVersionsOf
    Requests <- MCRequests
    MaxChanges = 2
SYMMETRY Symmetric
CONSTRAINT Alone
INVARIANTS TypeOK UndisturbedAnswered AnswersWereAvailable TimeWasCurrent FixedDimensionsHonoured
PROPERTY NamesNeverReplaced
