SPECIFICATION Spec

CONSTANTS
    Products <- MCProducts
    Settings <- MCSettings
    Hashed <- MCHashed
    Read <- MCRead
    Uncached <- MCUncached
    Gaps <- MCGaps
    MaxChanged = 1

INVARIANTS TypeOK WrongOnlyInGaps
