SPECIFICATION Spec
CONSTANTS
    Absent = Absent
    Names <- MCNames
    Position <- MCPosition
    Attributes <- MCAttributes
    Layouts = {"recursive", "recursivetimes"}
    References <- MCReferences
INVARIANTS TypeOK ReadAsItIs NoForeignProjection ForeignOnlyByMajority EachListedOnce
CHECK_DEADLOCK FALSE
