SPECIFICATION Spec
CONSTANTS
    Tasks = 5
    Chunk = 2
    Workers = 3
    MaxThrows = 2
    Bodies <- MCBodies
INVARIANTS
    RegionInv
    JoinedBeforeExit
    OneWorkerPerTask
    RaisesTheSerialFailure
    DirectPrefixIsSerial
    TaskWarningsAreSerial
    WarnedIffSerialWarned
    CursorStaysBounded
