SPECIFICATION Spec
CONSTANTS
    Tasks = 4
    Chunk = 2
    Workers = 2
    MaxThrows = 1
    Bodies <- FallbackBodies
INVARIANT
    WarningCountIsSerial
