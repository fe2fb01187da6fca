SPECIFICATION Spec
CONSTANTS
    Tasks = 5
    Chunk = 2
    Workers = 3
    MaxThrows = 1
    Bodies <- LoopingBodies
PROPERTY
    ImplementsContract
