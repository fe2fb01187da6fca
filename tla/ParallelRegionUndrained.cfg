SPECIFICATION Spec
CONSTANTS
    Tasks = 5
    Chunk = 2
    Workers = 2
    MaxThrows = 1
    Bodies <- MCBodies
INVARIANTS
    NothingLeftUnwritten
