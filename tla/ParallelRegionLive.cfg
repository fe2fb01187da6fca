SPECIFICATION FairSpec
CONSTANTS
    Tasks = 4
    Chunk = 2
    Workers = 3
    MaxThrows = 1
    Bodies <- MCBodies
PROPERTY
    Terminates
