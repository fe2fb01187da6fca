SPECIFICATION Spec
CONSTANTS
    Parts = {"kernels", "extract", "replace", "match", "splice", "wrap", "joins", "maps", "convert"}
    MaxLength = 3
    Calls <- MapCalls
    Worker <- Crew
INVARIANTS
    ResultsAreSerial
    FailuresAreSerial
    WarningsAreSerial
    MapsAreSerial
