SPECIFICATION AlgorithmsSpec
CONSTANTS
    Parts = {"naming"}
    IntMax = 7
    Calls <- SubCalls
    Workers = {0, 1}
    Texts <- IndexedTexts
    Positions <- IndexedPositions
    MaxCount = 4
    MaxSearched = 3
    MaxElements = 4
    MaxPieces = 3
    MaxStrings = 3
INVARIANTS
    ColumnsAreNamed
