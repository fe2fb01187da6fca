SPECIFICATION AlgorithmsSpec
CONSTANTS
    Parts = {"naming", "window", "indexing", "fixed", "wrapping", "ordering"}
    IntMax = 7
    Calls <- SubCalls
    Workers = {0, 1}
    Texts <- IndexedTexts
    Positions <- IndexedPositions
    MaxCount = 3
    MaxSearched = 3
    MaxElements = 4
    MaxPieces = 3
    MaxStrings = 3
INVARIANTS
    WindowIsExact
    FilterFillsExactly
    CacheIsExact
    SearchesAreExact
    WrapIsRight
    OrderIsRight
PROPERTIES
    IndexerImplementsContract
    LoopsEnd
