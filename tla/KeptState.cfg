SPECIFICATION KeptSpec
CONSTANTS
    Parts = {"arena", "lines", "reading", "native", "stores", "regex", "icu", "backend"}
    SizeMax = 9
    initial_slice_bytes = 2
    maximum_regular_slice_bytes = 8
    MaxGiven = 4
    MaxChars = 2
    Chunks = 2
    MaxRecords = 2
    Lengths <- StoreLengths
    charpack_max_strings = 2
    charpack_max_bytes = 3
    MaxLoads = 8
    Called <- PublicCalls
    Null = Null
    Bogus = Bogus
INVARIANTS
    GivenIsDisjoint
    FilesKeepRecords
    TextsAreExact
    StoresKeepText
    LoadsKeepIcu
    OperationKeepsBackend
PROPERTY
    CallsEnd
