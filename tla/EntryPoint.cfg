SPECIFICATION EntrySpec
CONSTANTS
    MaxArguments = 3
    MaxProtections = 3
    MaxWarnings = 2
INVARIANTS
    EntryInv
    NoOwnerLeftBehind
    FrameOutlivesRegion
    ProtectionsBalance
    WarningsComeFirst
