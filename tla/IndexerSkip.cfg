SPECIFICATION Spec
CONSTANTS
    MaxHeight = 4
    MaxEpoch = 1
    MaxCrashes = 1
    MaxFaults = 1
    InitialHeight = 0
    FinalHeight = 0
    BatchSize = 2
    Concurrency = 1
    MaxLag = 2
    SkipMargin = 1
    ReorgDepth = 1
    ResumeGapScan = 4
    QuarantineAfter = 1
    BadBlocks = {}
    Quarantined = Quarantined
    None = None
    HighWaterRows = 1
    HighWaterBlocks = 0
    AlertRows = 1
INVARIANTS
    CursorAccounted
PROPERTIES
    UsesWriter
