SPECIFICATION Spec
CONSTANTS
    MaxHeight = 4
    MaxEpoch = 1
    MaxCrashes = 0
    MaxFaults = 0
    InitialHeight = 1
    FinalHeight = 1
    BatchSize = 2
    Concurrency = 2
    MaxLag = 9
    SkipMargin = 1
    ReorgDepth = 2
    ResumeGapScan = 4
    QuarantineAfter = 9
    BadBlocks = {}
    Quarantined = Quarantined
    None = None
    HighWaterRows = 1
    HighWaterBlocks = 0
    AlertRows = 1
INVARIANTS
    BoundaryCheckVouches
