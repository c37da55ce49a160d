SPECIFICATION Spec
CONSTANTS
    MaxHeight = 4
    MaxEpoch = 0
    MaxCrashes = 1
    MaxFaults = 0
    InitialHeight = 0
    FinalHeight = 1
    BatchSize = 2
    Concurrency = 2
    MaxLag = 9
    SkipMargin = 1
    ReorgDepth = 2
    ResumeGapScan = 4
    QuarantineAfter = 9
    BadBlocks = {}
    Quarantined = Quarantined
    None = None
    HighWaterRows = 1
    HighWaterBlocks = 0
    AlertRows = 1
INVARIANTS
    NoSilentLoss
