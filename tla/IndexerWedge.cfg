SPECIFICATION FairSpec
CONSTANTS
    MaxHeight = 4
    MaxEpoch = 0
    MaxCrashes = 1
    MaxFaults = 0
    InitialHeight = 1
    FinalHeight = 1
    BatchSize = 2
    Concurrency = 2
    MaxLag = 9
    SkipMargin = 1
    ReorgDepth = 2
    ResumeGapScan = 4
    QuarantineAfter = 2
    BadBlocks = {3}
    Quarantined = Quarantined
    None = None
    HighWaterRows = 1
    HighWaterBlocks = 0
    AlertRows = 1
PROPERTIES
    CatchesUp
