SPECIFICATION FairSpec
CONSTANTS
    p1 = p1
    p2 = p2
    Procs <- MCProcs
    NoProc = NoProc
    MaxHeight = 4
    GapTo <- MCGapTo
    Poison = {2, 4}
    Recorded = {1, 2, 3}
    BatchSize = 2
    FirstHorizon = 4
    Cutoffs = {3}
    MaxFaults = 2
INVARIANTS
    FirstWriteOnly
    StampedComplete
    CursorVerified
PROPERTIES
    RangesSettle
