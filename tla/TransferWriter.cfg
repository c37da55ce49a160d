SPECIFICATION FairSpec
CONSTANTS
    MaxHeight = 2
    busy = busy
    Decodes <- MCDecodes
    RowsOf <- MCRowsOf
    Quarantined = Quarantined
    None = None
    HighWaterRows = 1
    AlertRows = 3
VIEW MCView
INVARIANTS
    WatermarkCovered
    PersistedCovered
    NoDecodeLost
    NothingAboveFork
    RowsAccounted
PROPERTIES
    ContractKept
    RollbackGetsItsTurn
