SPECIFICATION RetentionSpec
CONSTANTS
    Horizon = 5
    Start = 1
    Width = 2
    Ahead = 1
    LagLimit = 3
    Margin = 1
    HighWater = 1
    BodyWindow = 2
    CompactWindow = 6
    MaxLosses = 0
PROPERTIES
    WriterDrains
CHECK_DEADLOCK FALSE
