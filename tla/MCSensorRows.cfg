SPECIFICATION Spec
CONSTANTS
    Sensors = {s1, s2}
    Values = {v1, v2}
    NaN = NaN
    None = None
    normalInterval <- OneSecond
    LostReplies = TRUE
    MaxTime = 4
    MaxRows = 3
INVARIANTS TypeOK MemoryMatches Recorded RowsDisjoint
PROPERTY ImplementsTimeline
CHECK_DEADLOCK FALSE
