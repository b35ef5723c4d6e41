CONSTANTS
    Block <- BlocksFromZero
    Snapshot = {s1, s2}
    MaxSize = 2
SPECIFICATION Chain
INVARIANTS HeightArchived
