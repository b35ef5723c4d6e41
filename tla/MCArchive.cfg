CONSTANTS
    Block <- BlocksFromOne
    Snapshot = {s1, s2}
    MaxSize = 3
SPECIFICATION Spec
INVARIANTS HeightArchived
PROPERTIES RefinesRetention
