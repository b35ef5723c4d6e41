CONSTANTS
    Handle = {main, view}
    Main = main
    Block = {1, 2}
    MaxSize = 1
    SampledAddress = {a1}
    SampledSlot = {0}
    SampledChunk = {0}
    Address = {a1, a2}
    a1 = a1
    a2 = a2
    Slot = {0}
    ChunkNumber = {0}
    verkleNodeWidth = 5
    headerStorageOffset = 2
    codeOffset = 4
    mainStorageOffset = 3
    Word = {Zero, w}
    Zero = Zero
    w = w
    Unset = Unset
    BalanceMod = 2
    ChunkLen = 2
    Code <- MCCode
    Update <- SampledUpdate
SPECIFICATION Spec
INVARIANTS ArchivedAreServed
