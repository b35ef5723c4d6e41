CONSTANTS
    Address = {a1, a2}
    a1 = a1
    a2 = a2
    Slot <- MCSlot
    ChunkNumber = {0, 1}
    verkleNodeWidth = 5
    headerStorageOffset = 2
    codeOffset = 4
    mainStorageOffset = 3
    Word = {Zero, w}
    Zero = Zero
    w = w
    Unset = Unset
    BalanceMod = 2
    ChunkLen = 2
    Code <- MCCode
    Update <- MCUpdates
    Byte = {0, 1, 4, 5}
    PUSH1 = 1
    PUSH32 = 4
    ChunkSize = 3
    MaxLen = 7
    Half = 2
    Limb = 2
    FieldOrder = 5
    StemNumber = {4}
SPECIFICATION MCSpec
CHECK_DEADLOCK FALSE
INVARIANTS TypeOK CodeMatchesHash EmptyStorageExact
INVARIANTS CodeTypeOK PrefixIsPushData ChunksStandAlone MergeRestores
INVARIANTS VectorsTellLeaf UpdateIsCommit
PROPERTIES RefinesLedger
