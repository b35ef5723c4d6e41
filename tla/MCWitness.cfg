CONSTANTS
    Address = {1, 2}
    Slot = {0, 1}
    ChunkNumber = {0}
    verkleNodeWidth = 5
    headerStorageOffset = 2
    codeOffset = 4
    mainStorageOffset = 3
    Word = {Zero, w}
    Zero = Zero
    w = w
    Unset = Unset
    Unknown = Unknown
    BalanceMod = 2
    ChunkLen = 2
    MaxProofs = 2
    Code <- MCCode
    Update <- MCUpdate
SPECIFICATION WitnessSpec
INVARIANTS WitnessTypeOK AnswersMatchRoot KnownIfFunded DenialsAreRight ElementsTellAnswers
