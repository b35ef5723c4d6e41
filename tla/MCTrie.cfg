CONSTANTS
    Byte <- MCByte
    StemLen = 3
    Stem <- MCStem
    Suffix <- MCSuffix
    Value = {Zero, v}
    Zero = Zero
    v = v
    Unset = Unset
SPECIFICATION Spec
INVARIANTS TypeOK UnsetReadsZero DepthInBounds CacheFresh CommitIsCanonical
PROPERTIES RefinesKVStore CallsReturn
