CONSTANTS
    Key = {k1, k2, k3}
    SampledKey = {k1, k2}
    Value = {Zero, v}
    k1 = k1
    k2 = k2
    k3 = k3
    v = v
    Zero = Zero
    Unset = Unset
    Garbled = Garbled
    TooShort = TooShort
    MaxServed = 2
    Writes <- MCWrites
    Before <- MCBefore
SPECIFICATION Spec
INVARIANTS TypeOK WholeSnapshotsRestore VerifierAgrees
PROPERTIES RestoreIsServedOrReported
