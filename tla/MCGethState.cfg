CONSTANTS
    Address = {1}
    Zero = Zero
    Absent = Absent
    Hashed = Hashed
    w = w
    MaxFaults = 2
    Code <- MCCode
    LongCode <- MCLong
    Update <- MCUpdate
SPECIFICATION Spec
INVARIANTS TypeOK SourceBacksRoot CodeMatchesHash RetryCompletes
PROPERTIES SuccessIsDurable RefinesLedger ApplyReturns
