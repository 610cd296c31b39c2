CONSTANTS
    MinBatchSize = 2
    MaxCores = 2
    MaxCount = 6
SPECIFICATION Spec
CHECK_DEADLOCK FALSE
INVARIANTS
    AllVerified
    NoAddAfterHandOver
