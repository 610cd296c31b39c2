CONSTANTS
    Namespaces = {n1}
    Addresses = {a1}
    NoInfo = NoInfo
    NoActor = NoActor
    EpochLength = 1
    MaxHeight = 3
    MaxEpoch = 4
    MaxBlockRegs = 2
    ExitEpochs = {3}
    MaxQueue = 2
SPECIFICATION FairSpec
INVARIANTS
    ServedIsCurrent
    NoneMissing
    ServedMatchesState
PROPERTIES
    ExitedIsDropped
