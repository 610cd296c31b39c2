CONSTANTS
    Namespaces = {n1}
    Addresses = {a1}
    NoInfo = NoInfo
    NoActor = NoActor
    EpochLength = 1
    MaxHeight = 2
    MaxEpoch = 3
    MaxBlockRegs = 1
    ExitEpochs = {}
    MaxQueue = 1
SPECIFICATION Spec
PROPERTIES
    OptedInStaysListed
