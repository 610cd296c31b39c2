CONSTANTS
    Namespaces = {n1}
    Addresses = {a1}
    NoInfo = NoInfo
    NoActor = NoActor
    EpochLength = 1
    MaxHeight = 3
    MaxEpoch = 4
    MaxBlockRegs = 1
    ExitEpochs = {3}
SPECIFICATION ChainSpec
PROPERTIES
    ParticipantListFinal
