CONSTANTS
    Namespaces = {n1, n2}
    Addresses = {a1, a2}
    NoInfo = NoInfo
    NoActor = NoActor
    EpochLength = 2
    MaxHeight = 2
    MaxEpoch = 3
    MaxBlockRegs = 2
    ExitEpochs = {1}
SPECIFICATION ReaderSpec
SYMMETRY Symmetry
VIEW View
INVARIANTS
    RegistryMatchesInfo
    ExitsConsistent
    OptOutNotBeforeOptIn
    OnlyAuthority
    ReplyComplete
    SnapshotIfQuiet
PROPERTIES
    FirstChangeLeavesNotice
