CONSTANTS
    Txs = {t1, t2}
    Registering = {t1}
    Clients = {c1}
    Fees = {1, 2}
    None = None
    MaxBlocks = 2
    MaxRestarts = 2
SPECIFICATION FairSpec
INVARIANTS
    IndexComplete
    AnswerTruthful
    IndexedIsRegistered
PROPERTIES
    WaitEnds
    ImplementsLog
