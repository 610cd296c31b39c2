CONSTANTS
    Calls = {c1, c2}
    Payloads = {m}
    n1 = n1
    n2 = n2
    Namespaces = {n1, n2}
    Units = 2
    NsUnits <- MCNsUnits
    Prices <- MCPrices
    PriorityFees = {40}
    Modulus = 64
    Second = 2
    Window = 2
    LastCall = 1
    NoTx = NoTx
SPECIFICATION FairSpec
CHECK_DEADLOCK FALSE
INVARIANTS
    FeeCovered
    NeverPaysMore
    ResultIsOwn
PROPERTIES
    CallEnds
