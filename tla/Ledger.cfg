CONSTANTS
    fund = fund
    builder1 = builder1
    builder2 = builder2
    user = user
    Accounts = {fund, builder1, builder2, user}
    ArcadiaFund = fund
    Builders = {builder1, builder2}
    Whitelisted = {user}
    NoRecord = NoRecord
    NoActor = NoActor
    EpochLength = 2
    MaxUint = 7
    Fees = {1}
    Prices = {1, 2}
    MaxHeight = 3
    MaxAllocs = 3
    MaxActions = 2
    MaxTxs = 2
SPECIFICATION Spec
SYMMETRY Symmetry
INVARIANTS
    TypeOK
    SupplyConserved
    AddNeverOverflows
    RecordedBuilderPaid
PROPERTIES
    BuilderFixedOnceEpochBegins
