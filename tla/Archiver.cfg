CONSTANTS
    MaxHeight = 3
    MaxTime = 3
    MayFail = TRUE
    MayCrash = TRUE
    MaxBlocks = 2
    Queries <- AllQueries
SPECIFICATION FairSpec
INVARIANTS
    HeadersConsecutive
    ReplyOrdered
    PrevAdjacentIfArchived
    CommitmentsGapless
    RequestedBlocksFound
PROPERTY EventuallyArchived
