CONSTANTS
    Null = Null
    Tables <- MCTables
    FetchSizes <- MCFetchSizes
    BatchSizes <- MCBatchSizes
SPECIFICATION ResultFairSpec
INVARIANTS
    RowsReadBack
    TrailerCounts
    CommitFollowsTrailer
    ResultsCleared
PROPERTIES
    StreamEnds
    KeepsResultProtocol
CHECK_DEADLOCK FALSE
