CONSTANTS
    Null = Null
    Tables <- MCTables
    FetchSizes <- MCFetchSizes
    BatchSizes <- MCBatchSizes
SPECIFICATION ResultSpec
INVARIANTS
    BinaryCells
CHECK_DEADLOCK FALSE
