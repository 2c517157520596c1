CONSTANTS
    t1 = t1
    t2 = t2
    Threads <- TwoThreads
    ModelTypes <- Both
    Tables <- AllTables
    NullCells <- SomeNulls
    NFeatures = 2
    FlushRows = 2
    InsertOutcomes <- AnyOutcome
    WriteFaults = TRUE
CHECK_DEADLOCK FALSE
SPECIFICATION FairSpec
INVARIANTS
    TrainingRowsAreTableRows
    ModelHoldsEveryRow
    NoRowTwice
    StoredAtMostOnce
    LoneFailureStoresNothing
    MemoryIsBounded
    NoBatchFileLeft
PROPERTIES
    QueryEnds
