CONSTANTS
    t1 = t1
    t2 = t2
    Threads <- TwoThreads
    ModelTypes <- Pca
    Tables <- FullTables
    NullCells <- FeatureNulls
    NFeatures = 2
    FlushRows = 2
    InsertOutcomes <- Stored
    WriteFaults = FALSE
CHECK_DEADLOCK FALSE
SPECIFICATION Spec
INVARIANTS
    FailedQueryStoresNothing
