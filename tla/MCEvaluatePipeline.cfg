CONSTANTS
    t1 = t1
    t2 = t2
    Threads <- TwoThreads
    ModelTypes <- Both
    Tables <- FewTables
    NullCells <- SomeNulls
    Features = {"x"}
CHECK_DEADLOCK FALSE
SPECIFICATION FairSpec
INVARIANTS
    EvaluatedChunks
PROPERTIES
    MissesOnlyWhatOthersHold
    QueryEnds
