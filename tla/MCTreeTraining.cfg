CONSTANTS
    BatchLists <- FewBatchLists
    Methods <- Both
    Iterations = {1, 3}
    ParallelTrees = {1, 2}
    NFeatures = 2
    MaxPasses = 3
CHECK_DEADLOCK FALSE
SPECIFICATION Spec
INVARIANTS
    PassesAreComplete
    ModelHoldsWholeTable
    PredictorUsesEveryRound
    StoredTreeIsRead
PROPERTIES
    TrainingEnds
