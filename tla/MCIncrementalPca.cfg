CONSTANTS
    NFeatures = 2
    Requests = {1, 2, 3}
    Values <- FewValues
    MaxRows = 5
    Unit = 60
CHECK_DEADLOCK FALSE
SPECIFICATION Spec
INVARIANTS
    MomentsMatchTwoPasses
    ScatterIsExact
    ComponentsReachRequested
    EvaluationAgrees
    StoredPcaIsRead
