CONSTANTS
    Values <- FewValues
    SampleCap = 3
    Log1p <- Tenths
    MaxRows = 4
CHECK_DEADLOCK FALSE
SPECIFICATION Spec
INVARIANTS
    ScoresMatchTwoPasses
    SampleIsOfRows
    MedianSplitsErrors
