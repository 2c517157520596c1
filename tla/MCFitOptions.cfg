CONSTANTS
    Width = 4
    Inputs <- AllInputs
CHECK_DEADLOCK FALSE
SPECIFICATION OptionsSpec
INVARIANTS
    RangesDecide
