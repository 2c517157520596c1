CONSTANTS
    c1 = c1
    c2 = c2
    m1 = m1
    m2 = m2
    NoName = NoName
    Clients <- TwoClients
    Names <- OneName
    MaxFits = 2
    StartTables <- NoTable
    Faults <- NoFaults
SPECIFICATION Spec
SYMMETRY Symmetry
INVARIANTS
    FailedFitLeavesNoRow
