CONSTANTS
    c1 = c1
    c2 = c2
    m1 = m1
    m2 = m2
    NoName = NoName
    Clients <- TwoClients
    Names <- TwoNames
    MaxFits = 2
    StartTables <- AnyTable
    Faults <- AllFaults
SPECIFICATION Spec
SYMMETRY Symmetry
INVARIANTS
    VersionsContiguous
    EveryRowIsOneFit
    AckedIsStored
    SchemaReadyBeforeUse
    ForeignTableUntouched
    CallsNeverWait
PROPERTIES
    CallsMoveForward
    ImplementsVersionedRegistry
