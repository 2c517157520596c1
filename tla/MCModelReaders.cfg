CONSTANTS
    Readers = {1}
    Names = {1, 2}
    Tables <- FewTables
    Labels <- OneLabel
    MaxModels = 2
    PageSize = 2
    ChunkRows = 2
SPECIFICATION Spec
INVARIANTS
    OutputsAreOfTheirRows
    RefusedOnlyWhenMissing
    ChunksByOneVersion
    PagesListSnapshot
