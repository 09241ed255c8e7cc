\* Every history of up to five entries over two ids and the empty one.
CONSTANTS
    Ids = {i1, i2}
    NoId = NoId
    MaxLen = 5
SPECIFICATION Spec
INVARIANTS
    HistoryWellFormed
    RepairIsRight
