\* One plugin process and one in-memory transport, a line each; the last wait is over at once.
CONSTANTS
    p = p
    m = m
    Conns = {p, m}
    Watched = {p}
    Codes = {3}
    Graces = {1}
    CloseGrace = 1
    ForcedGrace = 0
    MaxLines = 1
    MaxInterrupts = 0
    MaxRuntime = 0
SPECIFICATION Spec
INVARIANTS
    RecordsAgree
    ReportsInOrder
