\* One plugin process, an interrupt and a runtime process.
CONSTANTS
    p = p
    m = m
    Conns = {p}
    Watched = {p}
    Codes = {3}
    Graces = {1}
    CloseGrace = 1
    ForcedGrace = 1
    MaxLines = 0
    MaxInterrupts = 1
    MaxRuntime = 1
SPECIFICATION Spec
PROPERTIES
    ShutdownReturns
    ExitReported
    ClosingReclaimed
