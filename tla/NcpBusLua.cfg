\* Two peers and one well-formed line; Lua publishes an entry and defers two
\* tasks.  One round per drain: what a callback publishes is left over.
CONSTANTS
    t = t
    a = a
    Peers = {t, a}
    Tui = t
    Nobody = Nobody
    Lua = Lua
    CascadeCap = 1
    TickBurst = 1
    MaxLines = 1
    MaxInbound = 1
    MaxDerived = 1
    MaxTasks = 2
SPECIFICATION Spec
INVARIANTS
    BusInOrder
PROPERTIES
    TaskRuns
