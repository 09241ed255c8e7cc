\* Two peers and three lines; Lua publishes nothing of its own.
CONSTANTS
    t = t
    a = a
    Peers = {t, a}
    Tui = t
    Nobody = Nobody
    Lua = Lua
    CascadeCap = 2
    TickBurst = 2
    MaxLines = 3
    MaxInbound = 3
    MaxDerived = 0
    MaxTasks = 0
SPECIFICATION Spec
INVARIANTS
    BusInOrder
    PopupsShownOnce
