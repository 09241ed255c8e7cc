\* Two calls under one outer id, of a source that may end what it prepared.
CONSTANTS
    s1 = s1
    s2 = s2
    read = read
    rm = rm
    o1 = o1
    Sources = {s1}
    Tools = {read}
    Denied = {}
    Outer = {o1}
    MaxCalls = 2
    ModesSet = {"safe", "yolo"}
    Offers = {"absent", "routed"}
    MaxUses = 2
    MaxStreams = 1
    SourceMay = {"end prepared"}
SPECIFICATION Spec
CHECK_DEADLOCK FALSE
INVARIANTS
    SettledAtMostOnce
PROPERTIES
    CancelReleases
