\* One chat, one request id and one web request id, two turns; the endpoint may fail without end.
CONSTANTS
    Chats = {c}
    Requests = {r}
    Webs = {w}
    None = None
    Vacant = Vacant
    MaxTurns = 2
SPECIFICATION Spec
CHECK_DEADLOCK FALSE
INVARIANTS
    TurnsAccounted
PROPERTIES
    OnlyOwnerFinishes
    TurnsEnd
