\* The default chat, one completion id, two call ids of the model, two turns.
CONSTANTS
    x = x
    y = y
    Chats = {d}
    Default = d
    Requests = {r}
    Ids = {x, y}
    CallerIds = {}
    None = None
    Vacant = Vacant
    QueueCap = 1
    MaxAttempts = 1
    MaxRounds = 2
    MaxIterations = 1
    Batches <- MCBatches
    MaxTurns = 2
SPECIFICATION Spec
CHECK_DEADLOCK FALSE
INVARIANTS
    TurnsAccounted
    WaitersMatch
    CallsAreAnswered
PROPERTIES
    SuppressedStaysSilent
    OnlyTheEndpointStalls
