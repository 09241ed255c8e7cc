\* Two callers, two accounts, two user acts, three tokens.
CONSTANTS
    Tasks = {t1, t2}
    Accounts = {a, b}
    None = None
    MaxTokens = 3
    MaxEras = 2
SPECIFICATION Spec
CHECK_DEADLOCK FALSE
INVARIANTS
    CredentialsStand
    SessionTruthful
PROPERTIES
    CallsReturn
