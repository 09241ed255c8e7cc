\* Two run ids and sessions, one actor; two executes, two requests, two refusals.
CONSTANTS
    Runs = {r1, r2}
    Sessions = {s1, s2}
    Actors = {a}
    NoRun = NoRun
    MaxRequests = 2
    MaxCaps = 2
    MaxRefusals = 2
SYMMETRY Symmetry
SPECIFICATION Spec
INVARIANTS
    RunsAccounted
    WorkAccounted
    LossReported
PROPERTIES
    SettledOnce
CHECK_DEADLOCK FALSE
