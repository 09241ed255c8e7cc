\* One call, two sources, two tools of which one is denied by setting; a source
\* may end what it prepared.
CONSTANTS
    s1 = s1
    s2 = s2
    read = read
    rm = rm
    o1 = o1
    Sources = {s1, s2}
    Tools = {read, rm}
    Denied = {rm}
    Outer = {o1}
    MaxCalls = 1
    ModesSet = {"safe", "auto", "yolo"}
    Offers = {"absent", "routed", "native"}
    MaxUses = 1
    MaxStreams = 1
    SourceMay = {"leave undecided", "end prepared"}
SPECIFICATION Spec
CHECK_DEADLOCK FALSE
INVARIANTS
    OneOwner
    RunsOnlyWhenAllowed
    NotRunMeansNotRun
    CallsHeld
PROPERTIES
    ForwardedOnceAndUnsettled
    StopReleasesSources
