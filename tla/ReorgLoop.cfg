SPECIFICATION FairSpec
CONSTANTS
    None = None
    a1 = a1
    a2 = a2
    Adder = {a1, a2}
    Async = {a2}
    Private = {a2}
    HeadChan = 2
    MaxHead = 2
    MaxTicks = 1
    MaxEvents = 3
INVARIANTS
    OneRunAtATime
    ResetsContiguous
    ServedBeforeReturn
PROPERTIES
    CallsReturn
    StopEnds
    HeadsServed
CHECK_DEADLOCK FALSE
