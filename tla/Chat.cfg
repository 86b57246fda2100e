SPECIFICATION MCSpec
CONSTANTS
    w1 = w1
    w2 = w2
    a1 = a1
    a2 = a2
    Tabs = {t1, t2}
    MaxCalls = 2
    MaxTasks = 2
    MaxClicks = 3
    MaxSwitches = 1
    MaxStops = 1
    MaxFaults = 1
    Foreground = {d1, d2}
    Background = {d3, d4}
    MaxConcurrent = 1
    MaxAsync = 1
    MaxMessages = 6
    Locked = TRUE
    MaxRequests = 3
    MaxTreeFaults = 1
    Agents = {a1, a2}
    Workers = {w1, w2}
    Home <- TwoHomes
    MaxTurns = 3
    MaxPrompts = 1
    Postgres = TRUE
    MaxCallFaults = 1
INVARIANTS RunsOnlyApproved NeverStuck NothingDropped SlotsAreHeld
PROPERTY AnsweredExactlyOnce
CHECK_DEADLOCK FALSE
