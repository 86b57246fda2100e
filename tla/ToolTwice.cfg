SPECIFICATION Spec
CONSTANTS
    Tabs = {t1, t2}
    MaxCalls = 2
    MaxTasks = 2
    MaxClicks = 3
    MaxSwitches = 0
    MaxStops = 0
    MaxFaults = 0
INVARIANT RunsOnce
CHECK_DEADLOCK FALSE
