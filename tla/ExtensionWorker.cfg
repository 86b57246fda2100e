SPECIFICATION MCSpec
CONSTANTS
    Interval = 1
    Horizon = 2
    Slots = {s1, s2}
    NoSlot = NoSlot
    NoTime = NoTime
    MaxEdits = 1
    MaxKills = 1
    None = None
    Tabs = {t1, t2}
    Sessions = {u1, u2}
    Handlers = {h1, h2}
    Devices = {d1}
    Requests = {r1, r2}
    MaxTokens = 3
    Grace = 1
    MaxTime = 2
INVARIANTS FutureHasAlarm ServerHoldsOurs FacadeIsAttached GrantUsedOnce LostAnswersAreForgiven
PROPERTIES RevokedGetsNothing DueScheduleIsRun
CHECK_DEADLOCK FALSE
