SPECIFICATION MCSpec
CONSTANTS
    Instances = {i1, i2}
    Claims = {c1, c2, c3}
    Nobody = Nobody
    NoTime = NoTime
    Postgres = TRUE
    CancelOn = {"chat.user_message"}
    MaxEvents = 2
    MaxCrashes = 1
    Occurrences = {1, 2, 4}
    Horizon = 4
    MaxChanges = 1
    Servers = {i1}
    PollInterval = 3
    TimerPoll = 1
    Jitter = {0, 1, 2}
    Lookahead = 0
    Slack = 5
    Starts = {3, 9}
    MaxTime = 20
    MaxEdits = 1
    MaxFaults = 1
INVARIANTS FiredOnce ClaimedOnce AlertNotMissed
PROPERTIES CancelledStays TimerFires
CHECK_DEADLOCK FALSE
