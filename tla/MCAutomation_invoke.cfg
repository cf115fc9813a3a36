SPECIFICATION AutomationSpec
CONSTANTS
    Jobs = {j1}
    j1 = j1
    Triggers = {t1, t2}
    t1 = t1
    t2 = t2
    Changes = {c1}
    c1 = c1
    Ticks <- EverySecondTick
    MaxClock = 4
    MaxJobFaults = 0
    MaxToggles = 0
INVARIANT AutomationInvokes
CHECK_DEADLOCK FALSE
