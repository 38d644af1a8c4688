CONSTANTS
    Scope = {"admission"}
    Sessions = {s1, s2}
    MaxBrowsers = 1
    MaxRequests = 2
    MaxQueue = 2
    MaxCookies = 0
    MaxTime = 0
    SessionTtl = 0
    IdleTtl = 0
SPECIFICATION MCSpec
INVARIANTS
    OneBrowserAtATime
CHECK_DEADLOCK FALSE
