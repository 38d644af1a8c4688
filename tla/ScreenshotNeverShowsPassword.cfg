CONSTANTS
    Scope = {"sequences"}
    Sessions = {s1, s2}
    MaxBrowsers = 1
    MaxRequests = 4
    MaxQueue = 1
    MaxCookies = 0
    MaxTime = 0
    SessionTtl = 0
    IdleTtl = 0
SPECIFICATION MCSpec
INVARIANTS
    ScreenshotNeverShowsPassword
CHECK_DEADLOCK FALSE
