CONSTANTS
    Scope = {"sequences", "disturbed"}
    Sessions = {s1, s2}
    MaxBrowsers = 1
    MaxRequests = 4
    MaxQueue = 1
    MaxCookies = 1
    MaxTime = 2
    SessionTtl = 1
    IdleTtl = 0
SPECIFICATION MCSpec
INVARIANTS
    SelectionIsCurrent
PROPERTIES
    NoScreenshotOfPassword
    DeliveryIsChecked
    ResponsesAreScreened
    ClosedSessionIsInert
    ExpiryIsFinal
CHECK_DEADLOCK FALSE
