CONSTANTS
    b1 = b1
    b2 = b2
    c1 = c1
    Bridges <- MCBridges
    Callers <- MCCallers
    NumServices <- MCNumServices
    LoginServices <- MCLoginServices
    MaxPending = 2
    MaxRefused = 1
    Launchers = {l1, l2}
SPECIFICATION MCSpec
INVARIANTS
    TeardownIsExact
    NothingAfterStop
    BridgeMatchesSnapshot
    HelperSessionIsSound
PROPERTIES
    OfferIsAllOrNothing
    CloseEnds
    DriftIsApplied
    StopCompletes
    HelperSessionsSettle
CHECK_DEADLOCK FALSE
