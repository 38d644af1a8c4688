CONSTANTS
    Scope = {"execute"}
    Platforms <- MCPlatforms
    Launchers = {l1, l2}
    Runs = {r1, r2}
    MaxSetups = 1
    MaxFaults = 1
    Versions = {v1, v2}
SPECIFICATION MCSpec
INVARIANTS
    RollbackRestores
CHECK_DEADLOCK FALSE
