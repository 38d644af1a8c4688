CONSTANTS
    Scope = {"service"}
    Platforms <- MCPlatforms
    Launchers = {l1, l2}
    Runs = {r1, r2}
    MaxSetups = 2
    MaxFaults = 1
    Versions = {v1, v2}
SPECIFICATION MCSpec
PROPERTIES
    UninstallSparesOthers
CHECK_DEADLOCK FALSE
