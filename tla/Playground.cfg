SPECIFICATION Spec
CONSTANTS
    k1 = k1
    k2 = k2
    Groups = {n}
    Checks <- MCChecks
    MaxThreshold = 2
    MaxCommands = 2
    MaxFlips = 2
    MaxFaults = 1
    None = None
INVARIANTS
    TypeOK
    OneEntry
    AlertsAgree
PROPERTY AlertFollows
CHECK_DEADLOCK FALSE
