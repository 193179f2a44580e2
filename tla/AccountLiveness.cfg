SPECIFICATION Spec
CONSTANTS
    alice = alice
    erp1 = erp1
    erp2 = erp2
    Users <- MCUsers
    Subjects = {erp1}
    Handlers = {h1}
    Workers = {w1}
    MaxTokens = 2
    MaxFaults = 1
    MaxCrashes = 0
    Mishaps = {"dropped"}
    None = None
PROPERTIES
    DenialTakesEffect
    WorkEnds
