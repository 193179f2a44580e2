SPECIFICATION Spec
CONSTANTS
    alice = alice
    bob = bob
    erp1 = erp1
    erp2 = erp2
    Users <- MCUsers
    Subjects <- MCSubjects
    Perms = {p}
    MaxTokens = 2
    MaxFaults = 1
    NoBinding = NoBinding
    NoWAL = NoWAL
    Unsettled = Unsettled
INVARIANT DenialSurvivesRestart
