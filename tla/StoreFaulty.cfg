SPECIFICATION Spec
CONSTANTS
    alice = alice
    bob = bob
    erp1 = erp1
    erp2 = erp2
    Users <- MCUsers
    Subjects <- MCSubjects
    Perms = {p}
    MaxTokens = 3
    MaxFaults = 2
    NoBinding = NoBinding
    NoWAL = NoWAL
    Unsettled = Unsettled
SYMMETRY MCSymmetry
INVARIANTS
    IdentityUnique
    RemovedStaysRemoved
    GrantsNeedBinding
    RotatedTokenRecoverable
    AckedDurable
PROPERTY ImplementsRegistry
