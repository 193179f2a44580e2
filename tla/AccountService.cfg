SPECIFICATION Spec
CONSTANTS
    alice = alice
    erp1 = erp1
    erp2 = erp2
    Users <- MCUsers
    Subjects <- MCSubjects
    Handlers = {h1}
    Workers = {w1}
    MaxTokens = 3
    MaxFaults = 1
    MaxCrashes = 1
    Mishaps = {"lost", "stray"}
    None = None
SYMMETRY MCSymmetry
INVARIANTS
    TypeOK
    RefreshKeepsBinding
    TokenStaysLive
    UnbindWins
    NoStrayToken
