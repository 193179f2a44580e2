SPECIFICATION Spec
CONSTANTS
    alice = alice
    bob = bob
    h1 = h1
    h2 = h2
    Users <- MCUsers
    Perms = {p}
    Handlers <- MCHandlers
    MaxFaults = 2
    None = None
SYMMETRY MCSymmetry
INVARIANTS
    OneOwner
    ActsForOwner
    AnswersHold
PROPERTY OwnerStays
