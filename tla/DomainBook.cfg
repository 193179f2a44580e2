SPECIFICATION Spec
CONSTANTS
    w1 = w1
    w2 = w2
    h1 = h1
    h2 = h2
    Creds = {c}
    Workers <- MCWorkers
    Domains = {1}
    Categories = {"default"}
    Handlers <- MCHandlers
    MaxCommands = 2
    MaxFaults = 1
    None = None
SYMMETRY MCSymmetry
INVARIANTS
    TypeOK
    StoreConsistent
    BookAgrees
PROPERTY RepointNeedsForce
