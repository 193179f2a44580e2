SPECIFICATION Spec
CONSTANTS
    ping = ping
    api = api
    web = web
    other = other
    h1 = h1
    h2 = h2
    Names <- MCNames
    Static = {ping}
    Fit <- MCFit
    Handlers <- MCHandlers
    MaxFaults = 1
    MaxRestarts = 1
    NoJob = NoJob
SYMMETRY MCSymmetry
INVARIANTS
    CommandsAnswered
    MenuAnswered
    MenuAgrees
