SPECIFICATION Spec
CONSTANTS
    alice = alice
    bob = bob
    Users <- MCUsers
    TicketTTL = 2
    TransactionTTL = 2
    MaxLogins = 3
    MaxTime = 5
    MaxLag = 1
    MaxFaults = 1
SYMMETRY MCSymmetry
INVARIANTS
    SpentStaysSpent
    LoginInOneStage
    OneTicketPerUser
    FileAgrees
PROPERTY LoginWindow
