SPECIFICATION Spec
CONSTANTS
    Minute = 2
    Ahead = 6
    Interval = 10
    Lifetimes = {8, 18}
    SweepTime = 2
    MaxFaults = 1
    MaxRestarts = 1
    Tolerated = 2
    NoExpiry = NoExpiry
    NoBinding = NoBinding
INVARIANTS
    PermissionBounded
    OneFailureForgiven
PROPERTIES
    DenialHeeded
    StaysScheduled
