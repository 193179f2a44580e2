SPECIFICATION LockSpec
CONSTANTS
    Callers = {handler, callback, worker}
    Accounts = {alice, bob}
    Locks = {l1, l2, l3}
    Nil = Nil
INVARIANTS
    MutualExclusion
    NoLeak
PROPERTY EveryWaiterServed
