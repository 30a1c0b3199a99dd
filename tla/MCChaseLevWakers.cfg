CONSTANTS
    Leases = {l1, l2}
    Owner = owner
    Thieves = {h1}
    Wakers = {w1}
    NoLease = NoLease
    Torn = Torn
    InitialCapacity = 2
    MaxIndex = 2
SPECIFICATION Spec
SYMMETRY Symmetry
INVARIANT NoLeaseLost
CHECK_DEADLOCK FALSE
