CONSTANTS
    Leases = {l1, l2}
    Owner = owner
    Thieves = {h1}
    Wakers = {}
    NoLease = NoLease
    Torn = Torn
    InitialCapacity = 2
    MaxIndex = 3
SPECIFICATION Spec
SYMMETRY Symmetry
INVARIANT LeaseExclusive
CHECK_DEADLOCK FALSE
