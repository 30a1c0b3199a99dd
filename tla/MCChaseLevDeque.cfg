CONSTANTS
    Leases = {l1, l2, l3}
    Owner = owner
    Thieves = {h1, h2}
    Wakers = {}
    NoLease = NoLease
    Torn = Torn
    InitialCapacity = 1
    MaxIndex = 3
SPECIFICATION Spec
SYMMETRY Symmetry
INVARIANTS
    TypeOK
    StableSteal
    NoLeaseLost
    ExclusiveUntilRace
PROPERTY ImplementsWorkDeque
CHECK_DEADLOCK FALSE
