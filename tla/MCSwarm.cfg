CONSTANTS
    MaxActors = 2
    External = External
    System = System
    Capacity = 2
    Outside <- MCOutside
    MaxSends = 2
    MaxRounds = 3
    MaxClusters = 2
    MaxStrays = 1
    NoCluster = NoCluster
SPECIFICATION SwarmSpec
INVARIANTS
    TypeOK
    AtMostOnce
    LostOnlyWhenFull
    FreshSeq
    SenderOrder
    OneCluster
PROPERTY DrainQuiesces
