CONSTANTS
    MaxActors = 1
    External = External
    System = System
    Capacity = 1
    Outside <- MCOutside
    MaxSends = 1
    MaxRounds = 1
SPECIFICATION Spec
INVARIANT SafeRetry
