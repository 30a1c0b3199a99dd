CONSTANTS
    Tasks = {t1, t2, t3}
    Workers = {w1, w2}
SPECIFICATION Spec
INVARIANTS
    TypeOK
    RunOnce
    ShutdownFinishesWork
PROPERTIES
    ShutdownReturns
    SubmittedRuns
CHECK_DEADLOCK FALSE
