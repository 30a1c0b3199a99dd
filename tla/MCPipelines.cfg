CONSTANTS
    k1 = k1
    k2 = k2
    v1 = v1
    v2 = v2
    Bad = Bad
    Absent = Absent
    Emptied = Emptied
    NoKey = NoKey
    DefaultBatch = 4
    NetworkBatch = 3
    Fn <- MCFn
    Pred <- MCPred
    Sub <- MCSub
    Child <- MCChild
    Extract <- MCExtract
    Jobs <- MCJobs
SPECIFICATION Spec
INVARIANTS
    ExactOutput
    CloneContinues
PROPERTIES
    StopIsFinal
    Drains
CHECK_DEADLOCK FALSE
