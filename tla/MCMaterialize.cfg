CONSTANTS
    MaxKey = 2
    Values = {v1, v2}
    Absent = Absent
    BatchSize = 2
    MaxLog = 3
SPECIFICATION Spec
INVARIANTS
    TypeOK
    DeltaComplete
    FinishedView
PROPERTY WatermarkAdvances
