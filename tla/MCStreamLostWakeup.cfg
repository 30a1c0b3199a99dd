CONSTANTS
    Streams = {s1}
    Workers = {w1, w2}
    None = None
    HighWatermark = 1
    IOs = {io1, io2}
    Word = 8
    MaxCredits = 2
    MaxPolls = 2
SPECIFICATION Spec
INVARIANT NoLostWakeup
CHECK_DEADLOCK FALSE
