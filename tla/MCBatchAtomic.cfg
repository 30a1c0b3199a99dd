CONSTANTS
    t1 = t1
    t2 = t2
    t3 = t3
    Threads = {a1}
    Tables = {t1, t2}
    Names = {t1, t2, t3}
    Hash <- MCHash
    Absent = Absent
    Keys <- MCKeys
    Values <- MCValues
    None = None
    Unknown = Unknown
    MaxFaults = 1
    MaxByte = 2
    MaxCalls = 1
    TableList <- MCTableList
    Found <- MCFound
    Kinds = {"rocksdb"}
    WriteArgs <- MCWriteArgs
    StreamArgs <- MCStreamArgs
    BatchArgs <- MCBatchArgs
    GetArgs <- MCGetArgs
    ManyArgs <- MCManyArgs
    ScanArgs <- MCScanArgs
SPECIFICATION Spec
INVARIANT BatchAtomic
