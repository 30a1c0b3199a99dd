CONSTANTS
    t1 = t1
    t2 = t2
    t3 = t3
    Threads = {a1, a2}
    Tables = {t1, t2}
    Names = {t1, t2, t3}
    Hash <- MCHash
    Absent = Absent
    Keys <- MCKeys
    Values <- MCValues
    None = None
    Unknown = Unknown
    MaxFaults = 2
    MaxByte = 2
    MaxCalls = 2
    TableList <- MCTableList
    Found <- MCFound
    Kinds = {"rocksdb", "sqlite", "qpdf", "s3"}
    WriteArgs <- MCWriteArgs
    StreamArgs <- MCStreamArgs
    BatchArgs <- MCBatchArgs
    GetArgs <- MCGetArgs
    ManyArgs <- MCManyArgs
    ScanArgs <- MCScanArgs
SPECIFICATION Spec
SYMMETRY Symmetry
INVARIANTS
    TypeOK
    AckedDurable
    ReadsAcked
    BatchHidden
    FailedBatch
    NoTornValue
    FindIsIndex
