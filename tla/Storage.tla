------------------------------ MODULE Storage ------------------------------
(***************************************************************************)
(* The store: celer::open builds the tree of a scope and its symbol table, *)
(* DbRef and TableRef route calls through it to one of the four backends,  *)
(* celer::close tears it down, and the process may crash.  Threads call    *)
(* concurrently; no lock is held above the backends.  A call on a closed   *)
(* store or an unknown table returns an error and changes nothing.         *)
(***************************************************************************)
EXTENDS RocksDB, SQLite, QPDF, S3, SymbolTable

CONSTANTS
    TableList,   \* the tables of the scope, in the order of the descriptors
    Found,       \* contents the first open may find on disk
    Kinds,       \* backends the store may be opened with
    WriteArgs,   \* <<cell, value>> of put, None for del
    StreamArgs,  \* <<cell, value>> of stream_put
    BatchArgs,   \* op sequences of batch
    GetArgs,     \* cells of get
    ManyArgs,    \* <<table, keys>> of get_many
    ScanArgs,    \* <<tables, prefix>> of scans
    MaxCalls     \* bound on calls

Ops == [cf : Names, key : Keys, kind : {"put", "del"}, value : Maybe]

ASSUME StorageAssumption ==
    /\ Kinds \subseteq {"rocksdb", "sqlite", "qpdf", "s3"}
    /\ TableList \in Seq(Tables) /\ Range(TableList) = Tables
    /\ Tables \subseteq Names
    /\ Found \subseteq [Cells -> Maybe]
    /\ WriteArgs \subseteq Cells \X Maybe
    /\ StreamArgs \subseteq Cells \X Values
    /\ BatchArgs \subseteq Seq(Ops)
    /\ GetArgs \subseteq Cells
    /\ \A a \in ManyArgs : a[1] \in Tables /\ a[2] \in Seq(Keys)
    /\ \A a \in ScanArgs : a[1] \in Seq(Tables) /\ a[2] \in Seq(0..MaxByte)
    /\ MaxCalls \in Nat

VARIABLES
    opened,      \* g_store holds a store
    calls        \* calls made so far

vars == <<backendVars, symVars, opened, calls>>

Init ==
    /\ kind \in Kinds
    /\ disk \in Found /\ mem = disk
    /\ savepoints = <<>> /\ dirty = FALSE
    /\ call = [th \in Threads |-> Idle] /\ reply = NoReply
    /\ must = disk
    /\ faults = 0
    /\ names = <<>> /\ slots = <<>> /\ filled = 0
    /\ opened = FALSE /\ calls = 0

(***************************************************************************)
(* Life cycle.                                                             *)
(***************************************************************************)
(* celer::open: build_tree opens a handle per table and starts the index;  *)
(* a factory that fails fails the whole open.                              *)
Open ==
    /\ ~opened /\ names = <<>>
    /\ reply' = NoReply
    /\ UNCHANGED <<kind, call, must, opened>>
    /\ \/ /\ NoFault /\ BuildStart(TableList)
          /\ \/ kind = "rocksdb" /\ RocksOpen
             \/ kind = "sqlite" /\ SQLiteOpen
             \/ kind = "qpdf" /\ QPDFOpen
             \/ kind = "s3" /\ S3Open
       \/ Fault /\ UNCHANGED <<symVars, disk, mem, savepoints, dirty>>

(* build_composite: the index is complete, and the store is published. *)
BuildIndex ==
    /\ ~opened /\ BuildNext
    /\ opened' = (filled' = Len(names))
    /\ UNCHANGED backendVars

(* celer::close destroys the tree, and every handle in it closes its table. *)
(* The callers have left before.                                           *)
Close ==
    /\ opened /\ \A th \in Threads : IsIdle(th)
    /\ \/ kind = "rocksdb" /\ NoFault /\ RocksClose
       \/ kind = "sqlite" /\ NoFault /\ SQLiteClose
       \/ kind = "qpdf" /\ QPDFClose
       \/ kind = "s3" /\ NoFault /\ S3Close
    /\ opened' = FALSE
    /\ names' = <<>> /\ slots' = <<>> /\ filled' = 0
    /\ reply' = NoReply
    /\ UNCHANGED <<kind, call, must>>

(* The process dies: only the disk is left. *)
Crash ==
    /\ opened /\ Fault
    /\ mem' = disk /\ dirty' = FALSE /\ savepoints' = <<>>
    /\ call' = [th \in Threads |-> Idle]
    /\ opened' = FALSE
    /\ names' = <<>> /\ slots' = <<>> /\ filled' = 0
    /\ reply' = NoReply
    /\ UNCHANGED <<kind, disk, must>>

(***************************************************************************)
(* Table operations.                                                       *)
(***************************************************************************)
(* db(scope).table(name): the handle, when the store is open and has it. *)
Table(t) == opened /\ Find(t) # Absent

Put(th, c, v) ==
    /\ Table(c[1]) /\ IsIdle(th)
    /\ \/ kind = "rocksdb" /\ RocksPut(th, c, v)
       \/ kind = "sqlite" /\ SQLitePut(th, c, v)
       \/ kind = "qpdf" /\ QPDFPut(th, c, v)
       \/ kind = "s3" /\ S3Put(th, c, v)

(* stream_put: all but S3 collect the input and put it; an input that      *)
(* fails half way is reported before anything is written.                  *)
StreamPut(th, c, v) ==
    /\ Table(c[1]) /\ IsIdle(th)
    /\ \/ kind # "s3" /\ Put(th, c, v)
       \/ kind = "s3" /\ S3StreamPut(th, c, v)

Compact(th) ==
    /\ opened /\ IsIdle(th)
    /\ kind = "qpdf" /\ QPDFCompact(th)

Get(th, c) ==
    /\ Table(c[1]) /\ IsIdle(th)
    /\ \/ kind = "rocksdb" /\ RocksGet(th, c)
       \/ kind = "sqlite" /\ SQLiteGet(th, c)
       \/ kind = "qpdf" /\ QPDFGet(c)
       \/ kind = "s3" /\ S3Get(th, c)

(* get_many of the backends that have one; the others loop over get. *)
GetMany(th, t, ks) ==
    /\ Table(t) /\ IsIdle(th)
    /\ \/ kind = "rocksdb" /\ RocksGetMany(th, t, ks)
       \/ kind = "sqlite" /\ SQLiteGetMany(th, t, ks)

(***************************************************************************)
(* node_prefix_scan and node_foreach: one table, or with an empty prefix   *)
(* all tables one after the other.                                         *)
(***************************************************************************)
Scan(th, ts, prefix) ==
    /\ opened /\ IsIdle(th)
    /\ Continue(th, [op |-> "scan", tables |-> ts, all |-> Range(ts),
                     prefix |-> prefix, last |-> None, listed |-> FALSE,
                     got |-> <<>>, alone |-> Range(ts) \X Keys], {})
    /\ UNCHANGED <<disk, mem, savepoints, dirty, faults>>

ScanNext(th) ==
    /\ call[th].op = "scan" /\ call[th].tables # <<>>
    /\ \/ kind = "rocksdb" /\ RocksScan(th)
       \/ kind = "sqlite" /\ SQLiteScanStep(th)
       \/ kind = "qpdf" /\ QPDFScan(th)
       \/ kind = "s3" /\ (S3ScanList(th) \/ S3ScanGet(th))

ScanReturn(th) ==
    /\ call[th].op = "scan" /\ call[th].tables = <<>>
    /\ Return(th, TRUE, {}, <<>>)
    /\ UNCHANGED <<disk, mem, savepoints, dirty, faults>>

(***************************************************************************)
(* node_batch: the ops are grouped by table, and the groups run one after  *)
(* the other in the order of an unordered map; an unknown table or a       *)
(* failing group ends the batch where it is.                               *)
(***************************************************************************)
Group(ops, cf) == Select(ops, {op \in Range(ops) : op.cf = cf})

Batch(th, ops) ==
    /\ opened /\ IsIdle(th)
    /\ Continue(th, [op |-> "batch", ops |-> ops, cf |-> None, todo |-> <<>>,
                     phase |-> "next", done |-> {},
                     before |-> [c \in CellsOf(ops) |-> disk[c]],
                     held |-> [c \in CellsOf(ops) |-> mem[c]],
                     alone |-> CellsOf(ops)], {})
    /\ UNCHANGED <<disk, mem, savepoints, dirty, faults>>

BatchNext(th) ==
    LET c == call[th]
        left == {c.ops[i].cf : i \in DOMAIN c.ops} \ c.done
    IN  /\ c.op = "batch" /\ c.phase = "next"
        /\ UNCHANGED <<disk, mem, savepoints, dirty, faults>>
        /\ \/ \E cf \in left :
                 IF Find(cf) = Absent THEN GroupFailed(th, {})
                 ELSE Continue(th, [c EXCEPT !.cf = cf, !.todo = Group(c.ops, cf),
                                             !.phase = "begin"], {})
           \/ left = {} /\ Return(th, TRUE, {}, [x \in c.alone |-> Outcome(c.ops)[x]])

BatchStep(th) ==
    LET c == call[th]
    IN  /\ c.op = "batch"
        /\ \/ kind = "rocksdb" /\ c.phase = "begin" /\ RocksBatch(th)
           \/ kind = "qpdf" /\ c.phase = "begin" /\ QPDFBatch(th)
           \/ kind = "sqlite" /\ c.phase = "begin" /\ SQLiteBatch(th)
           \/ kind = "sqlite" /\ c.phase = "ops" /\ c.todo # <<>> /\ SQLiteBatchOp(th)
           \/ kind = "sqlite" /\ c.phase = "ops" /\ c.todo = <<>> /\ SQLiteRelease(th)
           \/ kind = "sqlite" /\ c.phase = "rollback" /\ SQLiteRollback(th)
           \/ kind = "sqlite" /\ c.phase = "cleanup" /\ SQLiteCleanup(th)
           \/ kind = "s3" /\ c.phase = "begin" /\ S3Batch(th)
           \/ kind = "s3" /\ c.phase = "ops" /\ c.todo # <<>>
              /\ (S3BatchPut(th) \/ S3BatchDelete(th))
           \/ kind = "s3" /\ c.phase = "ops" /\ c.todo = <<>> /\ S3BatchEnd(th)

(* The remaining requests of S3's get and stream_put. *)
S3Step(th) ==
    \/ call[th].op = "get" /\ S3GetChunk(th)
    \/ call[th].op = "stream_put" /\ (S3UploadPart(th) \/ S3Complete(th))

Begin(th) ==
    \/ \E a \in WriteArgs : Put(th, a[1], a[2])
    \/ \E a \in StreamArgs : StreamPut(th, a[1], a[2])
    \/ Compact(th)
    \/ \E c \in GetArgs : Get(th, c)
    \/ \E a \in ManyArgs : GetMany(th, a[1], a[2])
    \/ \E a \in ScanArgs : Scan(th, a[1], a[2])
    \/ \E ops \in BatchArgs : Batch(th, ops)

Resume(th) ==
    \/ ScanNext(th) \/ ScanReturn(th)
    \/ BatchNext(th) \/ BatchStep(th)
    \/ S3Step(th)

ThreadStep(th) ==
    /\ \/ calls < MaxCalls /\ calls' = calls + 1 /\ Begin(th)
       \/ UNCHANGED calls /\ Resume(th)
    /\ UNCHANGED <<kind, symVars, opened>>

Next ==
    \/ (Open \/ BuildIndex \/ Close \/ Crash) /\ UNCHANGED calls
    \/ \E th \in Threads : ThreadStep(th)

Spec == Init /\ [][Next]_vars

(***************************************************************************)
(* Properties.                                                             *)
(***************************************************************************)
(* Shapes of the state of the store and its backend; a closed store holds  *)
(* nothing of its own: no open savepoint and no unflushed document.        *)
TypeOK ==
    /\ kind \in Kinds /\ opened \in BOOLEAN /\ calls \in 0..MaxCalls
    /\ dirty \in BOOLEAN
    /\ DOMAIN disk = Cells /\ DOMAIN mem = Cells
    /\ DOMAIN must = Cells
    /\ faults \in 0..MaxFaults
    /\ \A i \in DOMAIN savepoints : savepoints[i].id \in Threads
    /\ \A th \in Threads :
          /\ call[th].op \in {"idle", "batch", "scan", "get", "stream_put"}
          /\ call[th].alone \subseteq Cells
    /\ kind # "sqlite" => savepoints = <<>>
    /\ kind # "qpdf" => ~dirty
    /\ ~opened => mem = disk /\ savepoints = <<>> /\ ~dirty

(***************************************************************************)
(* A write that was acknowledged, and not followed by another write to its *)
(* cell, is on disk, so that it survives a crash at any point: RocksDB and *)
(* S3 at once, SQLite when no savepoint was open on the shared connection, *)
(* QPDF because an acknowledged call has flushed.  A del on QPDF that finds *)
(* nothing to do while the document is ahead of the file is excepted.      *)
(***************************************************************************)
AckedDurable == \A c \in Cells : must[c] # Unknown => disk[c] = must[c]

(***************************************************************************)
(* Every read returns the last acknowledged write of each cell that nobody *)
(* wrote while it ran: get (which takes an empty value for none on QPDF    *)
(* and S3), get_many (a repeated key of SQLite's excepted) and scans, over *)
(* one table or all, row by row or page by page, with the prefix as a range *)
(* of SQL keys or as a listing whose keys lose it.  Rows may be missing    *)
(* from a scan of SQLite's for a prefix that has no upper bound, which does *)
(* not report that it failed.                                              *)
(***************************************************************************)
Agrees(c, v) == must[c] # Unknown => v = must[c]
Repeated(got, i) == \E j \in 1..(i - 1) : got[j][1] = got[i][1]
CutShort(prefix) == kind = "sqlite" /\ Unbounded(prefix) /\ faults > 0
ScanKey(prefix, k) == IF kind = "s3" THEN ListedKey(prefix, k) ELSE k

ReadsAcked ==
    /\ reply.op = "get" /\ reply.ok =>
          \A c \in DOMAIN reply.got :
             Agrees(c, reply.got[c]) \/ (kind \in {"qpdf", "s3"} /\ must[c] = <<>>
                                         /\ reply.got[c] = None)
    /\ reply.op = "get_many" =>
          \A i \in DOMAIN reply.got :
             \/ Agrees(reply.got[i][1], reply.got[i][2])
             \/ kind = "sqlite" /\ Repeated(reply.got, i)
    /\ reply.op = "scan" /\ reply.ok =>
          LET c == reply.call
              rows == {x \in Cells : x[1] \in c.all /\ IsPrefix(c.prefix, x[2])}
              At(x) == <<x[1], ScanKey(c.prefix, x[2])>>
          IN  /\ DOMAIN c.got \subseteq {At(x) : x \in rows}
              /\ \A x \in rows \cap c.alone :
                    IF At(x) \in DOMAIN c.got THEN Agrees(x, c.got[At(x)])
                    ELSE Agrees(x, None) \/ CutShort(c.prefix)

(***************************************************************************)
(* While a batch on SQLite or RocksDB has not finished a table, none of    *)
(* that table's ops is on disk: a crash in the middle leaves the table as  *)
(* it was.  Batches whose savepoints overlapped are excepted: the release  *)
(* of one commits what the other has done so far.                          *)
(***************************************************************************)
BatchHidden ==
    \A th \in Threads :
        call[th].op = "batch" /\ kind \in {"rocksdb", "sqlite"} =>
            \A c \in call[th].alone :
                c[1] \notin call[th].done => disk[c] = call[th].before[c]

(***************************************************************************)
(* A failed batch has left a cell that nobody else wrote as it was before  *)
(* the batch: on disk, and on RocksDB and SQLite also for readers, unless a *)
(* failed commit has left a savepoint open.  Three cases in which the code *)
(* leaves something are excepted: the tables before the failing one, S3,   *)
(* which sends request after request, and QPDF's document when an earlier  *)
(* call has left it ahead of the file; what QPDF keeps of the batch in its *)
(* document until a next flush is not spoken of.                           *)
(***************************************************************************)
LeavesSome(b, c) ==
    \/ c[1] \in b.done
    \/ kind = "s3"
    \/ kind = "qpdf" /\ b.held[c] # b.before[c]

FailedBatch ==
    reply.op = "batch" /\ ~reply.ok =>
        \A c \in reply.call.alone :
            LeavesSome(reply.call, c)
            \/ /\ disk[c] = reply.call.before[c]
               /\ kind # "qpdf" /\ savepoints = <<>> => mem[c] = reply.call.before[c]

(***************************************************************************)
(* "Atomic batch across the scope." (include/celer/api/db_ref.hpp:59): of  *)
(* the cells that nobody else wrote, a failed batch has written all or     *)
(* none.  node_batch writes one table after the other.                     *)
(***************************************************************************)
BatchAtomic ==
    reply.op = "batch" /\ ~reply.ok =>
        LET b == reply.call
        IN  \/ \A c \in b.alone : disk[c] = b.before[c]
            \/ \A c \in b.alone : disk[c] = Outcome(b.ops)[c]

(***************************************************************************)
(* A stored value is always a whole value that some call was given: a      *)
(* streamed value whose input or upload fails half way is never stored     *)
(* truncated.                                                              *)
(***************************************************************************)
NoTornValue == \A c \in Cells : disk[c] \in Maybe /\ mem[c] \in Maybe
=============================================================================
