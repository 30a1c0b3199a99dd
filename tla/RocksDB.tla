------------------------------ MODULE RocksDB ------------------------------
(***************************************************************************)
(* RocksDBBackend (src/backend/rocksdb.cpp): one database per table.  Every *)
(* operation is one call of the engine, which is thread-safe and logs a    *)
(* write before it answers, so that the contents survive a crash of the    *)
(* process; disk and mem are always equal.                                 *)
(***************************************************************************)
EXTENDS Backend

RocksSet(m) == disk' = m /\ mem' = m /\ UNCHANGED <<savepoints, dirty>>
RocksKeep == RocksSet(disk)

(* put and del: v = None deletes. *)
RocksPut(th, c, v) ==
    \/ /\ RocksSet([disk EXCEPT ![c] = v])
       /\ NoFault
       /\ Return(th, TRUE, {c}, Only(c, v))
    \/ Refuse(th)

(* batch: every put is looked at before the WriteBatch is written at once. *)
RocksBatch(th) ==
    LET ops == call[th].todo
        ill == \E i \in DOMAIN ops : IllFormed(ops[i])
    IN  \/ /\ ~ill
           /\ RocksSet(ApplyOps(disk, ops))
           /\ NoFault
           /\ GroupDone(th, CellsOf(ops))
        \/ /\ IF ill THEN NoFault ELSE Fault
           /\ RocksKeep
           /\ GroupFailed(th, {})

RocksGet(th, c) == Answer("get", Only(c, mem[c])) \/ Refuse(th)

(* get_many: MultiGet, one answer per requested key, repeated keys included. *)
RocksGetMany(th, t, ks) ==
    \/ Answer("get_many", [i \in DOMAIN ks |-> <<<<t, ks[i]>>, mem[<<t, ks[i]>>]>>])
    \/ Refuse(th)

(* prefix_scan, foreach_scan and stream_scan: an iterator over a snapshot. *)
RocksScan(th) ==
    \/ Continue(th, ScanWhole(th), {}) /\ RocksKeep /\ NoFault
    \/ Refuse(th)

(* Opening recovers the database from its log; closing deletes the handle. *)
RocksOpen == RocksKeep
RocksClose == RocksKeep
=============================================================================
