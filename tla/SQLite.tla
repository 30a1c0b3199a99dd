------------------------------- MODULE SQLite -------------------------------
(***************************************************************************)
(* SQLiteBackend (src/backend/sqlite.cpp).  The tables of a scope share one *)
(* connection in serialized mode: each statement is atomic, and statements *)
(* of different threads interleave, also inside an open savepoint.  mem is *)
(* what the connection reads; disk is what has been committed.  They       *)
(* differ only while a savepoint is open.                                  *)
(***************************************************************************)
EXTENDS Backend

CONSTANT MaxByte     \* 0xFF

\* Keys are strings of bytes, of which a store holds finitely many; None is no string.
ASSUME ByteAssumption ==
    /\ MaxByte \in Nat
    /\ Keys \subseteq Seq(0..MaxByte) /\ IsFiniteSet(Keys)
    /\ None \notin Seq(0..MaxByte)

(***************************************************************************)
(* The engine (external): a write outside every savepoint commits by       *)
(* itself; RELEASE of the oldest savepoint commits and drops the younger   *)
(* ones; ROLLBACK TO restores what its savepoint saw and drops the younger *)
(* ones; both fail when the savepoint is gone.  A commit that fails leaves *)
(* the savepoint open.                                                     *)
(***************************************************************************)
SavepointAt(th) == {i \in DOMAIN savepoints : savepoints[i].id = th}
Own(th) == CHOOSE i \in SavepointAt(th) : \A j \in SavepointAt(th) : j <= i

SQLiteWrite(m) ==
    /\ mem' = m
    /\ disk' = IF savepoints = <<>> THEN m ELSE disk
    /\ UNCHANGED <<savepoints, dirty>>

SQLiteKeep == UNCHANGED <<disk, mem, savepoints, dirty>>

ReleaseSavepoint(th) ==
    /\ savepoints' = SubSeq(savepoints, 1, Own(th) - 1)
    /\ disk' = IF Own(th) = 1 THEN mem ELSE disk
    /\ UNCHANGED <<mem, dirty>>

RollbackToSavepoint(th) ==
    /\ mem' = savepoints[Own(th)].saw
    /\ savepoints' = SubSeq(savepoints, 1, Own(th))
    /\ UNCHANGED <<disk, dirty>>

Changed == {c \in Cells : mem'[c] # mem[c]}

(* put and del: one INSERT OR REPLACE or DELETE; v = None deletes. *)
SQLitePut(th, c, v) ==
    \/ /\ SQLiteWrite([mem EXCEPT ![c] = v])
       /\ NoFault
       /\ Return(th, TRUE, {c}, Only(c, v))
    \/ Refuse(th)

(* batch that does not open a savepoint: every op commits by itself. *)
SQLiteBatchAutocommit(th) ==
    /\ Continue(th, [call[th] EXCEPT !.phase = "ops"], {})
    /\ UNCHANGED <<disk, mem, savepoints, dirty, faults>>

(***************************************************************************)
(* batch: SAVEPOINT, the ops one statement at a time, RELEASE; after a     *)
(* failed or ill-formed op ROLLBACK TO and RELEASE with their errors       *)
(* ignored.  Savepoints that overlap share one transaction, so that the    *)
(* batches in them are no longer alone with any cell.                      *)
(***************************************************************************)
SQLiteBatch(th) ==
    LET overlap == savepoints # <<>>
        crowd == {savepoints[i].id : i \in DOMAIN savepoints}
    IN  \/ /\ savepoints' = Append(savepoints, [id |-> th, saw |-> mem])
           /\ call' = [u \in Threads |->
                 LET c == IF u = th THEN [call[u] EXCEPT !.phase = "ops"] ELSE call[u]
                 IN  IF overlap /\ u \in crowd \cup {th}
                     THEN [c EXCEPT !.alone = {}] ELSE c]
           /\ reply' = NoReply
           /\ UNCHANGED <<disk, mem, dirty, must, faults>>
        \/ Refuse(th)

(* The next op of the batch; an ill-formed or a failing one gives up. *)
SQLiteBatchOp(th) ==
    LET op == Head(call[th].todo)
        give == [call[th] EXCEPT !.phase = "rollback"]
    IN  \/ /\ ~IllFormed(op)
           /\ SQLiteWrite(ApplyOp(mem, op))
           /\ NoFault
           /\ Continue(th, [call[th] EXCEPT !.todo = Tail(@)], CellsOf(<<op>>))
        \/ /\ IF IllFormed(op) THEN NoFault ELSE Fault
           /\ SQLiteKeep
           /\ Continue(th, give, {})

(* A failed batch that only releases its savepoint. *)
SQLiteRollbackForgotten(th) ==
    /\ SQLiteKeep
    /\ NoFault
    /\ Continue(th, [call[th] EXCEPT !.phase = "cleanup"], {})

(* ROLLBACK TO, its result ignored. *)
SQLiteRollback(th) ==
    /\ IF SavepointAt(th) = {} THEN SQLiteKeep ELSE RollbackToSavepoint(th)
    /\ NoFault
    /\ Continue(th, [call[th] EXCEPT !.phase = "cleanup"], Changed)

(* The RELEASE after a rollback: the batch reports its failure. *)
SQLiteCleanup(th) ==
    /\ \/ SavepointAt(th) = {} /\ SQLiteKeep /\ NoFault
       \/ SavepointAt(th) # {} /\ ReleaseSavepoint(th) /\ NoFault
       \/ SavepointAt(th) # {} /\ SQLiteKeep /\ Fault
    /\ GroupFailed(th, Stored)

(* The final RELEASE: without its savepoint, or when the commit fails, the  *)
(* batch reports an error and leaves the connection as it is.              *)
SQLiteRelease(th) ==
    \/ SavepointAt(th) = {} /\ SQLiteKeep /\ NoFault /\ GroupFailed(th, {})
    \/ SavepointAt(th) # {} /\ ReleaseSavepoint(th) /\ NoFault /\ GroupDone(th, Stored)
    \/ SavepointAt(th) # {} /\ SQLiteKeep /\ Fault /\ GroupFailed(th, {})

(***************************************************************************)
(* Reads.                                                                  *)
(***************************************************************************)
SQLiteGet(th, c) == Answer("get", Only(c, mem[c])) \/ Refuse(th)

(* get_many: the value of a key is moved out of the map of found rows at   *)
(* its first occurrence; a repeated key gets the emptied string.           *)
SQLiteGetMany(th, t, ks) ==
    LET moved(i) == \E j \in 1..(i - 1) : ks[j] = ks[i]
    IN  \/ Answer("get_many",
               [i \in DOMAIN ks |-> <<<<t, ks[i]>>,
                  IF mem[<<t, ks[i]>>] # None /\ moved(i) THEN <<>>
                  ELSE mem[<<t, ks[i]>>]>>])
        \/ Refuse(th)

(* prefix_upper_bound: drop trailing 0xFF bytes, increment the last other   *)
(* one; None when there is no other.                                       *)
PrefixUpperBound(prefix) ==
    LET low == {i \in DOMAIN prefix : prefix[i] < MaxByte}
    IN  IF low = {} THEN None
        ELSE LET i == CHOOSE i \in low : \A j \in low : j <= i
             IN  Append(SubSeq(prefix, 1, i - 1), prefix[i] + 1)

(* A range that includes its upper bound. *)
InRangeInclusive(prefix, k) ==
    \/ prefix = <<>>
    \/ /\ ~Less(k, prefix)
       /\ IF PrefixUpperBound(prefix) = None THEN IsPrefix(prefix, k)
          ELSE ~Less(PrefixUpperBound(prefix), k)

(* The rows the SELECT of a scan ranges over. *)
InRange(prefix, k) ==
    \/ prefix = <<>>
    \/ /\ ~Less(k, prefix)
       /\ IF PrefixUpperBound(prefix) = None THEN IsPrefix(prefix, k)
          ELSE Less(k, PrefixUpperBound(prefix))

(* The scan of a prefix without an upper bound takes a failing step for the *)
(* end of the table.                                                       *)
Unbounded(prefix) == prefix # <<>> /\ PrefixUpperBound(prefix) = None

(* One sqlite3_step of prefix_scan or foreach_scan: the next row after the  *)
(* last one, as the connection sees the table now, or the end of the table. *)
SQLiteScanStep(th) ==
    LET c == call[th]
        t == ScanTable(th)
        rows == {k \in Present(mem, t) :
                    InRange(c.prefix, k) /\ (c.last = None \/ Less(c.last, k))}
        row == First(rows)
        end == [c EXCEPT !.tables = Tail(@), !.last = None]
    IN  \/ /\ NoFault /\ SQLiteKeep
           /\ Continue(th, IF rows = {} THEN end
                           ELSE [c EXCEPT !.last = row,
                                          !.got = Merged(@, Only(<<t, row>>, mem[<<t, row>>]))], {})
        \/ (Unbounded(c.prefix) => c.last = None) /\ Refuse(th)
        \/ Unbounded(c.prefix) /\ Fault /\ SQLiteKeep /\ Continue(th, end, {})

(* open_scope_db and the factory's cache: the first table of a scope opens *)
(* the connection, the others share it.  The factory is gone when the tree *)
(* is built; a caller that kept it would keep the connection as well.      *)
SQLiteOpen == mem' = disk /\ savepoints' = <<>> /\ UNCHANGED <<disk, dirty>>

(* close that leaves the shared connection open in its transaction. *)
SQLiteCloseKeepsOpen == UNCHANGED <<disk, mem, savepoints, dirty>>

(* The last handle of the scope closes the connection, which drops what is *)
(* not committed.                                                          *)
SQLiteClose == mem' = disk /\ savepoints' = <<>> /\ UNCHANGED <<disk, dirty>>
=============================================================================
