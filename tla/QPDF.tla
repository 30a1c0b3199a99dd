-------------------------------- MODULE QPDF --------------------------------
(***************************************************************************)
(* QPDFBackend (src/backend/qpdf.cpp): the tables of a scope are           *)
(* dictionaries of one PDF document, kept in memory under a mutex (mem) and *)
(* rewritten as a whole to a temporary file that is renamed over the old   *)
(* one (disk).  Every operation holds the mutex, so it is one step; a crash *)
(* between the temporary file and the rename is a crash before the step.   *)
(***************************************************************************)
EXTENDS Backend

(* flush_locked that does not report a failed write. *)
QPDFFlushUnreported(m, isDirty, ok) ==
    /\ mem' = m
    /\ UNCHANGED savepoints
    /\ ok
    /\ \/ NoFault /\ disk' = (IF isDirty THEN m ELSE disk) /\ dirty' = FALSE
       \/ isDirty /\ Fault /\ UNCHANGED disk /\ dirty' = TRUE

(* flush_locked when the document is m: nothing to do when it is clean,    *)
(* and it stays dirty when the file could not be written.  A flush also    *)
(* brings to the file what calls that failed before left in the document.  *)
QPDFFlush(m, isDirty, ok) ==
    /\ mem' = m
    /\ UNCHANGED savepoints
    /\ \/ ok /\ NoFault /\ disk' = (IF isDirty THEN m ELSE disk) /\ dirty' = FALSE
       \/ ~ok /\ isDirty /\ Fault /\ UNCHANGED disk /\ dirty' = TRUE

(* get_table_dict_locked: a table that has no dictionary yet gets one, and *)
(* the document is dirty.                                                  *)
MakesDict(t) == {FALSE, Present(mem, t) = {}}

(* put, and del with v = None.  del of a key that is not there returns     *)
(* without a flush, also when the document is ahead of the file because an *)
(* earlier del could not write it: such an answer promises nothing.        *)
QPDFPut(th, c, v) ==
    \/ /\ v # None \/ mem[c] # None
       /\ \E ok \in BOOLEAN :
             /\ QPDFFlush([mem EXCEPT ![c] = v], TRUE, ok)
             /\ Return(th, ok, {c} \cup Stored, IF ok THEN Only(c, v) ELSE <<>>)
    \/ /\ v = None /\ mem[c] = None
       /\ \E made \in MakesDict(c[1]) : dirty' = (dirty \/ made)
       /\ UNCHANGED <<disk, mem, savepoints>> /\ NoFault
       /\ Return(th, TRUE, {}, IF dirty THEN <<>> ELSE Only(c, None))

(* batch: the ops change the document one after the other, then one flush; *)
(* an ill-formed op returns at once and leaves the ops before it in the    *)
(* document, unflushed.                                                    *)
QPDFBatch(th) ==
    LET ops == call[th].todo
        ills == {i \in DOMAIN ops : IllFormed(ops[i])}
        stop == IF ills = {} THEN Len(ops) + 1
                ELSE CHOOSE i \in ills : \A j \in ills : i <= j
        run == SubSeq(ops, 1, stop - 1)
        after == ApplyOps(mem, run)
        touches == \/ dirty
                   \/ \E i \in DOMAIN run : run[i].kind = "put"
                   \/ after # mem
    IN  \E made \in MakesDict(call[th].cf) :
          \/ /\ ills # {}
             /\ mem' = after /\ dirty' = (touches \/ made)
             /\ UNCHANGED <<disk, savepoints>> /\ NoFault
             /\ GroupFailed(th, CellsOf(run))
          \/ /\ ills = {}
             /\ QPDFFlush(after, touches \/ made, TRUE)
             /\ GroupDone(th, CellsOf(run) \cup Stored)
          \/ /\ ills = {}
             /\ QPDFFlush(after, touches \/ made, FALSE)
             /\ GroupFailed(th, CellsOf(run))

(* compact: mark the document dirty and rewrite it. *)
QPDFCompact(th) ==
    \E ok \in BOOLEAN : QPDFFlush(mem, TRUE, ok) /\ Return(th, ok, Stored, <<>>)

(* get: the stream reads the value at its first pull, and an empty value   *)
(* cannot be told from an absent one.                                      *)
QPDFGet(c) == Answer("get", Only(c, IF mem[c] = <<>> THEN None ELSE mem[c]))

(* stream_scan: the stream copies and sorts the whole table at its first   *)
(* pull; prefix_scan and foreach_scan drain it.                            *)
QPDFScan(th) ==
    /\ UNCHANGED <<disk, mem, savepoints, dirty, faults>>
    /\ Continue(th, ScanWhole(th), {})

(* open_scope_pdf and the factory's cache: the first table of a scope reads *)
(* the file, or writes an empty one; the others share the document.        *)
QPDFOpen == mem' = disk /\ dirty' = FALSE /\ UNCHANGED <<disk, savepoints>>

(* close: every table of the scope flushes in turn, until one flush has    *)
(* succeeded, and lets go of the document; the destructor that calls close *)
(* ignores a failure.                                                      *)
QPDFClose ==
    \E failed \in 0..Cardinality(Tables) :
       /\ failed > 0 => dirty
       /\ faults + failed <= MaxFaults /\ faults' = faults + failed
       /\ disk' = IF dirty /\ failed < Cardinality(Tables) THEN mem ELSE disk
       /\ mem' = disk' /\ dirty' = FALSE /\ UNCHANGED savepoints
=============================================================================
