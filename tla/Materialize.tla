----------------------------- MODULE Materialize -----------------------------
(***************************************************************************)
(* Writing a stream of records into a table                                *)
(* (include/celer/materialization/materialize.hpp).                        *)
(*                                                                         *)
(* One call of materialize runs at a time.  It streams the source, a log   *)
(* that only grows, from its beginning, and writes batches into the view.  *)
(* It may end with an error at every call it makes of the source, the key  *)
(* function, the codec or the store; a process that dies there leaves the  *)
(* same behind, since all else is local to the call.                       *)
(*                                                                         *)
(* A record is its target key and value.  Keys are ordered numbers, 0 the  *)
(* empty string, which the code also takes for "no key".                   *)
(***************************************************************************)
EXTENDS Integers, Sequences

CONSTANTS
    MaxKey,     \* bound: the keys are 0 .. MaxKey
    Values,     \* the encoded values
    Absent,     \* no row under a key
    BatchSize,  \* flush_batch_size (0 does what 1 does)
    MaxLog      \* bound: how many records the source gets

ASSUME ConstantsAssumption ==
    /\ MaxKey \in Nat
    /\ Absent \notin Values
    /\ BatchSize \in Nat \ {0}
    /\ MaxLog \in Nat

Keys    == 0..MaxKey
Records == [key : Keys, value : Values]
Modes   == {"Upsert", "Replace", "Delta", "DryRun"}  \* Append is Upsert

VARIABLES
    log,        \* the source
    view,       \* the rows of the target table
    watermark,  \* last_key of the watermark record in the target, 0 if there is none
    pc,         \* where the call is
    mode,       \* MaterializeOptions::mode
    prefixed,   \* replace_prefix covers the rows only, and not the watermark record
    doomed,     \* what prefix_scan found
    floor,      \* delta_floor
    pos,        \* how many records were pulled
    pending,    \* pending
    last_key,   \* MaterializeResult::last_key
    torn        \* history: a Replace has deleted rows that no complete run has written since

job  == <<mode, prefixed, doomed, floor, pos, pending, last_key>>
vars == <<log, view, watermark, pc, job, torn>>

-----------------------------------------------------------------------------
\* batch: the puts in order, so the last one for a key counts.
LastFor(s, i) == \A j \in DOMAIN s : j > i => s[j].key # s[i].key

Written(table, s) ==
    [k \in Keys |->
        IF \E i \in DOMAIN s : s[i].key = k
        THEN s[CHOOSE i \in DOMAIN s : s[i].key = k /\ LastFor(s, i)].value
        ELSE table[k]]

Erased(table, ks) == [k \in Keys |-> IF k \in ks THEN Absent ELSE table[k]]

-----------------------------------------------------------------------------
(* The source *)

Grow(r) ==
    /\ Len(log) < MaxLog
    /\ log' = Append(log, r)
    /\ UNCHANGED <<view, watermark, pc, job, torn>>

-----------------------------------------------------------------------------
(* materialize *)

Start(m, p) ==
    /\ pc = "idle"
    /\ pc' = CASE m = "Replace" -> "scan" [] m = "Delta" -> "floor" [] OTHER -> "pull"
    /\ mode' = m
    /\ prefixed' = p
    /\ doomed' = {}
    /\ floor' = 0
    /\ pos' = 0
    /\ pending' = <<>>
    /\ last_key' = 0
    /\ UNCHANGED <<log, view, watermark, torn>>

\* Replace: find what is there ...
Scan ==
    /\ pc = "scan"
    /\ doomed' = {k \in Keys : view[k] # Absent}
    /\ pc' = "wipe"
    /\ UNCHANGED <<log, view, watermark, mode, prefixed, floor, pos, pending, last_key, torn>>

\* ... and delete it, the watermark record too if the prefix covers it.
Wipe ==
    /\ pc = "wipe"
    /\ view' = Erased(view, doomed)
    /\ watermark' = IF prefixed THEN watermark ELSE 0
    /\ torn' = (torn \/ doomed # {})
    /\ pc' = "pull"
    /\ UNCHANGED <<log, job>>

\* Delta: read the watermark record.
ReadFloor ==
    /\ pc = "floor"
    /\ floor' = watermark
    /\ pc' = "pull"
    /\ UNCHANGED <<log, view, watermark, mode, prefixed, doomed, pos, pending, last_key, torn>>

Skips(r) == mode = "Delta" /\ floor # 0 /\ r.key <= floor

Skip ==
    /\ pc = "pull"
    /\ pos < Len(log)
    /\ Skips(log[pos + 1])
    /\ pos' = pos + 1
    /\ UNCHANGED <<log, view, watermark, pc, mode, prefixed, doomed, floor, pending, last_key, torn>>

\* Mutant of Row: a full batch is not flushed.
RowNeverFull ==
    /\ pc = "pull"
    /\ pos < Len(log)
    /\ ~Skips(log[pos + 1])
    /\ pos' = pos + 1
    /\ pending' = Append(pending, log[pos + 1])
    /\ last_key' = IF log[pos + 1].key > last_key THEN log[pos + 1].key ELSE last_key
    /\ UNCHANGED <<log, view, watermark, pc, mode, prefixed, doomed, floor, torn>>

Row ==
    /\ pc = "pull"
    /\ pos < Len(log)
    /\ ~Skips(log[pos + 1])
    /\ pos' = pos + 1
    /\ pending' = Append(pending, log[pos + 1])
    /\ last_key' = IF log[pos + 1].key > last_key THEN log[pos + 1].key ELSE last_key
    /\ pc' = IF Len(pending) + 1 >= BatchSize THEN "flush" ELSE "pull"
    /\ UNCHANGED <<log, view, watermark, mode, prefixed, doomed, floor, torn>>

\* Mutants of EndOfStream: no last flush; the watermark before the last flush.
EndOfStreamUnflushed ==
    /\ pc = "pull"
    /\ pos = Len(log)
    /\ pc' = "mark"
    /\ UNCHANGED <<log, view, watermark, job, torn>>

EndOfStreamMarks ==
    /\ pc = "pull"
    /\ pos = Len(log)
    /\ pc' = "last"
    /\ watermark' = IF mode = "Delta" /\ last_key # 0 THEN last_key ELSE watermark
    /\ UNCHANGED <<log, view, job, torn>>

EndOfStream ==
    /\ pc = "pull"
    /\ pos = Len(log)
    /\ pc' = "last"
    /\ UNCHANGED <<log, view, watermark, job, torn>>

Flush ==
    /\ pc \in {"flush", "last"}
    /\ view' = IF mode = "DryRun" THEN view ELSE Written(view, pending)
    /\ pending' = <<>>
    /\ pc' = IF pc = "flush" THEN "pull" ELSE "mark"
    /\ UNCHANGED <<log, watermark, mode, prefixed, doomed, floor, pos, last_key, torn>>

\* Mutant of Mark: the watermark is written even when no row was.
MarkAlways ==
    /\ pc = "mark"
    /\ mode = "Delta"
    /\ watermark' = last_key
    /\ pc' = "idle"
    /\ UNCHANGED <<log, view, job, torn>>

Mark ==
    /\ pc = "mark"
    /\ mode = "Delta"
    /\ last_key # 0
    /\ watermark' = last_key
    /\ pc' = "idle"
    /\ UNCHANGED <<log, view, job, torn>>

Finish ==
    /\ pc = "mark"
    /\ mode = "Delta" => last_key = 0
    /\ torn' = (torn /\ mode \in {"Delta", "DryRun"})
    /\ pc' = "idle"
    /\ UNCHANGED <<log, view, watermark, job>>

-----------------------------------------------------------------------------
(* Errors *)

\* Of prefix_scan, get, the stream, the key function, the codec or the last put.
Fail ==
    /\ \/ pc \in {"scan", "floor", "pull"}
       \/ pc = "mark" /\ mode = "Delta" /\ last_key # 0
    /\ pc' = "idle"
    /\ UNCHANGED <<log, view, watermark, job, torn>>

\* A batch that fails may have done a part, as those of S3 and QPDF do.
WipeFails(ks) ==
    /\ pc = "wipe"
    /\ doomed # {} \/ (~prefixed /\ watermark # 0)
    /\ ks \subseteq doomed
    /\ view' = Erased(view, ks)
    /\ \/ UNCHANGED watermark
       \/ ~prefixed /\ watermark' = 0
    /\ torn' = (torn \/ ks # {})
    /\ pc' = "idle"
    /\ UNCHANGED <<log, job>>

FlushFails(n) ==
    /\ pc \in {"flush", "last"}
    /\ mode # "DryRun"
    /\ n <= Len(pending)
    /\ pending # <<>>
    /\ view' = Written(view, SubSeq(pending, 1, n))
    /\ pc' = "idle"
    /\ UNCHANGED <<log, watermark, job, torn>>

-----------------------------------------------------------------------------
Init ==
    /\ log = <<>>
    /\ view \in [Keys -> Values \union {Absent}]
    /\ watermark = 0
    /\ pc = "idle"
    /\ mode = "Upsert"
    /\ prefixed = FALSE
    /\ doomed = {}
    /\ floor = 0
    /\ pos = 0
    /\ pending = <<>>
    /\ last_key = 0
    /\ torn = FALSE

Next ==
    \/ \E r \in Records : Grow(r)
    \/ \E m \in Modes, p \in BOOLEAN : Start(m, p)
    \/ Scan \/ Wipe \/ ReadFloor \/ Skip \/ Row \/ EndOfStream \/ Flush \/ Mark \/ Finish
    \/ Fail
    \/ \E ks \in SUBSET Keys : WipeFails(ks)
    \/ \E n \in 0..BatchSize : FlushFails(n)

Spec == Init /\ [][Next]_vars

-----------------------------------------------------------------------------
(* Properties *)

\* The variables have their types, and pending never outgrows what was reserved.
TypeOK ==
    /\ log \in Seq(Records)
    /\ view \in [Keys -> Values \union {Absent}]
    /\ watermark \in Keys
    /\ pc \in {"idle", "scan", "wipe", "floor", "pull", "flush", "last", "mark"}
    /\ mode \in Modes
    /\ prefixed \in BOOLEAN
    /\ doomed \subseteq Keys
    /\ floor \in Keys
    /\ pos \in 0..Len(log)
    /\ pending \in Seq(Records)
    /\ Len(pending) <= BatchSize
    /\ last_key \in Keys
    /\ torn \in BOOLEAN

Increasing(s) == \A i, j \in DOMAIN s : i < j => s[i].key < s[j].key

\* The watermark never runs ahead of the rows: if the source is in key order,
\* every record up to the watermark is in the view, whatever runs failed and
\* wherever.  A Replace that deleted rows and then failed is the exception, which
\* no Delta run repairs.
DeltaComplete ==
    Increasing(log) /\ ~torn =>
        \A i \in DOMAIN log :
            watermark # 0 /\ log[i].key <= watermark => view[log[i].key] = log[i].value

\* "last-writer wins on key collision", over batches and within one; and after
\* Replace nothing else is left.  When a run is about to return, the view has for
\* each key the value of its last record.
FinishedView ==
    pc = "mark" /\ mode \in {"Upsert", "Replace"} =>
        \A k \in Keys :
            \/ \E i \in 1..pos :
                  /\ log[i].key = k
                  /\ log[i].value = view[k]
                  /\ \A j \in (i + 1)..pos : log[j].key # k
            \/ /\ \A i \in 1..pos : log[i].key # k
               /\ mode = "Replace" => view[k] = Absent

\* The watermark only advances, in order or out of order, run after run; a
\* Replace of the whole table alone takes it away.
WatermarkAdvances ==
    [][watermark' # watermark =>
          \/ watermark' > watermark
          \/ mode = "Replace" /\ ~prefixed]_vars

=============================================================================
