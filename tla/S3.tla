--------------------------------- MODULE S3 ---------------------------------
(***************************************************************************)
(* S3Backend (src/backend/s3.cpp): every operation is one or several       *)
(* requests to the object store, which executes each of them atomically    *)
(* and at once (external); disk is the bucket and mem always equal to it.  *)
(* A write request that fails may have been executed all the same: only    *)
(* its answer was lost.                                                    *)
(***************************************************************************)
EXTENDS Backend

S3Set(m) == disk' = m /\ mem' = m /\ UNCHANGED <<savepoints, dirty>>
S3Keep == S3Set(disk)
S3Lost(m) == Fault /\ (S3Set(m) \/ S3Keep)

(* put and del: PutObject or DeleteObject; v = None deletes. *)
S3Put(th, c, v) ==
    \/ S3Set([disk EXCEPT ![c] = v]) /\ NoFault /\ Return(th, TRUE, {c}, Only(c, v))
    \/ S3Lost([disk EXCEPT ![c] = v]) /\ Return(th, FALSE, {c}, <<>>)

(***************************************************************************)
(* batch: looks at every op, then sends the puts one request each, in      *)
(* order, and after them one DeleteObjects for all deletes.  It stops at   *)
(* the first request that fails; DeleteObjects may delete some of its keys *)
(* and report errors for the others.                                       *)
(***************************************************************************)
Puts(ops) == Select(ops, {op \in Range(ops) : op.kind = "put"})
Dels(ops) == Select(ops, {op \in Range(ops) : op.kind = "del"})

S3Batch(th) ==
    LET ops == call[th].todo
    IN  /\ S3Keep /\ NoFault
        /\ IF \E i \in DOMAIN ops : IllFormed(ops[i])
           THEN GroupFailed(th, {})
           ELSE Continue(th, [call[th] EXCEPT !.todo = Puts(ops) \o Dels(ops),
                                              !.phase = "ops"], {})

S3BatchPut(th) ==
    LET op == Head(call[th].todo)
    IN  /\ op.kind = "put"
        /\ \/ /\ S3Set(ApplyOp(disk, op)) /\ NoFault
              /\ Continue(th, [call[th] EXCEPT !.todo = Tail(@)], CellsOf(<<op>>))
           \/ S3Lost(ApplyOp(disk, op)) /\ GroupFailed(th, CellsOf(<<op>>))

S3BatchDelete(th) ==
    LET gone == CellsOf(call[th].todo)
        without(some) == [c \in Cells |-> IF c \in some THEN None ELSE disk[c]]
    IN  /\ Head(call[th].todo).kind = "del"
        /\ \/ /\ S3Set(without(gone)) /\ NoFault
              /\ Continue(th, [call[th] EXCEPT !.todo = <<>>], gone)
           \/ \E some \in SUBSET gone :
                 S3Set(without(some)) /\ Fault /\ GroupFailed(th, gone)

(* Every request has succeeded, or there was none to send. *)
S3BatchEnd(th) == S3Keep /\ NoFault /\ GroupDone(th, {})

(***************************************************************************)
(* stream_put: a multipart upload with one part per chunk of the input.    *)
(* The object appears when the upload completes.  A chunk the input fails  *)
(* to give, or a part that fails, aborts the upload.  An upload without    *)
(* parts cannot complete (external), nor can one whose request fails; it   *)
(* stays open in the bucket.                                               *)
(***************************************************************************)
S3StreamPut(th, c, v) ==
    /\ \/ /\ NoFault
          /\ Continue(th, [op |-> "stream_put", cell |-> c, rest |-> v,
                           parts |-> <<>>, alone |-> {c}], {})
       \/ Fault /\ Return(th, FALSE, {}, <<>>)
    /\ S3Keep

(* An input that fails is taken for one that has ended. *)
S3UploadPartTruncates(th) ==
    LET c == call[th]
    IN  /\ S3Keep
        /\ \/ /\ c.rest # <<>> /\ NoFault
              /\ Continue(th, [c EXCEPT !.parts = Append(@, Head(c.rest)),
                                        !.rest = Tail(@)], {})
           \/ Fault /\ Continue(th, [c EXCEPT !.rest = <<>>], {})

(* The next chunk becomes a part; a failure aborts the upload. *)
S3UploadPart(th) ==
    LET c == call[th]
    IN  /\ S3Keep
        /\ \/ /\ c.rest # <<>> /\ NoFault
              /\ Continue(th, [c EXCEPT !.parts = Append(@, Head(c.rest)),
                                        !.rest = Tail(@)], {})
           \/ Fault /\ Return(th, FALSE, {}, <<>>)

S3Complete(th) ==
    LET c == call[th]
    IN  /\ c.rest = <<>>
        /\ \/ /\ c.parts # <<>> /\ NoFault
              /\ S3Set([disk EXCEPT ![c.cell] = c.parts])
              /\ Return(th, TRUE, {c.cell}, Only(c.cell, c.parts))
           \/ /\ c.parts # <<>>
              /\ S3Lost([disk EXCEPT ![c.cell] = c.parts])
              /\ Return(th, FALSE, {c.cell}, <<>>)
           \/ c.parts = <<>> /\ NoFault /\ S3Keep /\ Return(th, FALSE, {}, <<>>)

(***************************************************************************)
(* get and stream_get: one ranged request per chunk until the range is     *)
(* past the end or the object is gone; get takes an empty result for an    *)
(* absent object.                                                          *)
(***************************************************************************)
S3Get(th, c) ==
    /\ S3Keep /\ NoFault
    /\ Continue(th, [op |-> "get", cell |-> c, got |-> <<>>, alone |-> {c}], {})

S3GetChunk(th) ==
    LET c == call[th]
        v == disk[c.cell]
        at == Len(c.got) + 1
    IN  /\ S3Keep
        /\ \/ /\ v # None /\ NoFault
              /\ at <= Len(v)
              /\ Continue(th, [c EXCEPT !.got = Append(@, v[at])], {})
           \/ /\ NoFault
              /\ v # None => at > Len(v)
              /\ Becomes(th, Idle, {})
              /\ reply' = [op |-> "get", ok |-> TRUE,
                           got |-> [x \in c.alone |->
                                      IF c.got = <<>> THEN None ELSE c.got]]
              /\ UNCHANGED must
           \/ Fault /\ Return(th, FALSE, {}, <<>>)

(***************************************************************************)
(* stream_scan: pages of keys (here of one key each), and a request for    *)
(* the value of every key on the page.  The listed key has the scan's      *)
(* prefix cut off.  An object deleted after it was listed fails the scan.  *)
(***************************************************************************)
ListedKey(prefix, k) == SubSeq(k, Len(prefix) + 1, Len(k))

S3ScanList(th) ==
    LET c == call[th]
        t == ScanTable(th)
        ks == {k \in Present(disk, t) :
                  IsPrefix(c.prefix, k) /\ (c.last = None \/ Less(c.last, k))}
    IN  /\ ~c.listed
        /\ S3Keep
        /\ \/ /\ NoFault
              /\ Continue(th, IF ks = {}
                              THEN [c EXCEPT !.tables = Tail(@), !.last = None]
                              ELSE [c EXCEPT !.last = First(ks), !.listed = TRUE], {})
           \/ Fault /\ Return(th, FALSE, {}, <<>>)

S3ScanGet(th) ==
    LET c == call[th]
        t == ScanTable(th)
        v == disk[<<t, c.last>>]
    IN  /\ c.listed
        /\ S3Keep
        /\ \/ /\ v # None /\ NoFault
              /\ Continue(th, [c EXCEPT !.listed = FALSE, !.got =
                                 Merged(@, Only(<<t, ListedKey(c.prefix, c.last)>>, v))], {})
           \/ v = None /\ NoFault /\ Return(th, FALSE, {}, <<>>)
           \/ v # None /\ Fault /\ Return(th, FALSE, {}, <<>>)

(* The factory binds a key prefix to the shared client; close drops it. *)
S3Open == S3Keep
S3Close == S3Keep
=============================================================================
