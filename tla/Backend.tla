------------------------------ MODULE Backend ------------------------------
(***************************************************************************)
(* What the four storage backends share: the contents of the tables of one *)
(* scope, on disk and as this process sees them, the calls the threads     *)
(* have in flight, and the bookkeeping the properties need.                *)
(*                                                                         *)
(* A cell is a (table, key) pair, a key a sequence of bytes and a value a  *)
(* sequence of chunks.  An operation that holds a lock, or is one call of  *)
(* a thread-safe engine, is one step; an operation made of several         *)
(* statements, requests or child operations is one step for each, kept in  *)
(* call.  Every failure of an engine, the file system or the network takes *)
(* one unit of a fault budget, and so does a crash of the process.         *)
(***************************************************************************)
EXTENDS Integers, Sequences, FiniteSets, SequencesExt, Selection, TLC

CONSTANTS
    Threads,
    Tables,      \* the tables of the scope
    Keys,        \* byte sequences
    Values,      \* chunk sequences; <<>> is the empty value
    None,        \* no value: an absent key, a put without a value
    Unknown,     \* no promise about a cell
    MaxFaults    \* bound on failures and crashes

ASSUME BackendAssumption ==
    /\ MaxFaults \in Nat /\ Keys # {} /\ Tables # {} /\ IsFiniteSet(Tables)
    /\ \A v \in Values : v \in Seq(Range(v))
    /\ None \notin Values /\ Unknown \notin Values \cup {None}

VARIABLES
    kind,        \* the backend the store was opened with
    disk,        \* cell -> value that survives a crash
    mem,         \* cell -> value the process reads
    savepoints,  \* SQLite: open savepoints of the shared connection, oldest first
    dirty,       \* QPDF: the document is ahead of the file
    call,        \* thread -> its call in flight
    reply,       \* what the last step returned to its caller
    must,        \* history: cell -> the last acknowledged write, or Unknown
    faults       \* failures so far

backendVars == <<kind, disk, mem, savepoints, dirty, call, reply, must, faults>>

Cells == Tables \X Keys
Maybe == Values \cup {None}
Only(c, v) == [x \in {c} |-> v]

Idle == [op |-> "idle", alone |-> {}]
NoReply == [op |-> "none"]
IsIdle(th) == call[th].op = "idle"

Fault == faults < MaxFaults /\ faults' = faults + 1
NoFault == UNCHANGED faults

(***************************************************************************)
(* Bookkeeping.  alone is the set of cells that no other call has written  *)
(* since a call began.  A written cell promises nothing until its call is  *)
(* acknowledged, and nothing either when that happens inside a savepoint   *)
(* that is still open on the connection.                                   *)
(***************************************************************************)
Becomes(th, c, written) ==
    call' = [u \in Threads |->
               IF u = th THEN c ELSE [call[u] EXCEPT !.alone = @ \ written]]

Promise(written, settled) ==
    must' = [c \in Cells |->
               IF c \in DOMAIN settled /\ savepoints' = <<>> THEN settled[c]
               ELSE IF c \in written \cup DOMAIN settled THEN Unknown ELSE must[c]]

(* Cells whose stored value this step changes, also for calls that wrote    *)
(* them before.                                                            *)
Stored == {c \in Cells : disk'[c] # disk[c]}

(* The call of thread th ends; it has just written the cells of written. A  *)
(* call of one step leaves no reply but its promise.                       *)
Return(th, ok, written, settled) ==
    /\ Becomes(th, Idle, written)
    /\ Promise(written, settled)
    /\ reply' = IF IsIdle(th) THEN NoReply
                ELSE [op |-> call[th].op, ok |-> ok, call |-> call[th]]

(* The call goes on. *)
Continue(th, c, written) ==
    /\ Becomes(th, c, written)
    /\ Promise(written, <<>>)
    /\ reply' = NoReply

(* A call that reads and returns in one step. *)
Answer(op, got) ==
    /\ reply' = [op |-> op, ok |-> TRUE, got |-> got]
    /\ UNCHANGED <<disk, mem, savepoints, dirty, call, must, faults>>

(* A call that fails and has done nothing. *)
Refuse(th) ==
    /\ Fault /\ Return(th, FALSE, {}, <<>>)
    /\ UNCHANGED <<disk, mem, savepoints, dirty>>

(***************************************************************************)
(* Batches.  ops of a batch: [cf, key, kind, value], kind put or del.      *)
(***************************************************************************)
IllFormed(op) == op.kind = "put" /\ op.value = None

(* What an op leaves in its cell, and the positions of the ops on a cell.  *)
Effect(op) == IF op.kind = "put" THEN op.value ELSE None
On(ops, c) == {i \in DOMAIN ops : <<ops[i].cf, ops[i].key>> = c}
CellsOf(ops) == {c \in Cells : On(ops, c) # {}}

(* One op; and several, one after the other: the last one on a cell stays. *)
ApplyOp(m, op) == [m EXCEPT ![<<op.cf, op.key>>] = Effect(op)]
ApplyOps(m, ops) ==
    [c \in Cells |-> IF On(ops, c) = {} THEN m[c] ELSE Effect(ops[Max(On(ops, c))])]

(* What a batch leaves in a cell once it is acknowledged: the effect of its *)
(* last op on the cell; S3 sends the deletes after the puts.               *)
Outcome(ops) ==
    [c \in CellsOf(ops) |->
       IF kind = "s3" /\ \E i \in On(ops, c) : ops[i].kind = "del" THEN None
       ELSE Effect(ops[Max(On(ops, c))])]

(* The child batch of the current table has run; the scope goes on. *)
GroupDone(th, written) ==
    Continue(th, [call[th] EXCEPT !.done = @ \cup {call[th].cf}, !.cf = None,
                                  !.todo = <<>>, !.phase = "next"], written)

(* It failed: node_batch returns at once, the tables before it stay written. *)
GroupFailed(th, written) == Return(th, FALSE, written, <<>>)

(***************************************************************************)
(* Order of keys: bytewise, as memcmp and the BINARY collation have it.    *)
(***************************************************************************)
Less(a, b) ==
    \/ IsStrictPrefix(a, b)
    \/ \E i \in 1..Len(a) :
          /\ i <= Len(b)
          /\ SubSeq(a, 1, i - 1) = SubSeq(b, 1, i - 1)
          /\ a[i] < b[i]

(* The first of a set of keys, in that order. *)
First(ks) == CHOOSE k \in ks : \A j \in ks : k = j \/ Less(k, j)

Present(m, t) == {k \in Keys : m[<<t, k>>] # None}

(***************************************************************************)
(* Scans: tables still to visit, the prefix, the last key seen in the      *)
(* table in turn, and the pairs collected so far.                          *)
(***************************************************************************)
ScanTable(th) == Head(call[th].tables)

(* The pairs of f and those of g where f has none. *)
Merged(f, g) ==
    [y \in DOMAIN f \cup DOMAIN g |-> IF y \in DOMAIN f THEN f[y] ELSE g[y]]

(* Every pair of the table in turn, read at one instant. *)
ScanWhole(th) ==
    LET c == call[th]
        t == ScanTable(th)
        ks == {k \in Present(mem, t) : IsPrefix(c.prefix, k)}
    IN  [c EXCEPT !.tables = Tail(@),
                  !.got = Merged(@, [p \in {t} \X ks |-> mem[p]])]
=============================================================================
