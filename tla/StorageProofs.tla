--------------------------- MODULE StorageProofs ---------------------------
(***************************************************************************)
(* Proofs about Storage, for any tables, keys, values, threads, calls and  *)
(* failures, and each of the four backends.                                *)
(*                                                                         *)
(* AckedDurable speaks of the disk, but a flush of the PDF writes what the *)
(* process holds: Promised says of both that they have what was            *)
(* acknowledged.  FailedBatch speaks of the moment a batch fails; Calls    *)
(* says of a batch under way, of the cells nobody else wrote, which tables *)
(* are written, which are untouched, and that what is left of the table in *)
(* turn leads to its outcome; of a scan, that every row it is past has     *)
(* been returned with its value; of a get, that what it has read begins    *)
(* the value.  A step of one thread writes a set of cells, which the       *)
(* others give up (OtherCall), so that ThreadKeeps leaves the thread's own *)
(* call and the promises to show, action by action.                        *)
(*                                                                         *)
(* SQLite scans a range of keys: RangeIsPrefix shows that it holds the     *)
(* keys with the prefix and no others.  Tables are found through the       *)
(* symbol table: Indexed says where linear probing has put each name.      *)
(***************************************************************************)
EXTENDS Storage, SequenceFacts, TLAPS

-----------------------------------------------------------------------------
(* The inductive invariant *)

Bytes == 0..MaxByte
Contents == [Cells -> Maybe]
Chunks == UNION {Range(v) : v \in Values}

Shape ==
    /\ kind \in Kinds /\ opened \in BOOLEAN /\ calls \in 0..MaxCalls
    /\ dirty \in BOOLEAN /\ faults \in 0..MaxFaults
    /\ disk \in Contents /\ mem \in Contents
    /\ must \in [Cells -> Maybe \cup {Unknown}]
    /\ savepoints \in Seq([id : Threads, saw : Contents])
    /\ DOMAIN call = Threads

\* The process reads what is on disk unless a savepoint is open or the document
\* is ahead of the file.
Modes ==
    /\ kind # "sqlite" => savepoints = <<>>
    /\ kind # "qpdf" => ~dirty
    /\ savepoints = <<>> /\ ~dirty => mem = disk
    /\ ~opened => savepoints = <<>> /\ ~dirty /\ \A th \in Threads : call[th] = Idle

\* What was acknowledged is on disk, and is what the process reads.
Promised == \A c \in Cells : must[c] # Unknown => disk[c] = must[c] /\ mem[c] = must[c]

\* The calls in flight, by their records.
IsScan(c) ==
    /\ c.op = "scan"
    /\ c = [op |-> "scan", tables |-> c.tables, all |-> c.all, prefix |-> c.prefix,
            last |-> c.last, listed |-> c.listed, got |-> c.got, alone |-> c.alone]
    /\ c.alone \subseteq Cells

IsGet(c) ==
    /\ c.op = "get"
    /\ c = [op |-> "get", cell |-> c.cell, got |-> c.got, alone |-> c.alone]
    /\ c.alone \subseteq Cells

\* The parts of an upload and what is left of its input are the value.
IsUpload(c) ==
    /\ c.op = "stream_put"
    /\ c = [op |-> "stream_put", cell |-> c.cell, rest |-> c.rest, parts |-> c.parts,
            alone |-> c.alone]
    /\ c.alone \subseteq Cells /\ c.cell \in Cells
    /\ c.parts \in Seq(Chunks) /\ c.rest \in Seq(Chunks)
    /\ c.parts \o c.rest \in Values

IsBatch(c) ==
    /\ c.op = "batch"
    /\ c = [op |-> "batch", ops |-> c.ops, cf |-> c.cf, todo |-> c.todo, phase |-> c.phase,
            done |-> c.done, before |-> c.before, held |-> c.held, alone |-> c.alone]
    /\ c.ops \in Seq(Ops) /\ c.todo \in Seq(Ops)
    /\ c.alone \subseteq CellsOf(c.ops)
    /\ \A i \in DOMAIN c.todo : c.todo[i].cf = c.cf /\ c.todo[i] \in Range(c.ops)
    /\ c.phase # "next" => c.cf \notin c.done
    /\ c.phase = "begin" => c.todo = Group(c.ops, c.cf)

\* Outcome, of a backend of kind k and of one cell.
Final(k, ops, c) ==
    IF k = "s3" /\ \E i \in On(ops, c) : ops[i].kind = "del" THEN None
    ELSE Effect(ops[Max(On(ops, c))])

\* A cell of a table whose group has run, or has not.
Written(k, c, D, M, x) == D[x] = Final(k, c.ops, x) /\ M[x] = Final(k, c.ops, x)

Untouched(k, c, D, M, x) ==
    /\ k \in {"rocksdb", "sqlite"} => D[x] = c.before[x]
    /\ k = "qpdf" => M[x] = c.held[x] /\ D[x] \in {c.before[x], c.held[x]}

\* The ops of the group that are left lead to the outcome.
Underway(k, c, M, x) == ApplyOps(M, c.todo)[x] = Final(k, c.ops, x)

InSavepoint(c) == c.phase \in {"ops", "rollback", "cleanup"} /\ c.alone # {}
OnlySavepoint(th, S) == Len(S) = 1 /\ S[1].id = th

BatchOK(k, th, c, D, M, S) ==
    /\ \A x \in c.alone :
          /\ x[1] \in c.done => Written(k, c, D, M, x)
          /\ x[1] \notin c.done => Untouched(k, c, D, M, x)
          /\ x[1] = c.cf /\ c.phase = "ops" => Underway(k, c, M, x)
          /\ c.phase = "cleanup" => M[x] = D[x]
    /\ k = "sqlite" /\ InSavepoint(c) =>
          /\ OnlySavepoint(th, S)
          /\ \A x \in c.alone : S[1].saw[x] = D[x] /\ (x[1] # c.cf => M[x] = D[x])
    /\ k = "s3" /\ c.phase = "ops" =>
          \A i, j \in DOMAIN c.todo : i < j /\ c.todo[i].kind = "del" => c.todo[j].kind = "del"

\* The rows a scan has to return, and the key each is returned under.
ScanRows(c) == {x \in Cells : x[1] \in c.all /\ IsPrefix(c.prefix, x[2])}
ScanAt(k, c, x) == <<x[1], IF k = "s3" THEN ListedKey(c.prefix, x[2]) ELSE x[2]>>

\* The scan is past a row.
Passed(c, x) ==
    \/ x[1] \notin Range(c.tables)
    \/ /\ c.last # None /\ x[1] = Head(c.tables) /\ ~Less(c.last, x[2])
       /\ ~(c.listed /\ x[2] = c.last)

\* SQLite's scan of a prefix without an upper bound may have ended early.
MayEndEarly(k, c, F) == k = "sqlite" /\ Unbounded(c.prefix) /\ F > 0

\* Where a scan is: inside of its tables and its prefix.
ScanPlace(k, c) ==
    /\ c.tables \in Seq(Tables) /\ Range(c.tables) \subseteq c.all /\ c.all \subseteq Tables
    /\ c.prefix \in Seq(Bytes) /\ c.listed \in BOOLEAN
    /\ k \in {"rocksdb", "qpdf"} => c.last = None
    /\ c.last # None => c.tables # <<>> /\ c.last \in Keys /\ IsPrefix(c.prefix, c.last)
    /\ c.listed => c.last # None /\ k = "s3"

\* What a scan has returned so far of a row that nobody else wrote: its value, and
\* nothing only when it has none or the scan has not been there.
RowOK(k, c, M, F, x) ==
    IF ScanAt(k, c, x) \in DOMAIN c.got THEN c.got[ScanAt(k, c, x)] = M[x]
    ELSE Passed(c, x) => M[x] = None \/ MayEndEarly(k, c, F)

ScanOK(k, c, M, F) ==
    /\ ScanPlace(k, c)
    /\ DOMAIN c.got \subseteq {ScanAt(k, c, x) : x \in ScanRows(c)}
    /\ \A x \in ScanRows(c) \cap c.alone : RowOK(k, c, M, F, x)

\* What a get has read so far of a cell that nobody else wrote begins its value.
GetOK(c, D) ==
    /\ c.cell \in Cells /\ c.alone \subseteq {c.cell}
    /\ c.cell \in c.alone /\ c.got # <<>> =>
          /\ D[c.cell] # None /\ Len(c.got) <= Len(D[c.cell])
          /\ c.got = SubSeq(D[c.cell], 1, Len(c.got))

CallOK(k, th, c, D, M, S, F) ==
    \/ c = Idle
    \/ IsScan(c) /\ ScanOK(k, c, M, F)
    \/ k = "s3" /\ IsGet(c) /\ GetOK(c, D)
    \/ k = "s3" /\ IsUpload(c)
    \/ IsBatch(c) /\ BatchOK(k, th, c, D, M, S)

Calls == \A th \in Threads : CallOK(kind, th, call[th], disk, mem, savepoints, faults)

IInv == Shape /\ Modes /\ Promised /\ Calls /\ FailedBatch

-----------------------------------------------------------------------------
(* The order of keys *)

LEMMA PrefixPoints ==
    ASSUME NEW a \in Seq(Bytes), NEW b \in Seq(Bytes)
    PROVE  IsPrefix(a, b) <=> Len(a) <= Len(b) /\ \A i \in 1..Len(a) : a[i] = b[i]
<1>1. Len(a) \in Nat /\ Len(b) \in Nat
  OBVIOUS
<1>2. SubSeq(a, 1, Len(a)) \in Seq(Bytes) /\ Len(SubSeq(a, 1, Len(a))) = Len(a)
  OBVIOUS
<1>3. \A i \in 1..Len(a) : SubSeq(a, 1, Len(a))[i] = a[i]
  OBVIOUS
<1>4. CASE Len(a) <= Len(b)
  <2>1. /\ SubSeq(b, 1, Len(a)) \in Seq(Bytes) /\ Len(SubSeq(b, 1, Len(a))) = Len(a)
        /\ \A i \in 1..Len(a) : SubSeq(b, 1, Len(a))[i] = b[i]
    BY <1>1, <1>4
  <2>2. SubSeq(a, 1, Len(a)) = SubSeq(b, 1, Len(a)) <=> \A i \in 1..Len(a) : a[i] = b[i]
    BY <1>2, <1>3, <2>1
  <2> QED BY <1>4, <2>2 DEF IsPrefix
<1>5. CASE ~(Len(a) <= Len(b))
  BY <1>5 DEF IsPrefix
<1> QED BY <1>4, <1>5

\* a is less than b at the first position where they differ.
LessAt(a, b, i) ==
    /\ i \in 1..Len(a) /\ i \in 1..Len(b) /\ a[i] < b[i]
    /\ \A j \in 1..(i - 1) : a[j] = b[j]

LEMMA LessPoints ==
    ASSUME NEW a \in Seq(Bytes), NEW b \in Seq(Bytes)
    PROVE  Less(a, b) <=> \/ Len(a) < Len(b) /\ IsPrefix(a, b)
                          \/ \E i \in Nat : LessAt(a, b, i)
<1>1. Len(a) \in Nat /\ Len(b) \in Nat
  OBVIOUS
<1>2. IsStrictPrefix(a, b) <=> Len(a) < Len(b) /\ IsPrefix(a, b)
  <2>1. IsPrefix(a, b) /\ Len(a) = Len(b) => a = b
    BY <1>1, PrefixPoints
  <2>2. IsPrefix(a, b) => Len(a) <= Len(b)
    BY PrefixPoints
  <2> QED BY <1>1, <2>1, <2>2 DEF IsStrictPrefix
<1>3. ASSUME NEW i \in 1..Len(a), i <= Len(b)
      PROVE  SubSeq(a, 1, i - 1) = SubSeq(b, 1, i - 1) <=> \A j \in 1..(i - 1) : a[j] = b[j]
  <2>1. /\ SubSeq(a, 1, i - 1) \in Seq(Bytes) /\ Len(SubSeq(a, 1, i - 1)) = i - 1
        /\ \A j \in 1..(i - 1) : SubSeq(a, 1, i - 1)[j] = a[j]
    BY <1>1
  <2>2. /\ SubSeq(b, 1, i - 1) \in Seq(Bytes) /\ Len(SubSeq(b, 1, i - 1)) = i - 1
        /\ \A j \in 1..(i - 1) : SubSeq(b, 1, i - 1)[j] = b[j]
    BY <1>1, <1>3
  <2> QED BY <2>1, <2>2
<1>4. (\E i \in 1..Len(a) : /\ i <= Len(b)
                            /\ SubSeq(a, 1, i - 1) = SubSeq(b, 1, i - 1)
                            /\ a[i] < b[i])
         <=> \E i \in Nat : LessAt(a, b, i)
  <2>1. ASSUME NEW i \in 1..Len(a), i <= Len(b), SubSeq(a, 1, i - 1) = SubSeq(b, 1, i - 1),
               a[i] < b[i]
        PROVE  i \in Nat /\ LessAt(a, b, i)
    BY <1>1, <1>3, <2>1 DEF LessAt
  <2>2. ASSUME NEW i \in Nat, LessAt(a, b, i)
        PROVE  /\ i \in 1..Len(a) /\ i <= Len(b) /\ SubSeq(a, 1, i - 1) = SubSeq(b, 1, i - 1)
               /\ a[i] < b[i]
    BY <1>1, <1>3, <2>2 DEF LessAt
  <2> QED BY <2>1, <2>2
<1> QED BY <1>2, <1>4 DEF Less

\* Two keys are equal, one begins with the other, or they differ at a first position.
LEMMA FirstDifference ==
    ASSUME NEW a \in Seq(Bytes), NEW b \in Seq(Bytes), ~IsPrefix(a, b), ~IsPrefix(b, a)
    PROVE  \E i \in Nat : LessAt(a, b, i) \/ LessAt(b, a, i)
<1> DEFINE T == {i \in Nat : i \in 1..Len(a) /\ i \in 1..Len(b) /\ a[i] # b[i]}
<1>1. Len(a) \in Nat /\ Len(b) \in Nat
  OBVIOUS
<1>2. T # {}
  <2>1. CASE Len(a) <= Len(b)
    <3>1. PICK i \in 1..Len(a) : a[i] # b[i]
      BY <2>1, PrefixPoints
    <3> QED BY <1>1, <2>1, <3>1
  <2>2. CASE Len(b) <= Len(a)
    <3>1. PICK i \in 1..Len(b) : a[i] # b[i]
      BY <2>2, PrefixPoints
    <3> QED BY <1>1, <2>2, <3>1
  <2> QED BY <1>1, <2>1, <2>2
<1>3. PICK i \in T : \A j \in T : i <= j
  <2> HIDE DEF T
  <2>1. T \subseteq Nat
    BY DEF T
  <2> QED BY <1>2, <2>1, LeastFact
<1>4. \A j \in 1..(i - 1) : a[j] = b[j]
  <2> SUFFICES ASSUME NEW j \in 1..(i - 1), a[j] # b[j] PROVE FALSE
    OBVIOUS
  <2>1. j \in T /\ ~(i <= j)
    BY <1>1, <1>3
  <2> QED BY <1>3, <2>1
<1>5. a[i] \in Int /\ b[i] \in Int
  BY <1>1, ByteAssumption DEF Bytes
<1> QED BY <1>4, <1>5 DEF LessAt

LEMMA LessTotal ==
    ASSUME NEW a \in Seq(Bytes), NEW b \in Seq(Bytes)
    PROVE  a = b \/ Less(a, b) \/ Less(b, a)
<1>1. Len(a) \in Nat /\ Len(b) \in Nat
  OBVIOUS
<1>2. CASE IsPrefix(a, b)
  <2>1. Len(a) = Len(b) => a = b
    BY <1>2, PrefixPoints
  <2>2. Len(a) <= Len(b)
    BY <1>2, PrefixPoints
  <2> QED BY <1>1, <1>2, <2>1, <2>2, LessPoints
<1>3. CASE IsPrefix(b, a)
  <2>1. Len(a) = Len(b) => a = b
    BY <1>3, PrefixPoints
  <2>2. Len(b) <= Len(a)
    BY <1>3, PrefixPoints
  <2> QED BY <1>1, <1>3, <2>1, <2>2, LessPoints
<1>4. CASE ~IsPrefix(a, b) /\ ~IsPrefix(b, a)
  BY <1>4, FirstDifference, LessPoints
<1> QED BY <1>2, <1>3, <1>4

LEMMA LessStrict ==
    ASSUME NEW a \in Seq(Bytes), NEW b \in Seq(Bytes), Less(a, b)
    PROVE  ~Less(b, a) /\ a # b
<1>1. Len(a) \in Nat /\ Len(b) \in Nat
  OBVIOUS
<1>2. \A i \in 1..Len(a) : a[i] \in Int
  BY ByteAssumption DEF Bytes
<1>3. \A i \in 1..Len(b) : b[i] \in Int
  BY ByteAssumption DEF Bytes
<1>4. CASE Len(a) < Len(b) /\ IsPrefix(a, b)
  <2>1. \A i \in 1..Len(a) : a[i] = b[i]
    BY <1>4, PrefixPoints
  <2>2. ASSUME NEW i \in Nat, LessAt(b, a, i) PROVE FALSE
    BY <1>2, <2>1, <2>2 DEF LessAt
  <2> QED BY <1>1, <1>4, <2>2, LessPoints
<1>5. ASSUME NEW i \in Nat, LessAt(a, b, i)
      PROVE  ~Less(b, a) /\ a # b
  <2>1. a[i] # b[i] /\ i \in 1..Len(a) /\ i \in 1..Len(b)
    BY <1>2, <1>3, <1>5 DEF LessAt
  <2>2. ~IsPrefix(b, a)
    BY <2>1, PrefixPoints
  <2>3. ASSUME NEW j \in Nat, LessAt(b, a, j) PROVE FALSE
    <3>1. CASE j < i
      BY <1>2, <1>3, <1>5, <2>3, <3>1 DEF LessAt
    <3>2. CASE i < j
      BY <1>2, <1>3, <1>5, <2>3, <3>2 DEF LessAt
    <3>3. CASE i = j
      BY <1>2, <1>3, <1>5, <2>3, <3>3 DEF LessAt
    <3> QED BY <3>1, <3>2, <3>3
  <2> QED BY <2>1, <2>2, <2>3, LessPoints
<1> QED BY <1>4, <1>5, LessPoints

LEMMA LessTransitive ==
    ASSUME NEW a \in Seq(Bytes), NEW b \in Seq(Bytes), NEW c \in Seq(Bytes),
           Less(a, b), Less(b, c)
    PROVE  Less(a, c)
<1>1. Len(a) \in Nat /\ Len(b) \in Nat /\ Len(c) \in Nat
  OBVIOUS
<1>2. /\ \A i \in 1..Len(a) : a[i] \in Int
      /\ \A i \in 1..Len(b) : b[i] \in Int
      /\ \A i \in 1..Len(c) : c[i] \in Int
  BY ByteAssumption DEF Bytes
<1>3. CASE Len(a) < Len(b) /\ IsPrefix(a, b) /\ Len(b) < Len(c) /\ IsPrefix(b, c)
  <2>1. /\ \A i \in 1..Len(a) : a[i] = b[i]
        /\ \A i \in 1..Len(b) : b[i] = c[i]
    BY <1>3, PrefixPoints
  <2>2. \A i \in 1..Len(a) : a[i] = c[i]
    BY <1>1, <1>3, <2>1
  <2> QED BY <1>1, <1>3, <2>2, PrefixPoints, LessPoints
<1>4. ASSUME Len(a) < Len(b), IsPrefix(a, b), NEW i \in Nat, LessAt(b, c, i)
      PROVE  Less(a, c)
  <2>1. \A j \in 1..Len(a) : a[j] = b[j]
    BY <1>4, PrefixPoints
  <2>2. CASE i <= Len(a)
    <3>1. LessAt(a, c, i)
      BY <1>1, <1>2, <1>4, <2>1, <2>2 DEF LessAt
    <3> QED BY <3>1, LessPoints
  <2>3. CASE Len(a) < i
    <3>1. Len(a) < Len(c)
      BY <1>1, <1>4, <2>3 DEF LessAt
    <3>2. \A j \in 1..Len(a) : a[j] = c[j]
      BY <1>1, <1>4, <2>1, <2>3 DEF LessAt
    <3> QED BY <1>1, <3>1, <3>2, PrefixPoints, LessPoints
  <2> QED BY <1>1, <2>2, <2>3
<1>5. ASSUME NEW i \in Nat, LessAt(a, b, i), Len(b) < Len(c), IsPrefix(b, c)
      PROVE  Less(a, c)
  <2>1. \A j \in 1..Len(b) : b[j] = c[j]
    BY <1>5, PrefixPoints
  <2>2. LessAt(a, c, i)
    BY <1>1, <1>2, <1>5, <2>1 DEF LessAt
  <2> QED BY <2>2, LessPoints
<1>6. ASSUME NEW i \in Nat, LessAt(a, b, i), NEW j \in Nat, LessAt(b, c, j)
      PROVE  Less(a, c)
  <2>1. CASE i <= j
    <3>1. LessAt(a, c, i)
      BY <1>1, <1>2, <1>6, <2>1 DEF LessAt
    <3> QED BY <3>1, LessPoints
  <2>2. CASE j < i
    <3>1. LessAt(a, c, j)
      BY <1>1, <1>2, <1>6, <2>2 DEF LessAt
    <3> QED BY <3>1, LessPoints
  <2> QED BY <2>1, <2>2
<1> QED BY <1>3, <1>4, <1>5, <1>6, LessPoints

\* A finite set of keys has a first one.
LEMMA FirstFact ==
    ASSUME NEW ks, ks \subseteq Seq(Bytes), IsFiniteSet(ks), ks # {}
    PROVE  First(ks) \in ks /\ \A j \in ks : First(ks) = j \/ Less(First(ks), j)
<1> DEFINE below(k) == {j \in ks : Less(j, k)}
           T == {Cardinality(below(k)) : k \in ks}
<1>1. \A k \in ks : IsFiniteSet(below(k)) /\ Cardinality(below(k)) \in Nat
  BY FS_Subset, FS_CardinalityType
<1>2. PICK n \in T : \A m \in T : n <= m
  <2>1. T \subseteq Nat /\ T # {}
    BY <1>1
  <2> HIDE DEF T
  <2> QED BY <2>1, LeastFact
<1>3. PICK k \in ks : n = Cardinality(below(k))
  OBVIOUS
<1>4. ASSUME NEW j \in ks, Less(j, k) PROVE FALSE
  <2>1. ASSUME NEW i \in below(j) PROVE i \in below(k)
    <3>1. i \in Seq(Bytes) /\ j \in Seq(Bytes) /\ k \in Seq(Bytes)
      OBVIOUS
    <3> QED BY <1>4, <3>1, LessTransitive
  <2>2. j \in below(k) /\ j \notin below(j)
    BY <1>4, LessStrict
  <2>3. below(j) \in SUBSET below(k) /\ below(j) # below(k)
    BY <2>1, <2>2
  <2>4. Cardinality(below(j)) <= Cardinality(below(k)) /\ Cardinality(below(j)) # Cardinality(below(k))
    <3> HIDE DEF below
    <3> QED BY <1>1, <2>3, FS_Subset
  <2>5. Cardinality(below(k)) <= Cardinality(below(j))
    BY <1>2, <1>3
  <2> HIDE DEF below
  <2> QED BY <1>1, <2>4, <2>5
<1>5. \A j \in ks : k = j \/ Less(k, j)
  <2> SUFFICES ASSUME NEW j \in ks PROVE k = j \/ Less(k, j)
    OBVIOUS
  <2> HIDE DEF below, T
  <2>1. k \in Seq(Bytes) /\ j \in Seq(Bytes)
    OBVIOUS
  <2> QED BY <1>4, <2>1, LessTotal
<1> HIDE DEF below, T
<1> QED BY <1>5 DEF First

\* prefix_upper_bound: the keys between a prefix and its upper bound, if it has
\* one, are those that begin with it.
THEOREM RangeIsPrefix ==
    ASSUME NEW prefix \in Seq(Bytes), NEW k \in Seq(Bytes)
    PROVE  InRange(prefix, k) <=> IsPrefix(prefix, k)
<1> DEFINE low == {i \in DOMAIN prefix : prefix[i] < MaxByte}
<1>1. /\ Len(prefix) \in Nat /\ Len(k) \in Nat /\ MaxByte \in Nat
      /\ \A i \in 1..Len(prefix) : prefix[i] \in 0..MaxByte
      /\ \A i \in 1..Len(k) : k[i] \in 0..MaxByte
  BY ByteAssumption DEF Bytes
<1>2. CASE prefix = <<>>
  <2>1. Len(prefix) = 0 /\ 1..Len(prefix) = {}
    BY <1>2
  <2>2. IsPrefix(prefix, k)
    <3>1. Len(prefix) <= Len(k) /\ \A i \in 1..Len(prefix) : prefix[i] = k[i]
      BY <1>1, <2>1
    <3> QED BY <3>1, PrefixPoints
  <2> QED BY <1>2, <2>2 DEF InRange
<1>3. IsPrefix(prefix, k) => ~Less(k, prefix)
  <2> SUFFICES ASSUME IsPrefix(prefix, k), Less(k, prefix) PROVE FALSE
    OBVIOUS
  <2>1. Len(prefix) <= Len(k)
    BY PrefixPoints
  <2>2. Len(prefix) = Len(k) => k = prefix
    BY PrefixPoints
  <2>3. Len(prefix) < Len(k) => Less(prefix, k)
    BY LessPoints
  <2> QED BY <1>1, <2>1, <2>2, <2>3, LessStrict
<1>4. CASE prefix # <<>> /\ low = {}
  <2>1. PrefixUpperBound(prefix) = None
    BY <1>4 DEF PrefixUpperBound
  <2> QED BY <1>3, <1>4, <2>1 DEF InRange
<1>5. CASE prefix # <<>> /\ low # {}
  <2> DEFINE i == CHOOSE i \in low : \A j \in low : j <= i
             bound == Append(SubSeq(prefix, 1, i - 1), prefix[i] + 1)
  <2>1. i \in low /\ \A j \in low : j <= i
    <3>1. low \subseteq 1..Len(prefix)
      OBVIOUS
    <3> HIDE DEF low
    <3>2. Max(low) \in low /\ \A j \in low : j <= Max(low)
      BY <1>1, <1>5, <3>1, MaxFact
    <3> QED BY <3>2
  <2>2. PrefixUpperBound(prefix) = bound
    BY <1>5 DEF PrefixUpperBound
  <2>3. i \in 1..Len(prefix) /\ prefix[i] < MaxByte
    BY <2>1
  <2> HIDE DEF i
  <2>4. /\ bound \in Seq(Bytes) /\ Len(bound) = i /\ bound[i] = prefix[i] + 1
        /\ \A j \in 1..(i - 1) : bound[j] = prefix[j]
    <3>1. /\ SubSeq(prefix, 1, i - 1) \in Seq(Bytes) /\ Len(SubSeq(prefix, 1, i - 1)) = i - 1
          /\ \A j \in 1..(i - 1) : SubSeq(prefix, 1, i - 1)[j] = prefix[j]
      BY <1>1, <2>3
    <3>2. prefix[i] + 1 \in Bytes
      BY <1>1, <2>3 DEF Bytes
    <3> HIDE DEF Bytes
    <3> QED BY <1>1, <2>3, <3>1, <3>2
  <2>5. InRange(prefix, k) <=> ~Less(k, prefix) /\ Less(k, bound)
    <3>1. bound # None
      BY <2>4, ByteAssumption DEF Bytes
    <3> HIDE DEF bound, low
    <3> QED BY <1>5, <2>2, <3>1 DEF InRange
  <2> HIDE DEF bound
  <2>6. ASSUME IsPrefix(prefix, k) PROVE Less(k, bound)
    <3>1. Len(prefix) <= Len(k) /\ \A j \in 1..Len(prefix) : prefix[j] = k[j]
      BY <2>6, PrefixPoints
    <3>2. LessAt(k, bound, i)
      BY <1>1, <2>3, <2>4, <3>1 DEF LessAt
    <3>3. i \in Nat
      BY <1>1, <2>3
    <3> QED BY <2>4, <3>2, <3>3, LessPoints
  <2>7. ASSUME ~Less(k, prefix), Less(k, bound), ~IsPrefix(prefix, k) PROVE FALSE
    <3>1. ~IsPrefix(k, prefix)
      <4> SUFFICES ASSUME IsPrefix(k, prefix) PROVE FALSE
        OBVIOUS
      <4>1. Len(k) <= Len(prefix) /\ (Len(k) = Len(prefix) => k = prefix)
        BY PrefixPoints
      <4>2. k # prefix
        BY <2>7, PrefixPoints
      <4> QED BY <1>1, <2>7, <4>1, <4>2, LessPoints
    <3>2. PICK d \in Nat : LessAt(prefix, k, d)
      BY <2>7, <3>1, FirstDifference, LessPoints
    <3>3. /\ d \in 1..Len(prefix) /\ d \in 1..Len(k) /\ prefix[d] < k[d]
          /\ \A j \in 1..(d - 1) : prefix[j] = k[j]
      BY <3>2 DEF LessAt
    <3>4. d <= i
      <4>1. k[d] <= MaxByte /\ prefix[d] \in Int /\ k[d] \in Int
        BY <1>1, <3>3
      <4>2. d \in low
        BY <1>1, <3>3, <4>1
      <4> QED BY <2>1, <4>2
    <3>5. CASE d < i
      <4>1. LessAt(bound, k, d)
        BY <1>1, <2>3, <2>4, <3>3, <3>5 DEF LessAt
      <4> QED BY <2>4, <2>7, <4>1, LessPoints, LessStrict
    <3>6. CASE d = i
      <4>1. \A j \in 1..(i - 1) : bound[j] = k[j]
        BY <2>4, <3>3, <3>6
      <4>2. bound[i] <= k[i] /\ bound[i] \in Int /\ k[i] \in Int
        BY <1>1, <2>3, <2>4, <3>3, <3>6
      <4>3. CASE bound[i] < k[i]
        <5>1. LessAt(bound, k, i)
          BY <2>3, <2>4, <3>3, <3>6, <4>1, <4>3 DEF LessAt
        <5> QED BY <1>1, <2>3, <2>4, <2>7, <5>1, LessPoints, LessStrict
      <4>4. CASE bound[i] = k[i]
        <5>1. \A j \in 1..i : bound[j] = k[j]
          BY <1>1, <2>3, <4>1, <4>4
        <5>2. Len(bound) <= Len(k) /\ i \in Nat
          BY <1>1, <2>3, <2>4, <3>3, <3>6
        <5>3. IsPrefix(bound, k)
          BY <2>4, <5>1, <5>2, PrefixPoints
        <5>4. k = bound \/ Less(bound, k)
          <6>1. Len(k) = Len(bound) => k = bound
            BY <2>4, <5>1
          <6> QED BY <1>1, <2>4, <5>2, <5>3, <6>1, LessPoints
        <5> QED BY <2>4, <2>7, <5>4, LessStrict
      <4> QED BY <4>2, <4>3, <4>4
    <3> QED BY <1>1, <2>3, <3>4, <3>5, <3>6, <3>3
  <2> QED BY <1>3, <2>5, <2>6, <2>7
<1> QED BY <1>2, <1>4, <1>5

\* The keys of a listing lose its prefix and stay different.
LEMMA ListedDiffer ==
    ASSUME NEW prefix \in Seq(Bytes), NEW a \in Seq(Bytes), NEW b \in Seq(Bytes),
           IsPrefix(prefix, a), IsPrefix(prefix, b), ListedKey(prefix, a) = ListedKey(prefix, b)
    PROVE  a = b
<1> DEFINE n == Len(prefix)
<1>1. n \in Nat /\ Len(a) \in Nat /\ Len(b) \in Nat /\ n <= Len(a) /\ n <= Len(b)
  BY PrefixPoints
<1>2. \A i \in 1..n : a[i] = b[i]
  BY PrefixPoints
<1>3. /\ Len(SubSeq(a, n + 1, Len(a))) = Len(a) - n
      /\ \A i \in 1..(Len(a) - n) : SubSeq(a, n + 1, Len(a))[i] = a[n + i]
  BY <1>1
<1>4. /\ Len(SubSeq(b, n + 1, Len(b))) = Len(b) - n
      /\ \A i \in 1..(Len(b) - n) : SubSeq(b, n + 1, Len(b))[i] = b[n + i]
  BY <1>1
<1>5. SubSeq(a, n + 1, Len(a)) = SubSeq(b, n + 1, Len(b))
  BY DEF ListedKey
<1> HIDE DEF n
<1>6. Len(a) = Len(b)
  BY <1>1, <1>3, <1>4, <1>5
<1>7. ASSUME NEW i \in 1..Len(a) PROVE a[i] = b[i]
  <2>1. CASE i <= n
    BY <1>2, <2>1
  <2>2. CASE i > n
    <3>1. i - n \in 1..(Len(a) - n) /\ n + (i - n) = i
      BY <1>1, <2>2
    <3> QED BY <1>3, <1>4, <1>5, <1>6, <3>1
  <2> QED BY <1>1, <2>1, <2>2
<1> QED BY <1>6, <1>7

-----------------------------------------------------------------------------
(* Batches of ops *)

\* The positions of the ops on a cell, and the last one.
LEMMA OnFacts ==
    ASSUME NEW ops \in Seq(Ops), NEW x
    PROVE  /\ On(ops, x) \subseteq 1..Len(ops) /\ Len(ops) \in Nat
           /\ On(ops, x) # {} => Max(On(ops, x)) \in On(ops, x)
           /\ \A i \in On(ops, x) : i <= Max(On(ops, x)) /\ ops[i] \in Ops
                                     /\ <<ops[i].cf, ops[i].key>> = x
<1>1. On(ops, x) \subseteq 1..Len(ops) /\ Len(ops) \in Nat
  BY DEF On
<1>2. \A i \in On(ops, x) : ops[i] \in Ops /\ <<ops[i].cf, ops[i].key>> = x
  BY DEF On
<1>3. On(ops, x) # {} => Max(On(ops, x)) \in On(ops, x) /\ \A i \in On(ops, x) : i <= Max(On(ops, x))
  BY <1>1, MaxFact
<1> QED BY <1>1, <1>2, <1>3

LEMMA EffectType == ASSUME NEW op \in Ops PROVE Effect(op) \in Maybe
BY DEF Effect, Ops, Maybe

\* A position m is that of the last op on a cell.
LEMMA LastOn ==
    ASSUME NEW ops \in Seq(Ops), NEW x, NEW m \in On(ops, x), \A i \in On(ops, x) : i <= m
    PROVE  Max(On(ops, x)) = m
<1>1. On(ops, x) \subseteq Int
  BY OnFacts
<1> QED BY <1>1, MaxIs

LEMMA PrefixLength ==
    ASSUME NEW S, NEW s \in Seq(S), NEW n, n <= Len(s), NEW p, n = Len(p), p = SubSeq(s, 1, n)
    PROVE  n \in Nat
OBVIOUS

LEMMA ApplyOpsType ==
    ASSUME NEW m \in Contents, NEW ops \in Seq(Ops)
    PROVE  /\ ApplyOps(m, ops) \in Contents
           /\ \A x \in Cells : x \notin CellsOf(ops) => ApplyOps(m, ops)[x] = m[x]
           /\ \A x \in CellsOf(ops) : ApplyOps(m, ops)[x] = Effect(ops[Max(On(ops, x))])
<1>1. ASSUME NEW x \in Cells, On(ops, x) # {} PROVE Effect(ops[Max(On(ops, x))]) \in Maybe
  BY <1>1, OnFacts, EffectType
<1>2. \A x \in Cells : m[x] \in Maybe
  BY DEF Contents
<1>3. ApplyOps(m, ops) \in Contents
  BY <1>1, <1>2 DEF ApplyOps, Contents
<1>4. \A x \in CellsOf(ops) : x \in Cells /\ On(ops, x) # {}
  BY DEF CellsOf
<1>5. \A x \in Cells : x \notin CellsOf(ops) => On(ops, x) = {}
  BY DEF CellsOf
<1> QED BY <1>3, <1>4, <1>5 DEF ApplyOps

LEMMA ApplyOpType ==
    ASSUME NEW m \in Contents, NEW op \in Ops
    PROVE  /\ ApplyOp(m, op) \in Contents
           /\ \A x \in Cells : ApplyOp(m, op)[x] = IF x = <<op.cf, op.key>> THEN Effect(op) ELSE m[x]
           /\ \A x \in Cells : x \notin CellsOf(<<op>>) => ApplyOp(m, op)[x] = m[x]
           /\ CellsOf(<<op>>) \subseteq {<<op.cf, op.key>>}
<1>1. Effect(op) \in Maybe
  BY EffectType
<1>2. /\ ApplyOp(m, op) \in Contents
      /\ \A x \in Cells : ApplyOp(m, op)[x] = IF x = <<op.cf, op.key>> THEN Effect(op) ELSE m[x]
  BY <1>1 DEF ApplyOp, Contents
<1>3. \A x : On(<<op>>, x) = IF x = <<op.cf, op.key>> THEN {1} ELSE {}
  BY DEF On
<1> QED BY <1>2, <1>3 DEF CellsOf

\* Running the first of several ops and then the others.
LEMMA ApplyHead ==
    ASSUME NEW m \in Contents, NEW ops \in Seq(Ops), ops # <<>>, NEW x \in Cells
    PROVE  ApplyOps(ApplyOp(m, Head(ops)), Tail(ops))[x] = ApplyOps(m, ops)[x]
<1> DEFINE h == Head(ops)
           t == Tail(ops)
           n == Len(ops)
<1>1. /\ h = ops[1] /\ h \in Ops /\ t \in Seq(Ops) /\ n \in Nat /\ n >= 1
      /\ DOMAIN ops = 1..n /\ DOMAIN t = 1..(n - 1) /\ \A i \in 1..(n - 1) : t[i] = ops[i + 1]
  OBVIOUS
<1> HIDE DEF h, t, n
<1>2. \A i \in On(t, x) : i \in 1..(n - 1) /\ i + 1 \in On(ops, x)
  BY <1>1 DEF On
<1>3. \A i \in On(ops, x) : i \in 1..n /\ (i # 1 => i - 1 \in On(t, x))
  <2> SUFFICES ASSUME NEW i \in On(ops, x), i # 1 PROVE i - 1 \in On(t, x)
    BY <1>1 DEF On
  <2>1. i - 1 \in 1..(n - 1) /\ (i - 1) + 1 = i /\ <<ops[i].cf, ops[i].key>> = x
    BY <1>1 DEF On
  <2>2. t[i - 1] = ops[i]
    BY <1>1, <2>1
  <2> QED BY <1>1, <2>1, <2>2 DEF On
<1>4. ApplyOp(m, h) \in Contents /\ ApplyOp(m, h)[x] = IF x = <<h.cf, h.key>> THEN Effect(h) ELSE m[x]
  <2>1. h \in Ops
    BY <1>1
  <2>2. /\ ApplyOp(m, h) \in Contents
        /\ \A y \in Cells : ApplyOp(m, h)[y] = IF y = <<h.cf, h.key>> THEN Effect(h) ELSE m[y]
    BY <2>1, ApplyOpType
  <2> QED BY <2>2
<1>5. 1 \in On(ops, x) <=> x = <<h.cf, h.key>>
  BY <1>1 DEF On
<1>6. /\ ApplyOps(ApplyOp(m, h), t)[x] =
            IF On(t, x) = {} THEN ApplyOp(m, h)[x] ELSE Effect(t[Max(On(t, x))])
      /\ ApplyOps(m, ops)[x] = IF On(ops, x) = {} THEN m[x] ELSE Effect(ops[Max(On(ops, x))])
  BY DEF ApplyOps
<1>7. CASE On(t, x) # {}
  <2>1. Max(On(t, x)) \in On(t, x) /\ \A i \in On(t, x) : i <= Max(On(t, x))
    BY <1>1, <1>7, OnFacts
  <2> DEFINE k == Max(On(t, x))
  <2> HIDE DEF k
  <2>2. k \in 1..(n - 1) /\ k + 1 \in On(ops, x) /\ t[k] = ops[k + 1]
    BY <1>1, <1>2, <2>1 DEF k
  <2>3. ASSUME NEW i \in On(ops, x) PROVE i <= k + 1
    <3>1. CASE i = 1
      BY <2>2, <3>1
    <3>2. CASE i # 1
      <4>1. i - 1 <= k /\ i \in Int
        BY <1>3, <2>1, <3>2 DEF k
      <4> QED BY <2>2, <4>1
    <3> QED BY <3>1, <3>2
  <2>4. Max(On(ops, x)) = k + 1
    BY <2>2, <2>3, LastOn
  <2> QED BY <1>6, <1>7, <2>2, <2>4 DEF h, t, k
<1>8. CASE On(t, x) = {} /\ On(ops, x) # {}
  <2>1. On(ops, x) = {1}
    BY <1>3, <1>8
  <2>2. Max(On(ops, x)) = 1
    <3>1. 1 \in On(ops, x) /\ \A i \in On(ops, x) : i <= 1
      BY <2>1
    <3> QED BY <3>1, LastOn
  <2> QED BY <1>1, <1>4, <1>5, <1>6, <1>8, <2>1, <2>2 DEF h, t
<1>9. CASE On(t, x) = {} /\ On(ops, x) = {}
  BY <1>4, <1>5, <1>6, <1>9 DEF h, t
<1> QED BY <1>7, <1>8, <1>9

\* The ops of a set, in their order.
LEMMA SelectOps ==
    ASSUME NEW ops \in Seq(Ops), NEW keep
    PROVE  /\ Select(ops, keep) \in Seq(Ops)
           /\ \A k \in DOMAIN Select(ops, keep) :
                 Select(ops, keep)[k] \in keep /\ Select(ops, keep)[k] \in Range(ops)
           /\ \A i \in DOMAIN ops : ops[i] \in keep =>
                 \E k \in DOMAIN Select(ops, keep) : Select(ops, keep)[k] = ops[i]
<1>1. Select(ops, keep) \in Seq(Ops) /\ Range(Select(ops, keep)) = Range(ops) \intersect keep
  BY SelectFacts
<1>2. \A k \in DOMAIN Select(ops, keep) : Select(ops, keep)[k] \in Range(Select(ops, keep))
  BY DEF Range
<1>3. ASSUME NEW i \in DOMAIN ops, ops[i] \in keep
      PROVE  \E k \in DOMAIN Select(ops, keep) : Select(ops, keep)[k] = ops[i]
  <2>1. ops[i] \in Range(Select(ops, keep))
    BY <1>1, <1>3 DEF Range
  <2> QED BY <2>1 DEF Range
<1> QED BY <1>1, <1>2, <1>3

\* If all ops on a cell are in the set, the last one stays the last one.
LEMMA SelectLast ==
    ASSUME NEW ops \in Seq(Ops), NEW keep, NEW x, \A i \in On(ops, x) : ops[i] \in keep,
           On(ops, x) # {}
    PROVE  /\ On(Select(ops, keep), x) # {}
           /\ Select(ops, keep)[Max(On(Select(ops, keep), x))] = ops[Max(On(ops, x))]
<1> DEFINE g == Select(ops, keep)
<1>1. PICK n \in Nat : \E pos \in [1..n -> {i \in DOMAIN ops : ops[i] \in keep}] :
              /\ Select(ops, keep) = [k \in 1..n |-> ops[pos[k]]]
              /\ \A i \in DOMAIN ops : ops[i] \in keep => \E k \in 1..n : pos[k] = i
              /\ \A k, l \in 1..n : k < l => pos[k] < pos[l]
  BY SelectPositions, ZenonT(30)
<1>2. PICK pos \in [1..n -> {i \in DOMAIN ops : ops[i] \in keep}] :
              /\ g = [k \in 1..n |-> ops[pos[k]]]
              /\ \A i \in DOMAIN ops : ops[i] \in keep => \E k \in 1..n : pos[k] = i
              /\ \A k, l \in 1..n : k < l => pos[k] < pos[l]
  BY <1>1
<1> HIDE DEF g
<1>3. DOMAIN g = 1..n /\ \A k \in 1..n : pos[k] \in DOMAIN ops /\ g[k] = ops[pos[k]]
  BY <1>2
<1>4. g \in Seq(Ops)
  BY SelectOps DEF g
<1>5. \A k \in On(g, x) : k \in 1..n /\ pos[k] \in On(ops, x)
  BY <1>3 DEF On
<1>6. Max(On(ops, x)) \in On(ops, x) /\ \A i \in On(ops, x) : i <= Max(On(ops, x))
  BY OnFacts
<1>7. PICK k \in 1..n : pos[k] = Max(On(ops, x))
  <2>1. Max(On(ops, x)) \in DOMAIN ops /\ ops[Max(On(ops, x))] \in keep
    BY <1>6 DEF On
  <2> QED BY <1>2, <2>1
<1>8. k \in On(g, x)
  BY <1>3, <1>6, <1>7 DEF On
<1>9. ASSUME NEW l \in On(g, x) PROVE l <= k
  <2>1. l \in 1..n /\ pos[l] <= pos[k]
    BY <1>5, <1>6, <1>7
  <2>2. pos[k] \in Int /\ pos[l] \in Int
    BY <1>3, <2>1
  <2>3. ~(k < l)
    BY <1>2, <2>1, <2>2
  <2> QED BY <2>1, <2>3
<1>10. Max(On(g, x)) = k
  BY <1>4, <1>8, <1>9, LastOn
<1> QED BY <1>3, <1>7, <1>8, <1>10 DEF g

\* The group of a table: its ops in their order.  The last one on a cell of the
\* table is the last one of the batch.
LEMMA GroupFacts ==
    ASSUME NEW ops \in Seq(Ops), NEW cf
    PROVE  /\ Group(ops, cf) \in Seq(Ops)
           /\ \A i \in DOMAIN Group(ops, cf) :
                 Group(ops, cf)[i].cf = cf /\ Group(ops, cf)[i] \in Range(ops)
           /\ \A x : x[1] = cf /\ On(ops, x) # {} =>
                 /\ On(Group(ops, cf), x) # {}
                 /\ Group(ops, cf)[Max(On(Group(ops, cf), x))] = ops[Max(On(ops, x))]
                 /\ (\E i \in On(ops, x) : ops[i].kind = "del")
                       <=> \E i \in On(Group(ops, cf), x) : Group(ops, cf)[i].kind = "del"
<1> DEFINE keep == {op \in Range(ops) : op.cf = cf}
           g == Group(ops, cf)
<1>1. g = Select(ops, keep)
  BY DEF Group
<1>2. /\ g \in Seq(Ops)
      /\ \A k \in DOMAIN g : g[k] \in keep
      /\ \A i \in DOMAIN ops : ops[i] \in keep => \E k \in DOMAIN g : g[k] = ops[i]
  <2> HIDE DEF keep, g
  <2> QED BY <1>1, SelectOps
<1> HIDE DEF g
<1>3. \A k \in DOMAIN g :
         g[k].cf = cf /\ g[k] \in Range(ops) /\ \E i \in DOMAIN ops : g[k] = ops[i]
  BY <1>2 DEF Range
<1>4. ASSUME NEW x, x[1] = cf
      PROVE  /\ \A i \in On(ops, x) : ops[i] \in keep
             /\ (\E i \in On(ops, x) : ops[i].kind = "del") <=> \E i \in On(g, x) : g[i].kind = "del"
  <2>1. ASSUME NEW i \in On(ops, x) PROVE ops[i] \in keep
    <3>1. i \in DOMAIN ops /\ <<ops[i].cf, ops[i].key>> = x
      BY DEF On
    <3>2. ops[i].cf = cf
      BY <1>4, <3>1
    <3> QED BY <3>1, <3>2 DEF Range
  <2>2. \A i \in On(ops, x) : \E k \in On(g, x) : g[k] = ops[i]
    <3> HIDE DEF keep
    <3> QED BY <1>2, <2>1 DEF On
  <2>3. \A k \in On(g, x) : \E i \in On(ops, x) : g[k] = ops[i]
    BY <1>3 DEF On
  <2> QED BY <2>1, <2>2, <2>3
<1>5. ASSUME NEW x, x[1] = cf, On(ops, x) # {}
      PROVE  On(g, x) # {} /\ g[Max(On(g, x))] = ops[Max(On(ops, x))]
  <2> HIDE DEF keep
  <2> QED BY <1>1, <1>4, <1>5, SelectLast
<1> QED BY <1>2, <1>3, <1>4, <1>5 DEF g

\* The requests of S3: the puts in their order, then the deletes.
LEMMA RequestFacts ==
    ASSUME NEW g \in Seq(Ops), NEW s, s = Puts(g) \o Dels(g)
    PROVE  /\ s \in Seq(Ops)
           /\ \A i \in DOMAIN s : s[i] \in Range(g)
           /\ \A i, j \in DOMAIN s : i < j /\ s[i].kind = "del" => s[j].kind = "del"
           /\ \A x : On(g, x) # {} =>
                 /\ On(s, x) # {}
                 /\ Effect(s[Max(On(s, x))]) =
                       IF \E i \in On(g, x) : g[i].kind = "del" THEN None
                       ELSE Effect(g[Max(On(g, x))])
<1> DEFINE puts == {op \in Range(g) : op.kind = "put"}
           dels == {op \in Range(g) : op.kind = "del"}
           p == Puts(g)
           d == Dels(g)
           m == Len(p)
           n == Len(d)
<1>1. p = Select(g, puts) /\ d = Select(g, dels)
  BY DEF Puts, Dels
<1>2. /\ p \in Seq(Ops) /\ \A k \in DOMAIN p : p[k] \in puts
      /\ d \in Seq(Ops) /\ \A k \in DOMAIN d : d[k] \in dels
      /\ \A i \in DOMAIN g : g[i] \in dels => \E k \in DOMAIN d : d[k] = g[i]
  <2> HIDE DEF puts, dels, p, d
  <2> QED BY <1>1, SelectOps
<1> HIDE DEF p, d
<1>3. /\ m \in Nat /\ n \in Nat /\ DOMAIN p = 1..m /\ DOMAIN d = 1..n
      /\ s \in Seq(Ops) /\ DOMAIN s = 1..(m + n)
      /\ \A i \in 1..m : s[i] = p[i]
      /\ \A i \in 1..n : s[m + i] = d[i]
  BY <1>2 DEF p, d
<1> HIDE DEF m, n
<1>4. \A i \in 1..(m + n) : i \in 1..m \/ (i - m \in 1..n /\ i = m + (i - m))
  BY <1>3
<1>5. ASSUME NEW i \in 1..(m + n)
      PROVE  \/ i \in 1..m /\ s[i] = p[i] /\ s[i] \in puts
             \/ i \notin 1..m /\ i - m \in 1..n /\ s[i] = d[i - m] /\ s[i] \in dels
  <2>1. CASE i \in 1..m
    BY <1>2, <1>3, <2>1
  <2>2. CASE i \notin 1..m
    <3>1. i - m \in 1..n /\ i = m + (i - m)
      BY <1>4, <2>2
    <3>2. s[m + (i - m)] = d[i - m]
      BY <1>3, <3>1
    <3> QED BY <1>2, <1>3, <2>2, <3>1, <3>2
  <2> QED BY <2>1, <2>2
<1>6. \A i \in DOMAIN s : s[i] \in Range(g)
  BY <1>3, <1>5
<1>7. ASSUME NEW i \in DOMAIN s, NEW j \in DOMAIN s, i < j, s[i].kind = "del"
      PROVE  s[j].kind = "del"
  <2>1. i \notin 1..m
    BY <1>3, <1>5, <1>7
  <2>2. j \notin 1..m
    BY <1>3, <1>7, <2>1
  <2> QED BY <1>3, <1>5, <2>2
<1>8. ASSUME NEW x, On(g, x) # {}
      PROVE  /\ On(s, x) # {}
             /\ Effect(s[Max(On(s, x))]) =
                   IF \E i \in On(g, x) : g[i].kind = "del" THEN None
                   ELSE Effect(g[Max(On(g, x))])
  <2>1. CASE \E i \in On(g, x) : g[i].kind = "del"
    <3>1. PICK i \in On(g, x) : g[i].kind = "del"
      BY <2>1
    <3>2. i \in DOMAIN g /\ g[i] \in dels /\ <<g[i].cf, g[i].key>> = x
      BY <3>1 DEF On, Range
    <3>3. PICK k \in 1..n : d[k] = g[i]
      BY <1>2, <1>3, <3>2
    <3>4. m + k \in DOMAIN s /\ s[m + k] = g[i]
      BY <1>3, <3>3
    <3>5. m + k \in On(s, x)
      BY <3>2, <3>4 DEF On
    <3>6. Max(On(s, x)) \in On(s, x) /\ m + k <= Max(On(s, x))
      BY <1>3, <3>5, OnFacts
    <3>7. Max(On(s, x)) \in 1..(m + n) /\ Max(On(s, x)) \notin 1..m
      <4>1. \A j \in On(s, x) : j \in 1..(m + n)
        BY <1>3 DEF On
      <4>2. ASSUME NEW j \in 1..(m + n), m + k <= j PROVE j \notin 1..m
        BY <1>3, <3>3, <4>2
      <4> QED BY <3>6, <4>1, <4>2
    <3>8. s[Max(On(s, x))].kind = "del"
      BY <1>5, <3>7
    <3> QED BY <2>1, <3>5, <3>8 DEF Effect
  <2>2. CASE ~\E i \in On(g, x) : g[i].kind = "del"
    <3>1. ASSUME NEW i \in On(g, x) PROVE g[i] \in puts
      <4>1. i \in DOMAIN g /\ g[i] \in Ops
        BY DEF On
      <4>2. g[i].kind = "put"
        BY <2>2, <4>1 DEF Ops
      <4> QED BY <4>1, <4>2 DEF Range
    <3>2. On(p, x) # {} /\ p[Max(On(p, x))] = g[Max(On(g, x))]
      <4> HIDE DEF puts
      <4> QED BY <1>1, <1>8, <3>1, SelectLast
    <3>3. Max(On(p, x)) \in On(p, x) /\ \A i \in On(p, x) : i <= Max(On(p, x))
      BY <1>2, <3>2, OnFacts
    <3>4. ASSUME NEW i \in On(s, x) PROVE i \in On(p, x)
      <4>1. i \in 1..(m + n) /\ <<s[i].cf, s[i].key>> = x
        BY <1>3 DEF On
      <4>2. s[i] \notin dels
        <5> SUFFICES ASSUME s[i] \in dels PROVE FALSE
          OBVIOUS
        <5>1. PICK j \in DOMAIN g : g[j] = s[i]
          BY DEF Range
        <5> QED BY <2>2, <4>1, <5>1 DEF On
      <4>3. i \in 1..m /\ s[i] = p[i]
        BY <1>5, <4>1, <4>2
      <4> QED BY <1>3, <4>1, <4>3 DEF On
    <3>5. \A i \in On(p, x) : i \in On(s, x) /\ s[i] = p[i]
      BY <1>3 DEF On
    <3>6. Max(On(s, x)) = Max(On(p, x))
      BY <1>3, <3>3, <3>4, <3>5, LastOn
    <3> QED BY <2>2, <3>2, <3>3, <3>5, <3>6
  <2> QED BY <2>1, <2>2
<1> QED BY <1>3, <1>6, <1>7, <1>8

-----------------------------------------------------------------------------
(* What a step of one thread does to the calls of the others and the promises *)

\* Another call, when a step has written the cells of W and left it with A.
LEMMA OtherCall ==
    ASSUME NEW k, NEW u, NEW c, NEW D, NEW M, NEW S, NEW D2, NEW M2, NEW S2, NEW A, NEW W,
           NEW F, NEW F2, F > 0 => F2 > 0,
           CallOK(k, u, c, D, M, S, F), A \subseteq c.alone \ W,
           \A x \in Cells : x \notin W => D2[x] = D[x] /\ M2[x] = M[x],
           OnlySavepoint(u, S) => S2 = S \/ A = {}
    PROVE  CallOK(k, u, [c EXCEPT !.alone = A], D2, M2, S2, F2)
<1>1. CASE c = Idle
  BY <1>1 DEF CallOK, Idle
<1>2. CASE IsScan(c) /\ ScanOK(k, c, M, F)
  <2> DEFINE b == [c EXCEPT !.alone = A]
  <2>1. /\ b = [op |-> "scan", tables |-> c.tables, all |-> c.all, prefix |-> c.prefix,
                last |-> c.last, listed |-> c.listed, got |-> c.got, alone |-> A]
    BY <1>2 DEF IsScan
  <2>2. /\ b.op = "scan" /\ b.tables = c.tables /\ b.all = c.all /\ b.prefix = c.prefix
        /\ b.last = c.last /\ b.listed = c.listed /\ b.got = c.got /\ b.alone = A
    BY <2>1
  <2> HIDE DEF b
  <2>3. IsScan(b)
    BY <1>2, <2>1, <2>2 DEF IsScan
  <2>4. \A x \in A : x \in c.alone /\ x \in Cells /\ M2[x] = M[x]
    BY <1>2 DEF IsScan
  <2>5. ScanPlace(k, b)
    BY <1>2, <2>2 DEF ScanOK, ScanPlace
  <2>6. ScanRows(b) = ScanRows(c) /\ \A x : ScanAt(k, b, x) = ScanAt(k, c, x)
    BY <2>2 DEF ScanRows, ScanAt
  <2>7. ASSUME NEW x \in ScanRows(b) \cap A PROVE RowOK(k, b, M2, F2, x)
    <3>1. RowOK(k, c, M, F, x) /\ M2[x] = M[x]
      BY <1>2, <2>4, <2>6 DEF ScanOK
    <3>2. Passed(b, x) <=> Passed(c, x)
      BY <2>2 DEF Passed
    <3>3. MayEndEarly(k, c, F) => MayEndEarly(k, b, F2)
      BY <2>2 DEF MayEndEarly
    <3> QED BY <2>2, <2>6, <3>1, <3>2, <3>3 DEF RowOK
  <2>8. ScanOK(k, b, M2, F2)
    BY <1>2, <2>2, <2>5, <2>6, <2>7 DEF ScanOK
  <2> QED BY <2>3, <2>8 DEF CallOK, b
<1>3. CASE k = "s3" /\ IsGet(c) /\ GetOK(c, D)
  <2> DEFINE b == [c EXCEPT !.alone = A]
  <2>1. b = [op |-> "get", cell |-> c.cell, got |-> c.got, alone |-> A]
    BY <1>3 DEF IsGet
  <2>2. b.op = "get" /\ b.cell = c.cell /\ b.got = c.got /\ b.alone = A
    BY <2>1
  <2> HIDE DEF b
  <2>3. IsGet(b)
    BY <1>3, <2>1, <2>2 DEF IsGet
  <2>4. \A x \in A : x \in c.alone /\ D2[x] = D[x]
    BY <1>3 DEF IsGet
  <2>5. GetOK(b, D2)
    BY <1>3, <2>2, <2>4 DEF GetOK
  <2> QED BY <1>3, <2>3, <2>5 DEF CallOK, b
<1>4. CASE k = "s3" /\ IsUpload(c)
  <2> DEFINE b == [c EXCEPT !.alone = A]
  <2>1. b = [op |-> "stream_put", cell |-> c.cell, rest |-> c.rest, parts |-> c.parts, alone |-> A]
    BY <1>4 DEF IsUpload
  <2>2. b.op = "stream_put" /\ b.cell = c.cell /\ b.rest = c.rest /\ b.parts = c.parts /\ b.alone = A
    BY <2>1
  <2> HIDE DEF b
  <2>3. IsUpload(b)
    BY <1>4, <2>1, <2>2 DEF IsUpload
  <2> QED BY <1>4, <2>3 DEF CallOK, b
<1>5. CASE IsBatch(c) /\ BatchOK(k, u, c, D, M, S)
  <2> DEFINE b == [c EXCEPT !.alone = A]
  <2>1. /\ b = [op |-> "batch", ops |-> c.ops, cf |-> c.cf, todo |-> c.todo, phase |-> c.phase,
                done |-> c.done, before |-> c.before, held |-> c.held, alone |-> A]
    BY <1>5 DEF IsBatch
  <2>2. /\ b.op = "batch" /\ b.ops = c.ops /\ b.cf = c.cf /\ b.todo = c.todo /\ b.phase = c.phase
        /\ b.done = c.done /\ b.before = c.before /\ b.held = c.held /\ b.alone = A
    BY <2>1
  <2> HIDE DEF b
  <2>3. IsBatch(b)
    BY <1>5, <2>1, <2>2 DEF IsBatch
  <2>4. \A x \in A : x \in c.alone /\ x \in Cells /\ D2[x] = D[x] /\ M2[x] = M[x]
    BY <1>5 DEF IsBatch, CellsOf
  <2>5. ASSUME NEW x \in A
        PROVE  /\ x[1] \in b.done => Written(k, b, D2, M2, x)
               /\ x[1] \notin b.done => Untouched(k, b, D2, M2, x)
               /\ x[1] = b.cf /\ b.phase = "ops" => Underway(k, b, M2, x)
               /\ b.phase = "cleanup" => M2[x] = D2[x]
    <3>1. D2[x] = D[x] /\ M2[x] = M[x] /\ x \in c.alone /\ x \in Cells
      BY <2>4
    <3>2. x[1] \in b.done => Written(k, b, D2, M2, x)
      BY <1>5, <2>2, <3>1 DEF BatchOK, Written
    <3>3. x[1] \notin b.done => Untouched(k, b, D2, M2, x)
      BY <1>5, <2>2, <3>1 DEF BatchOK, Untouched
    <3>4. x[1] = b.cf /\ b.phase = "ops" => Underway(k, b, M2, x)
      <4>1. ApplyOps(M2, c.todo)[x] = ApplyOps(M, c.todo)[x]
        BY <3>1 DEF ApplyOps
      <4> QED BY <1>5, <2>2, <3>1, <4>1 DEF BatchOK, Underway
    <3>5. b.phase = "cleanup" => M2[x] = D2[x]
      BY <1>5, <2>2, <3>1 DEF BatchOK
    <3> QED BY <3>2, <3>3, <3>4, <3>5
  <2>6. ASSUME k = "sqlite", InSavepoint(b)
        PROVE  /\ OnlySavepoint(u, S2)
               /\ \A x \in b.alone : S2[1].saw[x] = D2[x] /\ (x[1] # b.cf => M2[x] = D2[x])
    <3>1. InSavepoint(c) /\ A # {}
      BY <2>2, <2>4, <2>6 DEF InSavepoint
    <3>2. /\ OnlySavepoint(u, S)
          /\ \A x \in c.alone : S[1].saw[x] = D[x] /\ (x[1] # c.cf => M[x] = D[x])
      BY <1>5, <2>6, <3>1 DEF BatchOK
    <3>3. S2 = S
      BY <3>1, <3>2
    <3> QED BY <2>2, <2>4, <3>2, <3>3
  <2>7. k = "s3" /\ b.phase = "ops" =>
          \A i, j \in DOMAIN b.todo : i < j /\ b.todo[i].kind = "del" => b.todo[j].kind = "del"
    BY <1>5, <2>2 DEF BatchOK
  <2>8. BatchOK(k, u, b, D2, M2, S2)
    BY <2>2, <2>5, <2>6, <2>7 DEF BatchOK
  <2> QED BY <2>3, <2>8 DEF CallOK, b
<1> QED BY <1>1, <1>2, <1>3, <1>4, <1>5 DEF CallOK

\* The promises, when a step has written the cells of W and settled some of them.
LEMMA PromisesKept ==
    ASSUME Shape, Promised, NEW W, NEW settled, Promise(W, settled),
           \A x \in Cells : x \notin W => disk'[x] = disk[x] /\ mem'[x] = mem[x],
           savepoints' = <<>> => \A x \in DOMAIN settled : x \in Cells =>
              settled[x] \in Maybe /\ disk'[x] = settled[x] /\ mem'[x] = settled[x]
    PROVE  Promised' /\ must' \in [Cells -> Maybe \cup {Unknown}]
<1>1. ASSUME NEW x \in Cells
      PROVE  /\ must'[x] \in Maybe \cup {Unknown}
             /\ must'[x] # Unknown => disk'[x] = must'[x] /\ mem'[x] = must'[x]
  <2>1. CASE x \in DOMAIN settled /\ savepoints' = <<>>
    <3>1. must'[x] = settled[x]
      BY <2>1 DEF Promise
    <3> QED BY <2>1, <3>1
  <2>2. CASE ~(x \in DOMAIN settled /\ savepoints' = <<>>) /\ x \in W \cup DOMAIN settled
    <3>1. must'[x] = Unknown
      BY <2>2 DEF Promise
    <3> QED BY <3>1
  <2>3. CASE x \notin W \cup DOMAIN settled
    <3>1. must'[x] = must[x] /\ disk'[x] = disk[x] /\ mem'[x] = mem[x]
      BY <2>3 DEF Promise
    <3> QED BY <3>1 DEF Shape, Promised
  <2> QED BY <2>1, <2>2, <2>3
<1>2. must' = [x \in Cells |-> must'[x]]
  BY DEF Promise
<1>3. must' \in [Cells -> Maybe \cup {Unknown}]
  BY <1>1, <1>2
<1> QED BY <1>1, <1>3 DEF Promised

\* The state a step of a thread leaves, but for its call, its reply and the promises.
NewState ==
    /\ disk' \in Contents /\ mem' \in Contents
    /\ savepoints' \in Seq([id : Threads, saw : Contents])
    /\ dirty' \in BOOLEAN /\ faults' \in 0..MaxFaults
    /\ kind # "sqlite" => savepoints' = <<>>
    /\ kind # "qpdf" => ~dirty'
    /\ savepoints' = <<>> /\ ~dirty' => mem' = disk'

Outside(W) == \A x \in Cells : x \notin W => disk'[x] = disk[x] /\ mem'[x] = mem[x]

Settles(settled) ==
    savepoints' = <<>> => \A x \in DOMAIN settled : x \in Cells =>
        settled[x] \in Maybe /\ disk'[x] = settled[x] /\ mem'[x] = settled[x]

\* Nobody else's only savepoint is touched.
OthersSavepoints(th) ==
    \A u \in Threads \ {th} : OnlySavepoint(u, savepoints) => savepoints' = savepoints

\* A thread runs in an open store, which stays what it is.
Running ==
    /\ opened /\ UNCHANGED <<kind, opened>> /\ calls' \in 0..MaxCalls
    /\ faults > 0 => faults' > 0

\* A step of a thread that leaves it with call c.
LEMMA ThreadKeeps ==
    ASSUME IInv, Running, NEW th \in Threads, NEW c, NEW W, NEW settled,
           Becomes(th, c, W), Promise(W, settled), NewState, Outside(W), Settles(settled),
           OthersSavepoints(th), CallOK(kind, th, c, disk', mem', savepoints', faults'), FailedBatch'
    PROVE  IInv'
<1>1. Promised' /\ must' \in [Cells -> Maybe \cup {Unknown}]
  BY PromisesKept DEF IInv, Outside, Settles
<1>2. DOMAIN call' = Threads
  BY DEF Becomes
<1>3. Shape'
  BY <1>1, <1>2 DEF IInv, Shape, Running, NewState
<1>4. Modes'
  BY DEF IInv, Running, NewState, Modes
<1>5. ASSUME NEW u \in Threads PROVE CallOK(kind', u, call'[u], disk', mem', savepoints', faults')
  <2>1. CASE u = th
    BY <2>1 DEF Becomes, Running
  <2>2. CASE u # th
    <3>1. call'[u] = [call[u] EXCEPT !.alone = call[u].alone \ W]
      BY <2>2 DEF Becomes
    <3>2. CallOK(kind, u, call[u], disk, mem, savepoints, faults)
      BY DEF IInv, Calls
    <3>3. OnlySavepoint(u, savepoints) => savepoints' = savepoints
      BY <2>2 DEF OthersSavepoints
    <3>4. \A x \in Cells : x \notin W => disk'[x] = disk[x] /\ mem'[x] = mem[x]
      BY DEF Outside
    <3>5. CallOK(kind, u, [call[u] EXCEPT !.alone = call[u].alone \ W], disk', mem', savepoints', faults')
      BY <3>2, <3>3, <3>4, OtherCall DEF Running
    <3> QED BY <3>1, <3>5 DEF Running
  <2> QED BY <2>1, <2>2
<1>6. Calls'
  BY <1>5 DEF Calls
<1> QED BY <1>1, <1>3, <1>4, <1>6 DEF IInv

\* Steps that leave the contents and the connection alone.
LEMMA Quiet ==
    ASSUME IInv, NEW th \in Threads,
           UNCHANGED <<disk, mem, savepoints, dirty>>, faults' \in 0..MaxFaults
    PROVE  NewState /\ Outside({}) /\ OthersSavepoints(th) /\ Settles(<<>>)
BY DEF IInv, Shape, Modes, NewState, Outside, OthersSavepoints, Settles

LEMMA Faults == ASSUME IInv, Fault \/ NoFault PROVE faults' \in 0..MaxFaults
BY BackendAssumption DEF IInv, Shape, Fault, NoFault

LEMMA NoBatchFailed == ASSUME reply'.op # "batch" PROVE FailedBatch'
BY DEF FailedBatch

LEMMA ContinueKeeps ==
    ASSUME IInv, Running, NEW th \in Threads, NEW c, NEW W, Continue(th, c, W),
           NewState, Outside(W), OthersSavepoints(th),
           CallOK(kind, th, c, disk', mem', savepoints', faults')
    PROVE  IInv'
<1>1. FailedBatch'
  <2>1. reply'.op # "batch"
    BY DEF Continue, NoReply
  <2> QED BY <2>1, NoBatchFailed
<1>2. Settles(<<>>)
  BY DEF Settles
<1>3. Becomes(th, c, W) /\ Promise(W, <<>>)
  BY DEF Continue
<1> QED BY <1>1, <1>2, <1>3, ThreadKeeps

\* A call that is not a batch, or a batch that succeeds, returns.
LEMMA ReturnKeeps ==
    ASSUME IInv, Running, NEW th \in Threads, NEW ok, NEW W, NEW settled,
           Return(th, ok, W, settled), NewState, Outside(W), Settles(settled),
           OthersSavepoints(th), call[th].op # "batch" \/ ok
    PROVE  IInv'
<1>1. FailedBatch'
  BY DEF FailedBatch, Return, NoReply
<1>2. CallOK(kind, th, Idle, disk', mem', savepoints', faults')
  BY DEF CallOK
<1>3. Becomes(th, Idle, W) /\ Promise(W, settled)
  BY DEF Return
<1> QED BY <1>1, <1>2, <1>3, ThreadKeeps

\* A batch fails, and the cells it was alone with are as they were, but for S3.
LEMMA FailedKeeps ==
    ASSUME IInv, Running, NEW th \in Threads, call[th].op = "batch",
           NEW W, GroupFailed(th, W), NewState, Outside(W), OthersSavepoints(th),
           \A x \in call[th].alone : kind # "s3" => disk'[x] = disk[x]
    PROVE  IInv'
<1>0. PICK b : b = call[th]
  OBVIOUS
<1>1. reply' = [op |-> "batch", ok |-> FALSE, call |-> b]
  BY <1>0 DEF GroupFailed, Return, IsIdle
<1>2. CallOK(kind, th, b, disk, mem, savepoints, faults)
  BY <1>0 DEF IInv, Calls
<1>3. IsBatch(b) /\ BatchOK(kind, th, b, disk, mem, savepoints)
  BY <1>0, <1>2 DEF CallOK, Idle, IsScan, IsGet, IsUpload
<1>4. ASSUME NEW x \in b.alone, x[1] \notin b.done, kind # "s3",
             ~(kind = "qpdf" /\ b.held[x] # b.before[x])
      PROVE  /\ disk'[x] = b.before[x]
             /\ kind # "qpdf" /\ savepoints' = <<>> => mem'[x] = b.before[x]
  <2>1. Untouched(kind, b, disk, mem, x) /\ kind \in {"rocksdb", "sqlite", "qpdf"}
    BY <1>3, <1>4, StorageAssumption DEF BatchOK, IInv, Shape
  <2>2. disk'[x] = b.before[x]
    BY <1>0, <1>4, <2>1 DEF Untouched
  <2>3. kind # "qpdf" /\ savepoints' = <<>> => mem'[x] = disk'[x]
    BY <2>1 DEF NewState
  <2> QED BY <2>2, <2>3
<1>5. FailedBatch'
  BY <1>1, <1>4 DEF FailedBatch, LeavesSome, Running
<1>6. CallOK(kind, th, Idle, disk', mem', savepoints', faults')
  BY DEF CallOK
<1>7. Becomes(th, Idle, W) /\ Promise(W, <<>>)
  BY DEF GroupFailed, Return
<1>8. Settles(<<>>)
  BY DEF Settles
<1> QED BY <1>5, <1>6, <1>7, <1>8, ThreadKeeps

-----------------------------------------------------------------------------
(* Calls of one step *)

\* A call in flight is one of the records, by its op.
LEMMA CallShape ==
    ASSUME IInv, NEW th \in Threads
    PROVE  /\ CallOK(kind, th, call[th], disk, mem, savepoints, faults)
           /\ call[th].op = "idle" => call[th] = Idle
           /\ call[th].op = "scan" => IsScan(call[th]) /\ ScanOK(kind, call[th], mem, faults)
           /\ call[th].op = "get" => kind = "s3" /\ IsGet(call[th]) /\ GetOK(call[th], disk)
           /\ call[th].op = "stream_put" => kind = "s3" /\ IsUpload(call[th])
           /\ call[th].op = "batch" =>
                 IsBatch(call[th]) /\ BatchOK(kind, th, call[th], disk, mem, savepoints)
           /\ call[th].op \in {"idle", "scan", "get", "stream_put", "batch"}
           /\ call[th].alone \subseteq Cells
<1>1. CallOK(kind, th, call[th], disk, mem, savepoints, faults)
  BY DEF IInv, Calls
<1>2. IsBatch(call[th]) => call[th].alone \subseteq Cells
  BY DEF IsBatch, CellsOf
<1> QED BY <1>1, <1>2 DEF CallOK, Idle, IsScan, IsGet, IsUpload, IsBatch

\* RocksDB and S3 read what is stored.
LEMMA Direct ==
    ASSUME IInv, kind \in {"rocksdb", "s3"}
    PROVE  mem = disk /\ savepoints = <<>> /\ dirty = FALSE
BY DEF IInv, Shape, Modes

LEMMA SetState ==
    ASSUME IInv, kind \in {"rocksdb", "s3"}, NEW th \in Threads,
           NEW m \in Contents, disk' = m, mem' = m, UNCHANGED <<savepoints, dirty>>,
           faults' \in 0..MaxFaults,
           NEW W, \A x \in Cells : x \notin W => m[x] = disk[x]
    PROVE  NewState /\ Outside(W) /\ OthersSavepoints(th)
<1>1. mem = disk /\ savepoints = <<>> /\ dirty = FALSE
  BY Direct
<1> QED BY <1>1 DEF IInv, Shape, NewState, Outside, OthersSavepoints

\* RocksKeep and S3Keep leave everything alone.
LEMMA KeepsAll ==
    ASSUME IInv, kind \in {"rocksdb", "s3"}, RocksKeep \/ S3Keep
    PROVE  UNCHANGED <<disk, mem, savepoints, dirty>>
<1>1. mem = disk
  BY Direct
<1> QED BY <1>1 DEF RocksKeep, RocksSet, S3Keep, S3Set

LEMMA CellWrite ==
    ASSUME NEW m \in Contents, NEW c \in Cells, NEW v \in Maybe
    PROVE  /\ [m EXCEPT ![c] = v] \in Contents /\ [m EXCEPT ![c] = v][c] = v
           /\ \A x \in Cells : x \notin {c} => [m EXCEPT ![c] = v][x] = m[x]
BY DEF Contents

LEMMA OnlyFacts ==
    ASSUME NEW c, NEW v PROVE DOMAIN Only(c, v) = {c} /\ Only(c, v)[c] = v /\ Only(c, v) # <<>>
<1>1. DOMAIN Only(c, v) = {c} /\ Only(c, v)[c] = v
  BY DEF Only
<1>2. DOMAIN <<>> = {}
  OBVIOUS
<1> QED BY <1>1, <1>2

LEMMA SettlesOnly ==
    ASSUME NEW c, NEW v \in Maybe, NEW settled, settled \in {<<>>, Only(c, v)},
           settled = Only(c, v) /\ savepoints' = <<>> => disk'[c] = v /\ mem'[c] = v
    PROVE  Settles(settled)
<1>1. CASE settled = <<>>
  BY <1>1 DEF Settles
<1>2. CASE settled = Only(c, v)
  <2>1. DOMAIN settled = {c} /\ settled[c] = v
    BY <1>2, OnlyFacts
  <2> QED BY <1>2, <2>1 DEF Settles
<1> QED BY <1>1, <1>2

LEMMA QuietContinue ==
    ASSUME IInv, Running, NEW th \in Threads, NEW c, Continue(th, c, {}),
           UNCHANGED <<disk, mem, savepoints, dirty>>, Fault \/ NoFault,
           CallOK(kind, th, c, disk, mem, savepoints, faults')
    PROVE  IInv'
<1>1. faults' \in 0..MaxFaults
  BY Faults
<1>2. NewState /\ Outside({}) /\ OthersSavepoints(th)
  BY <1>1, Quiet
<1>3. CallOK(kind, th, c, disk', mem', savepoints', faults')
  OBVIOUS
<1> QED BY <1>2, <1>3, ContinueKeeps

LEMMA QuietReturn ==
    ASSUME IInv, Running, NEW th \in Threads, NEW ok, Return(th, ok, {}, <<>>),
           UNCHANGED <<disk, mem, savepoints, dirty>>, Fault \/ NoFault,
           call[th].op # "batch" \/ ok
    PROVE  IInv'
<1>1. faults' \in 0..MaxFaults
  BY Faults
<1>2. NewState /\ Outside({}) /\ OthersSavepoints(th) /\ Settles(<<>>)
  BY <1>1, Quiet
<1> QED BY <1>2, ReturnKeeps

LEMMA QuietFailure ==
    ASSUME IInv, Running, NEW th \in Threads, call[th].op = "batch", GroupFailed(th, {}),
           UNCHANGED <<disk, mem, savepoints, dirty>>, Fault \/ NoFault
    PROVE  IInv'
<1>1. faults' \in 0..MaxFaults
  BY Faults
<1>2. NewState /\ Outside({}) /\ OthersSavepoints(th)
  BY <1>1, Quiet
<1>3. \A x \in call[th].alone : disk'[x] = disk[x]
  OBVIOUS
<1> QED BY <1>2, <1>3, FailedKeeps

LEMMA RefuseKeeps ==
    ASSUME IInv, Running, NEW th \in Threads, Refuse(th)
    PROVE  IInv'
<1>1. Return(th, FALSE, {}, <<>>) /\ Fault /\ UNCHANGED <<disk, mem, savepoints, dirty>>
  BY DEF Refuse
<1>2. CASE call[th].op = "batch"
  BY <1>1, <1>2, QuietFailure DEF GroupFailed
<1>3. CASE call[th].op # "batch"
  BY <1>1, <1>3, QuietReturn
<1> QED BY <1>2, <1>3

LEMMA AnswerKeeps ==
    ASSUME IInv, Running, NEW op, NEW got, op # "batch", Answer(op, got)
    PROVE  IInv'
<1>1. FailedBatch'
  <2>1. reply'.op # "batch"
    BY DEF Answer
  <2> QED BY <2>1, NoBatchFailed
<1> QED BY <1>1 DEF Answer, Running, IInv, Shape, Modes, Promised, Calls

\* A write of one cell that is acknowledged.
LEMMA WriteReturns ==
    ASSUME IInv, Running, NEW th \in Threads, IsIdle(th) \/ call[th].op = "stream_put",
           NEW c \in Cells, NEW v \in Maybe, kind \in {"rocksdb", "s3"},
           disk' = [disk EXCEPT ![c] = v], mem' = [disk EXCEPT ![c] = v],
           UNCHANGED <<savepoints, dirty>>, Fault \/ NoFault, NEW ok,
           NEW settled, settled \in {<<>>, Only(c, v)}, Return(th, ok, {c}, settled)
    PROVE  IInv'
<1>1. faults' \in 0..MaxFaults
  BY Faults
<1>2. disk \in Contents
  BY DEF IInv, Shape
<1>4. PICK m : m = [disk EXCEPT ![c] = v] /\ disk' = m /\ mem' = m
  OBVIOUS
<1>3. m \in Contents /\ m[c] = v /\ \A x \in Cells : x \notin {c} => m[x] = disk[x]
  BY <1>2, <1>4 DEF Contents
<1>5. NewState /\ Outside({c}) /\ OthersSavepoints(th)
  BY <1>1, <1>3, <1>4, SetState
<1>6. Settles(settled)
  <2>1. disk'[c] = v /\ mem'[c] = v
    BY <1>3, <1>4
  <2> QED BY <2>1, SettlesOnly
<1>7. call[th].op # "batch"
  BY DEF IsIdle
<1> QED BY <1>5, <1>6, <1>7, ReturnKeeps

LEMMA RocksPutKeeps ==
    ASSUME IInv, Running, NEW th \in Threads, IsIdle(th), NEW c \in Cells, NEW v \in Maybe,
           kind = "rocksdb", RocksPut(th, c, v)
    PROVE  IInv'
<1>1. CASE Refuse(th)
  BY <1>1, RefuseKeeps
<1>2. CASE /\ RocksSet([disk EXCEPT ![c] = v]) /\ NoFault
           /\ Return(th, TRUE, {c}, Only(c, v))
  <2>1. /\ disk' = [disk EXCEPT ![c] = v] /\ mem' = [disk EXCEPT ![c] = v]
        /\ UNCHANGED <<savepoints, dirty>> /\ Only(c, v) \in {<<>>, Only(c, v)}
    BY <1>2 DEF RocksSet
  <2> QED BY <1>2, <2>1, WriteReturns
<1> QED BY <1>1, <1>2 DEF RocksPut

LEMMA SQLitePutKeeps ==
    ASSUME IInv, Running, NEW th \in Threads, IsIdle(th), NEW c \in Cells, NEW v \in Maybe,
           kind = "sqlite", SQLitePut(th, c, v)
    PROVE  IInv'
<1>1. CASE Refuse(th)
  BY <1>1, RefuseKeeps
<1>2. CASE /\ SQLiteWrite([mem EXCEPT ![c] = v]) /\ NoFault
           /\ Return(th, TRUE, {c}, Only(c, v))
  <2> DEFINE m == [mem EXCEPT ![c] = v]
  <2>1. faults' \in 0..MaxFaults
    BY <1>2, Faults
  <2>2. mem \in Contents /\ disk \in Contents /\ (savepoints = <<>> => mem = disk)
    BY DEF IInv, Shape, Modes
  <2>3. m \in Contents /\ m[c] = v /\ \A x \in Cells : x \notin {c} => m[x] = mem[x]
    BY <2>2, CellWrite
  <2>4. mem' = m /\ disk' = IF savepoints = <<>> THEN m ELSE disk
    BY <1>2 DEF SQLiteWrite
  <2>5. UNCHANGED <<savepoints, dirty>>
    BY <1>2 DEF SQLiteWrite
  <2> HIDE DEF m
  <2>6. NewState
    BY <2>1, <2>2, <2>3, <2>4, <2>5 DEF IInv, Shape, Modes, NewState
  <2>7. Outside({c})
    BY <2>2, <2>3, <2>4, <2>5 DEF Outside
  <2>8. OthersSavepoints(th)
    BY <2>5 DEF OthersSavepoints
  <2>9. Settles(Only(c, v))
    BY <2>3, <2>4, <2>5, SettlesOnly
  <2>10. call[th].op # "batch"
    BY DEF IsIdle
  <2> QED BY <1>2, <2>6, <2>7, <2>8, <2>9, <2>10, ReturnKeeps
<1> QED BY <1>1, <1>2 DEF SQLitePut

\* A flush of a document m that the caller has made of mem.
LEMMA FlushState ==
    ASSUME IInv, kind = "qpdf", NEW th \in Threads, NEW m \in Contents,
           NEW isDirty \in BOOLEAN, NEW ok \in BOOLEAN, QPDFFlush(m, isDirty, ok),
           NEW W, Stored \subseteq W, \A x \in Cells : x \notin W => m[x] = mem[x],
           ~isDirty => m = disk
    PROVE  /\ NewState /\ Outside(W) /\ OthersSavepoints(th) /\ mem' = m
           /\ ok => disk' = m
           /\ ~ok => disk' = disk
<1>1. (ok /\ disk' = m /\ dirty' = FALSE) \/ (~ok /\ disk' = disk /\ dirty' = TRUE)
  BY DEF QPDFFlush
<1>2. mem' = m /\ savepoints' = savepoints
  BY DEF QPDFFlush
<1>3. faults' \in 0..MaxFaults
  <2>1. Fault \/ NoFault
    BY DEF QPDFFlush
  <2> QED BY <2>1, Faults
<1>4. Outside(W)
  BY <1>2 DEF Outside, Stored
<1>5. NewState
  BY <1>1, <1>2, <1>3 DEF NewState, IInv, Shape, Modes
<1> QED BY <1>1, <1>2, <1>4, <1>5 DEF OthersSavepoints

LEMMA QPDFPutKeeps ==
    ASSUME IInv, Running, NEW th \in Threads, IsIdle(th), NEW c \in Cells, NEW v \in Maybe,
           kind = "qpdf", QPDFPut(th, c, v)
    PROVE  IInv'
<1>0. call[th].op # "batch"
  BY DEF IsIdle
<1>1. ASSUME NEW ok \in BOOLEAN, QPDFFlush([mem EXCEPT ![c] = v], TRUE, ok),
             Return(th, ok, {c} \cup Stored, IF ok THEN Only(c, v) ELSE <<>>)
      PROVE  IInv'
  <2> DEFINE m == [mem EXCEPT ![c] = v]
             W == {c} \cup Stored
             settled == IF ok THEN Only(c, v) ELSE <<>>
  <2>1. mem \in Contents
    BY DEF IInv, Shape
  <2>2. m \in Contents /\ m[c] = v /\ \A x \in Cells : x \notin {c} => m[x] = mem[x]
    BY <2>1, CellWrite
  <2>3. QPDFFlush(m, TRUE, ok) /\ Return(th, ok, W, settled)
    BY <1>1
  <2>4. Stored \subseteq W /\ c \in W
    OBVIOUS
  <2> HIDE DEF m, W
  <2>5. \A x \in Cells : x \notin W => m[x] = mem[x]
    BY <2>2, <2>4
  <2>6. /\ NewState /\ Outside(W) /\ OthersSavepoints(th) /\ mem' = m
        /\ ok => disk' = m
    BY <2>2, <2>3, <2>4, <2>5, FlushState
  <2>7. Settles(settled)
    <3>1. settled \in {<<>>, Only(c, v)} /\ (~ok => settled = <<>>)
      OBVIOUS
    <3>2. <<>> # Only(c, v)
      BY OnlyFacts
    <3> HIDE DEF settled
    <3> QED BY <2>2, <2>6, <3>1, <3>2, SettlesOnly
  <2> HIDE DEF settled
  <2> QED BY <1>0, <2>3, <2>6, <2>7, ReturnKeeps
<1>2. ASSUME v = None, mem[c] = None, NEW made \in MakesDict(c[1]), dirty' = (dirty \/ made),
             UNCHANGED <<disk, mem, savepoints>>, NoFault,
             Return(th, TRUE, {}, IF dirty THEN <<>> ELSE Only(c, None))
      PROVE  IInv'
  <2> DEFINE settled == IF dirty THEN <<>> ELSE Only(c, None)
  <2>1. dirty' \in BOOLEAN /\ (dirty => dirty')
    BY <1>2 DEF MakesDict, IInv, Shape
  <2>2. faults' \in 0..MaxFaults
    BY <1>2, Faults
  <2>3. NewState
    BY <1>2, <2>1, <2>2 DEF NewState, IInv, Shape, Modes
  <2>4. Outside({}) /\ OthersSavepoints(th)
    BY <1>2 DEF Outside, OthersSavepoints
  <2>5. ~dirty => mem = disk
    BY DEF IInv, Modes
  <2>6. Settles(settled)
    <3>1. settled \in {<<>>, Only(c, v)} /\ (dirty => settled = <<>>)
      BY <1>2
    <3>2. <<>> # Only(c, v)
      BY OnlyFacts
    <3> HIDE DEF settled
    <3> QED BY <1>2, <2>5, <3>1, <3>2, SettlesOnly
  <2>7. Return(th, TRUE, {}, settled)
    BY <1>2
  <2> HIDE DEF settled
  <2> QED BY <1>0, <2>3, <2>4, <2>6, <2>7, ReturnKeeps
<1> QED BY <1>1, <1>2 DEF QPDFPut

LEMMA S3PutKeeps ==
    ASSUME IInv, Running, NEW th \in Threads, IsIdle(th), NEW c \in Cells, NEW v \in Maybe,
           kind = "s3", S3Put(th, c, v)
    PROVE  IInv'
<1> DEFINE m == [disk EXCEPT ![c] = v]
<1>1. CASE S3Set(m) /\ NoFault /\ Return(th, TRUE, {c}, Only(c, v))
  BY <1>1, WriteReturns DEF S3Set
<1>2. CASE S3Set(m) /\ Fault /\ Return(th, FALSE, {c}, <<>>)
  BY <1>2, WriteReturns DEF S3Set
<1>3. CASE S3Keep /\ Fault /\ Return(th, FALSE, {c}, <<>>)
  <2>1. UNCHANGED <<disk, mem, savepoints, dirty>> /\ faults' \in 0..MaxFaults
    BY <1>3, KeepsAll, Faults
  <2>2. NewState /\ Outside({}) /\ OthersSavepoints(th) /\ Settles(<<>>)
    BY <2>1, Quiet
  <2>3. Outside({c}) /\ call[th].op # "batch"
    BY <2>2 DEF Outside, IsIdle
  <2> QED BY <1>3, <2>2, <2>3, ReturnKeeps
<1> QED BY <1>1, <1>2, <1>3 DEF S3Put, S3Lost

LEMMA PutKeeps ==
    ASSUME IInv, Running, NEW th \in Threads, NEW c \in Cells, NEW v \in Maybe, Put(th, c, v)
    PROVE  IInv'
BY RocksPutKeeps, SQLitePutKeeps, QPDFPutKeeps, S3PutKeeps DEF Put

LEMMA CompactKeeps ==
    ASSUME IInv, Running, NEW th \in Threads, Compact(th)
    PROVE  IInv'
<1>1. kind = "qpdf" /\ call[th].op # "batch"
  BY DEF Compact, IsIdle
<1>2. PICK ok \in BOOLEAN : QPDFFlush(mem, TRUE, ok) /\ Return(th, ok, Stored, <<>>)
  BY DEF Compact, QPDFCompact
<1>3. mem \in Contents /\ Settles(<<>>)
  BY DEF IInv, Shape, Settles
<1>4. NewState /\ Outside(Stored) /\ OthersSavepoints(th)
  BY <1>1, <1>2, <1>3, FlushState
<1> QED BY <1>1, <1>2, <1>3, <1>4, ReturnKeeps

LEMMA GetKeeps ==
    ASSUME IInv, Running, NEW th \in Threads, NEW c \in Cells, Get(th, c)
    PROVE  IInv'
<1>1. CASE kind = "rocksdb" /\ RocksGet(th, c)
  BY <1>1, RefuseKeeps, AnswerKeeps DEF RocksGet
<1>2. CASE kind = "sqlite" /\ SQLiteGet(th, c)
  BY <1>2, RefuseKeeps, AnswerKeeps DEF SQLiteGet
<1>3. CASE kind = "qpdf" /\ QPDFGet(c)
  BY <1>3, AnswerKeeps DEF QPDFGet
<1>4. CASE kind = "s3" /\ S3Get(th, c)
  <2> DEFINE b == [op |-> "get", cell |-> c, got |-> <<>>, alone |-> {c}]
  <2>1. Continue(th, b, {}) /\ NoFault /\ UNCHANGED <<disk, mem, savepoints, dirty>>
    BY <1>4, KeepsAll DEF S3Get
  <2>2. CallOK(kind, th, b, disk, mem, savepoints, faults')
    BY <1>4 DEF CallOK, IsGet, GetOK
  <2> HIDE DEF b
  <2> QED BY <2>1, <2>2, QuietContinue
<1> QED BY <1>1, <1>2, <1>3, <1>4 DEF Get

LEMMA GetManyKeeps ==
    ASSUME IInv, Running, NEW th \in Threads, NEW t, NEW ks, GetMany(th, t, ks)
    PROVE  IInv'
<1>1. PICK got : Answer("get_many", got) \/ Refuse(th)
  BY DEF GetMany, RocksGetMany, SQLiteGetMany
<1> QED BY <1>1, RefuseKeeps, AnswerKeeps

LEMMA ScanKeeps ==
    ASSUME IInv, Running, NEW th \in Threads, NEW ts \in Seq(Tables), NEW prefix \in Seq(Bytes),
           Scan(th, ts, prefix)
    PROVE  IInv'
<1> DEFINE b == [op |-> "scan", tables |-> ts, all |-> Range(ts), prefix |-> prefix,
                 last |-> None, listed |-> FALSE, got |-> <<>>, alone |-> Range(ts) \X Keys]
<1>1. Continue(th, b, {}) /\ NoFault /\ UNCHANGED <<disk, mem, savepoints, dirty>>
  BY DEF Scan, NoFault
<1>2. /\ b.op = "scan" /\ b.tables = ts /\ b.all = Range(ts) /\ b.prefix = prefix
      /\ b.last = None /\ b.listed = FALSE /\ DOMAIN b.got = {} /\ b.alone = Range(ts) \X Keys
      /\ b = [op |-> "scan", tables |-> b.tables, all |-> b.all, prefix |-> b.prefix,
              last |-> b.last, listed |-> b.listed, got |-> b.got, alone |-> b.alone]
  OBVIOUS
<1> HIDE DEF b
<1>3. Range(ts) \subseteq Tables
  BY DEF Range
<1>4. IsScan(b)
  BY <1>2, <1>3 DEF IsScan, Cells
<1>5. ScanPlace(kind, b)
  BY <1>2, <1>3 DEF ScanPlace
<1>6. ScanOK(kind, b, mem, faults')
  <2>1. \A x \in ScanRows(b) : ~Passed(b, x)
    BY <1>2 DEF ScanRows, Passed
  <2>2. \A x \in ScanRows(b) : RowOK(kind, b, mem, faults', x)
    BY <1>2, <2>1 DEF RowOK
  <2> QED BY <1>2, <1>5, <2>2 DEF ScanOK
<1> QED BY <1>1, <1>4, <1>6, QuietContinue DEF CallOK

LEMMA BatchKeeps ==
    ASSUME IInv, Running, NEW th \in Threads, NEW ops \in Seq(Ops), Batch(th, ops)
    PROVE  IInv'
<1> DEFINE b == [op |-> "batch", ops |-> ops, cf |-> None, todo |-> <<>>,
                 phase |-> "next", done |-> {},
                 before |-> [c \in CellsOf(ops) |-> disk[c]],
                 held |-> [c \in CellsOf(ops) |-> mem[c]],
                 alone |-> CellsOf(ops)]
<1>1. Continue(th, b, {}) /\ NoFault /\ UNCHANGED <<disk, mem, savepoints, dirty>>
  BY DEF Batch, NoFault
<1>2. /\ b.op = "batch" /\ b.ops = ops /\ b.cf = None /\ b.todo = <<>> /\ b.phase = "next"
      /\ b.done = {} /\ b.alone = CellsOf(ops)
      /\ \A x \in CellsOf(ops) : b.before[x] = disk[x] /\ b.held[x] = mem[x]
      /\ b = [op |-> "batch", ops |-> b.ops, cf |-> b.cf, todo |-> b.todo, phase |-> b.phase,
              done |-> b.done, before |-> b.before, held |-> b.held, alone |-> b.alone]
  OBVIOUS
<1> HIDE DEF b
<1>3. IsBatch(b)
  <2>1. b.todo \in Seq(Ops) /\ DOMAIN b.todo = {}
    BY <1>2
  <2> QED BY <1>2, <2>1 DEF IsBatch
<1>4. kind = "qpdf" \/ kind \in {"rocksdb", "sqlite", "s3"}
  BY StorageAssumption DEF IInv, Shape
<1>5. BatchOK(kind, th, b, disk, mem, savepoints)
  <2>1. \A x \in b.alone : Untouched(kind, b, disk, mem, x)
    <3>1. \A x \in b.alone : b.before[x] = disk[x] /\ b.held[x] = mem[x]
      BY <1>2
    <3> QED BY <3>1 DEF Untouched
  <2> QED BY <1>2, <2>1 DEF BatchOK, InSavepoint
<1> QED BY <1>1, <1>3, <1>5, QuietContinue DEF CallOK

-----------------------------------------------------------------------------
(* Scans, gets and uploads *)

\* A scan that has moved on.
Scanned(c, ts, last, listed, got) ==
    [op |-> "scan", tables |-> ts, all |-> c.all, prefix |-> c.prefix,
     last |-> last, listed |-> listed, got |-> got, alone |-> c.alone]

\* What the steps of a scan change: a whole table, the end of a table, a row of SQLite, and
\* a row of S3 listed and then read.
LEMMA TableScanned ==
    ASSUME NEW c, IsScan(c), NEW ts, NEW g
    PROVE  [c EXCEPT !.tables = ts, !.got = g] = Scanned(c, ts, c.last, c.listed, g)
<1>1. PICK q : q = [c EXCEPT !.tables = ts]
  OBVIOUS
<1>2. [c EXCEPT !.tables = ts, !.got = g] = [q EXCEPT !.got = g]
  BY <1>1
<1>3. q = Scanned(c, ts, c.last, c.listed, c.got)
  BY <1>1 DEF IsScan, Scanned
<1> QED BY <1>2, <1>3 DEF Scanned

LEMMA TableEnded ==
    ASSUME NEW c, IsScan(c), NEW ts, NEW k
    PROVE  [c EXCEPT !.tables = ts, !.last = k] = Scanned(c, ts, k, c.listed, c.got)
<1>1. PICK q : q = [c EXCEPT !.tables = ts]
  OBVIOUS
<1>2. [c EXCEPT !.tables = ts, !.last = k] = [q EXCEPT !.last = k]
  BY <1>1
<1>3. q = Scanned(c, ts, c.last, c.listed, c.got)
  BY <1>1 DEF IsScan, Scanned
<1> QED BY <1>2, <1>3 DEF Scanned

LEMMA RowScanned ==
    ASSUME NEW c, IsScan(c), NEW k, NEW g
    PROVE  [c EXCEPT !.last = k, !.got = g] = Scanned(c, c.tables, k, c.listed, g)
<1>1. PICK q : q = [c EXCEPT !.last = k]
  OBVIOUS
<1>2. [c EXCEPT !.last = k, !.got = g] = [q EXCEPT !.got = g]
  BY <1>1
<1>3. q = Scanned(c, c.tables, k, c.listed, c.got)
  BY <1>1 DEF IsScan, Scanned
<1> QED BY <1>2, <1>3 DEF Scanned

LEMMA RowListed ==
    ASSUME NEW c, IsScan(c), NEW k, NEW l
    PROVE  [c EXCEPT !.last = k, !.listed = l] = Scanned(c, c.tables, k, l, c.got)
<1>1. PICK q : q = [c EXCEPT !.last = k]
  OBVIOUS
<1>2. [c EXCEPT !.last = k, !.listed = l] = [q EXCEPT !.listed = l]
  BY <1>1
<1>3. q = Scanned(c, c.tables, k, c.listed, c.got)
  BY <1>1 DEF IsScan, Scanned
<1> QED BY <1>2, <1>3 DEF Scanned

LEMMA RowRead ==
    ASSUME NEW c, IsScan(c), NEW l, NEW g
    PROVE  [c EXCEPT !.listed = l, !.got = g] = Scanned(c, c.tables, c.last, l, g)
<1>1. PICK q : q = [c EXCEPT !.listed = l]
  OBVIOUS
<1>2. [c EXCEPT !.listed = l, !.got = g] = [q EXCEPT !.got = g]
  BY <1>1
<1>3. q = Scanned(c, c.tables, c.last, l, c.got)
  BY <1>1 DEF IsScan, Scanned
<1> QED BY <1>2, <1>3 DEF Scanned

\* A step of a scan from c to b that adds the rows of more, with their values, and passes
\* no row that has one without returning it.
Advances(k, c, b, more, M, F) ==
    /\ b = Scanned(c, b.tables, b.last, b.listed, b.got)
    /\ b.got = Merged(c.got, more) \/ (b.got = c.got /\ DOMAIN more = {})
    /\ ScanPlace(k, b)
    /\ \A y \in DOMAIN more : \E x \in ScanRows(c) : y = ScanAt(k, c, x)
    /\ \A x \in ScanRows(c) : ScanAt(k, c, x) \in DOMAIN more => more[ScanAt(k, c, x)] = M[x]
    /\ \A x \in ScanRows(c) :
          Passed(b, x) => \/ Passed(c, x) \/ M[x] = None
                          \/ ScanAt(k, c, x) \in DOMAIN more
                          \/ MayEndEarly(k, c, F)

LEMMA ScanMoves ==
    ASSUME NEW k, NEW c, NEW M, NEW F, NEW F2, F > 0 => F2 > 0, IsScan(c), ScanOK(k, c, M, F),
           NEW b, NEW more, Advances(k, c, b, more, M, F2)
    PROVE  IsScan(b) /\ ScanOK(k, b, M, F2)
<1>1. b = Scanned(c, b.tables, b.last, b.listed, b.got)
  BY DEF Advances
<1>2. /\ b.op = "scan" /\ b.all = c.all /\ b.prefix = c.prefix /\ b.alone = c.alone
      /\ b = [op |-> "scan", tables |-> b.tables, all |-> b.all, prefix |-> b.prefix,
              last |-> b.last, listed |-> b.listed, got |-> b.got, alone |-> b.alone]
  <2>1. PICK ts, last, listed, got : b = Scanned(c, ts, last, listed, got)
    BY <1>1
  <2>2. /\ b.op = "scan" /\ b.all = c.all /\ b.prefix = c.prefix /\ b.alone = c.alone
    BY <2>1 DEF Scanned
  <2> QED BY <1>1, <2>2 DEF Scanned
<1>3. IsScan(b)
  BY <1>2 DEF IsScan
<1>4. ScanRows(b) = ScanRows(c) /\ \A x : ScanAt(k, b, x) = ScanAt(k, c, x)
  BY <1>2 DEF ScanRows, ScanAt
<1>5. /\ DOMAIN b.got = (DOMAIN c.got) \cup (DOMAIN more)
      /\ \A y \in DOMAIN c.got : b.got[y] = c.got[y]
      /\ \A y \in DOMAIN more : y \notin DOMAIN c.got => b.got[y] = more[y]
  <2>1. CASE b.got = Merged(c.got, more)
    BY <2>1 DEF Merged
  <2>2. CASE b.got = c.got /\ DOMAIN more = {}
    BY <2>2
  <2> QED BY <2>1, <2>2 DEF Advances
<1>6. DOMAIN b.got \subseteq {ScanAt(k, b, x) : x \in ScanRows(b)}
  <2>1. \A y \in DOMAIN c.got : \E x \in ScanRows(c) : y = ScanAt(k, c, x)
    BY DEF ScanOK
  <2>2. \A y \in DOMAIN more : \E x \in ScanRows(c) : y = ScanAt(k, c, x)
    BY DEF Advances
  <2> QED BY <1>4, <1>5, <2>1, <2>2
<1>7. ASSUME NEW x \in ScanRows(b) \cap b.alone PROVE RowOK(k, b, M, F2, x)
  <2>1. RowOK(k, c, M, F, x) /\ x \in ScanRows(c)
    BY <1>2, <1>4, <1>7 DEF ScanOK
  <2>2. MayEndEarly(k, c, F) \/ MayEndEarly(k, c, F2) => MayEndEarly(k, b, F2)
    BY <1>2 DEF MayEndEarly
  <2>3. CASE ScanAt(k, c, x) \in DOMAIN b.got
    <3>1. b.got[ScanAt(k, c, x)] = M[x]
      BY <1>5, <2>1, <2>3 DEF RowOK, Advances
    <3> QED BY <1>4, <2>3, <3>1 DEF RowOK
  <2>4. CASE ScanAt(k, c, x) \notin DOMAIN b.got
    <3>1. Passed(b, x) => M[x] = None \/ MayEndEarly(k, b, F2)
      BY <1>5, <2>1, <2>2, <2>4 DEF RowOK, Advances
    <3> QED BY <1>4, <2>4, <3>1 DEF RowOK
  <2> QED BY <2>3, <2>4
<1>8. ScanOK(k, b, M, F2)
  BY <1>6, <1>7 DEF ScanOK, Advances
<1> QED BY <1>3, <1>8

\* The next row of a table: the first after the last one. Between them, and after the
\* last row, there is none with a value.
LEMMA NextRow ==
    ASSUME NEW k, NEW c, NEW M, ScanPlace(k, c), c.tables # <<>>, ~c.listed,
           NEW t, t = Head(c.tables), NEW ks,
           ks = {x \in Present(M, t) : IsPrefix(c.prefix, x) /\ (c.last = None \/ Less(c.last, x))}
    PROVE  /\ t \in Tables /\ t \in c.all
           /\ ks = {} => \A x \in ScanRows(c) : x[1] = t => M[x] = None \/ Passed(c, x)
           /\ ks # {} =>
                 /\ First(ks) \in Keys /\ IsPrefix(c.prefix, First(ks)) /\ M[<<t, First(ks)>>] # None
                 /\ \A x \in ScanRows(c) :
                       x[1] = t /\ ~Less(First(ks), x[2]) /\ x[2] # First(ks) =>
                          M[x] = None \/ Passed(c, x)
<1>1. t \in Tables /\ t \in c.all
  <2>1. t \in Range(c.tables)
    BY TailFacts DEF ScanPlace
  <2> QED BY <2>1 DEF ScanPlace
<1>2. \A x \in ScanRows(c) : x[1] = t /\ M[x] # None =>
         x[2] \in ks \/ (c.last # None /\ ~Less(c.last, x[2]))
  BY DEF ScanRows, Cells, Present
<1>3. \A x \in ScanRows(c) : x[1] = t /\ c.last # None /\ ~Less(c.last, x[2]) => Passed(c, x)
  BY DEF Passed
<1>4. ASSUME ks # {}
      PROVE  /\ First(ks) \in ks /\ \A j \in ks : First(ks) = j \/ Less(First(ks), j)
  <2>1. ks \in SUBSET Keys
    BY DEF Present
  <2>2. ks \subseteq Seq(Bytes) /\ IsFiniteSet(ks)
    BY <2>1, ByteAssumption, FS_Subset DEF Bytes
  <2> QED BY <1>4, <2>2, FirstFact
<1>5. ASSUME ks # {}
      PROVE  /\ First(ks) \in Keys /\ IsPrefix(c.prefix, First(ks)) /\ M[<<t, First(ks)>>] # None
             /\ \A x \in ScanRows(c) :
                   x[1] = t /\ ~Less(First(ks), x[2]) /\ x[2] # First(ks) =>
                      M[x] = None \/ Passed(c, x)
  BY <1>2, <1>3, <1>4, <1>5 DEF Present
<1> QED BY <1>1, <1>2, <1>3, <1>5

LEMMA ScanNextKeeps ==
    ASSUME IInv, Running, NEW th \in Threads, ScanNext(th)
    PROVE  IInv'
<1>0. call[th].op = "scan" /\ call[th].op # "batch" /\ call[th].tables # <<>>
  BY DEF ScanNext
<1>1. PICK c : c = call[th] /\ IsScan(c) /\ ScanOK(kind, c, mem, faults)
  BY <1>0, CallShape
<1>2. ASSUME NEW b, Continue(th, b, {}), UNCHANGED <<disk, mem, savepoints, dirty>>, Fault \/ NoFault,
             IsScan(b), ScanOK(kind, b, mem, faults')
      PROVE  IInv'
  <2>1. CallOK(kind, th, b, disk, mem, savepoints, faults')
    BY <1>2 DEF CallOK
  <2> QED BY <1>2, <2>1, QuietContinue
<1>14. IsScan(c)
  BY <1>1
<1>3. PICK t : t = Head(c.tables) /\ t = ScanTable(th)
  BY <1>1 DEF ScanTable
<1>4. /\ ScanPlace(kind, c) /\ c.tables \in Seq(Tables) /\ c.tables # <<>>
      /\ Tail(c.tables) \in Seq(Tables) /\ Range(c.tables) = {t} \cup Range(Tail(c.tables))
      /\ t \in Tables /\ t \in c.all
  BY <1>0, <1>1, <1>3, TailFacts DEF ScanOK, ScanPlace
<1>5. faults > 0 => faults' > 0
  BY DEF Running
<1>6. ASSUME NEW x \in ScanRows(c)
      PROVE  /\ x \in Cells /\ x = <<x[1], x[2]>> /\ x[2] \in Keys /\ x[2] \in Seq(Bytes)
             /\ IsPrefix(c.prefix, x[2])
             /\ kind # "s3" => ScanAt(kind, c, x) = x
  BY ByteAssumption DEF ScanRows, Cells, ScanAt, Bytes
<1>7. CASE \/ kind = "rocksdb" /\ RocksScan(th)
           \/ kind = "qpdf" /\ QPDFScan(th)
  <2>1. CASE Refuse(th)
    BY <2>1, RefuseKeeps
  <2>2. CASE Continue(th, ScanWhole(th), {}) /\ ((kind = "rocksdb" /\ RocksKeep) \/ SQLiteKeep) /\ NoFault
    <3> DEFINE ks == {k \in Present(mem, t) : IsPrefix(c.prefix, k)}
               more == [p \in {t} \X ks |-> mem[p]]
               b == Scanned(c, Tail(c.tables), c.last, c.listed, Merged(c.got, more))
    <3>1. UNCHANGED <<disk, mem, savepoints, dirty>>
      BY <2>2, KeepsAll DEF SQLiteKeep
    <3>2. ScanWhole(th) = b
      <4>1. ScanWhole(th) = [c EXCEPT !.tables = Tail(c.tables), !.got = Merged(c.got, more)]
        BY <1>1, <1>3 DEF ScanWhole
      <4> HIDE DEF more
      <4>2. PICK ts, got : ts = Tail(c.tables) /\ got = Merged(c.got, more)
        OBVIOUS
      <4>3. [c EXCEPT !.tables = ts, !.got = got] = Scanned(c, ts, c.last, c.listed, got)
        BY <1>14, TableScanned
      <4> QED BY <4>1, <4>2, <4>3
    <3> HIDE DEF more
    <3>3. /\ b.tables = Tail(c.tables) /\ b.all = c.all /\ b.prefix = c.prefix
          /\ b.last = c.last /\ b.listed = c.listed /\ b.got = Merged(c.got, more)
      BY DEF Scanned
    <3>10. b = Scanned(c, b.tables, b.last, b.listed, b.got) /\ b.got = Merged(c.got, more)
      BY <3>3
    <3> HIDE DEF b
    <3>4. ScanPlace(kind, b) /\ c.last = None
      BY <1>4, <1>7, <3>3 DEF ScanPlace
    <3>5. \A x \in ScanRows(c) : x \in DOMAIN more <=> x[1] = t /\ mem[x] # None
      <4> SUFFICES ASSUME NEW x \in ScanRows(c)
                   PROVE  x \in DOMAIN more <=> x[1] = t /\ mem[x] # None
        OBVIOUS
      <4>1. x \in {t} \X ks <=> x[1] = t /\ x[2] \in ks
        BY <1>6
      <4>2. x[1] = t => (x[2] \in ks <=> mem[x] # None)
        BY <1>6 DEF Present
      <4> QED BY <4>1, <4>2 DEF more
    <3>6. \A y \in DOMAIN more : y \in ScanRows(c) /\ more[y] = mem[y]
      BY <1>4 DEF ScanRows, Cells, Present, more
    <3>7. \A x \in ScanRows(c) : Passed(b, x) => Passed(c, x) \/ x[1] = t
      BY <1>4, <3>3, <3>4 DEF Passed
    <3>8. \A x \in ScanRows(c) : ScanAt(kind, c, x) = x
      BY <1>6, <1>7
    <3>9. Advances(kind, c, b, more, mem, faults')
      BY <3>4, <3>5, <3>6, <3>7, <3>8, <3>10 DEF Advances
    <3>11. IsScan(b) /\ ScanOK(kind, b, mem, faults')
      BY <1>1, <1>5, <3>9, ScanMoves
    <3> QED BY <1>2, <2>2, <3>1, <3>2, <3>11
  <2> QED BY <1>7, <2>1, <2>2 DEF RocksScan, QPDFScan, SQLiteKeep, NoFault
\* Row by row: the scan of SQLite and the pages of S3.
<1> DEFINE ks == {k \in Present(mem, t) : IsPrefix(c.prefix, k) /\ (c.last = None \/ Less(c.last, k))}
           end == Scanned(c, Tail(c.tables), None, c.listed, c.got)
<1>8. /\ end.tables = Tail(c.tables) /\ end.all = c.all /\ end.prefix = c.prefix
      /\ end.last = None /\ end.listed = c.listed
  BY DEF Scanned
<1>9. [c EXCEPT !.tables = Tail(@), !.last = None] = end
  BY <1>14, TableEnded
<1> HIDE DEF ks, end
<1>10. ~c.listed =>
         /\ ks = {} => \A x \in ScanRows(c) : x[1] = t => mem[x] = None \/ Passed(c, x)
         /\ ks # {} =>
               /\ First(ks) \in Keys /\ IsPrefix(c.prefix, First(ks)) /\ mem[<<t, First(ks)>>] # None
               /\ \A x \in ScanRows(c) :
                     x[1] = t /\ ~Less(First(ks), x[2]) /\ x[2] # First(ks) =>
                        mem[x] = None \/ Passed(c, x)
  BY <1>3, <1>4, NextRow DEF ks
<1>11. ASSUME ~c.listed, ks = {} \/ MayEndEarly(kind, c, faults')
       PROVE  IsScan(end) /\ ScanOK(kind, end, mem, faults')
  <2>1. ScanPlace(kind, end)
    BY <1>4, <1>8, <1>11 DEF ScanPlace
  <2>2. \A x \in ScanRows(c) : Passed(end, x) => Passed(c, x) \/ x[1] = t
    BY <1>4, <1>8 DEF Passed
  <2>3. DOMAIN <<>> = {}
    OBVIOUS
  <2>4. /\ end = Scanned(c, end.tables, end.last, end.listed, end.got)
        /\ end.got = c.got
    <3>1. end.got = c.got
      BY DEF end, Scanned
    <3> QED BY <1>8, <3>1 DEF end
  <2>5. Advances(kind, c, end, <<>>, mem, faults')
    BY <1>10, <1>11, <2>1, <2>2, <2>3, <2>4 DEF Advances
  <2> QED BY <1>1, <1>5, <2>5, ScanMoves
<1>12. CASE kind = "sqlite" /\ SQLiteScanStep(th)
  <2> DEFINE row == First(ks)
             more == Only(<<t, row>>, mem[<<t, row>>])
             next == Scanned(c, c.tables, row, c.listed, Merged(c.got, more))
  <2>1. ~c.listed
    BY <1>4, <1>12 DEF ScanPlace
  <2>2. ks = {k \in Present(mem, t) : InRange(c.prefix, k) /\ (c.last = None \/ Less(c.last, k))}
    <3>1. ASSUME NEW k \in Present(mem, t) PROVE InRange(c.prefix, k) <=> IsPrefix(c.prefix, k)
      <4>1. c.prefix \in Seq(Bytes) /\ k \in Seq(Bytes)
        BY <1>4, ByteAssumption DEF ScanPlace, Present, Bytes
      <4> QED BY <4>1, RangeIsPrefix
    <3> QED BY <3>1 DEF ks
  <2>3. [c EXCEPT !.last = row, !.got = Merged(c.got, more)] = next
    <3> HIDE DEF more, row
    <3>1. PICK got : got = Merged(c.got, more)
      OBVIOUS
    <3>2. [c EXCEPT !.last = row, !.got = got] = Scanned(c, c.tables, row, c.listed, got)
      BY <1>14, RowScanned
    <3> QED BY <3>1, <3>2
  <2>4. CASE Refuse(th)
    BY <2>4, RefuseKeeps
  <2>5. CASE SQLiteKeep /\ NoFault /\ Continue(th, IF ks = {} THEN end ELSE next, {})
    <3>1. CASE ks = {}
      BY <1>2, <1>11, <2>1, <2>5, <3>1 DEF SQLiteKeep
    <3>2. CASE ks # {}
      <4>1. /\ next.tables = c.tables /\ next.all = c.all /\ next.prefix = c.prefix
            /\ next.last = row /\ next.listed = c.listed
        BY DEF Scanned
      <4>2. row # None
        BY <1>10, <2>1, <3>2, ByteAssumption
      <4> HIDE DEF next
      <4>3. ScanPlace(kind, next)
        BY <1>4, <1>10, <1>12, <2>1, <3>2, <4>1 DEF ScanPlace
      <4>4. DOMAIN more = {<<t, row>>} /\ more[<<t, row>>] = mem[<<t, row>>]
        BY OnlyFacts
      <4>5. <<t, row>> \in ScanRows(c)
        BY <1>4, <1>10, <2>1, <3>2 DEF ScanRows, Cells
      <4>6. \A x \in ScanRows(c) :
               Passed(next, x) => Passed(c, x) \/ mem[x] = None \/ x = <<t, row>>
        <5> SUFFICES ASSUME NEW x \in ScanRows(c), Passed(next, x), ~Passed(c, x), mem[x] # None
                     PROVE  x = <<t, row>>
          OBVIOUS
        <5>1. x[1] = t /\ ~Less(row, x[2])
          BY <1>3, <2>1, <4>1, <4>2 DEF Passed
        <5>2. x[2] = row
          BY <1>10, <2>1, <3>2, <5>1
        <5> QED BY <1>6, <5>1, <5>2
      <4>7. \A x \in ScanRows(c) : ScanAt(kind, c, x) = x
        BY <1>6, <1>12
      <4> HIDE DEF more, row
      <4>8. IsScan(next) /\ ScanOK(kind, next, mem, faults')
        <5>1. next.got = Merged(c.got, more)
          BY DEF next, Scanned
        <5>2. next = Scanned(c, next.tables, next.last, next.listed, next.got)
          BY <4>1, <5>1 DEF next
        <5>3. Advances(kind, c, next, more, mem, faults')
          BY <4>3, <4>4, <4>5, <4>6, <4>7, <5>1, <5>2 DEF Advances
        <5> QED BY <1>1, <1>5, <5>3, ScanMoves
      <4> QED BY <1>2, <2>5, <3>2, <4>8 DEF SQLiteKeep
    <3> QED BY <3>1, <3>2
  <2>6. CASE Unbounded(c.prefix) /\ Fault /\ SQLiteKeep /\ Continue(th, end, {})
    <3>1. faults' > 0
      BY <2>6 DEF Fault, IInv, Shape
    <3>2. MayEndEarly(kind, c, faults')
      BY <1>12, <2>6, <3>1 DEF MayEndEarly
    <3> QED BY <1>2, <1>11, <2>1, <2>6, <3>2 DEF SQLiteKeep
  <2>7. \/ Refuse(th)
        \/ SQLiteKeep /\ NoFault /\ Continue(th, IF ks = {} THEN end ELSE next, {})
        \/ Unbounded(c.prefix) /\ Fault /\ SQLiteKeep /\ Continue(th, end, {})
    <3> HIDE DEF next
    <3> QED BY <1>1, <1>3, <1>9, <1>12, <2>2, <2>3 DEF SQLiteScanStep
  <2> QED BY <2>4, <2>5, <2>6, <2>7
<1>13. CASE kind = "s3" /\ (S3ScanList(th) \/ S3ScanGet(th))
  <2>1. UNCHANGED <<disk, mem, savepoints, dirty>> /\ mem = disk
    <3>1. S3Keep
      BY <1>13 DEF S3ScanList, S3ScanGet
    <3> QED BY <1>13, <3>1, KeepsAll, Direct
  <2>2. CASE Return(th, FALSE, {}, <<>>) /\ (Fault \/ NoFault)
    BY <1>0, <2>1, <2>2, QuietReturn
  <2>3. CASE S3ScanList(th)
    <3> DEFINE row == First(ks)
               next == Scanned(c, c.tables, row, TRUE, c.got)
    <3>1. ~c.listed
      BY <1>1, <2>3 DEF S3ScanList
    <3>2. [c EXCEPT !.last = row, !.listed = TRUE] = next
      <4> HIDE DEF row
      <4> QED BY <1>14, RowListed
    <3>3. CASE ks = {} /\ NoFault /\ Continue(th, end, {})
      BY <1>2, <1>11, <2>1, <3>1, <3>3
    <3>4. CASE ks # {} /\ NoFault /\ Continue(th, next, {})
      <4>1. /\ next.tables = c.tables /\ next.all = c.all /\ next.prefix = c.prefix
            /\ next.last = row /\ next.listed = TRUE
        BY DEF Scanned
      <4>2. row # None
        BY <1>10, <3>1, <3>4, ByteAssumption
      <4> HIDE DEF next
      <4>3. ScanPlace(kind, next)
        BY <1>4, <1>10, <1>13, <3>1, <3>4, <4>1, <4>2 DEF ScanPlace
      <4>4. \A x \in ScanRows(c) : Passed(next, x) => Passed(c, x) \/ mem[x] = None
        <5> SUFFICES ASSUME NEW x \in ScanRows(c), Passed(next, x), ~Passed(c, x)
                     PROVE  mem[x] = None
          OBVIOUS
        <5>1. x[1] = t /\ ~Less(row, x[2]) /\ x[2] # row
          BY <1>3, <3>1, <4>1, <4>2 DEF Passed
        <5> QED BY <1>10, <3>1, <3>4, <5>1
      <4>5. DOMAIN <<>> = {}
        OBVIOUS
      <4> HIDE DEF row
      <4>6. IsScan(next) /\ ScanOK(kind, next, mem, faults')
        <5>1. next.got = c.got
          BY DEF next, Scanned
        <5>2. next = Scanned(c, next.tables, next.last, next.listed, next.got)
          BY <4>1, <5>1 DEF next
        <5>3. Advances(kind, c, next, <<>>, mem, faults')
          BY <4>3, <4>4, <4>5, <5>1, <5>2 DEF Advances
        <5> QED BY <1>1, <1>5, <5>3, ScanMoves
      <4> QED BY <1>2, <2>1, <3>4, <4>6
    <3>5. \/ Return(th, FALSE, {}, <<>>) /\ (Fault \/ NoFault)
          \/ ks = {} /\ NoFault /\ Continue(th, end, {})
          \/ ks # {} /\ NoFault /\ Continue(th, next, {})
      <4>1. ks = {k \in Present(disk, t) :
                    IsPrefix(c.prefix, k) /\ (c.last = None \/ Less(c.last, k))}
        BY <2>1 DEF ks
      <4> HIDE DEF next
      <4> QED BY <1>1, <1>3, <1>9, <2>3, <3>2, <4>1 DEF S3ScanList
    <3> QED BY <2>2, <3>3, <3>4, <3>5
  <2>4. CASE S3ScanGet(th)
    <3> DEFINE cell == <<t, c.last>>
               key == <<t, ListedKey(c.prefix, c.last)>>
               more == Only(key, disk[cell])
               next == Scanned(c, c.tables, c.last, FALSE, Merged(c.got, more))
    <3>1. c.listed /\ c.last # None /\ c.last \in Keys /\ IsPrefix(c.prefix, c.last)
          /\ c.last \in Seq(Bytes) /\ c.prefix \in Seq(Bytes)
      BY <1>1, <1>4, <2>4, ByteAssumption DEF S3ScanGet, ScanPlace, Bytes
    <3>2. [c EXCEPT !.listed = FALSE, !.got = Merged(c.got, more)] = next
      <4> HIDE DEF more
      <4>1. PICK got : got = Merged(c.got, more)
        OBVIOUS
      <4>2. [c EXCEPT !.listed = FALSE, !.got = got] = Scanned(c, c.tables, c.last, FALSE, got)
        BY <1>14, RowRead
      <4> QED BY <4>1, <4>2
    <3>3. CASE NoFault /\ Continue(th, next, {})
      <4>1. /\ next.tables = c.tables /\ next.all = c.all /\ next.prefix = c.prefix
            /\ next.last = c.last /\ next.listed = FALSE
        BY DEF Scanned
      <4> HIDE DEF next
      <4>2. ScanPlace(kind, next)
        BY <1>4, <3>1, <4>1 DEF ScanPlace
      <4>3. DOMAIN more = {key} /\ more[key] = mem[cell]
        BY <2>1, OnlyFacts
      <4>4. cell \in ScanRows(c) /\ ScanAt(kind, c, cell) = key
        BY <1>4, <1>13, <3>1 DEF ScanRows, Cells, ScanAt
      <4>5. \A x \in ScanRows(c) : ScanAt(kind, c, x) = key => x = cell
        <5> SUFFICES ASSUME NEW x \in ScanRows(c), ScanAt(kind, c, x) = key PROVE x = cell
          OBVIOUS
        <5>1. x[1] = t /\ ListedKey(c.prefix, x[2]) = ListedKey(c.prefix, c.last)
          BY <1>13 DEF ScanAt
        <5>2. x[2] = c.last
          BY <1>6, <3>1, <5>1, ListedDiffer
        <5> QED BY <1>6, <5>1, <5>2
      <4>6. \A x \in ScanRows(c) : Passed(next, x) => Passed(c, x) \/ x = cell
        <5> SUFFICES ASSUME NEW x \in ScanRows(c), Passed(next, x), ~Passed(c, x) PROVE x = cell
          OBVIOUS
        <5>1. x[1] = t /\ x[2] = c.last
          BY <1>3, <4>1 DEF Passed
        <5> QED BY <1>6, <5>1
      <4> HIDE DEF more, key, cell
      <4>7. IsScan(next) /\ ScanOK(kind, next, mem, faults')
        <5>1. next.got = Merged(c.got, more)
          BY DEF next, Scanned
        <5>2. next = Scanned(c, next.tables, next.last, next.listed, next.got)
          BY <4>1, <5>1 DEF next
        <5>3. Advances(kind, c, next, more, mem, faults')
          BY <4>2, <4>3, <4>4, <4>5, <4>6, <5>1, <5>2 DEF Advances
        <5> QED BY <1>1, <1>5, <5>3, ScanMoves
      <4> QED BY <1>2, <2>1, <3>3, <4>7
    <3>4. \/ Return(th, FALSE, {}, <<>>) /\ (Fault \/ NoFault)
          \/ NoFault /\ Continue(th, next, {})
      <4> HIDE DEF next
      <4> QED BY <1>1, <1>3, <2>4, <3>2 DEF S3ScanGet
    <3> QED BY <2>2, <3>3, <3>4
  <2> QED BY <1>13, <2>3, <2>4
<1> QED BY <1>7, <1>12, <1>13 DEF ScanNext

LEMMA ScanReturnKeeps ==
    ASSUME IInv, Running, NEW th \in Threads, ScanReturn(th)
    PROVE  IInv'
<1>1. /\ call[th].op # "batch" /\ Return(th, TRUE, {}, <<>>) /\ NoFault
      /\ UNCHANGED <<disk, mem, savepoints, dirty>>
  BY DEF ScanReturn, NoFault
<1> QED BY <1>1, QuietReturn

\* The next chunk of a value goes on what was read of it.
MoreRead(c, g) ==
    c.cell \in c.alone /\ g # <<>> =>
        /\ disk[c.cell] # None /\ Len(g) <= Len(disk[c.cell])
        /\ g = SubSeq(disk[c.cell], 1, Len(g))

LEMMA ChunkRead ==
    ASSUME disk \in Contents, NEW c, IsGet(c), GetOK(c, disk), disk[c.cell] # None,
           Len(c.got) + 1 <= Len(disk[c.cell])
    PROVE  MoreRead(c, Append(c.got, disk[c.cell][Len(c.got) + 1]))
<1> SUFFICES ASSUME c.cell \in c.alone
             PROVE  LET g == Append(c.got, disk[c.cell][Len(c.got) + 1])
                    IN  Len(g) <= Len(disk[c.cell]) /\ g = SubSeq(disk[c.cell], 1, Len(g))
  BY DEF MoreRead
<1>1. PICK v : v = disk[c.cell] /\ v \in Values
  BY DEF Contents, Maybe, GetOK
<1>2. PICK S : v \in Seq(S)
  BY <1>1, BackendAssumption
<1>3. PICK n \in Nat : n = Len(c.got) /\ n + 1 <= Len(v) /\ c.got = SubSeq(v, 1, n)
  <2>1. CASE c.got = <<>>
    <3>1. Len(c.got) = 0 /\ SubSeq(v, 1, 0) = <<>>
      BY <1>2, <2>1
    <3> QED BY <1>1, <2>1, <3>1
  <2>2. CASE c.got # <<>>
    <3>1. Len(c.got) <= Len(v) /\ c.got = SubSeq(v, 1, Len(c.got))
      BY <1>1, <2>2 DEF GetOK
    <3>2. Len(c.got) \in Nat
      BY <1>2, <3>1, PrefixLength
    <3> QED BY <1>1, <3>1, <3>2
  <2> QED BY <2>1, <2>2
<1>4. Append(SubSeq(v, 1, n), v[n + 1]) = SubSeq(v, 1, n + 1)
  <2>1. /\ SubSeq(v, 1, n) \in Seq(S) /\ Len(SubSeq(v, 1, n)) = n
        /\ \A i \in 1..n : SubSeq(v, 1, n)[i] = v[i]
    BY <1>2, <1>3
  <2>2. /\ SubSeq(v, 1, n + 1) \in Seq(S) /\ Len(SubSeq(v, 1, n + 1)) = n + 1
        /\ \A i \in 1..(n + 1) : SubSeq(v, 1, n + 1)[i] = v[i]
    BY <1>2, <1>3
  <2>3. v[n + 1] \in S
    BY <1>2, <1>3
  <2> QED BY <2>1, <2>2, <2>3
<1>5. Len(SubSeq(v, 1, n + 1)) = n + 1
  BY <1>2, <1>3
<1> QED BY <1>1, <1>3, <1>4, <1>5

LEMMA GetChunkKeeps ==
    ASSUME IInv, Running, NEW th \in Threads, kind = "s3", call[th].op = "get", S3GetChunk(th)
    PROVE  IInv'
<1>1. UNCHANGED <<disk, mem, savepoints, dirty>>
  BY KeepsAll DEF S3GetChunk
<1>2. PICK c : c = call[th] /\ IsGet(c) /\ GetOK(c, disk)
  BY CallShape
<1>3. CASE \E g : Continue(th, [c EXCEPT !.got = g], {}) /\ NoFault /\ MoreRead(c, g)
  <2>1. PICK g : Continue(th, [c EXCEPT !.got = g], {}) /\ NoFault /\ MoreRead(c, g)
    BY <1>3
  <2> DEFINE b == [c EXCEPT !.got = g]
  <2>2. b = [op |-> "get", cell |-> c.cell, got |-> g, alone |-> c.alone]
    BY <1>2 DEF IsGet
  <2>3. b.op = "get" /\ b.cell = c.cell /\ b.got = g /\ b.alone = c.alone
    BY <2>2
  <2> HIDE DEF b
  <2>4. IsGet(b)
    BY <1>2, <2>2, <2>3 DEF IsGet
  <2>5. GetOK(b, disk)
    BY <1>2, <2>1, <2>3 DEF GetOK, MoreRead
  <2>6. CallOK(kind, th, b, disk, mem, savepoints, faults')
    BY <2>4, <2>5 DEF CallOK
  <2> QED BY <1>1, <2>1, <2>6, QuietContinue DEF b
<1>4. CASE Fault /\ Return(th, FALSE, {}, <<>>)
  BY <1>1, <1>4, QuietReturn
<1>5. CASE Becomes(th, Idle, {}) /\ NoFault /\ UNCHANGED must /\ reply'.op = "get"
  <2>1. Promise({}, <<>>)
    <3>1. must = [x \in Cells |-> must[x]]
      BY DEF IInv, Shape
    <3> QED BY <1>5, <3>1 DEF Promise
  <2>2. faults' \in 0..MaxFaults
    BY <1>5, Faults
  <2>3. NewState /\ Outside({}) /\ OthersSavepoints(th) /\ Settles(<<>>)
    BY <1>1, <2>2, Quiet
  <2>4. FailedBatch' /\ CallOK(kind, th, Idle, disk', mem', savepoints', faults')
    BY <1>5, NoBatchFailed DEF CallOK
  <2> QED BY <1>5, <2>1, <2>3, <2>4, ThreadKeeps
<1>6. \/ \E g : Continue(th, [c EXCEPT !.got = g], {}) /\ NoFault /\ MoreRead(c, g)
      \/ Fault /\ Return(th, FALSE, {}, <<>>)
      \/ Becomes(th, Idle, {}) /\ NoFault /\ UNCHANGED must /\ reply'.op = "get"
  <2> DEFINE v == disk[call[th].cell]
             at == Len(call[th].got) + 1
             got == [x \in call[th].alone |-> IF call[th].got = <<>> THEN None ELSE call[th].got]
             r == [op |-> "get", ok |-> TRUE, got |-> got]
  <2>1. \/ /\ v # None /\ at <= Len(v) /\ NoFault
           /\ Continue(th, [call[th] EXCEPT !.got = Append(@, v[at])], {})
        \/ Fault /\ Return(th, FALSE, {}, <<>>)
        \/ Becomes(th, Idle, {}) /\ NoFault /\ UNCHANGED must /\ reply' = r
    BY Zenon DEF S3GetChunk
  <2>2. r.op = "get"
    OBVIOUS
  <2> HIDE DEF r
  <2>3. ASSUME v # None, at <= Len(v) PROVE MoreRead(c, Append(c.got, v[at]))
    BY <1>2, <2>3, ChunkRead DEF IInv, Shape, Contents
  <2> HIDE DEF v, at
  <2>4. CASE /\ v # None /\ at <= Len(v) /\ NoFault
             /\ Continue(th, [call[th] EXCEPT !.got = Append(@, v[at])], {})
    BY <1>2, <2>3, <2>4
  <2> QED BY <2>1, <2>2, <2>4
<1> QED BY <1>3, <1>4, <1>5, <1>6

LEMMA UploadKeeps ==
    ASSUME IInv, Running, NEW th \in Threads, kind = "s3", call[th].op = "stream_put",
           S3UploadPart(th)
    PROVE  IInv'
<1>1. UNCHANGED <<disk, mem, savepoints, dirty>>
  BY KeepsAll DEF S3UploadPart
<1>2. PICK c : c = call[th] /\ IsUpload(c)
  BY CallShape
<1>3. CASE Fault /\ Return(th, FALSE, {}, <<>>)
  BY <1>1, <1>3, QuietReturn
<1>4. CASE /\ c.rest # <<>> /\ NoFault
           /\ Continue(th, [c EXCEPT !.parts = Append(c.parts, Head(c.rest)),
                                     !.rest = Tail(c.rest)], {})
  <2> DEFINE b == [c EXCEPT !.parts = Append(c.parts, Head(c.rest)), !.rest = Tail(c.rest)]
  <2>1. c.parts \in Seq(Chunks) /\ c.rest \in Seq(Chunks) /\ c.parts \o c.rest \in Values
    BY <1>2 DEF IsUpload
  <2>2. b = [op |-> "stream_put", cell |-> c.cell, rest |-> Tail(c.rest),
             parts |-> Append(c.parts, Head(c.rest)), alone |-> c.alone]
    <3>1. ASSUME NEW p, NEW r
          PROVE  [c EXCEPT !.parts = p, !.rest = r] =
                    [op |-> "stream_put", cell |-> c.cell, rest |-> r, parts |-> p, alone |-> c.alone]
      <4>1. PICK d : d = [c EXCEPT !.parts = p]
        OBVIOUS
      <4>2. d = [op |-> "stream_put", cell |-> c.cell, rest |-> c.rest, parts |-> p,
                 alone |-> c.alone]
        BY <1>2, <4>1 DEF IsUpload
      <4>3. [c EXCEPT !.parts = p, !.rest = r] = [[c EXCEPT !.parts = p] EXCEPT !.rest = r]
        OBVIOUS
      <4>4. [d EXCEPT !.rest = r] =
                [op |-> "stream_put", cell |-> c.cell, rest |-> r, parts |-> p, alone |-> c.alone]
        BY <4>2
      <4> QED BY <4>1, <4>3, <4>4
    <3> QED BY <3>1
  <2>3. /\ Append(c.parts, Head(c.rest)) \in Seq(Chunks) /\ Tail(c.rest) \in Seq(Chunks)
        /\ Append(c.parts, Head(c.rest)) \o Tail(c.rest) = c.parts \o c.rest
    BY <1>4, <2>1, ConcatAppend
  <2>4. IsUpload(b)
    BY <1>2, <2>1, <2>2, <2>3 DEF IsUpload
  <2>5. Continue(th, b, {})
    BY <1>4
  <2> HIDE DEF b
  <2> QED BY <1>1, <1>4, <2>4, <2>5, QuietContinue DEF CallOK
<1> QED BY <1>2, <1>3, <1>4 DEF S3UploadPart

LEMMA CompleteKeeps ==
    ASSUME IInv, Running, NEW th \in Threads, kind = "s3", call[th].op = "stream_put",
           S3Complete(th)
    PROVE  IInv'
<1>1. PICK c : c = call[th] /\ IsUpload(c)
  BY CallShape
<1>2. c.cell \in Cells /\ c.parts \in Maybe
  <2>1. c.rest = <<>> /\ c.parts \in Seq(Chunks) /\ c.parts \o c.rest \in Values
    BY <1>1 DEF S3Complete, IsUpload
  <2>2. c.parts \o <<>> = c.parts
    BY <2>1
  <2> QED BY <1>1, <2>1, <2>2 DEF IsUpload, Maybe
<1> DEFINE m == [disk EXCEPT ![c.cell] = c.parts]
<1>3. CASE S3Set(m) /\ NoFault /\ Return(th, TRUE, {c.cell}, Only(c.cell, c.parts))
  BY <1>2, <1>3, WriteReturns DEF S3Set
<1>4. CASE S3Set(m) /\ Fault /\ Return(th, FALSE, {c.cell}, <<>>)
  BY <1>2, <1>4, WriteReturns DEF S3Set
<1>5. CASE S3Keep /\ Fault /\ Return(th, FALSE, {c.cell}, <<>>)
  <2>1. UNCHANGED <<disk, mem, savepoints, dirty>> /\ faults' \in 0..MaxFaults
    BY <1>5, KeepsAll, Faults
  <2>2. NewState /\ Outside({}) /\ OthersSavepoints(th) /\ Settles(<<>>)
    BY <2>1, Quiet
  <2>3. Outside({c.cell})
    BY <2>2 DEF Outside
  <2> QED BY <1>5, <2>2, <2>3, ReturnKeeps
<1>6. CASE NoFault /\ S3Keep /\ Return(th, FALSE, {}, <<>>)
  BY <1>6, KeepsAll, QuietReturn
<1> QED BY <1>1, <1>3, <1>4, <1>5, <1>6 DEF S3Complete, S3Lost

LEMMA StreamPutKeeps ==
    ASSUME IInv, Running, NEW th \in Threads, NEW c \in Cells, NEW v \in Values,
           StreamPut(th, c, v)
    PROVE  IInv'
<1>1. CASE Put(th, c, v)
  BY <1>1, PutKeeps DEF Maybe
<1>2. CASE kind = "s3" /\ S3StreamPut(th, c, v)
  <2> DEFINE b == [op |-> "stream_put", cell |-> c, rest |-> v, parts |-> <<>>, alone |-> {c}]
  <2>1. UNCHANGED <<disk, mem, savepoints, dirty>>
    BY <1>2, KeepsAll DEF S3StreamPut
  <2>2. CASE Fault /\ Return(th, FALSE, {}, <<>>)
    <3>1. call[th].op # "batch"
      BY DEF StreamPut, IsIdle
    <3> QED BY <2>1, <2>2, <3>1, QuietReturn
  <2>3. CASE NoFault /\ Continue(th, b, {})
    <3>1. v \in Seq(Chunks) /\ <<>> \o v = v
      <4>1. v \in Seq(Range(v))
        BY BackendAssumption
      <4>2. Range(v) \subseteq Chunks
        BY DEF Chunks
      <4> QED BY <4>1, <4>2
    <3>2. IsUpload(b)
      BY <3>1 DEF IsUpload
    <3> HIDE DEF b
    <3> QED BY <1>2, <2>1, <2>3, <3>2, QuietContinue DEF CallOK
  <2> QED BY <1>2, <2>2, <2>3 DEF S3StreamPut
<1> QED BY <1>1, <1>2 DEF StreamPut

-----------------------------------------------------------------------------
(* Batches *)

\* The record of a batch with other tables done, table, ops to do and phase.
Moved(c, d, f, t, p) ==
    [op |-> "batch", ops |-> c.ops, cf |-> f, todo |-> t, phase |-> p, done |-> d,
     before |-> c.before, held |-> c.held, alone |-> c.alone]

LEMMA BatchUpdates ==
    ASSUME NEW c, IsBatch(c), NEW d, NEW f, NEW t
    PROVE  /\ [c EXCEPT !.phase = "ops"] = Moved(c, c.done, c.cf, c.todo, "ops")
           /\ [c EXCEPT !.phase = "rollback"] = Moved(c, c.done, c.cf, c.todo, "rollback")
           /\ [c EXCEPT !.phase = "cleanup"] = Moved(c, c.done, c.cf, c.todo, "cleanup")
           /\ [c EXCEPT !.todo = t] = Moved(c, c.done, c.cf, t, c.phase)
           /\ [c EXCEPT !.todo = t, !.phase = "ops"] = Moved(c, c.done, c.cf, t, "ops")
           /\ [c EXCEPT !.cf = f, !.todo = t, !.phase = "begin"] = Moved(c, c.done, f, t, "begin")
           /\ [c EXCEPT !.done = d, !.cf = None, !.todo = <<>>, !.phase = "next"]
                 = Moved(c, d, None, <<>>, "next")
<1>1. c = [op |-> "batch", ops |-> c.ops, cf |-> c.cf, todo |-> c.todo, phase |-> c.phase,
           done |-> c.done, before |-> c.before, held |-> c.held, alone |-> c.alone]
  BY DEF IsBatch
<1>2. /\ [c EXCEPT !.phase = "ops"] = Moved(c, c.done, c.cf, c.todo, "ops")
      /\ [c EXCEPT !.phase = "rollback"] = Moved(c, c.done, c.cf, c.todo, "rollback")
      /\ [c EXCEPT !.phase = "cleanup"] = Moved(c, c.done, c.cf, c.todo, "cleanup")
  BY <1>1 DEF Moved
<1>3. [c EXCEPT !.todo = t] = Moved(c, c.done, c.cf, t, c.phase)
  BY <1>1 DEF Moved
<1>5. [c EXCEPT !.cf = f] = Moved(c, c.done, f, c.todo, c.phase)
  BY <1>1 DEF Moved
<1>6. [c EXCEPT !.done = d] = Moved(c, d, c.cf, c.todo, c.phase)
  BY <1>1 DEF Moved
<1>7. [c EXCEPT !.todo = t, !.phase = "ops"] = Moved(c, c.done, c.cf, t, "ops")
  <2>1. PICK q : q = [c EXCEPT !.todo = t]
    OBVIOUS
  <2>2. [c EXCEPT !.todo = t, !.phase = "ops"] = [q EXCEPT !.phase = "ops"]
    BY <2>1
  <2>3. q = Moved(c, c.done, c.cf, t, c.phase)
    BY <1>3, <2>1
  <2> QED BY <2>2, <2>3 DEF Moved
<1>8. [c EXCEPT !.cf = f, !.todo = t, !.phase = "begin"] = Moved(c, c.done, f, t, "begin")
  <2>1. PICK q : q = [c EXCEPT !.cf = f]
    OBVIOUS
  <2>2. PICK r : r = [q EXCEPT !.todo = t]
    OBVIOUS
  <2>3. [c EXCEPT !.cf = f, !.todo = t, !.phase = "begin"] = [r EXCEPT !.phase = "begin"]
    BY <2>1, <2>2
  <2>4. q = Moved(c, c.done, f, c.todo, c.phase)
    BY <1>5, <2>1
  <2>5. r = Moved(c, c.done, f, t, c.phase)
    BY <2>2, <2>4 DEF Moved
  <2> QED BY <2>3, <2>5 DEF Moved
<1>9. [c EXCEPT !.done = d, !.cf = None, !.todo = <<>>, !.phase = "next"]
         = Moved(c, d, None, <<>>, "next")
  <2>1. PICK q : q = [c EXCEPT !.done = d]
    OBVIOUS
  <2>2. PICK r : r = [q EXCEPT !.cf = None]
    OBVIOUS
  <2>3. PICK s : s = [r EXCEPT !.todo = <<>>]
    OBVIOUS
  <2>4. [c EXCEPT !.done = d, !.cf = None, !.todo = <<>>, !.phase = "next"] = [s EXCEPT !.phase = "next"]
    BY <2>1, <2>2, <2>3
  <2>5. q = Moved(c, d, c.cf, c.todo, c.phase)
    BY <1>6, <2>1
  <2>6. r = Moved(c, d, None, c.todo, c.phase)
    BY <2>2, <2>5 DEF Moved
  <2>7. s = Moved(c, d, None, <<>>, c.phase)
    BY <2>3, <2>6 DEF Moved
  <2> QED BY <2>4, <2>7 DEF Moved
<1> QED BY <1>2, <1>3, <1>7, <1>8, <1>9

LEMMA MovedOK ==
    ASSUME NEW F, NEW k, NEW th, NEW c, IsBatch(c), NEW d, NEW f, NEW t \in Seq(Ops), NEW p,
           NEW D, NEW M, NEW S,
           \A i \in DOMAIN t : t[i].cf = f /\ t[i] \in Range(c.ops),
           p # "next" => f \notin d,
           p = "begin" => t = Group(c.ops, f),
           \A x \in c.alone :
              /\ x[1] \in d => Written(k, c, D, M, x)
              /\ x[1] \notin d => Untouched(k, c, D, M, x)
              /\ x[1] = f /\ p = "ops" => ApplyOps(M, t)[x] = Final(k, c.ops, x)
              /\ p = "cleanup" => M[x] = D[x],
           k = "sqlite" /\ p \in {"ops", "rollback", "cleanup"} /\ c.alone # {} =>
              /\ OnlySavepoint(th, S)
              /\ \A x \in c.alone : S[1].saw[x] = D[x] /\ (x[1] # f => M[x] = D[x]),
           k = "s3" /\ p = "ops" =>
              \A i, j \in DOMAIN t : i < j /\ t[i].kind = "del" => t[j].kind = "del"
    PROVE  CallOK(k, th, Moved(c, d, f, t, p), D, M, S, F)
<1>1. PICK b : b = Moved(c, d, f, t, p)
  OBVIOUS
<1>2. /\ b.op = "batch" /\ b.ops = c.ops /\ b.cf = f /\ b.todo = t /\ b.phase = p
      /\ b.done = d /\ b.before = c.before /\ b.held = c.held /\ b.alone = c.alone
  BY <1>1 DEF Moved
<1>3. b = [op |-> "batch", ops |-> b.ops, cf |-> b.cf, todo |-> b.todo, phase |-> b.phase,
           done |-> b.done, before |-> b.before, held |-> b.held, alone |-> b.alone]
  BY <1>1 DEF Moved
<1>4. IsBatch(b)
  <2>1. c.ops \in Seq(Ops) /\ c.alone \subseteq CellsOf(c.ops)
    BY DEF IsBatch
  <2> QED BY <1>2, <1>3, <2>1 DEF IsBatch
<1>5. ASSUME NEW x \in b.alone
      PROVE  /\ x[1] \in b.done => Written(k, b, D, M, x)
             /\ x[1] \notin b.done => Untouched(k, b, D, M, x)
             /\ x[1] = b.cf /\ b.phase = "ops" => Underway(k, b, M, x)
             /\ b.phase = "cleanup" => M[x] = D[x]
  <2>1. x[1] \in b.done => Written(k, b, D, M, x)
    BY <1>2 DEF Written
  <2>2. x[1] \notin b.done => Untouched(k, b, D, M, x)
    BY <1>2 DEF Untouched
  <2> QED BY <1>2, <2>1, <2>2 DEF Underway
<1>6. BatchOK(k, th, b, D, M, S)
  <2>1. k = "sqlite" /\ InSavepoint(b) =>
           /\ OnlySavepoint(th, S)
           /\ \A x \in b.alone : S[1].saw[x] = D[x] /\ (x[1] # b.cf => M[x] = D[x])
    BY <1>2 DEF InSavepoint
  <2>2. k = "s3" /\ b.phase = "ops" =>
           \A i, j \in DOMAIN b.todo : i < j /\ b.todo[i].kind = "del" => b.todo[j].kind = "del"
    BY <1>2
  <2> QED BY <1>5, <2>1, <2>2 DEF BatchOK
<1> QED BY <1>1, <1>4, <1>6 DEF CallOK

\* A cell of another table is not among those of a group.
LEMMA OffTable ==
    ASSUME NEW t, NEW f, \A i \in DOMAIN t : t[i].cf = f, NEW x, x[1] # f
    PROVE  On(t, x) = {} /\ x \notin CellsOf(t)
<1>1. On(t, x) = {}
  BY DEF On
<1> QED BY <1>1 DEF CellsOf

\* What holds of all ops that are left holds after the next one.
LEMMA TailInherits ==
    ASSUME NEW t \in Seq(Ops), t # <<>>, NEW f, NEW R,
           \A i \in DOMAIN t : t[i].cf = f /\ t[i] \in R
    PROVE  /\ Tail(t) \in Seq(Ops)
           /\ \A i \in DOMAIN Tail(t) : Tail(t)[i].cf = f /\ Tail(t)[i] \in R
<1>1. /\ Tail(t) \in Seq(Ops)
      /\ \A i \in DOMAIN Tail(t) : i + 1 \in DOMAIN t /\ Tail(t)[i] = t[i + 1]
  OBVIOUS
<1> QED BY <1>1

\* Running the whole group of a table.
LEMMA GroupRun ==
    ASSUME NEW c, IsBatch(c), c.phase = "begin", NEW m \in Contents, NEW x \in c.alone
    PROVE  /\ x \in Cells /\ On(c.ops, x) # {}
           /\ x[1] = c.cf => /\ On(c.todo, x) # {}
                             /\ ApplyOps(m, c.todo)[x] = Effect(c.ops[Max(On(c.ops, x))])
                             /\ (\E i \in On(c.ops, x) : c.ops[i].kind = "del")
                                   <=> \E i \in On(c.todo, x) : c.todo[i].kind = "del"
                             /\ c.todo[Max(On(c.todo, x))] = c.ops[Max(On(c.ops, x))]
           /\ x[1] # c.cf => ApplyOps(m, c.todo)[x] = m[x]
<1>1. /\ x \in Cells /\ On(c.ops, x) # {} /\ c.ops \in Seq(Ops) /\ c.todo \in Seq(Ops)
      /\ c.todo = Group(c.ops, c.cf)
  BY DEF IsBatch, CellsOf
<1>2. ASSUME x[1] = c.cf
      PROVE  /\ On(c.todo, x) # {}
             /\ c.todo[Max(On(c.todo, x))] = c.ops[Max(On(c.ops, x))]
             /\ (\E i \in On(c.ops, x) : c.ops[i].kind = "del")
                   <=> \E i \in On(c.todo, x) : c.todo[i].kind = "del"
  BY <1>1, <1>2, GroupFacts
<1>3. x[1] = c.cf => ApplyOps(m, c.todo)[x] = Effect(c.ops[Max(On(c.ops, x))])
  <2>1. x[1] = c.cf => x \in CellsOf(c.todo)
    BY <1>1, <1>2 DEF CellsOf
  <2>2. \A y \in CellsOf(c.todo) : ApplyOps(m, c.todo)[y] = Effect(c.todo[Max(On(c.todo, y))])
    BY <1>1, ApplyOpsType
  <2> QED BY <1>2, <2>1, <2>2
<1>4. ASSUME x[1] # c.cf PROVE ApplyOps(m, c.todo)[x] = m[x]
  <2>1. \A i \in DOMAIN c.todo : c.todo[i].cf = c.cf
    BY DEF IsBatch
  <2>2. x \notin CellsOf(c.todo)
    BY <1>4, <2>1, OffTable
  <2> QED BY <1>1, <2>2, ApplyOpsType
<1> QED BY <1>1, <1>2, <1>3, <1>4

\* The group of the current table has run.
LEMMA DoneKeeps ==
    ASSUME IInv, Running, NEW th \in Threads, call[th].op = "batch", NEW W, GroupDone(th, W),
           NewState, Outside(W), OthersSavepoints(th),
           \A x \in call[th].alone :
              IF x[1] \in call[th].done \cup {call[th].cf}
              THEN Written(kind, call[th], disk', mem', x)
              ELSE Untouched(kind, call[th], disk', mem', x)
    PROVE  IInv'
<1>1. PICK c : c = call[th] /\ IsBatch(c)
  BY CallShape
<1>2. PICK d : d = c.done \cup {c.cf}
  OBVIOUS
<1>3. Continue(th, Moved(c, d, None, <<>>, "next"), W)
  <2>1. [c EXCEPT !.done = d, !.cf = None, !.todo = <<>>, !.phase = "next"]
           = Moved(c, d, None, <<>>, "next")
    BY <1>1, BatchUpdates
  <2>2. PICK b : b = [c EXCEPT !.done = d, !.cf = None, !.todo = <<>>, !.phase = "next"]
    OBVIOUS
  <2>3. Continue(th, b, W)
    BY <1>1, <1>2, <2>2 DEF GroupDone
  <2> QED BY <2>1, <2>2, <2>3
<1>4. CallOK(kind, th, Moved(c, d, None, <<>>, "next"), disk', mem', savepoints', faults')
  <2>1. <<>> \in Seq(Ops) /\ DOMAIN <<>> = {}
    OBVIOUS
  <2>2. \A x \in c.alone : /\ x[1] \in d => Written(kind, c, disk', mem', x)
                           /\ x[1] \notin d => Untouched(kind, c, disk', mem', x)
    BY <1>1, <1>2
  <2> QED BY <1>1, <2>1, <2>2, MovedOK
<1> QED BY <1>3, <1>4, ContinueKeeps

LEMMA BatchNextKeeps ==
    ASSUME IInv, Running, NEW th \in Threads, BatchNext(th)
    PROVE  IInv'
<1>1. PICK c : c = call[th] /\ IsBatch(c) /\ BatchOK(kind, th, c, disk, mem, savepoints)
  BY CallShape DEF BatchNext
<1> DEFINE left == {c.ops[i].cf : i \in DOMAIN c.ops} \ c.done
<1>2. /\ call[th].op = "batch" /\ c.phase = "next"
      /\ UNCHANGED <<disk, mem, savepoints, dirty>> /\ NoFault
  BY <1>1 DEF BatchNext, NoFault
<1>3. \/ \E cf \in left : GroupFailed(th, {})
      \/ \E cf \in left : Continue(th, [c EXCEPT !.cf = cf, !.todo = Group(c.ops, cf),
                                                 !.phase = "begin"], {})
      \/ left = {} /\ Return(th, TRUE, {}, [x \in c.alone |-> Outcome(c.ops)[x]])
  BY <1>1 DEF BatchNext
<1>4. CASE GroupFailed(th, {})
  BY <1>2, <1>4, QuietFailure
<1>5. ASSUME NEW cf \in left, Continue(th, [c EXCEPT !.cf = cf, !.todo = Group(c.ops, cf),
                                                     !.phase = "begin"], {})
      PROVE  IInv'
  <2>1. PICK t : t = Group(c.ops, cf)
    OBVIOUS
  <2>2. /\ t \in Seq(Ops) /\ \A i \in DOMAIN t : t[i].cf = cf /\ t[i] \in Range(c.ops)
    BY <1>1, <2>1, GroupFacts DEF IsBatch
  <2>3. \A x \in c.alone : /\ x[1] \in c.done => Written(kind, c, disk, mem, x)
                           /\ x[1] \notin c.done => Untouched(kind, c, disk, mem, x)
    BY <1>1 DEF BatchOK
  <2>4. cf \notin c.done
    OBVIOUS
  <2>5. CallOK(kind, th, Moved(c, c.done, cf, t, "begin"), disk, mem, savepoints, faults')
    <3> HIDE DEF left
    <3> QED BY <1>1, <2>1, <2>2, <2>3, <2>4, MovedOK
  <2>6. PICK b : b = [c EXCEPT !.cf = cf, !.todo = t, !.phase = "begin"]
    OBVIOUS
  <2>7. b = Moved(c, c.done, cf, t, "begin")
    BY <1>1, <2>6, BatchUpdates
  <2>8. Continue(th, b, {})
    BY <1>5, <2>1, <2>6
  <2> QED BY <1>2, <2>5, <2>7, <2>8, QuietContinue
<1>6. CASE left = {} /\ Return(th, TRUE, {}, [x \in c.alone |-> Outcome(c.ops)[x]])
  <2>1. PICK settled : settled = [x \in c.alone |-> Outcome(c.ops)[x]]
    OBVIOUS
  <2>2. Return(th, TRUE, {}, settled)
    BY <1>6, <2>1
  <2>3. ASSUME NEW x \in c.alone
        PROVE  settled[x] \in Maybe /\ disk'[x] = settled[x] /\ mem'[x] = settled[x]
    <3>1. x \in CellsOf(c.ops) /\ On(c.ops, x) # {} /\ x \in Cells
      BY <1>1 DEF IsBatch, CellsOf
    <3>2. PICK i \in DOMAIN c.ops : <<c.ops[i].cf, c.ops[i].key>> = x
      BY <3>1 DEF On
    <3>3. x[1] = c.ops[i].cf
      BY <3>2
    <3>4. x[1] \in c.done
      BY <1>6, <3>3
    <3>5. disk[x] = Final(kind, c.ops, x) /\ mem[x] = Final(kind, c.ops, x)
      BY <1>1, <3>4 DEF BatchOK, Written
    <3>6. settled[x] = Final(kind, c.ops, x)
      BY <2>1, <3>1 DEF Outcome, Final
    <3>7. disk[x] \in Maybe
      BY <3>1 DEF IInv, Shape, Contents
    <3> QED BY <1>2, <3>5, <3>6, <3>7
  <2>4. DOMAIN settled = c.alone
    BY <2>1
  <2>5. Settles(settled)
    BY <2>3, <2>4 DEF Settles
  <2>6. faults' \in 0..MaxFaults
    BY <1>2, Faults
  <2>7. NewState /\ Outside({}) /\ OthersSavepoints(th)
    BY <1>2, <2>6, Quiet
  <2> QED BY <2>2, <2>5, <2>7, ReturnKeeps
<1> QED BY <1>3, <1>4, <1>5, <1>6

LEMMA RocksBatchKeeps ==
    ASSUME IInv, Running, NEW th \in Threads, call[th].op = "batch", call[th].phase = "begin",
           kind = "rocksdb", RocksBatch(th)
    PROVE  IInv'
<1>1. PICK c : c = call[th] /\ IsBatch(c) /\ BatchOK(kind, th, c, disk, mem, savepoints)
  BY CallShape
<1>2. CASE (Fault \/ NoFault) /\ RocksKeep /\ GroupFailed(th, {})
  BY <1>2, KeepsAll, QuietFailure
<1>3. CASE RocksSet(ApplyOps(disk, c.todo)) /\ NoFault /\ GroupDone(th, CellsOf(c.todo))
  <2>1. disk \in Contents /\ c.todo \in Seq(Ops) /\ mem = disk
    BY <1>1, Direct DEF IInv, Shape, IsBatch
  <2>2. PICK m : m = ApplyOps(disk, c.todo)
    OBVIOUS
  <2>3. m \in Contents /\ \A x \in Cells : x \notin CellsOf(c.todo) => m[x] = disk[x]
    BY <2>1, <2>2, ApplyOpsType
  <2>4. disk' = m /\ mem' = m /\ UNCHANGED <<savepoints, dirty>> /\ faults' \in 0..MaxFaults
    BY <1>3, <2>2, Faults DEF RocksSet
  <2>5. NewState /\ Outside(CellsOf(c.todo)) /\ OthersSavepoints(th)
    BY <2>3, <2>4, SetState
  <2>6. ASSUME NEW x \in c.alone
        PROVE  IF x[1] \in c.done \cup {c.cf} THEN Written(kind, c, disk', mem', x)
               ELSE Untouched(kind, c, disk', mem', x)
    <3>1. /\ x[1] = c.cf => m[x] = Effect(c.ops[Max(On(c.ops, x))])
          /\ x[1] # c.cf => m[x] = disk[x]
      BY <1>1, <2>1, <2>2, GroupRun
    <3>2. CASE x[1] = c.cf
      <4>1. disk'[x] = Final(kind, c.ops, x) /\ mem'[x] = Final(kind, c.ops, x)
        BY <2>4, <3>1, <3>2 DEF Final
      <4> QED BY <3>2, <4>1 DEF Written
    <3>3. CASE x[1] # c.cf
      BY <1>1, <2>1, <2>4, <3>1, <3>3 DEF BatchOK, Written, Untouched
    <3> QED BY <3>2, <3>3
  <2> QED BY <1>1, <1>3, <2>5, <2>6, DoneKeeps
<1> QED BY <1>1, <1>2, <1>3 DEF RocksBatch

LEMMA QPDFBatchKeeps ==
    ASSUME IInv, Running, NEW th \in Threads, call[th].op = "batch", call[th].phase = "begin",
           kind = "qpdf", QPDFBatch(th)
    PROVE  IInv'
<1>1. PICK c : c = call[th] /\ IsBatch(c) /\ BatchOK(kind, th, c, disk, mem, savepoints)
  BY CallShape
<1> DEFINE ops == call[th].todo
           ills == {i \in DOMAIN ops : IllFormed(ops[i])}
           stop == IF ills = {} THEN Len(ops) + 1
                   ELSE CHOOSE i \in ills : \A j \in ills : i <= j
           run == SubSeq(ops, 1, stop - 1)
           after == ApplyOps(mem, run)
           touches == \/ dirty
                      \/ \E i \in DOMAIN run : run[i].kind = "put"
                      \/ after # mem
<1>2. PICK made \in MakesDict(call[th].cf) :
          \/ /\ ills # {}
             /\ mem' = after /\ dirty' = (touches \/ made)
             /\ UNCHANGED <<disk, savepoints>> /\ NoFault
             /\ GroupFailed(th, CellsOf(run))
          \/ /\ ills = {}
             /\ QPDFFlush(after, touches \/ made, TRUE)
             /\ GroupDone(th, CellsOf(run) \cup Stored)
          \/ /\ ills = {}
             /\ QPDFFlush(after, touches \/ made, FALSE)
             /\ GroupFailed(th, CellsOf(run))
  BY Zenon DEF QPDFBatch
<1>3. ops \in Seq(Ops) /\ ops = c.todo
  BY <1>1 DEF IsBatch
<1>4. touches \in BOOLEAN /\ made \in BOOLEAN /\ (~touches => ~dirty /\ after = mem)
  BY DEF MakesDict, IInv, Shape
<1> HIDE DEF ops, ills, stop, run, after, touches
<1>6. run \in Seq(Ops) /\ (ills = {} => run = ops)
  <2>1. Len(ops) \in Nat /\ ills \subseteq 1..Len(ops) /\ ills \subseteq Nat
    BY <1>3 DEF ills
  <2>2. CASE ills = {}
    <3>1. stop - 1 = Len(ops)
      BY <2>1, <2>2 DEF stop
    <3> QED BY <1>3, <2>1, <3>1 DEF run
  <2>3. CASE ills # {}
    <3>1. \E i \in ills : \A j \in ills : i <= j
      BY <2>1, <2>3, LeastFact
    <3>2. stop \in ills
      BY <2>3, <3>1 DEF stop
    <3>3. stop - 1 \in 0..Len(ops)
      BY <2>1, <3>2
    <3> QED BY <1>3, <2>3, <3>3, PrefixFacts DEF run
  <2> QED BY <2>2, <2>3
<1>8. mem \in Contents /\ disk \in Contents /\ savepoints = <<>> /\ (~dirty => mem = disk)
  BY DEF IInv, Shape, Modes
<1>9. after \in Contents /\ \A x \in Cells : x \notin CellsOf(run) => after[x] = mem[x]
  BY <1>6, <1>8, ApplyOpsType DEF after
<1>12. ~(touches \/ made) => after = disk /\ after = mem
  BY <1>4, <1>8
<1>13. CASE /\ mem' = after /\ dirty' = (touches \/ made)
            /\ UNCHANGED <<disk, savepoints>> /\ NoFault
            /\ GroupFailed(th, CellsOf(run))
  <2>1. faults' \in 0..MaxFaults
    BY <1>13, Faults
  <2>2. NewState
    BY <1>4, <1>8, <1>9, <1>12, <1>13, <2>1 DEF NewState, IInv, Shape
  <2>3. Outside(CellsOf(run)) /\ OthersSavepoints(th)
    BY <1>9, <1>13 DEF Outside, OthersSavepoints
  <2>4. \A x \in call[th].alone : disk'[x] = disk[x]
    BY <1>13
  <2> QED BY <1>13, <2>2, <2>3, <2>4, FailedKeeps
<1>14. CASE QPDFFlush(after, touches \/ made, FALSE) /\ GroupFailed(th, CellsOf(run))
  <2>1. disk' = disk
    BY <1>14 DEF QPDFFlush
  <2>2. Stored \subseteq CellsOf(run)
    BY <2>1 DEF Stored
  <2>3. NewState /\ Outside(CellsOf(run)) /\ OthersSavepoints(th)
    BY <1>4, <1>9, <1>12, <1>14, <2>2, FlushState
  <2>4. \A x \in call[th].alone : disk'[x] = disk[x]
    BY <2>1
  <2> QED BY <1>14, <2>3, <2>4, FailedKeeps
<1>15. CASE /\ ills = {} /\ QPDFFlush(after, touches \/ made, TRUE)
            /\ GroupDone(th, CellsOf(run) \cup Stored)
  <2>1. PICK W : W = CellsOf(run) \cup Stored
    OBVIOUS
  <2>2. Stored \subseteq W /\ \A x \in Cells : x \notin W => after[x] = mem[x]
    BY <1>9, <2>1
  <2>3. NewState /\ Outside(W) /\ OthersSavepoints(th) /\ mem' = after /\ disk' = after
    BY <1>4, <1>9, <1>12, <1>15, <2>2, FlushState
  <2>4. ASSUME NEW x \in c.alone
        PROVE  IF x[1] \in c.done \cup {c.cf} THEN Written(kind, c, disk', mem', x)
               ELSE Untouched(kind, c, disk', mem', x)
    <3>1. /\ x[1] = c.cf => after[x] = Effect(c.ops[Max(On(c.ops, x))])
          /\ x[1] # c.cf => after[x] = mem[x]
      BY <1>1, <1>3, <1>6, <1>8, <1>15, GroupRun DEF after
    <3>2. CASE x[1] = c.cf
      <4>1. disk'[x] = Final(kind, c.ops, x) /\ mem'[x] = Final(kind, c.ops, x)
        BY <2>3, <3>1, <3>2 DEF Final
      <4> QED BY <3>2, <4>1 DEF Written
    <3>3. CASE x[1] # c.cf
      BY <1>1, <2>3, <3>1, <3>3 DEF BatchOK, Written, Untouched
    <3> QED BY <3>2, <3>3
  <2> QED BY <1>1, <1>15, <2>1, <2>3, <2>4, DoneKeeps
<1> QED BY <1>2, <1>13, <1>14, <1>15

\* The youngest savepoint of a thread that has one.
LEMMA OwnFacts ==
    ASSUME IInv, NEW th \in Threads, SavepointAt(th) # {}
    PROVE  /\ Own(th) \in 1..Len(savepoints) /\ Len(savepoints) \in Nat
           /\ OnlySavepoint(th, savepoints) => Own(th) = 1
           /\ \A u \in Threads \ {th} : ~OnlySavepoint(u, savepoints)
<1>1. savepoints \in Seq([id : Threads, saw : Contents])
  BY DEF IInv, Shape
<1>2. Len(savepoints) \in Nat /\ DOMAIN savepoints = 1..Len(savepoints)
  BY <1>1
<1>3. SavepointAt(th) \subseteq 1..Len(savepoints) /\ SavepointAt(th) \subseteq Int
  BY <1>2 DEF SavepointAt
<1>4. \E i \in SavepointAt(th) : \A j \in SavepointAt(th) : j <= i
  BY <1>2, <1>3, MaxFact
<1>5. Own(th) \in SavepointAt(th)
  BY <1>4 DEF Own
<1>6. ASSUME Len(savepoints) = 1 PROVE Own(th) = 1
  BY <1>3, <1>5, <1>6
<1>7. savepoints[Own(th)].id = th
  BY <1>5 DEF SavepointAt
<1> QED BY <1>2, <1>3, <1>5, <1>6, <1>7 DEF OnlySavepoint

\* A batch that is alone with some cell has the only savepoint.
LEMMA HasSavepoint ==
    ASSUME IInv, NEW th \in Threads, NEW c, BatchOK(kind, th, c, disk, mem, savepoints),
           kind = "sqlite", c.phase \in {"ops", "rollback", "cleanup"}, c.alone # {}
    PROVE  /\ OnlySavepoint(th, savepoints) /\ savepoints # <<>>
           /\ SavepointAt(th) # {} /\ Own(th) = 1
           /\ \A x \in c.alone : savepoints[1].saw[x] = disk[x] /\ (x[1] # c.cf => mem[x] = disk[x])
<1>1. /\ OnlySavepoint(th, savepoints)
      /\ \A x \in c.alone : savepoints[1].saw[x] = disk[x] /\ (x[1] # c.cf => mem[x] = disk[x])
  BY DEF BatchOK, InSavepoint
<1>2. savepoints \in Seq([id : Threads, saw : Contents])
  BY DEF IInv, Shape
<1>3. 1 \in SavepointAt(th) /\ savepoints # <<>>
  BY <1>1, <1>2 DEF OnlySavepoint, SavepointAt
<1>4. Own(th) = 1
  BY <1>1, <1>3, OwnFacts
<1> QED BY <1>1, <1>3, <1>4

LEMMA ReleaseState ==
    ASSUME IInv, NEW th \in Threads, kind = "sqlite", SavepointAt(th) # {},
           ReleaseSavepoint(th), faults' \in 0..MaxFaults
    PROVE  NewState /\ Outside(Stored) /\ OthersSavepoints(th)
<1>1. Own(th) \in 1..Len(savepoints) /\ \A u \in Threads \ {th} : ~OnlySavepoint(u, savepoints)
  BY OwnFacts
<1>2. PICK k \in 1..Len(savepoints) : k = Own(th)
  BY <1>1
<1>3. savepoints \in Seq([id : Threads, saw : Contents]) /\ Len(savepoints) \in Nat
  BY DEF IInv, Shape
<1>4. savepoints' = SubSeq(savepoints, 1, k - 1) /\ disk' = (IF k = 1 THEN mem ELSE disk)
  BY <1>2 DEF ReleaseSavepoint
<1>5. savepoints' \in Seq([id : Threads, saw : Contents])
  <2>1. k - 1 \in 0..Len(savepoints)
    BY <1>3
  <2> QED BY <1>3, <1>4, <2>1, PrefixFacts
<1>6. savepoints' = <<>> => k = 1
  <2>1. Len(savepoints') = k - 1
    BY <1>3, <1>4
  <2> QED BY <2>1
<1>7. mem' = mem /\ dirty' = dirty
  BY DEF ReleaseSavepoint
<1>8. NewState
  BY <1>4, <1>5, <1>6, <1>7 DEF NewState, IInv, Shape, Modes
<1>9. Outside(Stored)
  BY <1>7 DEF Outside, Stored
<1> QED BY <1>1, <1>8, <1>9 DEF OthersSavepoints

LEMMA SQLiteReleaseKeeps ==
    ASSUME IInv, Running, NEW th \in Threads, call[th].op = "batch", kind = "sqlite",
           call[th].phase = "ops", call[th].todo = <<>>, SQLiteRelease(th)
    PROVE  IInv'
<1>1. PICK c : c = call[th] /\ IsBatch(c) /\ BatchOK(kind, th, c, disk, mem, savepoints)
  BY CallShape
<1>2. CASE SQLiteKeep /\ (Fault \/ NoFault) /\ GroupFailed(th, {})
  BY <1>2, QuietFailure DEF SQLiteKeep
<1>3. CASE SavepointAt(th) # {} /\ ReleaseSavepoint(th) /\ NoFault /\ GroupDone(th, Stored)
  <2>1. faults' \in 0..MaxFaults
    BY <1>3, Faults
  <2>2. NewState /\ Outside(Stored) /\ OthersSavepoints(th)
    BY <1>3, <2>1, ReleaseState
  <2>3. ASSUME NEW x \in c.alone
        PROVE  IF x[1] \in c.done \cup {c.cf} THEN Written(kind, c, disk', mem', x)
               ELSE Untouched(kind, c, disk', mem', x)
    <3>1. Own(th) = 1 /\ (x[1] # c.cf => mem[x] = disk[x])
      BY <1>1, HasSavepoint
    <3>2. disk' = mem /\ mem' = mem
      BY <1>3, <3>1 DEF ReleaseSavepoint
    <3>3. CASE x[1] = c.cf
      <4>1. ApplyOps(mem, c.todo)[x] = Final(kind, c.ops, x)
        BY <1>1, <3>3 DEF BatchOK, Underway
      <4>2. x \in Cells /\ On(c.todo, x) = {}
        BY <1>1 DEF IsBatch, CellsOf, On
      <4>3. ApplyOps(mem, c.todo)[x] = mem[x]
        BY <4>2 DEF ApplyOps
      <4> QED BY <3>2, <3>3, <4>1, <4>3 DEF Written
    <3>4. CASE x[1] # c.cf
      BY <1>1, <3>1, <3>2, <3>4 DEF BatchOK, Written, Untouched
    <3> QED BY <3>3, <3>4
  <2> QED BY <1>1, <1>3, <2>2, <2>3, DoneKeeps
<1> QED BY <1>2, <1>3 DEF SQLiteRelease

LEMMA SQLiteCleanupKeeps ==
    ASSUME IInv, Running, NEW th \in Threads, call[th].op = "batch", kind = "sqlite",
           call[th].phase = "cleanup", SQLiteCleanup(th)
    PROVE  IInv'
<1>1. PICK c : c = call[th] /\ IsBatch(c) /\ BatchOK(kind, th, c, disk, mem, savepoints)
  BY CallShape
<1>2. CASE SQLiteKeep /\ (Fault \/ NoFault) /\ GroupFailed(th, Stored)
  <2>1. UNCHANGED <<disk, mem, savepoints, dirty>>
    BY <1>2 DEF SQLiteKeep
  <2>2. Stored = {}
    BY <2>1 DEF Stored
  <2> QED BY <1>2, <2>1, <2>2, QuietFailure
<1>3. CASE SavepointAt(th) # {} /\ ReleaseSavepoint(th) /\ NoFault /\ GroupFailed(th, Stored)
  <2>1. faults' \in 0..MaxFaults
    BY <1>3, Faults
  <2>2. NewState /\ Outside(Stored) /\ OthersSavepoints(th)
    BY <1>3, <2>1, ReleaseState
  <2>3. ASSUME NEW x \in call[th].alone PROVE disk'[x] = disk[x]
    <3>1. Own(th) = 1
      BY <1>1, HasSavepoint
    <3>2. disk' = mem
      BY <1>3, <3>1 DEF ReleaseSavepoint
    <3>3. mem[x] = disk[x]
      BY <1>1 DEF BatchOK
    <3> QED BY <3>2, <3>3
  <2> QED BY <1>3, <2>2, <2>3, FailedKeeps
<1> QED BY <1>2, <1>3 DEF SQLiteCleanup

LEMMA SQLiteRollbackKeeps ==
    ASSUME IInv, Running, NEW th \in Threads, call[th].op = "batch", kind = "sqlite",
           call[th].phase = "rollback", SQLiteRollback(th)
    PROVE  IInv'
<1>1. PICK c : c = call[th] /\ IsBatch(c) /\ BatchOK(kind, th, c, disk, mem, savepoints)
  BY CallShape
<1>2. PICK b : b = [c EXCEPT !.phase = "cleanup"]
  OBVIOUS
<1>3. b = Moved(c, c.done, c.cf, c.todo, "cleanup")
  BY <1>1, <1>2, BatchUpdates
<1>4. Continue(th, b, Changed) /\ NoFault
  BY <1>1, <1>2 DEF SQLiteRollback
<1>5. faults' \in 0..MaxFaults
  BY <1>4, Faults
<1>6. savepoints \in Seq([id : Threads, saw : Contents]) /\ Len(savepoints) \in Nat
  BY DEF IInv, Shape
<1>7. NewState /\ OthersSavepoints(th) /\ disk' = disk
  <2>1. CASE SavepointAt(th) = {}
    <3>1. UNCHANGED <<disk, mem, savepoints, dirty>>
      BY <2>1 DEF SQLiteRollback, SQLiteKeep
    <3> QED BY <1>5, <3>1, Quiet
  <2>2. CASE SavepointAt(th) # {}
    <3>1. PICK k \in 1..Len(savepoints) : k = Own(th)
      BY <2>2, OwnFacts
    <3>2. /\ mem' = savepoints[k].saw /\ savepoints' = SubSeq(savepoints, 1, k)
          /\ disk' = disk /\ dirty' = dirty
      BY <2>2, <3>1 DEF SQLiteRollback, RollbackToSavepoint
    <3>3. k \in 0..Len(savepoints) /\ k >= 1
      BY <1>6
    <3>4. savepoints' \in Seq([id : Threads, saw : Contents]) /\ Len(savepoints') = k
      BY <1>6, <3>2, <3>3, PrefixFacts
    <3>5. savepoints[k] \in [id : Threads, saw : Contents]
      <4>1. \A S : \A s \in Seq(S) : \A i \in 1..Len(s) : s[i] \in S
        OBVIOUS
      <4> QED BY <1>6, <4>1
    <3>6. mem' \in Contents
      BY <3>2, <3>5
    <3>7. savepoints' # <<>>
      BY <3>3, <3>4
    <3>8. NewState
      BY <1>5, <3>2, <3>4, <3>6, <3>7 DEF NewState, IInv, Shape, Modes
    <3>9. OthersSavepoints(th)
      BY <2>2, OwnFacts DEF OthersSavepoints
    <3> QED BY <3>2, <3>8, <3>9
  <2> QED BY <2>1, <2>2
<1>8. Outside(Changed)
  BY <1>7 DEF Outside, Changed
<1>9. ASSUME NEW x \in c.alone
      PROVE  /\ mem'[x] = disk[x] /\ savepoints'[1] = savepoints[1] /\ Len(savepoints') = 1
             /\ OnlySavepoint(th, savepoints) /\ savepoints[1].saw[x] = disk[x]
  <2>1. /\ OnlySavepoint(th, savepoints) /\ SavepointAt(th) # {} /\ Own(th) = 1
        /\ savepoints[1].saw[x] = disk[x]
    BY <1>1, HasSavepoint
  <2>2. mem' = savepoints[1].saw /\ savepoints' = SubSeq(savepoints, 1, 1)
    BY <2>1 DEF SQLiteRollback, RollbackToSavepoint
  <2>3. 1 \in 0..Len(savepoints) /\ 1 \in 1..1
    BY <2>1 DEF OnlySavepoint
  <2>4. Len(savepoints') = 1 /\ savepoints'[1] = savepoints[1]
    BY <1>6, <2>2, <2>3, PrefixFacts
  <2> QED BY <2>1, <2>2, <2>4
<1>10. CallOK(kind, th, Moved(c, c.done, c.cf, c.todo, "cleanup"), disk', mem', savepoints', faults')
  <2>1. /\ c.todo \in Seq(Ops) /\ \A i \in DOMAIN c.todo : c.todo[i].cf = c.cf /\ c.todo[i] \in Range(c.ops)
        /\ c.cf \notin c.done
    BY <1>1 DEF IsBatch
  <2>2. \A x \in c.alone : /\ x[1] \in c.done => Written(kind, c, disk', mem', x)
                           /\ x[1] \notin c.done => Untouched(kind, c, disk', mem', x)
                           /\ mem'[x] = disk'[x]
    BY <1>1, <1>7, <1>9 DEF BatchOK, Written, Untouched
  <2>3. c.alone # {} =>
           /\ OnlySavepoint(th, savepoints')
           /\ \A x \in c.alone : savepoints'[1].saw[x] = disk'[x] /\ (x[1] # c.cf => mem'[x] = disk'[x])
    BY <1>7, <1>9 DEF OnlySavepoint
  <2> QED BY <1>1, <2>1, <2>2, <2>3, MovedOK
<1> QED BY <1>3, <1>4, <1>7, <1>8, <1>10, ContinueKeeps

LEMMA SQLiteBatchOpKeeps ==
    ASSUME IInv, Running, NEW th \in Threads, call[th].op = "batch", kind = "sqlite",
           call[th].phase = "ops", call[th].todo # <<>>, SQLiteBatchOp(th)
    PROVE  IInv'
<1>1. PICK c : c = call[th] /\ IsBatch(c) /\ BatchOK(kind, th, c, disk, mem, savepoints)
  BY CallShape
<1>2. /\ c.todo \in Seq(Ops) /\ \A i \in DOMAIN c.todo : c.todo[i].cf = c.cf /\ c.todo[i] \in Range(c.ops)
      /\ c.cf \notin c.done
  BY <1>1 DEF IsBatch
<1>3. /\ mem \in Contents /\ disk \in Contents /\ (savepoints = <<>> => mem = disk)
  BY DEF IInv, Shape, Modes
<1>4. CASE (Fault \/ NoFault) /\ SQLiteKeep /\ Continue(th, [c EXCEPT !.phase = "rollback"], {})
  <2>1. PICK b : b = [c EXCEPT !.phase = "rollback"]
    OBVIOUS
  <2>2. b = Moved(c, c.done, c.cf, c.todo, "rollback")
    BY <1>1, <2>1, BatchUpdates
  <2>3. \A x \in c.alone : /\ x[1] \in c.done => Written(kind, c, disk, mem, x)
                           /\ x[1] \notin c.done => Untouched(kind, c, disk, mem, x)
    BY <1>1 DEF BatchOK
  <2>4. c.alone # {} =>
           /\ OnlySavepoint(th, savepoints)
           /\ \A x \in c.alone : savepoints[1].saw[x] = disk[x] /\ (x[1] # c.cf => mem[x] = disk[x])
    BY <1>1, HasSavepoint
  <2>5. CallOK(kind, th, Moved(c, c.done, c.cf, c.todo, "rollback"), disk, mem, savepoints, faults')
    BY <1>1, <1>2, <2>3, <2>4, MovedOK
  <2>6. Continue(th, b, {})
    BY <1>4, <2>1
  <2> QED BY <1>4, <2>2, <2>5, <2>6, QuietContinue DEF SQLiteKeep
<1>5. CASE /\ SQLiteWrite(ApplyOp(mem, Head(c.todo))) /\ NoFault
           /\ Continue(th, [c EXCEPT !.todo = Tail(c.todo)], CellsOf(<<Head(c.todo)>>))
  <2>1. PICK b : b = [c EXCEPT !.todo = Tail(c.todo)]
    OBVIOUS
  <2>2. b = Moved(c, c.done, c.cf, Tail(c.todo), "ops")
    <3>1. PICK t : t = Tail(c.todo)
      OBVIOUS
    <3>2. b = [c EXCEPT !.todo = t] /\ c.phase = "ops"
      BY <1>1, <2>1, <3>1
    <3>3. b = Moved(c, c.done, c.cf, t, c.phase)
      BY <1>1, <3>2, BatchUpdates
    <3> QED BY <3>1, <3>2, <3>3
  <2>3. PICK op : op = Head(c.todo)
    OBVIOUS
  <2>4. op \in Ops /\ op = c.todo[1] /\ op.cf = c.cf
    BY <1>1, <1>2, <2>3
  <2>5. PICK m : m = ApplyOp(mem, op)
    OBVIOUS
  <2>6. /\ m \in Contents
        /\ \A x \in Cells : x \notin CellsOf(<<op>>) => m[x] = mem[x]
        /\ \A x \in Cells : x # <<op.cf, op.key>> => m[x] = mem[x]
    BY <1>3, <2>4, <2>5, ApplyOpType
  <2>7. /\ mem' = m /\ disk' = (IF savepoints = <<>> THEN m ELSE disk)
        /\ UNCHANGED <<savepoints, dirty>> /\ faults' \in 0..MaxFaults
    BY <1>5, <2>3, <2>5, Faults DEF SQLiteWrite
  <2>8. NewState
    BY <1>3, <2>6, <2>7 DEF NewState, IInv, Shape, Modes
  <2>9. Outside(CellsOf(<<op>>)) /\ OthersSavepoints(th)
    BY <1>3, <2>6, <2>7 DEF Outside, OthersSavepoints
  <2>10. c.alone # {} =>
           /\ OnlySavepoint(th, savepoints) /\ savepoints # <<>>
           /\ \A x \in c.alone : savepoints[1].saw[x] = disk[x] /\ (x[1] # c.cf => mem[x] = disk[x])
    BY <1>1, HasSavepoint
  <2>11. ASSUME NEW x \in c.alone PROVE x \in Cells /\ (x[1] # c.cf => m[x] = mem[x])
    <3>1. x \in Cells
      BY <1>1 DEF IsBatch, CellsOf
    <3> QED BY <2>4, <2>6, <3>1
  <2>12. ASSUME NEW x \in c.alone
         PROVE  /\ x[1] \in c.done => Written(kind, c, disk', mem', x)
                /\ x[1] \notin c.done => Untouched(kind, c, disk', mem', x)
                /\ x[1] = c.cf => ApplyOps(mem', Tail(c.todo))[x] = Final(kind, c.ops, x)
    <3>1. disk' = disk /\ mem' = m
      BY <2>7, <2>10
    <3>2. x[1] \in c.done => Written(kind, c, disk', mem', x)
      BY <1>1, <1>2, <2>11, <3>1 DEF BatchOK, Written
    <3>3. x[1] \notin c.done => Untouched(kind, c, disk', mem', x)
      BY <1>1, <3>1 DEF BatchOK, Untouched
    <3>4. x[1] = c.cf => ApplyOps(mem, c.todo)[x] = Final(kind, c.ops, x)
      BY <1>1 DEF BatchOK, Underway
    <3>5. ApplyOps(ApplyOp(mem, Head(c.todo)), Tail(c.todo))[x] = ApplyOps(mem, c.todo)[x]
      BY <1>1, <1>2, <1>3, <2>11, ApplyHead
    <3> QED BY <2>3, <2>5, <3>1, <3>2, <3>3, <3>4, <3>5
  <2>13. /\ Tail(c.todo) \in Seq(Ops)
         /\ \A i \in DOMAIN Tail(c.todo) : Tail(c.todo)[i].cf = c.cf /\ Tail(c.todo)[i] \in Range(c.ops)
    BY <1>1, <1>2, TailInherits
  <2>14. c.alone # {} =>
           /\ OnlySavepoint(th, savepoints')
           /\ \A x \in c.alone : savepoints'[1].saw[x] = disk'[x] /\ (x[1] # c.cf => mem'[x] = disk'[x])
    BY <2>7, <2>10, <2>11
  <2>15. CallOK(kind, th, Moved(c, c.done, c.cf, Tail(c.todo), "ops"), disk', mem', savepoints', faults')
    BY <1>1, <1>2, <2>12, <2>13, <2>14, MovedOK
  <2>16. Continue(th, b, CellsOf(<<op>>))
    BY <1>5, <2>1, <2>3
  <2> QED BY <2>2, <2>8, <2>9, <2>15, <2>16, ContinueKeeps
<1> QED BY <1>1, <1>4, <1>5 DEF SQLiteBatchOp

LEMMA SQLiteBatchKeeps ==
    ASSUME IInv, Running, NEW th \in Threads, call[th].op = "batch", call[th].phase = "begin",
           kind = "sqlite", SQLiteBatch(th)
    PROVE  IInv'
<1>1. PICK c : c = call[th] /\ IsBatch(c) /\ BatchOK(kind, th, c, disk, mem, savepoints)
  BY CallShape
<1>2. CASE Refuse(th)
  BY <1>2, RefuseKeeps
<1> DEFINE crowd == {savepoints[i].id : i \in DOMAIN savepoints}
           sp == [id |-> th, saw |-> mem]
<1>3. CASE /\ savepoints' = Append(savepoints, sp)
           /\ call' = [u \in Threads |->
                 LET d == IF u = th THEN [call[u] EXCEPT !.phase = "ops"] ELSE call[u]
                 IN  IF savepoints # <<>> /\ u \in crowd \cup {th}
                     THEN [d EXCEPT !.alone = {}] ELSE d]
           /\ reply' = NoReply
           /\ UNCHANGED <<disk, mem, dirty, must, faults>>
  <2>1. savepoints \in Seq([id : Threads, saw : Contents]) /\ mem \in Contents /\ disk \in Contents
    BY DEF IInv, Shape
  <2>2. savepoints = <<>> => mem = disk
    BY DEF IInv, Shape, Modes
  <2>3. /\ savepoints' \in Seq([id : Threads, saw : Contents]) /\ savepoints' # <<>>
        /\ savepoints = <<>> => Len(savepoints') = 1 /\ savepoints'[1] = sp
    BY <1>3, <2>1
  <2>4. Shape'
    BY <1>3, <2>3 DEF IInv, Shape, Running
  <2>5. Modes'
    BY <1>3, <2>3 DEF IInv, Modes, Running
  <2>6. Promised'
    BY <1>3 DEF IInv, Promised
  <2>7. FailedBatch'
    BY <1>3, NoBatchFailed DEF NoReply
  <2>8. ASSUME NEW u \in Threads, u # th
        PROVE  CallOK(kind', u, call'[u], disk', mem', savepoints', faults')
    <3>1. CallOK(kind, u, call[u], disk, mem, savepoints, faults)
      BY DEF IInv, Calls
    <3>2. CASE savepoints # <<>> /\ u \in crowd
      <4>1. call'[u] = [call[u] EXCEPT !.alone = {}]
        BY <1>3, <2>8, <3>2
      <4>2. CallOK(kind, u, [call[u] EXCEPT !.alone = {}], disk', mem', savepoints', faults')
        <5>1. \A x \in Cells : x \notin {} => disk'[x] = disk[x] /\ mem'[x] = mem[x]
          BY <1>3
        <5>2. faults > 0 => faults' > 0
          BY DEF Running
        <5> QED BY <3>1, <5>1, <5>2, OtherCall
      <4> QED BY <4>1, <4>2 DEF Running
    <3>3. CASE ~(savepoints # <<>> /\ u \in crowd)
      <4>1. call'[u] = call[u]
        BY <1>3, <2>8, <3>3
      <4>2. ~OnlySavepoint(u, savepoints)
        BY <2>1, <3>3 DEF OnlySavepoint
      <4>3. call[u].alone \subseteq call[u].alone \ {}
        OBVIOUS
      <4>4. CallOK(kind, u, [call[u] EXCEPT !.alone = call[u].alone], disk', mem', savepoints', faults')
        <5>1. \A x \in Cells : x \notin {} => disk'[x] = disk[x] /\ mem'[x] = mem[x]
          BY <1>3
        <5>2. faults > 0 => faults' > 0
          BY DEF Running
        <5> QED BY <3>1, <4>2, <4>3, <5>1, <5>2, OtherCall
      <4>5. [call[u] EXCEPT !.alone = call[u].alone] = call[u]
        BY <3>1 DEF CallOK, Idle, IsScan, IsGet, IsUpload, IsBatch
      <4> QED BY <4>1, <4>4, <4>5 DEF Running
    <3> QED BY <3>2, <3>3
  <2>9. CallOK(kind', th, call'[th], disk', mem', savepoints', faults')
    <3>1. PICK b : b = [c EXCEPT !.phase = "ops"]
      OBVIOUS
    <3>2. b = Moved(c, c.done, c.cf, c.todo, "ops")
      BY <1>1, <3>1, BatchUpdates
    <3>3. /\ c.todo \in Seq(Ops)
          /\ \A i \in DOMAIN c.todo : c.todo[i].cf = c.cf /\ c.todo[i] \in Range(c.ops)
          /\ c.cf \notin c.done
      BY <1>1 DEF IsBatch
    <3>4. \A x \in c.alone : /\ x[1] \in c.done => Written(kind, c, disk, mem, x)
                             /\ x[1] \notin c.done => Untouched(kind, c, disk, mem, x)
      BY <1>1 DEF BatchOK
    <3>5. ASSUME NEW x \in c.alone, x[1] = c.cf PROVE ApplyOps(mem, c.todo)[x] = Final(kind, c.ops, x)
      BY <1>1, <2>1, <3>5, GroupRun DEF Final
    <3>6. CASE savepoints = <<>>
      <4>1. OnlySavepoint(th, savepoints') /\ savepoints'[1].saw = mem /\ mem = disk
        BY <2>2, <2>3, <3>6 DEF OnlySavepoint
      <4>2. \A x \in c.alone : savepoints'[1].saw[x] = disk[x] /\ (x[1] # c.cf => mem[x] = disk[x])
        BY <4>1
      <4>3. CallOK(kind, th, b, disk, mem, savepoints', faults')
        BY <1>1, <3>2, <3>3, <3>4, <3>5, <4>1, <4>2, MovedOK
      <4>4. call'[th] = b
        BY <1>1, <1>3, <3>1, <3>6
      <4> QED BY <1>3, <4>3, <4>4 DEF Running
    <3>7. CASE savepoints # <<>>
      <4>1. PICK e : e = [b EXCEPT !.alone = {}]
        OBVIOUS
      <4>2. call'[th] = e
        BY <1>1, <1>3, <3>1, <3>7, <4>1
      <4>3. PICK n : n = [c EXCEPT !.alone = {}]
        OBVIOUS
      <4>4. /\ n = [op |-> "batch", ops |-> c.ops, cf |-> c.cf, todo |-> c.todo, phase |-> c.phase,
                    done |-> c.done, before |-> c.before, held |-> c.held, alone |-> {}]
        BY <1>1, <4>3 DEF IsBatch
      <4>5. e = [op |-> "batch", ops |-> c.ops, cf |-> c.cf, todo |-> c.todo, phase |-> "ops",
                 done |-> c.done, before |-> c.before, held |-> c.held, alone |-> {}]
        BY <3>2, <4>1 DEF Moved
      <4>6. e = Moved(n, n.done, n.cf, n.todo, "ops")
        BY <4>4, <4>5 DEF Moved
      <4>7. IsBatch(n) /\ n.alone = {} /\ n.ops = c.ops /\ n.cf = c.cf /\ n.todo = c.todo /\ n.done = c.done
        BY <1>1, <4>4 DEF IsBatch
      <4>8. CallOK(kind, th, e, disk, mem, savepoints', faults')
        BY <3>3, <4>6, <4>7, MovedOK
      <4> QED BY <1>3, <4>2, <4>8 DEF Running
    <3> QED BY <3>6, <3>7
  <2>10. Calls'
    BY <2>8, <2>9 DEF Calls
  <2> QED BY <2>4, <2>5, <2>6, <2>7, <2>10 DEF IInv
<1> QED BY <1>2, <1>3 DEF SQLiteBatch

LEMMA S3BatchKeeps ==
    ASSUME IInv, Running, NEW th \in Threads, call[th].op = "batch", call[th].phase = "begin",
           kind = "s3", S3Batch(th)
    PROVE  IInv'
<1>1. PICK c : c = call[th] /\ IsBatch(c) /\ BatchOK(kind, th, c, disk, mem, savepoints)
  BY CallShape
<1>2. UNCHANGED <<disk, mem, savepoints, dirty>> /\ NoFault
  BY KeepsAll DEF S3Batch
<1>3. CASE GroupFailed(th, {})
  BY <1>2, <1>3, QuietFailure
<1>4. CASE Continue(th, [c EXCEPT !.todo = Puts(c.todo) \o Dels(c.todo), !.phase = "ops"], {})
  <2>1. PICK t : t = Puts(c.todo) \o Dels(c.todo)
    OBVIOUS
  <2>2. PICK b : b = [c EXCEPT !.todo = t, !.phase = "ops"]
    OBVIOUS
  <2>3. b = Moved(c, c.done, c.cf, t, "ops") /\ Continue(th, b, {})
    <3>1. b = Moved(c, c.done, c.cf, t, "ops")
      BY <1>1, <2>2, BatchUpdates
    <3>2. Continue(th, b, {})
      BY <1>4, <2>1, <2>2
    <3> QED BY <3>1, <3>2
  <2>4. /\ c.todo \in Seq(Ops)
        /\ \A i \in DOMAIN c.todo : c.todo[i].cf = c.cf /\ c.todo[i] \in Range(c.ops)
        /\ c.cf \notin c.done
    BY <1>1 DEF IsBatch
  <2>5. /\ t \in Seq(Ops)
        /\ \A i \in DOMAIN t : t[i] \in Range(c.todo)
        /\ \A i, j \in DOMAIN t : i < j /\ t[i].kind = "del" => t[j].kind = "del"
        /\ \A x : On(c.todo, x) # {} =>
              /\ On(t, x) # {}
              /\ Effect(t[Max(On(t, x))]) =
                    IF \E i \in On(c.todo, x) : c.todo[i].kind = "del" THEN None
                    ELSE Effect(c.todo[Max(On(c.todo, x))])
    <3>1. PICK g \in Seq(Ops) : g = c.todo
      BY <2>4
    <3>2. t = Puts(g) \o Dels(g)
      BY <2>1, <3>1
    <3>3. /\ t \in Seq(Ops)
          /\ \A i \in DOMAIN t : t[i] \in Range(g)
          /\ \A i, j \in DOMAIN t : i < j /\ t[i].kind = "del" => t[j].kind = "del"
          /\ \A x : On(g, x) # {} =>
                /\ On(t, x) # {}
                /\ Effect(t[Max(On(t, x))]) =
                      IF \E i \in On(g, x) : g[i].kind = "del" THEN None
                      ELSE Effect(g[Max(On(g, x))])
      BY <3>2, RequestFacts, Zenon
    <3> QED BY <3>1, <3>3
  <2>6. ASSUME NEW i \in DOMAIN t PROVE t[i].cf = c.cf /\ t[i] \in Range(c.ops)
    <3>1. PICK j \in DOMAIN c.todo : t[i] = c.todo[j]
      BY <2>5 DEF Range
    <3> QED BY <2>4, <3>1
  <2>7. \A x \in c.alone : /\ x[1] \in c.done => Written(kind, c, disk, mem, x)
                           /\ x[1] \notin c.done => Untouched(kind, c, disk, mem, x)
    BY <1>1 DEF BatchOK
  <2>8. ASSUME NEW x \in c.alone, x[1] = c.cf PROVE ApplyOps(mem, t)[x] = Final(kind, c.ops, x)
    <3>1. mem \in Contents
      BY DEF IInv, Shape
    <3>2. /\ x \in Cells /\ On(c.todo, x) # {}
          /\ (\E i \in On(c.ops, x) : c.ops[i].kind = "del")
                <=> \E i \in On(c.todo, x) : c.todo[i].kind = "del"
          /\ c.todo[Max(On(c.todo, x))] = c.ops[Max(On(c.ops, x))]
      BY <1>1, <2>8, <3>1, GroupRun
    <3>3. x \in CellsOf(t)
      BY <2>5, <3>2 DEF CellsOf
    <3>4. ApplyOps(mem, t)[x] = Effect(t[Max(On(t, x))])
      BY <2>5, <3>1, <3>3, ApplyOpsType
    <3> QED BY <2>5, <3>2, <3>4 DEF Final
  <2>9. CallOK(kind, th, Moved(c, c.done, c.cf, t, "ops"), disk, mem, savepoints, faults')
    BY <1>1, <2>4, <2>5, <2>6, <2>7, <2>8, MovedOK
  <2> QED BY <1>2, <2>3, <2>9, QuietContinue
<1> QED BY <1>1, <1>3, <1>4 DEF S3Batch

LEMMA S3BatchPutKeeps ==
    ASSUME IInv, Running, NEW th \in Threads, call[th].op = "batch", call[th].phase = "ops",
           call[th].todo # <<>>, kind = "s3", S3BatchPut(th)
    PROVE  IInv'
<1>1. PICK c : c = call[th] /\ IsBatch(c) /\ BatchOK(kind, th, c, disk, mem, savepoints)
  BY CallShape
<1>2. /\ c.todo \in Seq(Ops) /\ c.todo # <<>> /\ c.phase = "ops"
      /\ \A i \in DOMAIN c.todo : c.todo[i].cf = c.cf /\ c.todo[i] \in Range(c.ops)
      /\ c.cf \notin c.done
  BY <1>1 DEF IsBatch
<1>3. mem = disk /\ disk \in Contents
  BY Direct DEF IInv, Shape
<1>4. PICK op : op = Head(c.todo)
  OBVIOUS
<1>5. op \in Ops /\ 1 \in DOMAIN c.todo /\ op = c.todo[1]
  BY <1>2, <1>4
<1>6. PICK m : m = ApplyOp(disk, op)
  OBVIOUS
<1>7. /\ m \in Contents
      /\ \A x \in Cells : x \notin CellsOf(<<op>>) => m[x] = disk[x]
      /\ \A x \in Cells : m[x] = IF x = <<op.cf, op.key>> THEN Effect(op) ELSE disk[x]
  BY <1>3, <1>5, <1>6, ApplyOpType
<1>8. ASSUME NEW x \in c.alone
      PROVE  x \in Cells /\ (m[x] = disk[x] \/ x[1] \notin c.done)
  <2>1. x \in Cells
    BY <1>1 DEF IsBatch, CellsOf
  <2>2. x = <<op.cf, op.key>> => x[1] \notin c.done
    BY <1>2, <1>5
  <2> QED BY <1>7, <2>1, <2>2
<1>9. CASE S3Set(m) /\ NoFault /\ Continue(th, [c EXCEPT !.todo = Tail(c.todo)], CellsOf(<<op>>))
  <2>1. disk' = m /\ mem' = m /\ UNCHANGED <<savepoints, dirty>> /\ faults' \in 0..MaxFaults
    BY <1>9, Faults DEF S3Set
  <2>2. NewState /\ Outside(CellsOf(<<op>>)) /\ OthersSavepoints(th)
    BY <1>7, <2>1, SetState
  <2>3. PICK t : t = Tail(c.todo)
    OBVIOUS
  <2>4. Continue(th, Moved(c, c.done, c.cf, t, "ops"), CellsOf(<<op>>))
    <3>1. PICK b : b = [c EXCEPT !.todo = t]
      OBVIOUS
    <3>2. b = Moved(c, c.done, c.cf, t, c.phase)
      BY <1>1, <3>1, BatchUpdates
    <3>3. Continue(th, b, CellsOf(<<op>>))
      BY <1>9, <2>3, <3>1
    <3> QED BY <1>2, <3>2, <3>3
  <2>5. /\ t \in Seq(Ops)
        /\ \A i \in DOMAIN t : t[i].cf = c.cf /\ t[i] \in Range(c.ops)
    BY <1>2, <2>3, TailInherits
  <2>6. \A i, j \in DOMAIN t : i < j /\ t[i].kind = "del" => t[j].kind = "del"
    <3>1. \A i \in DOMAIN t : i \in Int /\ i + 1 \in DOMAIN c.todo /\ t[i] = c.todo[i + 1]
      BY <1>2, <2>3
    <3>2. \A i, j \in DOMAIN c.todo : i < j /\ c.todo[i].kind = "del" => c.todo[j].kind = "del"
      BY <1>1, <1>2 DEF BatchOK
    <3>3. ASSUME NEW i \in DOMAIN t, NEW j \in DOMAIN t, i < j, t[i].kind = "del"
          PROVE  t[j].kind = "del"
      <4>1. i + 1 \in DOMAIN c.todo /\ j + 1 \in DOMAIN c.todo /\ i + 1 < j + 1
        BY <3>1, <3>3
      <4> QED BY <3>1, <3>2, <3>3, <4>1
    <3> QED BY <3>3
  <2>7. ASSUME NEW x \in c.alone
        PROVE  /\ x[1] \in c.done => Written(kind, c, m, m, x)
               /\ x[1] \notin c.done => Untouched(kind, c, m, m, x)
               /\ x[1] = c.cf => ApplyOps(m, t)[x] = Final(kind, c.ops, x)
    <3>1. x[1] \in c.done => Written(kind, c, m, m, x)
      <4>1. CASE x[1] \in c.done
        <5>1. m[x] = disk[x]
          BY <1>8, <4>1
        <5> QED BY <1>1, <4>1, <5>1 DEF BatchOK, Written
      <4> QED BY <4>1
    <3>2. Untouched(kind, c, m, m, x)
      BY DEF Untouched
    <3>3. x[1] = c.cf => ApplyOps(disk, c.todo)[x] = Final(kind, c.ops, x)
      BY <1>1, <1>2, <1>3 DEF BatchOK, Underway
    <3>4. ApplyOps(ApplyOp(disk, Head(c.todo)), Tail(c.todo))[x] = ApplyOps(disk, c.todo)[x]
      BY <1>2, <1>3, <1>8, ApplyHead
    <3> QED BY <1>4, <1>6, <2>3, <3>1, <3>2, <3>3, <3>4
  <2>8. CallOK(kind, th, Moved(c, c.done, c.cf, t, "ops"), m, m, savepoints', faults')
    BY <1>1, <1>2, <2>5, <2>6, <2>7, MovedOK
  <2> QED BY <2>1, <2>2, <2>4, <2>8, ContinueKeeps
<1>10. CASE Fault /\ (S3Set(m) \/ S3Keep) /\ GroupFailed(th, CellsOf(<<op>>))
  <2>1. /\ UNCHANGED <<savepoints, dirty>> /\ faults' \in 0..MaxFaults
        /\ disk' = mem' /\ (disk' = m \/ disk' = disk)
    BY <1>10, Faults DEF S3Set, S3Keep
  <2>2. PICK n : n = disk'
    OBVIOUS
  <2>3. n \in Contents /\ \A x \in Cells : x \notin CellsOf(<<op>>) => n[x] = disk[x]
    BY <1>3, <1>7, <2>1, <2>2
  <2>4. NewState /\ Outside(CellsOf(<<op>>)) /\ OthersSavepoints(th)
    BY <2>1, <2>2, <2>3, SetState
  <2> QED BY <1>1, <1>10, <2>4, FailedKeeps
<1> QED BY <1>1, <1>4, <1>6, <1>9, <1>10 DEF S3BatchPut, S3Lost

LEMMA S3BatchDeleteKeeps ==
    ASSUME IInv, Running, NEW th \in Threads, call[th].op = "batch", call[th].phase = "ops",
           call[th].todo # <<>>, kind = "s3", S3BatchDelete(th)
    PROVE  IInv'
<1>1. PICK c : c = call[th] /\ IsBatch(c) /\ BatchOK(kind, th, c, disk, mem, savepoints)
  BY CallShape
<1>2. /\ c.todo \in Seq(Ops) /\ c.todo # <<>> /\ c.phase = "ops"
      /\ \A i \in DOMAIN c.todo : c.todo[i].cf = c.cf /\ c.todo[i] \in Range(c.ops)
      /\ c.cf \notin c.done
  BY <1>1 DEF IsBatch
<1>3. mem = disk /\ disk \in Contents
  BY Direct DEF IInv, Shape
<1>4. PICK gone : gone = CellsOf(c.todo)
  OBVIOUS
<1>5. \A i \in DOMAIN c.todo : c.todo[i].kind = "del"
  <2>1. \A i, j \in DOMAIN c.todo : i < j /\ c.todo[i].kind = "del" => c.todo[j].kind = "del"
    BY <1>1, <1>2 DEF BatchOK
  <2>2. 1 \in DOMAIN c.todo /\ c.todo[1].kind = "del" /\ \A i \in DOMAIN c.todo : i = 1 \/ 1 < i
    BY <1>1, <1>2 DEF S3BatchDelete
  <2> QED BY <2>1, <2>2
<1>6. ASSUME NEW x \in gone
      PROVE  x \in Cells /\ x[1] \notin c.done /\ Effect(c.todo[Max(On(c.todo, x))]) = None
  <2>1. x \in Cells /\ On(c.todo, x) # {}
    BY <1>4 DEF CellsOf
  <2>2. PICK i \in On(c.todo, x) : TRUE
    BY <2>1
  <2>3. i \in DOMAIN c.todo /\ x = <<c.todo[i].cf, c.todo[i].key>> /\ Effect(c.todo[i]) = None
    BY <1>5, <2>2 DEF On, Effect
  <2>4. x[1] \notin c.done
    BY <1>2, <2>3
  <2>5. Max(On(c.todo, x)) \in On(c.todo, x)
    BY <1>2, <2>1, OnFacts
  <2>6. Effect(c.todo[Max(On(c.todo, x))]) = None
    BY <1>5, <2>5 DEF On, Effect
  <2> QED BY <2>1, <2>3, <2>4, <2>6
<1>7. ASSUME NEW some \in SUBSET gone, NEW m, m = [x \in Cells |-> IF x \in some THEN None ELSE disk[x]]
      PROVE  /\ m \in Contents
             /\ \A x \in Cells : x \notin gone => m[x] = disk[x]
             /\ \A x \in c.alone : /\ x \in Cells
                                   /\ m[x] = IF x \in some THEN None ELSE disk[x]
                                   /\ m[x] = disk[x] \/ x[1] \notin c.done
  <2>1. m \in Contents
    BY <1>3, <1>7 DEF Contents, Maybe
  <2>2. c.alone \subseteq Cells
    BY <1>1 DEF IsBatch, CellsOf
  <2> QED BY <1>6, <1>7, <2>1, <2>2
<1>8. ASSUME NEW m, m = [x \in Cells |-> IF x \in gone THEN None ELSE disk[x]], S3Set(m), NoFault,
             Continue(th, [c EXCEPT !.todo = <<>>], gone)
      PROVE  IInv'
  <2>1. disk' = m /\ mem' = m /\ UNCHANGED <<savepoints, dirty>> /\ faults' \in 0..MaxFaults
    BY <1>8, Faults DEF S3Set
  <2>2. /\ m \in Contents
        /\ \A x \in Cells : x \notin gone => m[x] = disk[x]
        /\ \A x \in c.alone : /\ x \in Cells
                              /\ m[x] = IF x \in gone THEN None ELSE disk[x]
                              /\ m[x] = disk[x] \/ x[1] \notin c.done
    BY <1>7, <1>8
  <2>3. NewState /\ Outside(gone) /\ OthersSavepoints(th)
    BY <2>1, <2>2, SetState
  <2>4. Continue(th, Moved(c, c.done, c.cf, <<>>, "ops"), gone)
    <3>1. PICK t : t = <<>>
      OBVIOUS
    <3>2. PICK b : b = [c EXCEPT !.todo = t]
      OBVIOUS
    <3>3. b = Moved(c, c.done, c.cf, t, c.phase)
      BY <1>1, <3>2, BatchUpdates
    <3>4. Continue(th, b, gone)
      BY <1>8, <3>1, <3>2
    <3> QED BY <1>2, <3>1, <3>3, <3>4
  <2>5. ASSUME NEW x \in c.alone
        PROVE  /\ x[1] \in c.done => Written(kind, c, m, m, x)
               /\ x[1] \notin c.done => Untouched(kind, c, m, m, x)
               /\ x[1] = c.cf => ApplyOps(m, <<>>)[x] = Final(kind, c.ops, x)
    <3>1. x[1] \in c.done => Written(kind, c, m, m, x)
      <4>1. CASE x[1] \in c.done
        <5>1. m[x] = disk[x]
          BY <2>2, <4>1
        <5> QED BY <1>1, <4>1, <5>1 DEF BatchOK, Written
      <4> QED BY <4>1
    <3>2. Untouched(kind, c, m, m, x)
      BY DEF Untouched
    <3>3. x[1] = c.cf => ApplyOps(disk, c.todo)[x] = Final(kind, c.ops, x)
      BY <1>1, <1>2, <1>3 DEF BatchOK, Underway
    <3>4. x \in Cells /\ On(<<>>, x) = {}
      BY <2>2 DEF On
    <3>5. ApplyOps(m, <<>>)[x] = m[x]
      BY <3>4 DEF ApplyOps
    <3>6. m[x] = ApplyOps(disk, c.todo)[x]
      <4>1. CASE x \in gone
        <5>1. x \in CellsOf(c.todo)
          BY <1>4, <4>1
        <5>2. ApplyOps(disk, c.todo)[x] = Effect(c.todo[Max(On(c.todo, x))])
          BY <1>2, <1>3, <5>1, ApplyOpsType
        <5> QED BY <1>6, <2>2, <4>1, <5>2
      <4>2. CASE x \notin gone
        <5>1. x \notin CellsOf(c.todo)
          BY <1>4, <4>2
        <5>2. ApplyOps(disk, c.todo)[x] = disk[x]
          BY <1>2, <1>3, <3>4, <5>1, ApplyOpsType
        <5> QED BY <2>2, <4>2, <5>2
      <4> QED BY <4>1, <4>2
    <3> QED BY <3>1, <3>2, <3>3, <3>5, <3>6
  <2>6. CallOK(kind, th, Moved(c, c.done, c.cf, <<>>, "ops"), m, m, savepoints', faults')
    <3>1. <<>> \in Seq(Ops) /\ DOMAIN <<>> = {}
      OBVIOUS
    <3> QED BY <1>1, <1>2, <2>5, <3>1, MovedOK
  <2> QED BY <2>1, <2>3, <2>4, <2>6, ContinueKeeps
<1>9. ASSUME NEW some \in SUBSET gone, NEW m, m = [x \in Cells |-> IF x \in some THEN None ELSE disk[x]],
             S3Set(m), Fault, GroupFailed(th, gone)
      PROVE  IInv'
  <2>1. disk' = m /\ mem' = m /\ UNCHANGED <<savepoints, dirty>> /\ faults' \in 0..MaxFaults
    BY <1>9, Faults DEF S3Set
  <2>2. m \in Contents /\ \A x \in Cells : x \notin gone => m[x] = disk[x]
    BY <1>7, <1>9
  <2>3. NewState /\ Outside(gone) /\ OthersSavepoints(th)
    BY <2>1, <2>2, SetState
  <2> QED BY <1>1, <1>9, <2>3, FailedKeeps
<1>10. \/ \E m : /\ m = [x \in Cells |-> IF x \in gone THEN None ELSE disk[x]]
                 /\ S3Set(m) /\ NoFault /\ Continue(th, [c EXCEPT !.todo = <<>>], gone)
       \/ \E some \in SUBSET gone : \E m :
                 /\ m = [x \in Cells |-> IF x \in some THEN None ELSE disk[x]]
                 /\ S3Set(m) /\ Fault /\ GroupFailed(th, gone)
  BY <1>1, <1>4 DEF S3BatchDelete
<1> QED BY <1>8, <1>9, <1>10

LEMMA S3BatchEndKeeps ==
    ASSUME IInv, Running, NEW th \in Threads, call[th].op = "batch", call[th].phase = "ops",
           call[th].todo = <<>>, kind = "s3", S3BatchEnd(th)
    PROVE  IInv'
<1>1. PICK c : c = call[th] /\ IsBatch(c) /\ BatchOK(kind, th, c, disk, mem, savepoints)
  BY CallShape
<1>2. /\ UNCHANGED <<disk, mem, savepoints, dirty>> /\ faults' \in 0..MaxFaults /\ GroupDone(th, {})
      /\ mem = disk
  BY KeepsAll, Faults, Direct DEF S3BatchEnd
<1>3. NewState /\ Outside({}) /\ OthersSavepoints(th)
  BY <1>2, Quiet
<1>4. ASSUME NEW x \in c.alone
      PROVE  IF x[1] \in c.done \cup {c.cf} THEN Written(kind, c, disk', mem', x)
             ELSE Untouched(kind, c, disk', mem', x)
  <2>1. CASE x[1] = c.cf
    <3>1. ApplyOps(mem, c.todo)[x] = Final(kind, c.ops, x)
      BY <1>1, <2>1 DEF BatchOK, Underway
    <3>2. x \in Cells /\ On(c.todo, x) = {}
      BY <1>1 DEF IsBatch, CellsOf, On
    <3>3. ApplyOps(mem, c.todo)[x] = mem[x]
      BY <3>2 DEF ApplyOps
    <3> QED BY <1>2, <2>1, <3>1, <3>3 DEF Written
  <2>2. CASE x[1] # c.cf
    BY <1>1, <1>2, <2>2 DEF BatchOK
  <2> QED BY <2>1, <2>2
<1> QED BY <1>1, <1>2, <1>3, <1>4, DoneKeeps

-----------------------------------------------------------------------------
(* The symbol table *)

\* Twice a power of two is one: an odd divisor of 2 * c divides c.
LEMMA OddDivisor ==
    ASSUME NEW c \in Nat \ {0}, NEW d \in Nat \ {0}, (2 * c) % d = 0, d % 2 # 0
    PROVE  c % d = 0
<1> DEFINE q == (2 * c) \div d
           a == d \div 2
           e == c - a * q
<1>1. q \in Int /\ a \in Int
  OBVIOUS
<1>2. 2 * c = d * q
  <2>1. 2 * c = d * ((2 * c) \div d) + ((2 * c) % d)
    OBVIOUS
  <2> QED BY <2>1
<1>3. d = 2 * a + 1
  <2>1. d = 2 * (d \div 2) + (d % 2) /\ d % 2 \in {0, 1}
    OBVIOUS
  <2> QED BY <2>1
<1> HIDE DEF q, a
<1>4. d * q = (2 * a) * q + q /\ (2 * a) * q = 2 * (a * q) /\ a * q \in Int
  BY <1>1, <1>3
<1>5. q = 2 * e /\ e \in Int
  BY <1>1, <1>2, <1>4
<1> HIDE DEF e
<1>6. d * (2 * e) = 2 * (d * e) /\ d * e \in Int
  BY <1>5
<1>7. c = d * e
  BY <1>2, <1>5, <1>6
<1>8. (d * e) % d = 0
  <2>1. c = d * (c \div d) + (c % d) /\ c % d \in 0..(d - 1) /\ c \div d \in Int
    OBVIOUS
  <2> DEFINE f == c \div d
             r == c % d
  <2>2. d * e = d * f + r /\ r \in 0..(d - 1) /\ f \in Int
    BY <1>7, <2>1
  <2> HIDE DEF f, r
  <2>3. d * (e - f) = r
    <3>1. d * (e - f) = d * e - d * f
      BY <1>5, <2>2
    <3> QED BY <3>1, <2>2, <1>6, <1>5
  <2>4. CASE e - f >= 1
    <3>1. d * (e - f) >= d
      BY <1>5, <2>2, <2>4
    <3> QED BY <3>1, <2>2, <2>3
  <2>5. CASE e - f <= -1
    <3>1. d * (e - f) <= -d
      BY <1>5, <2>2, <2>5
    <3> QED BY <3>1, <2>2, <2>3
  <2>6. CASE e - f = 0
    <3>1. d * (e - f) = 0
      BY <2>6
    <3> QED BY <3>1, <2>3, <1>7 DEF r
  <2> QED BY <1>5, <2>2, <2>4, <2>5, <2>6
<1> QED BY <1>7, <1>8

LEMMA TwicePower ==
    ASSUME NEW c \in Nat \ {0}, PowerOfTwo(c)
    PROVE  PowerOfTwo(2 * c)
<1> SUFFICES ASSUME NEW d \in 2..(2 * c), (2 * c) % d = 0, d % 2 # 0 PROVE FALSE
  BY DEF PowerOfTwo
<1>1. c % d = 0
  <2>1. d \in Nat \ {0}
    OBVIOUS
  <2> QED BY <2>1, OddDivisor
<1>2. CASE d <= c
  BY <1>1, <1>2 DEF PowerOfTwo
<1>3. CASE d > c
  <2>1. c % d = c
    BY <1>3
  <2> QED BY <1>1, <2>1
<1> QED BY <1>2, <1>3

\* There is a power of two between any number and its double, so that the
\* loop of next_pow2 stops.
LEMMA PowerBetween ==
    ASSUME NEW m \in Nat \ {0}
    PROVE  \E c \in m..(2 * m) : PowerOfTwo(c)
<1> DEFINE T == {n \in Nat \ {0} : ~\E c \in n..(2 * n) : PowerOfTwo(c)}
<1> SUFFICES ASSUME T # {} PROVE FALSE
  OBVIOUS
<1>1. PICK n \in T : \A y \in T : n <= y
  <2>1. T \subseteq Nat
    OBVIOUS
  <2> HIDE DEF T
  <2> QED BY <2>1, LeastFact
<1>2. n # 1
  <2>1. PowerOfTwo(1)
    BY DEF PowerOfTwo
  <2> QED BY <2>1
<1>3. n - 1 \in Nat \ {0} /\ n - 1 \notin T
  BY <1>1, <1>2
<1>4. PICK c \in (n - 1)..(2 * (n - 1)) : PowerOfTwo(c)
  BY <1>3
<1>5. CASE c >= n
  BY <1>1, <1>4, <1>5
<1>6. CASE c = n - 1
  <2>1. PowerOfTwo(2 * c)
    BY <1>3, <1>4, <1>6, TwicePower
  <2> QED BY <1>1, <1>2, <1>6, <2>1
<1> QED BY <1>3, <1>4, <1>5, <1>6

\* The table has room for twice the names, which no probe sequence fills up.
LEMMA RoomForNames ==
    ASSUME NEW n \in Nat
    PROVE  NextPow2(n) \in Nat /\ NextPow2(n) >= 16 /\ NextPow2(n) >= 2 * n
<1> DEFINE want == IF n < 8 THEN 16 ELSE 2 * n
           T == {c \in want..(2 * want) : PowerOfTwo(c)}
<1>1. want \in Nat \ {0} /\ want >= 16 /\ want >= 2 * n
  OBVIOUS
<1>2. NextPow2(n) = Min(T)
  BY DEF NextPow2
<1> HIDE DEF want
<1>3. T \subseteq Nat /\ T # {}
  BY <1>1, PowerBetween
<1>4. Min(T) \in T
  <2> HIDE DEF T
  <2> QED BY <1>3, MinFact
<1> QED BY <1>1, <1>2, <1>4

\* What build puts for the name at position i.
Entry(i) == [hash |-> Hash[names[i]], key |-> names[i], value |-> i]

\* The entry of position i is p slots behind the first one of its name, and every
\* slot before it holds the entry of an earlier position.
Reaches(i, p) ==
    /\ slots[SlotAt(names[i], p)] = Entry(i)
    /\ \A q \in 0..(p - 1) : \E j \in 1..(i - 1) : slots[SlotAt(names[i], q)] = Entry(j)

Indexed ==
    /\ names \in Seq(Names) /\ filled \in 0..Len(names)
    /\ names # <<>> =>
          /\ Capacity \in Nat /\ Capacity >= 16 /\ Capacity >= 2 * Len(names)
          /\ DOMAIN slots = 0..(Capacity - 1)
          /\ \A s \in DOMAIN slots : slots[s] = Absent \/ \E i \in 1..filled : slots[s] = Entry(i)
          /\ \A s, t \in DOMAIN slots : slots[s] = slots[t] /\ slots[s] # Absent => s = t
          /\ \A i \in 1..filled : \E p \in 0..(i - 1) : Reaches(i, p)

LEMMA EntryFacts ==
    ASSUME NEW i, names \in Seq(Names), i \in 1..Len(names)
    PROVE  /\ names[i] \in Names /\ Hash[names[i]] \in Nat
           /\ Entry(i) # Absent /\ Entry(i).value = i /\ Entry(i).key = names[i]
           /\ Entry(i).hash = Hash[names[i]]
<1>1. names[i] \in Names /\ Hash[names[i]] \in Nat /\ i \in Nat
  BY HashAssumption
<1>2. Entry(i) \in [hash : Nat, key : Names, value : Nat]
  BY <1>1 DEF Entry
<1> QED BY <1>1, <1>2, AbsentAssumption DEF Entry

\* The probes of one name, up to the capacity, are different slots.
LEMMA ProbesDiffer ==
    ASSUME NEW n \in Names, Capacity \in Nat, Capacity >= 16
    PROVE  /\ \A p \in Nat : SlotAt(n, p) \in 0..(Capacity - 1)
           /\ \A p, q \in 0..(Capacity - 1) : SlotAt(n, p) = SlotAt(n, q) => p = q
<1> DEFINE h == Hash[n] % Capacity
<1>1. h \in Nat
  <2>1. Hash[n] \in Nat /\ Capacity \in Nat \ {0}
    BY HashAssumption
  <2> QED BY <2>1, ModRange
<1>2. \A p : SlotAt(n, p) = (h + p) % Capacity
  BY DEF SlotAt
<1> HIDE DEF h
<1>3. ASSUME NEW p \in Nat PROVE SlotAt(n, p) \in 0..(Capacity - 1)
  <2>1. h + p \in Nat /\ Capacity \in Nat \ {0}
    BY <1>1
  <2> QED BY <1>2, <2>1, ModRange
<1>4. ASSUME NEW p \in 0..(Capacity - 1), NEW q \in 0..(Capacity - 1), p < q
      PROVE  SlotAt(n, p) # SlotAt(n, q)
  <2>1. /\ h + p \in Nat /\ h + q \in Nat /\ Capacity \in Nat \ {0}
        /\ h + p < h + q /\ (h + q) - (h + p) < Capacity
    BY <1>1, <1>4
  <2>2. (h + p) % Capacity # (h + q) % Capacity
    BY <2>1, ModDistinct
  <2> QED BY <1>2, <2>2
<1>5. ASSUME NEW p \in 0..(Capacity - 1), NEW q \in 0..(Capacity - 1),
             SlotAt(n, p) = SlotAt(n, q)
      PROVE  p = q
  <2>1. ~(p < q) /\ ~(q < p)
    BY <1>4, <1>5
  <2> QED BY <2>1
<1> QED BY <1>3, <1>5

\* A table that has i names leaves a free slot among the first i + 1 probes of
\* the next: the names in the others are different.
LEMMA FreeSlot ==
    ASSUME Indexed, filled < Len(names)
    PROVE  LET free == {p \in 0..(Capacity - 1) : slots[SlotAt(names[filled + 1], p)] = Absent}
           IN  /\ Min(free) \in free /\ Min(free) <= filled
               /\ \A q \in 0..(Min(free) - 1) :
                     \E j \in 1..filled : slots[SlotAt(names[filled + 1], q)] = Entry(j)
<1> DEFINE n == names[filled + 1]
           free == {p \in 0..(Capacity - 1) : slots[SlotAt(n, p)] = Absent}
<1>1. /\ names # <<>> /\ n \in Names /\ filled \in Nat
      /\ Capacity \in Nat /\ Capacity >= 16 /\ Capacity >= 2 * Len(names)
      /\ Len(names) \in Nat
  BY DEF Indexed
<1>2. /\ \A p \in Nat : SlotAt(n, p) \in DOMAIN slots
      /\ \A p, q \in 0..(Capacity - 1) : SlotAt(n, p) = SlotAt(n, q) => p = q
  <2> HIDE DEF n
  <2> QED BY <1>1, ProbesDiffer DEF Indexed
<1> HIDE DEF n
<1>3. \A p \in Nat : slots[SlotAt(n, p)] # Absent =>
         \E j \in 1..filled : slots[SlotAt(n, p)] = Entry(j)
  BY <1>1, <1>2 DEF Indexed
<1>4. \E p \in 0..filled : slots[SlotAt(n, p)] = Absent
  <2> SUFFICES ASSUME \A p \in 0..filled : slots[SlotAt(n, p)] # Absent PROVE FALSE
    OBVIOUS
  <2> DEFINE f == [p \in 0..filled |-> slots[SlotAt(n, p)].value]
  <2>1. ASSUME NEW p \in 0..filled
        PROVE  f[p] \in 1..filled /\ slots[SlotAt(n, p)] = Entry(f[p])
    <3>1. PICK j \in 1..filled : slots[SlotAt(n, p)] = Entry(j)
      BY <1>1, <1>3
    <3>2. j \in 1..Len(names)
      BY <1>1
    <3>3. Entry(j).value = j
      BY <3>2, EntryFacts DEF Indexed
    <3> QED BY <3>1, <3>3
  <2>2. f \in [0..filled -> 1..filled]
    BY <2>1
  <2>3. /\ IsFiniteSet(0..filled) /\ Cardinality(0..filled) = filled + 1
        /\ IsFiniteSet(1..filled) /\ Cardinality(1..filled) = filled
    BY <1>1, FS_Interval
  <2> HIDE DEF f
  <2>4. PICK p, q \in 0..filled : p # q /\ f[p] = f[q]
    <3>1. Cardinality(1..filled) < Cardinality(0..filled)
      BY <1>1, <2>3
    <3> QED BY <2>2, <2>3, <3>1, FS_PigeonHole
  <2>5. slots[SlotAt(n, p)] = slots[SlotAt(n, q)] /\ slots[SlotAt(n, p)] # Absent
    BY <2>1, <2>4
  <2>6. SlotAt(n, p) = SlotAt(n, q)
    <3>1. p \in Nat /\ q \in Nat
      BY <1>1
    <3>2. SlotAt(n, p) \in DOMAIN slots /\ SlotAt(n, q) \in DOMAIN slots
      BY <1>2, <3>1
    <3> QED BY <1>1, <2>5, <3>2 DEF Indexed
  <2> QED BY <1>1, <1>2, <2>4, <2>6
<1>5. PICK p \in 0..filled : p \in free
  BY <1>1, <1>4
<1>6. free \subseteq Nat /\ free # {}
  BY <1>1, <1>5
<1>7. Min(free) \in free /\ \A y \in free : Min(free) <= y
  <2> HIDE DEF free
  <2> QED BY <1>6, MinFact
<1>8. Min(free) <= filled /\ Min(free) \in Nat
  <2>1. Min(free) <= p /\ Min(free) \in Nat
    BY <1>5, <1>6, <1>7
  <2> QED BY <1>1, <2>1
<1>9. ASSUME NEW q \in 0..(Min(free) - 1)
      PROVE  \E j \in 1..filled : slots[SlotAt(n, q)] = Entry(j)
  <2>1. q \in 0..(Capacity - 1) /\ q \in Nat /\ ~(Min(free) <= q)
    BY <1>1, <1>8
  <2>2. q \notin free
    BY <1>7, <2>1
  <2> QED BY <1>3, <2>1, <2>2
<1> QED BY <1>7, <1>8, <1>9 DEF n

LEMMA IndexBegins ==
    ASSUME NEW ns \in Seq(Names), BuildStart(ns)
    PROVE  Indexed'
<1> DEFINE cap == NextPow2(Len(ns))
<1>1. cap \in Nat /\ cap >= 16 /\ cap >= 2 * Len(ns)
  BY RoomForNames
<1>2. names' = ns /\ filled' = 0 /\ slots' = [p \in 0..(cap - 1) |-> Absent]
  BY DEF BuildStart
<1> HIDE DEF cap
<1>3. Capacity' = cap
  <2>1. DOMAIN slots' = 0..(cap - 1)
    BY <1>2
  <2>2. Cardinality(0..(cap - 1)) = cap
    BY <1>1, FS_Interval
  <2> QED BY <2>1, <2>2 DEF Capacity
<1>4. 1..filled' = {}
  BY <1>2
<1>5. filled' \in 0..Len(names') /\ names' \in Seq(Names)
  BY <1>2
<1> QED BY <1>1, <1>2, <1>3, <1>4, <1>5 DEF Indexed

LEMMA IndexGrows ==
    ASSUME Indexed, BuildNext
    PROVE  Indexed'
<1> DEFINE i == filled + 1
           n == names[i]
           free == {p \in 0..(Capacity - 1) : slots[SlotAt(n, p)] = Absent}
           m == Min(free)
           at == SlotAt(n, m)
<1>1. /\ filled < Len(names) /\ names' = names /\ filled' = i
      /\ slots' = [slots EXCEPT ![at] = Entry(i)]
  BY DEF BuildNext, Entry
<1>2. /\ names # <<>> /\ names \in Seq(Names) /\ Len(names) \in Nat /\ filled \in Nat
      /\ i \in 1..Len(names) /\ n \in Names
      /\ Capacity \in Nat /\ Capacity >= 16 /\ Capacity >= 2 * Len(names)
      /\ DOMAIN slots = 0..(Capacity - 1)
  BY <1>1 DEF Indexed
<1>3. /\ m \in free /\ m <= filled
      /\ \A q \in 0..(m - 1) : \E j \in 1..filled : slots[SlotAt(n, q)] = Entry(j)
  BY <1>1, FreeSlot
<1>4. m \in 0..(Capacity - 1) /\ m \in 0..filled /\ slots[at] = Absent
  BY <1>2, <1>3
<1> HIDE DEF free, m
<1>5. at \in DOMAIN slots
  <2> HIDE DEF n
  <2> QED BY <1>2, <1>4, ProbesDiffer
<1>6. Capacity' = Capacity /\ DOMAIN slots' = DOMAIN slots
  BY <1>1 DEF Capacity
<1>7. \A k, p : SlotAt(k, p)' = SlotAt(k, p)
  BY <1>6 DEF SlotAt
<1>8. \A j : Entry(j)' = Entry(j)
  BY <1>1 DEF Entry
<1> HIDE DEF at, n
<1>9. slots'[at] = Entry(i) /\ \A s \in DOMAIN slots : s # at => slots'[s] = slots[s]
  BY <1>1, <1>5
<1>10. Entry(i) # Absent /\ \A j \in 1..filled : Entry(j) # Absent /\ Entry(j) # Entry(i)
  <2>1. Entry(i) # Absent /\ Entry(i).value = i
    BY <1>2, EntryFacts
  <2>2. ASSUME NEW j \in 1..filled PROVE Entry(j) # Absent /\ Entry(j) # Entry(i)
    <3>1. j \in 1..Len(names) /\ j # i
      BY <1>1, <1>2
    <3> HIDE DEF i
    <3> QED BY <1>2, <2>1, <3>1, EntryFacts
  <2> QED BY <2>1, <2>2
<1>11. \A s \in DOMAIN slots : slots[s] = Absent \/ \E j \in 1..filled : slots[s] = Entry(j)
  BY <1>2 DEF Indexed
<1>12. 1..i = (1..filled) \cup {i} /\ i - 1 = filled /\ i \in 0..Len(names)
  BY <1>2
<1> HIDE DEF i
<1>13. \A s \in DOMAIN slots' : slots'[s] = Absent \/ \E j \in 1..i : slots'[s] = Entry(j)
  BY <1>6, <1>9, <1>11, <1>12
<1>14. ASSUME NEW s \in DOMAIN slots', NEW t \in DOMAIN slots',
              slots'[s] = slots'[t], slots'[s] # Absent
       PROVE  s = t
  <2>1. \A u \in DOMAIN slots : slots[u] # Entry(i)
    BY <1>10, <1>11
  <2>2. \A u, v \in DOMAIN slots : slots[u] = slots[v] /\ slots[u] # Absent => u = v
    BY <1>2 DEF Indexed
  <2> QED BY <1>6, <1>9, <1>14, <2>1, <2>2
<1>15. ASSUME NEW j \in 1..filled
       PROVE  \E p \in 0..(j - 1) : Reaches(j, p)'
  <2>1. PICK p \in 0..(j - 1) : Reaches(j, p)
    BY <1>2 DEF Indexed
  <2>2. /\ names[j] \in Names /\ j \in Nat /\ p \in Nat
        /\ \A q \in Nat : SlotAt(names[j], q) \in DOMAIN slots
    <3>1. names[j] \in Names /\ j \in Nat /\ p \in Nat
      BY <1>1, <1>2
    <3> QED BY <1>2, <3>1, ProbesDiffer
  <2>3. \A q \in Nat, l \in 1..filled :
           slots[SlotAt(names[j], q)] = Entry(l) => slots'[SlotAt(names[j], q)] = Entry(l)
    BY <1>4, <1>9, <1>10, <2>2
  <2>4. slots'[SlotAt(names[j], p)] = Entry(j)
    BY <2>1, <2>2, <2>3 DEF Reaches
  <2>5. ASSUME NEW q \in 0..(p - 1)
        PROVE  \E l \in 1..(j - 1) : slots'[SlotAt(names[j], q)] = Entry(l)
    <3>1. PICK l \in 1..(j - 1) : slots[SlotAt(names[j], q)] = Entry(l)
      BY <2>1 DEF Reaches
    <3>2. q \in Nat /\ l \in 1..filled
      BY <1>2, <2>2
    <3> QED BY <2>3, <3>1, <3>2
  <2> QED BY <1>1, <1>7, <1>8, <2>4, <2>5 DEF Reaches
<1>16. slots'[SlotAt(n, m)] = Entry(i)
  BY <1>9 DEF at
<1>17. ASSUME NEW q \in 0..(m - 1)
       PROVE  \E l \in 1..(i - 1) : slots'[SlotAt(n, q)] = Entry(l)
  <2>1. PICK l \in 1..filled : slots[SlotAt(n, q)] = Entry(l)
    BY <1>3
  <2>2. q \in Nat
    BY <1>4
  <2>3. SlotAt(n, q) \in DOMAIN slots
    BY <1>2, <2>2, ProbesDiffer
  <2>4. SlotAt(n, q) # at
    BY <1>4, <1>10, <2>1
  <2> QED BY <1>9, <1>12, <2>1, <2>3, <2>4
<1>18. ASSUME NEW j \in 1..i
       PROVE  \E p \in 0..(j - 1) : Reaches(j, p)'
  <2>1. CASE j \in 1..filled
    BY <1>15, <2>1
  <2>2. CASE j = i
    <3>1. PICK p \in 0..(j - 1) : p = m
      BY <1>4, <1>12, <2>2
    <3> QED BY <1>1, <1>7, <1>8, <1>16, <1>17, <2>2, <3>1 DEF Reaches, n
  <2> QED BY <1>12, <2>1, <2>2
<1> QED BY <1>1, <1>2, <1>6, <1>8, <1>12, <1>13, <1>14, <1>18 DEF Indexed

\* find stops at the entry of the first occurrence, and nowhere for a name that
\* is not there.
LEMMA IndexFinds == ASSUME Indexed PROVE FindIsIndex
<1> SUFFICES ASSUME NEW n \in Names
             PROVE  LET at == {i \in 1..filled : names[i] = n}
                    IN  Find(n) = IF at = {} THEN Absent ELSE Min(at)
  BY DEF FindIsIndex
<1> DEFINE at == {i \in 1..filled : names[i] = n}
           bound == IF Len(names) < MaxProbe THEN MaxProbe ELSE Len(names)
           stops == {p \in 0..(bound - 1) :
                        \/ slots[SlotAt(n, p)] = Absent
                        \/ Matches(slots[SlotAt(n, p)], n)}
           slot == slots[SlotAt(n, Min(stops))]
<1>1. Find(n) = IF Len(names) = 0 \/ stops = {} THEN Absent
                ELSE IF slot = Absent THEN Absent ELSE slot.value
  BY DEF Find
<1>2. CASE names = <<>>
  <2>1. Len(names) = 0 /\ 1..filled = {}
    BY <1>2 DEF Indexed
  <2> QED BY <1>1, <2>1
<1>3. CASE names # <<>>
  <2>1. /\ names \in Seq(Names) /\ Len(names) \in Nat /\ Len(names) # 0 /\ filled \in 0..Len(names)
        /\ Capacity \in Nat /\ Capacity >= 16 /\ Capacity >= 2 * Len(names)
        /\ DOMAIN slots = 0..(Capacity - 1)
        /\ \A s \in DOMAIN slots : slots[s] = Absent \/ \E i \in 1..filled : slots[s] = Entry(i)
    BY <1>3 DEF Indexed
  <2>2. bound \in Nat /\ bound >= Len(names)
    BY <2>1 DEF MaxProbe
  <2>3. stops \subseteq Nat
    BY <2>2
  <2>4. stops # {} => Min(stops) \in stops /\ \A p \in stops : Min(stops) <= p
    <3> HIDE DEF stops
    <3> QED BY <2>3, MinFact
  <2> HIDE DEF bound
  <2>5. \A p \in Nat : SlotAt(n, p) \in DOMAIN slots
    BY <2>1, ProbesDiffer
  <2>6. \A i \in 1..filled : Entry(i) # Absent /\ (Matches(Entry(i), n) <=> names[i] = n)
    <3>1. \A i \in 1..filled : i \in 1..Len(names)
      BY <2>1
    <3> QED BY <2>1, <3>1, EntryFacts DEF Matches
  <2>7. CASE at = {}
    <3> SUFFICES ASSUME stops # {}, slot # Absent PROVE FALSE
      BY <1>1, <2>7
    <3>1. Matches(slot, n) /\ Min(stops) \in Nat
      BY <2>3, <2>4
    <3>2. PICK i \in 1..filled : slot = Entry(i)
      BY <2>1, <2>5, <3>1
    <3> HIDE DEF slot
    <3> QED BY <2>6, <2>7, <3>1, <3>2
  <2>8. CASE at # {}
    <3> DEFINE i == Min(at)
    <3>1. i \in at /\ \A j \in at : i <= j
      <4>1. at \subseteq Nat
        BY <2>1
      <4> HIDE DEF at
      <4> QED BY <2>8, <4>1, MinFact
    <3> HIDE DEF i
    <3>2. PICK p \in 0..(i - 1) : Reaches(i, p)
      BY <1>3, <3>1 DEF Indexed
    <3>3. i \in 1..filled /\ names[i] = n /\ i \in Nat /\ p \in Nat /\ p \in 0..(bound - 1)
      BY <2>1, <2>2, <3>1
    <3>4. slots[SlotAt(n, p)] = Entry(i)
      BY <3>2, <3>3 DEF Reaches
    <3>5. p \in stops
      BY <2>6, <3>3, <3>4
    <3>6. ASSUME NEW q \in stops, q < p PROVE FALSE
      <4>1. q \in 0..(p - 1)
        BY <2>2, <3>3, <3>6
      <4>2. PICK j \in 1..(i - 1) : slots[SlotAt(n, q)] = Entry(j)
        BY <3>2, <3>3, <4>1 DEF Reaches
      <4>3. j \in 1..filled /\ ~(i <= j)
        BY <2>1, <3>3
      <4>4. names[j] = n
        BY <2>6, <4>2, <4>3
      <4> QED BY <3>1, <4>3, <4>4
    <3>7. Min(stops) = p
      <4>1. Min(stops) \in stops /\ Min(stops) <= p /\ Min(stops) \in Nat
        BY <2>3, <2>4, <3>5
      <4> HIDE DEF stops
      <4> QED BY <3>3, <3>6, <4>1
    <3>8. Entry(i).value = i
      <4>1. i \in 1..Len(names)
        BY <2>1, <3>3
      <4> QED BY <2>1, <4>1, EntryFacts
    <3>9. slot = Entry(i)
      BY <3>4, <3>7
    <3> HIDE DEF slot, stops, at
    <3>10. Find(n) = i
      BY <1>1, <2>1, <2>6, <3>3, <3>5, <3>8, <3>9
    <3> QED BY <2>8, <3>10 DEF i, at
  <2> QED BY <2>7, <2>8
<1> QED BY <1>2, <1>3

-----------------------------------------------------------------------------
(* What reads return *)

\* A reply that says nothing of any cell.
Silent(r) ==
    \/ r.op \notin {"get", "get_many", "scan"}
    \/ r.op # "get_many" /\ r.ok = FALSE

LEMMA SilentReads == ASSUME Silent(reply') PROVE ReadsAcked'
BY DEF Silent, ReadsAcked

\* Only the end of a get, a get_many or a scan says something.
LEMMA Replies ==
    ASSUME NEW th
    PROVE  /\ reply' = NoReply => Silent(reply')
           /\ \A c, W : Continue(th, c, W) => Silent(reply')
           /\ \A ok, W, settled :
                 Return(th, ok, W, settled) /\ call[th].op \notin {"get", "get_many", "scan"}
                    => Silent(reply')
           /\ \A W, settled :
                 Return(th, FALSE, W, settled) /\ call[th].op # "get_many" => Silent(reply')
           /\ Refuse(th) /\ call[th].op # "get_many" => Silent(reply')
<1>1. reply' = NoReply => Silent(reply')
  BY DEF NoReply, Silent
<1>2. \A c, W : Continue(th, c, W) => Silent(reply')
  BY <1>1 DEF Continue
<1>3. ASSUME NEW ok, NEW W, NEW settled, Return(th, ok, W, settled), ok = FALSE,
             call[th].op # "get_many"
      PROVE  Silent(reply')
  BY <1>1, <1>3 DEF Return, Silent
<1>4. ASSUME NEW ok, NEW W, NEW settled, Return(th, ok, W, settled),
             call[th].op \notin {"get", "get_many", "scan"}
      PROVE  Silent(reply')
  BY <1>1, <1>4 DEF Return, Silent
<1> QED BY <1>1, <1>2, <1>3, <1>4 DEF Refuse

\* What the process reads of a cell is what was acknowledged, if anything was.
LEMMA Reads ==
    ASSUME IInv, NEW x \in Cells
    PROVE  Agrees(x, mem[x])
BY DEF IInv, Promised, Agrees

\* A get of one step.
LEMMA GetReads ==
    ASSUME IInv, NEW c \in Cells, NEW v, UNCHANGED kind,
           v = mem[c] \/ (kind = "qpdf" /\ mem[c] = <<>> /\ v = None),
           Answer("get", Only(c, v))
    PROVE  ReadsAcked'
<1> DEFINE r == [op |-> "get", ok |-> TRUE, got |-> Only(c, v)]
<1>1. reply' = r /\ must' = must
  BY DEF Answer
<1>2. r.op = "get" /\ r.got = Only(c, v)
  OBVIOUS
<1> HIDE DEF r
<1>3. DOMAIN r.got = {c} /\ r.got[c] = v
  BY <1>2, OnlyFacts
<1>4. must[c] # Unknown => mem[c] = must[c]
  BY DEF IInv, Promised
<1>5. Agrees(c, v)' \/ (kind' = "qpdf" /\ must'[c] = <<>> /\ v = None)
  BY <1>1, <1>4 DEF Agrees
<1>6. \A x \in DOMAIN r.got :
         Agrees(x, r.got[x])' \/ (kind' \in {"qpdf", "s3"} /\ must'[x] = <<>> /\ r.got[x] = None)
  BY <1>3, <1>5, <1>1
<1> QED BY <1>1, <1>2, <1>6 DEF ReadsAcked

\* A get_many: the value of every key, but what SQLite gives for a repeated one.
LEMMA ManyReads ==
    ASSUME IInv, NEW t \in Tables, NEW ks \in Seq(Keys), UNCHANGED kind,
           NEW got, Answer("get_many", got), DOMAIN got = DOMAIN ks,
           \A i \in DOMAIN ks :
              /\ got[i][1] = <<t, ks[i]>>
              /\ \/ got[i][2] = mem[<<t, ks[i]>>]
                 \/ kind = "sqlite" /\ \E j \in 1..(i - 1) : ks[j] = ks[i]
    PROVE  ReadsAcked'
<1> DEFINE r == [op |-> "get_many", ok |-> TRUE, got |-> got]
<1>1. reply' = r /\ must' = must
  BY DEF Answer
<1>2. r.op = "get_many" /\ r.got = got
  OBVIOUS
<1> HIDE DEF r
<1>3. ASSUME NEW i \in DOMAIN ks
      PROVE  \/ Agrees(got[i][1], got[i][2])'
             \/ kind' = "sqlite" /\ Repeated(got, i)'
  <2>1. <<t, ks[i]>> \in Cells
    BY DEF Cells
  <2>2. got[i][1] = <<t, ks[i]>>
    OBVIOUS
  <2>3. CASE got[i][2] = mem[<<t, ks[i]>>]
    BY <1>1, <2>1, <2>2, <2>3, Reads DEF Agrees
  <2>4. CASE kind = "sqlite" /\ \E j \in 1..(i - 1) : ks[j] = ks[i]
    <3>1. PICK j \in 1..(i - 1) : ks[j] = ks[i]
      BY <2>4
    <3>2. j \in DOMAIN ks
      BY <3>1
    <3>3. got[j][1] = <<t, ks[j]>>
      BY <3>2
    <3>4. got[j][1] = got[i][1]
      BY <2>2, <3>1, <3>3
    <3> QED BY <2>4, <3>1, <3>4 DEF Repeated
  <2> QED BY <2>3, <2>4
<1> QED BY <1>1, <1>2, <1>3 DEF ReadsAcked

\* The end of a scan: it is past all of its rows.
LEMMA ScanReads ==
    ASSUME IInv, NEW th \in Threads, ScanReturn(th), UNCHANGED kind
    PROVE  ReadsAcked'
<1>1. PICK c : c = call[th] /\ IsScan(c) /\ ScanOK(kind, c, mem, faults)
  BY CallShape DEF ScanReturn
<1> DEFINE r == [op |-> "scan", ok |-> TRUE, call |-> c]
<1>2. reply' = r
  BY <1>1 DEF ScanReturn, Return, IsIdle
<1>3. must' = must
  <2>1. \A x \in Cells : must'[x] = must[x]
    BY DEF ScanReturn, Return, Promise
  <2>2. must' = [x \in Cells |-> must'[x]]
    BY DEF ScanReturn, Return, Promise
  <2>3. must = [x \in Cells |-> must[x]]
    BY DEF IInv, Shape
  <2> QED BY <2>1, <2>2, <2>3
<1>4. r.op = "scan" /\ r.call = c
  OBVIOUS
<1> HIDE DEF r
<1>5. faults' = faults /\ c.tables = <<>>
  BY <1>1 DEF ScanReturn
<1>6. \A x : Passed(c, x)
  <2>1. Range(c.tables) = {}
    BY <1>5 DEF Range
  <2> QED BY <2>1 DEF Passed
<1>7. \A x : /\ ScanAt(kind, c, x) = <<x[1], ScanKey(c.prefix, x[2])>>
             /\ ScanKey(c.prefix, x[2])' = ScanKey(c.prefix, x[2])
  BY DEF ScanAt, ScanKey
<1>8. DOMAIN c.got \subseteq {<<x[1], ScanKey(c.prefix, x[2])>> : x \in ScanRows(c)}
  BY <1>1, <1>7 DEF ScanOK
<1>9. ASSUME NEW x \in ScanRows(c) \cap c.alone
      PROVE  LET at == <<x[1], ScanKey(c.prefix, x[2])>>
             IN  IF at \in DOMAIN c.got THEN Agrees(x, c.got[at])
                 ELSE Agrees(x, None) \/ CutShort(c.prefix)
  <2>1. RowOK(kind, c, mem, faults, x)
    BY <1>1 DEF ScanOK
  <2>2. Agrees(x, mem[x])
    BY Reads DEF ScanRows
  <2> DEFINE at == <<x[1], ScanKey(c.prefix, x[2])>>
  <2>3. at = ScanAt(kind, c, x)
    BY <1>7
  <2> HIDE DEF at
  <2>4. CASE at \in DOMAIN c.got
    BY <2>1, <2>2, <2>3, <2>4 DEF RowOK, at
  <2>5. CASE at \notin DOMAIN c.got
    BY <1>6, <2>1, <2>2, <2>3, <2>5 DEF RowOK, CutShort, MayEndEarly, at
  <2> QED BY <2>4, <2>5 DEF at
<1>10. ASSUME NEW x, NEW v PROVE Agrees(x, v)' <=> Agrees(x, v)
  BY <1>3 DEF Agrees
<1>11. CutShort(c.prefix)' <=> CutShort(c.prefix)
  BY <1>5 DEF CutShort
<1>12. ScanRows(c) = {x \in Cells : x[1] \in c.all /\ IsPrefix(c.prefix, x[2])}
  BY DEF ScanRows
<1> HIDE DEF r
<1> QED BY <1>2, <1>4, <1>7, <1>8, <1>9, <1>10, <1>11, <1>12 DEF ReadsAcked

\* The end of a get of S3, in as many requests as the value has chunks: nothing for an
\* object that is gone, and for one that is empty.
LEMMA ChunksReads ==
    ASSUME IInv, NEW th \in Threads, kind = "s3", call[th].op = "get", S3GetChunk(th),
           UNCHANGED kind
    PROVE  ReadsAcked'
<1>1. PICK c : c = call[th] /\ IsGet(c) /\ GetOK(c, disk)
  BY CallShape
<1> DEFINE v == disk[c.cell]
           w == IF c.got = <<>> THEN None ELSE c.got
           r == [op |-> "get", ok |-> TRUE, got |-> [x \in c.alone |-> w]]
<1>2. \/ \E b : Continue(th, b, {})
      \/ Return(th, FALSE, {}, <<>>)
      \/ reply' = r /\ UNCHANGED must /\ (v # None => Len(c.got) + 1 > Len(v))
  BY <1>1 DEF S3GetChunk
<1>3. CASE (\E b : Continue(th, b, {})) \/ Return(th, FALSE, {}, <<>>)
  BY <1>3, Replies, SilentReads
<1>4. CASE reply' = r /\ UNCHANGED must /\ (v # None => Len(c.got) + 1 > Len(v))
  <2>1. r.op = "get" /\ r.got = [x \in c.alone |-> w]
    OBVIOUS
  <2> HIDE DEF r
  <2>2. mem = disk /\ c.alone \subseteq {c.cell} /\ c.cell \in Cells
    BY <1>1, Direct DEF GetOK
  <2>3. ASSUME c.cell \in c.alone
        PROVE  Agrees(c.cell, w) \/ (must[c.cell] = <<>> /\ w = None)
    <3>1. Agrees(c.cell, v)
      BY <2>2, Reads
    <3>2. CASE v = None
      BY <1>1, <2>3, <3>1, <3>2 DEF GetOK
    <3>3. CASE v # None
      <4>1. v \in Values
        BY <2>2, <3>3 DEF IInv, Shape, Contents, Maybe
      <4>2. PICK S : v \in Seq(S)
        BY <4>1, BackendAssumption
      <4>3. CASE c.got = <<>>
        <5>1. Len(c.got) = 0
          BY <4>3
        <5>2. v = <<>>
          BY <1>4, <3>3, <4>2, <5>1
        <5> QED BY <3>1, <4>3, <5>2 DEF Agrees
      <4>4. CASE c.got # <<>>
        <5>1. Len(c.got) <= Len(v) /\ c.got = SubSeq(v, 1, Len(c.got))
          BY <1>1, <2>3, <4>4 DEF GetOK
        <5>2. Len(c.got) \in Nat
          BY <4>2, <5>1, PrefixLength
        <5>3. Len(c.got) = Len(v)
          BY <1>4, <3>3, <4>2, <5>1, <5>2
        <5>4. SubSeq(v, 1, Len(v)) = v
          BY <4>2
        <5>5. c.got = v
          BY <5>1, <5>3, <5>4
        <5> QED BY <3>1, <4>4, <5>5
      <4> QED BY <4>3, <4>4
    <3> QED BY <3>2, <3>3
  <2> HIDE DEF w
  <2>4. \A x \in DOMAIN r.got :
           Agrees(x, r.got[x])' \/ (kind' \in {"qpdf", "s3"} /\ must'[x] = <<>> /\ r.got[x] = None)
    BY <1>4, <2>1, <2>2, <2>3 DEF Agrees
  <2> QED BY <1>4, <2>1, <2>4 DEF ReadsAcked
<1> QED BY <1>2, <1>3, <1>4

LEMMA BeginReads ==
    ASSUME IInv, NEW th \in Threads, Begin(th), UNCHANGED kind
    PROVE  ReadsAcked'
<1>1. call[th].op = "idle"
  BY DEF Begin, Put, StreamPut, Compact, Get, GetMany, Scan, Batch, IsIdle
<1>2. /\ \A ok, W, settled : Return(th, ok, W, settled) => Silent(reply')
      /\ \A c, W : Continue(th, c, W) => Silent(reply')
      /\ Refuse(th) => Silent(reply')
  BY <1>1, Replies
<1>3. \A c, v : Put(th, c, v) => Silent(reply')
  BY <1>2 DEF Put, RocksPut, SQLitePut, QPDFPut, S3Put
<1>4. \A c, v : StreamPut(th, c, v) => Silent(reply')
  BY <1>2, <1>3 DEF StreamPut, S3StreamPut
<1>5. Compact(th) => Silent(reply')
  BY <1>2 DEF Compact, QPDFCompact
<1>6. ASSUME NEW c \in GetArgs, Get(th, c) PROVE ReadsAcked'
  <2>1. c \in Cells
    BY StorageAssumption
  <2>2. CASE \/ kind = "rocksdb" /\ RocksGet(th, c)
             \/ kind = "sqlite" /\ SQLiteGet(th, c)
    BY <1>2, <2>1, <2>2, GetReads, SilentReads DEF RocksGet, SQLiteGet
  <2>3. CASE kind = "qpdf" /\ QPDFGet(c)
    BY <2>1, <2>3, GetReads DEF QPDFGet
  <2>4. CASE kind = "s3" /\ S3Get(th, c)
    BY <1>2, <2>4, SilentReads DEF S3Get
  <2> QED BY <1>6, <2>2, <2>3, <2>4 DEF Get
<1>7. ASSUME NEW a \in ManyArgs, GetMany(th, a[1], a[2]) PROVE ReadsAcked'
  <2>1. PICK t, ks : t = a[1] /\ ks = a[2] /\ t \in Tables /\ ks \in Seq(Keys)
    BY StorageAssumption
  <2>2. CASE Refuse(th)
    BY <1>2, <2>2, SilentReads
  <2>3. CASE Answer("get_many", [i \in DOMAIN ks |-> <<<<t, ks[i]>>, mem[<<t, ks[i]>>]>>])
    <3> DEFINE got == [i \in DOMAIN ks |-> <<<<t, ks[i]>>, mem[<<t, ks[i]>>]>>]
    <3>1. /\ DOMAIN got = DOMAIN ks
          /\ \A i \in DOMAIN ks : got[i][1] = <<t, ks[i]>> /\ got[i][2] = mem[<<t, ks[i]>>]
      OBVIOUS
    <3>2. Answer("get_many", got)
      BY <2>3
    <3> HIDE DEF got
    <3> QED BY <2>1, <3>1, <3>2, ManyReads
  <2>4. CASE /\ kind = "sqlite"
             /\ Answer("get_many",
                  [i \in DOMAIN ks |-> <<<<t, ks[i]>>,
                     IF mem[<<t, ks[i]>>] # None /\ (\E j \in 1..(i - 1) : ks[j] = ks[i]) THEN <<>>
                     ELSE mem[<<t, ks[i]>>]>>])
    <3> DEFINE got == [i \in DOMAIN ks |-> <<<<t, ks[i]>>,
                         IF mem[<<t, ks[i]>>] # None /\ (\E j \in 1..(i - 1) : ks[j] = ks[i]) THEN <<>>
                         ELSE mem[<<t, ks[i]>>]>>]
    <3>1. /\ DOMAIN got = DOMAIN ks
          /\ \A i \in DOMAIN ks : /\ got[i][1] = <<t, ks[i]>>
                                  /\ \/ got[i][2] = mem[<<t, ks[i]>>]
                                     \/ \E j \in 1..(i - 1) : ks[j] = ks[i]
      OBVIOUS
    <3>2. Answer("get_many", got)
      BY <2>4
    <3> HIDE DEF got
    <3> QED BY <2>1, <2>4, <3>1, <3>2, ManyReads
  <2> QED BY <1>7, <2>1, <2>2, <2>3, <2>4 DEF GetMany, RocksGetMany, SQLiteGetMany
<1>8. \A ts, prefix : Scan(th, ts, prefix) => Silent(reply')
  BY <1>2 DEF Scan
<1>9. \A ops : Batch(th, ops) => Silent(reply')
  BY <1>2 DEF Batch
<1> QED BY <1>3, <1>4, <1>5, <1>6, <1>7, <1>8, <1>9, SilentReads DEF Begin

LEMMA ResumeReads ==
    ASSUME IInv, NEW th \in Threads, Resume(th), UNCHANGED kind
    PROVE  ReadsAcked'
<1>1. call[th].op # "get_many"
  BY CallShape
<1>2. /\ \A c, W : Continue(th, c, W) => Silent(reply')
      /\ \A W, settled : Return(th, FALSE, W, settled) => Silent(reply')
      /\ Refuse(th) => Silent(reply')
      /\ reply' = NoReply => Silent(reply')
      /\ \A ok, W, settled :
            Return(th, ok, W, settled) /\ call[th].op \in {"batch", "stream_put"} => Silent(reply')
  BY <1>1, Replies
<1>3. ScanNext(th) => Silent(reply')
  <2>1. RocksScan(th) \/ QPDFScan(th) => Silent(reply')
    BY <1>2 DEF RocksScan, QPDFScan
  <2>2. SQLiteScanStep(th) => Silent(reply')
    BY <1>2 DEF SQLiteScanStep
  <2>3. S3ScanList(th) \/ S3ScanGet(th) => Silent(reply')
    BY <1>2 DEF S3ScanList, S3ScanGet
  <2> QED BY <2>1, <2>2, <2>3 DEF ScanNext
<1>4. BatchNext(th) => Silent(reply')
  BY <1>2 DEF BatchNext, GroupFailed
<1>5. BatchStep(th) => Silent(reply')
  <2>1. \A W : GroupDone(th, W) \/ GroupFailed(th, W) => Silent(reply')
    BY <1>2 DEF GroupDone, GroupFailed
  <2>2. RocksBatch(th) \/ QPDFBatch(th) => Silent(reply')
    BY <2>1 DEF RocksBatch, QPDFBatch
  <2>3. SQLiteBatch(th) => Silent(reply')
    BY <1>2 DEF SQLiteBatch
  <2>4. SQLiteBatchOp(th) \/ SQLiteRelease(th) => Silent(reply')
    BY <1>2, <2>1 DEF SQLiteBatchOp, SQLiteRelease
  <2>5. SQLiteRollback(th) \/ SQLiteCleanup(th) => Silent(reply')
    BY <1>2, <2>1 DEF SQLiteRollback, SQLiteCleanup
  <2>6. S3Batch(th) \/ S3BatchEnd(th) => Silent(reply')
    BY <1>2, <2>1 DEF S3Batch, S3BatchEnd
  <2>7. S3BatchPut(th) \/ S3BatchDelete(th) => Silent(reply')
    BY <1>2, <2>1 DEF S3BatchPut, S3BatchDelete
  <2> QED BY <2>2, <2>3, <2>4, <2>5, <2>6, <2>7 DEF BatchStep
<1>6. CASE S3Step(th)
  <2>1. kind = "s3"
    BY <1>6, CallShape DEF S3Step
  <2>2. CASE call[th].op = "get" /\ S3GetChunk(th)
    BY <2>1, <2>2, ChunksReads
  <2>3. CASE call[th].op = "stream_put" /\ (S3UploadPart(th) \/ S3Complete(th))
    BY <1>2, <2>3, SilentReads DEF S3UploadPart, S3Complete
  <2> QED BY <1>6, <2>2, <2>3 DEF S3Step
<1> QED BY <1>3, <1>4, <1>5, <1>6, ScanReads, SilentReads DEF Resume

-----------------------------------------------------------------------------
(* The life cycle and the theorems *)

\* Every step of a thread that fails is counted.
LEMMA BeginFaults == ASSUME NEW th, Begin(th) PROVE Fault \/ NoFault
<1>1. \A c, v : Put(th, c, v) => Fault \/ NoFault
  <2>1. \A c, v : RocksPut(th, c, v) => Fault \/ NoFault
    BY DEF RocksPut, Refuse
  <2>2. \A c, v : SQLitePut(th, c, v) => Fault \/ NoFault
    BY DEF SQLitePut, Refuse
  <2>3. \A c, v : QPDFPut(th, c, v) => Fault \/ NoFault
    BY DEF QPDFPut, QPDFFlush
  <2>4. \A c, v : S3Put(th, c, v) => Fault \/ NoFault
    BY DEF S3Put, S3Lost
  <2> QED BY <2>1, <2>2, <2>3, <2>4 DEF Put
<1>2. \A c, v : StreamPut(th, c, v) => Fault \/ NoFault
  BY <1>1 DEF StreamPut, S3StreamPut
<1>3. Compact(th) => Fault \/ NoFault
  BY DEF Compact, QPDFCompact, QPDFFlush
<1>4. \A op, got : Answer(op, got) => Fault \/ NoFault
  BY DEF Answer, NoFault
<1>5. Refuse(th) => Fault \/ NoFault
  BY DEF Refuse
<1>6. \A c : Get(th, c) => Fault \/ NoFault
  BY <1>4, <1>5 DEF Get, RocksGet, SQLiteGet, QPDFGet, S3Get
<1>7. \A t, ks : GetMany(th, t, ks) => Fault \/ NoFault
  BY <1>4, <1>5 DEF GetMany, RocksGetMany, SQLiteGetMany
<1>8. \A ts, prefix : Scan(th, ts, prefix) => NoFault
  BY DEF Scan, NoFault
<1>9. \A ops : Batch(th, ops) => NoFault
  BY DEF Batch, NoFault
<1> QED BY <1>1, <1>2, <1>3, <1>6, <1>7, <1>8, <1>9 DEF Begin

LEMMA ResumeFaults == ASSUME NEW th, Resume(th) PROVE Fault \/ NoFault
<1>1. ScanNext(th) => Fault \/ NoFault
  <2>1. Refuse(th) => Fault
    BY DEF Refuse
  <2>2. QPDFScan(th) => NoFault
    BY DEF QPDFScan, NoFault
  <2>3. RocksScan(th) => Fault \/ NoFault
    BY <2>1 DEF RocksScan
  <2>4. SQLiteScanStep(th) => Fault \/ NoFault
    BY <2>1 DEF SQLiteScanStep
  <2>5. S3ScanList(th) \/ S3ScanGet(th) => Fault \/ NoFault
    BY DEF S3ScanList, S3ScanGet
  <2> QED BY <2>2, <2>3, <2>4, <2>5 DEF ScanNext
<1>2. ScanReturn(th) \/ BatchNext(th) => NoFault
  BY DEF ScanReturn, BatchNext, NoFault
<1>3. BatchStep(th) => Fault \/ NoFault
  <2>1. RocksBatch(th) => Fault \/ NoFault
    BY DEF RocksBatch
  <2>2. QPDFBatch(th) => Fault \/ NoFault
    BY DEF QPDFBatch, QPDFFlush
  <2>3. SQLiteBatch(th) => Fault \/ NoFault
    BY DEF SQLiteBatch, Refuse, NoFault
  <2>4. SQLiteBatchOp(th) \/ SQLiteRelease(th) => Fault \/ NoFault
    BY DEF SQLiteBatchOp, SQLiteRelease
  <2>5. SQLiteRollback(th) \/ SQLiteCleanup(th) => Fault \/ NoFault
    BY DEF SQLiteRollback, SQLiteCleanup
  <2>6. S3Batch(th) \/ S3BatchEnd(th) => Fault \/ NoFault
    BY DEF S3Batch, S3BatchEnd
  <2>7. S3BatchPut(th) \/ S3BatchDelete(th) => Fault \/ NoFault
    BY DEF S3BatchPut, S3BatchDelete, S3Lost
  <2> QED BY <2>1, <2>2, <2>3, <2>4, <2>5, <2>6, <2>7 DEF BatchStep
<1>4. S3Step(th) => Fault \/ NoFault
  BY DEF S3Step, S3GetChunk, S3UploadPart, S3Complete, S3Lost
<1> QED BY <1>1, <1>2, <1>3, <1>4 DEF Resume

LEMMA FaultsStay == ASSUME IInv, Fault \/ NoFault PROVE faults > 0 => faults' > 0
BY BackendAssumption DEF IInv, Shape, Fault, NoFault

LEMMA BeginKeeps ==
    ASSUME IInv, NEW th \in Threads, Begin(th), UNCHANGED <<kind, opened>>,
           calls < MaxCalls, calls' = calls + 1
    PROVE  IInv'
<1>1. Running
  <2>1. opened
    BY DEF Begin, Put, StreamPut, Compact, Get, GetMany, Scan, Batch, Table
  <2>2. calls' \in 0..MaxCalls
    BY StorageAssumption DEF IInv, Shape
  <2> QED BY <2>1, <2>2, BeginFaults, FaultsStay DEF Running
<1>2. ASSUME NEW a \in WriteArgs, Put(th, a[1], a[2]) PROVE IInv'
  <2>1. a[1] \in Cells /\ a[2] \in Maybe
    BY StorageAssumption
  <2> QED BY <1>1, <1>2, <2>1, PutKeeps
<1>3. ASSUME NEW a \in StreamArgs, StreamPut(th, a[1], a[2]) PROVE IInv'
  <2>1. a[1] \in Cells /\ a[2] \in Values
    BY StorageAssumption
  <2> QED BY <1>1, <1>3, <2>1, StreamPutKeeps
<1>4. ASSUME Compact(th) PROVE IInv'
  BY <1>1, <1>4, CompactKeeps
<1>5. ASSUME NEW c \in GetArgs, Get(th, c) PROVE IInv'
  <2>1. c \in Cells
    BY StorageAssumption
  <2> QED BY <1>1, <1>5, <2>1, GetKeeps
<1>6. ASSUME NEW a \in ManyArgs, GetMany(th, a[1], a[2]) PROVE IInv'
  BY <1>1, <1>6, GetManyKeeps
<1>7. ASSUME NEW a \in ScanArgs, Scan(th, a[1], a[2]) PROVE IInv'
  <2>1. a[1] \in Seq(Tables) /\ a[2] \in Seq(Bytes)
    BY StorageAssumption DEF Bytes
  <2> QED BY <1>1, <1>7, <2>1, ScanKeeps
<1>8. ASSUME NEW ops \in BatchArgs, Batch(th, ops) PROVE IInv'
  <2>1. ops \in Seq(Ops)
    BY StorageAssumption
  <2> QED BY <1>1, <1>8, <2>1, BatchKeeps
<1> QED BY <1>2, <1>3, <1>4, <1>5, <1>6, <1>7, <1>8 DEF Begin

\* Only a call in flight resumes, and there is none in a closed store.
LEMMA ResumeKeeps ==
    ASSUME IInv, NEW th \in Threads, Resume(th), UNCHANGED <<kind, opened, calls>>
    PROVE  IInv'
<1>1. Running
  <2>1. call[th].op # "idle"
    BY DEF Resume, ScanNext, ScanReturn, BatchNext, BatchStep, S3Step
  <2>2. opened
    BY <2>1 DEF IInv, Modes, Idle
  <2> QED BY <2>2, ResumeFaults, FaultsStay DEF Running, IInv, Shape
<1>2. CASE ScanNext(th)
  BY <1>1, <1>2, ScanNextKeeps
<1>3. CASE ScanReturn(th)
  BY <1>1, <1>3, ScanReturnKeeps
<1>4. CASE BatchNext(th)
  BY <1>1, <1>4, BatchNextKeeps
<1>5. CASE BatchStep(th)
  BY <1>1, <1>5, RocksBatchKeeps, QPDFBatchKeeps, SQLiteBatchKeeps, SQLiteBatchOpKeeps,
     SQLiteReleaseKeeps, SQLiteRollbackKeeps, SQLiteCleanupKeeps, S3BatchKeeps,
     S3BatchPutKeeps, S3BatchDeleteKeeps, S3BatchEndKeeps DEF BatchStep
<1>6. CASE S3Step(th)
  <2>1. kind = "s3"
    BY <1>6, CallShape DEF S3Step
  <2> QED BY <1>1, <1>6, <2>1, GetChunkKeeps, UploadKeeps, CompleteKeeps DEF S3Step
<1> QED BY <1>2, <1>3, <1>4, <1>5, <1>6 DEF Resume

LEMMA NoSavepoints == <<>> \in Seq([id : Threads, saw : Contents])
<1>1. \A S : <<>> \in Seq(S)
  OBVIOUS
<1> QED BY <1>1

\* An idle call is the empty record.
LEMMA AllIdle ==
    ASSUME IInv, \A th \in Threads : IsIdle(th)
    PROVE  \A th \in Threads : call[th] = Idle
BY CallShape DEF IsIdle

LEMMA OpenKeeps == ASSUME IInv, Open, UNCHANGED calls PROVE IInv'
<1>1. mem = disk /\ savepoints = <<>> /\ dirty = FALSE
  BY DEF Open, IInv, Shape, Modes
<1>2. /\ UNCHANGED <<kind, call, must, opened>> /\ (Fault \/ NoFault)
      /\ disk' = disk /\ mem' = disk /\ savepoints' = <<>> /\ dirty' = FALSE
  BY <1>1 DEF Open, RocksOpen, SQLiteOpen, QPDFOpen, S3Open, RocksKeep, RocksSet, S3Keep, S3Set
<1>3. faults' \in 0..MaxFaults
  BY <1>2, Faults
<1>4. FailedBatch'
  BY NoBatchFailed DEF Open, NoReply
<1>5. Calls'
  BY <1>2 DEF IInv, Modes, Open, Calls, CallOK
<1> QED BY <1>1, <1>2, <1>3, <1>4, <1>5 DEF IInv, Shape, Modes, Promised

LEMMA BuildIndexKeeps == ASSUME IInv, BuildIndex, UNCHANGED calls PROVE IInv'
<1>1. UNCHANGED backendVars /\ opened' \in BOOLEAN /\ ~opened
  BY DEF BuildIndex
<1>2. /\ kind' = kind /\ disk' = disk /\ mem' = mem /\ savepoints' = savepoints /\ dirty' = dirty
      /\ call' = call /\ reply' = reply /\ must' = must /\ faults' = faults
  BY <1>1 DEF backendVars
<1>3. FailedBatch'
  BY <1>2 DEF IInv, FailedBatch, LeavesSome
<1> QED BY <1>1, <1>2, <1>3 DEF IInv, Shape, Modes, Promised, Calls

LEMMA CloseKeeps == ASSUME IInv, Close, UNCHANGED calls PROVE IInv'
<1>1. \A th \in Threads : call[th] = Idle
  BY AllIdle DEF Close
<1>2. disk' \in {disk, mem} /\ mem' = disk' /\ savepoints' = <<>> /\ dirty' = FALSE
  BY DEF Close, RocksClose, SQLiteClose, QPDFClose, S3Close, RocksKeep, RocksSet, S3Keep, S3Set,
         IInv, Shape, Modes
<1>3. faults' \in 0..MaxFaults
  <2>1. CASE NoFault
    BY <2>1, Faults
  <2>2. CASE QPDFClose
    <3>1. PICK n \in 0..Cardinality(Tables) : faults + n <= MaxFaults /\ faults' = faults + n
      BY <2>2 DEF QPDFClose
    <3>2. n \in Int /\ n >= 0 /\ faults \in Nat /\ MaxFaults \in Nat
      BY <3>1, BackendAssumption DEF IInv, Shape
    <3> QED BY <3>1, <3>2
  <2> QED BY <2>1, <2>2 DEF Close
<1>4. FailedBatch'
  BY NoBatchFailed DEF Close, NoReply
<1>5. UNCHANGED <<kind, call, must>> /\ opened' = FALSE
  BY DEF Close
<1>6. Shape'
  BY <1>2, <1>3, <1>5, NoSavepoints DEF IInv, Shape
<1>7. Modes'
  BY <1>1, <1>2, <1>5 DEF Modes
<1>8. Promised'
  BY <1>2, <1>5 DEF IInv, Promised
<1>9. Calls'
  BY <1>1, <1>5 DEF Calls, CallOK
<1> QED BY <1>4, <1>6, <1>7, <1>8, <1>9 DEF IInv

LEMMA CrashKeeps == ASSUME IInv, Crash, UNCHANGED calls PROVE IInv'
<1>1. faults' \in 0..MaxFaults
  BY Faults DEF Crash
<1>2. FailedBatch'
  BY NoBatchFailed DEF Crash, NoReply
<1>3. /\ disk' = disk /\ mem' = disk /\ savepoints' = <<>> /\ dirty' = FALSE /\ opened' = FALSE
      /\ kind' = kind /\ must' = must /\ call' = [th \in Threads |-> Idle]
  BY DEF Crash
<1>4. Shape'
  BY <1>1, <1>3, NoSavepoints DEF IInv, Shape
<1>5. Modes'
  BY <1>3 DEF Modes
<1>6. Promised'
  BY <1>3 DEF IInv, Promised
<1>7. Calls'
  BY <1>3 DEF Calls, CallOK
<1> QED BY <1>2, <1>4, <1>5, <1>6, <1>7 DEF IInv

LEMMA StutterKeeps == ASSUME IInv, UNCHANGED vars PROVE IInv'
<1>1. /\ kind' = kind /\ disk' = disk /\ mem' = mem /\ savepoints' = savepoints /\ dirty' = dirty
      /\ call' = call /\ reply' = reply /\ must' = must /\ faults' = faults
      /\ opened' = opened /\ calls' = calls
  BY DEF vars, backendVars
<1>2. FailedBatch'
  BY <1>1 DEF IInv, FailedBatch, LeavesSome
<1> QED BY <1>1, <1>2 DEF IInv, Shape, Modes, Promised, Calls

\* Init of Storage satisfies the inductive invariant and every step of Next keeps it:
\* the calls of the four backends, celer::open and close, failures and crashes.
THEOREM Inductive == Spec => []IInv
<1>1. ASSUME Init PROVE IInv
  <2>1. Shape
    <3>1. 0 \in 0..MaxCalls /\ 0 \in 0..MaxFaults
      BY StorageAssumption, BackendAssumption
    <3>2. disk \in Contents
      BY <1>1, StorageAssumption DEF Init, Contents
    <3>3. must \in [Cells -> Maybe \cup {Unknown}]
      BY <1>1, <3>2 DEF Init, Contents
    <3>4. mem = disk /\ DOMAIN call = Threads /\ savepoints = <<>>
      BY <1>1 DEF Init
    <3>5. /\ kind \in Kinds /\ opened \in BOOLEAN /\ calls \in 0..MaxCalls
          /\ dirty \in BOOLEAN /\ faults \in 0..MaxFaults
      BY <1>1, <3>1 DEF Init
    <3> QED BY <3>2, <3>3, <3>4, <3>5, NoSavepoints DEF Shape
  <2>2. Modes /\ Promised
    BY <1>1 DEF Init, Modes, Promised
  <2>3. Calls
    BY <1>1 DEF Init, Calls, CallOK
  <2>4. FailedBatch
    BY <1>1 DEF Init, FailedBatch, NoReply
  <2> QED BY <2>1, <2>2, <2>3, <2>4 DEF IInv
<1>2. ASSUME IInv, [Next]_vars PROVE IInv'
  <2>1. ASSUME NEW th \in Threads, ThreadStep(th) PROVE IInv'
    <3>1. UNCHANGED <<kind, opened>>
      BY <2>1 DEF ThreadStep
    <3>2. CASE calls < MaxCalls /\ calls' = calls + 1 /\ Begin(th)
      BY <1>2, <3>1, <3>2, BeginKeeps
    <3>3. CASE UNCHANGED calls /\ Resume(th)
      BY <1>2, <3>1, <3>3, ResumeKeeps
    <3> QED BY <2>1, <3>2, <3>3 DEF ThreadStep
  <2> QED BY <1>2, <2>1, OpenKeeps, BuildIndexKeeps, CloseKeeps, CrashKeeps, StutterKeeps DEF Next
<1> QED BY <1>1, <1>2, PTL DEF Spec

\* The state of the store and its backend has its shape, and a closed store holds
\* nothing of its own.
THEOREM TypeCorrect == Spec => []TypeOK
<1>1. ASSUME IInv PROVE TypeOK
  <2>1. /\ kind \in Kinds /\ opened \in BOOLEAN /\ calls \in 0..MaxCalls
        /\ dirty \in BOOLEAN /\ DOMAIN disk = Cells /\ DOMAIN mem = Cells
        /\ DOMAIN must = Cells /\ faults \in 0..MaxFaults
    BY <1>1 DEF IInv, Shape, Contents
  <2>2. \A i \in DOMAIN savepoints : savepoints[i].id \in Threads
    <3>1. \A S : \A s \in Seq(S) : \A i \in DOMAIN s : s[i] \in S
      OBVIOUS
    <3>2. \A i \in DOMAIN savepoints : savepoints[i] \in [id : Threads, saw : Contents]
      BY <1>1, <3>1 DEF IInv, Shape
    <3> QED BY <3>2
  <2>3. \A th \in Threads : /\ call[th].op \in {"idle", "batch", "scan", "get", "stream_put"}
                            /\ call[th].alone \subseteq Cells
    BY <1>1, CallShape
  <2>4. /\ kind # "sqlite" => savepoints = <<>>
        /\ kind # "qpdf" => ~dirty
        /\ ~opened => mem = disk /\ savepoints = <<>> /\ ~dirty
    BY <1>1 DEF IInv, Modes
  <2> QED BY <2>1, <2>2, <2>3, <2>4 DEF TypeOK
<1> QED BY <1>1, Inductive, PTL

\* Whatever was acknowledged, by put, del, stream_put or batch, is on disk until the
\* next write to its cell begins: a crash at any point leaves it there.
THEOREM AcknowledgedIsDurable == Spec => []AckedDurable
<1>1. ASSUME IInv PROVE AckedDurable
  BY <1>1 DEF IInv, Promised, AckedDurable
<1> QED BY <1>1, Inductive, PTL

\* RocksDB's WriteBatch and SQLite's savepoint keep a table's ops off the disk until
\* all of them are there.
THEOREM UnfinishedIsHidden == Spec => []BatchHidden
<1>1. ASSUME IInv PROVE BatchHidden
  BY <1>1, CallShape DEF BatchHidden, BatchOK, Untouched
<1> QED BY <1>1, Inductive, PTL

\* A batch that reports an error leaves nothing of the failing table and those after
\* it, but for S3 and a document that was ahead of its file.
THEOREM FailureLeaves == Spec => []FailedBatch
<1>1. ASSUME IInv PROVE FailedBatch
  BY <1>1 DEF IInv
<1> QED BY <1>1, Inductive, PTL

\* No backend ever stores a value that is not a whole value of some call.
THEOREM ValuesAreWhole == Spec => []NoTornValue
<1>1. ASSUME IInv PROVE NoTornValue
  BY <1>1 DEF IInv, Shape, Contents, NoTornValue
<1> QED BY <1>1, Inductive, PTL

\* Every get, get_many and scan returns the last acknowledged write of each cell that
\* nobody wrote while it ran, on each backend, but for the exceptions ReadsAcked names.
THEOREM ReadsReturnAcked == Spec => []ReadsAcked
<1>1. Init => ReadsAcked
  BY DEF Init, NoReply, ReadsAcked
<1>2. ASSUME IInv, ReadsAcked, [Next]_vars PROVE ReadsAcked'
  <2>1. ASSUME UNCHANGED <<kind, must, reply, faults>> PROVE ReadsAcked'
    BY <1>2, <2>1 DEF ReadsAcked, Agrees, Repeated, CutShort, ScanKey
  <2>2. CASE Open \/ Close \/ Crash
    <3>1. reply' = NoReply
      BY <2>2 DEF Open, Close, Crash
    <3> QED BY <3>1, Replies, SilentReads
  <2>3. CASE BuildIndex \/ UNCHANGED vars
    BY <2>1, <2>3 DEF BuildIndex, vars, backendVars
  <2>4. ASSUME NEW th \in Threads, ThreadStep(th) PROVE ReadsAcked'
    BY <1>2, <2>4, BeginReads, ResumeReads DEF ThreadStep
  <2> QED BY <1>2, <2>2, <2>3, <2>4 DEF Next
<1> QED BY <1>1, <1>2, Inductive, PTL DEF Spec

\* The index of the scope is right from the moment celer::open starts it.
LEMMA IndexStays == Spec => []Indexed
<1>1. Init => Indexed
  BY DEF Init, Indexed
<1>2. ASSUME Indexed, [Next]_vars PROVE Indexed'
  <2>1. ASSUME UNCHANGED symVars PROVE Indexed'
    <3>1. names' = names /\ slots' = slots /\ filled' = filled
      BY <2>1 DEF symVars
    <3>2. Capacity' = Capacity /\ \A i : Entry(i)' = Entry(i)
      BY <3>1 DEF Capacity, Entry
    <3>3. \A n, p : SlotAt(n, p)' = SlotAt(n, p)
      BY <3>2 DEF SlotAt
    <3>4. \A i, p : Reaches(i, p)' <=> Reaches(i, p)
      BY <3>1, <3>2, <3>3 DEF Reaches
    <3> QED BY <1>2, <3>1, <3>2, <3>4 DEF Indexed
  <2>2. ASSUME names' = <<>>, filled' = 0 PROVE Indexed'
    BY <2>2 DEF Indexed
  <2>3. CASE Open
    <3>1. TableList \in Seq(Names)
      BY StorageAssumption
    <3> QED BY <2>1, <2>3, <3>1, IndexBegins DEF Open
  <2>4. CASE BuildIndex
    BY <1>2, <2>4, IndexGrows DEF BuildIndex
  <2>5. CASE Close \/ Crash
    BY <2>2, <2>5 DEF Close, Crash
  <2>6. CASE \E th \in Threads : ThreadStep(th)
    BY <2>1, <2>6 DEF ThreadStep
  <2>7. CASE UNCHANGED vars
    BY <2>1, <2>7 DEF vars
  <2> QED BY <1>2, <2>3, <2>4, <2>5, <2>6, <2>7 DEF Next
<1> QED BY <1>1, <1>2, PTL DEF Spec

\* Whatever the hashes of the names are, linear probing finds every name that was stored
\* at its first position, and no other, at every moment of the building of the index.
THEOREM FindIsRight == Spec => []FindIsIndex
<1>1. Indexed => FindIsIndex
  BY IndexFinds
<1> QED BY <1>1, IndexStays, PTL

=============================================================================
