------------------------------- MODULE Joins -------------------------------
(***************************************************************************)
(* Joins of a record stream with a table (materialization/join.hpp,        *)
(* materialization/planner.hpp).  The batch strategy looks keys up as it   *)
(* goes; the hash and the nested-loop strategy read the whole table first. *)
(* The pull of all three is the same loop over their own refill.           *)
(***************************************************************************)
EXTENDS Streams

CONSTANTS
    Extract(_),     \* the right-hand key of a left record, or NoKey
    NoKey,          \* the extractor failed
    Absent,         \* no such key in the table
    Emptied,        \* a value whose string was moved away
    DefaultBatch,   \* 1024 rows
    NetworkBatch    \* 256 rows

-----------------------------------------------------------------------------
(* Options: kind, force, batch, cap and limit, 0 for none.  caps is what   *)
(* the two stores can do.                                                  *)
BatchSize(opts, default) == IF opts.batch > 0 THEN opts.batch ELSE default

Plan(caps, opts) ==
    LET local == caps.right_tier \in {"Local", "Embedded"}
    IN CASE opts.force # "Auto" ->
              [strategy |-> opts.force, batch |-> BatchSize(opts, DefaultBatch)]
         [] opts.force = "Auto" /\ caps.batch_get /\ local ->
              [strategy |-> "BatchIndexNestedLoop", batch |-> BatchSize(opts, DefaultBatch)]
         [] opts.force = "Auto" /\ caps.batch_get /\ caps.right_tier = "Network" ->
              [strategy |-> "BatchIndexNestedLoop", batch |-> BatchSize(opts, NetworkBatch)]
         [] opts.force = "Auto" /\ ~caps.batch_get /\ local
              /\ caps.left_tier = "Local" /\ opts.cap > 0 ->
              [strategy |-> "HashJoin", batch |-> BatchSize(opts, DefaultBatch)]
         [] OTHER -> [strategy |-> "IndexNestedLoop", batch |-> 1]

ShouldEmit(kind, present) ==
    CASE kind \in {"Inner", "SemiLeft", "RightOuter"} -> present
      [] kind = "AntiLeft" -> ~present
      [] kind \in {"LeftOuter", "FullOuter"} -> TRUE

-----------------------------------------------------------------------------
(* A table is the sequence of its pairs, as a scan gives them.             *)
Lookup(pairs, k) ==
    IF \E i \in DOMAIN pairs : pairs[i].key = k
    THEN pairs[CHOOSE i \in DOMAIN pairs :
                 /\ pairs[i].key = k
                 /\ \A j \in 1 .. i - 1 : pairs[j].key # k].value
    ELSE Absent

\* StoreRef::get_many over SQLiteBackend::get_many: the value is moved into
\* the first item for a key; a second item for it gets what is left.
GetMany(pairs, keys) ==
    [i \in DOMAIN keys |->
       LET v == Lookup(pairs, keys[i])
       IN IF v # Absent /\ \E j \in 1 .. i - 1 : keys[j] = keys[i] THEN Emptied ELSE v]

\* unique_storage of the refill: the keys of the batch, each once.
UniqueKeys(keys) ==
    SelectSeq([i \in DOMAIN keys |-> IF \E j \in 1 .. i - 1 : keys[j] = keys[i]
                                     THEN NoKey ELSE keys[i]],
              LAMBDA k : k # NoKey)

JoinNode(strategy, src, right, batch, opts) ==
    [op |-> "join", strategy |-> strategy, src |-> src, right |-> right,
     kind |-> opts.kind, batch |-> batch, limit |-> opts.limit, limited |-> opts.limit > 0,
     out |-> <<>>, cursor |-> 0, upstream_done |-> FALSE, leftover |-> <<>>]

Row(x, v) == [key |-> Extract(x), left |-> x, right |-> v]

\* The rows of the left records, with the value each found, up to the limit.
\* The limit is tested after a row is added.
Probe(s, rows) ==
    LET hits == SelectSeq(rows, LAMBDA p : ShouldEmit(s.kind, p.right # Absent))
        room == IF s.limit = 0 THEN 1 ELSE s.limit
    IN IF s.limited
       THEN [s EXCEPT !.out = Slice(hits, 0, room),
                      !.upstream_done = @ \/ Len(hits) >= room]
       ELSE [s EXCEPT !.out = hits]

\* Left records are pulled until there are enough for a batch.
Gathers(s) == Len(s.leftover) < s.batch /\ ~s.upstream_done

\* The rows of the next batch of left records.
LookUpBatch(s) ==
    LET batch == Slice(s.leftover, 0, s.batch)
        t == [s EXCEPT !.leftover = Slice(@, s.batch, Len(@))]
        keys == [i \in DOMAIN batch |-> Extract(batch[i])]
        unique == UniqueKeys(keys)
        found == GetMany(s.right, unique)
        Slot(k) == CHOOSE j \in DOMAIN unique : unique[j] = k
    IN IF \/ \E i \in DOMAIN keys : keys[i] = NoKey
          \/ \E i \in DOMAIN found : found[i] = Bad
       THEN Fail(t)
       ELSE Reply(Probe(t, [i \in DOMAIN keys |-> Row(batch[i], found[Slot(keys[i])])]),
                  "ok", <<>>)

\* What was gathered is forgotten when the source fails.
BatchRefill(s, r) ==
    LET t == Owning(s, r)
    IN CASE ~Gathers(s) -> LookUpBatch(s)
         [] Gathers(s) /\ r.k = "emit" -> Again([t EXCEPT !.leftover = @ \o r.c])
         [] Gathers(s) /\ r.k = "done" -> LookUpBatch([t EXCEPT !.upstream_done = TRUE])
         [] Gathers(s) /\ r.k = "err" -> Fail([t EXCEPT !.leftover = <<>>])

\* The refill of HashJoinImpl and NestedLoopImpl.  Rows found before the
\* extractor fails stay, and are returned by the pull after the error.
StreamRefill(s, r) ==
    LET t == Owning(s, r)
        bad == {i \in DOMAIN r.c : Extract(r.c[i]) = NoKey}
        good == IF bad = {} THEN r.c
                ELSE Slice(r.c, 0, (CHOOSE i \in bad : \A j \in bad : i <= j) - 1)
        u == Probe(t, [i \in DOMAIN good |-> Row(good[i], Lookup(s.right, Extract(good[i])))])
        full == u.limited /\ u.out # <<>> /\ Len(u.out) >= u.limit
    IN CASE r.k = "err" -> Fail(t)
         [] r.k = "done" -> Reply([t EXCEPT !.upstream_done = TRUE], "ok", <<>>)
         [] r.k = "emit" -> IF bad = {} \/ full THEN Reply(u, "ok", <<>>) ELSE Fail(u)

Refill(s, r) ==
    IF s.strategy = "BatchIndexNestedLoop" THEN BatchRefill(s, r) ELSE StreamRefill(s, r)

\* JoinDrain that takes the limit to be kept by the refill.
JoinDrainUncut(s) ==
    LET all == Slice(s.out, s.cursor, Len(s.out))
        left == IF s.limit > Len(all) THEN s.limit - Len(all) ELSE 0
    IN Emit([s EXCEPT !.cursor = Len(s.out), !.limit = IF s.limited THEN left ELSE @,
                      !.upstream_done = @ \/ (s.limited /\ left = 0)], all)

\* JoinDrain with the cursor moved by what was returned.
JoinDrainCounted(s) ==
    LET all == Slice(s.out, s.cursor, Len(s.out))
        cut == IF s.limited THEN Slice(all, 0, s.limit) ELSE all
    IN Emit([s EXCEPT !.cursor = @ + Len(cut),
                      !.limit = IF s.limited THEN @ - Len(cut) ELSE @], cut)

\* What is left of pending_out, cut to the limit.
JoinDrain(s) ==
    LET all == Slice(s.out, s.cursor, Len(s.out))
        cut == IF s.limited THEN Slice(all, 0, s.limit) ELSE all
        left == IF s.limited THEN s.limit - Len(cut) ELSE s.limit
    IN Emit([s EXCEPT !.cursor = Len(s.out), !.limit = left,
                      !.upstream_done = @ \/ (s.limited /\ left = 0)], cut)

JoinPull(s, r) ==
    IF s.cursor < Len(s.out) THEN JoinDrain(s)
    ELSE IF s.upstream_done /\ s.out = <<>> THEN Done(s)
    ELSE LET f == Refill([s EXCEPT !.out = <<>>, !.cursor = 0], r)
         IN CASE f.k \in {"err", "again"} -> f
              [] f.k = "ok" /\ f.s.out = <<>> /\ f.s.upstream_done -> Done(f.s)
              [] f.k = "ok" /\ ~(f.s.out = <<>> /\ f.s.upstream_done) -> Again(f.s)

\* WrapAsRecordImpl: joined rows as records.
Wrap(src) == [op |-> "wrap", src |-> src]

WrapPull(s, r) ==
    [HandOn(s, r) EXCEPT !.c = [i \in DOMAIN @ |-> [key |-> @[i].key, value |-> @[i]]]]

-----------------------------------------------------------------------------
\* The build side.  r is what a collection of the table's records gave: "ok"
\* with all of them, or "err".  cap is 0 for none.
Build(r, cap) == IF cap > 0 /\ Len(r.c) >= cap THEN Fail(r.s) ELSE r

\* join(left, right, extractor, opts) of a table whose scan returns the pages
\* of right; records is what a collection of them gives.  batch_get says
\* whether its backend has get_many.  The streams count as Computed, the
\* table as Local.
Join(left, right, records, batch_get, opts) ==
    LET plan == Plan([batch_get |-> batch_get, left_tier |-> "Computed",
                      right_tier |-> "Local"], opts)
        pairs == FlattenSeq([i \in DOMAIN right |-> right[i].c])
        built == Build(records, IF plan.strategy = "HashJoin" THEN opts.cap ELSE 0)
        size == IF plan.strategy = "IndexNestedLoop" THEN 1 ELSE plan.batch
    IN IF plan.strategy \in {"BatchIndexNestedLoop", "IndexNestedLoop"}
       THEN Reply(Wrap(JoinNode("BatchIndexNestedLoop", left, pairs, size, opts)), "ok", <<>>)
       ELSE IF built.k = "err" THEN Fail(left)
       ELSE Reply(Wrap(JoinNode(plan.strategy, left, built.c, size, opts)), "ok", <<>>)
=============================================================================
