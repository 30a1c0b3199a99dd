# celer-mem in TLA+

celer-mem is a header-mostly C++ library: a tree of key-value stores over several
backends, pull streams and asynchronous streams with a work-stealing scheduler, a
materialization layer (joins and views), and an in-process actor system with swarm
agents on top.  This directory holds TLA+ models of its concurrent and stateful
parts and of its streams and storage, the TLC configurations that check them on small
instances, and TLAPS proofs of the properties that matter most.  Paths below are relative to `include/celer/`
unless they start with `src/` or `finalized/`.

## 1. Inventory

| Part | State | Operations | Talks to | What is hard |
|---|---|---|---|---|
| `ChaseLevDeque` (core/scheduler.hpp) | `top_`, `bottom_`, current and old buffers | push, pop (owner), steal (thieves) | the scheduler's workers | lock-free races, wrap-around, growth under concurrent steals, plain slot reads |
| `StreamScheduler`, `GlobalQueue`, `ParkingLot`, `StreamControl` (core/scheduler.hpp, core/poll_result.hpp) | deques, global queue, parked leases, demand counters, `shutdown_` | schedule, schedule_affine, wake, shutdown, worker loop; request, on_emit, on_consume, cancel | streams through the poll function, consumers and I/O through wake | park against wake, wake against drain, counters updated by two threads, termination |
| `TaskPool` (core/task_pool.hpp) | submission queue, per-worker queues, `shutdown_` | submit, worker loop, shutdown | any thread; tasks that submit | notification without the mutex, work submitted during shutdown |
| `ActorSystem`, `ChannelBuf`, `DedupSet` (necto/actor.hpp, necto/channel.hpp) | mailboxes, dedup sets, sequence numbers, lifecycle | spawn, deliver, inject, tick, tick_all, drain, channel_push, channel_drain, set_lifecycle, ctx.send | actors through on_receive, clusters | retries, full channels, mail sent during a tick, bounded draining |
| Swarm clusters (necto/swarm/cluster.hpp, swarm.hpp) | membership lists, the agents' cluster and lifecycle in two places | recruit, dismiss, merge, transfer, dissolve | ActorSystem, SwarmField | the same fact kept in three places |
| Swarm field, pheromones, morphing (necto/swarm/) | positions, headings, trails | float dynamics per step | clusters | numeric |
| Materialization (materialization/) | a target table and a watermark | Replace, Append, Delta, DryRun | store handles, record streams | failure between wipe and rewrite, watermark against rows |
| Joins (materialization/join.hpp) | cursors, hash index, limit | pull | two record streams | limits, outer joins, build caps |
| Asynchronous stream combinators (core/async_stream.hpp) | children, done flags | poll, cancel, clone | scheduler | results lost between child and parent |
| Streams and buffers (core/stream.hpp, core/arc_buf.hpp) | cursors, reference counts | pull, clone | everything | clones that share state |
| Store tree, dispatch (src/core/) | tree of tables | get, put, del, prefix_scan, batch | backends | a batch over several tables that fails half way |
| Backends (src/backend/) | RocksDB, SQLite, a PDF file, S3 objects | the same five and stream_* | external libraries | memory against disk, savepoints on a shared connection, order of puts and deletes |
| Global API, resource stack (src/api/, core/resource_stack.hpp) | one global store | open, db, close | store tree | references that outlive close |
| Symbol table (core/symbol_table.hpp) | slots, built once | build, find | store tree, registries | collisions, the bound of the probe |
| Compression, codecs, schema, credentials | none or immutable | pure functions | everything | bounds |

What makes them correct:

* deque: a lease that goes in comes out once, whoever takes it, and steals agree
  with the owner's pops;
* scheduler: a stream's lease is in one place, so one worker advances the stream at
  a time; no runnable stream is forgotten; demand is respected; shutdown ends;
* task pool: each task runs once, and shutdown finishes the work it was given;
* actors: an envelope is processed at most once and in its sender's order, retries
  are safe, and drain leaves no mail behind unless it ran out of rounds;
* clusters: an agent is in at most one cluster, and the cluster, the actor system and
  the field say the same of it;
* materialization: the watermark never covers a row that is not in the view, and a
  completed run leaves what the source says;
* streams and joins: the rows that come out are those of the operation's definition,
  wherever the chunk boundaries fall; clones continue, cancelled streams stop, and a
  consumer that keeps polling comes to an end;
* storage: a write that was acknowledged survives a crash, reads return it, a batch
  does not show before it is done, and a failed one leaves no more than it may.

`PROJECT.json` lists under `hazards` what is hard to test in all of these, line by
line, with the properties that cover it.

## 2. Modules

| Module | What it is |
|---|---|
| `ChaseLevDeque` | push, pop and steal, one action per access to shared memory |
| `WorkDeque` | the abstract deque: one atomic action per operation |
| `MCChaseLevDeque` | symmetry for TLC |
| `ChaseLevDequeProofs` | TLAPS proofs about `ChaseLevDeque` |
| `StreamScheduler` | the worker loop, the parking lot, the callers and the demand counters, over atomic deques |
| `StreamSchedulerProofs` | TLAPS proofs about `StreamScheduler` |
| `TaskPool` | submit, the workers' loop and wait, shutdown |
| `TaskPoolProofs` | TLAPS proofs about `TaskPool` |
| `ActorSystem` | mailboxes, deduplication, tick and drain |
| `MCActorSystem` | the envelopes of a caller that retries, for TLC |
| `ActorSystemProofs` | TLAPS proofs about `ActorSystem` |
| `Swarm` | clusters over `ActorSystem`, whose actions it composes with its own |
| `MCSwarm` | the envelopes of outside callers, for TLC |
| `SwarmProofs` | TLAPS proofs about `Swarm`, from those about `ActorSystem` |
| `SymbolTable` | the hash table of names, slot by slot |
| `Backend` | contents, calls in flight and bookkeeping the four backends share |
| `RocksDB`, `SQLite`, `QPDF`, `S3` | one backend each, by statement, locked section or request |
| `Storage` | open, close, crash, routing and the properties; composes the six modules above |
| `MCStorage` | tables, keys, values and calls for TLC |
| `StorageProofs` | TLAPS proofs about `Storage` and its backends |
| `Streams` | sources and synchronous combinators as records and their pulls |
| `AsyncStreams` | asynchronous combinators: poll, cancel, clone |
| `Joins` | the planner and the join strategies |
| `Pipelines` | opens, polls, clones and cancels a job made of these; reference definitions and properties |
| `MCPipelines` | the jobs for TLC |
| `Materialize` | writing a stream of records into a table, in each mode, with failing calls |
| `MaterializeProofs` | TLAPS proofs about `Materialize` |
| `Selection` | filtering a sequence, and how often it has an element, for `Swarm` and `Backend` |
| `SequenceFacts` | TLAPS lemmas on sequences, `Select` and `Max`, cited by the proofs above |

### ChaseLevDeque and WorkDeque

`top`, `bottom`, `buffer` are the three atomics; `mask` and `storage` are sequences
with one entry per buffer ever allocated, since old buffers live as long as the
deque and a thief may still read one.  `reg` holds the locals of the call a thread
is in and `pc` its position.  Each action is one load, store or CAS, except that a
load and a store by the only thread that writes a variable may share one (`PopBegin`).
`PushGrow` is one action: only the pushing thread sees the new buffer before the store
of `buffer_`.  A slot is plain memory: a thief that reads it while a push is about to
write it may read the value `Torn`.  `PopCasLost` takes over that
`compare_exchange_strong` overwrites `t` when it fails, which is why the value then
stored in `bottom_` is `top + 1`.

`holds` and `raced` are history variables: how many threads hold a lease, and whether
a pop has ever lost the race for the last lease.

Memory is sequentially consistent.  The code's `seq_cst` fences order the accesses
that decide who gets the last lease; the other orderings are acquire/release pairs on
`bottom_` and `buffer_`.  Weaker behaviours are not modelled.

`WorkDeque` is what users of the deque rely on: `Push`, `Pop` at one end, `Steal` at
the other, and `Reappear`, the one extra step that the code takes after a lost race.
The refinement mapping reads the abstract deque from the current buffer between `top`
and `Edge`; `Edge` is `bottom`, or one more while a pop has lowered `bottom` and has
not yet decided.

### StreamScheduler

A worker goes through the positions `local`, `steal`, `global`, `check`, `demand`,
`poll`, `emitted`, `park`, `nowork`, `drain`, `exit`, which are the points of
`worker_loop` between which other threads can act.  A deque operation is atomic here
and behaves as `WorkDeque` without `Reappear`, that is, the scheduler is studied over
a deque that works; what the real one adds is in the two runs about the deque.  A steal
may fail although there is work.  The poll function is external: each poll may emit,
be pending, yield or end.  `call` is what the consumer and each I/O operation of a stream are
about to do: all finish with `wake`, whose two halves, taking the lease out of the
parking lot and pushing it to a deque, are two actions as in the code.

### TaskPool

The per-worker deques are left out: no function of the class pushes to them.  The
wait is four positions (`test`, `falling`, `asleep` and back to `scan`), since
`submit` notifies without the mutex and may do so between the test and the sleep.
`late` records tasks submitted from outside after `shutdown_` was set.

### ActorSystem

One thread owns the system (`finalized/RFC-004-necto-actor-ipc.md`, section on
threading), so there is one flow of control: `mode`, `actor`, `chunk`, `ctx_seq`,
`round` are where it is within `tick` or `drain`.  An envelope is its (from, seq) pair;
payloads and names are left out.  on_receive may send any number of
envelopes to anybody (`Send`).  A caller of deliver names any sender, an actor too, and
any number; `borrowed` remembers the keys a receiver has seen that callers gave in an
actor's name.

### Swarm

`Swarm` extends `ActorSystem` with `clusters` (members and the active flag),
`cluster_of` (the actor's `cluster_`), `field` (lifecycle and cluster of the agent in
the field, a second copy) and `todo`, the members that `tick_cluster` has yet to tick.
Cluster operations happen between ticks, on the thread that owns the system.
`clustered` is chosen at the start: either the system is used directly, with all its
operations, or by a swarm, which alone changes lifecycles and clusters then; mail may be
injected in both cases.  `Recruit` takes the agents that its caller's copy of the field
has dormant, which may be any (`stray` records those that were awake).  `Dismiss` and
`Transfer` are called with members of the cluster they are given, and `Merge` with two
clusters; the code checks neither.  An agent starts dormant in the field and active in
the actor system (the comment at cluster.hpp:5 says dormant of the pool): mail reaches
an actor that was never recruited, which is why `OneCluster` says that a sleeping actor
is dormant in the field and not the converse.

### Storage

`disk` is what survives a crash and `mem` what the process reads: for SQLite they
differ while a savepoint is open, for QPDF while the document is dirty, for RocksDB and
S3 never.  A key is a sequence of bytes (the prefix ranges of SQLite are modelled by
what they compare) and a value a sequence of chunks, so that streamed reads and writes,
which S3 does by parts and ranges, can be told from whole ones.  `call` holds the call a
thread is in: a scan takes one step per row (SQLite), table (RocksDB, QPDF) or request
(S3); a batch one step per table and in it per statement or request.  The engines are
external: `Fault` lets any of their calls fail, at most `MaxFaults` times, and a failed
S3 write may have been executed.  `Crash` loses all but `disk`.

`must` is history: the last acknowledged write of each cell, or `Unknown` while a call
writes it, after one failed, and where the code promises nothing.  `alone`, in a call,
is the set of cells that nobody else has written since it began; `before` and `held` are
what a batch found.  `ApplyOps` says what several ops in a row leave in a cell: the
effect of the last one on it.

A scope has one kind of backend, chosen at the start.  `Table` looks names up in the
symbol table that `Open` has built.  Compacting changes something only for QPDF.

### Streams, AsyncStreams, Joins, Pipelines

A stream is a record with its own state and the stream it owns; `MapPull` and the other
pulls take the reply of the stream they pull and give theirs, with the stream
afterwards.  `Pull`, in `Pipelines`, gives each of them the reply it needs and goes round
their loops (`PullWith` is its body, with the recursive call as a parameter).  where, map
and take of record streams are those of the core once more, and modelled by the same
definitions.  A source is the
list of what its pulls return, pages and errors; asynchronous sources also wait and
yield.  Elements are numbers, the user's functions are constants.  `at` holds a handle
and its clone with all they have given.  `Rows` and `JoinedRows` say without pulling
what a stream and a join have to give; they are the reference of `ExactOutput`.

The joins are modelled as they are: RightOuter does what Inner does and FullOuter what
LeftOuter does, `JoinOptions::consistency` is not read, `hash_build_cap` refuses a build
side of exactly that many rows, and the batched index join drops the rows it has
gathered when its source fails.

### Materialize

One call of `materialize` at a time, over a source that only grows.  `pc` is the call
the code is about to make of the source or the store; each of them may fail
(`Fail`, `WipeFails`, `FlushFails`), and a batch that fails may have done a part, as
those of S3 and QPDF do.  Since all but the table is local to the call, a process that
dies leaves what a failing call leaves.  A record is its target key and value; keys are
ordered numbers, 0 the empty string.  `replace_prefix` covers all rows, and the
watermark record or not (`prefixed`).  Append does what Upsert does.  The check for an
empty `watermark_id`, and metrics, are left out.  The watermark record is in the target
table: `watermark_table` (l. 47, and the comment at l. 66) is not read.  `torn` is
history: a Replace deleted rows that no complete run has written since.

## 3. Runs

| Run | Instance | Shows |
|---|---|---|
| `chase_lev` | 3 leases, 2 thieves, 1 initial slot, `bottom` up to 4 | `StableSteal`, `NoLeaseLost`, `ExclusiveUntilRace`, refinement of `WorkDeque` |
| `chase_lev_race` | 2 leases, 1 thief, 2 slots | violation of `LeaseExclusive` |
| `chase_lev_wakers` | 2 leases, 1 thief, 1 other pusher | violation of `NoLeaseLost` |
| `scheduler` | 1 stream with 2 I/O operations, 2 workers, 2 credits, watermark 1, 3 polls | `OnePlace`, `ParkedForACause`, `BufferedExact`, `Backpressure`, `DrainedAtExit`, `ShutdownEnds`, `QueuedIsTaken` |
| `lost_wakeup` | 1 stream, 2 workers | violation of `NoLostWakeup` |
| `task_pool` | 3 tasks, 2 workers | `RunOnce`, `ShutdownFinishesWork`, `ShutdownReturns`, `SubmittedRuns` |
| `actor_system` | 2 actors, capacity 2, 2 sends, 3 rounds; 2 clusters | `AtMostOnce`, `LostOnlyWhenFull`, `FreshSeq`, `SenderOrder`, `DrainQuiesces`, `OneCluster` |
| `storage` | 4 backends, 2 tables, 2 keys, 2 threads, 2 calls, 2 failures | `AckedDurable`, `ReadsAcked`, `BatchHidden`, `FailedBatch`, `NoTornValue`, `FindIsIndex` |
| `batch_atomic` | RocksDB, 2 tables, 1 thread, 1 call, 1 failure | violation of `BatchAtomic` |
| `streams` | sources of up to 3 pulls under every combinator (2, and some of 3, under the pollable ones), 16 join options over 3 tables | `ExactOutput`, `CloneContinues`, `StopIsFinal`, `Drains` |
| `materialize` | keys 0 to 2, 2 values, batches of 2, up to 3 records | `DeltaComplete`, `FinishedView`, `WatermarkAdvances` |
| `actor_retry` | 1 actor, capacity 1, 2 sequence numbers | violation of `SafeRetry` |

Every passing run but `streams`, where the reference definition says more, also checks
the module's `TypeOK`.

**Bounds.**  One initial slot makes the deque wrap with the second push and grow to 2
and to 4 slots with three leases; two thieves are what it takes for one to be stale
while another succeeds.  `MaxIndex` only stops the owner from starting further
operations.  In the scheduler, two workers give every pair of actors (owner and thief,
parker and waker, drainer and waker).  The stream is followed over several polls, with
more credits than the watermark allows, and with a wake of one I/O operation still under
way when the next poll starts another; each lease is on its own, and that several share a
deque is left to the proofs of the safety properties, which hold for any streams.
`Word` is 8 in place of 2^32, so that a counter that passes below
zero is as visible as in the code.  Three tasks on two workers leave one in the queue
while both work, and let a task submit another during shutdown.  Two actors with two
sends can answer each other; three rounds are what it takes for mail from the second
actor to the first to make a second round busy and the third one quiet.  `Outside` has
an envelope from outside and one in the name of actor 1 with the number that its second
send takes.  Capacity 2 is filled by one sender; two agents and two
clusters are enough to recruit twice, merge, transfer and recruit again, and one stray
agent (`MaxStrays`) to be in two clusters beside one that must not be.

In `storage` two calls overlap or follow each other, with a reopening or a crash between
them; the number of open and close calls is not bounded.  Two failures are a failed
flush and a failed retry, a failed statement and a crash, or two lost answers.  The keys
are one that a range has to include and one of the highest byte alone, whose prefix has
no upper bound; the hashes of the tables and of an unknown name collide on the last
slot, so that probing wraps.  The batches cover a delete before a put of its key, two
tables, an ill-formed op after a good one, and an unknown table.

In `streams` the items are chunks of one and two elements and an error in every order,
which puts chunk boundaries and errors before, at and after every limit and batch size
(2).  The children that flat_map, concat_map and merge_map make are empty, single,
several chunks, and one that waits and yields.  concat_map and merge_map also get
sources of two and three single elements in every order.  Join keys match, repeat, miss,
or cannot be extracted; one right table holds a value that cannot be decoded.

Three records in
batches of two give a full batch, a last one and a key repeated within and across them;
the number of calls of `materialize` is not bounded.

**Deadlock.**  `actor_system`, `materialize` and `storage` are checked for deadlock.
The others may stop: a pool or a scheduler whose workers have all exited, a deque whose
owner has used up `MaxIndex`, a join that refused to open.

**Fairness.**  Liveness is checked under weak fairness of each worker's loop and of
nothing else.  Workers run on threads of their own, hold locks for a bounded time, and
never wait for longer than the 50 or 100 microseconds of `wait_for`.  No fairness is
assumed of submitters, consumers, I/O or the caller of `shutdown`.  In `streams` the
consumer is the loop of the terminal operations (collect, fold, collect_blocking), which
pulls until the stream says it is done: `Consumes` is weak fairness of `Open` and
`Poll("main")`, written out with the conditions under which they are enabled.  It does
not stop at an error, so `Drains` also covers a caller that goes on after one.  `ShutdownEnds`
relies on `MaxPolls`: streams end.  One that yields for ever keeps its worker, and
shutdown, from ending.

## 4. What the runs found

* **A lost pop leaves a phantom lease** (`chase_lev_race`, core/scheduler.hpp:160).
  When a thief wins the last lease, the failed CAS has already advanced `t`, and
  `bottom_.store(t + 1)` leaves `bottom = top + 1`.  The next pop returns a slot whose
  lease another thread holds, or a default-constructed one.
  `finalized/RFC-002-STREAMING-S3.md:903`: "Never concurrent — lease is exclusive".
  `ExclusiveUntilRace` shows that this is the only cause.
* **Pushes by threads that do not own the deque** (`chase_lev_wakers`,
  core/scheduler.hpp:319).  `wake` and `schedule_affine` push from any thread into a
  deque whose comment (l. 58) says the owner's end is single-threaded; a lease can
  end below `top` and never be found.
* **Lost wake-up** (`lost_wakeup`, core/scheduler.hpp:416 and 452).  A wake between the
  decision to park and `park` finds nothing and leaves no trace; the stream stays
  parked.  core/poll_result.hpp:34: "continuation registered; wake me".
  `ParkedForACause` shows that this window is the only way to get there.
* **Retry after a full channel** (`actor_retry`, necto/actor.hpp:337).  `deliver`
  remembers the key before it pushes; what a full channel refused is a duplicate the
  next time.  `finalized/RFC-004-necto-actor-ipc.md:163`: "This enables safe retry
  semantics".  `LostOnlyWhenFull` shows that nothing else is lost.

* **Batches over several tables** (`batch_atomic`, src/core/dispatch.cpp:107) stop at the
  first table that fails and leave those before it written.
  include/celer/api/db_ref.hpp:59: "Atomic batch across the scope".  `FailedBatch` says
  what does hold: nothing is left of the tables that were not finished.

What the passing runs except by name, each but the outer joins confirmed by a
counterexample when the exception is taken out:

* **A retried del on QPDF** (src/backend/qpdf.cpp:390-395).  A del whose flush fails has
  removed the key from the document; the retry finds nothing, returns success without a
  flush, and a crash brings the key back.  `AckedDurable` leaves out that answer.
* **Scans of an all-0xFF prefix on SQLite** (src/backend/sqlite.cpp:182-201, 346-364).
  Without an upper bound the loop takes an error of a step for the last row and
  reports success.  `ReadsAcked` excepts it through `CutShort`.
* **Overlapping batches on SQLite** (src/backend/sqlite.cpp:237) share a transaction:
  releasing one commits what the other has done, rolling back the outer one undoes the
  inner.  A final RELEASE that fails leaves its savepoint open, and what the other
  threads write from then on is not durable.
* **Failed batches on S3 and QPDF.**  S3 (src/backend/s3.cpp:228) sends the puts before
  the deletes, one request after the other, and stops at the first failure;
  materialization/store_ref.hpp:203 says "All-or-nothing within the underlying backend".
  QPDF keeps the ops before an ill-formed one in its document, which a later flush writes
  (src/backend/qpdf.cpp:416).  `FailedBatch` leaves both out.
* SQLite's get_many gives an empty value for a key asked twice; QPDF and S3 do not tell
  an empty value from an absent one; S3 scans return keys without the prefix.
* **concat_map** makes a child of the first element of each chunk only
  (core/async_stream.hpp:291), where l. 265 says "ordered flatmap" and
  `finalized/RFC-002-STREAMING-S3.md:1026` "ordered, one child"; **merge_map** of those
  that fit its limit (l. 336).  `ExactOutput` asks of them over chunks of several elements
  only that no row is too many (`KeepsAll`).
* **A clone of a concat_map** loses the child it was draining (l. 314), where l. 120 says
  "Independent stream at same logical position": `CloneContinues` leaves such clones out
  (`midchild`).
* **FullOuter and RightOuter joins** give no unmatched row of the table
  (materialization/join.hpp:66-67, "rights handled in pass2", of which there is none):
  `ExactOutput` leaves them out (`OneSided`) and `JoinedRows` does not define them.
* **deliver in an actor's name** (necto/actor.hpp:333) with a number that the actor has yet
  to use makes the actor's own envelope a duplicate: `FreshSeq` and `SenderOrder` leave such
  keys out (`borrowed`).
* **recruit on an old copy of the field** (necto/swarm/cluster.hpp:80) may put an agent in a
  second cluster: `OneCluster` leaves such agents out (`stray`).

## 5. Proofs

TLAPS checks the theorems for every value of the constants.

**ChaseLevDequeProofs.**  Assumptions: `ConstantsAssumption` (the sets are disjoint, at
least one slot) and `SinglePusher` (`Wakers = {}`), the usage the deque is written for.
For any leases, thieves, capacity and number of operations: `TypeCorrect`,
`StealIsStable`, `NoLeaseIsLost`, `LeasesExclusiveUntilRace`.  None of these is
inductive.  The invariant `IInv` adds

* `OwnerInv`: what the owner's locals say of `top` and `bottom` at each point of its
  call; in particular `top <= bottom` between calls;
* `RoomInv`: the deque fits the current buffer, so that (`ModDistinct`) two of its
  indices are never in one slot and a push writes outside of them;
* `ThiefInv`: as long as `top` is what a thief loaded, the deque is not empty and the
  slot the thief reads, in an old buffer too, is that of the current buffer;
* `OnceInv`: until the first lost race a lease is held, in flight or at one index.

There is one lemma per action; `TakeOne` and `TopNotBeingWritten` carry what pop and
steal, and the torn reads, have in common.

`Refinement` shows, under the same assumptions, that the deque implements `WorkDeque`.
`Items` and `Held` name the refinement mapping; there is one lemma for each access at
which an operation takes effect (the store of `bottom` in push, the load of `top` or the
CAS in pop, the CAS in steal, the last store of a pop that lost its race), and one for
the other accesses of push, of pop and of steal, which change nothing abstract.
`WindowKept`, which the invariant's proof gives for writes and growth, is what keeps the
items in place; that the CAS of a steal hands out the first item is `ThiefInv`.

**TaskPoolProofs.**  Assumption: there is a worker.  `TypeCorrect`, `TasksRunOnce`
and `ShutdownLosesNoTask`, for any number of tasks and workers.
`ShutdownFinishesWork` needs `RunOnce` (what is not done is queued or running), that a
worker that runs a task has not exited, and that a worker drains only after
`shutdown_` was set: the last worker to exit saw the queue empty, and what comes after
is late.

**MaterializeProofs.**  Assumption: `ConstantsAssumption` (a batch holds at least one
put, `Absent` is no value).  For any keys, values, batch size and number of runs,
failed ones included: `TypeCorrect`, `DeltaCorrect`, `ViewCorrect`, `WatermarkCorrect`.
`DeltaComplete` speaks of the moments between steps only and is not inductive: when the
watermark is written, one must know that the records below it are in the view.
`CoveredInv` says it of all records pulled (skipped, pending or in the view),
`WatermarkInv` that the new watermark is the key of a record pulled and above the old
one, `PendingInv` what a batch, or the part that a failing batch writes, consists of.
`SettledInv` is `FinishedView` with the pending puts written to the view.  What a batch
writes is stated in lemmas (`WrittenHit`, `WrittenMiss`, `WrittenAppend`); that each key
of a batch has a last put is kept as an invariant, which spares an induction over
sequences.

**StreamSchedulerProofs.**  Assumption: `ConstantsAssumption` (`None` is no stream or
worker; the bounds are positive, and `Word` is larger than `MaxCredits + HighWatermark + 1`:
the 32-bit counters are larger than what is asked of them).  `TypeCorrect`,
`LeaseInOnePlace`, `BufferedIsExact`, `BackpressureHolds`, `ParkedOnlyForACause` and
`ExitLeavesOnlyLate`, for any streams, workers and watermark.  `OnePlace` counts places,
and a step moves a lease from one to another: `Located` names the place
(`IsAt(s, kind, who)`), so that each action is shown to move one lease (`Move`) and to
leave the others where they are (`Stay`).  `Distinct` (a queue never repeats a lease),
`Holds` (a worker has a lease exactly while it advances a stream) and `Affine` (a lease
on its way back knows its worker) go with it.  The counters rest on that: what
`should_advance` saw is still true when `on_emit` counts the chunk (`Credits`, `Counted`),
because nobody but the holder of the lease takes credits.  `Cause` is `ParkedForACause`
from the decision to park on; `Exits` that nobody drains before shutdown began.

**ActorSystemProofs.**  Assumption: `ConstantsAssumption` (positive bounds; the two
senders that are no actors differ from them).  `TypeCorrect`, `ProcessedAtMostOnce`,
`OnlyFullLoses`, `SeqIsFresh`, `InSenderOrder` and the action property `DrainEndsQuiet`,
for any number of actors, any capacity and any number of messages.  They need each other:
an envelope is processed once because the dedup set has all that is held or done, and in
order because a new one has a number above all that are remembered.  `Mail` states them
together of what one receiver holds, remembers, has done and refused; `MailAppend`,
`MailRefuse`, `MailSystem` and `MailTail` say what a push, a refusal, an inject and a
receipt do to it.  `Turn` says that envelopes are pulled only while an actor is ticked;
`Quiet` that while a round has processed nothing, the actors behind it have nothing to
process, which is what `drain` concludes from when it stops.

**SwarmProofs.**  Assumption: also `ClustersAssumption` (`NoCluster` is no cluster).
`SwarmIInv` is the invariant of the actor system with `OneCluster` and the types.
`AgentInOneCluster`, and `SwarmMail` and `SwarmDrainEndsQuiet`: the promises of the actor
system hold as well when clusters change lifecycles and empty mailboxes.  An operation
moves a set of agents to a cluster or to none; `MoveIInv` says once what must be shown of
each, and recruit, leave, merge and transfer are instances.  The service acts between
ticks only, so that a mailbox it empties is not half pulled (`DrainsIInv`), and a
sleeping agent is given nothing by a tick (`SleepersKeepNothing`).

**StorageProofs.**  Assumptions: `BackendAssumption` (`None` and `Unknown` are no values;
tables exist and are finitely many), `ByteAssumption` (keys are sequences of the numbers
up to the highest byte, finitely many, and `None` is none), `HashAssumption` and
`AbsentAssumption` (a hash is any natural number, `Absent` is no slot's entry) and
`StorageAssumption` (calls are given cells, values, ops, tables and prefixes of the
scope; tables of a batch need not exist).  For each of the four
backends, any tables, keys, values, threads, calls, failures, reopenings and crashes:
`TypeCorrect`, `AcknowledgedIsDurable`, `ReadsReturnAcked`, `UnfinishedIsHidden`,
`FailureLeaves`, `ValuesAreWhole`, `FindIsRight`.  The invariant is

* `Shape`, and `Modes`: memory and disk agree unless a savepoint is open or the document
  is dirty;
* `Promised`: what was acknowledged is on disk and in memory.  The second half is needed
  because a QPDF flush, and a RELEASE on SQLite, replace the disk by the memory;
* `Calls`: of a batch, for each cell that it alone has written, that the tables done have
  the outcome (`Written`), the others are as they were (`Untouched`), and what is left of
  the table in turn leads to the outcome (`Underway`); on SQLite, that a batch with such
  cells has the only savepoint, whose image is the disk.  Of an upload, that its parts and
  the rest of its input are the value.  Of a scan (`ScanOK`), for each row that nobody
  else has written, that it was returned with the value the process reads, or has none, or
  is not `Passed`; of a get by ranges (`GetOK`), that what it has read begins the value;
* `FailedBatch`.

A step of one thread writes a set of cells; every other call gives these up and keeps
what it knew of the rest (`OtherCall`, `PromisesKept`, joined in `ThreadKeeps`), so each
action has to be shown right only for its own call.  What sequences of ops do is in
lemmas: `ApplyHead` takes one op off, `GroupFacts` relates a table's ops to the whole
batch, and `RequestFacts` says that S3's reordering, puts before deletes, has the outcome
that `Outcome` states.

`ReadsReturnAcked` combines `Promised` with what a scan or a get has gathered when it
returns; `Silent` are the replies that say nothing of a cell.  Each kind of scan step
goes through `ScanMoves`: it adds rows with their values and passes no other row that has
one.  For row by row scans that is `NextRow`, about the first key after the last one,
which needs that the bytewise order is total and transitive (`LessTotal`,
`LessTransitive`, from `FirstDifference`).  A SELECT of SQLite asks for a range:
`RangeIsPrefix` shows, for every prefix and key and wherever the prefix ends in highest
bytes, that a key is at least the prefix and below `PrefixUpperBound` exactly when it has
the prefix.  A scan that ends early on such a prefix after a failure is the exception
`CutShort`, which `MayEndEarly` carries along; that S3 can cut the prefix off the keys
without confusing two rows is `ListedDiffer`.

`FindIsRight` is about the symbol table alone, with hashes that may all collide.
`Indexed` says of each position that its entry is some number of slots, less than the
position, behind the first slot of its name, with entries of earlier positions in all
slots between (`Reaches`).  Since the size is at least twice the number of names
(`RoomForNames`: there is a power of two between any number and its double), a probe
finds a free slot before it wraps (`FreeSlot`, `ProbesDiffer`), and find reaches the
entry within its bound.  The size is stated as the smallest such power of two, and not by
the loop that computes it, so that this needs no induction.

**Only model-checked.**

* Liveness (`ShutdownEnds`, `QueuedIsTaken`, `ShutdownReturns`, `SubmittedRuns`,
  `Drains`), which is out of the prover's reach with fairness.
* `ExactOutput`, `CloneContinues` and `StopIsFinal`: the stream modules pull recursively,
  and what they say of every job needs induction over its structure.

## 6. Not modelled

* The float dynamics of the swarm (headings, quality, pheromones, morphs), and with them
  the convergence counters of `Swarm`: no guard of the modelled operations reads them.
* S3's versions and retention (src/backend/s3.cpp:376-523), which are not part of the
  backend contract; multipart uploads left open in the bucket.
* The engines, the file system and the network, except for what a call of them may do
  and how it may fail.  Opening many scopes: they share nothing but the factory.  A
  caller that keeps the factory of SQLite or QPDF also keeps their connection or document
  open across close.
* Compression, codecs, compile-time reflection, credentials, dynamic backends, examples.
* Lifetimes of C++ objects: reference counts, vtables, the resource stack, references
  that outlive close, and the reference that create_cluster returns into a vector.
* Weak memory.  Two concurrent calls of `materialize` on one view.

## 7. Plan

Two calls of `materialize` on one view, where a Delta run may move the watermark back.
