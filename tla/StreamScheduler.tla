--------------------------- MODULE StreamScheduler ---------------------------
(***************************************************************************)
(* The work-stealing scheduler of pollable streams                         *)
(* (include/celer/core/scheduler.hpp and StreamControl in poll_result.hpp).*)
(*                                                                         *)
(* Workers take the lease of a stream from their own deque, a peer's deque *)
(* or the global queue, advance the stream by one poll and put the lease   *)
(* back, park it or drop it.  Around them run the consumer of each stream, *)
(* which grants credits, takes chunks and cancels, and the I/O that a      *)
(* Pending stream waits for; both call wake afterwards.                    *)
(*                                                                         *)
(* A deque operation is one step here and behaves as WorkDeque promises    *)
(* without Reappear; ChaseLevDeque is the module about its memory accesses.*)
(***************************************************************************)
EXTENDS Integers, Sequences, SequencesExt, FiniteSets

CONSTANTS
    Streams,        \* the streams, each with one lease
    Workers,        \* the worker threads
    None,           \* neither a stream nor a worker
    HighWatermark,  \* StreamControl::default_high_watermark
    IOs,            \* bound: the I/O operations that one stream has under way at a time
    Word,           \* the unsigned counters are modulo Word, 2^32 in the code
    MaxCredits,     \* bound: a consumer has at most this many credits outstanding
    MaxPolls        \* bound: a stream is Done after this many polls

ASSUME ConstantsAssumption ==
    /\ None \notin Streams \union Workers
    /\ "consumer" \notin IOs
    /\ HighWatermark \in Nat \ {0}
    /\ MaxCredits \in Nat \ {0}
    /\ MaxPolls \in Nat \ {0}
    /\ Word \in Nat
    /\ Word > MaxCredits + HighWatermark + 1

VARIABLES
    deque,      \* deques_, oldest lease first
    global,     \* global_queue_
    parked,     \* parking_lot_
    shutdown,   \* shutdown_
    pc,         \* where each worker is in worker_loop or drain_remaining
    lease,      \* opt_lease: the stream whose lease each worker holds
    affinity,   \* StreamLease::worker_affinity, None (0 in the code) until a worker takes it
    requested,  \* StreamControl::requested
    buffered,   \* StreamControl::buffered
    cancelled,  \* StreamControl::cancelled
    call,       \* what the consumer and each I/O of a stream are about to do
    output,     \* chunks delivered to the consumer that it has not consumed
    polls,      \* how often each stream was polled
    submitted,  \* history: the streams given to schedule or schedule_affine
    dropped,    \* history: those whose lease was dropped
    late,       \* history: those put into a deque after shutdown began
    missed      \* history: those for which wake came before park

queues  == <<deque, global, parked>>
worker  == <<pc, lease, affinity, polls>>
control == <<requested, buffered, cancelled>>
client  == <<call, output>>
history == <<submitted, dropped, late, missed>>
vars    == <<queues, shutdown, worker, control, client, history>>

\* Those who call wake.
Callers == {"consumer"} \union IOs

\* Mutant of ShouldAdvance: the high watermark is not looked at.
ShouldAdvanceOnDemand(s) == requested[s] > 0 /\ ~cancelled[s]

\* should_advance loads the three atomics one by one.  While a worker holds the
\* lease requested only grows, buffered only shrinks and cancelled only rises, so
\* the result is the one an atomic test gives at the last load that is made.
ShouldAdvance(s) ==
    /\ requested[s] > 0
    /\ buffered[s] < HighWatermark
    /\ ~cancelled[s]

-----------------------------------------------------------------------------
(* worker_loop: finding a lease *)

Goto(w, where) == pc' = [pc EXCEPT ![w] = where]

Take(w, s) ==
    /\ lease' = [lease EXCEPT ![w] = s]
    /\ affinity' = [affinity EXCEPT ![s] = w]
    /\ Goto(w, "check")
    /\ UNCHANGED polls

\* The worker has given its lease away, and starts over.
Release(w) ==
    /\ lease' = [lease EXCEPT ![w] = None]
    /\ Goto(w, "local")
    /\ UNCHANGED affinity

MoveOn(w, where) == Goto(w, where) /\ UNCHANGED <<lease, affinity, polls>>

\* A lease enters the deque of worker w.
PushTo(w, s) ==
    /\ deque' = [deque EXCEPT ![w] = Append(@, s)]
    /\ late' = IF shutdown THEN late \union {s} ELSE late

PopLocal(w) ==
    /\ pc[w] = "local"
    /\ \/ /\ deque[w] # <<>>
          /\ Take(w, Last(deque[w]))
          /\ deque' = [deque EXCEPT ![w] = Front(@)]
       \/ /\ deque[w] = <<>>
          /\ MoveOn(w, "steal")
          /\ UNCHANGED deque
    /\ UNCHANGED <<global, parked, shutdown, control, client, history>>

\* The victim is random, and a contended steal fails although there is work.
Steal(w) ==
    /\ pc[w] = "steal"
    /\ \/ \E v \in Workers \ {w} :
             /\ deque[v] # <<>>
             /\ Take(w, Head(deque[v]))
             /\ deque' = [deque EXCEPT ![v] = Tail(@)]
       \/ MoveOn(w, "global") /\ UNCHANGED deque
    /\ UNCHANGED <<global, parked, shutdown, control, client, history>>

PopGlobal(w) ==
    /\ pc[w] = "global"
    /\ \/ /\ global # <<>>
          /\ Take(w, Last(global))
          /\ global' = Front(global)
       \/ /\ global = <<>>
          /\ MoveOn(w, "nowork")
          /\ UNCHANGED global
    /\ UNCHANGED <<deque, parked, shutdown, control, client, history>>

\* Mutants of NoWork: shutdown_ is not looked at; the wait has no timeout.
NoWorkUntilNotified(w) ==
    /\ pc[w] = "nowork"
    /\ shutdown \/ global # <<>>
    /\ MoveOn(w, IF shutdown THEN "drain" ELSE "local")
    /\ UNCHANGED <<queues, shutdown, control, client, history>>

NoWorkIgnoringShutdown(w) ==
    /\ pc[w] = "nowork"
    /\ MoveOn(w, "local")
    /\ UNCHANGED <<queues, shutdown, control, client, history>>

\* The wait ends after 50 microseconds at the latest, with or without a notify.
NoWork(w) ==
    /\ pc[w] = "nowork"
    /\ MoveOn(w, IF shutdown THEN "drain" ELSE "local")
    /\ UNCHANGED <<queues, shutdown, control, client, history>>

-----------------------------------------------------------------------------
(* worker_loop: advancing the stream *)

Drop(w) ==
    /\ dropped' = dropped \union {lease[w]}
    /\ Release(w)

Reap(w) ==
    /\ pc[w] = "check"
    /\ cancelled[lease[w]]
    /\ Drop(w)
    /\ UNCHANGED <<queues, shutdown, polls, control, client, submitted, late, missed>>

NotCancelled(w) ==
    /\ pc[w] = "check"
    /\ ~cancelled[lease[w]]
    /\ MoveOn(w, "demand")
    /\ UNCHANGED <<queues, shutdown, control, client, history>>

\* A stream cancelled since NotCancelled is parked as well.
NoDemand(w) ==
    /\ pc[w] = "demand"
    /\ ~ShouldAdvance(lease[w])
    /\ MoveOn(w, "park")
    /\ UNCHANGED <<queues, shutdown, control, client, history>>

Advance(w) ==
    /\ pc[w] = "demand"
    /\ ShouldAdvance(lease[w])
    /\ MoveOn(w, "poll")
    /\ UNCHANGED <<queues, shutdown, control, client, history>>

\* A wake that came between the decision to park and this found nothing.
Park(w) ==
    /\ pc[w] = "park"
    /\ parked' = parked \union {lease[w]}
    /\ Release(w)
    /\ UNCHANGED <<deque, global, shutdown, polls, control, client, history>>

Polling(w) ==
    /\ pc[w] = "poll"
    /\ polls' = [polls EXCEPT ![lease[w]] = @ + 1]

MorePolls(w) == polls[lease[w]] < MaxPolls

\* poll_fn_ delivers the chunk itself, before on_emit counts it.
PollEmit(w) ==
    /\ Polling(w)
    /\ MorePolls(w)
    /\ output' = [output EXCEPT ![lease[w]] = @ + 1]
    /\ Goto(w, "emitted")
    /\ UNCHANGED <<queues, shutdown, lease, affinity, control, call, history>>

\* Mutant of DispatchEmit: on_emit does not count the chunk.
DispatchEmitUncounted(w) ==
    /\ pc[w] = "emitted"
    /\ requested' = [requested EXCEPT ![lease[w]] = (@ - 1) % Word]
    /\ PushTo(w, lease[w])
    /\ Release(w)
    /\ UNCHANGED <<global, parked, shutdown, polls, buffered, cancelled, client,
                   submitted, dropped, missed>>

\* dispatch_result, Emit: on_emit and requeue.
DispatchEmit(w) ==
    /\ pc[w] = "emitted"
    /\ requested' = [requested EXCEPT ![lease[w]] = (@ - 1) % Word]
    /\ buffered' = [buffered EXCEPT ![lease[w]] = (@ + 1) % Word]
    /\ PushTo(w, lease[w])
    /\ Release(w)
    /\ UNCHANGED <<global, parked, shutdown, polls, cancelled, client,
                   submitted, dropped, missed>>

\* The stream waits for an I/O, an earlier one or a new one, which may complete
\* before the worker parks it.  The wakes of earlier I/O may still be on the way.
PollPending(w) ==
    /\ Polling(w)
    /\ MorePolls(w)
    /\ \E o \in IOs :
          /\ call[o][lease[w]] \in {"none", "started"}
          /\ call' = [call EXCEPT ![o][lease[w]] = "started"]
    /\ Goto(w, "park")
    /\ UNCHANGED <<queues, shutdown, lease, affinity, control, output, history>>

\* Mutant of PollYield: the stream is parked, as if it were Pending.
PollYieldParks(w) ==
    /\ Polling(w)
    /\ MorePolls(w)
    /\ Goto(w, "park")
    /\ UNCHANGED <<queues, shutdown, lease, affinity, control, client, history>>

PollYield(w) ==
    /\ Polling(w)
    /\ MorePolls(w)
    /\ PushTo(w, lease[w])
    /\ Release(w)
    /\ UNCHANGED <<global, parked, shutdown, control, client, submitted, dropped, missed>>

\* Done or Error.
PollEnd(w) ==
    /\ Polling(w)
    /\ Drop(w)
    /\ UNCHANGED <<queues, shutdown, control, client, submitted, late, missed>>

-----------------------------------------------------------------------------
(* drain_remaining *)

\* One poll whatever the demand; its result is ignored and the lease dropped.
Drain(w) ==
    /\ pc[w] = "drain"
    /\ deque[w] # <<>>
    /\ LET s == Last(deque[w]) IN
          /\ deque' = [deque EXCEPT ![w] = Front(@)]
          /\ dropped' = dropped \union {s}
          /\ \/ output' = [output EXCEPT ![s] = @ + 1] /\ UNCHANGED call
             \/ \E o \in IOs :
                   /\ call[o][s] = "none"
                   /\ call' = [call EXCEPT ![o][s] = "started"]
                   /\ UNCHANGED output
             \/ UNCHANGED client
    /\ UNCHANGED <<global, parked, shutdown, worker, control, submitted, late, missed>>

\* Mutant of Exit: the deque is not drained.
ExitAtOnce(w) ==
    /\ pc[w] = "drain"
    /\ MoveOn(w, "exit")
    /\ UNCHANGED <<queues, shutdown, control, client, history>>

Exit(w) ==
    /\ pc[w] = "drain"
    /\ deque[w] = <<>>
    /\ MoveOn(w, "exit")
    /\ UNCHANGED <<queues, shutdown, control, client, history>>

-----------------------------------------------------------------------------
(* The callers of the scheduler *)

Schedule(s) ==
    /\ s \notin submitted
    /\ submitted' = submitted \union {s}
    /\ global' = Append(global, s)
    /\ UNCHANGED <<deque, parked, shutdown, worker, control, client, dropped, late, missed>>

\* A worker_id that is not below num_workers_ is Schedule.
ScheduleAffine(s, w) ==
    /\ s \notin submitted
    /\ submitted' = submitted \union {s}
    /\ PushTo(w, s)
    /\ UNCHANGED <<global, parked, shutdown, worker, control, client, dropped, missed>>

Shutdown ==
    /\ ~shutdown
    /\ shutdown' = TRUE
    /\ UNCHANGED <<queues, worker, control, client, history>>

\* A consumer that grants a credit or takes a chunk calls wake next.
Request(s) ==
    /\ call["consumer"][s] = "none"
    /\ requested[s] < MaxCredits
    /\ requested' = [requested EXCEPT ![s] = (@ + 1) % Word]
    /\ call' = [call EXCEPT !["consumer"][s] = "wake"]
    /\ UNCHANGED <<queues, shutdown, worker, buffered, cancelled, output, history>>

\* Mutant of Consume: a chunk is consumed that was never delivered.
ConsumeNothing(s) ==
    /\ call["consumer"][s] = "none"
    /\ output' = [output EXCEPT ![s] = @ - 1]
    /\ buffered' = [buffered EXCEPT ![s] = (@ - 1) % Word]
    /\ call' = [call EXCEPT !["consumer"][s] = "wake"]
    /\ UNCHANGED <<queues, shutdown, worker, requested, cancelled, history>>

Consume(s) ==
    /\ call["consumer"][s] = "none"
    /\ output[s] > 0
    /\ output' = [output EXCEPT ![s] = @ - 1]
    /\ buffered' = [buffered EXCEPT ![s] = (@ - 1) % Word]
    /\ call' = [call EXCEPT !["consumer"][s] = "wake"]
    /\ UNCHANGED <<queues, shutdown, worker, requested, cancelled, history>>

Cancel(s) ==
    /\ ~cancelled[s]
    /\ cancelled' = [cancelled EXCEPT ![s] = TRUE]
    /\ UNCHANGED <<queues, shutdown, worker, requested, buffered, client, history>>

CompleteIO(s) ==
    /\ \E o \in IOs :
          /\ call[o][s] = "started"
          /\ call' = [call EXCEPT ![o][s] = "wake"]
    /\ UNCHANGED <<queues, shutdown, worker, control, output, history>>

\* Mutant of Wake: the lease is copied out of the parking lot, not moved.
WakeCopies(c, s) ==
    /\ call[c][s] = "wake"
    /\ s \in parked
    /\ call' = [call EXCEPT ![c][s] = "push"]
    /\ missed' = missed \ {s}
    /\ UNCHANGED <<queues, shutdown, worker, control, output, submitted, dropped, late>>

\* wake: the lease leaves the parking lot under the lot's mutex ...
Wake(c, s) ==
    /\ call[c][s] = "wake"
    /\ s \in parked
    /\ parked' = parked \ {s}
    /\ call' = [call EXCEPT ![c][s] = "push"]
    /\ missed' = missed \ {s}
    /\ UNCHANGED <<deque, global, shutdown, worker, control, output, submitted, dropped, late>>

\* ... and is pushed to its worker's deque later, without it.
WakePush(c, s) ==
    /\ call[c][s] = "push"
    /\ PushTo(affinity[s], s)
    /\ call' = [call EXCEPT ![c][s] = "none"]
    /\ UNCHANGED <<global, parked, shutdown, worker, control, output, submitted, dropped, missed>>

\* Nothing is recorded when the stream is not in the parking lot.
WakeNothing(c, s) ==
    /\ call[c][s] = "wake"
    /\ s \notin parked
    /\ call' = [call EXCEPT ![c][s] = "none"]
    /\ missed' = IF \E w \in Workers : lease[w] = s /\ pc[w] = "park"
                 THEN missed \union {s} ELSE missed
    /\ UNCHANGED <<queues, shutdown, worker, control, output, submitted, dropped, late>>

-----------------------------------------------------------------------------
Init ==
    /\ deque = [w \in Workers |-> <<>>]
    /\ global = <<>>
    /\ parked = {}
    /\ shutdown = FALSE
    /\ pc = [w \in Workers |-> "local"]
    /\ lease = [w \in Workers |-> None]
    /\ affinity = [s \in Streams |-> None]
    /\ requested = [s \in Streams |-> 0]
    /\ buffered = [s \in Streams |-> 0]
    /\ cancelled = [s \in Streams |-> FALSE]
    /\ call = [c \in Callers |-> [s \in Streams |-> "none"]]
    /\ output = [s \in Streams |-> 0]
    /\ polls = [s \in Streams |-> 0]
    /\ submitted = {}
    /\ dropped = {}
    /\ late = {}
    /\ missed = {}

Loop(w) ==
    \/ PopLocal(w) \/ Steal(w) \/ PopGlobal(w) \/ NoWork(w)
    \/ Reap(w) \/ NotCancelled(w) \/ NoDemand(w) \/ Advance(w) \/ Park(w)
    \/ PollEmit(w) \/ DispatchEmit(w) \/ PollPending(w) \/ PollYield(w) \/ PollEnd(w)
    \/ Drain(w) \/ Exit(w)

Client(s) ==
    \/ Schedule(s)
    \/ \E w \in Workers : ScheduleAffine(s, w)
    \/ Request(s) \/ Consume(s) \/ Cancel(s) \/ CompleteIO(s)
    \/ \E c \in Callers : Wake(c, s) \/ WakePush(c, s) \/ WakeNothing(c, s)

Next ==
    \/ \E w \in Workers : Loop(w)
    \/ \E s \in Streams : Client(s)
    \/ Shutdown

\* Every worker thread keeps running: its waits have a timeout and its locks
\* are held for a bounded time.  Nothing is assumed of the clients.
Spec == Init /\ [][Next]_vars /\ \A w \in Workers : WF_vars(Loop(w))

-----------------------------------------------------------------------------
(* Properties *)

\* The queues hold streams, the counters are unsigned words, and the program
\* counters and the clients' calls are among those above.
TypeOK ==
    /\ deque \in [Workers -> Seq(Streams)]
    /\ global \in Seq(Streams)
    /\ parked \subseteq Streams
    /\ shutdown \in BOOLEAN
    /\ pc \in [Workers -> {"local", "steal", "global", "nowork", "check", "demand",
                           "park", "poll", "emitted", "drain", "exit"}]
    /\ lease \in [Workers -> Streams \union {None}]
    /\ affinity \in [Streams -> Workers \union {None}]
    /\ requested \in [Streams -> 0..(Word - 1)]
    /\ buffered \in [Streams -> 0..(Word - 1)]
    /\ cancelled \in [Streams -> BOOLEAN]
    /\ call \in [Callers -> [Streams -> {"none", "started", "wake", "push"}]]
    /\ output \in [Streams -> 0..(HighWatermark + 1)]
    /\ polls \in [Streams -> 0..(MaxPolls + 1)]
    /\ submitted \subseteq Streams
    /\ dropped \subseteq submitted
    /\ late \subseteq submitted
    /\ missed \subseteq Streams

\* Where the lease of s is: in a deque, in the global queue, with a worker, with
\* a caller of wake, in the parking lot.
Positions(q, s) == {i \in DOMAIN q : q[i] = s}

Places(s) ==
    (UNION {{<<w, i>> : i \in Positions(deque[w], s)} : w \in Workers})
    \union {<<"global", i>> : i \in Positions(global, s)}
    \union {<<"worker", w>> : w \in {v \in Workers : lease[v] = s}}
    \union {<<"waker", c>> : c \in {d \in Callers : call[d][s] = "push"}}
    \union {<<"parked", x>> : x \in parked \intersect {s}}

\* The lease of a submitted stream is in exactly one place until it is dropped,
\* so no two workers advance the stream at a time and none is forgotten,
\* whoever pops, steals, parks, wakes and drains.
OnePlace ==
    \A s \in Streams :
        Cardinality(Places(s)) = IF s \in submitted \ dropped THEN 1 ELSE 0

\* A parked stream waits for something that will wake it: an I/O, a wake on
\* the way, or its consumer, without whom it may not advance.
Waiting(s) ==
    \/ \E o \in IOs : call[o][s] = "started"
    \/ \E c \in Callers : call[c][s] = "wake"
    \/ ~ShouldAdvance(s)

\* "Pending: blocked on I/O or dependency; continuation registered; wake me."
\* (poll_result.hpp): a parked stream still has a wake coming.  The code breaks
\* this when wake runs between the worker's decision to park and park itself.
NoLostWakeup == \A s \in parked : Waiting(s)

\* That window is the only way to a stream that stays parked for ever: a stream
\* for which no wake came too early is never parked without a cause.
ParkedForACause == \A s \in parked : Waiting(s) \/ s \in missed

\* While a stream has its lease, buffered is the number of chunks that its
\* consumer has not consumed, less the one delivered but not yet counted: the
\* unsigned counter wraps when the consumer is faster than on_emit, and is right
\* again when a worker next calls should_advance.
BufferedExact ==
    \A s \in Streams \ dropped :
        buffered[s] =
            (output[s] - Cardinality({w \in Workers : lease[w] = s /\ pc[w] = "emitted"}))
                % Word

\* requested never wraps below zero, and until shutdown drains the stream, its
\* consumer never has more than the high watermark of chunks waiting.
Backpressure ==
    \A s \in Streams :
        /\ requested[s] <= MaxCredits
        /\ s \notin dropped => output[s] <= HighWatermark

\* A worker leaves nothing in its deque but what was pushed there after
\* shutdown began (schedule_affine and wake do not look at shutdown_).
DrainedAtExit ==
    \A w \in Workers : pc[w] = "exit" => \A i \in DOMAIN deque[w] : deque[w][i] \in late

\* shutdown returns: with finite streams every worker exits, whatever the
\* clients do or leave undone.
ShutdownEnds == shutdown ~> \A w \in Workers : pc[w] = "exit"

Queued(s) == Positions(global, s) # {} \/ \E w \in Workers : Positions(deque[w], s) # {}

\* A lease in a queue is taken out again, though notify_one may wake a worker
\* whose predicate sees only the global queue, and steals may all fail.
QueuedIsTaken == \A s \in Streams : (Queued(s) /\ ~shutdown) ~> (~Queued(s) \/ shutdown)

=============================================================================
