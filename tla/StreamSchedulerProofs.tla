------------------------ MODULE StreamSchedulerProofs ------------------------
(***************************************************************************)
(* Proofs about StreamScheduler, for any number of streams and workers and *)
(* any watermark.                                                          *)
(*                                                                         *)
(* None of the properties is inductive.  OnePlace counts places, and the   *)
(* proof needs to know which one: Located names it, and Distinct, Holds    *)
(* and Affine say that a queue never repeats a lease, that a worker has    *)
(* one exactly while it advances a stream, and that a lease on its way     *)
(* back knows its worker.  Backpressure and BufferedExact need what        *)
(* should_advance saw to be true still when on_emit counts the chunk       *)
(* (Credits): only the worker with the lease takes credits or fills        *)
(* buffers, so they rest on Leases.  ParkedForACause must hold from the    *)
(* decision to park on (Cause), and DrainedAtExit needs that nobody drains *)
(* before shutdown began (Exits).                                          *)
(***************************************************************************)
EXTENDS StreamScheduler, SequenceFacts, FiniteSetTheorems, TLAPS

-----------------------------------------------------------------------------
(* The inductive invariant *)

Holding == {"check", "demand", "park", "poll", "emitted"}
Kinds == {"deque", "global", "worker", "waker", "parked", "nowhere"}
Whos == Workers \union Callers \union {None}

\* The lease of s is in the place (k, x), and in no other.
IsAt(s, k, x) ==
    /\ \A w \in Workers : s \in Range(deque[w]) <=> k = "deque" /\ x = w
    /\ s \in Range(global) <=> k = "global"
    /\ \A w \in Workers : lease[w] = s <=> k = "worker" /\ x = w
    /\ \A c \in Callers : call[c][s] = "push" <=> k = "waker" /\ x = c
    /\ s \in parked <=> k = "parked"
    /\ s \in submitted \ dropped <=> k # "nowhere"
    /\ k = "deque" \/ k = "worker" => x \in Workers
    /\ k = "waker" => x \in Callers

Located == \A s \in Streams : \E k \in Kinds, x \in Whos : IsAt(s, k, x)

Distinct == IsInjective(global) /\ \A w \in Workers : IsInjective(deque[w])

Holds == \A w \in Workers : lease[w] # None <=> pc[w] \in Holding

\* A stream that has been taken once knows a worker to be woken on.
Taken(s) ==
    \/ s \in parked
    \/ \E c \in Callers : call[c][s] = "push"
    \/ \E w \in Workers : lease[w] = s

Affine == \A s \in Streams : Taken(s) => affinity[s] \in Workers

Leases == Located /\ Distinct /\ Holds /\ Affine

\* The credit that should_advance saw is there until on_emit takes it, and
\* the room below the watermark until poll_fn_ fills it.
Credits ==
    /\ \A s \in Streams : requested[s] <= MaxCredits
    /\ \A w \in Workers : pc[w] \in {"poll", "emitted"} => requested[lease[w]] > 0
    /\ \A w \in Workers : pc[w] = "poll" => output[lease[w]] < HighWatermark

Emitted(s) == \E w \in Workers : lease[w] = s /\ pc[w] = "emitted"

Counted ==
    \A s \in Streams \ dropped :
        /\ output[s] <= HighWatermark
        /\ polls[s] <= MaxPolls
        /\ buffered[s] = IF ~Emitted(s) THEN output[s]
                         ELSE IF output[s] = 0 THEN Word - 1 ELSE output[s] - 1

Counters == Credits /\ Counted

\* What holds of a parked stream holds as soon as its worker decides to park.
Cause ==
    /\ ParkedForACause
    /\ \A w \in Workers : pc[w] = "park" => Waiting(lease[w]) \/ lease[w] \in missed

Exits ==
    /\ \A w \in Workers : pc[w] \in {"drain", "exit"} => shutdown
    /\ DrainedAtExit

IInv == TypeOK /\ Leases /\ Counters /\ Cause /\ Exits

-----------------------------------------------------------------------------
(* Where the leases are *)

\* All that says where the lease of t is stays as it is.
Stays(t) ==
    /\ \A w \in Workers : t \in Range(deque'[w]) <=> t \in Range(deque[w])
    /\ t \in Range(global') <=> t \in Range(global)
    /\ \A w \in Workers : lease'[w] = t <=> lease[w] = t
    /\ \A c \in Callers : call'[c][t] = "push" <=> call[c][t] = "push"
    /\ t \in parked' <=> t \in parked
    /\ t \in submitted' \ dropped' <=> t \in submitted \ dropped

\* At most one lease is moved, to the place (k, x).
LEMMA Move ==
    ASSUME Located, NEW s \in Streams, NEW k \in Kinds, NEW x \in Whos, IsAt(s, k, x)',
           \A t \in Streams \ {s} : Stays(t)
    PROVE  Located'
<1> SUFFICES ASSUME NEW t \in Streams PROVE \E l \in Kinds, y \in Whos : IsAt(t, l, y)'
  BY DEF Located
<1>1. CASE t = s
  BY <1>1
<1>2. CASE t # s
  <2>1. PICK l \in Kinds, y \in Whos : IsAt(t, l, y)
    BY DEF Located
  <2>2. Stays(t)
    BY <1>2
  <2>3. IsAt(t, l, y)'
    BY <2>1, <2>2 DEF IsAt, Stays
  <2> QED BY <2>3
<1> QED BY <1>1, <1>2

\* No lease is moved.
LEMMA Stay ==
    ASSUME Located, \A t \in Streams : Stays(t)
    PROVE  Located'
<1> SUFFICES ASSUME NEW t \in Streams PROVE \E l \in Kinds, y \in Whos : IsAt(t, l, y)'
  BY DEF Located
<1>1. PICK l \in Kinds, y \in Whos : IsAt(t, l, y)
  BY DEF Located
<1>2. IsAt(t, l, y)'
  BY <1>1 DEF IsAt, Stays
<1> QED BY <1>2

\* A worker takes a lease out of a deque.
LEMMA TakeFromDeque ==
    ASSUME TypeOK, Leases, NEW w \in Workers, NEW v \in Workers, NEW s \in Streams,
           NEW q \in Seq(Streams), pc[w] \notin Holding,
           Take(w, s), deque' = [deque EXCEPT ![v] = q],
           Range(deque[v]) = Range(q) \union {s}, s \notin Range(q), IsInjective(q),
           UNCHANGED <<global, parked, call, submitted, dropped>>
    PROVE  Leases'
<1>1. lease[w] = None /\ None \notin Streams
  BY ConstantsAssumption DEF Leases, Holds
<1>2. IsAt(s, "deque", v)
  BY DEF Leases, Located, IsAt
<1>3. IsAt(s, "worker", w)'
  BY <1>1, <1>2 DEF IsAt, Take, TypeOK
<1>4. \A t \in Streams \ {s} : Stays(t)
  BY <1>1 DEF Stays, Take, TypeOK
<1>5. Located'
  BY <1>3, <1>4, Move DEF Kinds, Whos, Leases
<1>6. Distinct' /\ Holds' /\ Affine'
  BY <1>1 DEF Leases, Distinct, Holds, Affine, Taken, Take, Goto, Holding, TypeOK
<1> QED BY <1>5, <1>6 DEF Leases

\* A worker takes a lease out of the global queue.
LEMMA TakeFromGlobal ==
    ASSUME TypeOK, Leases, NEW w \in Workers, NEW s \in Streams,
           pc[w] \notin Holding, Take(w, s),
           Range(global) = Range(global') \union {s}, s \notin Range(global'),
           IsInjective(global'), UNCHANGED <<deque, parked, call, submitted, dropped>>
    PROVE  Leases'
<1>1. lease[w] = None /\ None \notin Streams
  BY ConstantsAssumption DEF Leases, Holds
<1>2. \E x \in Whos : IsAt(s, "global", x)
  BY DEF Leases, Located, IsAt
<1>3. IsAt(s, "worker", w)'
  BY <1>1, <1>2 DEF IsAt, Take, TypeOK
<1>4. \A t \in Streams \ {s} : Stays(t)
  BY <1>1 DEF Stays, Take, TypeOK
<1>5. Located'
  BY <1>3, <1>4, Move DEF Kinds, Whos, Leases
<1>6. Distinct' /\ Holds' /\ Affine'
  BY <1>1 DEF Leases, Distinct, Holds, Affine, Taken, Take, Goto, Holding, TypeOK
<1> QED BY <1>5, <1>6 DEF Leases

\* A lease that is not in a deque enters one.
LEMMA PushFacts ==
    ASSUME TypeOK, Distinct, NEW w \in Workers, NEW s \in Streams, PushTo(w, s),
           \A v \in Workers : s \notin Range(deque[v])
    PROVE  /\ deque' \in [Workers -> Seq(Streams)]
           /\ \A v \in Workers : Range(deque'[v]) = IF v = w THEN Range(deque[v]) \union {s}
                                                             ELSE Range(deque[v])
           /\ \A v \in Workers : IsInjective(deque'[v])
<1>1. /\ Append(deque[w], s) \in Seq(Streams)
      /\ Range(Append(deque[w], s)) = Range(deque[w]) \union {s}
      /\ IsInjective(Append(deque[w], s))
  BY AppendFacts DEF TypeOK, Distinct
<1> QED BY <1>1 DEF PushTo, TypeOK, Distinct

\* A worker holds a stream while it advances it.
LEMMA HeldStream ==
    ASSUME TypeOK, Leases, NEW w \in Workers, pc[w] \in Holding
    PROVE  lease[w] \in Streams /\ IsAt(lease[w], "worker", w) /\ affinity[lease[w]] \in Workers
<1>1. lease[w] \in Streams
  BY DEF Leases, Holds, TypeOK
<1>2. IsAt(lease[w], "worker", w)
  BY <1>1 DEF Leases, Located, IsAt
<1>3. affinity[lease[w]] \in Workers
  BY <1>1 DEF Leases, Affine, Taken
<1> QED BY <1>1, <1>2, <1>3

\* A worker puts its lease back into its deque.
LEMMA Requeue ==
    ASSUME TypeOK, Leases, NEW w \in Workers, pc[w] \in Holding,
           PushTo(w, lease[w]), Release(w),
           UNCHANGED <<global, parked, call, submitted, dropped>>
    PROVE  Leases' /\ deque' \in [Workers -> Seq(Streams)]
<1>0. PICK s \in Streams : s = lease[w]
  BY HeldStream DEF Park, Holding
<1>1. s = lease[w] /\ s \in Streams /\ IsAt(s, "worker", w) /\ None \notin Streams
  BY <1>0, HeldStream, ConstantsAssumption
<1>2. /\ deque' \in [Workers -> Seq(Streams)]
      /\ \A v \in Workers : Range(deque'[v]) = IF v = w THEN Range(deque[v]) \union {s}
                                                        ELSE Range(deque[v])
      /\ \A v \in Workers : IsInjective(deque'[v])
  BY <1>1, PushFacts DEF Leases, IsAt
<1>3. IsAt(s, "deque", w)'
  BY <1>1, <1>2 DEF IsAt, Release, TypeOK
<1>4. \A t \in Streams \ {s} : Stays(t)
  BY <1>1, <1>2 DEF Stays, Release, TypeOK
<1>5. Located'
  BY <1>1, <1>3, <1>4, Move DEF Kinds, Whos, Leases
<1>6. Distinct' /\ Holds' /\ Affine'
  BY <1>1, <1>2 DEF Leases, Distinct, Holds, Affine, Taken, Release, Goto, Holding, TypeOK
<1> QED BY <1>2, <1>5, <1>6 DEF Leases

\* A worker drops its lease.
LEMMA DropLease ==
    ASSUME TypeOK, Leases, NEW w \in Workers, pc[w] \in Holding, Drop(w),
           UNCHANGED <<deque, global, parked, call, submitted>>
    PROVE  Leases'
<1>0. PICK s \in Streams : s = lease[w]
  BY HeldStream DEF Park, Holding
<1>1. s = lease[w] /\ s \in Streams /\ IsAt(s, "worker", w) /\ None \notin Streams
  BY <1>0, HeldStream, ConstantsAssumption
<1>3. IsAt(s, "nowhere", None)'
  BY <1>1 DEF IsAt, Drop, Release, TypeOK
<1>4. \A t \in Streams \ {s} : Stays(t)
  BY <1>1 DEF Stays, Drop, Release, TypeOK
<1>5. Located'
  BY <1>1, <1>3, <1>4, Move DEF Kinds, Whos, Leases
<1>6. Distinct' /\ Holds' /\ Affine'
  BY <1>1 DEF Leases, Distinct, Holds, Affine, Taken, Drop, Release, Goto, Holding, TypeOK
<1> QED BY <1>5, <1>6 DEF Leases

\* A worker parks its lease.
LEMMA ParkLease ==
    ASSUME TypeOK, Leases, NEW w \in Workers, Park(w)
    PROVE  Leases'
<1>0. PICK s \in Streams : s = lease[w]
  BY HeldStream DEF Park, Holding
<1>1. s = lease[w] /\ s \in Streams /\ IsAt(s, "worker", w) /\ affinity[s] \in Workers /\ None \notin Streams
  BY <1>0, HeldStream, ConstantsAssumption DEF Park, Holding
<1>2. UNCHANGED <<deque, global, call, submitted, dropped, affinity>>
  BY DEF Park, Release, client, history
<1>3. IsAt(s, "parked", None)'
  BY <1>1, <1>2 DEF IsAt, Park, Release, TypeOK
<1>4. \A t \in Streams \ {s} : Stays(t)
  BY <1>1, <1>2 DEF Stays, Park, Release, TypeOK
<1>5. Located'
  BY <1>1, <1>3, <1>4, Move DEF Kinds, Whos, Leases
<1>6. Distinct' /\ Holds' /\ Affine'
  BY <1>1, <1>2 DEF Leases, Distinct, Holds, Affine, Taken, Park, Release, Goto, Holding, TypeOK
<1> QED BY <1>5, <1>6 DEF Leases

\* A worker drops the newest lease of its deque.
LEMMA DrainLease ==
    ASSUME TypeOK, Leases, NEW w \in Workers, Drain(w)
    PROVE  Leases' /\ deque' \in [Workers -> Seq(Streams)]
<1>0. PICK s \in Streams : s = Last(deque[w])
  BY FrontFacts DEF Drain, TypeOK, Leases, Distinct
<1>1. /\ s = Last(deque[w])
      /\ s \in Streams /\ Front(deque[w]) \in Seq(Streams)
      /\ Range(deque[w]) = Range(Front(deque[w])) \union {s}
      /\ s \notin Range(Front(deque[w])) /\ IsInjective(Front(deque[w]))
  BY <1>0, FrontFacts DEF Drain, TypeOK, Leases, Distinct
<1>2. /\ deque' = [deque EXCEPT ![w] = Front(deque[w])]
      /\ dropped' = dropped \union {s}
      /\ UNCHANGED <<global, parked, lease, pc, affinity, submitted>>
      /\ \A c \in Callers, t \in Streams : call'[c][t] = "push" <=> call[c][t] = "push"
  <2>1. /\ deque' = [deque EXCEPT ![w] = Front(deque[w])]
        /\ dropped' = dropped \union {s}
    BY <1>1 DEF Drain
  <2>2. UNCHANGED <<global, parked, lease, pc, affinity, submitted>>
    BY DEF Drain, worker
  <2>3. ASSUME NEW c \in Callers, NEW t \in Streams
        PROVE  call'[c][t] = "push" <=> call[c][t] = "push"
    <3>1. \/ call' = call
          \/ \E o \in IOs :
                /\ call[o][Last(deque[w])] = "none"
                /\ call' = [call EXCEPT ![o][Last(deque[w])] = "started"]
      BY DEF Drain, client
    <3>2. ASSUME NEW o \in IOs, call[o][s] = "none",
                 call' = [call EXCEPT ![o][s] = "started"]
          PROVE  call'[c][t] = "push" <=> call[c][t] = "push"
      <4>1. call'[c] = IF c = o THEN [call[o] EXCEPT ![s] = "started"] ELSE call[c]
        BY <3>2 DEF TypeOK
      <4> QED BY <3>2, <4>1 DEF TypeOK, Callers
    <3> QED BY <1>1, <3>1, <3>2
  <2> QED BY <2>1, <2>2, <2>3
<1>3. IsAt(s, "deque", w)
  BY <1>1 DEF Leases, Located, IsAt
<1>4. IsAt(s, "nowhere", None)'
  BY <1>1, <1>2, <1>3 DEF IsAt, TypeOK
<1>5. \A t \in Streams \ {s} : Stays(t)
  BY <1>1, <1>2 DEF Stays, TypeOK
<1>6. Located'
  BY <1>1, <1>4, <1>5, Move DEF Kinds, Whos, Leases
<1>7. Distinct' /\ Holds' /\ Affine'
  BY <1>1, <1>2 DEF Leases, Distinct, Holds, Affine, Taken, TypeOK
<1> QED BY <1>1, <1>2, <1>6, <1>7 DEF Leases, TypeOK

\* A stream is given to the scheduler, which puts it into the global queue.
LEMMA ScheduleLease ==
    ASSUME TypeOK, Leases, NEW s \in Streams, Schedule(s)
    PROVE  Leases' /\ global' \in Seq(Streams)
<1>1. IsAt(s, "nowhere", None)
  BY DEF Schedule, Leases, Located, IsAt
<1>2. /\ global' \in Seq(Streams) /\ Range(global') = Range(global) \union {s}
      /\ IsInjective(global')
  BY <1>1, AppendFacts DEF Schedule, IsAt, TypeOK, Leases, Distinct
<1>3. /\ submitted' = submitted \union {s} /\ s \notin dropped
      /\ UNCHANGED <<deque, parked, lease, pc, affinity, call, dropped>>
  BY DEF Schedule, worker, client, TypeOK
<1>4. IsAt(s, "global", None)'
  BY <1>1, <1>2, <1>3 DEF IsAt
<1>5. \A t \in Streams \ {s} : Stays(t)
  BY <1>2, <1>3 DEF Stays
<1>6. Located'
  BY <1>4, <1>5, Move DEF Kinds, Whos, Leases
<1>7. Distinct' /\ Holds' /\ Affine'
  BY <1>2, <1>3 DEF Leases, Distinct, Holds, Affine, Taken
<1> QED BY <1>2, <1>6, <1>7 DEF Leases

\* A stream is given to the scheduler, which puts it into the deque of a worker.
LEMMA ScheduleAffineLease ==
    ASSUME TypeOK, Leases, NEW s \in Streams, NEW w \in Workers, ScheduleAffine(s, w)
    PROVE  Leases' /\ deque' \in [Workers -> Seq(Streams)]
<1>1. IsAt(s, "nowhere", None)
  BY DEF ScheduleAffine, Leases, Located, IsAt
<1>2. /\ deque' \in [Workers -> Seq(Streams)]
      /\ \A v \in Workers : Range(deque'[v]) = IF v = w THEN Range(deque[v]) \union {s}
                                                        ELSE Range(deque[v])
      /\ \A v \in Workers : IsInjective(deque'[v])
  BY <1>1, PushFacts DEF ScheduleAffine, Leases, IsAt
<1>3. /\ submitted' = submitted \union {s} /\ s \notin dropped
      /\ UNCHANGED <<global, parked, lease, pc, affinity, call, dropped>>
  BY DEF ScheduleAffine, worker, client, TypeOK
<1>4. IsAt(s, "deque", w)'
  BY <1>1, <1>2, <1>3 DEF IsAt
<1>5. \A t \in Streams \ {s} : Stays(t)
  BY <1>2, <1>3 DEF Stays
<1>6. Located'
  BY <1>4, <1>5, Move DEF Kinds, Whos, Leases
<1>7. Distinct' /\ Holds' /\ Affine'
  BY <1>2, <1>3 DEF Leases, Distinct, Holds, Affine, Taken
<1> QED BY <1>2, <1>6, <1>7 DEF Leases

\* A caller of wake takes a lease out of the parking lot.
LEMMA WakeLease ==
    ASSUME TypeOK, Leases, NEW c \in Callers, NEW s \in Streams, Wake(c, s)
    PROVE  Leases'
<1>1. \E x \in Whos : IsAt(s, "parked", x)
  BY DEF Wake, Leases, Located, IsAt
<1>2. /\ parked' = parked \ {s}
      /\ call' = [call EXCEPT ![c][s] = "push"]
      /\ UNCHANGED <<deque, global, lease, pc, affinity, submitted, dropped>>
  BY DEF Wake, worker
<1>3. \A d \in Callers, t \in Streams :
         call'[d][t] = IF d = c /\ t = s THEN "push" ELSE call[d][t]
  BY <1>2 DEF TypeOK
<1>4. IsAt(s, "waker", c)'
  BY <1>1, <1>2, <1>3 DEF IsAt
<1>5. \A t \in Streams \ {s} : Stays(t)
  BY <1>2, <1>3 DEF Stays
<1>6. Located'
  BY <1>4, <1>5, Move DEF Kinds, Whos, Leases
<1>7. Distinct' /\ Holds'
  BY <1>2 DEF Leases, Distinct, Holds
<1>8. Affine'
  <2>1. \A t \in Streams : Taken(t)' => Taken(t)
    BY <1>2, <1>3 DEF Wake, Taken
  <2> QED BY <1>2, <2>1 DEF Leases, Affine
<1> QED BY <1>6, <1>7, <1>8 DEF Leases

\* A caller of wake pushes the lease to the worker that had it last.
LEMMA WakePushLease ==
    ASSUME TypeOK, Leases, NEW c \in Callers, NEW s \in Streams, WakePush(c, s)
    PROVE  Leases' /\ deque' \in [Workers -> Seq(Streams)] /\ affinity[s] \in Workers
<1>0. PICK w \in Workers : w = affinity[s]
  BY DEF WakePush, Leases, Affine, Taken
<1>1. IsAt(s, "waker", c)
  BY DEF WakePush, Leases, Located, IsAt
<1>2. /\ deque' \in [Workers -> Seq(Streams)]
      /\ \A v \in Workers : Range(deque'[v]) = IF v = w THEN Range(deque[v]) \union {s}
                                                        ELSE Range(deque[v])
      /\ \A v \in Workers : IsInjective(deque'[v])
  BY <1>0, <1>1, PushFacts DEF WakePush, Leases, IsAt
<1>3. /\ call' = [call EXCEPT ![c][s] = "none"]
      /\ UNCHANGED <<global, parked, lease, pc, affinity, submitted, dropped>>
  BY DEF WakePush, worker
<1>4. \A d \in Callers, t \in Streams :
         call'[d][t] = IF d = c /\ t = s THEN "none" ELSE call[d][t]
  BY <1>3 DEF TypeOK
<1>5. IsAt(s, "deque", w)'
  BY <1>1, <1>2, <1>3, <1>4 DEF IsAt
<1>6. \A t \in Streams \ {s} : Stays(t)
  BY <1>2, <1>3, <1>4 DEF Stays
<1>7. Located'
  BY <1>5, <1>6, Move DEF Kinds, Whos, Leases
<1>8. Distinct' /\ Holds'
  BY <1>2, <1>3 DEF Leases, Distinct, Holds
<1>9. Affine'
  <2>1. \A t \in Streams : Taken(t)' => Taken(t)
    BY <1>3, <1>4 DEF Taken
  <2> QED BY <1>3, <2>1 DEF Leases, Affine
<1> QED BY <1>0, <1>2, <1>7, <1>8, <1>9 DEF Leases

\* No lease is moved, and a worker advances a stream if it did before.
LEMMA KeepLeases ==
    ASSUME TypeOK, Leases,
           UNCHANGED <<deque, global, parked, lease, affinity, submitted, dropped>>,
           \A v \in Workers : pc'[v] \in Holding <=> pc[v] \in Holding,
           \A c \in Callers, t \in Streams : call'[c][t] = "push" <=> call[c][t] = "push"
    PROVE  Leases'
<1>1. \A t \in Streams : Stays(t)
  BY DEF Stays
<1>2. Located'
  BY <1>1, Stay DEF Leases
<1>3. Distinct' /\ Holds'
  BY DEF Leases, Distinct, Holds
<1>4. \A t \in Streams : Taken(t)' => Taken(t)
  BY DEF Taken
<1>5. Affine'
  BY <1>4 DEF Leases, Affine
<1> QED BY <1>2, <1>3, <1>5 DEF Leases

Queues == deque \in [Workers -> Seq(Streams)] /\ global \in Seq(Streams)

\* What a worker does keeps every lease in its one place.
LEMMA LoopLeases ==
    ASSUME TypeOK, Leases, NEW w \in Workers, Loop(w)
    PROVE  Leases' /\ Queues'
<1> USE DEF Queues
<1>1. CASE PopLocal(w)
  <2>1. CASE deque[w] # <<>>
    <3>1. /\ Last(deque[w]) \in Streams /\ Front(deque[w]) \in Seq(Streams)
          /\ Range(deque[w]) = Range(Front(deque[w])) \union {Last(deque[w])}
          /\ Last(deque[w]) \notin Range(Front(deque[w])) /\ IsInjective(Front(deque[w]))
      <4>1. deque[w] \in Seq(Streams) /\ IsInjective(deque[w])
        BY DEF TypeOK, Leases, Distinct
      <4> QED BY <2>1, <4>1, FrontFacts
    <3>2. /\ pc[w] \notin Holding
          /\ Take(w, Last(deque[w])) /\ deque' = [deque EXCEPT ![w] = Front(deque[w])]
          /\ UNCHANGED <<global, parked, call, submitted, dropped>>
      BY <1>1, <2>1 DEF PopLocal, Holding, client, history
    <3>3. Leases'
      BY <3>1, <3>2, TakeFromDeque
    <3> QED BY <3>1, <3>2, <3>3 DEF TypeOK
  <2>2. CASE deque[w] = <<>>
    BY <1>1, <2>2, KeepLeases DEF PopLocal, MoveOn, Goto, Holding, client, history, TypeOK
  <2> QED BY <2>1, <2>2
<1>2. CASE Steal(w)
  <2>1. ASSUME NEW v \in Workers \ {w}, deque[v] # <<>>, Take(w, Head(deque[v])),
               deque' = [deque EXCEPT ![v] = Tail(deque[v])]
        PROVE  Leases' /\ Queues'
    <3>1. /\ Head(deque[v]) \in Streams /\ Tail(deque[v]) \in Seq(Streams)
          /\ Range(deque[v]) = Range(Tail(deque[v])) \union {Head(deque[v])}
          /\ Head(deque[v]) \notin Range(Tail(deque[v])) /\ IsInjective(Tail(deque[v]))
      BY <2>1, TailFacts DEF TypeOK, Leases, Distinct
    <3>2. /\ pc[w] \notin Holding
          /\ UNCHANGED <<global, parked, call, submitted, dropped>>
      BY <1>2 DEF Steal, Holding, client, history
    <3>3. Leases'
      BY <2>1, <3>1, <3>2, TakeFromDeque
    <3> QED BY <2>1, <3>1, <3>2, <3>3 DEF TypeOK
  <2>2. CASE MoveOn(w, "global") /\ UNCHANGED deque
    BY <1>2, <2>2, KeepLeases DEF Steal, MoveOn, Goto, Holding, client, history, TypeOK
  <2> QED BY <1>2, <2>1, <2>2 DEF Steal
<1>3. CASE PopGlobal(w)
  <2>1. CASE global # <<>>
    <3>1. /\ Last(global) \in Streams /\ Front(global) \in Seq(Streams)
          /\ Range(global) = Range(Front(global)) \union {Last(global)}
          /\ Last(global) \notin Range(Front(global)) /\ IsInjective(Front(global))
      BY <2>1, FrontFacts DEF TypeOK, Leases, Distinct
    <3>2. /\ pc[w] \notin Holding
          /\ Take(w, Last(global)) /\ global' = Front(global)
          /\ UNCHANGED <<deque, parked, call, submitted, dropped>>
      BY <1>3, <2>1 DEF PopGlobal, Holding, client, history
    <3>3. Leases'
      BY <3>1, <3>2, TakeFromGlobal
    <3> QED BY <3>1, <3>2, <3>3 DEF TypeOK
  <2>2. CASE global = <<>>
    BY <1>3, <2>2, KeepLeases DEF PopGlobal, MoveOn, Goto, Holding, client, history, TypeOK
  <2> QED BY <2>1, <2>2
<1>4. CASE NoWork(w) \/ NotCancelled(w) \/ NoDemand(w) \/ Advance(w) \/ Exit(w)
  BY <1>4, KeepLeases DEF NoWork, NotCancelled, NoDemand, Advance, Exit, MoveOn, Goto,
     Holding, queues, client, history, TypeOK
<1>5. CASE Reap(w)
  <2>1. pc[w] \in Holding /\ Drop(w) /\ UNCHANGED <<deque, global, parked, call, submitted>>
    BY <1>5 DEF Reap, Holding, queues, client
  <2> QED BY <2>1, DropLease DEF TypeOK
<1>6. CASE Park(w)
  BY <1>6, ParkLease DEF Park, TypeOK
<1>7. CASE PollEmit(w)
  BY <1>7, KeepLeases DEF PollEmit, Polling, Goto, Holding, queues, history, TypeOK
<1>8. CASE DispatchEmit(w) \/ PollYield(w)
  <2>1. /\ pc[w] \in Holding /\ PushTo(w, lease[w]) /\ Release(w)
        /\ UNCHANGED <<global, parked, call, submitted, dropped>>
    BY <1>8 DEF DispatchEmit, PollYield, Polling, Holding, client
  <2> QED BY <2>1, Requeue DEF TypeOK
<1>9. CASE PollPending(w)
  <2>1. lease[w] \in Streams
    BY <1>9, HeldStream DEF PollPending, Polling, Holding
  <2>2. /\ \A v \in Workers : pc'[v] \in Holding <=> pc[v] \in Holding
        /\ UNCHANGED <<deque, global, parked, lease, affinity, submitted, dropped>>
    BY <1>9 DEF PollPending, Polling, Goto, Holding, queues, history, TypeOK
  <2>3. \A c \in Callers, t \in Streams :
           \/ call'[c][t] = call[c][t]
           \/ call[c][t] \in {"none", "started"} /\ call'[c][t] = "started"
    BY <1>9, <2>1 DEF PollPending, Callers, TypeOK
  <2>4. \A c \in Callers, t \in Streams : call'[c][t] = "push" <=> call[c][t] = "push"
    BY <2>3
  <2> QED BY <2>2, <2>4, KeepLeases DEF TypeOK
<1>10. CASE PollEnd(w)
  <2>1. pc[w] \in Holding /\ Drop(w) /\ UNCHANGED <<deque, global, parked, call, submitted>>
    BY <1>10 DEF PollEnd, Polling, Holding, queues, client
  <2> QED BY <2>1, DropLease DEF TypeOK
<1>11. CASE Drain(w)
  BY <1>11, DrainLease DEF Drain, TypeOK
<1> QED BY <1>1, <1>2, <1>3, <1>4, <1>5, <1>6, <1>7, <1>8, <1>9, <1>10, <1>11 DEF Loop

\* So do the calls of the consumers and of the I/O.
LEMMA ClientLeases ==
    ASSUME TypeOK, Leases, NEW s \in Streams, Client(s)
    PROVE  Leases' /\ Queues'
<1> USE DEF Queues
<1>1. CASE Schedule(s)
  BY <1>1, ScheduleLease DEF Schedule, TypeOK
<1>2. ASSUME NEW w \in Workers, ScheduleAffine(s, w) PROVE Leases' /\ Queues'
  BY <1>2, ScheduleAffineLease DEF ScheduleAffine, TypeOK
<1>3. CASE Request(s) \/ Consume(s) \/ CompleteIO(s)
  <2>1. UNCHANGED <<deque, global, parked, pc, lease, affinity, submitted, dropped>>
    BY <1>3 DEF Request, Consume, CompleteIO, queues, worker, history
  <2>2. ASSUME NEW c \in Callers, NEW t \in Streams
        PROVE  call'[c][t] = "push" <=> call[c][t] = "push"
    <3>1. PICK o \in Callers : /\ call[o][s] \in {"none", "started"}
                              /\ call' = [call EXCEPT ![o][s] = "wake"]
      BY <1>3 DEF Request, Consume, CompleteIO, Callers
    <3>2. call'[c] = IF c = o THEN [call[o] EXCEPT ![s] = "wake"] ELSE call[c]
      BY <3>1 DEF TypeOK
    <3> QED BY <3>1, <3>2 DEF TypeOK
  <2> QED BY <2>1, <2>2, KeepLeases DEF TypeOK
<1>4. CASE Cancel(s)
  BY <1>4, KeepLeases DEF Cancel, queues, worker, client, history, TypeOK
<1>5. ASSUME NEW c \in Callers, Wake(c, s) PROVE Leases' /\ Queues'
  BY <1>5, WakeLease DEF Wake, TypeOK
<1>6. ASSUME NEW c \in Callers, WakePush(c, s) PROVE Leases' /\ Queues'
  BY <1>6, WakePushLease DEF WakePush, TypeOK
<1>7. ASSUME NEW c \in Callers, WakeNothing(c, s) PROVE Leases' /\ Queues'
  <2>1. UNCHANGED <<deque, global, parked, pc, lease, affinity, submitted, dropped>>
    BY <1>7 DEF WakeNothing, queues, worker
  <2>2. ASSUME NEW d \in Callers, NEW t \in Streams
        PROVE  call'[d][t] = "push" <=> call[d][t] = "push"
    <3>1. \/ call'[d][t] = call[d][t]
          \/ call[d][t] = "wake" /\ call'[d][t] = "none"
      BY <1>7 DEF WakeNothing, TypeOK
    <3> QED BY <3>1
  <2> QED BY <2>1, <2>2, KeepLeases DEF TypeOK
<1> QED BY <1>1, <1>2, <1>3, <1>4, <1>5, <1>6, <1>7 DEF Client

-----------------------------------------------------------------------------
(* Types and counters *)

\* What the unsigned arithmetic of StreamControl computes.
LEMMA WordFacts ==
    /\ \A a \in Int : a % Word \in 0..(Word - 1)
    /\ \A a \in 0..(Word - 1) : a % Word = a
    /\ Word % Word = 0 /\ (0 - 1) % Word = Word - 1
<1>1. Word \in Nat /\ Word > 1
  BY ConstantsAssumption
<1> QED BY <1>1

\* The stream a worker holds is submitted, and not dropped.
LEMMA HeldLives ==
    ASSUME TypeOK, Leases, NEW w \in Workers, pc[w] \in Holding
    PROVE  lease[w] \in Streams /\ lease[w] \in submitted \ dropped
BY HeldStream DEF IsAt

Pcs == {"local", "steal", "global", "nowork", "check", "demand", "park", "poll", "emitted",
        "drain", "exit"}
Calls == [Callers -> [Streams -> {"none", "started", "wake", "push"}]]

\* The types of what a worker keeps, when it takes a lease or goes on without.
LEMMA TakeType ==
    ASSUME TypeOK, NEW w \in Workers,
           \/ \E s \in Streams : Take(w, s)
           \/ \E l \in Pcs : MoveOn(w, l)
    PROVE  /\ pc' \in [Workers -> Pcs]
           /\ lease' \in [Workers -> Streams \union {None}]
           /\ affinity' \in [Streams -> Workers \union {None}]
           /\ UNCHANGED polls
<1>1. pc \in [Workers -> Pcs]
  BY DEF TypeOK, Pcs
<1>2. ASSUME NEW s \in Streams, Take(w, s)
      PROVE  /\ pc' \in [Workers -> Pcs]
             /\ lease' \in [Workers -> Streams \union {None}]
             /\ affinity' \in [Streams -> Workers \union {None}]
             /\ UNCHANGED polls
  <2>1. "check" \in Pcs
    BY DEF Pcs
  <2> QED BY <1>1, <1>2, <2>1 DEF TypeOK, Take, Goto
<1>3. ASSUME NEW l \in Pcs, MoveOn(w, l)
      PROVE  /\ pc' \in [Workers -> Pcs]
             /\ UNCHANGED <<lease, affinity, polls>>
  BY <1>1, <1>3 DEF MoveOn, Goto
<1> QED BY <1>2, <1>3 DEF TypeOK

\* The types of what the callers of wake keep.
LEMMA CallType ==
    ASSUME TypeOK, NEW c \in Callers, NEW s \in Streams,
           NEW a \in {"none", "started", "wake", "push"},
           call' = [call EXCEPT ![c][s] = a]
    PROVE  call' \in Calls
<1>1. call \in Calls /\ call[c] \in [Streams -> {"none", "started", "wake", "push"}]
  BY DEF TypeOK, Calls
<1>2. [call[c] EXCEPT ![s] = a] \in [Streams -> {"none", "started", "wake", "push"}]
  BY <1>1
<1>3. call' = [call EXCEPT ![c] = [call[c] EXCEPT ![s] = a]]
  OBVIOUS
<1> QED BY <1>1, <1>2, <1>3 DEF Calls

\* A step of a worker keeps the types.
LEMMA LoopType ==
    ASSUME TypeOK, Leases, Counters, NEW w \in Workers, Loop(w)
    PROVE  TypeOK'
<1>1. Queues'
  BY LoopLeases
<1> USE <1>1 DEF Queues
<1>2. CASE PopLocal(w)
  <2>1. deque[w] # <<>> => Last(deque[w]) \in Streams
    <3>1. deque[w] \in Seq(Streams)
      BY DEF TypeOK
    <3> QED BY <3>1, FrontFacts
  <2> QED BY <1>2, <2>1, TakeType DEF PopLocal, Pcs, control, client, history, TypeOK
<1>3. CASE Steal(w)
  <2>1. \A v \in Workers : deque[v] # <<>> => Head(deque[v]) \in Streams
    BY TailFacts DEF TypeOK
  <2> QED BY <1>3, <2>1, TakeType DEF Steal, Pcs, control, client, history, TypeOK
<1>4. CASE PopGlobal(w)
  <2>1. global # <<>> => Last(global) \in Streams
    BY FrontFacts DEF TypeOK
  <2> QED BY <1>4, <2>1, TakeType DEF PopGlobal, Pcs, control, client, history, TypeOK
<1>5. CASE NoWork(w) \/ NotCancelled(w) \/ NoDemand(w) \/ Advance(w) \/ Exit(w)
  BY <1>5 DEF NoWork, NotCancelled, NoDemand, Advance, Exit, MoveOn, Goto,
     queues, control, client, history, TypeOK
<1>6. CASE Reap(w) \/ Park(w)
  <2>1. lease[w] \in Streams /\ lease[w] \in submitted \ dropped
    BY <1>6, HeldLives DEF Reap, Park, Holding
  <2> QED BY <1>6, <2>1 DEF Reap, Park, Drop, Release, Goto, queues, control, client, history, TypeOK
<1>7. CASE PollEmit(w) \/ PollPending(w) \/ PollYield(w) \/ PollEnd(w)
  <2>1. lease[w] \in Streams /\ lease[w] \in submitted \ dropped
    BY <1>7, HeldLives DEF PollEmit, PollPending, PollYield, PollEnd, Polling, Holding
  <2>2. polls' \in [Streams -> 0..(MaxPolls + 1)]
    <3>1. polls[lease[w]] \in Nat /\ polls[lease[w]] <= MaxPolls
      BY <2>1, ConstantsAssumption DEF Counters, Counted, TypeOK
    <3>2. polls' = [polls EXCEPT ![lease[w]] = polls[lease[w]] + 1]
      BY <1>7 DEF PollEmit, PollPending, PollYield, PollEnd, Polling
    <3> QED BY <2>1, <3>1, <3>2, ConstantsAssumption DEF TypeOK
  <2>3. CASE PollEmit(w)
    <3>1. output[lease[w]] \in Nat /\ output[lease[w]] <= HighWatermark
      BY <2>1, ConstantsAssumption DEF Counters, Counted, TypeOK
    <3>2. output' \in [Streams -> 0..(HighWatermark + 1)]
      BY <2>1, <2>3, <3>1, ConstantsAssumption DEF PollEmit, TypeOK
    <3> QED BY <2>2, <2>3, <3>2 DEF PollEmit, Goto, queues, control, history, TypeOK
  <2>4. CASE PollPending(w)
    <3>1. call' \in Calls
      BY <2>1, <2>4, CallType DEF PollPending, Callers
    <3> QED BY <2>2, <2>4, <3>1 DEF PollPending, Goto, Calls, queues, control, history, TypeOK
  <2>5. CASE PollYield(w)
    BY <2>1, <2>2, <2>5 DEF PollYield, PushTo, Release, Goto, control, client, TypeOK
  <2>6. CASE PollEnd(w)
    BY <2>1, <2>2, <2>6 DEF PollEnd, Drop, Release, Goto, queues, control, client, TypeOK
  <2> QED BY <1>7, <2>3, <2>4, <2>5, <2>6
<1>8. CASE DispatchEmit(w)
  <2>1. lease[w] \in Streams /\ lease[w] \in submitted \ dropped
    BY <1>8, HeldLives DEF DispatchEmit, Holding
  <2>2. (requested[lease[w]] - 1) % Word \in 0..(Word - 1)
        /\ (buffered[lease[w]] + 1) % Word \in 0..(Word - 1)
    <3>1. requested[lease[w]] - 1 \in Int /\ buffered[lease[w]] + 1 \in Int
      BY <2>1, ConstantsAssumption DEF TypeOK
    <3> QED BY <3>1, WordFacts
  <2> QED BY <1>8, <2>1, <2>2 DEF DispatchEmit, PushTo, Release, Goto, client, TypeOK
<1>9. CASE Drain(w)
  <2>1. PICK s \in Streams : s = Last(deque[w]) /\ s \in Range(deque[w])
    <3>1. deque[w] \in Seq(Streams) /\ deque[w] # <<>>
      BY <1>9 DEF Drain, TypeOK
    <3> QED BY <3>1, FrontFacts
  <2>2. s \in submitted \ dropped
    BY <2>1 DEF Leases, Located, IsAt
  <2>3. dropped' \subseteq submitted
    BY <1>9, <2>1, <2>2 DEF Drain, TypeOK
  <2>4. output' \in [Streams -> 0..(HighWatermark + 1)]
    <3>1. output[s] \in Nat /\ output[s] <= HighWatermark
      BY <2>2, ConstantsAssumption DEF Counters, Counted, TypeOK
    <3>2. output' = output \/ output' = [output EXCEPT ![Last(deque[w])] = output[Last(deque[w])] + 1]
      BY <1>9 DEF Drain, client
    <3>3. output[s] + 1 \in 0..(HighWatermark + 1) /\ output[Last(deque[w])] = output[s]
      BY <2>1, <3>1, ConstantsAssumption
    <3> QED BY <2>1, <3>2, <3>3 DEF TypeOK
  <2>5. call' \in Calls
    <3>1. \/ call' = call
          \/ \E o \in IOs : call' = [call EXCEPT ![o][Last(deque[w])] = "started"]
      BY <1>9 DEF Drain, client
    <3> QED BY <2>1, <3>1, CallType DEF Callers, Calls, TypeOK
  <2> QED BY <1>9, <2>3, <2>4, <2>5 DEF Drain, Calls, worker, control, TypeOK
<1> QED BY <1>2, <1>3, <1>4, <1>5, <1>6, <1>7, <1>8, <1>9 DEF Loop

\* So does a call of a client.
LEMMA ClientType ==
    ASSUME TypeOK, Leases, Counters, NEW s \in Streams, Client(s)
    PROVE  TypeOK'
<1>1. Queues'
  BY ClientLeases
<1> USE <1>1 DEF Queues
<1>2. CASE Schedule(s)
  BY <1>2 DEF Schedule, worker, control, client, TypeOK
<1>3. ASSUME NEW w \in Workers, ScheduleAffine(s, w) PROVE TypeOK'
  BY <1>3 DEF ScheduleAffine, PushTo, worker, control, client, TypeOK
<1>4. CASE Request(s)
  <2>1. (requested[s] + 1) % Word \in 0..(Word - 1)
    <3>1. requested[s] + 1 \in Int
      BY ConstantsAssumption DEF TypeOK
    <3> QED BY <3>1, WordFacts
  <2>2. call' \in Calls
    BY <1>4, CallType DEF Request, Callers
  <2> QED BY <1>4, <2>1, <2>2 DEF Request, Calls, queues, worker, history, TypeOK
<1>5. CASE Consume(s)
  <2>1. (buffered[s] - 1) % Word \in 0..(Word - 1)
    <3>1. buffered[s] - 1 \in Int
      BY ConstantsAssumption DEF TypeOK
    <3> QED BY <3>1, WordFacts
  <2>2. call' \in Calls
    BY <1>5, CallType DEF Consume, Callers
  <2>3. output[s] - 1 \in 0..(HighWatermark + 1)
    BY <1>5, ConstantsAssumption DEF Consume, TypeOK
  <2> QED BY <1>5, <2>1, <2>2, <2>3 DEF Consume, Calls, queues, worker, history, TypeOK
<1>6. CASE Cancel(s)
  BY <1>6 DEF Cancel, queues, worker, client, history, TypeOK
<1>7. CASE CompleteIO(s)
  <2>1. call' \in Calls
    BY <1>7, CallType DEF CompleteIO, Callers
  <2> QED BY <1>7, <2>1 DEF CompleteIO, Calls, queues, worker, control, history, TypeOK
<1>8. ASSUME NEW c \in Callers, Wake(c, s) \/ WakeNothing(c, s) PROVE TypeOK'
  <2>1. call' \in Calls
    BY <1>8, CallType DEF Wake, WakeNothing
  <2> QED BY <1>8, <2>1 DEF Wake, WakeNothing, Calls, queues, worker, control, TypeOK
<1>9. ASSUME NEW c \in Callers, WakePush(c, s) PROVE TypeOK'
  <2>1. call' \in Calls
    BY <1>9, CallType DEF WakePush
  <2>2. s \in submitted
    BY <1>9 DEF WakePush, Leases, Located, IsAt
  <2> QED BY <1>9, <2>1, <2>2 DEF WakePush, PushTo, Calls, worker, control, TypeOK
<1> QED BY <1>2, <1>3, <1>4, <1>5, <1>6, <1>7, <1>8, <1>9 DEF Client

\* No two workers hold the same stream.
LEMMA OneHolder ==
    ASSUME Leases, NEW v \in Workers, NEW w \in Workers, lease[w] \in Streams,
           lease[v] = lease[w]
    PROVE  v = w
BY DEF Leases, Located, IsAt

\* The values of the counters are numbers.
LEMMA Numbers ==
    ASSUME TypeOK, NEW s \in Streams
    PROVE  /\ requested[s] \in Nat /\ requested[s] < Word
           /\ buffered[s] \in Nat /\ buffered[s] < Word
           /\ output[s] \in Nat /\ polls[s] \in Nat
           /\ HighWatermark \in Nat /\ MaxCredits \in Nat /\ MaxPolls \in Nat /\ Word \in Nat
           /\ Word > MaxCredits + HighWatermark + 1
BY ConstantsAssumption DEF TypeOK

\* The counters stay as they are, and nobody polls but who did before.
LEMMA KeepCounters ==
    ASSUME Counters, UNCHANGED <<requested, output, buffered, polls>>,
           dropped \subseteq dropped',
           \A v \in Workers : {pc[v], pc'[v]} \intersect {"poll", "emitted"} # {}
                                 => pc'[v] = pc[v] /\ lease'[v] = lease[v]
    PROVE  Counters'
<1>1. \A v \in Workers : /\ pc'[v] = "poll" <=> pc[v] = "poll"
                         /\ pc'[v] = "emitted" <=> pc[v] = "emitted"
                         /\ pc[v] \in {"poll", "emitted"} => lease'[v] = lease[v]
  OBVIOUS
<1>2. \A s \in Streams : Emitted(s)' <=> Emitted(s)
  BY <1>1 DEF Emitted
<1>3. Credits'
  BY <1>1 DEF Counters, Credits
<1>4. Counted'
  BY <1>2 DEF Counters, Counted
<1> QED BY <1>3, <1>4 DEF Counters

\* A step of a worker keeps the counters right.
LEMMA LoopCounters ==
    ASSUME TypeOK, Leases, Counters, NEW w \in Workers, Loop(w)
    PROVE  Counters'
<1>1. CASE PopLocal(w) \/ Steal(w) \/ PopGlobal(w)
  <2>1. /\ UNCHANGED <<requested, output, buffered, polls, dropped>>
        /\ pc[w] \notin {"poll", "emitted"}
        /\ \E l \in {"check", "steal", "global", "nowork"} : pc' = [pc EXCEPT ![w] = l]
        /\ \A v \in Workers \ {w} : lease'[v] = lease[v]
    BY <1>1 DEF PopLocal, Steal, PopGlobal, Take, MoveOn, Goto, control, client, history, TypeOK
  <2> QED BY <2>1, KeepCounters DEF TypeOK
<1>2. CASE NoWork(w) \/ NotCancelled(w) \/ NoDemand(w) \/ Exit(w) \/ Park(w)
  <2>1. /\ UNCHANGED <<requested, output, buffered, polls, dropped>>
        /\ pc[w] \notin {"poll", "emitted"}
        /\ \E l \in {"drain", "local", "demand", "park", "exit"} : pc' = [pc EXCEPT ![w] = l]
        /\ \A v \in Workers \ {w} : lease'[v] = lease[v]
    BY <1>2 DEF NoWork, NotCancelled, NoDemand, Exit, Park, Release, MoveOn, Goto, control, client,
       history, TypeOK
  <2> QED BY <2>1, KeepCounters DEF TypeOK
<1>3. CASE Reap(w)
  <2>1. /\ UNCHANGED <<requested, output, buffered, polls>>
        /\ dropped \subseteq dropped'
        /\ pc[w] = "check" /\ pc' = [pc EXCEPT ![w] = "local"]
        /\ \A v \in Workers \ {w} : lease'[v] = lease[v]
    BY <1>3 DEF Reap, Drop, Release, Goto, control, client, TypeOK
  <2> QED BY <2>1, KeepCounters DEF TypeOK
<1>4. CASE Advance(w)
  <2>1. /\ pc[w] = "demand" /\ pc' = [pc EXCEPT ![w] = "poll"] /\ lease[w] \in Streams
        /\ UNCHANGED <<requested, output, buffered, polls, dropped, lease>>
    BY <1>4, HeldLives DEF Advance, MoveOn, Goto, Holding, control, client, history
  <2>2. \A s \in Streams : Emitted(s)' <=> Emitted(s)
    BY <2>1 DEF Emitted, TypeOK
  <2>3. ~Emitted(lease[w])
    BY <2>1, OneHolder DEF Emitted
  <2>4. requested[lease[w]] > 0 /\ output[lease[w]] < HighWatermark
    <3>1. requested[lease[w]] > 0 /\ buffered[lease[w]] < HighWatermark
      BY <1>4 DEF Advance, ShouldAdvance
    <3>2. lease[w] \in Streams \ dropped
      BY <2>1, HeldLives DEF Holding
    <3> QED BY <2>3, <3>1, <3>2 DEF Counters, Counted
  <2>5. Credits'
    BY <2>1, <2>4 DEF Counters, Credits, TypeOK
  <2>6. Counted'
    BY <2>1, <2>2 DEF Counters, Counted
  <2> QED BY <2>5, <2>6 DEF Counters
<1>5. CASE PollEmit(w)
  <2>1. PICK s \in Streams : s = lease[w] /\ s \notin dropped
    BY <1>5, HeldLives DEF PollEmit, Polling, Holding
  <2>2. /\ pc[w] = "poll" /\ pc' = [pc EXCEPT ![w] = "emitted"]
        /\ output' = [output EXCEPT ![s] = output[s] + 1]
        /\ polls' = [polls EXCEPT ![s] = polls[s] + 1] /\ polls[s] < MaxPolls
        /\ UNCHANGED <<requested, buffered, dropped, lease>>
    BY <1>5, <2>1 DEF PollEmit, Polling, MorePolls, Goto, control, history
  <2>3. \A v \in Workers \ {w} : lease[v] # s
    BY <2>1, OneHolder
  <2>4. ~Emitted(s) /\ Emitted(s)' /\ \A t \in Streams \ {s} : Emitted(t)' <=> Emitted(t)
    BY <2>1, <2>2, <2>3 DEF Emitted, TypeOK
  <2>5. requested[s] > 0 /\ output[s] < HighWatermark /\ buffered[s] = output[s]
    BY <2>1, <2>2, <2>4 DEF Counters, Credits, Counted
  <2>6. Credits'
    BY <2>1, <2>2, <2>3, <2>5 DEF Counters, Credits, TypeOK
  <2>7. /\ output'[s] = output[s] + 1 /\ polls'[s] = polls[s] + 1
        /\ \A t \in Streams \ {s} : output'[t] = output[t] /\ polls'[t] = polls[t]
    BY <2>2 DEF TypeOK
  <2>8. /\ output'[s] <= HighWatermark /\ polls'[s] <= MaxPolls
        /\ output'[s] # 0 /\ buffered[s] = output'[s] - 1
    BY <2>2, <2>5, <2>7, Numbers
  <2>9. Counted'
    BY <2>2, <2>4, <2>7, <2>8 DEF Counters, Counted
  <2> QED BY <2>6, <2>9 DEF Counters
<1>6. CASE DispatchEmit(w)
  <2>1. PICK s \in Streams : s = lease[w] /\ s \notin dropped
    BY <1>6, HeldLives DEF DispatchEmit, Holding
  <2>2. /\ pc[w] = "emitted" /\ pc' = [pc EXCEPT ![w] = "local"]
        /\ requested' = [requested EXCEPT ![s] = (requested[s] - 1) % Word]
        /\ buffered' = [buffered EXCEPT ![s] = (buffered[s] + 1) % Word]
        /\ lease' = [lease EXCEPT ![w] = None]
        /\ UNCHANGED <<output, polls, dropped>>
    BY <1>6, <2>1 DEF DispatchEmit, Release, Goto, client
  <2>3. \A v \in Workers \ {w} : lease[v] # s
    BY <2>1, OneHolder
  <2>4. Emitted(s) /\ ~Emitted(s)' /\ \A t \in Streams \ {s} : Emitted(t)' <=> Emitted(t)
    BY <2>1, <2>2, <2>3 DEF Emitted, TypeOK
  <2>5. /\ requested[s] > 0 /\ requested[s] <= MaxCredits /\ output[s] <= HighWatermark
        /\ buffered[s] = IF output[s] = 0 THEN Word - 1 ELSE output[s] - 1
    BY <2>1, <2>2, <2>4 DEF Counters, Credits, Counted
  <2>6. requested'[s] <= MaxCredits
    <3>1. requested[s] - 1 \in 0..(Word - 1) /\ requested[s] - 1 <= MaxCredits
      BY <2>5, Numbers
    <3> QED BY <2>2, <3>1, WordFacts DEF TypeOK
  <2>7. buffered'[s] = output[s]
    <3>1. CASE output[s] = 0
      <4>1. buffered[s] + 1 = Word
        BY <2>5, <3>1, Numbers
      <4> QED BY <2>2, <3>1, <4>1, WordFacts DEF TypeOK
    <3>2. CASE output[s] # 0
      <4>1. buffered[s] + 1 = output[s] /\ output[s] \in 0..(Word - 1)
        BY <2>5, <3>2, Numbers
      <4> QED BY <2>2, <4>1, WordFacts DEF TypeOK
    <3> QED BY <3>1, <3>2
  <2>8. Credits'
    BY <2>1, <2>2, <2>3, <2>6 DEF Counters, Credits, TypeOK
  <2>9. Counted'
    BY <2>2, <2>4, <2>7 DEF Counters, Counted, TypeOK
  <2> QED BY <2>8, <2>9 DEF Counters
<1>7. CASE PollPending(w) \/ PollYield(w) \/ PollEnd(w)
  <2>1. PICK s \in Streams : s = lease[w] /\ s \notin dropped
    BY <1>7, HeldLives DEF PollPending, PollYield, PollEnd, Polling, Holding
  <2>2. /\ pc[w] = "poll" /\ \E l \in {"park", "local"} : pc' = [pc EXCEPT ![w] = l]
        /\ polls' = [polls EXCEPT ![s] = polls[s] + 1]
        /\ \/ polls[s] < MaxPolls /\ dropped' = dropped
           \/ dropped' = dropped \union {s}
        /\ lease' = lease \/ lease' = [lease EXCEPT ![w] = None]
        /\ UNCHANGED <<requested, buffered, output>>
    BY <1>7, <2>1 DEF PollPending, PollYield, PollEnd, Drop, Release, Polling, MorePolls, Goto,
       control, client, history
  <2>3. \A t \in Streams : Emitted(t)' <=> Emitted(t)
    BY <2>1, <2>2 DEF Emitted, TypeOK
  <2>4. Credits'
    BY <2>1, <2>2 DEF Counters, Credits, TypeOK
  <2>5. \A t \in Streams \ dropped' : polls'[t] <= MaxPolls
    BY <2>1, <2>2, Numbers DEF Counters, Counted, TypeOK
  <2>6. Counted'
    BY <2>2, <2>3, <2>5 DEF Counters, Counted
  <2> QED BY <2>4, <2>6 DEF Counters
<1>8. CASE Drain(w)
  <2>1. PICK s \in Streams : s = Last(deque[w]) /\ s \in Range(deque[w])
    <3>1. deque[w] \in Seq(Streams) /\ deque[w] # <<>>
      BY <1>8 DEF Drain, TypeOK
    <3> QED BY <3>1, FrontFacts
  <2>2. \A v \in Workers : lease[v] # s
    BY <2>1 DEF Leases, Located, IsAt
  <2>3. /\ dropped' = dropped \union {s}
        /\ UNCHANGED <<requested, buffered, polls, pc, lease>>
        /\ output' = output \/ output' = [output EXCEPT ![Last(deque[w])] = output[Last(deque[w])] + 1]
    BY <1>8, <2>1 DEF Drain, worker, control, client
  <2>4. \A t \in Streams \ {s} : output'[t] = output[t]
    BY <2>1, <2>3 DEF TypeOK
  <2>5. \A t \in Streams : Emitted(t)' <=> Emitted(t)
    BY <2>3 DEF Emitted
  <2>6. Credits'
    <3>1. \A v \in Workers : pc[v] = "poll" => lease[v] \in Streams
      BY HeldLives DEF Holding
    <3> QED BY <2>2, <2>3, <2>4, <3>1 DEF Counters, Credits
  <2>7. Counted'
    BY <2>3, <2>4, <2>5 DEF Counters, Counted
  <2> QED BY <2>6, <2>7 DEF Counters
<1> QED BY <1>1, <1>2, <1>3, <1>4, <1>5, <1>6, <1>7, <1>8 DEF Loop

\* So does a call of a client.
LEMMA ClientCounters ==
    ASSUME TypeOK, Leases, Counters, NEW s \in Streams, Client(s)
    PROVE  Counters'
<1>1. CASE Request(s)
  <2>1. requested' = [requested EXCEPT ![s] = (requested[s] + 1) % Word] /\ requested[s] < MaxCredits
        /\ UNCHANGED <<buffered, output, polls, pc, lease, dropped>>
    BY <1>1 DEF Request, worker, history
  <2>2. requested'[s] = requested[s] + 1 /\ requested'[s] <= MaxCredits
    <3>1. requested[s] + 1 \in 0..(Word - 1) /\ requested[s] + 1 <= MaxCredits
      BY <2>1, Numbers
    <3> QED BY <2>1, <3>1, WordFacts DEF TypeOK
  <2>3. \A t \in Streams : requested[t] > 0 => requested'[t] > 0
    BY <2>1, <2>2, Numbers DEF TypeOK
  <2>4. \A v \in Workers : pc[v] \in {"poll", "emitted"} => lease[v] \in Streams
    BY HeldLives DEF Holding
  <2>5. Credits'
    BY <2>1, <2>2, <2>3, <2>4 DEF Counters, Credits, TypeOK
  <2>6. \A t \in Streams : Emitted(t)' <=> Emitted(t)
    BY <2>1 DEF Emitted
  <2>7. Counted'
    BY <2>1, <2>6 DEF Counters, Counted
  <2> QED BY <2>5, <2>7 DEF Counters
<1>2. CASE Consume(s)
  <2>1. /\ output[s] > 0
        /\ output' = [output EXCEPT ![s] = output[s] - 1]
        /\ buffered' = [buffered EXCEPT ![s] = (buffered[s] - 1) % Word]
        /\ UNCHANGED <<requested, polls, pc, lease, dropped>>
    BY <1>2 DEF Consume, worker, history
  <2>2. output'[s] = output[s] - 1 /\ \A t \in Streams \ {s} : output'[t] = output[t] /\ buffered'[t] = buffered[t]
    BY <2>1 DEF TypeOK
  <2>3. \A t \in Streams : Emitted(t)' <=> Emitted(t)
    BY <2>1 DEF Emitted
  <2>4. Credits'
    <3>1. \A t \in Streams : output[t] < HighWatermark => output'[t] < HighWatermark
      BY <2>2, Numbers
    <3>2. \A v \in Workers : pc[v] = "poll" => lease[v] \in Streams
      BY HeldLives DEF Holding
    <3> QED BY <2>1, <3>1, <3>2 DEF Counters, Credits
  <2>5. ASSUME s \notin dropped
        PROVE  buffered'[s] = IF ~Emitted(s) THEN output'[s]
                              ELSE IF output'[s] = 0 THEN Word - 1 ELSE output'[s] - 1
    <3>1. /\ output[s] <= HighWatermark
          /\ buffered[s] = IF ~Emitted(s) THEN output[s]
                           ELSE IF output[s] = 0 THEN Word - 1 ELSE output[s] - 1
      BY <2>5 DEF Counters, Counted
    <3>2. buffered'[s] = (buffered[s] - 1) % Word
      BY <2>1 DEF TypeOK
    <3>3. CASE Emitted(s) /\ output[s] = 1
      BY <2>2, <3>1, <3>2, <3>3, WordFacts
    <3>4. CASE ~Emitted(s)
      <4>1. buffered[s] - 1 = output[s] - 1 /\ output[s] - 1 \in 0..(Word - 1)
        BY <2>1, <3>1, <3>4, Numbers
      <4> QED BY <2>2, <3>2, <3>4, <4>1, WordFacts
    <3>5. CASE Emitted(s) /\ output[s] # 1
      <4>1. /\ buffered[s] - 1 = output[s] - 2 /\ output[s] - 2 \in 0..(Word - 1)
            /\ output[s] - 1 # 0 /\ (output[s] - 1) - 1 = output[s] - 2
        BY <2>1, <3>1, <3>5, Numbers
      <4> QED BY <2>2, <3>2, <3>5, <4>1, WordFacts
    <3> QED BY <3>3, <3>4, <3>5
  <2>6. output[s] <= HighWatermark => output'[s] <= HighWatermark
    BY <2>2, Numbers
  <2>7. Counted'
    BY <2>1, <2>2, <2>3, <2>5, <2>6 DEF Counters, Counted
  <2> QED BY <2>4, <2>7 DEF Counters
<1>3. ASSUME \/ Schedule(s) \/ Cancel(s) \/ CompleteIO(s)
             \/ \E w \in Workers : ScheduleAffine(s, w)
             \/ \E c \in Callers : Wake(c, s) \/ WakePush(c, s) \/ WakeNothing(c, s)
      PROVE  Counters'
  <2>1. UNCHANGED <<requested, output, buffered, polls, dropped, pc, lease>>
    BY <1>3 DEF Schedule, Cancel, CompleteIO, ScheduleAffine, Wake, WakePush, WakeNothing,
       worker, control, client, history
  <2> QED BY <2>1, KeepCounters
<1> QED BY <1>1, <1>2, <1>3 DEF Client

-----------------------------------------------------------------------------
(* Parking *)

\* A stream is parked, or a worker has decided to park it.
Parking(s) == s \in parked \/ \E w \in Workers : pc[w] = "park" /\ lease[w] = s

\* What only a step that touches the stream can end.
LEMMA KeepWaiting ==
    ASSUME NEW s \in Streams, Waiting(s),
           requested'[s] = requested[s], buffered'[s] = buffered[s],
           cancelled[s] => cancelled'[s],
           \A c \in Callers : call'[c][s] = call[c][s]
    PROVE  Waiting(s)'
BY DEF Waiting, ShouldAdvance, Callers

\* Every stream that is parked now was parked before and has kept its cause, or
\* has a cause of its own.
LEMMA KeepCause ==
    ASSUME Cause, TypeOK', Leases',
           \A s \in Streams :
              Parking(s)' => \/ Waiting(s)'
                             \/ s \in missed'
                             \/ /\ Parking(s)
                                /\ Waiting(s) => Waiting(s)'
                                /\ s \in missed => s \in missed'
    PROVE  Cause'
<1>1. \A s \in Streams : Parking(s) => Waiting(s) \/ s \in missed
  BY DEF Cause, ParkedForACause, Parking
<1>2. \A s \in Streams : Parking(s)' => Waiting(s)' \/ s \in missed'
  BY <1>1
<1>3. \A w \in Workers : pc'[w] = "park" => lease'[w] \in Streams
  BY DEF Leases, Holds, Holding, TypeOK
<1>4. parked' \subseteq Streams
  BY DEF TypeOK
<1> QED BY <1>2, <1>3, <1>4 DEF Cause, ParkedForACause, Parking

\* A step of a worker parks no stream without a cause.
LEMMA LoopCause ==
    ASSUME TypeOK, Leases, Cause, TypeOK', Leases', NEW w \in Workers, Loop(w)
    PROVE  Cause'
<1>1. CASE PopLocal(w) \/ Steal(w) \/ PopGlobal(w) \/ NoWork(w) \/ NotCancelled(w) \/ Advance(w)
           \/ Exit(w)
  <2>1. /\ UNCHANGED <<requested, buffered, cancelled, call, parked, missed>>
        /\ \A v \in Workers : pc'[v] = "park" => pc[v] = "park" /\ lease'[v] = lease[v]
    BY <1>1 DEF PopLocal, Steal, PopGlobal, NoWork, NotCancelled, Advance, Exit, Take, MoveOn, Goto,
       queues, control, client, history, TypeOK
  <2>2. \A s \in Streams : Parking(s)' => Parking(s)
    BY <2>1 DEF Parking
  <2> QED BY <2>1, <2>2, KeepCause, KeepWaiting
<1>2. CASE Reap(w) \/ PollEmit(w) \/ PollYield(w) \/ PollEnd(w)
  <2>1. /\ UNCHANGED <<requested, buffered, cancelled, call, parked, missed>>
        /\ \A v \in Workers : pc'[v] = "park" => pc[v] = "park" /\ lease'[v] = lease[v]
    BY <1>2 DEF Reap, PollEmit, PollYield, PollEnd, Polling, Drop, Release, Goto,
       queues, control, client, history, TypeOK
  <2>2. \A s \in Streams : Parking(s)' => Parking(s)
    BY <2>1 DEF Parking
  <2> QED BY <2>1, <2>2, KeepCause, KeepWaiting
<1>3. CASE NoDemand(w)
  <2>1. PICK s \in Streams : s = lease[w]
    BY <1>3, HeldLives DEF NoDemand, Holding
  <2>2. /\ UNCHANGED <<requested, buffered, cancelled, call, parked, missed, lease>>
        /\ \A v \in Workers \ {w} : pc'[v] = pc[v]
    BY <1>3 DEF NoDemand, MoveOn, Goto, queues, control, client, history, TypeOK
  <2>3. Waiting(s)'
    BY <1>3, <2>1, <2>2 DEF NoDemand, Waiting, ShouldAdvance
  <2>4. \A t \in Streams \ {s} : Parking(t)' => Parking(t)
    BY <2>1, <2>2 DEF Parking
  <2> QED BY <2>2, <2>3, <2>4, KeepCause, KeepWaiting
<1>4. CASE Park(w)
  <2>1. /\ UNCHANGED <<requested, buffered, cancelled, call, missed>>
        /\ pc[w] = "park" /\ parked' = parked \union {lease[w]}
        /\ \A v \in Workers : pc'[v] = "park" => pc[v] = "park" /\ lease'[v] = lease[v]
    BY <1>4 DEF Park, Release, Goto, control, client, history, TypeOK
  <2>2. \A s \in Streams : Parking(s)' => Parking(s)
    BY <2>1 DEF Parking
  <2> QED BY <2>1, <2>2, KeepCause, KeepWaiting
<1>5. CASE DispatchEmit(w)
  <2>1. PICK s \in Streams : s = lease[w]
    BY <1>5, HeldLives DEF DispatchEmit, Holding
  <2>2. /\ UNCHANGED <<cancelled, call, missed, parked>>
        /\ pc[w] = "emitted"
        /\ \A t \in Streams \ {s} : requested'[t] = requested[t] /\ buffered'[t] = buffered[t]
        /\ \A v \in Workers : pc'[v] = "park" => pc[v] = "park" /\ lease'[v] = lease[v]
    BY <1>5, <2>1 DEF DispatchEmit, Release, Goto, client, TypeOK
  <2>3. ~Parking(s)
    BY <2>1, <2>2, HeldStream DEF Parking, IsAt, Holding
  <2>4. \A t \in Streams : Parking(t)' => Parking(t)
    BY <2>2 DEF Parking
  <2> QED BY <2>2, <2>3, <2>4, KeepCause, KeepWaiting
<1>6. CASE PollPending(w)
  <2>1. PICK s \in Streams : s = lease[w]
    BY <1>6, HeldLives DEF PollPending, Polling, Holding
  <2>2. /\ UNCHANGED <<requested, buffered, cancelled, parked, missed, lease>>
        /\ \A v \in Workers \ {w} : pc'[v] = pc[v]
        /\ \E o \in IOs : call' = [call EXCEPT ![o][lease[w]] = "started"]
    BY <1>6 DEF PollPending, Goto, queues, control, history, TypeOK
  <2>3. \A c \in Callers, t \in Streams : t # s => call'[c][t] = call[c][t]
    BY <2>1, <2>2 DEF TypeOK, Callers
  <2>4. Waiting(s)'
    <3>1. \E o \in IOs : call'[o][s] = "started"
      BY <2>1, <2>2 DEF TypeOK, Callers
    <3> QED BY <3>1 DEF Waiting
  <2>5. \A t \in Streams \ {s} : Parking(t)' => Parking(t)
    BY <2>1, <2>2 DEF Parking
  <2> QED BY <2>2, <2>3, <2>4, <2>5, KeepCause, KeepWaiting
<1>7. CASE Drain(w)
  <2>1. PICK s \in Streams : s = Last(deque[w]) /\ s \in Range(deque[w])
    <3>1. deque[w] \in Seq(Streams) /\ deque[w] # <<>>
      BY <1>7 DEF Drain, TypeOK
    <3> QED BY <3>1, FrontFacts
  <2>2. UNCHANGED <<requested, buffered, cancelled, parked, missed, lease, pc>>
    BY <1>7 DEF Drain, worker, control
  <2>3. ASSUME NEW c \in Callers, NEW t \in Streams, t # s
        PROVE  call'[c][t] = call[c][t]
    <3>1. \/ call' = call
          \/ \E o \in IOs : call' = [call EXCEPT ![o][Last(deque[w])] = "started"]
      BY <1>7 DEF Drain, client
    <3>2. t # Last(deque[w])
      BY <2>1, <2>3
    <3>3. call \in [Callers -> [Streams -> {"none", "started", "wake", "push"}]]
      BY DEF TypeOK
    <3>4. ASSUME NEW o \in IOs, call' = [call EXCEPT ![o][Last(deque[w])] = "started"]
          PROVE  call'[c][t] = call[c][t]
      <4>1. call'[c] = IF c = o THEN [call[o] EXCEPT ![Last(deque[w])] = "started"]
                                ELSE call[c]
        BY <3>3, <3>4
      <4> QED BY <3>2, <3>3, <4>1
    <3> QED BY <3>1, <3>4
  <2>4. ~Parking(s)
    BY <2>1 DEF Parking, Leases, Located, IsAt
  <2>5. \A t \in Streams : Parking(t)' => Parking(t)
    BY <2>2 DEF Parking
  <2> QED BY <2>2, <2>3, <2>4, <2>5, KeepCause, KeepWaiting
<1> QED BY <1>1, <1>2, <1>3, <1>4, <1>5, <1>6, <1>7 DEF Loop

\* A call of a client ends no wait but with a wake, and a wake that finds
\* nothing although the worker has decided to park is recorded.
LEMMA ClientCause ==
    ASSUME TypeOK, Leases, Cause, TypeOK', Leases', NEW s \in Streams, Client(s)
    PROVE  Cause'
<1>1. ASSUME Schedule(s) \/ Cancel(s) \/ \E w \in Workers : ScheduleAffine(s, w)
      PROVE  Cause'
  <2>1. /\ UNCHANGED <<requested, buffered, call, parked, missed, lease, pc>>
        /\ \A t \in Streams : cancelled[t] => cancelled'[t]
    BY <1>1 DEF Schedule, Cancel, ScheduleAffine, queues, worker, control, client, history, TypeOK
  <2>2. \A t \in Streams : Parking(t)' => Parking(t)
    BY <2>1 DEF Parking
  <2> QED BY <2>1, <2>2, KeepCause, KeepWaiting
<1>2. CASE Request(s) \/ Consume(s) \/ CompleteIO(s)
  <2>1. /\ UNCHANGED <<cancelled, parked, missed, lease, pc>>
        /\ \A t \in Streams \ {s} : requested'[t] = requested[t] /\ buffered'[t] = buffered[t]
        /\ \E c \in Callers : call' = [call EXCEPT ![c][s] = "wake"]
    BY <1>2 DEF Request, Consume, CompleteIO, queues, worker, control, history, Callers, TypeOK
  <2>2. /\ \A c \in Callers, t \in Streams : t # s => call'[c][t] = call[c][t]
        /\ \E c \in Callers : call'[c][s] = "wake"
    BY <2>1 DEF TypeOK
  <2>3. Waiting(s)'
    BY <2>2 DEF Waiting
  <2>4. \A t \in Streams : Parking(t)' => Parking(t)
    BY <2>1 DEF Parking
  <2> QED BY <2>1, <2>2, <2>3, <2>4, KeepCause, KeepWaiting
<1>3. ASSUME NEW c \in Callers, Wake(c, s) \/ WakePush(c, s) PROVE Cause'
  <2>1. /\ UNCHANGED <<requested, buffered, cancelled, lease, pc>>
        /\ \A t \in Streams \ {s} : t \in missed => t \in missed'
        /\ \A t \in Streams : t \in parked' => t \in parked
        /\ \E a \in {"push", "none"} : call' = [call EXCEPT ![c][s] = a]
    BY <1>3 DEF Wake, WakePush, worker, control
  <2>2. \A d \in Callers, t \in Streams : t # s => call'[d][t] = call[d][t]
    BY <2>1 DEF TypeOK
  <2>3. ~Parking(s)'
    <3>1. s \notin parked'
      BY <1>3 DEF Wake, WakePush, Leases, Located, IsAt
    <3>2. \A w \in Workers : lease'[w] # s
      BY <1>3, <2>1 DEF Wake, WakePush, Leases, Located, IsAt
    <3> QED BY <3>1, <3>2 DEF Parking
  <2>4. \A t \in Streams : Parking(t)' => Parking(t)
    BY <2>1 DEF Parking
  <2> QED BY <2>1, <2>2, <2>3, <2>4, KeepCause, KeepWaiting
<1>4. ASSUME NEW c \in Callers, WakeNothing(c, s) PROVE Cause'
  <2>1. /\ UNCHANGED <<requested, buffered, cancelled, parked, lease, pc>>
        /\ missed \subseteq missed' /\ s \notin parked
        /\ call' = [call EXCEPT ![c][s] = "none"]
    BY <1>4 DEF WakeNothing, queues, worker, control
  <2>2. \A d \in Callers, t \in Streams : t # s => call'[d][t] = call[d][t]
    BY <2>1 DEF TypeOK
  <2>3. Parking(s)' => s \in missed'
    BY <1>4, <2>1 DEF Parking, WakeNothing
  <2>4. \A t \in Streams : Parking(t)' => Parking(t)
    BY <2>1 DEF Parking
  <2> QED BY <2>1, <2>2, <2>3, <2>4, KeepCause, KeepWaiting
<1> QED BY <1>1, <1>2, <1>3, <1>4 DEF Client

-----------------------------------------------------------------------------
(* Shutdown *)

\* What is in the deque of a worker that has left was there before, or is late.
LEMMA KeepExits ==
    ASSUME Exits, shutdown => shutdown', late \subseteq late',
           \A v \in Workers : pc'[v] \in {"drain", "exit"} => pc[v] \in {"drain", "exit"} \/ shutdown',
           \A v \in Workers : pc'[v] = "exit" =>
              \/ Range(deque'[v]) = {}
              \/ pc[v] = "exit" /\ Range(deque'[v]) \subseteq Range(deque[v]) \union late'
    PROVE  Exits'
<1>1. \A v \in Workers : pc[v] = "exit" => Range(deque[v]) \subseteq late
  BY DEF Exits, DrainedAtExit, Range
<1>2. \A v \in Workers : pc'[v] = "exit" => Range(deque'[v]) \subseteq late'
  BY <1>1
<1> QED BY <1>2 DEF Exits, DrainedAtExit, Range

\* A push to a deque, when the worker may have left.
LEMMA PushExits ==
    ASSUME TypeOK, Exits, NEW w \in Workers, NEW s \in Streams, PushTo(w, s), UNCHANGED shutdown,
           \A v \in Workers : pc'[v] \in {"drain", "exit"} => pc'[v] = pc[v]
    PROVE  Exits'
<1>1. Range(Append(deque[w], s)) = Range(deque[w]) \union {s}
  BY AppendFacts DEF TypeOK
<1>2. \A v \in Workers : Range(deque'[v]) = IF v = w THEN Range(deque[v]) \union {s}
                                                     ELSE Range(deque[v])
  <2>1. \A v \in Workers : deque'[v] = IF v = w THEN Append(deque[w], s) ELSE deque[v]
    BY DEF PushTo, TypeOK
  <2> QED BY <1>1, <2>1
<1>3. \A v \in Workers : pc'[v] = "exit" => shutdown
  BY DEF Exits
<1>4. late \subseteq late' /\ (shutdown => s \in late')
  BY DEF PushTo
<1>5. \A v \in Workers : pc'[v] = "exit" => Range(deque'[v]) \subseteq Range(deque[v]) \union late'
  BY <1>2, <1>3, <1>4
<1> QED BY <1>4, <1>5, KeepExits

\* A worker that has left leaves nothing but late streams, whatever the workers do ...
LEMMA LoopExits ==
    ASSUME TypeOK, Leases, Exits, NEW w \in Workers, Loop(w)
    PROVE  Exits'
<1>1. CASE PopLocal(w) \/ PopGlobal(w) \/ NotCancelled(w) \/ NoDemand(w) \/ Advance(w)
  <2>1. /\ UNCHANGED <<shutdown, late>>
        /\ \A v \in Workers : pc'[v] \in {"drain", "exit"} => v # w /\ pc'[v] = pc[v]
        /\ \A v \in Workers \ {w} : deque'[v] = deque[v]
    BY <1>1 DEF PopLocal, PopGlobal, NotCancelled, NoDemand, Advance, Take, MoveOn, Goto, queues,
       history, TypeOK
  <2> QED BY <2>1, KeepExits
<1>2. CASE Steal(w)
  <2>1. ASSUME NEW v \in Workers, pc'[v] = "exit" PROVE Range(deque'[v]) \subseteq Range(deque[v])
    <3>1. \/ deque'[v] = deque[v]
          \/ deque[v] # <<>> /\ deque'[v] = Tail(deque[v])
      BY <1>2 DEF Steal, TypeOK
    <3> QED BY <3>1, TailFacts DEF TypeOK
  <2>2. /\ UNCHANGED <<shutdown, late>>
        /\ \A v \in Workers : pc'[v] \in {"drain", "exit"} => pc'[v] = pc[v]
    BY <1>2 DEF Steal, Take, MoveOn, Goto, history, TypeOK
  <2> QED BY <2>1, <2>2, KeepExits
<1>3. CASE NoWork(w)
  <2>1. /\ UNCHANGED <<shutdown, late, deque>>
        /\ \A v \in Workers : /\ pc'[v] = "exit" => pc[v] = "exit"
                              /\ pc'[v] = "drain" => pc[v] = "drain" \/ shutdown
    BY <1>3 DEF NoWork, MoveOn, Goto, queues, history, TypeOK
  <2> QED BY <2>1, KeepExits
<1>4. CASE Reap(w) \/ Park(w) \/ PollEmit(w) \/ PollPending(w) \/ PollEnd(w)
  <2>1. /\ UNCHANGED <<shutdown, late, deque>>
        /\ \A v \in Workers : pc'[v] \in {"drain", "exit"} => pc'[v] = pc[v]
    BY <1>4 DEF Reap, Park, PollEmit, PollPending, PollEnd, Polling, Drop, Release, Goto, queues,
       history, TypeOK
  <2> QED BY <2>1, KeepExits
<1>5. CASE DispatchEmit(w) \/ PollYield(w)
  <2>1. /\ PushTo(w, lease[w]) /\ UNCHANGED shutdown /\ pc[w] \in Holding
        /\ \A v \in Workers : pc'[v] \in {"drain", "exit"} => pc'[v] = pc[v]
    BY <1>5 DEF DispatchEmit, PollYield, Polling, Holding, Release, Goto, TypeOK
  <2>2. lease[w] \in Streams
    BY <2>1, HeldLives
  <2> QED BY <2>1, <2>2, PushExits
<1>6. CASE Drain(w)
  <2>1. /\ UNCHANGED <<shutdown, late, pc>> /\ pc[w] = "drain"
        /\ \A v \in Workers \ {w} : deque'[v] = deque[v]
    BY <1>6 DEF Drain, worker, TypeOK
  <2> QED BY <2>1, KeepExits
<1>7. CASE Exit(w)
  <2>1. /\ UNCHANGED <<shutdown, late, deque>> /\ pc[w] = "drain" /\ deque[w] = <<>>
        /\ \A v \in Workers \ {w} : pc'[v] = pc[v]
    BY <1>7 DEF Exit, MoveOn, Goto, queues, history, TypeOK
  <2>2. Range(deque'[w]) = {}
    BY <2>1 DEF Range
  <2> QED BY <2>1, <2>2, KeepExits
<1> QED BY <1>1, <1>2, <1>3, <1>4, <1>5, <1>6, <1>7 DEF Loop

\* ... and whatever the clients do.
LEMMA ClientExits ==
    ASSUME TypeOK, Leases, Exits, NEW s \in Streams, Client(s)
    PROVE  Exits'
<1>1. ASSUME NEW w \in Workers, ScheduleAffine(s, w) PROVE Exits'
  BY <1>1, PushExits DEF ScheduleAffine, worker
<1>2. ASSUME NEW c \in Callers, WakePush(c, s) PROVE Exits'
  BY <1>2, PushExits, WakePushLease DEF WakePush, worker
<1>3. ASSUME \/ Schedule(s) \/ Request(s) \/ Consume(s) \/ Cancel(s) \/ CompleteIO(s)
             \/ \E c \in Callers : Wake(c, s) \/ WakeNothing(c, s)
      PROVE  Exits'
  <2>1. UNCHANGED <<shutdown, late, deque, pc>>
    BY <1>3 DEF Schedule, Request, Consume, Cancel, CompleteIO, Wake, WakeNothing, queues, worker,
       history
  <2> QED BY <2>1, KeepExits
<1> QED BY <1>1, <1>2, <1>3 DEF Client

-----------------------------------------------------------------------------
(* The invariant is inductive *)

\* The scheduler starts with every counter at zero and no lease anywhere.
LEMMA InitIInv == Init => IInv
<1> SUFFICES ASSUME Init PROVE IInv
  OBVIOUS
<1>0. None \notin Streams
  BY ConstantsAssumption
<1>1. TypeOK
  <2>1. 0 \in 0..(Word - 1) /\ 0 \in 0..(HighWatermark + 1) /\ 0 \in 0..(MaxPolls + 1)
    BY ConstantsAssumption
  <2>2. deque \in [Workers -> Seq(Streams)] /\ global \in Seq(Streams)
    BY DEF Init
  <2>3. call \in [Callers -> [Streams -> {"none", "started", "wake", "push"}]]
    BY DEF Init
  <2>4. /\ pc \in [Workers -> {"local", "steal", "global", "nowork", "check", "demand",
                              "park", "poll", "emitted", "drain", "exit"}]
        /\ lease \in [Workers -> Streams \union {None}]
        /\ affinity \in [Streams -> Workers \union {None}]
    BY DEF Init
  <2>5. /\ requested \in [Streams -> 0..(Word - 1)]
        /\ buffered \in [Streams -> 0..(Word - 1)]
        /\ cancelled \in [Streams -> BOOLEAN]
        /\ output \in [Streams -> 0..(HighWatermark + 1)]
        /\ polls \in [Streams -> 0..(MaxPolls + 1)]
    BY <2>1 DEF Init
  <2> QED BY <2>2, <2>3, <2>4, <2>5 DEF Init, TypeOK
<1>2. Leases
  <2>1. \A s \in Streams : IsAt(s, "nowhere", None)
    BY <1>0 DEF Init, IsAt, Range
  <2>2. Located
    BY <2>1 DEF Located, Kinds, Whos
  <2> QED BY <1>0, <2>2 DEF Init, Leases, Distinct, IsInjective, Holds, Holding, Affine, Taken
<1>3. Counters
  BY ConstantsAssumption DEF Init, Counters, Credits, Counted, Emitted
<1>4. Cause /\ Exits
  BY DEF Init, Cause, ParkedForACause, Exits, DrainedAtExit
<1> QED BY <1>1, <1>2, <1>3, <1>4 DEF IInv

\* Every step keeps the inductive invariant.
LEMMA NextIInv == IInv /\ [Next]_vars => IInv'
<1> SUFFICES ASSUME IInv, [Next]_vars PROVE IInv'
  OBVIOUS
<1> USE DEF IInv
<1>1. ASSUME NEW w \in Workers, Loop(w) PROVE IInv'
  <2>1. TypeOK' /\ Leases'
    BY <1>1, LoopType, LoopLeases
  <2> QED BY <1>1, <2>1, LoopCounters, LoopCause, LoopExits
<1>2. ASSUME NEW s \in Streams, Client(s) PROVE IInv'
  <2>1. TypeOK' /\ Leases'
    BY <1>2, ClientType, ClientLeases
  <2> QED BY <1>2, <2>1, ClientCounters, ClientCause, ClientExits
<1>3. CASE Shutdown
  <2>1. /\ shutdown' = TRUE
        /\ UNCHANGED <<deque, global, parked, pc, lease, affinity, polls, requested, buffered,
                       cancelled, call, output, submitted, dropped, late, missed>>
    BY <1>3 DEF Shutdown, queues, worker, control, client, history
  <2>2. TypeOK'
    BY <2>1 DEF TypeOK
  <2>3. Leases'
    BY <2>1, KeepLeases
  <2>4. Counters'
    BY <2>1, KeepCounters
  <2>5. Cause'
    BY <2>1 DEF Cause, ParkedForACause, Waiting, ShouldAdvance
  <2>6. Exits'
    BY <2>1, KeepExits
  <2> QED BY <2>2, <2>3, <2>4, <2>5, <2>6
<1>4. CASE UNCHANGED vars
  <2>1. UNCHANGED <<deque, global, parked, pc, lease, affinity, polls, requested, buffered, shutdown,
                    cancelled, call, output, submitted, dropped, late, missed>>
    BY <1>4 DEF vars, queues, worker, control, client, history
  <2>2. TypeOK'
    BY <2>1 DEF TypeOK
  <2>3. Leases'
    BY <2>1, KeepLeases
  <2>4. Counters'
    BY <2>1, KeepCounters
  <2>5. Cause'
    BY <2>1 DEF Cause, ParkedForACause, Waiting, ShouldAdvance
  <2>6. Exits'
    BY <2>1, KeepExits
  <2> QED BY <2>2, <2>3, <2>4, <2>5, <2>6
<1> QED BY <1>1, <1>2, <1>3, <1>4 DEF Next

\* The inductive invariant holds in every reachable state.
THEOREM Inductive == Spec => []IInv
BY InitIInv, NextIInv, PTL DEF Spec

-----------------------------------------------------------------------------
(* What it implies *)

\* A place of the lease of s, without the sets it is collected in.
LEMMA PlaceIs ==
    ASSUME NEW s \in Streams, NEW p
    PROVE  p \in Places(s) <=>
              \/ \E w \in Workers : \E i \in Positions(deque[w], s) : p = <<w, i>>
              \/ \E i \in Positions(global, s) : p = <<"global", i>>
              \/ \E w \in Workers : lease[w] = s /\ p = <<"worker", w>>
              \/ \E c \in Callers : call[c][s] = "push" /\ p = <<"waker", c>>
              \/ s \in parked /\ p = <<"parked", s>>
BY DEF Places

\* A sequence without repetitions has an element in one position, or in none.
LEMMA OnePosition ==
    ASSUME NEW q \in Seq(Streams), IsInjective(q), NEW s
    PROVE  IF s \in Range(q) THEN \E i : Positions(q, s) = {i} ELSE Positions(q, s) = {}
<1>1. CASE s \in Range(q)
  <2>1. PICK i \in DOMAIN q : q[i] = s
    BY <1>1 DEF Range
  <2>2. Positions(q, s) = {i}
    BY <2>1 DEF Positions, IsInjective
  <2> QED BY <1>1, <2>2
<1>2. CASE s \notin Range(q)
  BY <1>2 DEF Positions, Range
<1> QED BY <1>1, <1>2

\* A lease that is located once, in queues without repetitions, is in one place.
LEMMA LocatedOnce == TypeOK /\ Leases => OnePlace
<1> SUFFICES ASSUME TypeOK, Leases, NEW s \in Streams
             PROVE  Cardinality(Places(s)) = IF s \in submitted \ dropped THEN 1 ELSE 0
  BY DEF OnePlace
<1>1. PICK k \in Kinds, x \in Whos : IsAt(s, k, x)
  BY DEF Leases, Located
<1>2. \A w \in Workers : IF k = "deque" /\ x = w THEN \E i : Positions(deque[w], s) = {i}
                                                 ELSE Positions(deque[w], s) = {}
  <2>1. \A w \in Workers : deque[w] \in Seq(Streams) /\ IsInjective(deque[w])
    BY DEF TypeOK, Leases, Distinct
  <2> QED BY <1>1, <2>1, OnePosition DEF IsAt
<1>3. IF k = "global" THEN \E i : Positions(global, s) = {i} ELSE Positions(global, s) = {}
  BY <1>1, OnePosition DEF IsAt, TypeOK, Leases, Distinct
<1>4. CASE k = "nowhere"
  <2>1. Places(s) = {}
    BY <1>1, <1>2, <1>3, <1>4, PlaceIs DEF IsAt
  <2>2. s \notin submitted \ dropped
    BY <1>1, <1>4 DEF IsAt
  <2> QED BY <2>1, <2>2, FS_EmptySet
<1>5. CASE k # "nowhere"
  <2>1. \E p : Places(s) = {p}
    <3>1. CASE k = "deque"
      <4>1. PICK i : Positions(deque[x], s) = {i}
        BY <1>1, <1>2, <3>1 DEF IsAt
      <4>2. \A p : p \in Places(s) <=> p = <<x, i>>
        BY <1>1, <1>2, <1>3, <3>1, <4>1, PlaceIs DEF IsAt
      <4>3. Places(s) = {<<x, i>>}
        BY <4>2
      <4> QED BY <4>3
    <3>2. CASE k = "global"
      <4>1. PICK i : Positions(global, s) = {i}
        BY <1>3, <3>2
      <4>2. \A p : p \in Places(s) <=> p = <<"global", i>>
        BY <1>1, <1>2, <3>2, <4>1, PlaceIs DEF IsAt
      <4>3. Places(s) = {<<"global", i>>}
        BY <4>2
      <4> QED BY <4>3
    <3>3. CASE k = "worker"
      <4>1. \A p : p \in Places(s) <=> p = <<"worker", x>>
        BY <1>1, <1>2, <1>3, <3>3, PlaceIs DEF IsAt
      <4>2. Places(s) = {<<"worker", x>>}
        BY <4>1
      <4> QED BY <4>2
    <3>4. CASE k = "waker"
      <4>1. \A p : p \in Places(s) <=> p = <<"waker", x>>
        BY <1>1, <1>2, <1>3, <3>4, PlaceIs DEF IsAt
      <4>2. Places(s) = {<<"waker", x>>}
        BY <4>1
      <4> QED BY <4>2
    <3>5. CASE k = "parked"
      <4>1. \A p : p \in Places(s) <=> p = <<"parked", s>>
        BY <1>1, <1>2, <1>3, <3>5, PlaceIs DEF IsAt
      <4>2. Places(s) = {<<"parked", s>>}
        BY <4>1
      <4> QED BY <4>2
    <3> QED BY <1>5, <3>1, <3>2, <3>3, <3>4, <3>5 DEF Kinds
  <2>2. s \in submitted \ dropped
    BY <1>1, <1>5 DEF IsAt
  <2> QED BY <2>1, <2>2, FS_Singleton
<1> QED BY <1>4, <1>5

\* The explicit value of buffered is the one that modular arithmetic gives.
LEMMA CountedExactly == TypeOK /\ Leases /\ Counters => BufferedExact
<1> SUFFICES ASSUME TypeOK, Leases, Counters, NEW s \in Streams \ dropped
             PROVE  buffered[s] =
                      (output[s] - Cardinality({w \in Workers : lease[w] = s /\ pc[w] = "emitted"}))
                         % Word
  BY DEF BufferedExact
<1> DEFINE E == {w \in Workers : lease[w] = s /\ pc[w] = "emitted"}
<1>1. /\ output[s] <= HighWatermark
      /\ buffered[s] = IF ~Emitted(s) THEN output[s]
                       ELSE IF output[s] = 0 THEN Word - 1 ELSE output[s] - 1
  BY DEF Counters, Counted
<1>2. CASE ~Emitted(s)
  <2>1. E = {}
    BY <1>2 DEF Emitted
  <2>2. Cardinality(E) = 0
    BY <2>1, FS_EmptySet
  <2>3. output[s] - 0 = output[s] /\ output[s] \in 0..(Word - 1)
    BY <1>1, Numbers
  <2> QED BY <1>1, <1>2, <2>2, <2>3, WordFacts
<1>3. CASE Emitted(s)
  <2>1. PICK w \in Workers : lease[w] = s /\ pc[w] = "emitted"
    BY <1>3 DEF Emitted
  <2>2. E = {w}
    BY <2>1, OneHolder
  <2>3. Cardinality(E) = 1
    BY <2>2, FS_Singleton
  <2>4. CASE output[s] = 0
    BY <1>1, <1>3, <2>3, <2>4, WordFacts
  <2>5. CASE output[s] # 0
    <3>1. output[s] - 1 \in 0..(Word - 1)
      BY <1>1, <2>5, Numbers
    <3> QED BY <1>1, <1>3, <2>3, <2>5, <3>1, WordFacts
  <2> QED BY <2>4, <2>5
<1> QED BY <1>2, <1>3

\* The queues, the counters and the program counters of the scheduler keep
\* their types; that buffered and requested are words and that output and polls
\* stay in their ranges depends on the credits and the watermark.
THEOREM TypeCorrect == Spec => []TypeOK
BY Inductive, PTL DEF IInv

\* However pops, steals, parks, wakes and drains interleave, the lease of a
\* submitted stream is in exactly one place until it is dropped.
THEOREM LeaseInOnePlace == Spec => []OnePlace
<1>1. IInv => OnePlace
  BY LocatedOnce DEF IInv
<1> QED BY <1>1, Inductive, PTL

\* buffered counts the chunks that the consumer has not consumed, modulo Word,
\* less the one that on_emit has not counted yet.
THEOREM BufferedIsExact == Spec => []BufferedExact
<1>1. IInv => BufferedExact
  BY CountedExactly DEF IInv
<1> QED BY <1>1, Inductive, PTL

\* should_advance never lets a stream run past its credits or the high
\* watermark, though the atomics it reads change while it reads them.
THEOREM BackpressureHolds == Spec => []Backpressure
<1>1. IInv => Backpressure
  BY DEF IInv, Counters, Credits, Counted, Backpressure
<1> QED BY <1>1, Inductive, PTL

\* A stream is parked without a cause only if its wake came between the
\* worker's decision to park it and park.
THEOREM ParkedOnlyForACause == Spec => []ParkedForACause
<1>1. IInv => ParkedForACause
  BY DEF IInv, Cause
<1> QED BY <1>1, Inductive, PTL

\* A worker that has left worker_loop leaves in its deque only what was pushed
\* there after shutdown began.
THEOREM ExitLeavesOnlyLate == Spec => []DrainedAtExit
<1>1. IInv => DrainedAtExit
  BY DEF IInv, Exits
<1> QED BY <1>1, Inductive, PTL

=============================================================================
