---------------------------- MODULE ChaseLevDeque ----------------------------
(***************************************************************************)
(* The work-stealing deque of the stream scheduler, one step per shared    *)
(* memory access (include/celer/core/scheduler.hpp, class ChaseLevDeque).  *)
(*                                                                         *)
(* The owner pushes and pops at `bottom', thieves steal at `top'.  The     *)
(* sequentially consistent interleavings are modelled: the fences of pop   *)
(* and steal order exactly the accesses that race.  The slots are plain    *)
(* memory, so a thief that reads a slot while a push is about to write it  *)
(* may read a torn lease.                                                  *)
(*                                                                         *)
(* Wakers are threads other than the owner that also call push, as         *)
(* StreamScheduler::wake and schedule_affine do; the deque itself is       *)
(* written for Wakers = {}.                                                *)
(***************************************************************************)
EXTENDS Integers, Sequences

CONSTANTS
    Leases,           \* the stream leases that travel through the deque
    Owner,            \* the worker that owns the deque
    Thieves,          \* the workers that steal from it
    Wakers,           \* other threads that push into it
    NoLease,          \* a default-constructed StreamLease
    Torn,             \* what an unsynchronised read of a slot being written yields
    InitialCapacity,  \* slots of the first buffer, 64 in the code
    MaxIndex          \* bound: the owner starts no operation once bottom has passed MaxIndex

ASSUME ConstantsAssumption ==
    /\ NoLease \notin Leases
    /\ Torn \notin Leases \union {NoLease}
    /\ Owner \notin Thieves \union Wakers
    /\ Thieves \intersect Wakers = {}
    /\ InitialCapacity \in Nat \ {0}
    /\ MaxIndex \in Nat

Pushers == {Owner} \union Wakers
Threads == Pushers \union Thieves
Values  == Leases \union {NoLease, Torn}

VARIABLES
    top,      \* top_
    bottom,   \* bottom_
    buffer,   \* buffer_: the index of the current buffer
    mask,     \* Buffer::mask of every buffer ever allocated; none is freed
    storage,  \* Buffer::storage of every buffer ever allocated
    pc,       \* where each thread is in push, pop or steal
    reg,      \* the locals b, t, buf and lease of that call
    holds,    \* history: how many threads hold the lease outside of the deque
    raced     \* history: a pop has lost the last lease to a thief

vars == <<top, bottom, buffer, mask, storage, pc, reg, holds, raced>>

-----------------------------------------------------------------------------
(* Buffer *)

\* Buffer::get: the slot of index i, idx & mask for a power of two.
Slot(k, i) == i % (mask[k] + 1)

Get(k, i) == storage[k][Slot(k, i)]

\* Mutants of Grown: a new buffer as large as the old one; the oldest lease left behind.
GrownToSameSize(k, t, b) == storage[k]

GrownWithoutTop(k, t, b) ==
    LET cap == 2 * (mask[k] + 1)
    IN  [j \in 0..(cap - 1) |->
            IF \E i \in (t + 1)..(b - 1) : i % cap = j
            THEN Get(k, CHOOSE i \in (t + 1)..(b - 1) : i % cap = j)
            ELSE NoLease]

\* Buffer::grow: twice the slots, the indices t .. b - 1 copied over.
Grown(k, t, b) ==
    LET cap == 2 * (mask[k] + 1)
    IN  [j \in 0..(cap - 1) |->
            IF \E i \in t..(b - 1) : i % cap = j
            THEN Get(k, CHOOSE i \in t..(b - 1) : i % cap = j)
            ELSE NoLease]

-----------------------------------------------------------------------------
\* The locals of push, pop and steal, and those of a thread between two calls.
Locals(b, t, k, l) == [b |-> b, t |-> t, buf |-> k, lease |-> l]

NoLocals == Locals(0, 0, 1, NoLease)

Return(x) ==
    /\ pc' = [pc EXCEPT ![x] = "idle"]
    /\ reg' = [reg EXCEPT ![x] = NoLocals]

-----------------------------------------------------------------------------
(* push *)

\* Loads bottom, top and the buffer.  The caller gives up its lease.
PushLoad(p, l) ==
    /\ pc[p] = "idle"
    /\ holds[l] > 0
    /\ bottom <= MaxIndex
    /\ pc' = [pc EXCEPT ![p] = "push"]
    /\ reg' = [reg EXCEPT ![p] = Locals(bottom, top, buffer, l)]
    /\ holds' = [holds EXCEPT ![l] = @ - 1]
    /\ UNCHANGED <<top, bottom, buffer, mask, storage, raced>>

\* Mutant of Full: one lease too many before push grows the buffer.
FullOneLate(p) == reg[p].b - reg[p].t > mask[reg[p].buf] + 1

Full(p) == reg[p].b - reg[p].t > mask[reg[p].buf]

PushGrow(p) ==
    /\ pc[p] = "push"
    /\ Full(p)
    /\ storage' = Append(storage, Grown(reg[p].buf, reg[p].t, reg[p].b))
    /\ mask' = Append(mask, 2 * mask[reg[p].buf] + 1)
    /\ buffer' = Len(mask) + 1
    /\ reg' = [reg EXCEPT ![p] = Locals(@.b, @.t, Len(mask) + 1, @.lease)]
    /\ UNCHANGED <<top, bottom, pc, holds, raced>>

PushWrite(p) ==
    /\ pc[p] = "push"
    /\ ~Full(p)
    /\ storage' = [storage EXCEPT ![reg[p].buf][Slot(reg[p].buf, reg[p].b)] = reg[p].lease]
    /\ pc' = [pc EXCEPT ![p] = "publish"]
    /\ UNCHANGED <<top, bottom, buffer, mask, reg, holds, raced>>

PushPublish(p) ==
    /\ pc[p] = "publish"
    /\ bottom' = reg[p].b + 1
    /\ Return(p)
    /\ UNCHANGED <<top, buffer, mask, storage, holds, raced>>

-----------------------------------------------------------------------------
(* pop, by the owner *)

PopBegin ==
    /\ pc[Owner] = "idle"
    /\ bottom <= MaxIndex
    /\ bottom' = bottom - 1
    /\ pc' = [pc EXCEPT ![Owner] = "pop"]
    /\ reg' = [reg EXCEPT ![Owner] = Locals(bottom - 1, @.t, buffer, @.lease)]
    /\ UNCHANGED <<top, buffer, mask, storage, holds, raced>>

\* Mutant of PopEmpty: bottom is not put back.
PopEmptyWithoutRestore ==
    /\ pc[Owner] = "pop"
    /\ reg[Owner].b < top
    /\ Return(Owner)
    /\ UNCHANGED <<top, bottom, buffer, mask, storage, holds, raced>>

\* size < 0: bottom has to be put back to top.
PopEmpty ==
    /\ pc[Owner] = "pop"
    /\ reg[Owner].b < top
    /\ pc' = [pc EXCEPT ![Owner] = "restore"]
    /\ reg' = [reg EXCEPT ![Owner] = Locals(top, @.t, @.buf, @.lease)]
    /\ UNCHANGED <<top, bottom, buffer, mask, storage, holds, raced>>

\* Mutant of PopFast: the last lease, too, is taken without a CAS.
PopFastOfLast ==
    /\ pc[Owner] = "pop"
    /\ reg[Owner].b >= top
    /\ holds' = [holds EXCEPT ![Get(reg[Owner].buf, reg[Owner].b)] = @ + 1]
    /\ Return(Owner)
    /\ UNCHANGED <<top, bottom, buffer, mask, storage, raced>>

\* size > 0: the lease is the owner's without a CAS.
PopFast ==
    /\ pc[Owner] = "pop"
    /\ reg[Owner].b > top
    /\ holds' = [holds EXCEPT ![Get(reg[Owner].buf, reg[Owner].b)] = @ + 1]
    /\ Return(Owner)
    /\ UNCHANGED <<top, bottom, buffer, mask, storage, raced>>

\* size = 0: the last lease, for which thieves compete.
PopLast ==
    /\ pc[Owner] = "pop"
    /\ reg[Owner].b = top
    /\ pc' = [pc EXCEPT ![Owner] = "popCas"]
    /\ reg' = [reg EXCEPT ![Owner] = Locals(@.b, top, @.buf, Get(@.buf, @.b))]
    /\ UNCHANGED <<top, bottom, buffer, mask, storage, holds, raced>>

PopCasWon ==
    /\ pc[Owner] = "popCas"
    /\ top = reg[Owner].t
    /\ top' = top + 1
    /\ holds' = [holds EXCEPT ![reg[Owner].lease] = @ + 1]
    /\ pc' = [pc EXCEPT ![Owner] = "restore"]
    /\ reg' = [reg EXCEPT ![Owner] = Locals(@.t + 1, @.t, @.buf, @.lease)]
    /\ UNCHANGED <<bottom, buffer, mask, storage, raced>>

\* compare_exchange_strong stores the top it found in t, so the t + 1 that is
\* then written to bottom is one more than the top.
PopCasLost ==
    /\ pc[Owner] = "popCas"
    /\ top # reg[Owner].t
    /\ pc' = [pc EXCEPT ![Owner] = "restore"]
    /\ reg' = [reg EXCEPT ![Owner] = Locals(top + 1, top, @.buf, NoLease)]
    /\ raced' = TRUE
    /\ UNCHANGED <<top, bottom, buffer, mask, storage, holds>>

PopRestore ==
    /\ pc[Owner] = "restore"
    /\ bottom' = reg[Owner].b
    /\ Return(Owner)
    /\ UNCHANGED <<top, buffer, mask, storage, holds, raced>>

-----------------------------------------------------------------------------
(* steal, by a thief *)

StealTop(h) ==
    /\ pc[h] = "idle"
    /\ pc' = [pc EXCEPT ![h] = "steal"]
    /\ reg' = [reg EXCEPT ![h] = Locals(@.b, top, @.buf, @.lease)]
    /\ UNCHANGED <<top, bottom, buffer, mask, storage, holds, raced>>

StealEmpty(h) ==
    /\ pc[h] = "steal"
    /\ reg[h].t >= bottom
    /\ Return(h)
    /\ UNCHANGED <<top, bottom, buffer, mask, storage, holds, raced>>

StealBottom(h) ==
    /\ pc[h] = "steal"
    /\ reg[h].t < bottom
    /\ pc' = [pc EXCEPT ![h] = "stealBuf"]
    /\ UNCHANGED <<top, bottom, buffer, mask, storage, reg, holds, raced>>

StealBuf(h) ==
    /\ pc[h] = "stealBuf"
    /\ pc' = [pc EXCEPT ![h] = "stealRead"]
    /\ reg' = [reg EXCEPT ![h] = Locals(@.b, @.t, buffer, @.lease)]
    /\ UNCHANGED <<top, bottom, buffer, mask, storage, holds, raced>>

\* A push is about to write the slot of index i of buffer k.
BeingWritten(k, i) ==
    \E p \in Pushers :
        /\ pc[p] = "push"
        /\ ~Full(p)
        /\ reg[p].buf = k
        /\ Slot(k, reg[p].b) = Slot(k, i)

StealRead(h) ==
    /\ pc[h] = "stealRead"
    /\ pc' = [pc EXCEPT ![h] = "stealCas"]
    /\ \E v \in Values :
          /\ \/ v = Get(reg[h].buf, reg[h].t)
             \/ v = Torn /\ BeingWritten(reg[h].buf, reg[h].t)
          /\ reg' = [reg EXCEPT ![h] = Locals(@.b, @.t, @.buf, v)]
    /\ UNCHANGED <<top, bottom, buffer, mask, storage, holds, raced>>

StealCasWon(h) ==
    /\ pc[h] = "stealCas"
    /\ top = reg[h].t
    /\ top' = top + 1
    /\ holds' = [holds EXCEPT ![reg[h].lease] = @ + 1]
    /\ Return(h)
    /\ UNCHANGED <<bottom, buffer, mask, storage, raced>>

StealCasLost(h) ==
    /\ pc[h] = "stealCas"
    /\ top # reg[h].t
    /\ Return(h)
    /\ UNCHANGED <<top, bottom, buffer, mask, storage, holds, raced>>

-----------------------------------------------------------------------------
Init ==
    /\ top = 0
    /\ bottom = 0
    /\ buffer = 1
    /\ mask = <<InitialCapacity - 1>>
    /\ storage = <<[j \in 0..(InitialCapacity - 1) |-> NoLease]>>
    /\ pc = [x \in Threads |-> "idle"]
    /\ reg = [x \in Threads |-> NoLocals]
    /\ holds = [v \in Values |-> IF v \in Leases THEN 1 ELSE 0]
    /\ raced = FALSE

Push(p) ==
    \/ \E l \in Leases : PushLoad(p, l)
    \/ PushGrow(p)
    \/ PushWrite(p)
    \/ PushPublish(p)

Pop == PopBegin \/ PopEmpty \/ PopFast \/ PopLast \/ PopCasWon \/ PopCasLost \/ PopRestore

Steal(h) ==
    \/ StealTop(h)
    \/ StealEmpty(h)
    \/ StealBottom(h)
    \/ StealBuf(h)
    \/ StealRead(h)
    \/ StealCasWon(h)
    \/ StealCasLost(h)

Next ==
    \/ \E p \in Pushers : Push(p)
    \/ Pop
    \/ \E h \in Thieves : Steal(h)

Spec == Init /\ [][Next]_vars

-----------------------------------------------------------------------------
(* What the deque holds *)

\* From the store of bottom in pop to the decision on the lease at bottom,
\* that lease still belongs to the deque.
Edge == IF pc[Owner] \in {"pop", "popCas", "restore"} THEN bottom + 1 ELSE bottom

Window == top..(Edge - 1)

InFlight(p, l) == pc[p] \in {"push", "publish"} /\ reg[p].lease = l

-----------------------------------------------------------------------------
(* Properties *)

States == {"idle", "push", "publish", "pop", "popCas", "restore",
           "steal", "stealBuf", "stealRead", "stealCas"}

\* The program counters, locals and buffers have their types, and every buffer
\* has as many slots as its mask says.
TypeOK ==
    /\ top \in Nat
    /\ bottom \in Int
    /\ mask \in Seq(Nat)
    /\ buffer \in 1..Len(mask)
    /\ Len(storage) = Len(mask)
    /\ \A k \in 1..Len(mask) : storage[k] \in [0..mask[k] -> Values \ {Torn}]
    /\ pc \in [Threads -> States]
    /\ reg \in [Threads -> [b : Int, t : Nat, buf : 1..Len(mask), lease : Values]]
    /\ holds \in [Values -> Nat]
    /\ raced \in BOOLEAN

\* A steal whose CAS is going to succeed returns the lease that the deque holds
\* at top now, although it read the slot earlier, without synchronisation, and
\* perhaps in a buffer that push has since replaced (steal reads the slot
\* before its compare_exchange).
StableSteal ==
    \A h \in Thieves :
        pc[h] = "stealCas" /\ reg[h].t = top =>
            /\ top \in Window
            /\ reg[h].lease = Get(buffer, top)

\* No lease is lost: one that no thread holds is in the hands of a push or at an
\* index that a pop or a steal will reach, whatever grows, wraps or races.
NoLeaseLost ==
    \A l \in Leases :
        holds[l] = 0 =>
            \/ \E p \in Pushers : InFlight(p, l)
            \/ \E i \in Window : Get(buffer, i) = l

\* "Never concurrent - lease is exclusive" (finalized/RFC-002-STREAMING-S3.md,
\* 14.8): a lease is never in the hands of two threads.  The code breaks this
\* after PopCasLost.
LeaseExclusive == \A l \in Leases : holds[l] <= 1

\* Besides, neither a default-constructed nor a torn lease is handed out.
Exclusive ==
    /\ LeaseExclusive
    /\ holds[NoLease] = 0
    /\ holds[Torn] = 0

\* Exclusive holds up to the first pop that loses the race for the last lease;
\* a torn lease is never handed out, even after that.
ExclusiveUntilRace == holds[Torn] = 0 /\ (raced \/ Exclusive)

-----------------------------------------------------------------------------
(* Refinement: the deque implements WorkDeque, an operation taking effect at  *)
(* the store of bottom (push), the load of top (pop of one of several), or   *)
(* the CAS of top (pop of the last, steal).                                  *)

Abstract == INSTANCE WorkDeque WITH
    items <- [n \in 1..(Edge - top) |-> Get(buffer, top + n - 1)],
    held  <- [v \in Values |->
                holds[v] + (IF \E p \in Pushers : InFlight(p, v) THEN 1 ELSE 0)]

\* Every behaviour of the owner and the thieves is one of WorkDeque.
ImplementsWorkDeque == Abstract!Spec

=============================================================================
