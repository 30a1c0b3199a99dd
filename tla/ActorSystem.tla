----------------------------- MODULE ActorSystem -----------------------------
(***************************************************************************)
(* Actors with bounded mailboxes (include/celer/necto/actor.hpp and        *)
(* channel.hpp).  One thread owns the system: it spawns actors, delivers   *)
(* envelopes, ticks one actor or drains all of them, and meanwhile runs    *)
(* their on_receive, which may send.                                       *)
(*                                                                         *)
(* An envelope is its (from, seq) pair and its receiver; payloads are left *)
(* out.  A caller of deliver chooses the sender and the sequence number    *)
(* itself, an actor's own included, and may try again with the same ones;  *)
(* ctx.send numbers the envelopes of an actor.                             *)
(***************************************************************************)
EXTENDS Integers, Sequences, SequencesExt, FiniteSetsExt

CONSTANTS
    MaxActors,  \* bound: how many actors are spawned
    External,   \* the sender of what comes from outside, UINT32_MAX - 1
    System,     \* the sender of what channel_push puts past deliver
    Capacity,   \* channel_capacity_
    Outside,    \* bound: receiver, sender and number of what callers of deliver make
    MaxSends,   \* bound: how many envelopes the actors send in total
    MaxRounds   \* max_rounds of drain

ASSUME ConstantsAssumption ==
    /\ MaxActors \in Nat \ {0}
    /\ Capacity \in Nat \ {0}
    /\ Outside \subseteq (1..MaxActors) \X (1..MaxActors \union {External}) \X Nat
    /\ MaxSends \in Nat \ {0}
    /\ MaxRounds \in Nat \ {0}
    /\ External # System
    /\ {External, System} \intersect Nat = {}

Indices == 1..MaxActors
Senders == Indices \union {External, System}
Keys    == Senders \X Nat

\* The envelope of this key came through deliver.
Delivered(k) == k[1] # System

VARIABLES
    size,       \* actors_.size()
    inbox,      \* the queue_ of each actor's ChannelBuf: keys of envelopes
    seen,       \* dedup_
    next_seq,   \* next_seq_
    dormant,    \* lifecycle_ is Dormant
    mode,       \* what the owner of the system is doing: idle, tick or drain
    actor,      \* the actor that is ticked
    chunk,      \* what tick pulled and has not processed
    ctx_seq,    \* ActorContext::next_seq_
    processed,  \* how many envelopes tick_all has processed in this round
    round,      \* round of drain
    done,       \* history: delivered keys processed since dedup_ was cleared
    refused,    \* history: keys refused by a full channel since dedup_ was cleared
    borrowed    \* history: keys seen that callers of deliver gave in an actor's name

mailboxes == <<inbox, seen, refused>>
turn      == <<mode, actor, chunk, ctx_seq, processed, round>>
vars      == <<size, mailboxes, next_seq, dormant, turn, done, borrowed>>

-----------------------------------------------------------------------------
(* deliver *)

\* Mutants of Push: no capacity; the newest envelope first.
PushUnbounded(a, k) ==
    /\ inbox' = [inbox EXCEPT ![a] = Append(@, k)]
    /\ UNCHANGED refused

PushToFront(a, k) ==
    IF Len(inbox[a]) < Capacity
    THEN /\ inbox' = [inbox EXCEPT ![a] = <<k>> \o @]
         /\ UNCHANGED refused
    ELSE /\ refused' = [refused EXCEPT ![a] = @ \union {k}]
         /\ UNCHANGED inbox

\* ChannelBuf::push.
Push(a, k) ==
    IF Len(inbox[a]) < Capacity
    THEN /\ inbox' = [inbox EXCEPT ![a] = Append(@, k)]
         /\ UNCHANGED refused
    ELSE /\ refused' = [refused EXCEPT ![a] = @ \union {k}]
         /\ UNCHANGED inbox

\* Mutant of Accepts: duplicates are not looked for.
AcceptsDuplicates(a, k) == a <= size /\ ~dormant[a]

Accepts(a, k) == a <= size /\ ~dormant[a] /\ k \notin seen[a]

\* The key is remembered before it is known whether there is room.
Deliver(a, k) ==
    IF Accepts(a, k)
    THEN seen' = [seen EXCEPT ![a] = @ \union {k}] /\ Push(a, k)
    ELSE UNCHANGED mailboxes

Idle == mode = "idle"

\* The caller of deliver names any sender, and numbers its envelopes itself.
DeliverOutside(a, from, n) ==
    /\ Idle
    /\ Deliver(a, <<from, n>>)
    /\ borrowed' = IF from \in Indices /\ Accepts(a, <<from, n>>)
                   THEN [borrowed EXCEPT ![a] = @ \union {<<from, n>>}]
                   ELSE borrowed
    /\ UNCHANGED <<size, next_seq, dormant, turn, done>>

\* Every injected envelope has sequence number 0.
Inject(a) ==
    /\ Idle
    /\ Deliver(a, <<External, 0>>)
    /\ UNCHANGED <<size, next_seq, dormant, turn, done, borrowed>>

-----------------------------------------------------------------------------
(* Operations of the owner *)

\* spawn and clone_spawn: a new actor, with a new channel and an empty dedup_.
Spawn ==
    /\ Idle
    /\ size < MaxActors
    /\ size' = size + 1
    /\ UNCHANGED <<mailboxes, next_seq, dormant, turn, done, borrowed>>

ChannelPush(a) ==
    /\ Idle
    /\ a <= size
    /\ Len(inbox[a]) < Capacity
    /\ inbox' = [inbox EXCEPT ![a] = Append(@, <<System, 0>>)]
    /\ UNCHANGED <<size, seen, refused, next_seq, dormant, turn, done, borrowed>>

ChannelDrain(a) ==
    /\ Idle
    /\ a <= size
    /\ inbox' = [inbox EXCEPT ![a] = <<>>]
    /\ seen' = [seen EXCEPT ![a] = {}]
    /\ refused' = [refused EXCEPT ![a] = {}]
    /\ done' = [done EXCEPT ![a] = {}]
    /\ borrowed' = [borrowed EXCEPT ![a] = {}]
    /\ UNCHANGED <<size, next_seq, dormant, turn>>

SetLifecycle(a) ==
    /\ Idle
    /\ a <= size
    /\ dormant' = [dormant EXCEPT ![a] = ~@]
    /\ UNCHANGED <<size, mailboxes, next_seq, turn, done, borrowed>>

-----------------------------------------------------------------------------
(* tick *)

Tick(a) ==
    /\ Idle
    /\ a <= size
    /\ mode' = "tick"
    /\ actor' = a
    /\ UNCHANGED <<size, mailboxes, next_seq, dormant, chunk, ctx_seq, processed, round, done, borrowed>>

Ticking == mode \in {"tick", "drain"} /\ actor <= size /\ chunk = <<>>

\* A drain goes on to the next actor, a tick is over.
NextActor ==
    /\ mode' = IF mode = "tick" THEN "idle" ELSE "drain"
    /\ actor' = IF mode = "tick" THEN 1 ELSE actor + 1

Skip ==
    /\ Ticking
    /\ dormant[actor] \/ inbox[actor] = <<>>
    /\ NextActor
    /\ UNCHANGED <<size, mailboxes, next_seq, dormant, chunk, ctx_seq, processed, round, done, borrowed>>

\* Mutant of Pull: one envelope is pulled and the rest thrown away.
PullFirst ==
    /\ Ticking
    /\ ~dormant[actor]
    /\ inbox[actor] # <<>>
    /\ chunk' = <<Head(inbox[actor])>>
    /\ inbox' = [inbox EXCEPT ![actor] = <<>>]
    /\ ctx_seq' = next_seq[actor]
    /\ UNCHANGED <<size, seen, refused, next_seq, dormant, mode, actor, processed, round, done, borrowed>>

\* The whole inbox is pulled, and the actor's sequence number copied.
Pull ==
    /\ Ticking
    /\ ~dormant[actor]
    /\ inbox[actor] # <<>>
    /\ chunk' = inbox[actor]
    /\ inbox' = [inbox EXCEPT ![actor] = <<>>]
    /\ ctx_seq' = next_seq[actor]
    /\ UNCHANGED <<size, seen, refused, next_seq, dormant, mode, actor, processed, round, done, borrowed>>

\* The sequence number the next ctx.send of actor a will use.
CurrentSeq(a) == IF chunk # <<>> /\ actor = a THEN ctx_seq ELSE next_seq[a]

\* How many envelopes the actors have sent.
Sent == MapThenSumSet(CurrentSeq, Indices)

\* ctx.send, by on_receive of the envelope at the head of the chunk.
Send(a) ==
    /\ chunk # <<>>
    /\ Sent < MaxSends
    /\ Deliver(a, <<actor, ctx_seq>>)
    /\ ctx_seq' = ctx_seq + 1
    /\ UNCHANGED <<size, next_seq, dormant, mode, actor, chunk, processed, round, done, borrowed>>

\* Mutant of Received: the sequence number is not written back.
ReceivedForgetsSeq ==
    /\ chunk # <<>>
    /\ chunk' = Tail(chunk)
    /\ done' = [done EXCEPT ![actor] = IF Delivered(Head(chunk)) THEN @ \union {Head(chunk)} ELSE @]
    /\ processed' = IF mode = "drain" THEN processed + 1 ELSE processed
    /\ IF Len(chunk) = 1
       THEN ctx_seq' = 0 /\ NextActor
       ELSE UNCHANGED <<ctx_seq, mode, actor>>
    /\ UNCHANGED <<size, mailboxes, next_seq, dormant, round, borrowed>>

\* on_receive returns; after the last envelope the sequence number is kept.
Received ==
    /\ chunk # <<>>
    /\ chunk' = Tail(chunk)
    /\ done' = [done EXCEPT ![actor] = IF Delivered(Head(chunk)) THEN @ \union {Head(chunk)} ELSE @]
    /\ processed' = IF mode = "drain" THEN processed + 1 ELSE processed
    /\ IF Len(chunk) = 1
       THEN /\ next_seq' = [next_seq EXCEPT ![actor] = ctx_seq]
            /\ ctx_seq' = 0
            /\ NextActor
       ELSE UNCHANGED <<next_seq, ctx_seq, mode, actor>>
    /\ UNCHANGED <<size, mailboxes, dormant, round, borrowed>>

-----------------------------------------------------------------------------
(* drain: rounds of tick_all *)

StartRound(r) ==
    /\ mode' = "drain"
    /\ actor' = 1
    /\ processed' = 0
    /\ round' = r
    /\ UNCHANGED <<size, mailboxes, next_seq, dormant, chunk, ctx_seq, done, borrowed>>

Drain == Idle /\ StartRound(1)

\* Mutant of EndOfRound: tick_all stops before the last actor.
EndOfRoundEarly == mode = "drain" /\ actor >= size /\ chunk = <<>>

EndOfRound == mode = "drain" /\ actor > size /\ chunk = <<>>

NextRound ==
    /\ EndOfRound
    /\ processed > 0
    /\ round < MaxRounds
    /\ StartRound(round + 1)

Return ==
    /\ mode' = "idle"
    /\ actor' = 1
    /\ processed' = 0
    /\ round' = 0
    /\ UNCHANGED <<size, mailboxes, next_seq, dormant, chunk, ctx_seq, done, borrowed>>

\* A round without messages, which may be the last one.
Quiescent ==
    /\ EndOfRound
    /\ processed = 0
    /\ Return

GiveUp ==
    /\ EndOfRound
    /\ processed > 0
    /\ round = MaxRounds
    /\ Return

-----------------------------------------------------------------------------
\* Nothing received or sent, and nothing going on.
Fresh ==
    /\ inbox = [a \in Indices |-> <<>>]
    /\ seen = [a \in Indices |-> {}]
    /\ refused = [a \in Indices |-> {}]
    /\ next_seq = [a \in Indices |-> 0]
    /\ dormant = [a \in Indices |-> FALSE]
    /\ mode = "idle"
    /\ actor = 1
    /\ chunk = <<>>
    /\ ctx_seq = 0
    /\ processed = 0
    /\ round = 0
    /\ done = [a \in Indices |-> {}]
    /\ borrowed = [a \in Indices |-> {}]

Init == size = 0 /\ Fresh

Operation ==
    \/ \E env \in Outside : DeliverOutside(env[1], env[2], env[3])
    \/ \E a \in Indices : Inject(a) \/ ChannelPush(a) \/ ChannelDrain(a) \/ SetLifecycle(a) \/ Tick(a)
    \/ Spawn
    \/ Drain

\* What the owner's thread does on its own within tick or drain.
Step ==
    \/ Skip \/ Pull \/ Received \/ NextRound \/ Quiescent \/ GiveUp
    \/ \E a \in Indices : Send(a)

Next == Operation \/ Step

Spec == Init /\ [][Next]_vars

-----------------------------------------------------------------------------
(* Properties *)

\* The variables have their types and no mailbox exceeds its capacity.
TypeOK ==
    /\ size \in 0..MaxActors
    /\ inbox \in [Indices -> Seq(Keys)]
    /\ \A a \in Indices : Len(inbox[a]) <= Capacity
    /\ seen \in [Indices -> SUBSET Keys]
    /\ refused \in [Indices -> SUBSET Keys]
    /\ next_seq \in [Indices -> Nat]
    /\ dormant \in [Indices -> BOOLEAN]
    /\ mode \in {"idle", "tick", "drain"}
    /\ actor \in 1..(MaxActors + 1)
    /\ chunk \in Seq(Keys)
    /\ ctx_seq \in Nat
    /\ processed \in Nat
    /\ round \in 0..MaxRounds
    /\ done \in [Indices -> SUBSET Keys]
    /\ borrowed \in [Indices -> SUBSET Keys]

\* What actor a has yet to process, in the order in which it will, and the keys
\* of those envelopes that came through deliver.
Held(a) == (IF a = actor THEN chunk ELSE <<>>) \o inbox[a]

Pending(a) == {k \in Range(Held(a)) : Delivered(k)}

\* An envelope delivered any number of times with one (from, seq) is processed
\* at most once, until channel_drain makes the receiver forget it.
AtMostOnce ==
    \A a \in Indices :
        /\ \A i, j \in DOMAIN Held(a) :
              Delivered(Held(a)[i]) /\ Held(a)[i] = Held(a)[j] => i = j
        /\ Pending(a) \intersect done[a] = {}

\* "This enables safe retry semantics: [...] it resends with the same seq.  The
\* receiver processes it exactly once." (finalized/RFC-004-necto-actor-ipc.md):
\* a receiver rejects as a duplicate only what it has processed or will process.
\* The code breaks this when the channel is full.
SafeRetry == \A a \in Indices : seen[a] \subseteq done[a] \union Pending(a)

\* A full channel is the only cause: every other key that the receiver remembers
\* belongs to an envelope that it has processed or holds, through tick, drain,
\* dormancy and reactivation.
LostOnlyWhenFull ==
    \A a \in Indices : seen[a] \subseteq done[a] \union Pending(a) \union refused[a]

\* What an actor sends is never taken for a duplicate: nobody has yet seen the
\* sequence number it will use, though it is kept in two places during a tick.
\* A number that a caller of deliver used in the actor's name is left out:
\* deliver takes it, and the actor's own envelope is then the duplicate.
FreshSeq ==
    \A a, b \in Indices : \A k \in seen[b] \ borrowed[b] : k[1] = a => k[2] < CurrentSeq(a)

\* A receiver processes the envelopes that one actor sent in the order they were
\* sent, whatever callers of deliver put between them.
SentByActor(b, k) == k[1] \in Indices /\ k \notin borrowed[b]

SenderOrder ==
    \A b \in Indices : \A i \in DOMAIN Held(b) :
        LET k == Held(b)[i] IN
        SentByActor(b, k) =>
          /\ \A j \in DOMAIN Held(b) :
                i < j /\ Held(b)[j][1] = k[1] /\ SentByActor(b, Held(b)[j]) => k[2] < Held(b)[j][2]
          /\ \A d \in done[b] : d[1] = k[1] /\ SentByActor(b, d) => d[2] < k[2]

\* drain returns with a mail for an active actor only if every one of max_rounds
\* rounds was busy: a round in which nobody received anything, the last one
\* included, leaves nobody a mail, though actors early in a round receive from
\* later ones.
DrainQuiesces ==
    [][mode = "drain" /\ mode' = "idle" =>
          \/ round = MaxRounds /\ processed > 0
          \/ \A a \in 1..size : dormant[a] \/ inbox[a] = <<>>]_vars

=============================================================================
