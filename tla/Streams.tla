------------------------------ MODULE Streams ------------------------------
(***************************************************************************)
(* The pull-based streams (core/stream.hpp, materialization/stream.hpp).   *)
(*                                                                         *)
(* A stream is a record: op is its implementation, src the stream it owns. *)
(* Pulling it gives a reply: the stream afterwards (s), what the pull      *)
(* returned (k) and the chunk (c) if it returned one.  A handle has one    *)
(* owner, so a pull is one step, whatever it pulls below.                  *)
(*                                                                         *)
(* Each combinator takes the reply r of the stream it pulls next.  A reply *)
(* "again" says that the loop of its pull goes round: the stream is to be  *)
(* pulled as it is then (Pull, in Pipelines).                              *)
(*                                                                         *)
(* where, map and take of record streams repeat the core's filter, map and *)
(* take: Filter, Map and Take stand for both.                              *)
(***************************************************************************)
EXTENDS Integers, Sequences, SequencesExt

CONSTANTS
    Fn(_),       \* the function of map, par_map and inspect
    Pred(_),     \* the predicate of filter and where
    Sub(_),      \* the stream flat_map makes of an element
    Bad          \* a stored value the codec cannot decode

Reply(s, k, c) == [s |-> s, k |-> k, c |-> c]
Emit(s, c) == Reply(s, "emit", c)
Done(s) == Reply(s, "done", <<>>)
Fail(s) == Reply(s, "err", <<>>)
Again(s) == Reply(s, "again", <<>>)

\* The reply r of the source, handed on by its owner s.
Owning(s, r) == [s EXCEPT !.src = r.s]
HandOn(s, r) == [r EXCEPT !.s = Owning(s, r)]

\* Chunk::slice: at most n elements from index off (0-based) on.
Slice(c, off, n) == SubSeq(c, off + 1, IF n < Len(c) - off THEN off + n ELSE Len(c))

-----------------------------------------------------------------------------
(* Sources.  A source is the list of what its pulls return: the pages of a *)
(* backend's scan, with its failures, or one chunk.                        *)
Chunk(c) == [k |-> "emit", c |-> c]
Fault == [k |-> "err", c |-> <<>>]

Source(items) == [op |-> "source", items |-> items]
Empty == Source(<<>>)
Singleton(x) == Source(<<Chunk(<<x>>)>>)
FromVector(v) == Source(IF v = <<>> THEN <<>> ELSE <<Chunk(v)>>)

SourcePull(s) ==
    IF s.items = <<>> THEN Done(s)
    ELSE LET i == Head(s.items) IN Reply([s EXCEPT !.items = Tail(@)], i.k, i.c)

-----------------------------------------------------------------------------
Map(src) == [op |-> "map", src |-> src]

MapPull(s, r) ==
    IF r.k # "emit" THEN HandOn(s, r)
    ELSE Emit(Owning(s, r), [i \in DOMAIN r.c |-> Fn(r.c[i])])

Filter(src) == [op |-> "filter", src |-> src]

FilterPull(s, r) ==
    LET kept == SelectSeq(r.c, Pred)
    IN IF r.k # "emit" THEN HandOn(s, r)
       ELSE IF kept = <<>> THEN Again(Owning(s, r)) ELSE Emit(Owning(s, r), kept)

Take(src, n) == [op |-> "take", src |-> src, remaining |-> n]

TakePull(s, r) ==
    LET t == Owning(s, r)
    IN CASE s.remaining = 0 -> Done(s)
         [] s.remaining > 0 /\ r.k # "emit" -> HandOn(s, r)
         [] s.remaining > 0 /\ r.k = "emit" ->
              IF Len(r.c) <= s.remaining
              THEN Emit([t EXCEPT !.remaining = @ - Len(r.c)], r.c)
              ELSE Emit([t EXCEPT !.remaining = 0], Slice(r.c, 0, s.remaining))

FlatMap(src) == [op |-> "flat_map", src |-> src, sub |-> <<>>, pending |-> <<>>]

\* r is the reply of sub if there is one, and of the source if not.
FlatMapPull(s, r) ==
    IF s.sub # <<>>
    THEN IF r.k = "done" THEN Again([s EXCEPT !.sub = <<>>])
         ELSE [r EXCEPT !.s = [s EXCEPT !.sub = <<r.s>>]]
    ELSE IF s.pending # <<>>
    THEN Again([s EXCEPT !.sub = <<Sub(Head(s.pending))>>, !.pending = Tail(@)])
    ELSE CASE r.k # "emit" -> HandOn(s, r)
           [] r.k = "emit" /\ r.c = <<>> -> Again(Owning(s, r))
           [] r.k = "emit" /\ r.c # <<>> ->
                Again([Owning(s, r) EXCEPT !.sub = <<Sub(Head(r.c))>>, !.pending = Tail(r.c)])

\* seen is what the side effect was called with.
Inspect(src) == [op |-> "inspect", src |-> src, seen |-> <<>>]

InspectPull(s, r) == [r EXCEPT !.s = [Owning(s, r) EXCEPT !.seen = @ \o r.c]]

Batch(src, n) ==
    [op |-> "batch", src |-> src, size |-> n, buffer |-> <<>>, upstream_done |-> FALSE]

BatchPull(s, r) ==
    IF Len(s.buffer) < s.size /\ ~s.upstream_done
    THEN LET t == Owning(s, r)
         IN CASE r.k = "err" -> Fail(t)
              [] r.k = "done" -> Again([t EXCEPT !.upstream_done = TRUE])
              [] r.k = "emit" -> Again([t EXCEPT !.buffer = @ \o r.c])
    ELSE IF s.buffer = <<>> THEN Done(s)
    ELSE Emit([s EXCEPT !.buffer = Slice(@, s.size, Len(@))], Slice(s.buffer, 0, s.size))

-----------------------------------------------------------------------------
(* StoreRef::stream_scan decodes the pairs of a scan as they come.  An     *)
(* undecodable value makes an error of the whole page, and what the page   *)
(* would have used of the limit is not used.                               *)
Decode(src, limit) == [op |-> "decode", src |-> src, left |-> limit, limited |-> limit > 0]

DecodePull(s, r) ==
    IF s.limited /\ s.left = 0 THEN Done(s)
    ELSE LET page == IF s.limited THEN Slice(r.c, 0, s.left) ELSE r.c
             t == Owning(s, r)
         IN CASE r.k # "emit" -> HandOn(s, r)
              [] r.k = "emit" /\ \E i \in DOMAIN page : page[i].value = Bad -> Fail(t)
              [] r.k = "emit" /\ \A i \in DOMAIN page : page[i].value # Bad ->
                   LET u == [t EXCEPT !.left = IF s.limited THEN @ - Len(page) ELSE @]
                   IN IF page = <<>> THEN Done(u) ELSE Emit(u, page)
=============================================================================
