---------------------------- MODULE AsyncStreams ----------------------------
(***************************************************************************)
(* The pollable streams (core/async_stream.hpp): a poll also answers       *)
(* "pending" or "yield".  Cancelling a stream is cooperative: it goes down *)
(* to the bridges, which then report that they are done.                   *)
(***************************************************************************)
EXTENDS Streams

CONSTANTS Child(_)   \* the stream concat_map and merge_map make of an element

Pending(s) == Reply(s, "pending", <<>>)

\* to_async: a sync stream as a pollable one.
Bridge(src) == [op |-> "bridge", src |-> src, done |-> FALSE]

BridgePoll(s, r) ==
    IF s.done THEN Done(s)
    ELSE [r EXCEPT !.s = [Owning(s, r) EXCEPT !.done = r.k = "done"]]

\* A pollable source outside the library, which is not always ready.
Script(items) == [op |-> "script", items |-> items]
Wait == [k |-> "pending", c |-> <<>>]
Yield == [k |-> "yield", c |-> <<>>]

ParMap(src) == [op |-> "par_map", src |-> src, done |-> FALSE]

ParMapPoll(s, r) ==
    IF s.done THEN Done(s)
    ELSE LET t == [Owning(s, r) EXCEPT !.done = r.k = "done"]
         IN Reply(t, r.k, [i \in DOMAIN r.c |-> Fn(r.c[i])])

-----------------------------------------------------------------------------
\* next counts modulo the number of sources.
ParEval(srcs) ==
    [op |-> "par_eval", srcs |-> srcs, done |-> [i \in DOMAIN srcs |-> FALSE], next |-> 0]

\* rs are the replies of the sources.  They are polled in turn from next on,
\* until one of them gives a chunk or an error.
ParEvalPoll(s, rs) ==
    LET n == Len(s.srcs)
        At(k) == ((s.next + k) % n) + 1
        hits == {k \in 0 .. n - 1 : ~s.done[At(k)] /\ rs[At(k)].k \in {"emit", "err"}}
        tries == IF hits = {} THEN n ELSE Min(hits) + 1
        polled == {i \in {At(k) : k \in 0 .. tries - 1} : ~s.done[i]}
        t == [s EXCEPT !.next = (@ + tries) % n,
                       !.srcs = [i \in 1 .. n |-> IF i \in polled THEN rs[i].s ELSE @[i]],
                       !.done = [i \in 1 .. n |-> @[i] \/ (i \in polled /\ rs[i].k = "done")]]
    IN CASE n = 0 -> Done(s)
         [] n > 0 /\ hits # {} -> [rs[At(tries - 1)] EXCEPT !.s = t]
         [] n > 0 /\ hits = {} -> IF \A i \in 1 .. n : t.done[i] THEN Done(t) ELSE Pending(t)

-----------------------------------------------------------------------------
ConcatMap(src) == [op |-> "concat_map", src |-> src, child |-> <<>>, done |-> FALSE]

\* r is the reply of the child if there is one, and of the source if not.
\* Only the first element of a chunk of the source gets a child.
ConcatMapPoll(s, r) ==
    IF s.child # <<>>
    THEN IF r.k = "done" THEN Again([s EXCEPT !.child = <<>>])
         ELSE [r EXCEPT !.s = [s EXCEPT !.child = <<r.s>>]]
    ELSE IF s.done THEN Done(s)
    ELSE LET t == [Owning(s, r) EXCEPT !.done = r.k = "done"]
         IN IF r.k # "emit" THEN [r EXCEPT !.s = t]
            ELSE Again([t EXCEPT !.child = IF r.c = <<>> THEN <<>> ELSE <<Child(Head(r.c))>>])

MergeMap(src, n) ==
    [op |-> "merge_map", src |-> src, children |-> <<>>, max |-> n, done |-> FALSE]

\* rs are the replies of the children, which are polled in turn until one
\* gives a chunk or an error; those that are done are dropped.
PollChildren(s, rs) ==
    LET hits == {i \in DOMAIN rs : rs[i].k \in {"emit", "err"}}
        last == IF hits = {} THEN Len(rs) ELSE Min(hits)
        polled == SelectSeq(SubSeq(rs, 1, last), LAMBDA r : r.k # "done")
        t == [s EXCEPT !.children = [i \in DOMAIN polled |-> polled[i].s]
                                      \o SubSeq(@, last + 1, Len(@))]
    IN CASE hits # {} -> [rs[last] EXCEPT !.s = t]
         [] hits = {} -> IF t.children = <<>> /\ t.done THEN Done(t) ELSE Pending(t)

\* r is the reply of the source.  New children while there is room and the
\* source gives elements; those of a chunk for which there is no room get none.
MergeMapPoll(s, r, rs) ==
    LET t == [Owning(s, r) EXCEPT !.done = r.k = "done"]
        fit == Slice(r.c, 0, s.max - Len(s.children))
    IN IF s.done \/ Len(s.children) >= s.max THEN PollChildren(s, rs)
       ELSE CASE r.k = "emit" ->
                   Again([t EXCEPT !.children = @ \o [i \in DOMAIN fit |-> Child(fit[i])]])
              [] r.k = "err" -> Fail(t)
              [] r.k \notin {"emit", "err"} -> PollChildren(t, rs)

-----------------------------------------------------------------------------
(* cancel and clone.  src, srcs, child and children are the cancelled or   *)
(* cloned streams that s owns.                                             *)
BridgeCancelIgnored(s) == s
BridgeCancel(s) == [s EXCEPT !.done = TRUE]
ParMapCancel(s, src) == [s EXCEPT !.src = src]
ParEvalCancel(s, srcs) == [s EXCEPT !.srcs = srcs]
ConcatMapCancel(s, src, child) == [s EXCEPT !.src = src, !.child = child]
MergeMapCancel(s, src, children) == [s EXCEPT !.src = src, !.children = children]

ParEvalClone(s, srcs) == [s EXCEPT !.srcs = srcs, !.next = 0]
ConcatMapClone(s, src) == [s EXCEPT !.src = src, !.child = <<>>]
MergeMapClone(s, src, children) == [s EXCEPT !.src = src, !.children = children]
=============================================================================
