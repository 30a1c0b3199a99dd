----------------------------- MODULE Pipelines -----------------------------
(***************************************************************************)
(* Streams put together and consumed: a job is opened, its handle is       *)
(* polled to the end as the terminal operations do (or further, and past   *)
(* errors), and it may be cloned and cancelled on the way, as              *)
(* StreamHandle and AsyncStreamHandle allow.                               *)
(***************************************************************************)
EXTENDS AsyncStreams, Joins, Bags

CONSTANTS
    Jobs    \* what is opened: [join |-> FALSE, s |-> stream], or
            \* [join |-> TRUE, left, right, batch_get, opts]

VARIABLES
    job,    \* the job
    at,     \* the handle and its clone: stream, output, last reply, history
    mark,   \* where the clone was made: rows given by then, and whether a
            \* concat_map was in the middle of a child
    turn    \* flips with every poll, which may leave the rest as it was

vars == <<job, at, mark, turn>>

Handles == {"main", "twin"}

Async == {"bridge", "script", "par_map", "par_eval", "concat_map", "merge_map"}

(* The pull, or poll, of a stream: what s owns is pulled first, as far as  *)
(* s needs it, and the loop of s goes round while it says "again".  P is   *)
(* the pull of any stream.                                                 *)
PullWith(P(_), s) ==
    LET Loop(a) == IF a.k = "again" THEN P(a.s) ELSE a
        Reading(x, F(_)) == Loop(F(P(x)))
        All(q) == [i \in DOMAIN q |-> P(q[i])]
    IN CASE s.op \in {"source", "script"} -> SourcePull(s)
         [] s.op = "map" -> Reading(s.src, LAMBDA r : MapPull(s, r))
         [] s.op = "filter" -> Reading(s.src, LAMBDA r : FilterPull(s, r))
         [] s.op = "take" -> Reading(s.src, LAMBDA r : TakePull(s, r))
         [] s.op = "flat_map" ->
              Reading(IF s.sub # <<>> THEN s.sub[1] ELSE s.src, LAMBDA r : FlatMapPull(s, r))
         [] s.op = "inspect" -> Reading(s.src, LAMBDA r : InspectPull(s, r))
         [] s.op = "batch" -> Reading(s.src, LAMBDA r : BatchPull(s, r))
         [] s.op = "decode" -> Reading(s.src, LAMBDA r : DecodePull(s, r))
         [] s.op = "join" -> Reading(s.src, LAMBDA r : JoinPull(s, r))
         [] s.op = "wrap" -> Reading(s.src, LAMBDA r : WrapPull(s, r))
         [] s.op = "bridge" -> Reading(s.src, LAMBDA r : BridgePoll(s, r))
         [] s.op = "par_map" -> Reading(s.src, LAMBDA r : ParMapPoll(s, r))
         [] s.op = "par_eval" -> ParEvalPoll(s, All(s.srcs))
         [] s.op = "concat_map" ->
              Reading(IF s.child # <<>> THEN s.child[1] ELSE s.src, LAMBDA r : ConcatMapPoll(s, r))
         [] s.op = "merge_map" ->
              Reading(s.src, LAMBDA r : MergeMapPoll(s, r, All(s.children)))

RECURSIVE Pull(_)
Pull(s) == PullWith(Pull, s)

\* Everything a stream gives, or "err".
RECURSIVE Collect(_, _)
Collect(s, got) ==
    LET r == Pull(s)
    IN CASE r.k = "emit" -> Collect(r.s, got \o r.c)
         [] r.k = "done" -> Reply(r.s, "ok", got)
         [] r.k = "err" -> Fail(r.s)

RECURSIVE Cancelled(_)
Cancelled(s) ==
    LET Each(q) == [i \in DOMAIN q |-> Cancelled(q[i])]
    IN CASE s.op = "bridge" -> BridgeCancel(s)
         [] s.op = "script" -> [s EXCEPT !.items = <<>>]
         [] s.op = "par_map" -> ParMapCancel(s, Cancelled(s.src))
         [] s.op = "par_eval" -> ParEvalCancel(s, Each(s.srcs))
         [] s.op = "concat_map" -> ConcatMapCancel(s, Cancelled(s.src), Each(s.child))
         [] s.op = "merge_map" -> MergeMapCancel(s, Cancelled(s.src), Each(s.children))

\* CloneOf with a copy of batch that leaves its buffer behind.
RECURSIVE CloneOfUnbuffered(_)
CloneOfUnbuffered(s) ==
    LET Each(q) == [i \in DOMAIN q |-> CloneOfUnbuffered(q[i])]
    IN CASE s.op \in {"source", "script"} -> s
         [] s.op = "batch" -> [s EXCEPT !.src = CloneOfUnbuffered(@), !.buffer = <<>>]
         [] s.op = "par_eval" -> ParEvalClone(s, Each(s.srcs))
         [] s.op = "concat_map" -> ConcatMapClone(s, CloneOfUnbuffered(s.src))
         [] s.op = "merge_map" -> MergeMapClone(s, CloneOfUnbuffered(s.src), Each(s.children))
         [] OTHER -> [s EXCEPT !.src = CloneOfUnbuffered(@)]

\* The copy constructors.
RECURSIVE CloneOf(_)
CloneOf(s) ==
    LET Each(q) == [i \in DOMAIN q |-> CloneOf(q[i])]
    IN CASE s.op \in {"source", "script"} -> s
         [] s.op = "flat_map" -> [s EXCEPT !.src = CloneOf(@), !.sub = Each(@)]
         [] s.op = "par_eval" -> ParEvalClone(s, Each(s.srcs))
         [] s.op = "concat_map" -> ConcatMapClone(s, CloneOf(s.src))
         [] s.op = "merge_map" -> MergeMapClone(s, CloneOf(s.src), Each(s.children))
         [] OTHER -> [s EXCEPT !.src = CloneOf(@)]

-----------------------------------------------------------------------------
(* What a stream has still to give, said without pulling it: up to the     *)
(* first failure of a source, and for merge_map at most.                   *)
Flat(seq, F(_)) == FlattenSeq([i \in DOMAIN seq |-> F(seq[i])])

UpToFault(items) ==
    LET bad == {i \in DOMAIN items : items[i].k = "err"}
    IN IF bad = {} THEN items
       ELSE SubSeq(items, 1, (CHOOSE i \in bad : \A j \in bad : i <= j) - 1)

RECURSIVE Rows(_)
Rows(s) ==
    CASE s.op \in {"source", "script"} -> Flat(UpToFault(s.items), LAMBDA i : i.c)
      [] s.op \in {"map", "par_map"} -> Flat(Rows(s.src), LAMBDA x : <<Fn(x)>>)
      [] s.op = "filter" -> SelectSeq(Rows(s.src), Pred)
      [] s.op = "take" -> LET r == Rows(s.src) IN SubSeq(r, 1, Min({s.remaining, Len(r)}))
      [] s.op = "flat_map" -> Flat(Rows(s.src), LAMBDA x : Rows(Sub(x)))
      [] s.op \in {"inspect", "bridge"} -> Rows(s.src)
      [] s.op = "batch" -> s.buffer \o Rows(s.src)
      [] s.op = "par_eval" -> Flat(s.srcs, Rows)
      [] s.op \in {"concat_map", "merge_map"} -> Flat(Rows(s.src), LAMBDA x : Rows(Child(x)))

\* The join of two relations, in the order of the left one.  The kinds that
\* keep the unmatched pairs of the table are left out.
JoinedRows(j) ==
    LET left == Rows(j.left)
        bad == {i \in DOMAIN left : Extract(left[i]) = NoKey}
        good == IF bad = {} THEN left ELSE SubSeq(left, 1, Min(bad) - 1)
        pairs == UNION {{j.right[i].c[n] : n \in DOMAIN j.right[i].c} : i \in DOMAIN j.right}
        Match(x) == {p.value : p \in {q \in pairs : q.key = Extract(x)}}
        Wanted(x) == CASE j.opts.kind = "LeftOuter" -> TRUE
                       [] j.opts.kind = "AntiLeft" -> Match(x) = {}
                       [] j.opts.kind \in {"Inner", "SemiLeft"} -> Match(x) # {}
        all == Flat(SelectSeq(good, Wanted), LAMBDA x :
                 <<[key |-> Extract(x), value |->
                      Row(x, IF Match(x) = {} THEN Absent ELSE CHOOSE v \in Match(x) : TRUE)]>>)
    IN IF j.opts.limit = 0 THEN all ELSE SubSeq(all, 1, Min({j.opts.limit, Len(all)}))

Reference == IF job.join THEN JoinedRows(job) ELSE Rows(job.s)

-----------------------------------------------------------------------------
MidChild(s) == s.op = "concat_map" /\ s.child # <<>>

Closed == [s |-> Empty, out |-> <<>>, last |-> "closed", failed |-> FALSE, cancelled |-> FALSE]
Opened(s) == [Closed EXCEPT !.s = s, !.last = "open"]
IsOpen(h) == at[h].last \notin {"closed", "refused"}

Init ==
    /\ job \in Jobs
    /\ at = [h \in Handles |-> Closed]
    /\ mark = [rows |-> 0, midchild |-> FALSE]
    /\ turn = FALSE

Open ==
    /\ at["main"].last = "closed"
    /\ LET r == IF job.join
                THEN Join(job.left, job.right, Collect(Decode(Source(job.right), 0), <<>>),
                          job.batch_get, job.opts)
                ELSE Reply(job.s, "ok", <<>>)
       IN at' = [at EXCEPT !["main"] = IF r.k = "ok" THEN Opened(r.s)
                                       ELSE [Closed EXCEPT !.last = "refused"]]
    /\ UNCHANGED <<job, mark, turn>>

\* pull, or poll, and the consumer's loop.
Poll(h) ==
    /\ IsOpen(h)
    /\ LET r == Pull(at[h].s)
       IN at' = [at EXCEPT ![h] = [@ EXCEPT !.s = r.s, !.out = @ \o r.c, !.last = r.k,
                                            !.failed = @ \/ r.k = "err"]]
    /\ turn' = ~turn
    /\ UNCHANGED <<job, mark>>

Clone ==
    /\ IsOpen("main") /\ at["twin"].last = "closed"
    /\ at' = [at EXCEPT !["twin"] =
                [Opened(CloneOf(at["main"].s)) EXCEPT !.cancelled = at["main"].cancelled]]
    /\ mark' = [rows |-> Len(at["main"].out), midchild |-> MidChild(at["main"].s)]
    /\ UNCHANGED <<job, turn>>

Cancel(h) ==
    /\ IsOpen(h) /\ at[h].s.op \in Async /\ ~at[h].cancelled
    /\ at' = [at EXCEPT ![h] = [@ EXCEPT !.s = Cancelled(@), !.cancelled = TRUE]]
    /\ UNCHANGED <<job, mark, turn>>

Next == Open \/ Clone \/ \E h \in Handles : Poll(h) \/ Cancel(h)

(* The consumer opens the job and goes on polling: weak fairness of Open   *)
(* and of Poll("main"), which are possible exactly while the handle is     *)
(* closed and while it is open.                                            *)
Consumes ==
    /\ []<>(at["main"].last # "closed") \/ []<><<Open>>_vars
    /\ []<>(~IsOpen("main")) \/ []<><<Poll("main")>>_vars

Spec == Init /\ [][Next]_vars /\ Consumes

-----------------------------------------------------------------------------
Ordered == job.join \/ job.s.op \notin {"par_eval", "merge_map"}

\* Neither an element of a longer chunk under concat_map or merge_map ...
KeepsAll ==
    \/ job.join
    \/ job.s.op \notin {"concat_map", "merge_map"}
    \/ \A i \in DOMAIN job.s.src.src.items : Len(job.s.src.src.items[i].c) <= 1

\* ... nor an unmatched pair of the table in a join is passed over.
OneSided == job.join => job.opts.kind \notin {"RightOuter", "FullOuter"}

(* Whatever the chunks of the sources, the combinators and the join        *)
(* strategies give, until something fails or is cancelled, exactly the     *)
(* rows of the reference definition, in its order where they promise one,  *)
(* and all of them by the time they say they are done.  Left out: joins    *)
(* that should give the unmatched pairs of the table, for there is no      *)
(* "pass2" (join.hpp:67); and, but for rows that should not be there,      *)
(* concat_map and merge_map over chunks of several elements: concat_map    *)
(* takes only the first element of a chunk (async_stream.hpp:291), against *)
(* its "ordered flatmap" (async_stream.hpp:265).                           *)
ExactOutput ==
    LET m == at["main"]
    IN IsOpen("main") /\ ~m.failed /\ ~m.cancelled /\ OneSided =>
         /\ IF Ordered /\ KeepsAll THEN IsPrefix(m.out, Reference)
                                   ELSE ToBag(m.out) \sqsubseteq ToBag(Reference)
         /\ m.last = "done" /\ KeepsAll => Len(m.out) = Len(Reference)

(* A clone is at the position of its original: it gives what the original  *)
(* gives from there on, errors included.  One of par_eval starts its round *)
(* anew, so only the rows it gives in all are the same.  Left out: a clone *)
(* of a concat_map in the middle of a child, which goes without the rest   *)
(* of the child, against "Independent stream at same logical position"     *)
(* (async_stream.hpp:120).                                                 *)
CloneContinues ==
    LET m == at["main"]
        t == at["twin"]
        rest == SubSeq(m.out, mark.rows + 1, Len(m.out))
        ended == m.last = "done" /\ t.last = "done"
    IN IsOpen("twin") /\ ~m.cancelled /\ ~t.cancelled /\ ~mark.midchild =>
         IF job.join \/ job.s.op # "par_eval"
         THEN /\ IsPrefix(rest, t.out) \/ IsPrefix(t.out, rest)
              /\ ended => rest = t.out
         ELSE ended => ToBag(rest) = ToBag(t.out)

(* Once a stream was cancelled or has said that it is done, no poll gives  *)
(* another row, and done stays done.                                       *)
StopIsFinal ==
    [][\A h \in Handles :
         IsOpen(h) /\ (at[h].cancelled \/ at[h].last = "done") =>
           /\ at'[h].out = at[h].out
           /\ at[h].last = "done" => at'[h].last = "done"]_vars

(* A consumer that keeps polling comes to the end of every stream, though  *)
(* polls may answer pending, yield, an error or an empty chunk.            *)
Drains == <>(at["main"].last \in {"done", "refused"})
=============================================================================
