---------------------------- MODULE MCPipelines ----------------------------
(* Every source of at most three pulls under every combinator (of two, and *)
(* some of three that do not fail, under the pollable ones), and the join  *)
(* strategies and kinds with and without a limit.                          *)
EXTENDS Pipelines

CONSTANTS k1, k2, v1, v2

MCFn(x) == x + 10
MCPred(x) == x % 2 = 1
MCSub(x) == CASE x = 1 -> Empty
              [] x = 2 -> Singleton(20)
              [] OTHER -> Source(<<Chunk(<<30>>), Chunk(<<31, 32>>)>>)
MCChild(x) == CASE x = 1 -> Bridge(Empty)
                [] x = 2 -> Script(<<Wait, Chunk(<<20>>), Yield, Chunk(<<21>>)>>)
                [] OTHER -> Bridge(MCSub(x))
MCExtract(x) == CASE x = 1 -> k1 [] x = 2 -> k2 [] x = 3 -> k1 [] OTHER -> NoKey

Items == {Chunk(<<1>>), Chunk(<<2, 3>>), Fault}
Sources == {Source(i) : i \in BoundedSeq(Items, 3)} \cup {FromVector(<<3, 2, 1>>)}
ShortSources == {Source(i) : i \in BoundedSeq(Items, 2)}
Singles == {Source(i) : i \in UNION {[1 .. n -> {Chunk(<<x>>) : x \in 1 .. 3}] : n \in 2 .. 3}}
LongSources == {Source(i) : i \in [1 .. 3 -> {Chunk(<<1>>), Chunk(<<2, 3>>)}]}

SyncJobs ==
    UNION {{Map(s), Filter(s), Take(s, 2), FlatMap(s), Inspect(s), Batch(s, 2),
            Take(Batch(Filter(s), 2), 3), FlatMap(Take(s, 2))} : s \in Sources}

Scripts == {Script(<<Wait, Chunk(<<2>>), Yield, Chunk(<<3>>)>>), Script(<<Chunk(<<1, 2>>), Wait>>)}
AsyncJobs ==
    {ParMap(Bridge(s)) : s \in ShortSources \cup LongSources}
    \cup {ConcatMap(Bridge(s)) : s \in ShortSources \cup LongSources \cup Singles}
    \cup {MergeMap(Bridge(s), 2) : s \in ShortSources \cup Singles}
    \cup {ParEval(<<Bridge(s), w>>) : s \in ShortSources, w \in Scripts}
    \cup {ParMap(w) : w \in Scripts}

Pair(k, v) == [key |-> k, value |-> v]
Tables == {<<Chunk(<<Pair(k1, v1)>>)>>,
           <<Chunk(<<Pair(k1, v1)>>), Chunk(<<Pair(k2, v2)>>)>>,
           <<Chunk(<<Pair(k1, v1), Pair(k2, Bad)>>)>>}

Opts(kind, force, batch, cap, limit) ==
    [kind |-> kind, force |-> force, batch |-> batch, cap |-> cap, limit |-> limit]
JoinOpts ==
    {Opts(k, f, 2, 0, l) : k \in {"Inner", "LeftOuter", "AntiLeft"}, l \in {0, 2},
                           f \in {"Auto", "HashJoin"}}
    \cup {Opts("Inner", "HashJoin", 0, 2, 0), Opts("LeftOuter", "NestedLoop", 0, 0, 1),
          Opts("FullOuter", "NestedLoop", 0, 0, 1), Opts("SemiLeft", "IndexNestedLoop", 0, 0, 1)}
LeftItems == {Chunk(<<1>>), Chunk(<<2, 3>>), Chunk(<<3, 4>>), Fault}
Lefts == {Source(i) : i \in BoundedSeq(LeftItems, 2)} \cup LongSources
JoinJob(left, right, batch_get, opts) ==
    [join |-> TRUE, left |-> left, right |-> right, batch_get |-> batch_get, opts |-> opts]
JoinJobs ==
    {JoinJob(s, t, TRUE, o) : s \in Lefts, t \in Tables, o \in JoinOpts}
    \cup {JoinJob(s, t, FALSE, Opts("Inner", "Auto", 0, 0, 0)) : s \in Lefts, t \in Tables}

MCJobs == {[join |-> FALSE, s |-> s] : s \in SyncJobs \cup AsyncJobs} \cup JoinJobs
=============================================================================
