----------------------------- MODULE MCStorage -----------------------------
(* Two tables, two keys over the bytes 1 and 2 (2 stands for 0xFF), values *)
(* of two chunks and the empty value, two threads.                         *)
EXTENDS Storage

CONSTANTS t1, t2, t3

MCHash == t1 :> 15 @@ t2 :> 31 @@ t3 :> 15
MCTableList == <<t1, t2>>
ka == <<1, 2>>
kb == <<2>>
MCKeys == {ka, kb}
A == <<1, 1>>
B == <<2, 2>>
MCValues == {A, B, <<>>}

PutOp(t, k, v) == [cf |-> t, key |-> k, kind |-> "put", value |-> v]
DelOp(t, k) == [cf |-> t, key |-> k, kind |-> "del", value |-> None]

Empty == [c \in Tables \X Keys |-> None]
MCFound == {Empty, [Empty EXCEPT ![<<t1, ka>>] = A, ![<<t1, kb>>] = <<>>]}

MCWriteArgs == {<<<<t1, ka>>, A>>, <<<<t1, ka>>, None>>, <<<<t1, kb>>, B>>}
MCStreamArgs == {<<<<t1, ka>>, B>>, <<<<t1, kb>>, <<>>>>}
MCBatchArgs == {
    <<DelOp(t1, ka), PutOp(t1, ka, B), PutOp(t2, ka, A)>>,
    <<PutOp(t1, kb, A), DelOp(t1, ka)>>,
    <<PutOp(t1, ka, B), PutOp(t1, kb, None)>>,
    <<DelOp(t1, ka), PutOp(t3, ka, A)>>}
MCGetArgs == {<<t1, ka>>, <<t1, kb>>}
MCManyArgs == {<<t1, <<ka, kb, ka>>>>}
MCScanArgs == {<<<<t1, t2>>, <<>>>>, <<<<t1>>, <<1>>>>, <<<<t1>>, <<2>>>>}
Symmetry == Permutations(Threads)
=============================================================================
