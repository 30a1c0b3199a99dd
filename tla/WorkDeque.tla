------------------------------ MODULE WorkDeque ------------------------------
(***************************************************************************)
(* What a work-stealing deque promises: one atomic step per operation.     *)
(* Push and Pop work at one end (LIFO), Steal at the other (FIFO).         *)
(*                                                                         *)
(* Reappear is the one thing ChaseLevDeque does beyond that: a pop that    *)
(* loses the race for the last lease leaves the deque with one stale entry.*)
(***************************************************************************)
EXTENDS Integers, Sequences, SequencesExt

CONSTANTS Leases,  \* what is pushed
          Values   \* Leases and what a stale slot may hold

VARIABLES items,   \* the deque, oldest first
          held     \* how many threads hold each value outside of the deque

TakeFrom(rest, v) ==
    /\ items' = rest
    /\ held' = [held EXCEPT ![v] = @ + 1]

Push(l) ==
    /\ held[l] > 0
    /\ items' = Append(items, l)
    /\ held' = [held EXCEPT ![l] = @ - 1]

Pop == items # <<>> /\ TakeFrom(Front(items), Last(items))

Steal == items # <<>> /\ TakeFrom(Tail(items), Head(items))

Reappear(v) ==
    /\ items = <<>>
    /\ items' = <<v>>
    /\ UNCHANGED held

Init ==
    /\ items = <<>>
    /\ held = [v \in Values |-> IF v \in Leases THEN 1 ELSE 0]

Next ==
    \/ \E l \in Leases : Push(l)
    \/ Pop
    \/ Steal
    \/ \E v \in Values : Reappear(v)

Spec == Init /\ [][Next]_<<items, held>>

=============================================================================
