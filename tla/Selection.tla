----------------------------- MODULE Selection -----------------------------
(***************************************************************************)
(* Filtering a sequence, as std::erase_if and the loops that copy the      *)
(* elements of one kind do.  (SelectSeq takes an operator, which the       *)
(* proofs could not reason about.)                                         *)
(***************************************************************************)
EXTENDS Integers, Sequences, FiniteSets

\* The elements of s in the set keep, in their order: the k-th is the one at the
\* position that has k such positions up to it.
Select(s, keep) ==
    LET kept == {i \in DOMAIN s : s[i] \in keep}
        position(k) == CHOOSE i \in kept : Cardinality({j \in kept : j <= i}) = k
    IN  [k \in 1..Cardinality(kept) |-> s[position(k)]]

\* An element is in a sequence at most once.
Once(s, x) == \A i, j \in DOMAIN s : s[i] = x /\ s[j] = x => i = j
=============================================================================
