---------------------------- MODULE SequenceFacts ----------------------------
(***************************************************************************)
(* What the queues of the models keep when an element enters or leaves     *)
(* them: their contents and that no element is in them twice.  What Select *)
(* keeps, what Min of a set of numbers is, and that consecutive numbers    *)
(* are in different slots of a ring that has room for them.                *)
(***************************************************************************)
EXTENDS Integers, Sequences, SequencesExt, Selection, FiniteSetTheorems, TLAPS

\* Append adds one element to a queue (emplace_back, push_back).
LEMMA AppendFacts ==
    ASSUME NEW S, NEW q \in Seq(S), NEW t \in S
    PROVE  /\ Append(q, t) \in Seq(S)
           /\ Range(Append(q, t)) = Range(q) \union {t}
           /\ IsInjective(q) /\ t \notin Range(q) => IsInjective(Append(q, t))
<1>1. Append(q, t) \in Seq(S) /\ Len(Append(q, t)) = Len(q) + 1 /\ Len(q) \in Nat
  OBVIOUS
<1>2. \A i \in 1..Len(q) : Append(q, t)[i] = q[i]
  OBVIOUS
<1>3. Append(q, t)[Len(q) + 1] = t
  OBVIOUS
<1>4. DOMAIN q = 1..Len(q) /\ DOMAIN Append(q, t) = 1..(Len(q) + 1)
  BY <1>1
<1>5. 1..(Len(q) + 1) = (1..Len(q)) \union {Len(q) + 1}
  BY <1>1
<1>6. Range(Append(q, t)) = Range(q) \union {t}
  BY <1>2, <1>3, <1>4, <1>5 DEF Range
<1>7. IsInjective(q) /\ t \notin Range(q) => IsInjective(Append(q, t))
  BY <1>2, <1>3, <1>4, <1>5 DEF Range, IsInjective
<1> QED BY <1>1, <1>6, <1>7

\* Tail takes the oldest element out of a queue (pop_front, steal).
LEMMA TailFacts ==
    ASSUME NEW S, NEW q \in Seq(S), q # <<>>
    PROVE  /\ Head(q) \in S
           /\ Tail(q) \in Seq(S)
           /\ Range(q) = {Head(q)} \union Range(Tail(q))
           /\ IsInjective(q) => Head(q) \notin Range(Tail(q)) /\ IsInjective(Tail(q))
<1>1. Len(q) \in Nat /\ Len(q) >= 1 /\ DOMAIN q = 1..Len(q) /\ Head(q) = q[1]
  OBVIOUS
<1>2. Tail(q) \in Seq(S) /\ Len(Tail(q)) = Len(q) - 1
  OBVIOUS
<1>3. DOMAIN Tail(q) = 1..(Len(q) - 1)
  BY <1>2
<1>4. \A i \in 1..(Len(q) - 1) : Tail(q)[i] = q[i + 1]
  OBVIOUS
<1>5. \A j \in 1..Len(q) : j = 1 \/ (j - 1 \in 1..(Len(q) - 1) /\ Tail(q)[j - 1] = q[j])
  BY <1>1, <1>4
<1>6. Range(q) = {Head(q)} \union Range(Tail(q))
  <2>1. ASSUME NEW x \in Range(q) PROVE x \in {Head(q)} \union Range(Tail(q))
    BY <1>1, <1>3, <1>5 DEF Range
  <2>2. ASSUME NEW x \in Range(Tail(q)) PROVE x \in Range(q)
    <3>1. PICK i \in 1..(Len(q) - 1) : x = q[i + 1]
      BY <1>3, <1>4 DEF Range
    <3> QED BY <1>1, <3>1 DEF Range
  <2>3. Head(q) \in Range(q)
    BY <1>1 DEF Range
  <2> QED BY <2>1, <2>2, <2>3
<1>7. ASSUME IsInjective(q) PROVE Head(q) \notin Range(Tail(q))
  BY <1>1, <1>3, <1>4, <1>7 DEF Range, IsInjective
<1>8. ASSUME IsInjective(q) PROVE IsInjective(Tail(q))
  <2> SUFFICES ASSUME NEW i \in 1..(Len(q) - 1), NEW j \in 1..(Len(q) - 1),
                      q[i + 1] = q[j + 1]
               PROVE  i = j
    BY <1>3, <1>4 DEF IsInjective
  <2>1. i + 1 \in 1..Len(q) /\ j + 1 \in 1..Len(q)
    BY <1>1
  <2>2. i + 1 = j + 1
    BY <1>1, <1>8, <2>1 DEF IsInjective
  <2> QED BY <2>2, <1>1
<1> QED BY <1>1, <1>2, <1>6, <1>7, <1>8

\* Front takes the newest element out of a queue (pop, pop_back).
LEMMA FrontFacts ==
    ASSUME NEW S, NEW q \in Seq(S), q # <<>>
    PROVE  /\ Last(q) \in S
           /\ Front(q) \in Seq(S)
           /\ Range(q) = Range(Front(q)) \union {Last(q)}
           /\ IsInjective(q) => Last(q) \notin Range(Front(q)) /\ IsInjective(Front(q))
<1>1. Len(q) \in Nat /\ Len(q) >= 1 /\ DOMAIN q = 1..Len(q) /\ Last(q) = q[Len(q)]
  BY DEF Last
<1>2. Front(q) \in Seq(S) /\ Len(Front(q)) = Len(q) - 1
  BY DEF Front
<1>3. \A i \in 1..(Len(q) - 1) : Front(q)[i] = q[i]
  BY DEF Front
<1>4. DOMAIN Front(q) = 1..(Len(q) - 1)
  BY <1>2
<1>5. 1..Len(q) = (1..(Len(q) - 1)) \union {Len(q)}
  BY <1>1
<1>6. Range(q) = Range(Front(q)) \union {Last(q)}
  BY <1>1, <1>3, <1>4, <1>5 DEF Range
<1>7. IsInjective(q) => Last(q) \notin Range(Front(q)) /\ IsInjective(Front(q))
  BY <1>1, <1>3, <1>4, <1>5 DEF Range, IsInjective
<1> QED BY <1>1, <1>2, <1>6, <1>7

\* Appending to the second of two sequences appends to their concatenation, and
\* the empty sequence adds nothing.
LEMMA ConcatFacts ==
    ASSUME NEW S, NEW p \in Seq(S), NEW q \in Seq(S), NEW t \in S
    PROVE  /\ p \o q \in Seq(S)
           /\ p \o Append(q, t) = Append(p \o q, t)
           /\ <<>> \o q = q /\ p \o <<>> = p
<1>1. p \o q \in Seq(S) /\ Len(p \o q) = Len(p) + Len(q) /\ Len(p) \in Nat /\ Len(q) \in Nat
  OBVIOUS
<1>2. p \o Append(q, t) = Append(p \o q, t)
  <2>1. /\ p \o Append(q, t) \in Seq(S) /\ Append(p \o q, t) \in Seq(S)
        /\ Len(p \o Append(q, t)) = Len(p) + Len(q) + 1
        /\ Len(Append(p \o q, t)) = Len(p) + Len(q) + 1
    BY <1>1
  <2>2. ASSUME NEW i \in 1..(Len(p) + Len(q) + 1)
        PROVE  (p \o Append(q, t))[i] = Append(p \o q, t)[i]
    BY <1>1
  <2> QED BY <2>1, <2>2
<1>3. <<>> \o q = q
  <2>1. <<>> \o q \in Seq(S) /\ Len(<<>> \o q) = Len(q)
    OBVIOUS
  <2>2. ASSUME NEW i \in 1..Len(q) PROVE (<<>> \o q)[i] = q[i]
    OBVIOUS
  <2> QED BY <2>1, <2>2
<1>4. p \o <<>> = p
  <2>1. p \o <<>> \in Seq(S) /\ Len(p \o <<>>) = Len(p)
    OBVIOUS
  <2>2. ASSUME NEW i \in 1..Len(p) PROVE (p \o <<>>)[i] = p[i]
    OBVIOUS
  <2> QED BY <2>1, <2>2
<1> QED BY <1>1, <1>2, <1>3, <1>4

LEMMA PrefixFacts ==
    ASSUME NEW S, NEW s \in Seq(S), NEW n \in 0..Len(s)
    PROVE  /\ SubSeq(s, 1, n) \in Seq(S) /\ Len(SubSeq(s, 1, n)) = n
           /\ \A i \in 1..n : SubSeq(s, 1, n)[i] = s[i]
OBVIOUS

\* Moving an element from the front of one sequence to the back of another.
LEMMA ConcatAppend ==
    ASSUME NEW S, NEW p \in Seq(S), NEW q \in Seq(S), q # <<>>
    PROVE  /\ Append(p, Head(q)) \in Seq(S) /\ Tail(q) \in Seq(S)
           /\ Append(p, Head(q)) \o Tail(q) = p \o q
<1>1. /\ p \o q \in Seq(S) /\ Len(p \o q) = Len(p) + Len(q)
      /\ Len(p) \in Nat /\ Len(q) \in Nat /\ Len(q) >= 1 /\ Head(q) = q[1] /\ Head(q) \in S
  OBVIOUS
<1>2. /\ Append(p, Head(q)) \in Seq(S) /\ Tail(q) \in Seq(S)
      /\ Len(Append(p, Head(q))) = Len(p) + 1 /\ Len(Tail(q)) = Len(q) - 1
  BY <1>1
<1> DEFINE a == Append(p, Head(q))
           t == Tail(q)
<1>3. a[Len(p) + 1] = q[1] /\ \A i \in 1..Len(p) : a[i] = p[i]
  BY <1>1
<1>4. \A i \in 1..(Len(q) - 1) : t[i] = q[i + 1]
  BY <1>1
<1> HIDE DEF a, t
<1>5. a \o t \in Seq(S) /\ Len(a \o t) = Len(p) + Len(q)
  BY <1>1, <1>2 DEF a, t
<1>6. ASSUME NEW i \in 1..(Len(p) + Len(q)) PROVE (a \o t)[i] = (p \o q)[i]
  <2>1. CASE i \in 1..Len(p)
    BY <1>1, <1>2, <1>3, <2>1 DEF a, t
  <2>2. CASE i = Len(p) + 1
    BY <1>1, <1>2, <1>3, <2>2 DEF a, t
  <2>3. CASE i > Len(p) + 1
    <3>1. (a \o t)[i] = t[i - (Len(p) + 1)]
      BY <1>1, <1>2, <2>3 DEF a, t
    <3>2. (p \o q)[i] = q[i - Len(p)]
      BY <1>1, <2>3
    <3>3. i - (Len(p) + 1) \in 1..(Len(q) - 1) /\ (i - (Len(p) + 1)) + 1 = i - Len(p)
      BY <1>1, <2>3
    <3> QED BY <1>4, <3>1, <3>2, <3>3
  <2>4. ASSUME NEW n \in Nat, NEW j \in Int, j >= 1
        PROVE  j \in 1..n \/ j = n + 1 \/ j > n + 1
    BY <2>4
  <2>5. i \in Int /\ i >= 1 /\ Len(p) \in Nat
    BY <1>1
  <2> QED BY <2>1, <2>2, <2>3, <2>4, <2>5
<1>7. a \o t = p \o q
  BY <1>1, <1>5, <1>6
<1> QED BY <1>2, <1>7 DEF a, t

\* Taking the head of the first of two sequences takes that of their concatenation.
LEMMA ConcatTail ==
    ASSUME NEW S, NEW p \in Seq(S), NEW q \in Seq(S), p # <<>>
    PROVE  p \o q # <<>> /\ Head(p \o q) = Head(p) /\ Tail(p \o q) = Tail(p) \o q
<1>1. /\ p \o q \in Seq(S) /\ Len(p \o q) = Len(p) + Len(q)
      /\ Len(p) \in Nat /\ Len(q) \in Nat /\ Len(p) >= 1
  OBVIOUS
<1>2. p \o q # <<>> /\ Head(p \o q) = Head(p)
  BY <1>1
<1>3. /\ Tail(p \o q) \in Seq(S) /\ Tail(p) \o q \in Seq(S) /\ Tail(p) \in Seq(S)
      /\ Len(Tail(p \o q)) = Len(p) + Len(q) - 1 /\ Len(Tail(p)) = Len(p) - 1
      /\ Len(Tail(p) \o q) = Len(p) + Len(q) - 1
  BY <1>1, <1>2
<1>4. ASSUME NEW i \in 1..(Len(p) + Len(q) - 1) PROVE Tail(p \o q)[i] = (Tail(p) \o q)[i]
  BY <1>1, <1>2, <1>3
<1> QED BY <1>2, <1>3, <1>4

\* A set of natural numbers has a least one.
LEMMA LeastFact ==
    ASSUME NEW T, T \subseteq Nat, T # {}
    PROVE  \E x \in T : \A y \in T : x <= y
<1> DEFINE D == {0..n : n \in T}
<1>1. D \subseteq FiniteSubsetsOf(Nat) /\ D # {}
  <2>1. ASSUME NEW n \in T PROVE 0..n \in FiniteSubsetsOf(Nat)
    BY FS_Interval DEF FiniteSubsetsOf
  <2> QED BY <2>1
<1>2. PICK d \in D : \A e \in D : <<e, d>> \notin StrictSubsetOrdering(Nat)
  <2>1. IsWellFoundedOn(StrictSubsetOrdering(Nat), FiniteSubsetsOf(Nat))
    BY FS_StrictSubsetOrderingWellFounded
  <2>2. \E d \in D : \A e \in D : ~(<<e, d>> \in StrictSubsetOrdering(Nat))
    <3> HIDE DEF D
    <3> QED BY <1>1, <2>1, WFMin
  <2> QED BY <2>2
<1>3. PICK x \in T : d = 0..x
  OBVIOUS
<1>4. ASSUME NEW y \in T PROVE x <= y
  <2>1. <<0..y, 0..x>> \notin StrictSubsetOrdering(Nat)
    BY <1>2, <1>3
  <2>2. 0..y \subseteq 0..x => 0..y = 0..x
    BY <2>1 DEF StrictSubsetOrdering
  <2>3. x \in Nat /\ y \in Nat
    OBVIOUS
  <2>4. CASE y < x
    <3>1. x \in 0..x /\ x \notin 0..y /\ 0..y \subseteq 0..x
      BY <2>3, <2>4
    <3> QED BY <2>2, <3>1
  <2> QED BY <2>3, <2>4
<1> QED BY <1>4

\* The last of some positions of a sequence.
LEMMA MaxFact ==
    ASSUME NEW n \in Nat, NEW T, T \subseteq 1..n, T # {}
    PROVE  Max(T) \in T /\ \A y \in T : y <= Max(T)
<1> DEFINE R == {n - y : y \in T}
<1>1. R \subseteq Nat /\ R # {}
  <2>1. \A y \in T : n - y \in Nat
    OBVIOUS
  <2>2. PICK y : y \in T
    OBVIOUS
  <2>3. n - y \in R
    BY <2>2
  <2> QED BY <2>1, <2>3
<1>2. PICK r \in R : \A q \in R : r <= q
  <2> HIDE DEF R
  <2> QED BY <1>1, LeastFact
<1>3. PICK m \in T : r = n - m
  OBVIOUS
<1>4. ASSUME NEW y \in T PROVE m >= y
  <2>1. n - m <= n - y
    BY <1>2, <1>3
  <2>2. m \in Nat /\ y \in Nat
    OBVIOUS
  <2> QED BY <2>1, <2>2
<1>5. Max(T) \in T /\ \A y \in T : Max(T) >= y
  BY <1>4 DEF Max
<1>6. T \subseteq Int
  OBVIOUS
<1> QED BY <1>5, <1>6

LEMMA MaxIs ==
    ASSUME NEW T, T \subseteq Int, NEW m \in T, \A y \in T : y <= m
    PROVE  Max(T) = m
<1>1. \A y \in T : m >= y
  OBVIOUS
<1>2. Max(T) \in T /\ \A y \in T : Max(T) >= y
  BY <1>1 DEF Max
<1>3. m \in Int /\ Max(T) \in Int /\ m >= Max(T) /\ Max(T) >= m
  BY <1>1, <1>2
<1> QED BY <1>3

\* The elements that Select keeps, in the order of their positions.
LEMMA SelectPositions ==
    ASSUME NEW S, NEW s \in Seq(S), NEW keep
    PROVE  \E n \in Nat : \E pos \in [1..n -> {i \in DOMAIN s : s[i] \in keep}] :
              /\ Select(s, keep) = [k \in 1..n |-> s[pos[k]]]
              /\ \A i \in DOMAIN s : s[i] \in keep => \E k \in 1..n : pos[k] = i
              /\ \A k, l \in 1..n : k < l => pos[k] < pos[l]
<1> DEFINE kept == {i \in DOMAIN s : s[i] \in keep}
           n == Cardinality(kept)
           upto(i) == {j \in kept : j <= i}
           rank == [i \in kept |-> Cardinality(upto(i))]
           position(k) == CHOOSE i \in kept : Cardinality(upto(i)) = k
           pos == [k \in 1..n |-> position(k)]
<1>1. kept \subseteq 1..Len(s) /\ Len(s) \in Nat
  OBVIOUS
<1>2. IsFiniteSet(kept) /\ n \in Nat
  <2>1. IsFiniteSet(1..Len(s))
    BY FS_Interval
  <2> QED BY <1>1, <2>1, FS_Subset, FS_CardinalityType
<1>3. ASSUME NEW i \in kept
      PROVE  /\ IsFiniteSet(upto(i)) /\ Cardinality(upto(i)) \in 1..n
             /\ i \in Int /\ Cardinality(upto(i)) \in Int
  <2>1. upto(i) \in SUBSET kept /\ i \in upto(i)
    BY <1>1
  <2>2. IsFiniteSet(upto(i)) /\ Cardinality(upto(i)) <= n
    BY <1>2, <2>1, FS_Subset
  <2>3. Cardinality(upto(i)) \in Nat /\ Cardinality(upto(i)) # 0
    BY <2>1, <2>2, FS_CardinalityType, FS_EmptySet
  <2>4. i \in Int
    BY <1>1
  <2> HIDE DEF kept, upto
  <2> QED BY <1>2, <2>2, <2>3, <2>4
<1>4. ASSUME NEW i \in kept, NEW j \in kept, i < j
      PROVE  Cardinality(upto(i)) < Cardinality(upto(j))
  <2>1. upto(i) \in SUBSET upto(j) /\ j \in upto(j) /\ j \notin upto(i)
    BY <1>1, <1>4
  <2> HIDE DEF kept, upto
  <2>2. IsFiniteSet(upto(j)) /\ Cardinality(upto(i)) \in Int /\ Cardinality(upto(j)) \in Int
    BY <1>3
  <2>3. /\ Cardinality(upto(i)) <= Cardinality(upto(j))
        /\ Cardinality(upto(i)) # Cardinality(upto(j))
    BY <2>1, <2>2, FS_Subset
  <2> QED BY <2>2, <2>3
<1>5. ASSUME NEW i \in kept, NEW j \in kept, Cardinality(upto(i)) = Cardinality(upto(j))
      PROVE  i = j
  <2> HIDE DEF kept, upto
  <2>1. i \in Int /\ j \in Int /\ Cardinality(upto(i)) \in Int
    BY <1>3
  <2>2. ~(i < j) /\ ~(j < i)
    BY <1>4, <1>5, <2>1
  <2> QED BY <2>1, <2>2
<1>6. rank \in Injection(kept, 1..n)
  BY <1>3, <1>5 DEF Injection, IsInjective
<1>7. rank \in Surjection(kept, 1..n)
  <2>1. IsFiniteSet(1..n) /\ Cardinality(1..n) = n
    BY <1>2, FS_Interval
  <2> QED BY <1>6, <2>1, FS_Injection
<1>8. \A k \in 1..n : \E i \in kept : Cardinality(upto(i)) = k
  BY <1>7 DEF Surjection
<1>9. \A k \in 1..n : position(k) \in kept /\ Cardinality(upto(position(k))) = k
  BY <1>8
<1>10. \A i \in kept : position(Cardinality(upto(i))) = i
  BY <1>3, <1>5, <1>9
<1>11. Select(s, keep) = [k \in 1..n |-> s[position(k)]]
  BY DEF Select
<1> HIDE DEF kept, n, upto, rank, position
<1>12. pos \in [1..n -> kept] /\ Select(s, keep) = [k \in 1..n |-> s[pos[k]]]
  BY <1>9, <1>11
<1>13. \A i \in kept : \E k \in 1..n : pos[k] = i
  BY <1>3, <1>10
<1>14. ASSUME NEW k \in 1..n, NEW l \in 1..n, k < l
       PROVE  pos[k] < pos[l]
  <2>1. /\ pos[k] \in kept /\ Cardinality(upto(pos[k])) = k
        /\ pos[l] \in kept /\ Cardinality(upto(pos[l])) = l
    BY <1>9
  <2>2. ~(pos[l] < pos[k]) /\ pos[l] # pos[k]
    <3>1. k \in Int /\ l \in Int /\ ~(l < k) /\ l # k
      BY <1>14
    <3> HIDE DEF pos
    <3> QED BY <1>4, <2>1, <3>1
  <2>3. pos[k] \in Int /\ pos[l] \in Int
    <3> HIDE DEF pos
    <3> QED BY <1>3, <2>1
  <2> QED BY <2>2, <2>3
<1> HIDE DEF pos
<1>15. /\ n \in Nat /\ pos \in [1..n -> kept] /\ Select(s, keep) = [k \in 1..n |-> s[pos[k]]]
       /\ \A i \in DOMAIN s : s[i] \in keep => \E k \in 1..n : pos[k] = i
       /\ \A k, l \in 1..n : k < l => pos[k] < pos[l]
  BY <1>2, <1>12, <1>13, <1>14 DEF kept
<1> QED BY <1>15 DEF kept

\* Select keeps the elements of the set, and each as often as it was there.
LEMMA SelectFacts ==
    ASSUME NEW S, NEW s \in Seq(S), NEW keep
    PROVE  /\ Select(s, keep) \in Seq(S)
           /\ Range(Select(s, keep)) = Range(s) \intersect keep
           /\ IsInjective(s) => IsInjective(Select(s, keep))
           /\ \A x : Once(s, x) => Once(Select(s, keep), x)
<1>0. PICK n \in Nat : \E pos \in [1..n -> {i \in DOMAIN s : s[i] \in keep}] :
              /\ Select(s, keep) = [k \in 1..n |-> s[pos[k]]]
              /\ \A i \in DOMAIN s : s[i] \in keep => \E k \in 1..n : pos[k] = i
              /\ \A k, l \in 1..n : k < l => pos[k] < pos[l]
  BY SelectPositions, ZenonT(30)
<1>1. PICK pos \in [1..n -> {i \in DOMAIN s : s[i] \in keep}] :
              /\ Select(s, keep) = [k \in 1..n |-> s[pos[k]]]
              /\ \A i \in DOMAIN s : s[i] \in keep => \E k \in 1..n : pos[k] = i
              /\ \A k, l \in 1..n : k < l => pos[k] < pos[l]
  BY <1>0
<1> DEFINE sel == Select(s, keep)
<1>2. \A k \in 1..n : pos[k] \in DOMAIN s /\ s[pos[k]] \in keep /\ s[pos[k]] \in S /\ pos[k] \in Int
  OBVIOUS
<1>3. DOMAIN sel = 1..n /\ \A k \in 1..n : sel[k] = s[pos[k]]
  BY <1>1
<1>4. sel \in Seq(S)
  BY <1>1, <1>2
<1> HIDE DEF sel
<1>5. Range(sel) \subseteq Range(s) \intersect keep
  BY <1>2, <1>3 DEF Range
<1>6. Range(s) \intersect keep \subseteq Range(sel)
  BY <1>1, <1>3 DEF Range
<1>7. ASSUME IsInjective(s), NEW k \in 1..n, NEW l \in 1..n, sel[k] = sel[l]
      PROVE  k = l
  <2>1. pos[k] = pos[l]
    BY <1>2, <1>3, <1>7 DEF IsInjective
  <2>2. ~(k < l) /\ ~(l < k)
    BY <1>1, <1>2, <2>1
  <2> QED BY <2>2
<1>8. ASSUME NEW x, Once(s, x), NEW k \in 1..n, NEW l \in 1..n, sel[k] = x, sel[l] = x
      PROVE  k = l
  <2>1. pos[k] = pos[l]
    BY <1>2, <1>3, <1>8 DEF Once
  <2>2. ~(k < l) /\ ~(l < k)
    BY <1>1, <1>2, <2>1
  <2> QED BY <2>2
<1>9. \A x : Once(s, x) => Once(sel, x)
  BY <1>3, <1>8 DEF Once
<1> QED BY <1>3, <1>4, <1>5, <1>6, <1>7, <1>9 DEF IsInjective, sel

\* The least of some natural numbers.
LEMMA MinFact ==
    ASSUME NEW T, T \subseteq Nat, T # {}
    PROVE  Min(T) \in T /\ \A y \in T : Min(T) <= y
<1>1. PICK x \in T : \A y \in T : x <= y
  BY LeastFact
<1> QED BY <1>1 DEF Min

LEMMA MinIs ==
    ASSUME NEW T, T \subseteq Int, NEW m \in T, \A y \in T : m <= y
    PROVE  Min(T) = m
<1>1. Min(T) \in T /\ \A y \in T : Min(T) <= y
  BY DEF Min
<1>2. m \in Int /\ Min(T) \in Int /\ m <= Min(T) /\ Min(T) <= m
  BY <1>1
<1> QED BY <1>2

-----------------------------------------------------------------------------
(* Arithmetic of the slots of a ring or a table *)

\* A remainder is a slot: idx & mask of a power of two never leaves the array.
LEMMA ModRange ==
  ASSUME NEW c \in Nat \ {0}, NEW i \in Nat
  PROVE  i % c \in 0..(c - 1)
OBVIOUS

\* Two indices closer than the capacity are in different slots.
LEMMA ModDistinct ==
  ASSUME NEW c \in Nat \ {0}, NEW i \in Nat, NEW j \in Nat, i < j, j - i < c
  PROVE  i % c # j % c
<1> DEFINE p == i \div c
           q == j \div c
<1>1. p \in Int /\ q \in Int
  OBVIOUS
<1>2. i = c * p + (i % c)
  OBVIOUS
<1>3. j = c * q + (j % c)
  OBVIOUS
<1> SUFFICES ASSUME i % c = j % c PROVE FALSE
  OBVIOUS
<1> HIDE DEF p, q
<1>4. j - i = c * q - c * p
  BY <1>1, <1>2, <1>3, ModRange
<1>5. CASE q <= p
  <2>1. c * q <= c * p
    BY <1>1, <1>5
  <2> QED BY <2>1, <1>4, <1>1
<1>6. CASE q >= p + 1
  <2>1. c * q >= c * (p + 1)
    BY <1>1, <1>6
  <2>2. c * (p + 1) = c * p + c
    BY <1>1
  <2> QED BY <2>1, <2>2, <1>4, <1>1
<1> QED BY <1>1, <1>5, <1>6

=============================================================================
