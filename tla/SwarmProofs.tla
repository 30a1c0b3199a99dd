----------------------------- MODULE SwarmProofs -----------------------------
(***************************************************************************)
(* Proofs about Swarm, for any population and any number of clusters.      *)
(*                                                                         *)
(* SwarmIInv joins the actor system's invariant with OneCluster and the    *)
(* types.  An operation of the cluster service moves a set of agents to a  *)
(* cluster or to none: MoveIInv says what has to be shown of each, and its *)
(* hypotheses are facts about Without, \o and Select.  The service acts    *)
(* only between ticks, so that a mailbox it empties is not half pulled     *)
(* (DrainsIInv), and a sleeping agent is given nothing by a tick           *)
(* (SleepersKeepNothing).                                                  *)
(***************************************************************************)
EXTENDS Swarm, ActorSystemProofs, FiniteSetTheorems, TLAPS

-----------------------------------------------------------------------------
(* Sequences of agents *)

\* The members of a cluster, without those that leave.
LEMMA WithoutFacts ==
    ASSUME NEW S, NEW s \in Seq(S), NEW refs
    PROVE  /\ Without(s, refs) \in Seq(S)
           /\ Range(Without(s, refs)) = Range(s) \ refs
           /\ \A x : Once(s, x) => Once(Without(s, refs), x)
<1>1. /\ Select(s, Range(s) \ refs) \in Seq(S)
      /\ Range(Select(s, Range(s) \ refs)) = Range(s) \intersect (Range(s) \ refs)
      /\ \A x : Once(s, x) => Once(Select(s, Range(s) \ refs), x)
  BY SelectFacts
<1> QED BY <1>1 DEF Without

\* The members of a cluster, with those that join it.
LEMMA JoinFacts ==
    ASSUME NEW S, NEW p \in Seq(S), NEW q \in Seq(S)
    PROVE  /\ p \o q \in Seq(S)
           /\ Range(p \o q) = Range(p) \union Range(q)
           /\ \A x : Once(p, x) /\ Once(q, x) /\ ~(x \in Range(p) /\ x \in Range(q))
                 => Once(p \o q, x)
<1> DEFINE m == Len(p)
           n == Len(q)
           r == p \o q
<1>1. /\ r \in Seq(S) /\ m \in Nat /\ n \in Nat /\ DOMAIN p = 1..m /\ DOMAIN q = 1..n
      /\ DOMAIN r = 1..(m + n)
      /\ \A i \in 1..m : r[i] = p[i]
      /\ \A i \in 1..n : r[m + i] = q[i]
  OBVIOUS
<1> HIDE DEF m, n, r
<1>2. /\ \A i \in 1..m : i \in 1..(m + n)
      /\ \A i \in 1..n : m + i \in 1..(m + n)
      /\ \A i \in 1..(m + n) : i \in 1..m \/ (i - m \in 1..n /\ i = m + (i - m))
  BY <1>1
<1>3. \A i \in 1..(m + n) : \/ i \in 1..m /\ r[i] = p[i]
                            \/ i - m \in 1..n /\ i = m + (i - m) /\ r[i] = q[i - m]
  <2> SUFFICES ASSUME NEW i \in 1..(m + n), i \notin 1..m PROVE r[i] = q[i - m]
    BY <1>1, <1>2
  <2>1. i - m \in 1..n /\ i = m + (i - m)
    BY <1>2
  <2>2. r[m + (i - m)] = q[i - m]
    BY <1>1, <2>1
  <2> QED BY <2>1, <2>2
<1>4. Range(r) \subseteq Range(p) \union Range(q)
  BY <1>1, <1>3 DEF Range
<1>5. Range(p) \subseteq Range(r) /\ Range(q) \subseteq Range(r)
  BY <1>1, <1>2 DEF Range
<1>6. ASSUME NEW x, Once(p, x), Once(q, x), ~(x \in Range(p) /\ x \in Range(q))
      PROVE  Once(r, x)
  <2> SUFFICES ASSUME NEW i \in 1..(m + n), NEW j \in 1..(m + n), r[i] = x, r[j] = x PROVE i = j
    BY <1>1 DEF Once
  <2>1. CASE i \in 1..m /\ j \in 1..m
    BY <1>1, <1>6, <2>1 DEF Once
  <2>2. \A a \in 1..m, b \in 1..n : ~(p[a] = x /\ q[b] = x)
    BY <1>1, <1>6 DEF Range
  <2>3. CASE i \notin 1..m /\ j \notin 1..m
    <3>1. /\ i - m \in 1..n /\ i = m + (i - m) /\ r[i] = q[i - m]
          /\ j - m \in 1..n /\ j = m + (j - m) /\ r[j] = q[j - m]
      BY <1>3, <2>3
    <3>2. i - m = j - m
      BY <1>1, <1>6, <3>1 DEF Once
    <3> QED BY <3>1, <3>2
  <2>4. CASE i \in 1..m /\ j \notin 1..m
    <3>1. r[i] = p[i] /\ j - m \in 1..n /\ r[j] = q[j - m]
      BY <1>1, <1>3, <2>4
    <3> QED BY <2>2, <2>4, <3>1
  <2>5. CASE i \notin 1..m /\ j \in 1..m
    <3>1. r[j] = p[j] /\ i - m \in 1..n /\ r[i] = q[i - m]
      BY <1>1, <1>3, <2>5
    <3> QED BY <2>2, <2>5, <3>1
  <2> QED BY <2>1, <2>3, <2>4, <2>5
<1> QED BY <1>1, <1>4, <1>5, <1>6 DEF r

\* A permutation of a set, or of a part of it, as the callers give them.
LEMMA PermutationFacts ==
    ASSUME NEW S, IsFiniteSet(S)
    PROVE  /\ \A s \in SetToSeqs(S) : s \in Seq(S) /\ \A x : Once(s, x)
           /\ \A s \in SetToAllKPermutations(S) :
                 s \in Seq(S) /\ Range(s) \subseteq S /\ \A x : Once(s, x)
<1>1. ASSUME NEW T \in SUBSET S, NEW s \in SetToSeqs(T)
      PROVE  s \in Seq(T) /\ \A x : Once(s, x)
  <2>1. Cardinality(T) \in Nat
    BY FS_Subset, FS_CardinalityType
  <2>2. s \in [1..Cardinality(T) -> T]
    BY DEF SetToSeqs
  <2>3. \A i, j \in 1..Cardinality(T) : i # j => s[i] # s[j]
    BY DEF SetToSeqs
  <2>4. s \in Seq(T)
    BY <2>1, <2>2
  <2>5. \A x : Once(s, x)
    BY <2>2, <2>3 DEF Once
  <2> QED BY <2>4, <2>5
<1>2. ASSUME NEW s \in SetToAllKPermutations(S)
      PROVE  s \in Seq(S) /\ Range(s) \subseteq S /\ \A x : Once(s, x)
  <2>1. PICK T \in SUBSET S : s \in SetToSeqs(T)
    BY DEF SetToAllKPermutations
  <2>2. s \in Seq(T) /\ \A x : Once(s, x)
    BY <1>1, <2>1
  <2>3. s \in Seq(S)
    BY <2>2
  <2> QED BY <2>2, <2>3 DEF Range
<1> QED BY <1>1, <1>2

\* The first n elements of a sequence.
LEMMA FirstFacts ==
    ASSUME NEW S, NEW s \in Seq(S), NEW n \in Nat
    PROVE  LET p == SubSeq(s, 1, Min({n, Len(s)})) IN
           p \in Seq(S) /\ Range(p) \subseteq Range(s) /\ (\A x : Once(s, x) => Once(p, x))
<1> DEFINE m == Min({n, Len(s)})
           p == SubSeq(s, 1, m)
<1>1. m \in Nat /\ m <= Len(s)
  <2>1. Len(s) \in Nat
    OBVIOUS
  <2>2. \E x \in {n, Len(s)} : \A y \in {n, Len(s)} : x =< y
    BY <2>1
  <2>3. m \in {n, Len(s)} /\ \A y \in {n, Len(s)} : m =< y
    BY <2>2 DEF Min
  <2> QED BY <2>1, <2>3
<1> HIDE DEF m
<1>2. p \in Seq(S) /\ DOMAIN p = 1..m /\ \A i \in 1..m : p[i] = s[i] /\ i \in DOMAIN s
  BY <1>1
<1> HIDE DEF p
<1>3. Range(p) \subseteq Range(s)
  BY <1>2 DEF Range
<1>4. \A x : Once(s, x) => Once(p, x)
  BY <1>2 DEF Once
<1> QED BY <1>2, <1>3, <1>4 DEF p, m

-----------------------------------------------------------------------------
(* The inductive invariant *)

ClusterTypes ==
    /\ clustered \in BOOLEAN
    /\ clusters \in Seq([members : Seq(Indices), active : BOOLEAN])
    /\ cluster_of \in [Indices -> Ids \union {NoCluster}]
    /\ field \in [Indices -> [dormant : BOOLEAN, cluster : Ids \union {NoCluster}]]
    /\ todo \in Seq(Indices)

SwarmIInv == IInv /\ ClusterTypes /\ OneCluster

-----------------------------------------------------------------------------
(* The actor system under the cluster service *)

\* Lifecycles change and mailboxes are emptied while no actor is ticked.
LEMMA DrainsIInv ==
    ASSUME IInv, Idle, NEW refs, ChannelDrains(refs), UNCHANGED <<size, next_seq, turn>>,
           dormant' \in [Indices -> BOOLEAN]
    PROVE  IInv'
<1>1. chunk = <<>> /\ UNCHANGED <<mode, actor, chunk, ctx_seq, processed, round>>
  BY DEF IInv, Turn, Idle, turn
<1>2. \A a \in Indices : \/ inbox'[a] = inbox[a] /\ seen'[a] = seen[a]
                            /\ refused'[a] = refused[a] /\ done'[a] = done[a]
                            /\ borrowed'[a] = borrowed[a]
                         \/ inbox'[a] = <<>> /\ seen'[a] = {}
                            /\ refused'[a] = {} /\ done'[a] = {} /\ borrowed'[a] = {}
  BY DEF ChannelDrains
<1>3. TypeOK'
  <2>1. TypeOK
    BY DEF IInv
  <2>2. /\ inbox' \in [Indices -> Seq(Keys)]
        /\ \A a \in Indices : Len(inbox'[a]) <= Capacity
    BY <2>1, ConstantsAssumption DEF TypeOK, ChannelDrains
  <2>3. /\ seen' \in [Indices -> SUBSET Keys]
        /\ refused' \in [Indices -> SUBSET Keys]
        /\ done' \in [Indices -> SUBSET Keys]
        /\ borrowed' \in [Indices -> SUBSET Keys]
    BY <2>1 DEF TypeOK, ChannelDrains
  <2> QED BY <1>1, <2>1, <2>2, <2>3 DEF TypeOK
<1>4. Mailboxes'
  <2> SUFFICES ASSUME NEW a \in Indices
               PROVE  Mail(Held(a)', seen'[a], done'[a], refused'[a], borrowed'[a])
    BY DEF Mailboxes
  <2>1. Mail(Held(a), seen[a], done[a], refused[a], borrowed[a])
    BY DEF IInv, Mailboxes
  <2>2. CASE inbox'[a] = inbox[a] /\ seen'[a] = seen[a]
             /\ refused'[a] = refused[a] /\ done'[a] = done[a] /\ borrowed'[a] = borrowed[a]
    <3>1. Held(a)' = Held(a)
      BY <1>1, <2>2 DEF Held
    <3> QED BY <2>1, <2>2, <3>1
  <2>3. CASE inbox'[a] = <<>> /\ seen'[a] = {} /\ refused'[a] = {} /\ done'[a] = {}
             /\ borrowed'[a] = {}
    <3>1. Held(a)' = <<>>
      BY <1>1, <2>3 DEF Held
    <3> QED BY <2>3, <3>1, MailEmpty
  <2> QED BY <1>2, <2>2, <2>3
<1>5. FreshSeq'
  BY <1>1, <1>2, SameSeq DEF IInv
<1> QED BY <1>1, <1>3, <1>4, <1>5 DEF IInv, Turn, Quiet, Idle

\* Mailboxes that nothing is done to are drained of no one.
LEMMA DrainsNone ==
    ASSUME IInv, UNCHANGED <<inbox, seen, refused, done, borrowed>>
    PROVE  ChannelDrains({})
BY DEF IInv, TypeOK, ChannelDrains

\* An actor that sleeps receives nothing from a tick or from outside.
LEMMA SleepersKeepNothing ==
    ASSUME IInv, NEW a \in Indices, dormant[a], inbox[a] = <<>>, seen[a] = {},
           Step \/ (\E b \in Indices : Inject(b) \/ Tick(b))
    PROVE  UNCHANGED dormant /\ inbox'[a] = <<>> /\ seen'[a] = {}
<1>1. ASSUME NEW b \in Indices, NEW k \in Keys, Deliver(b, k)
      PROVE  inbox'[a] = <<>> /\ seen'[a] = {}
  BY <1>1, DeliverCases DEF IInv, TypeOK
<1>2. \A n \in Nat : <<External, n>> \in Keys
  BY DEF Keys, Senders
<1>3. ASSUME NEW b \in Indices, Inject(b) PROVE UNCHANGED dormant /\ inbox'[a] = <<>> /\ seen'[a] = {}
  BY <1>1, <1>2, <1>3 DEF Inject
<1>4. ASSUME NEW b \in Indices, Send(b) PROVE UNCHANGED dormant /\ inbox'[a] = <<>> /\ seen'[a] = {}
  <2>1. <<actor, ctx_seq>> \in Keys
    BY <1>4 DEF Send, IInv, Turn, TypeOK, Keys, Senders
  <2> QED BY <1>1, <1>4, <2>1 DEF Send
<1>5. CASE Pull
  BY <1>5 DEF Pull, IInv, TypeOK
<1> QED
  BY <1>3, <1>4, <1>5 DEF Step, Skip, Received, NextRound, Quiescent, GiveUp, StartRound, Return,
     Tick, mailboxes

-----------------------------------------------------------------------------
(* Clusters *)

\* What OneCluster says of the clusters and the system, and of the field and
\* the mailboxes.
Settled == Indices \ stray

Membership ==
    \A a \in Settled, c \in Ids :
        Once(Members(c), a) /\ (a \in Range(Members(c)) <=> cluster_of[a] = c)

FieldAgrees ==
    \A a \in Settled :
        /\ field[a].cluster = cluster_of[a]
        /\ field[a].dormant <=> cluster_of[a] = NoCluster
        /\ dormant[a] => field[a].dormant /\ inbox[a] = <<>> /\ seen[a] = {}

LEMMA OneClusterParts ==
    OneCluster <=> (clustered => Membership /\ FieldAgrees)
BY DEF OneCluster, Membership, FieldAgrees, Settled

\* The types of a cluster's members.
LEMMA MemberTypes ==
    ASSUME ClusterTypes, NEW c \in Ids
    PROVE  /\ c \in Nat /\ c # NoCluster
           /\ clusters[c] \in [members : Seq(Indices), active : BOOLEAN]
           /\ Members(c) \in Seq(Indices) /\ clusters[c].active \in BOOLEAN
           /\ Range(Members(c)) \subseteq Indices
<1> DEFINE R == [members : Seq(Indices), active : BOOLEAN]
<1>1. c \in Nat /\ clusters[c] \in R
  <2>1. clusters \in Seq(R) /\ c \in DOMAIN clusters
    BY DEF ClusterTypes, Ids
  <2> HIDE DEF R
  <2> QED BY <2>1
<1>2. Members(c) \in Seq(Indices) /\ clusters[c].active \in BOOLEAN
  BY <1>1 DEF Members
<1> QED BY <1>1, <1>2, ClustersAssumption DEF Range

\* How the members of the clusters change when the agents of refs move to
\* cluster t, or to none.
MovedTo(refs, t) ==
    \A a \in Settled', c \in Ids :
        /\ Once(clusters'[c].members, a)
        /\ a \in Range(clusters'[c].members) <=> IF a \in refs THEN c = t ELSE a \in Range(Members(c))

\* Agents that move leave the cluster they were in.
LEMMA MoveMembership ==
    ASSUME ClusterTypes, Membership, DOMAIN clusters' = Ids, stray \subseteq stray',
           NEW refs \in SUBSET Indices, NEW t \in Ids \union {NoCluster}, SetClusters(refs, t),
           MovedTo(refs, t)
    PROVE  Membership' /\ cluster_of' \in [Indices -> Ids \union {NoCluster}]
<1>1. Ids' = Ids /\ \A c \in Ids : Members(c)' = clusters'[c].members
  BY DEF Ids, Members
<1>2. \A a \in Indices : cluster_of'[a] = IF a \in refs THEN t ELSE cluster_of[a]
  BY DEF SetClusters
<1>3. cluster_of' \in [Indices -> Ids \union {NoCluster}]
  BY DEF SetClusters, ClusterTypes
<1>4. ASSUME NEW a \in Settled', NEW c \in Ids
      PROVE  a \in Range(clusters'[c].members) <=> cluster_of'[a] = c
  <2>1. a \in Settled /\ a \in Indices
    BY DEF Settled
  <2>2. a \in Range(Members(c)) <=> cluster_of[a] = c
    BY <2>1 DEF Membership
  <2> QED BY <1>2, <2>1, <2>2 DEF MovedTo
<1>5. Membership'
  <2> SUFFICES ASSUME NEW a \in Settled', NEW c \in Ids
               PROVE  /\ Once(clusters'[c].members, a)
                      /\ a \in Range(clusters'[c].members) <=> cluster_of'[a] = c
    BY <1>1 DEF Membership, Once
  <2> QED BY <1>4 DEF MovedTo
<1> QED BY <1>3, <1>5

\* An agent is a member of one cluster only.
LEMMA OtherMembers ==
    ASSUME Membership, NEW a \in Settled, NEW c \in Ids, NEW d \in Ids, c # d
    PROVE  ~(a \in Range(Members(c)) /\ a \in Range(Members(d)))
BY DEF Membership

LEMMA CreateClusterIInv ==
    ASSUME SwarmIInv, CreateCluster
    PROVE  SwarmIInv'
<1> DEFINE R == [members : Seq(Indices), active : BOOLEAN]
           new == [members |-> <<>>, active |-> TRUE]
           n == Len(clusters)
<1>1. /\ clustered /\ Idle /\ IInv /\ ClusterTypes /\ Membership /\ FieldAgrees
      /\ clusters' = Append(clusters, new)
      /\ UNCHANGED <<vars, clustered, cluster_of, field, todo, stray>>
  BY OneClusterParts DEF CreateCluster, Owner, SwarmIInv
<1>2. IInv'
  BY <1>1, StutterIInv
<1>3. clusters \in Seq(R) /\ new \in R /\ <<>> \in Seq(Indices)
  BY <1>1 DEF ClusterTypes
<1>4. /\ clusters' \in Seq(R) /\ n \in Nat /\ Ids = 1..n /\ Ids' = Ids \union {n + 1} /\ n + 1 \notin Ids
      /\ clusters'[n + 1] = new /\ \A c \in Ids : clusters'[c] = clusters[c]
  <2> HIDE DEF R, new
  <2> QED BY <1>1, <1>3 DEF Ids
<1>5. ClusterTypes'
  <2>1. cluster_of' \in [Indices -> Ids' \union {NoCluster}]
    BY <1>1, <1>4 DEF ClusterTypes
  <2>2. field' \in [Indices -> [dormant : BOOLEAN, cluster : Ids' \union {NoCluster}]]
    BY <1>1, <1>4 DEF ClusterTypes
  <2> QED BY <1>1, <1>4, <2>1, <2>2 DEF ClusterTypes
<1>6. Membership'
  <2> SUFFICES ASSUME NEW a \in Settled, NEW c \in Ids'
               PROVE  /\ Once(clusters'[c].members, a)
                      /\ a \in Range(clusters'[c].members) <=> cluster_of'[a] = c
    <3>1. Settled' = Settled /\ \A c \in Ids' : Members(c)' = clusters'[c].members
      BY <1>1 DEF Settled, Members
    <3> HIDE DEF R, new, n
    <3> QED BY <3>1 DEF Membership, Once
  <2>1. CASE c \in Ids
    BY <1>1, <1>4, <2>1 DEF Membership, Members
  <2>2. CASE c = n + 1
    <3>1. clusters'[c].members = <<>>
      BY <1>4, <2>2
    <3>2. Once(<<>>, a) /\ Range(<<>>) = {}
      BY DEF Once, Range
    <3>3. n + 1 # NoCluster
      BY <1>4, ClustersAssumption
    <3>4. cluster_of[a] # n + 1
      BY <1>1, <1>4, <3>3 DEF ClusterTypes, Settled
    <3> QED BY <1>1, <2>2, <3>1, <3>2, <3>4
  <2> QED BY <1>4, <2>1, <2>2
<1>7. FieldAgrees'
  BY <1>1 DEF FieldAgrees, vars, mailboxes, Settled
<1>8. OneCluster'
  BY <1>6, <1>7, OneClusterParts, PTL
<1> QED BY <1>2, <1>5, <1>8 DEF SwarmIInv

\* A cluster's members change and it stays active, or not.
LEMMA RecordFacts ==
    ASSUME NEW r \in [members : Seq(Indices), active : BOOLEAN], NEW s, NEW b
    PROVE  /\ [r EXCEPT !.members = s] = [members |-> s, active |-> r.active]
           /\ [r EXCEPT !.active = b] = [members |-> r.members, active |-> b]
OBVIOUS

\* What follows for the swarm when agents move to cluster t or to none, and
\* the field is kept up with it.
LEMMA MoveIInv ==
    ASSUME SwarmIInv, clustered, IInv', UNCHANGED <<clustered, todo>>, stray \subseteq stray',
           NEW refs \in SUBSET Indices, NEW t \in Ids \union {NoCluster}, SetClusters(refs, t),
           clusters' \in [Ids -> [members : Seq(Indices), active : BOOLEAN]],
           MovedTo(refs, t),
           field' \in [Indices -> [dormant : BOOLEAN, cluster : Ids \union {NoCluster}]],
           FieldAgrees'
    PROVE  SwarmIInv'
<1> DEFINE R == [members : Seq(Indices), active : BOOLEAN]
<1>1. ClusterTypes /\ Membership
  BY OneClusterParts DEF SwarmIInv
<1>2. DOMAIN clusters' = Ids /\ Ids' = Ids
  BY DEF Ids
<1>3. Membership' /\ cluster_of' \in [Indices -> Ids \union {NoCluster}]
  BY <1>1, <1>2, MoveMembership
<1>4. clusters' \in Seq(R)
  <2>1. PICK n \in Nat : Ids = 1..n
    <3>1. clusters \in Seq(R)
      BY <1>1 DEF ClusterTypes
    <3> HIDE DEF R
    <3> QED BY <3>1 DEF Ids
  <2> HIDE DEF R
  <2>2. clusters' \in [1..n -> R]
    BY <2>1 DEF R
  <2> QED BY <2>2
<1>5. ClusterTypes'
  BY <1>1, <1>2, <1>3, <1>4 DEF ClusterTypes
<1>6. OneCluster'
  BY <1>3, OneClusterParts, PTL
<1> QED BY <1>5, <1>6 DEF SwarmIInv

LEMMA RecruitIInv ==
    ASSUME SwarmIInv, NEW c \in Ids, NEW count \in Indices, RecruitByQuality(c, count)
    PROVE  SwarmIInv'
<1>1. PICK agents \in SetToSeqs(Indices), snapshot \in SUBSET Indices :
         Recruit(c, agents, snapshot, count)
  BY DEF RecruitByQuality
<1> DEFINE asleep == Select(agents, snapshot)
           recruited == SubSeq(asleep, 1, Min({count, Len(asleep)}))
           refs == Range(recruited)
           cl == [d \in Ids |-> IF d = c THEN [members |-> Members(c) \o recruited,
                                               active |-> clusters[c].active]
                                ELSE clusters[d]]
<1>2. /\ clustered /\ Idle /\ IInv /\ ClusterTypes /\ Membership /\ FieldAgrees
      /\ SetLifecycles(refs, FALSE) /\ SetClusters(refs, c) /\ SetField(refs, FALSE, c)
      /\ clusters' = [clusters EXCEPT ![c].members = @ \o recruited]
      /\ UNCHANGED <<size, inbox, seen, refused, next_seq, turn, done, borrowed, clustered, todo>>
      /\ stray' = stray \union Awake(refs)
  BY <1>1, OneClusterParts DEF Recruit, Owner, SwarmIInv, mailboxes
<1>3. agents \in Seq(Indices) /\ \A x : Once(agents, x)
  <2>1. IsFiniteSet(Indices)
    BY ConstantsAssumption, FS_Interval DEF Indices
  <2> QED BY <2>1, PermutationFacts
<1>4. asleep \in Seq(Indices) /\ \A x : Once(asleep, x)
  BY <1>3, SelectFacts
<1>5. recruited \in Seq(Indices) /\ \A x : Once(recruited, x)
  <2>1. count \in Nat
    BY DEF Indices
  <2> HIDE DEF asleep
  <2> QED BY <1>4, <2>1, FirstFacts
<1> HIDE DEF asleep, recruited
<1>6. /\ refs \in SUBSET Indices /\ stray \subseteq stray'
      /\ \A a \in Settled' : a \in Settled /\ a \in Indices
      /\ \A a \in Settled' : a \in refs => field[a].dormant /\ cluster_of[a] = NoCluster
  <2>1. refs \in SUBSET Indices
    BY <1>5 DEF Range
  <2>2. \A a \in Settled' : a \in Settled /\ a \in Indices /\ (a \in refs => field[a].dormant)
    BY <1>2 DEF Settled, Awake
  <2> QED BY <1>2, <2>1, <2>2 DEF FieldAgrees
<1>7. \A d \in Ids, a \in Settled' : ~(a \in Range(Members(d)) /\ a \in refs)
  BY <1>2, <1>6, MemberTypes DEF Membership
<1>8. clusters' = cl /\ cl \in [Ids -> [members : Seq(Indices), active : BOOLEAN]]
  <2>1. Members(c) \o recruited \in Seq(Indices)
    BY <1>2, <1>5, MemberTypes
  <2>2. clusters' = cl
    <3>1. DOMAIN clusters = Ids /\ clusters = [d \in Ids |-> clusters[d]]
      BY <1>2 DEF Ids, ClusterTypes
    <3>2. clusters' = [clusters EXCEPT ![c] = [clusters[c] EXCEPT !.members = Members(c) \o recruited]]
      BY <1>2 DEF Members
    <3>3. [clusters[c] EXCEPT !.members = Members(c) \o recruited]
             = [members |-> Members(c) \o recruited, active |-> clusters[c].active]
      BY <1>2, MemberTypes, RecordFacts
    <3> QED BY <3>1, <3>2, <3>3
  <2> QED BY <1>2, <2>1, <2>2, MemberTypes
<1>9. MovedTo(refs, c)
  <2> SUFFICES ASSUME NEW a \in Settled', NEW d \in Ids
               PROVE  /\ Once(clusters'[d].members, a)
                      /\ a \in Range(clusters'[d].members)
                            <=> IF a \in refs THEN d = c ELSE a \in Range(Members(d))
    BY DEF MovedTo
  <2>1. Members(d) \in Seq(Indices) /\ Once(Members(d), a)
    BY <1>2, <1>6, MemberTypes DEF Membership
  <2>2. CASE d = c
    <3>1. clusters'[d].members = Members(d) \o recruited
      BY <1>8, <2>2
    <3>2. /\ Once(Members(d) \o recruited, a)
          /\ Range(Members(d) \o recruited) = Range(Members(d)) \union refs
      BY <1>5, <1>7, <2>1, JoinFacts
    <3> QED BY <2>2, <3>1, <3>2
  <2>3. CASE d # c
    <3>1. clusters'[d].members = Members(d)
      BY <1>8, <2>3 DEF Members
    <3> QED BY <1>7, <2>1, <2>3, <3>1
  <2> QED BY <2>2, <2>3
<1> HIDE DEF cl, refs
<1>10. IInv'
  <2>1. dormant' \in [Indices -> BOOLEAN]
    BY <1>2 DEF SetLifecycles, IInv, TypeOK
  <2> QED BY <1>2, <2>1, DrainsNone, DrainsIInv
<1>11. field' \in [Indices -> [dormant : BOOLEAN, cluster : Ids \union {NoCluster}]]
  BY <1>2 DEF SetField, ClusterTypes
<1>12. FieldAgrees'
  <2> SUFFICES ASSUME NEW a \in Settled'
               PROVE  /\ field'[a].cluster = cluster_of'[a]
                      /\ field'[a].dormant <=> cluster_of'[a] = NoCluster
                      /\ dormant'[a] => field'[a].dormant /\ inbox'[a] = <<>> /\ seen'[a] = {}
    BY DEF FieldAgrees
  <2>1. c # NoCluster
    BY <1>2, MemberTypes
  <2> QED BY <1>2, <1>6, <2>1 DEF FieldAgrees, SetField, SetClusters, SetLifecycles
<1>13. clusters' \in [Ids -> [members : Seq(Indices), active : BOOLEAN]]
  BY <1>8
<1> QED BY <1>2, <1>6, <1>9, <1>10, <1>11, <1>12, <1>13, MoveIInv

\* dismiss and dissolve.
LEMMA LeaveIInv ==
    ASSUME SwarmIInv, NEW c \in Ids, NEW refs \in SUBSET Range(Members(c)), NEW b \in BOOLEAN,
           Leave(c, refs, b)
    PROVE  SwarmIInv'
<1> DEFINE rest == Without(Members(c), refs)
           cl == [d \in Ids |-> IF d = c THEN [members |-> rest, active |-> b] ELSE clusters[d]]
<1>1. /\ clustered /\ Idle /\ IInv /\ ClusterTypes /\ Membership /\ FieldAgrees
      /\ SetLifecycles(refs, TRUE) /\ SetClusters(refs, NoCluster) /\ ChannelDrains(refs)
      /\ SetField(refs, TRUE, NoCluster)
      /\ clusters' = [clusters EXCEPT ![c] = [members |-> rest, active |-> b]]
      /\ UNCHANGED <<size, next_seq, turn, clustered, todo, stray>>
  BY OneClusterParts DEF Leave, Owner, SwarmIInv, Members
<1>2. Members(c) \in Seq(Indices) /\ refs \in SUBSET Indices /\ Settled' = Settled
  BY <1>1, MemberTypes DEF Settled
<1>3. /\ rest \in Seq(Indices) /\ Range(rest) = Range(Members(c)) \ refs
      /\ \A x : Once(Members(c), x) => Once(rest, x)
  BY <1>2, WithoutFacts
<1> HIDE DEF rest
<1>4. clusters' = cl
  <2>1. DOMAIN clusters = Ids /\ clusters = [d \in Ids |-> clusters[d]]
    BY <1>1 DEF Ids, ClusterTypes
  <2> QED BY <1>1, <2>1
<1>5. clusters' \in [Ids -> [members : Seq(Indices), active : BOOLEAN]]
  <2>1. [members |-> rest, active |-> b] \in [members : Seq(Indices), active : BOOLEAN]
    BY <1>3
  <2>2. \A d \in Ids : clusters[d] \in [members : Seq(Indices), active : BOOLEAN]
    BY <1>1, MemberTypes
  <2> QED BY <1>4, <2>1, <2>2
<1>6. MovedTo(refs, NoCluster)
  <2> SUFFICES ASSUME NEW a \in Settled, NEW d \in Ids
               PROVE  /\ Once(clusters'[d].members, a)
                      /\ a \in Range(clusters'[d].members)
                            <=> IF a \in refs THEN d = NoCluster ELSE a \in Range(Members(d))
    BY <1>2 DEF MovedTo
  <2>1. d # NoCluster /\ Once(Members(d), a)
    BY <1>1, MemberTypes DEF Membership
  <2>2. CASE d = c
    <3>1. clusters'[d].members = rest
      BY <1>4, <2>2
    <3> QED BY <1>3, <2>1, <2>2, <3>1
  <2>3. CASE d # c
    <3>1. clusters'[d].members = Members(d)
      BY <1>4, <2>3 DEF Members
    <3>2. ~(a \in refs /\ a \in Range(Members(d)))
      BY <1>1, <2>3, OtherMembers
    <3> QED BY <2>1, <3>1, <3>2
  <2> QED BY <2>2, <2>3
<1>7. IInv'
  <2>1. dormant' \in [Indices -> BOOLEAN]
    BY <1>1 DEF SetLifecycles, IInv, TypeOK
  <2> QED BY <1>1, <2>1, DrainsIInv
<1>8. field' \in [Indices -> [dormant : BOOLEAN, cluster : Ids \union {NoCluster}]]
  BY <1>1 DEF SetField, ClusterTypes
<1>9. FieldAgrees'
  <2> SUFFICES ASSUME NEW a \in Settled
               PROVE  /\ field'[a].cluster = cluster_of'[a]
                      /\ field'[a].dormant <=> cluster_of'[a] = NoCluster
                      /\ dormant'[a] => field'[a].dormant /\ inbox'[a] = <<>> /\ seen'[a] = {}
    BY <1>2 DEF FieldAgrees
  <2> QED BY <1>1 DEF FieldAgrees, SetField, SetClusters, SetLifecycles, ChannelDrains, Settled
<1> QED BY <1>1, <1>2, <1>5, <1>6, <1>7, <1>8, <1>9, MoveIInv

\* The agents of a set that are in a cluster stay awake when another one takes
\* them, with or without what they have received.
LEMMA TakenFieldAgrees ==
    ASSUME ClusterTypes, FieldAgrees, NEW refs \in SUBSET Indices, NEW t \in Ids,
           \A a \in refs \intersect Settled : cluster_of[a] # NoCluster,
           SetClusters(refs, t), UNCHANGED <<dormant, stray>>,
           field' = [a \in Indices |-> IF a \in refs THEN [field[a] EXCEPT !.cluster = t]
                                       ELSE field[a]],
           \A a \in Indices \ refs : inbox'[a] = inbox[a] /\ seen'[a] = seen[a]
    PROVE  /\ FieldAgrees'
           /\ field' \in [Indices -> [dormant : BOOLEAN, cluster : Ids \union {NoCluster}]]
<1>1. \A a \in Indices : field[a] \in [dormant : BOOLEAN, cluster : Ids \union {NoCluster}]
  BY DEF ClusterTypes
<1>2. \A a \in Indices : a \in refs => /\ field'[a].cluster = t
                                       /\ field'[a].dormant = field[a].dormant
                                       /\ field'[a] \in [dormant : BOOLEAN, cluster : Ids \union {NoCluster}]
  BY <1>1
<1>3. \A a \in Indices : a \notin refs => field'[a] = field[a]
  OBVIOUS
<1>4. field' \in [Indices -> [dormant : BOOLEAN, cluster : Ids \union {NoCluster}]]
  BY <1>1, <1>2, <1>3
<1>5. FieldAgrees'
  <2> SUFFICES ASSUME NEW a \in Settled
               PROVE  /\ field'[a].cluster = cluster_of'[a]
                      /\ field'[a].dormant <=> cluster_of'[a] = NoCluster
                      /\ dormant'[a] => field'[a].dormant /\ inbox'[a] = <<>> /\ seen'[a] = {}
    BY DEF FieldAgrees, Settled
  <2>1. t # NoCluster /\ a \in Indices
    BY MemberTypes DEF Settled
  <2>2. CASE a \in refs
    BY <1>2, <2>1, <2>2 DEF FieldAgrees, SetClusters
  <2>3. CASE a \notin refs
    BY <1>3, <2>1, <2>3 DEF FieldAgrees, SetClusters
  <2> QED BY <2>2, <2>3
<1> QED BY <1>4, <1>5

LEMMA MergeIInv ==
    ASSUME SwarmIInv, NEW s \in Ids, NEW t \in Ids, s # t, Merge(s, t)
    PROVE  SwarmIInv'
<1> DEFINE refs == Range(Members(s))
           joined == Members(t) \o Members(s)
           R == [members : Seq(Indices), active : BOOLEAN]
           taker == [members |-> joined, active |-> clusters[t].active]
           given == [members |-> <<>>, active |-> FALSE]
           cl == [d \in Ids |-> IF d = t THEN taker ELSE IF d = s THEN given ELSE clusters[d]]
<1>1. /\ clustered /\ Idle /\ IInv /\ ClusterTypes /\ Membership /\ FieldAgrees
      /\ SetClusters(refs, t)
      /\ field' = [a \in Indices |-> IF a \in refs THEN [field[a] EXCEPT !.cluster = t]
                                     ELSE field[a]]
      /\ clusters' = [clusters EXCEPT ![t].members = @ \o Members(s), ![s] = given]
      /\ UNCHANGED <<vars, clustered, todo, stray>>
  BY OneClusterParts DEF Merge, Owner, SwarmIInv
<1>2. Settled' = Settled /\ \A d \in Ids : Members(d) \in Seq(Indices) /\ clusters[d] \in R
  BY <1>1, MemberTypes DEF Settled
<1>3. /\ joined \in Seq(Indices) /\ Range(joined) = Range(Members(t)) \union refs
      /\ \A a \in Settled : Once(joined, a)
  <2>1. \A a \in Settled : /\ ~(a \in Range(Members(t)) /\ a \in Range(Members(s)))
                           /\ Once(Members(t), a) /\ Once(Members(s), a)
    BY <1>1, OtherMembers DEF Membership
  <2> QED BY <1>2, <2>1, JoinFacts
<1>4. refs \in SUBSET Indices /\ \A a \in refs \intersect Settled : cluster_of[a] # NoCluster
  BY <1>1, MemberTypes DEF Membership
<1>5. clusters' = cl
  <2>1. DOMAIN clusters = Ids /\ clusters = [d \in Ids |-> clusters[d]]
    BY <1>1 DEF Ids, ClusterTypes
  <2>2. clusters' = [[clusters EXCEPT ![t] = [clusters[t] EXCEPT !.members = joined]] EXCEPT ![s] = given]
    BY <1>1 DEF Members
  <2>3. [clusters[t] EXCEPT !.members = joined] = taker
    BY <1>2, RecordFacts
  <2> HIDE DEF taker, given, joined
  <2> QED BY <2>1, <2>2, <2>3
<1>6. taker \in R /\ given \in R
  <2>1. clusters[t].active \in BOOLEAN /\ <<>> \in Seq(Indices)
    BY <1>2
  <2> QED BY <1>3, <2>1
<1>7. clusters' \in [Ids -> R]
  <2> HIDE DEF taker, given, R
  <2> QED BY <1>2, <1>5, <1>6
<1>8. MovedTo(refs, t)
  <2> SUFFICES ASSUME NEW a \in Settled, NEW d \in Ids
               PROVE  /\ Once(clusters'[d].members, a)
                      /\ a \in Range(clusters'[d].members)
                            <=> IF a \in refs THEN d = t ELSE a \in Range(Members(d))
    BY <1>2 DEF MovedTo
  <2>1. CASE d = t
    <3>1. clusters'[d].members = joined
      BY <1>5, <2>1
    <3> QED BY <1>3, <2>1, <3>1
  <2>2. CASE d = s
    <3>1. clusters'[d].members = <<>>
      BY <1>5, <2>2
    <3>2. Once(<<>>, a) /\ Range(<<>>) = {}
      BY DEF Once, Range
    <3> QED BY <2>2, <3>1, <3>2
  <2>3. CASE d # s /\ d # t
    <3>1. clusters'[d].members = Members(d)
      BY <1>5, <2>3 DEF Members
    <3>2. Once(Members(d), a) /\ ~(a \in Range(Members(d)) /\ a \in refs)
      BY <1>1, <2>3, OtherMembers DEF Membership
    <3> QED BY <2>3, <3>1, <3>2
  <2> QED BY <2>1, <2>2, <2>3
<1> HIDE DEF refs, cl, joined, taker, given
<1>9. IInv'
  BY <1>1, StutterIInv
<1>10. UNCHANGED <<dormant, inbox, seen, stray>>
  BY <1>1 DEF vars, mailboxes
<1>11. /\ FieldAgrees'
       /\ field' \in [Indices -> [dormant : BOOLEAN, cluster : Ids \union {NoCluster}]]
  BY <1>1, <1>4, <1>10, TakenFieldAgrees
<1> QED BY <1>1, <1>4, <1>7, <1>8, <1>9, <1>11, MoveIInv

LEMMA TransferIInv ==
    ASSUME SwarmIInv, NEW s \in Ids, NEW t \in Ids, s # t,
           NEW moved \in SetToAllKPermutations(Range(Members(s))), Transfer(s, t, moved)
    PROVE  SwarmIInv'
<1> DEFINE refs == Range(moved)
           joined == Members(t) \o moved
           rest == Without(Members(s), refs)
           R == [members : Seq(Indices), active : BOOLEAN]
           taker == [members |-> joined, active |-> clusters[t].active]
           giver == [members |-> rest, active |-> clusters[s].active]
           cl == [d \in Ids |-> IF d = t THEN taker ELSE IF d = s THEN giver ELSE clusters[d]]
<1>1. /\ clustered /\ Idle /\ IInv /\ ClusterTypes /\ Membership /\ FieldAgrees
      /\ SetClusters(refs, t) /\ ChannelDrains(refs)
      /\ field' = [a \in Indices |-> IF a \in refs THEN [field[a] EXCEPT !.cluster = t]
                                     ELSE field[a]]
      /\ clusters' = [clusters EXCEPT ![s].members = Without(@, refs), ![t].members = @ \o moved]
      /\ UNCHANGED <<size, next_seq, dormant, turn, clustered, todo, stray>>
  BY OneClusterParts DEF Transfer, Owner, SwarmIInv
<1>2. Settled' = Settled /\ \A d \in Ids : Members(d) \in Seq(Indices) /\ clusters[d] \in R
  BY <1>1, MemberTypes DEF Settled
<1>3. moved \in Seq(Indices) /\ refs \subseteq Range(Members(s)) /\ \A x : Once(moved, x)
  <2>1. IsFiniteSet(Range(Members(s))) /\ Range(Members(s)) \subseteq Indices
    <3>1. IsFiniteSet(Indices)
      BY ConstantsAssumption, FS_Interval DEF Indices
    <3>2. Range(Members(s)) \in SUBSET Indices
      BY <1>1, MemberTypes
    <3> QED BY <3>1, <3>2, FS_Subset
  <2>2. /\ moved \in Seq(Range(Members(s))) /\ Range(moved) \subseteq Range(Members(s))
        /\ \A x : Once(moved, x)
    BY <2>1, PermutationFacts
  <2>3. moved \in Seq(Indices)
    BY <2>1, <2>2
  <2> QED BY <2>2, <2>3
<1>4. refs \in SUBSET Indices /\ \A a \in refs \intersect Settled : cluster_of[a] # NoCluster
  BY <1>1, <1>3, MemberTypes DEF Membership
<1>5. /\ joined \in Seq(Indices) /\ Range(joined) = Range(Members(t)) \union refs
      /\ \A a \in Settled : Once(joined, a)
  <2>1. \A a \in Settled : ~(a \in Range(Members(t)) /\ a \in Range(moved)) /\ Once(Members(t), a)
    BY <1>1, <1>3, OtherMembers DEF Membership
  <2> QED BY <1>2, <1>3, <2>1, JoinFacts
<1>6. /\ rest \in Seq(Indices) /\ Range(rest) = Range(Members(s)) \ refs
      /\ \A a \in Settled : Once(rest, a)
  <2>1. \A a \in Settled : Once(Members(s), a)
    BY <1>1 DEF Membership
  <2> QED BY <1>2, <2>1, WithoutFacts
<1>7. clusters' = cl
  <2>1. DOMAIN clusters = Ids /\ clusters = [d \in Ids |-> clusters[d]]
    BY <1>1 DEF Ids, ClusterTypes
  <2>2. clusters' = [[clusters EXCEPT ![s] = [clusters[s] EXCEPT !.members = rest]]
                        EXCEPT ![t] = [clusters[t] EXCEPT !.members = joined]]
    BY <1>1, <2>1 DEF Members
  <2>3. /\ [clusters[t] EXCEPT !.members = joined] = taker
        /\ [clusters[s] EXCEPT !.members = rest] = giver
    BY <1>2, RecordFacts
  <2> HIDE DEF taker, giver, joined, rest
  <2> QED BY <2>1, <2>2, <2>3
<1>8. taker \in R /\ giver \in R
  <2>1. clusters[t].active \in BOOLEAN /\ clusters[s].active \in BOOLEAN
    BY <1>2
  <2> HIDE DEF joined, rest
  <2> QED BY <1>5, <1>6, <2>1
<1>9. clusters' \in [Ids -> R]
  <2> HIDE DEF taker, giver, R
  <2> QED BY <1>2, <1>7, <1>8
<1>10. MovedTo(refs, t)
  <2> SUFFICES ASSUME NEW a \in Settled, NEW d \in Ids
               PROVE  /\ Once(clusters'[d].members, a)
                      /\ a \in Range(clusters'[d].members)
                            <=> IF a \in refs THEN d = t ELSE a \in Range(Members(d))
    BY <1>2 DEF MovedTo
  <2>1. CASE d = t
    <3>1. clusters'[d].members = joined
      BY <1>7, <2>1
    <3> QED BY <1>5, <2>1, <3>1
  <2>2. CASE d = s
    <3>1. clusters'[d].members = rest
      BY <1>7, <2>2
    <3> QED BY <1>6, <2>2, <3>1
  <2>3. CASE d # s /\ d # t
    <3>1. clusters'[d].members = Members(d)
      BY <1>7, <2>3 DEF Members
    <3>2. Once(Members(d), a) /\ ~(a \in Range(Members(d)) /\ a \in refs)
      BY <1>1, <1>3, <2>3, OtherMembers DEF Membership
    <3> QED BY <2>3, <3>1, <3>2
  <2> QED BY <2>1, <2>2, <2>3
<1> HIDE DEF refs, cl, joined, rest, taker, giver
<1>11. IInv'
  <2>1. dormant' \in [Indices -> BOOLEAN]
    BY <1>1 DEF IInv, TypeOK
  <2> QED BY <1>1, <2>1, DrainsIInv
<1>12. \A a \in Indices \ refs : inbox'[a] = inbox[a] /\ seen'[a] = seen[a]
  BY <1>1 DEF ChannelDrains
<1>13. /\ FieldAgrees'
       /\ field' \in [Indices -> [dormant : BOOLEAN, cluster : Ids \union {NoCluster}]]
  BY <1>1, <1>4, <1>12, TakenFieldAgrees
<1> QED BY <1>1, <1>4, <1>9, <1>10, <1>11, <1>13, MoveIInv

LEMMA TickClusterIInv ==
    ASSUME SwarmIInv, NEW c \in Ids, TickCluster(c)
    PROVE  SwarmIInv'
<1>1. /\ clustered /\ Idle /\ IInv /\ ClusterTypes
      /\ todo' = Select(Members(c), {a \in Indices : ~field[a].dormant})
      /\ UNCHANGED <<vars, clustered, clusters, cluster_of, field, stray>>
  BY DEF TickCluster, Owner, SwarmIInv
<1>2. todo' \in Seq(Indices)
  BY <1>1, MemberTypes, SelectFacts
<1>3. IInv'
  BY <1>1, StutterIInv
<1>4. ClusterTypes'
  BY <1>1, <1>2 DEF ClusterTypes, Ids
<1>5. OneCluster'
  BY <1>1 DEF SwarmIInv, OneCluster, Ids, Members, vars, mailboxes
<1> QED BY <1>3, <1>4, <1>5 DEF SwarmIInv

\* A tick, what it does on its own, and what comes from outside leave the
\* clusters as they are.
LEMMA SameClustersIInv ==
    ASSUME SwarmIInv, IInv', UNCHANGED <<clustered, clusters, cluster_of, field, stray>>,
           todo' \in Seq(Indices),
           ~clustered \/ Step \/ (\E b \in Indices : Inject(b) \/ Tick(b))
    PROVE  SwarmIInv'
<1>1. ClusterTypes'
  BY DEF SwarmIInv, ClusterTypes, Ids
<1>2. ASSUME clustered PROVE FieldAgrees' /\ Membership'
  <2>1. IInv /\ Membership /\ FieldAgrees
    BY <1>2, OneClusterParts DEF SwarmIInv
  <2>2. Membership'
    BY <2>1 DEF Membership, Ids, Members, Settled
  <2>3. UNCHANGED dormant
    BY <1>2 DEF Step, Skip, Pull, Received, NextRound, Quiescent, GiveUp, StartRound, Return, Send,
       Tick, Inject
  <2>4. ASSUME NEW a \in Settled, dormant'[a]
        PROVE  field'[a].dormant /\ inbox'[a] = <<>> /\ seen'[a] = {}
    <3>1. dormant[a] /\ field[a].dormant /\ inbox[a] = <<>> /\ seen[a] = {}
      BY <2>1, <2>3, <2>4 DEF FieldAgrees
    <3>2. a \in Indices
      BY DEF Settled
    <3> QED BY <1>2, <2>1, <3>1, <3>2, SleepersKeepNothing
  <2>5. FieldAgrees'
    BY <2>1, <2>4 DEF FieldAgrees, Settled
  <2> QED BY <2>2, <2>5
<1>3. OneCluster'
  <2>1. CASE clustered
    BY <1>2, <2>1, OneClusterParts, PTL
  <2>2. CASE ~clustered
    BY <2>2 DEF OneCluster
  <2> QED BY <2>1, <2>2
<1> QED BY <1>1, <1>3 DEF SwarmIInv

LEMMA ClusterOperationIInv ==
    ASSUME SwarmIInv, ClusterOperation
    PROVE  SwarmIInv'
<1>1. ASSUME NEW c \in Ids, NEW refs \in SUBSET Range(Members(c)), Dismiss(c, refs)
      PROVE  SwarmIInv'
  <2>1. clusters[c].active \in BOOLEAN
    BY MemberTypes DEF SwarmIInv
  <2> QED BY <1>1, <2>1, LeaveIInv DEF Dismiss
<1>2. ASSUME NEW c \in Ids, Dissolve(c) PROVE SwarmIInv'
  BY <1>2, LeaveIInv DEF Dissolve
<1> QED BY <1>1, <1>2, CreateClusterIInv, RecruitIInv, MergeIInv, TransferIInv, TickClusterIInv
        DEF ClusterOperation

LEMMA SwarmNextIInv ==
    ASSUME SwarmIInv, SwarmNext
    PROVE  SwarmIInv'
<1>1. IInv /\ todo \in Seq(Indices)
  BY DEF SwarmIInv, ClusterTypes
<1>2. CASE ~clustered /\ Operation /\ UNCHANGED swarmVars
  BY <1>1, <1>2, OperationIInv, SameClustersIInv DEF swarmVars
<1>3. CASE (\E a \in Indices : Inject(a)) /\ UNCHANGED swarmVars
  <2>1. Operation
    BY <1>3 DEF Operation
  <2> QED BY <1>1, <1>3, <2>1, OperationIInv, SameClustersIInv DEF swarmVars
<1>4. CASE TickMember
  <2>1. /\ todo # <<>> /\ Tick(Head(todo)) /\ todo' = Tail(todo)
        /\ UNCHANGED <<clustered, clusters, cluster_of, field, stray>>
    BY <1>4 DEF TickMember
  <2>2. Head(todo) \in Indices /\ todo' \in Seq(Indices)
    BY <1>1, <2>1
  <2>3. Operation
    BY <2>1, <2>2 DEF Operation
  <2> QED BY <1>1, <2>1, <2>2, <2>3, OperationIInv, SameClustersIInv
<1>5. CASE Step /\ UNCHANGED swarmVars
  BY <1>1, <1>5, StepIInv, SameClustersIInv DEF swarmVars
<1> QED BY <1>2, <1>3, <1>4, <1>5, ClusterOperationIInv DEF SwarmNext

-----------------------------------------------------------------------------
(* Theorems *)

LEMMA SwarmInitIInv == SwarmInit => SwarmIInv
<1> SUFFICES ASSUME SwarmInit PROVE SwarmIInv
  OBVIOUS
<1>1. IInv
  <2>1. size \in 0..MaxActors /\ Fresh
    BY ConstantsAssumption DEF SwarmInit
  <2> QED BY <2>1, FreshIInv
<1>2. clusters = <<>> /\ Ids = {}
  BY DEF SwarmInit, Ids
<1>3. ClusterTypes
  <2>1. clusters \in Seq([members : Seq(Indices), active : BOOLEAN]) /\ todo \in Seq(Indices)
    BY <1>2 DEF SwarmInit
  <2>2. /\ cluster_of \in [Indices -> Ids \union {NoCluster}]
        /\ field \in [Indices -> [dormant : BOOLEAN, cluster : Ids \union {NoCluster}]]
    BY DEF SwarmInit
  <2> QED BY <2>1, <2>2 DEF ClusterTypes, SwarmInit
<1>4. OneCluster
  BY <1>2 DEF OneCluster, SwarmInit, Fresh
<1> QED BY <1>1, <1>3, <1>4 DEF SwarmIInv

\* SwarmIInv is inductive: the actor system keeps its own invariant under the
\* cluster service, which empties mailboxes between two ticks.
THEOREM SwarmInductive == SwarmSpec => []SwarmIInv
<1>1. SwarmIInv /\ [SwarmNext]_<<vars, swarmVars>> => SwarmIInv'
  <2> SUFFICES ASSUME SwarmIInv, UNCHANGED <<vars, swarmVars>> PROVE SwarmIInv'
    BY SwarmNextIInv
  <2>1. IInv'
    BY StutterIInv DEF SwarmIInv
  <2>2. ClusterTypes'
    BY DEF SwarmIInv, ClusterTypes, swarmVars, Ids
  <2>3. OneCluster'
    BY DEF SwarmIInv, OneCluster, swarmVars, Ids, Members, vars, mailboxes
  <2> QED BY <2>1, <2>2, <2>3 DEF SwarmIInv
<1> QED BY <1>1, SwarmInitIInv, PTL DEF SwarmSpec

\* recruit, dismiss, dissolve, merge and transfer, in any sequence and between
\* any ticks, keep the clusters' members, the system and the field in agreement.
THEOREM AgentInOneCluster == SwarmSpec => []OneCluster
<1>1. SwarmIInv => OneCluster
  BY DEF SwarmIInv
<1> QED BY <1>1, SwarmInductive, PTL

\* Under the cluster service too, envelopes are processed at most once, in their
\* senders' order, and lost only when a channel is full or drained.
THEOREM SwarmMail ==
    SwarmSpec => [](TypeOK /\ AtMostOnce /\ LostOnlyWhenFull /\ FreshSeq /\ SenderOrder)
<1>1. SwarmIInv => TypeOK /\ AtMostOnce /\ LostOnlyWhenFull /\ FreshSeq /\ SenderOrder
  BY MailImplies DEF SwarmIInv, IInv
<1> QED BY <1>1, SwarmInductive, PTL

\* drain, on a system of its own, leaves no mail with an active actor unless all
\* its rounds were busy; the cluster service never ends one.
THEOREM SwarmDrainEndsQuiet == SwarmSpec => DrainQuiesces
<1>1. ASSUME SwarmIInv, [SwarmNext]_<<vars, swarmVars>>
      PROVE  [mode = "drain" /\ mode' = "idle" =>
                \/ round = MaxRounds /\ processed > 0
                \/ \A a \in 1..size : dormant[a] \/ inbox[a] = <<>>]_vars
  <2>1. CASE Step
    BY <1>1, <2>1, StepQuiesces DEF SwarmIInv
  <2>2. CASE Operation \/ (\E a \in Indices : Inject(a)) \/ TickMember \/ ClusterOperation
    <3>1. ASSUME Operation \/ (\E a \in Indices : Inject(a)) \/ TickMember PROVE Idle
      BY <3>1 DEF Operation, DeliverOutside, Inject, ChannelPush, ChannelDrain, SetLifecycle, Tick,
         Spawn, Drain, TickMember
    <3>2. ASSUME ClusterOperation PROVE Idle
      <4>1. ASSUME NEW c \in Ids, NEW n \in Indices, RecruitByQuality(c, n) PROVE Idle
        BY <4>1 DEF RecruitByQuality, Recruit, Owner
      <4> QED BY <3>2, <4>1 DEF ClusterOperation, CreateCluster, Dismiss, Dissolve, Leave, Merge,
                  Transfer, TickCluster, Owner
    <3>3. mode = "idle"
      BY <2>2, <3>1, <3>2 DEF Idle
    <3> QED BY <3>3
  <2>3. CASE UNCHANGED <<vars, swarmVars>>
    BY <2>3
  <2> QED BY <1>1, <2>1, <2>2, <2>3 DEF SwarmNext
<1> QED BY <1>1, SwarmInductive, PTL DEF SwarmSpec, DrainQuiesces

=============================================================================
