-------------------------------- MODULE Swarm --------------------------------
(***************************************************************************)
(* Clusters of actors (include/celer/necto/swarm/cluster.hpp, swarm.hpp):  *)
(* ClusterService recruits actors from a dormant pool into clusters, moves *)
(* them between clusters and dismisses them, and Swarm ticks the members   *)
(* of a cluster.  Where an actor belongs is kept in three places: the      *)
(* cluster's members, the actor system and the swarm's field.              *)
(*                                                                         *)
(* The actor system is used on its own, or by a swarm; then only the       *)
(* cluster service changes lifecycles and clusters.  The caller of recruit *)
(* passes a copy of the field's agents, which may be out of date.  The     *)
(* callers of dismiss and transfer name members of the cluster they give,  *)
(* and merge two different clusters.  Headings, quality, morphs,           *)
(* pheromones and convergence are numbers that no guard here depends on,   *)
(* and left out; agents ordered by quality may come in any order.          *)
(***************************************************************************)
EXTENDS ActorSystem, Selection

CONSTANTS
    MaxClusters,  \* bound: how many clusters are created
    MaxStrays,    \* bound: how many agents are recruited while awake, each once
    NoCluster     \* ClusterId{}, the dormant pool

ASSUME ClustersAssumption == MaxClusters \in Nat /\ NoCluster \notin Nat

VARIABLES
    clustered,    \* a swarm uses the actor system
    clusters,     \* clusters_: members and whether active
    cluster_of,   \* cluster_ of each actor
    field,        \* lifecycle and cluster of each agent in the field
    todo,         \* members tick_cluster has yet to tick
    stray         \* history: agents recruited while awake, on an old snapshot

swarmVars == <<clustered, clusters, cluster_of, field, todo, stray>>

Ids == DOMAIN clusters
Members(c) == clusters[c].members

\* The caller of the cluster service is the thread that owns the system.
Owner == clustered /\ Idle /\ todo = <<>>

-----------------------------------------------------------------------------
(* Calls into the actor system and the field, for all refs of a set *)

SetLifecycles(refs, sleeps) ==
    dormant' = [a \in Indices |-> IF a \in refs THEN sleeps ELSE dormant[a]]

SetClusters(refs, c) ==
    cluster_of' = [a \in Indices |-> IF a \in refs THEN c ELSE cluster_of[a]]

ChannelDrains(refs) ==
    /\ inbox' = [a \in Indices |-> IF a \in refs THEN <<>> ELSE inbox[a]]
    /\ seen' = [a \in Indices |-> IF a \in refs THEN {} ELSE seen[a]]
    /\ refused' = [a \in Indices |-> IF a \in refs THEN {} ELSE refused[a]]
    /\ done' = [a \in Indices |-> IF a \in refs THEN {} ELSE done[a]]
    /\ borrowed' = [a \in Indices |-> IF a \in refs THEN {} ELSE borrowed[a]]

SetField(refs, sleeps, c) ==
    field' = [a \in Indices |-> IF a \in refs THEN [dormant |-> sleeps, cluster |-> c]
                                ELSE field[a]]

\* The members of a cluster without those that leave it.
Without(s, refs) == Select(s, Range(s) \ refs)

-----------------------------------------------------------------------------
(* ClusterService *)

CreateCluster ==
    /\ Owner
    /\ Len(clusters) < MaxClusters
    /\ clusters' = Append(clusters, [members |-> <<>>, active |-> TRUE])
    /\ UNCHANGED <<vars, clustered, cluster_of, field, todo, stray>>

\* The agents that the field has awake.
Awake(refs) == {a \in refs : ~field[a].dormant}

\* The first count of agents that are dormant in the caller's snapshot.
Recruit(c, agents, snapshot, count) ==
    LET asleep == Select(agents, snapshot)
        recruited == SubSeq(asleep, 1, Min({count, Len(asleep)}))
    IN  /\ Owner
        /\ recruited # <<>>
        /\ Awake(Range(recruited)) \intersect stray = {}
        /\ stray' = stray \union Awake(Range(recruited))
        /\ Cardinality(stray') <= MaxStrays
        /\ SetLifecycles(Range(recruited), FALSE)
        /\ SetClusters(Range(recruited), c)
        /\ SetField(Range(recruited), FALSE, c)
        /\ clusters' = [clusters EXCEPT ![c].members = @ \o recruited]
        /\ UNCHANGED <<size, mailboxes, next_seq, turn, done, borrowed, clustered, todo>>

RecruitByQuality(c, count) ==
    \E agents \in SetToSeqs(Indices), snapshot \in SUBSET Indices :
        Recruit(c, agents, snapshot, count)

\* dismiss, and dissolve with active FALSE.
Leave(c, refs, active) ==
    /\ Owner
    /\ SetLifecycles(refs, TRUE)
    /\ SetClusters(refs, NoCluster)
    /\ ChannelDrains(refs)
    /\ SetField(refs, TRUE, NoCluster)
    /\ clusters' = [clusters EXCEPT ![c] = [members |-> Without(@.members, refs),
                                            active |-> active]]
    /\ UNCHANGED <<size, next_seq, turn, clustered, todo, stray>>

Dismiss(c, refs) == Leave(c, refs, clusters[c].active)
Dissolve(c) == Leave(c, Range(Members(c)), FALSE)

\* Mutant of Merge: the source keeps its members.
MergeKeepsMembers(source, target) ==
    LET refs == Range(Members(source))
    IN  /\ Owner
        /\ SetClusters(refs, target)
        /\ field' = [a \in Indices |-> IF a \in refs THEN [field[a] EXCEPT !.cluster = target]
                                       ELSE field[a]]
        /\ clusters' = [clusters EXCEPT ![target].members = @ \o Members(source),
                                        ![source].active = FALSE]
        /\ UNCHANGED <<vars, clustered, todo, stray>>

Merge(source, target) ==
    LET refs == Range(Members(source))
    IN  /\ Owner
        /\ SetClusters(refs, target)
        /\ field' = [a \in Indices |-> IF a \in refs THEN [field[a] EXCEPT !.cluster = target]
                                       ELSE field[a]]
        /\ clusters' = [clusters EXCEPT ![target].members = @ \o Members(source),
                                        ![source] = [members |-> <<>>, active |-> FALSE]]
        /\ UNCHANGED <<vars, clustered, todo, stray>>

\* The lifecycle stays as it is; what the agents had received is lost.
Transfer(source, target, refs) ==
    /\ Owner
    /\ SetClusters(Range(refs), target)
    /\ ChannelDrains(Range(refs))
    /\ field' = [a \in Indices |-> IF a \in Range(refs) THEN [field[a] EXCEPT !.cluster = target]
                                   ELSE field[a]]
    /\ clusters' = [clusters EXCEPT ![source].members = Without(@, Range(refs)),
                                    ![target].members = @ \o refs]
    /\ UNCHANGED <<size, next_seq, dormant, turn, clustered, todo, stray>>

-----------------------------------------------------------------------------
(* Swarm *)

\* tick_cluster: the members that are not dormant in the field, one by one.
TickCluster(c) ==
    /\ Owner
    /\ clusters[c].active
    /\ todo' = Select(Members(c), {a \in Indices : ~field[a].dormant})
    /\ UNCHANGED <<vars, clustered, clusters, cluster_of, field, stray>>

TickMember ==
    /\ Idle
    /\ todo # <<>>
    /\ Tick(Head(todo))
    /\ todo' = Tail(todo)
    /\ UNCHANGED <<clustered, clusters, cluster_of, field, stray>>

-----------------------------------------------------------------------------
\* A swarm is given a system in which its population has been spawned; its
\* field starts dormant, the actors do not.
SwarmInit ==
    /\ clustered \in BOOLEAN
    /\ size = IF clustered THEN MaxActors ELSE 0
    /\ Fresh
    /\ clusters = <<>>
    /\ cluster_of = [a \in Indices |-> NoCluster]
    /\ field = [a \in Indices |-> [dormant |-> TRUE, cluster |-> NoCluster]]
    /\ todo = <<>>
    /\ stray = {}

ClusterOperation ==
    \/ CreateCluster
    \/ \E c \in Ids, n \in Indices : RecruitByQuality(c, n)
    \/ \E c \in Ids : \E refs \in SUBSET Range(Members(c)) : Dismiss(c, refs)
    \/ \E c \in Ids : Dissolve(c) \/ TickCluster(c)
    \/ \E s, t \in Ids : s # t /\ Merge(s, t)
    \/ \E s, t \in Ids :
          s # t /\ \E refs \in SetToAllKPermutations(Range(Members(s))) : Transfer(s, t, refs)

SwarmNext ==
    \/ ~clustered /\ Operation /\ UNCHANGED swarmVars
    \/ Owner /\ (\E a \in Indices : Inject(a)) /\ UNCHANGED swarmVars
    \/ ClusterOperation
    \/ TickMember
    \/ Step /\ UNCHANGED swarmVars

SwarmSpec == SwarmInit /\ [][SwarmNext]_<<vars, swarmVars>>

-----------------------------------------------------------------------------
\* The cluster's members, the actor system and the field agree through any
\* sequence of recruit, dismiss, dissolve, merge, transfer and tick: an agent
\* is a member of at most one cluster, once, and of the one that the system
\* and the field name; members are awake in both; an agent put to sleep is in
\* no cluster and starts its next one with an empty mailbox and memory.  An
\* agent that was recruited while awake is left out: recruit does not look at
\* the field, and such an agent may be in two clusters.
OneCluster ==
    clustered =>
      \A a \in Indices \ stray :
        /\ \A c \in Ids :
             /\ Once(Members(c), a)
             /\ a \in Range(Members(c)) <=> cluster_of[a] = c
        /\ field[a].cluster = cluster_of[a]
        /\ field[a].dormant <=> cluster_of[a] = NoCluster
        /\ dormant[a] => field[a].dormant /\ inbox[a] = <<>> /\ seen[a] = {}
=============================================================================
