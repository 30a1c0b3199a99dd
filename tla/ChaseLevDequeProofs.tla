------------------------- MODULE ChaseLevDequeProofs -------------------------
(***************************************************************************)
(* Proofs about ChaseLevDeque, for any number of leases, thieves and       *)
(* initial slots, and for an owner that is the only thread to push.        *)
(*                                                                         *)
(* None of the properties is inductive.  StableSteal needs to know what a  *)
(* thief relies on before its CAS (ThiefInv), which a push keeps because   *)
(* the deque fits its buffer (RoomInv), which in turn depends on where the *)
(* owner's own call stands (OwnerInv): a push writes only slots outside of *)
(* top .. bottom - 1.  That a lease is handed out once needs that it is in *)
(* one place at a time (OnceInv), true until a pop loses its race.         *)
(***************************************************************************)
EXTENDS ChaseLevDeque, SequenceFacts, TLAPS

\* What the deque is written for: the owner alone calls push.
SinglePusher == Wakers = {}

-----------------------------------------------------------------------------
(* The inductive invariant *)

\* Where the owner's operation stands with respect to top and bottom.
OwnerInv ==
    LET r == reg[Owner] IN
    /\ pc[Owner] \in {"idle", "push", "publish", "pop", "popCas", "restore"}
    /\ pc[Owner] = "idle" => top <= bottom
    /\ pc[Owner] \in {"push", "publish"} =>
          /\ r.b = bottom /\ r.t <= top /\ top <= bottom
          /\ r.buf = buffer
          /\ r.lease \in Leases
          /\ bottom - r.t <= mask[buffer] + 1
    /\ pc[Owner] = "publish" =>
          /\ bottom - top <= mask[buffer]
          /\ Get(buffer, bottom) = r.lease
    /\ pc[Owner] = "pop" => r.b = bottom /\ r.buf = buffer /\ top <= bottom + 1
    /\ pc[Owner] = "popCas" =>
          /\ r.b = bottom /\ r.t = bottom
          /\ top \in {bottom, bottom + 1}
          /\ r.lease = Get(buffer, bottom)
    /\ pc[Owner] = "restore" =>
          /\ top = bottom + 1
          /\ r.b \in {top, top + 1}
          /\ r.b = top \/ raced

\* The leases in the deque fit the current buffer.
RoomInv == buffer = Len(mask) /\ Edge - top <= mask[buffer] + 1

\* A thief that saw the deque non-empty at its t finds it so as long as top = t,
\* and reads the lease of the current buffer, be its own buffer older.
ThiefOK(h) ==
    /\ pc[h] \in {"idle", "steal", "stealBuf", "stealRead", "stealCas"}
    /\ pc[h] # "idle" => reg[h].t <= top
    /\ pc[h] \in {"stealBuf", "stealRead", "stealCas"} /\ reg[h].t = top => top < Edge
    /\ pc[h] = "stealRead" /\ reg[h].t = top => Get(reg[h].buf, top) = Get(buffer, top)
    /\ pc[h] = "stealCas" /\ reg[h].t = top => reg[h].lease = Get(buffer, top)

ThiefInv == \A h \in Thieves : ThiefOK(h)

\* Before the first lost race: a lease is held, in flight or in the deque, once.
OnceInv ==
    raced \/ /\ Exclusive
             /\ \A i \in Window : Get(buffer, i) \in Leases /\ holds[Get(buffer, i)] = 0
             /\ \A i, j \in Window : Get(buffer, i) = Get(buffer, j) => i = j
             /\ pc[Owner] \in {"push", "publish"} =>
                   /\ holds[reg[Owner].lease] = 0
                   /\ \A i \in Window : Get(buffer, i) # reg[Owner].lease

\* Every buffer is an array of leases.
Buffers == UNION {[0..n -> Values \ {Torn}] : n \in Nat}

IInv ==
    /\ TypeOK
    /\ storage \in Seq(Buffers)
    /\ OwnerInv
    /\ RoomInv
    /\ ThiefInv
    /\ NoLeaseLost
    /\ holds[Torn] = 0
    /\ OnceInv

-----------------------------------------------------------------------------
\* Without wakers, the owner is the only thread that pushes.
LEMMA OwnerOnly ==
  ASSUME SinglePusher
  PROVE  Pushers = {Owner} /\ Threads = {Owner} \union Thieves /\ Owner \notin Thieves
BY ConstantsAssumption DEF SinglePusher, Pushers, Threads

\* Get reads inside of its buffer and never finds a torn lease there.
LEMMA GetType ==
  ASSUME TypeOK, NEW k \in 1..Len(mask), NEW i \in Nat
  PROVE  Slot(k, i) \in 0..mask[k] /\ Get(k, i) \in Values \ {Torn}
<1>1. mask[k] \in Nat
  BY DEF TypeOK
<1>2. Slot(k, i) \in 0..mask[k]
  <2>1. mask[k] + 1 \in Nat \ {0}
    BY <1>1
  <2>2. i % (mask[k] + 1) \in 0..((mask[k] + 1) - 1)
    BY <2>1, ModRange
  <2> QED BY <2>2, <1>1 DEF Slot
<1> QED BY <1>2 DEF TypeOK, Get

\* The oldest lease of a deque that is not empty is at top.
LEMMA TopInWindow ==
  ASSUME top \in Nat, Edge \in Int, top < Edge
  PROVE  top \in Window
BY DEF Window

\* The locals of one call.
LocalsType == [b : Int, t : Nat, buf : 1..Len(mask), lease : Values]

\* The locals of a thread have their types.
LEMMA RegType ==
  ASSUME TypeOK, NEW x \in Threads
  PROVE  /\ reg[x] \in LocalsType
         /\ reg[x].b \in Int /\ reg[x].t \in Nat
         /\ reg[x].buf \in 1..Len(mask) /\ reg[x].lease \in Values
         /\ reg[x] = Locals(reg[x].b, reg[x].t, reg[x].buf, reg[x].lease)
<1>1. reg[x] \in LocalsType
  BY DEF TypeOK, LocalsType
<1> QED BY <1>1 DEF LocalsType, Locals

\* A record of typed locals is typed.
LEMMA LocalsTyped ==
  ASSUME NEW b \in Int, NEW t \in Nat, NEW k \in 1..Len(mask), NEW l \in Values
  PROVE  Locals(b, t, k, l) \in LocalsType
BY DEF Locals, LocalsType

\* A step of one thread that allocates and writes no buffer keeps the types.
LEMMA TypeStep ==
  ASSUME TypeOK, NEW x \in Threads, NEW s \in States,
         NEW b \in Int, NEW t \in Nat, NEW k \in 1..Len(mask), NEW l \in Values,
         pc' = [pc EXCEPT ![x] = s],
         reg' = [reg EXCEPT ![x] = Locals(b, t, k, l)],
         UNCHANGED <<buffer, mask, storage>>,
         top' \in Nat, bottom' \in Int, holds' \in [Values -> Nat], raced' \in BOOLEAN
  PROVE  TypeOK'
<1>1. pc' \in [Threads -> States]
  BY DEF TypeOK
<1>2. reg' \in [Threads -> [b : Int, t : Nat, buf : 1..Len(mask), lease : Values]]
  BY LocalsTyped DEF TypeOK, LocalsType
<1> QED BY <1>1, <1>2 DEF TypeOK

\* Returning from a call keeps the types.
LEMMA ReturnTyped ==
  ASSUME TypeOK, NEW x \in Threads, Return(x), UNCHANGED <<buffer, mask, storage>>,
         top' \in Nat, bottom' \in Int, holds' \in [Values -> Nat], raced' \in BOOLEAN
  PROVE  TypeOK'
<1>1. 1 \in 1..Len(mask) /\ NoLease \in Values /\ "idle" \in States
  BY DEF TypeOK, Values, States
<1>2. /\ pc' = [pc EXCEPT ![x] = "idle"]
      /\ reg' = [reg EXCEPT ![x] = Locals(0, 0, 1, NoLease)]
  BY DEF Return, NoLocals
<1>3. 0 \in Int /\ 0 \in Nat
  OBVIOUS
<1> QED BY <1>1, <1>2, <1>3, TypeStep, Zenon

\* Counting one more holder of v.
LEMMA HoldsStep ==
  ASSUME TypeOK, NEW v \in Values
  PROVE  /\ [holds EXCEPT ![v] = @ + 1] \in [Values -> Nat]
         /\ \A w \in Values : [holds EXCEPT ![v] = @ + 1][w] = IF w = v THEN holds[v] + 1 ELSE holds[w]
BY DEF TypeOK

\* The types of the shared state and of the owner's locals, as the steps use them.
LEMMA OwnerTypes ==
  ASSUME SinglePusher, IInv
  PROVE  /\ top \in Nat /\ bottom \in Int
         /\ mask \in Seq(Nat) /\ buffer \in 1..Len(mask) /\ mask[buffer] \in Nat
         /\ storage \in Seq(Buffers) /\ Len(storage) = Len(mask)
         /\ buffer \in DOMAIN storage
         /\ storage[buffer] \in [0..mask[buffer] -> Values \ {Torn}]
         /\ holds \in [Values -> Nat] /\ raced \in BOOLEAN
         /\ reg[Owner].b \in Int /\ reg[Owner].t \in Nat
         /\ reg[Owner].buf \in 1..Len(mask) /\ reg[Owner].lease \in Values
<1>1. TypeOK /\ storage \in Seq(Buffers)
  BY DEF IInv
<1>2. /\ reg[Owner].b \in Int /\ reg[Owner].t \in Nat
      /\ reg[Owner].buf \in 1..Len(mask) /\ reg[Owner].lease \in Values
  BY <1>1, OwnerOnly, RegType
<1>3. /\ top \in Nat /\ bottom \in Int /\ mask \in Seq(Nat) /\ buffer \in 1..Len(mask)
      /\ Len(storage) = Len(mask) /\ holds \in [Values -> Nat]
      /\ storage[buffer] \in [0..mask[buffer] -> Values \ {Torn}]
  BY <1>1 DEF TypeOK
<1>4. raced \in BOOLEAN
  BY <1>1 DEF TypeOK
<1>5. mask[buffer] \in Nat /\ buffer \in DOMAIN storage
  BY <1>1, <1>3
<1> QED BY <1>1, <1>2, <1>3, <1>4, <1>5

\* What a step that leaves the shared state and the owner alone preserves.
LEMMA ThiefFrame ==
  ASSUME SinglePusher, IInv,
         UNCHANGED <<top, bottom, buffer, mask, storage, holds, raced>>,
         pc'[Owner] = pc[Owner], reg'[Owner] = reg[Owner]
  PROVE  (storage \in Seq(Buffers))' /\ OwnerInv' /\ RoomInv' /\ NoLeaseLost' /\ (holds[Torn] = 0)' /\ OnceInv'
<1>1. \A k, i : Get(k, i)' = Get(k, i)
  BY DEF Get, Slot
<1>2. Edge' = Edge /\ Window' = Window
  BY DEF Edge, Window
<1>3. OwnerInv'
  BY <1>1 DEF IInv, OwnerInv
<1>4. RoomInv'
  BY <1>2 DEF IInv, RoomInv
<1>5. NoLeaseLost'
  BY <1>1, <1>2, OwnerOnly DEF IInv, NoLeaseLost, InFlight
<1>6. (holds[Torn] = 0)'
  BY DEF IInv
<1>7. OnceInv'
  BY <1>1, <1>2 DEF IInv, OnceInv, Exclusive, LeaseExclusive
<1> QED BY <1>3, <1>4, <1>5, <1>6, <1>7 DEF IInv

\* What an owner's step that writes no buffer and moves no top preserves.
LEMMA OwnerFrame ==
  ASSUME SinglePusher, IInv, NEW s, NEW r,
         UNCHANGED <<top, buffer, mask, storage>>,
         pc' = [pc EXCEPT ![Owner] = s], reg' = [reg EXCEPT ![Owner] = r],
         top < Edge => top < Edge'
  PROVE  ThiefInv'
<1>1. \A k, i : Get(k, i)' = Get(k, i)
  BY DEF Get, Slot
<1>2. \A h \in Thieves : pc'[h] = pc[h] /\ reg'[h] = reg[h]
  BY OwnerOnly DEF IInv, TypeOK
<1> QED BY <1>1, <1>2 DEF IInv, ThiefInv, ThiefOK

\* A step of thief h that does not touch the buffers disturbs no other thief.
LEMMA OtherThieves ==
  ASSUME SinglePusher, IInv, NEW h \in Thieves, NEW s, NEW r,
         UNCHANGED <<bottom, buffer, mask, storage>>,
         pc' = [pc EXCEPT ![h] = s], reg' = [reg EXCEPT ![h] = r],
         top' \in {top, top + 1}, ThiefOK(h)'
  PROVE  ThiefInv'
<1>1. \A k, i : Get(k, i)' = Get(k, i)
  BY DEF Get, Slot
<1>2. Edge' = Edge
  BY OwnerOnly DEF Edge, IInv, TypeOK
<1> SUFFICES ASSUME NEW g \in Thieves, g # h PROVE ThiefOK(g)'
  BY DEF ThiefInv
<1>3. pc'[g] = pc[g] /\ reg'[g] = reg[g]
  BY OwnerOnly DEF IInv, TypeOK
<1>4. ThiefOK(g) /\ top \in Nat /\ reg[g].t \in Nat
  BY OwnerOnly, RegType DEF IInv, ThiefInv, TypeOK
<1> QED BY <1>1, <1>2, <1>3, <1>4 DEF ThiefOK

-----------------------------------------------------------------------------
(* steal *)

\* steal: the load of top.
LEMMA StepStealTop ==
  ASSUME SinglePusher, IInv, NEW h \in Thieves, StealTop(h)
  PROVE  IInv'
<1> USE OwnerOnly DEF IInv
<1>1. TypeOK'
  <2>1. top \in Nat /\ bottom \in Int /\ holds \in [Values -> Nat] /\ raced \in BOOLEAN
    BY DEF TypeOK
  <2> QED BY <2>1, RegType, TypeStep DEF StealTop, States
<1>2. pc'[Owner] = pc[Owner] /\ reg'[Owner] = reg[Owner]
  BY DEF TypeOK, StealTop
<1>3. ThiefOK(h)'
  BY DEF TypeOK, StealTop, ThiefOK, Locals
<1>4. ThiefInv'
  BY <1>3, OtherThieves DEF StealTop
<1> QED BY <1>1, <1>2, <1>4, ThiefFrame DEF StealTop

\* steal: the two ways to return without a lease.
LEMMA StepStealEmpty ==
  ASSUME SinglePusher, IInv, NEW h \in Thieves,
         StealEmpty(h) \/ StealCasLost(h)
  PROVE  IInv'
<1> USE OwnerOnly DEF IInv
<1>0. /\ Return(h)
      /\ UNCHANGED <<top, bottom, buffer, mask, storage, holds, raced>>
  BY DEF StealEmpty, StealCasLost
<1>1. TypeOK'
  <2>1. top \in Nat /\ bottom \in Int /\ holds \in [Values -> Nat] /\ raced \in BOOLEAN
    BY DEF TypeOK
  <2> QED BY <1>0, <2>1, ReturnTyped
<1>2. pc'[Owner] = pc[Owner] /\ reg'[Owner] = reg[Owner]
  BY <1>0 DEF TypeOK, Return
<1>3. ThiefOK(h)'
  BY <1>0 DEF TypeOK, ThiefOK, Return
<1>4. ThiefInv'
  BY <1>0, <1>3, OtherThieves DEF Return
<1> QED BY <1>0, <1>1, <1>2, <1>4, ThiefFrame

\* steal: the load of bottom, which shows that the deque is not empty at t.
LEMMA StepStealBottom ==
  ASSUME SinglePusher, IInv, NEW h \in Thieves, StealBottom(h)
  PROVE  IInv'
<1> USE OwnerOnly DEF IInv
<1>0. reg' = [reg EXCEPT ![h] = reg[h]]
  BY DEF StealBottom, TypeOK
<1>1. TypeOK'
  BY DEF TypeOK, StealBottom, States
<1>2. pc'[Owner] = pc[Owner] /\ reg'[Owner] = reg[Owner]
  BY DEF TypeOK, StealBottom
<1>3. ThiefOK(h)'
  <2>1. bottom \in Int /\ top \in Nat /\ reg[h].t \in Nat
    BY RegType DEF TypeOK
  <2>2. pc[h] = "steal" /\ reg[h].t < bottom
    BY DEF StealBottom
  <2>3. reg[h].t <= top
    BY <2>2 DEF ThiefInv, ThiefOK
  <2>4. Edge' = Edge /\ Edge >= bottom
    BY <1>2, <2>1 DEF Edge, StealBottom
  <2>5. pc'[h] = "stealBuf" /\ reg'[h] = reg[h] /\ top' = top
    BY DEF TypeOK, StealBottom
  <2> QED BY <2>1, <2>2, <2>3, <2>4, <2>5 DEF ThiefOK, Edge
<1>4. ThiefInv'
  BY <1>0, <1>3, OtherThieves DEF StealBottom
<1> QED BY <1>1, <1>2, <1>4, ThiefFrame DEF StealBottom

\* steal: the load of the buffer.
LEMMA StepStealBuf ==
  ASSUME SinglePusher, IInv, NEW h \in Thieves, StealBuf(h)
  PROVE  IInv'
<1> USE OwnerOnly DEF IInv
<1>1. TypeOK'
  <2>1. /\ top \in Nat /\ bottom \in Int /\ holds \in [Values -> Nat] /\ raced \in BOOLEAN
        /\ buffer \in 1..Len(mask)
    BY DEF TypeOK
  <2> QED BY <2>1, RegType, TypeStep DEF StealBuf, States
<1>2. pc'[Owner] = pc[Owner] /\ reg'[Owner] = reg[Owner] /\ Edge' = Edge
  BY DEF TypeOK, StealBuf, Edge
<1>3. ThiefOK(h)'
  BY <1>2 DEF TypeOK, StealBuf, ThiefInv, ThiefOK, Locals, Get, Slot
<1>4. ThiefInv'
  BY <1>3, OtherThieves DEF StealBuf
<1> QED BY <1>1, <1>2, <1>4, ThiefFrame DEF StealBuf

\* The slot of top is not the one that a push is about to write.
LEMMA TopNotBeingWritten ==
  ASSUME SinglePusher, IInv, top < Edge, NEW k, BeingWritten(k, top)
  PROVE  FALSE
<1> USE OwnerOnly DEF IInv
<1>1. /\ pc[Owner] = "push" /\ ~Full(Owner) /\ reg[Owner].buf = buffer
      /\ Slot(buffer, reg[Owner].b) = Slot(buffer, top)
  BY DEF BeingWritten, OwnerInv
<1>2. /\ top \in Nat /\ bottom \in Int /\ reg[Owner].t \in Nat
      /\ mask[buffer] \in Nat
  BY RegType DEF TypeOK
<1>3. reg[Owner].b = bottom /\ reg[Owner].t <= top /\ top < bottom
  BY <1>1 DEF OwnerInv, Edge
<1>4. bottom - top < mask[buffer] + 1
  BY <1>1, <1>2, <1>3 DEF Full
<1>5. top % (mask[buffer] + 1) # bottom % (mask[buffer] + 1)
  <2>1. mask[buffer] + 1 \in Nat \ {0} /\ bottom \in Nat
    BY <1>2, <1>3
  <2> QED BY <1>2, <1>3, <1>4, <2>1, ModDistinct
<1> QED BY <1>1, <1>3, <1>5 DEF Slot

\* steal: the read of the slot; torn only if the CAS is going to fail.
LEMMA StepStealRead ==
  ASSUME SinglePusher, IInv, NEW h \in Thieves, StealRead(h)
  PROVE  IInv'
<1> USE OwnerOnly DEF IInv
<1>0. PICK v \in Values :
        /\ \/ v = Get(reg[h].buf, reg[h].t)
           \/ v = Torn /\ BeingWritten(reg[h].buf, reg[h].t)
        /\ reg' = [reg EXCEPT ![h] = Locals(reg[h].b, reg[h].t, reg[h].buf, v)]
  BY DEF StealRead
<1>1. TypeOK'
  <2>1. top \in Nat /\ bottom \in Int /\ holds \in [Values -> Nat] /\ raced \in BOOLEAN
    BY DEF TypeOK
  <2> QED BY <1>0, <2>1, RegType, TypeStep DEF StealRead, States
<1>2. pc'[Owner] = pc[Owner] /\ reg'[Owner] = reg[Owner] /\ Edge' = Edge
  BY <1>0 DEF TypeOK, StealRead, Edge
<1>3. ThiefOK(h)'
  <2>1. /\ pc[h] = "stealRead" /\ pc'[h] = "stealCas"
        /\ reg'[h] = Locals(reg[h].b, reg[h].t, reg[h].buf, v)
        /\ UNCHANGED <<top, buffer, mask, storage>>
    BY <1>0 DEF TypeOK, StealRead
  <2>2. ThiefOK(h)
    BY DEF ThiefInv
  <2>3. ASSUME reg[h].t = top PROVE v = Get(buffer, top) /\ top < Edge
    <3>1. top < Edge /\ Get(reg[h].buf, top) = Get(buffer, top)
      BY <2>1, <2>2, <2>3 DEF ThiefOK
    <3>2. ~BeingWritten(reg[h].buf, top)
      BY <3>1, TopNotBeingWritten
    <3> QED BY <1>0, <2>3, <3>1, <3>2
  <2> QED BY <1>2, <2>1, <2>2, <2>3 DEF ThiefOK, Locals, Get, Slot
<1>4. ThiefInv'
  BY <1>0, <1>3, OtherThieves DEF StealRead
<1> QED BY <1>1, <1>2, <1>4, ThiefFrame DEF StealRead

-----------------------------------------------------------------------------
\* The owner has no lease in flight, or keeps the one it has.
SameInFlight ==
  \/ pc[Owner] \notin {"push", "publish"} /\ pc'[Owner] \notin {"push", "publish"}
  \/ pc'[Owner] = pc[Owner] /\ reg'[Owner] = reg[Owner]

\* Taking the lease of one index out of the deque and into a thread's hands.
LEMMA TakeOne ==
  ASSUME SinglePusher, IInv, NEW d \in Window, Window' = Window \ {d},
         holds' = [holds EXCEPT ![Get(buffer, d)] = @ + 1],
         UNCHANGED <<buffer, mask, storage, raced>>, SameInFlight
  PROVE  /\ holds' \in [Values -> Nat]
         /\ NoLeaseLost' /\ (holds[Torn] = 0)' /\ OnceInv'
<1> USE OwnerOnly
<1> DEFINE v == Get(buffer, d)
<1>1. d \in Nat /\ buffer \in 1..Len(mask)
  BY DEF IInv, TypeOK, Window
<1>2. v \in Values \ {Torn} /\ Torn \in Values /\ NoLease \in Values /\ Leases \subseteq Values
  BY <1>1, GetType DEF IInv, Values
<1>3. \A k, i : Get(k, i)' = Get(k, i)
  BY DEF Get, Slot
<1>4. /\ holds' \in [Values -> Nat]
      /\ \A w \in Values : holds'[w] = IF w = v THEN holds[v] + 1 ELSE holds[w]
  BY <1>2, HoldsStep DEF IInv
<1>5. holds \in [Values -> Nat]
  BY DEF IInv, TypeOK
<1> HIDE DEF v
<1>6. NoLeaseLost'
  <2> SUFFICES ASSUME NEW l \in Leases, holds'[l] = 0
               PROVE  \/ InFlight(Owner, l)'
                      \/ \E i \in Window' : Get(buffer, i)' = l
    BY DEF NoLeaseLost
  <2>1. l # v /\ holds[l] = 0
    BY <1>2, <1>4, <1>5
  <2>2. \/ InFlight(Owner, l)
        \/ \E i \in Window : Get(buffer, i) = l
    BY <2>1 DEF IInv, NoLeaseLost
  <2>3. CASE InFlight(Owner, l)
    BY <2>3 DEF InFlight, SameInFlight
  <2>4. CASE \E i \in Window : Get(buffer, i) = l
    <3>1. PICK i \in Window : Get(buffer, i) = l
      BY <2>4
    <3>2. i # d
      BY <3>1, <2>1 DEF v
    <3> QED BY <3>1, <3>2, <1>3
  <2> QED BY <2>2, <2>3, <2>4
<1>7. (holds[Torn] = 0)'
  BY <1>2, <1>4 DEF IInv
<1>8. OnceInv'
  <2> SUFFICES ASSUME ~raced PROVE OnceInv'
    BY DEF OnceInv
  <2>1. v \in Leases /\ holds[v] = 0
    BY DEF IInv, OnceInv, v
  <2>2. Exclusive'
    BY <1>2, <1>4, <1>5, <2>1, ConstantsAssumption DEF IInv, OnceInv, Exclusive, LeaseExclusive
  <2>3. ASSUME NEW i \in Window' PROVE Get(buffer, i)' \in Leases /\ holds'[Get(buffer, i)'] = 0
    <3>1. i \in Window /\ i # d
      OBVIOUS
    <3>2. Get(buffer, i) # v /\ Get(buffer, i) \in Leases /\ holds[Get(buffer, i)] = 0
      BY <3>1 DEF IInv, OnceInv, v
    <3> QED BY <3>2, <1>2, <1>3, <1>4
  <2>4. \A i, j \in Window' : Get(buffer, i)' = Get(buffer, j)' => i = j
    BY <1>3 DEF IInv, OnceInv
  <2>5. ASSUME pc'[Owner] \in {"push", "publish"}
        PROVE  /\ holds'[reg'[Owner].lease] = 0
               /\ \A i \in Window' : Get(buffer, i)' # reg'[Owner].lease
    <3>1. pc[Owner] \in {"push", "publish"} /\ reg'[Owner] = reg[Owner]
      BY <2>5 DEF SameInFlight
    <3>2. /\ holds[reg[Owner].lease] = 0
          /\ reg[Owner].lease \in Leases
          /\ \A i \in Window : Get(buffer, i) # reg[Owner].lease
      BY <3>1 DEF IInv, OwnerInv, OnceInv
    <3> QED BY <3>1, <3>2, <1>2, <1>3, <1>4 DEF v
  <2> QED BY <2>2, <2>3, <2>4, <2>5 DEF OnceInv
<1> QED BY <1>4, <1>6, <1>7, <1>8

\* steal: the CAS that takes the lease at top.
LEMMA StepStealCasWon ==
  ASSUME SinglePusher, IInv, NEW h \in Thieves, StealCasWon(h)
  PROVE  IInv'
<1> USE OwnerOnly DEF IInv
<1>1. /\ pc[h] = "stealCas" /\ reg[h].t = top /\ top' = top + 1
      /\ Return(h) /\ UNCHANGED <<bottom, buffer, mask, storage, raced>>
  BY DEF StealCasWon
<1>2. top < Edge /\ reg[h].lease = Get(buffer, top)
  BY <1>1 DEF ThiefInv, ThiefOK
<1>3. top \in Nat /\ bottom \in Int /\ Edge \in Int /\ raced \in BOOLEAN
  BY DEF TypeOK, Edge
<1>4. pc'[Owner] = pc[Owner] /\ reg'[Owner] = reg[Owner] /\ Edge' = Edge
  BY <1>1 DEF TypeOK, Return, Edge
<1>5. top \in Window /\ Window' = Window \ {top}
  BY <1>1, <1>2, <1>3, <1>4 DEF Window
<1>6. /\ holds' \in [Values -> Nat]
      /\ NoLeaseLost' /\ (holds[Torn] = 0)' /\ OnceInv'
  BY <1>1, <1>2, <1>4, <1>5, TakeOne DEF StealCasWon, SameInFlight
<1>7. TypeOK'
  BY <1>1, <1>3, <1>6, ReturnTyped
<1>8. OwnerInv'
  <2>1. \A k, i : Get(k, i)' = Get(k, i)
    BY <1>1 DEF Get, Slot
  <2>2. OwnerInv
    OBVIOUS
  <2>3. mask[buffer] \in Nat /\ reg[Owner].t \in Nat /\ reg[Owner].b \in Int
    BY OwnerTypes
  <2>4. CASE pc[Owner] \in {"idle", "push", "publish"}
    BY <1>1, <1>2, <1>3, <1>4, <2>1, <2>2, <2>3, <2>4 DEF OwnerInv, Edge
  <2>5. CASE pc[Owner] \in {"pop", "popCas", "restore"}
    BY <1>1, <1>2, <1>3, <1>4, <2>1, <2>2, <2>3, <2>5 DEF OwnerInv, Edge
  <2> QED BY <2>2, <2>4, <2>5 DEF OwnerInv
<1>9. RoomInv'
  <2>1. mask[buffer] \in Nat
    BY OwnerTypes
  <2> QED BY <1>1, <1>3, <1>4, <2>1 DEF RoomInv
<1>10. ThiefOK(h)'
  BY <1>1 DEF TypeOK, Return, ThiefOK
<1>11. ThiefInv'
  BY <1>1, <1>10, OtherThieves DEF Return
<1> QED BY <1>1, <1>6, <1>7, <1>8, <1>9, <1>11

-----------------------------------------------------------------------------
(* pop *)

\* pop: the store of the decremented bottom takes nothing out yet.
LEMMA StepPopBegin ==
  ASSUME SinglePusher, IInv, PopBegin
  PROVE  IInv'
<1> USE OwnerOnly DEF IInv
<1>1. /\ pc[Owner] = "idle" /\ bottom' = bottom - 1
      /\ pc' = [pc EXCEPT ![Owner] = "pop"]
      /\ reg' = [reg EXCEPT ![Owner] = Locals(bottom - 1, reg[Owner].t, buffer, reg[Owner].lease)]
      /\ UNCHANGED <<top, buffer, mask, storage, holds, raced>>
  BY DEF PopBegin
<1>2. /\ top \in Nat /\ bottom \in Int /\ top <= bottom
      /\ buffer \in 1..Len(mask) /\ mask[buffer] \in Nat
      /\ holds \in [Values -> Nat] /\ raced \in BOOLEAN /\ "pop" \in States
  BY <1>1 DEF TypeOK, OwnerInv, States
<1>3. TypeOK'
  <2>1. bottom - 1 \in Int /\ bottom' \in Int
    BY <1>1, <1>2
  <2> QED BY <1>1, <1>2, <2>1, RegType, TypeStep
<1>4. /\ pc'[Owner] = "pop"
      /\ reg'[Owner] = Locals(bottom - 1, reg[Owner].t, buffer, reg[Owner].lease)
  BY <1>1 DEF TypeOK
<1>5. Edge' = Edge /\ Window' = Window
  BY <1>1, <1>2, <1>4 DEF Edge, Window
<1>6. \A k, i : Get(k, i)' = Get(k, i)
  BY <1>1 DEF Get, Slot
<1>7. OwnerInv'
  BY <1>1, <1>2, <1>4 DEF OwnerInv, Locals
<1>8. RoomInv'
  BY <1>1, <1>5 DEF RoomInv
<1>9. ThiefInv'
  BY <1>1, <1>5, OwnerFrame
<1>10. NoLeaseLost'
  BY <1>1, <1>4, <1>5, <1>6 DEF NoLeaseLost, InFlight
<1>11. OnceInv'
  BY <1>1, <1>4, <1>5, <1>6 DEF OnceInv, Exclusive, LeaseExclusive
<1> QED BY <1>1, <1>3, <1>7, <1>8, <1>9, <1>10, <1>11

\* The three steps of pop that decide without taking a lease out of the deque.
LEMMA StepPopDecide ==
  ASSUME SinglePusher, IInv, PopEmpty \/ PopLast \/ PopCasLost
  PROVE  IInv'
<1> USE OwnerOnly DEF IInv
<1> DEFINE r == reg[Owner]
<1>1. /\ top \in Nat /\ bottom \in Int
      /\ buffer \in 1..Len(mask) /\ mask[buffer] \in Nat
      /\ holds \in [Values -> Nat] /\ raced \in BOOLEAN
      /\ r.b \in Int /\ r.t \in Nat /\ r.buf \in 1..Len(mask) /\ r.lease \in Values
      /\ NoLease \in Values /\ "restore" \in States /\ "popCas" \in States
  BY OwnerTypes DEF States, Values
<1>2. UNCHANGED <<top, bottom, buffer, mask, storage, holds>>
  BY DEF PopEmpty, PopLast, PopCasLost
<1>3. \A k, i : Get(k, i)' = Get(k, i)
  BY <1>2 DEF Get, Slot
<1>4. pc[Owner] \in {"pop", "popCas"} /\ pc'[Owner] \in {"popCas", "restore"}
  BY DEF PopEmpty, PopLast, PopCasLost, TypeOK
<1>5. Edge' = Edge /\ Window' = Window
  BY <1>2, <1>4 DEF Edge, Window
<1>6. TypeOK'
  <2>1. CASE PopEmpty
    <3>1. top \in Int
      BY <1>1
    <3> QED BY <2>1, <3>1, <1>1, TypeStep DEF PopEmpty
  <2>2. CASE PopLast
    <3>1. Get(r.buf, r.b) \in Values
      BY <2>2, <1>1, GetType DEF PopLast
    <3> QED BY <2>2, <3>1, <1>1, TypeStep DEF PopLast
  <2>3. CASE PopCasLost
    <3>1. top + 1 \in Int /\ TRUE \in BOOLEAN
      BY <1>1
    <3> QED BY <2>3, <3>1, <1>1, TypeStep DEF PopCasLost
  <2> QED BY <2>1, <2>2, <2>3
<1>7. OwnerInv'
  <2>1. CASE PopEmpty
    <3>1. reg'[Owner] = Locals(top, r.t, r.buf, r.lease) /\ pc'[Owner] = "restore"
      BY <2>1 DEF PopEmpty, TypeOK
    <3>2. top = bottom + 1
      BY <2>1, <1>1 DEF PopEmpty, OwnerInv
    <3> QED BY <3>1, <3>2, <1>1, <1>2, <1>3 DEF OwnerInv, Locals
  <2>2. CASE PopLast
    <3>1. reg'[Owner] = Locals(r.b, top, r.buf, Get(r.buf, r.b)) /\ pc'[Owner] = "popCas"
      BY <2>2 DEF PopLast, TypeOK
    <3>2. top = bottom /\ r.b = bottom /\ r.buf = buffer
      BY <2>2, <1>1 DEF PopLast, OwnerInv
    <3> QED BY <3>1, <3>2, <1>1, <1>2, <1>3 DEF OwnerInv, Locals
  <2>3. CASE PopCasLost
    <3>1. /\ reg'[Owner] = Locals(top + 1, top, r.buf, NoLease)
          /\ pc'[Owner] = "restore" /\ raced' = TRUE
      BY <2>3 DEF PopCasLost, TypeOK
    <3>2. top = bottom + 1
      BY <2>3, <1>1 DEF PopCasLost, OwnerInv
    <3> QED BY <3>1, <3>2, <1>1, <1>2, <1>3 DEF OwnerInv, Locals
  <2> QED BY <2>1, <2>2, <2>3
<1>8. RoomInv'
  BY <1>2, <1>5 DEF RoomInv
<1>9. ThiefInv'
  BY <1>2, <1>5, OwnerFrame DEF PopEmpty, PopLast, PopCasLost
<1>10. NoLeaseLost'
  BY <1>2, <1>3, <1>4, <1>5 DEF NoLeaseLost, InFlight
<1>11. raced' = raced \/ raced'
  BY DEF PopEmpty, PopLast, PopCasLost
<1>12. OnceInv'
  BY <1>2, <1>3, <1>4, <1>5, <1>11 DEF OnceInv, Exclusive, LeaseExclusive
<1> QED BY <1>2, <1>6, <1>7, <1>8, <1>9, <1>10, <1>12

\* pop: one of several leases, taken without a CAS.
LEMMA StepPopFast ==
  ASSUME SinglePusher, IInv, PopFast
  PROVE  IInv'
<1> USE OwnerOnly DEF IInv
<1>1. /\ top \in Nat /\ bottom \in Int
      /\ buffer \in 1..Len(mask) /\ mask[buffer] \in Nat /\ raced \in BOOLEAN
  BY OwnerTypes
<1>2. /\ pc[Owner] = "pop" /\ reg[Owner].b = bottom /\ reg[Owner].buf = buffer
      /\ top < bottom /\ Return(Owner)
      /\ UNCHANGED <<top, bottom, buffer, mask, storage, raced>>
      /\ holds' = [holds EXCEPT ![Get(buffer, bottom)] = @ + 1]
  BY <1>1 DEF PopFast, OwnerInv
<1>3. pc'[Owner] = "idle"
  BY <1>2 DEF Return, TypeOK
<1>4. Edge = bottom + 1 /\ Edge' = bottom
  BY <1>2, <1>3 DEF Edge
<1>5. bottom \in Window /\ Window' = Window \ {bottom}
  BY <1>1, <1>2, <1>4 DEF Window
<1>6. /\ holds' \in [Values -> Nat]
      /\ NoLeaseLost' /\ (holds[Torn] = 0)' /\ OnceInv'
  BY <1>2, <1>3, <1>5, TakeOne DEF SameInFlight
<1>7. TypeOK'
  BY <1>1, <1>2, <1>6, ReturnTyped
<1>8. OwnerInv'
  BY <1>1, <1>2, <1>3 DEF OwnerInv
<1>9. RoomInv'
  BY <1>1, <1>2, <1>4 DEF RoomInv
<1>10. ThiefInv'
  BY <1>2, <1>4, OwnerFrame DEF Return
<1> QED BY <1>2, <1>6, <1>7, <1>8, <1>9, <1>10

\* pop: the last lease, taken with a CAS.
LEMMA StepPopCasWon ==
  ASSUME SinglePusher, IInv, PopCasWon
  PROVE  IInv'
<1> USE OwnerOnly DEF IInv
<1> DEFINE r == reg[Owner]
<1>1. /\ top \in Nat /\ bottom \in Int
      /\ buffer \in 1..Len(mask) /\ mask[buffer] \in Nat /\ raced \in BOOLEAN
      /\ r.t \in Nat /\ r.buf \in 1..Len(mask) /\ r.lease \in Values
      /\ "restore" \in States
  BY OwnerTypes DEF States
<1>2. /\ pc[Owner] = "popCas" /\ top = bottom /\ r.t = bottom /\ r.lease = Get(buffer, bottom)
      /\ top' = top + 1
      /\ pc' = [pc EXCEPT ![Owner] = "restore"]
      /\ reg' = [reg EXCEPT ![Owner] = Locals(r.t + 1, r.t, r.buf, r.lease)]
      /\ UNCHANGED <<bottom, buffer, mask, storage, raced>>
      /\ holds' = [holds EXCEPT ![Get(buffer, bottom)] = @ + 1]
  BY DEF PopCasWon, OwnerInv
<1>3. pc'[Owner] = "restore" /\ reg'[Owner] = Locals(r.t + 1, r.t, r.buf, r.lease)
  BY <1>2 DEF TypeOK
<1>4. Edge = bottom + 1 /\ Edge' = bottom + 1
  BY <1>2, <1>3 DEF Edge
<1>5. bottom \in Window /\ Window' = Window \ {bottom}
  BY <1>1, <1>2, <1>4 DEF Window
<1>6. /\ holds' \in [Values -> Nat]
      /\ NoLeaseLost' /\ (holds[Torn] = 0)' /\ OnceInv'
  BY <1>2, <1>3, <1>5, TakeOne DEF SameInFlight
<1>7. TypeOK'
  <2>1. r.t + 1 \in Int /\ top' \in Nat
    BY <1>1, <1>2
  <2> QED BY <1>1, <1>2, <1>6, <2>1, TypeStep
<1>8. OwnerInv'
  BY <1>1, <1>2, <1>3 DEF OwnerInv, Locals
<1>9. RoomInv'
  <2>1. Edge' - top' = 0
    BY <1>1, <1>2, <1>4
  <2> QED BY <2>1, <1>1, <1>2 DEF RoomInv
<1>10. ThiefInv'
  <2> SUFFICES ASSUME NEW h \in Thieves PROVE ThiefOK(h)'
    BY DEF ThiefInv
  <2>1. pc'[h] = pc[h] /\ reg'[h] = reg[h]
    BY <1>2 DEF TypeOK
  <2>2. ThiefOK(h) /\ reg[h].t \in Nat
    BY RegType DEF ThiefInv
  <2> QED BY <1>1, <1>2, <2>1, <2>2 DEF ThiefOK
<1> QED BY <1>2, <1>6, <1>7, <1>8, <1>9, <1>10

\* pop: the last store of bottom; after a lost race it is one too high.
LEMMA StepPopRestore ==
  ASSUME SinglePusher, IInv, PopRestore
  PROVE  IInv'
<1> USE OwnerOnly DEF IInv
<1> DEFINE r == reg[Owner]
<1>1. /\ top \in Nat /\ bottom \in Int
      /\ buffer \in 1..Len(mask) /\ mask[buffer] \in Nat /\ raced \in BOOLEAN
      /\ holds \in [Values -> Nat]
  BY OwnerTypes
<1>2. /\ pc[Owner] = "restore" /\ top = bottom + 1 /\ r.b \in {top, top + 1}
      /\ r.b = top \/ raced
      /\ bottom' = r.b /\ Return(Owner)
      /\ UNCHANGED <<top, buffer, mask, storage, holds, raced>>
  BY DEF PopRestore, OwnerInv
<1>3. pc'[Owner] = "idle"
  BY <1>2 DEF Return, TypeOK
<1>4. Edge = top /\ Edge' = r.b
  BY <1>2, <1>3 DEF Edge
<1>5. Window = {} /\ (r.b = top => Window' = {})
  BY <1>1, <1>2, <1>4 DEF Window
<1>6. TypeOK'
  <2>1. bottom' \in Int
    BY <1>1, <1>2
  <2> QED BY <1>1, <1>2, <2>1, ReturnTyped
<1>7. OwnerInv'
  BY <1>1, <1>2, <1>3 DEF OwnerInv
<1>8. RoomInv'
  BY <1>1, <1>2, <1>4 DEF RoomInv
<1>9. ThiefInv'
  <2>1. ~(top < Edge)
    BY <1>1, <1>4
  <2> QED BY <2>1, <1>2, OwnerFrame DEF Return
<1>10. NoLeaseLost'
  <2> SUFFICES ASSUME NEW l \in Leases, holds[l] = 0 PROVE FALSE
    BY <1>2 DEF NoLeaseLost
  <2> QED BY <1>2, <1>5 DEF NoLeaseLost, InFlight
<1>11. OnceInv'
  BY <1>2, <1>3, <1>5 DEF OnceInv, Exclusive, LeaseExclusive
<1> QED BY <1>2, <1>6, <1>7, <1>8, <1>9, <1>10, <1>11

-----------------------------------------------------------------------------
(* push *)

\* push: the lease leaves its holder and is in flight.
LEMMA StepPushLoad ==
  ASSUME SinglePusher, IInv, NEW l \in Leases, PushLoad(Owner, l)
  PROVE  IInv'
<1> USE OwnerOnly DEF IInv
<1>1. /\ top \in Nat /\ bottom \in Int /\ top <= bottom
      /\ buffer \in 1..Len(mask) /\ mask[buffer] \in Nat /\ raced \in BOOLEAN
      /\ holds \in [Values -> Nat] /\ Leases \subseteq Values /\ "push" \in States
  BY DEF PushLoad, OwnerInv, TypeOK, Values, States
<1>2. /\ pc[Owner] = "idle" /\ holds[l] > 0
      /\ pc' = [pc EXCEPT ![Owner] = "push"]
      /\ reg' = [reg EXCEPT ![Owner] = Locals(bottom, top, buffer, l)]
      /\ holds' = [holds EXCEPT ![l] = @ - 1]
      /\ UNCHANGED <<top, bottom, buffer, mask, storage, raced>>
  BY DEF PushLoad
<1>3. pc'[Owner] = "push" /\ reg'[Owner] = Locals(bottom, top, buffer, l)
  BY <1>2 DEF TypeOK
<1>4. Edge' = Edge /\ Window' = Window
  BY <1>2, <1>3 DEF Edge, Window
<1>5. \A k, i : Get(k, i)' = Get(k, i)
  BY <1>2 DEF Get, Slot
<1>6. /\ holds' \in [Values -> Nat]
      /\ \A w \in Values : holds'[w] = IF w = l THEN holds[l] - 1 ELSE holds[w]
  BY <1>1, <1>2
<1>7. TypeOK'
  BY <1>1, <1>2, <1>6, TypeStep
<1>8. OwnerInv'
  <2>1. bottom - top <= mask[buffer] + 1
    BY <1>2 DEF RoomInv, Edge
  <2> QED BY <1>1, <1>2, <1>3, <2>1 DEF OwnerInv, Locals
<1>9. RoomInv'
  BY <1>2, <1>4 DEF RoomInv
<1>10. ThiefInv'
  BY <1>2, <1>4, OwnerFrame
<1>11. NoLeaseLost'
  <2> SUFFICES ASSUME NEW m \in Leases, holds'[m] = 0, m # l
               PROVE  \E i \in Window : Get(buffer, i) = m
    BY <1>2, <1>3, <1>4, <1>5 DEF NoLeaseLost, InFlight, Locals
  <2> QED BY <1>1, <1>2, <1>6 DEF NoLeaseLost, InFlight
<1>12. (holds[Torn] = 0)'
  BY <1>1, <1>6, ConstantsAssumption DEF Values
<1>13. OnceInv'
  <2> SUFFICES ASSUME ~raced PROVE OnceInv'
    BY <1>2 DEF OnceInv
  <2>1. holds[l] = 1
    BY <1>1, <1>2 DEF OnceInv, Exclusive, LeaseExclusive
  <2>2. Exclusive'
    BY <1>1, <1>6, ConstantsAssumption DEF OnceInv, Exclusive, LeaseExclusive, Values
  <2>3. \A i \in Window : /\ Get(buffer, i) \in Leases /\ Get(buffer, i) # l
                          /\ holds[Get(buffer, i)] = 0
    BY <2>1 DEF OnceInv
  <2> QED BY <1>1, <1>2, <1>3, <1>4, <1>5, <1>6, <2>1, <2>2, <2>3 DEF OnceInv, Locals
<1> QED BY <1>2, <1>7, <1>8, <1>9, <1>10, <1>11, <1>12, <1>13

\* push: the store of bottom puts the lease in flight into the deque.
LEMMA StepPushPublish ==
  ASSUME SinglePusher, IInv, PushPublish(Owner)
  PROVE  IInv'
<1> USE OwnerOnly DEF IInv
<1> DEFINE l == reg[Owner].lease
<1>1. /\ top \in Nat /\ bottom \in Int
      /\ buffer \in 1..Len(mask) /\ mask[buffer] \in Nat /\ raced \in BOOLEAN
      /\ holds \in [Values -> Nat]
  BY OwnerTypes
<1>2. /\ pc[Owner] = "publish" /\ reg[Owner].b = bottom /\ top <= bottom
      /\ bottom - top <= mask[buffer] /\ l \in Leases /\ Get(buffer, bottom) = l
      /\ bottom' = bottom + 1 /\ Return(Owner)
      /\ UNCHANGED <<top, buffer, mask, storage, holds, raced>>
  BY DEF PushPublish, OwnerInv
<1>3. pc'[Owner] = "idle"
  BY <1>2 DEF Return, TypeOK
<1>4. Edge = bottom /\ Edge' = bottom + 1
  BY <1>2, <1>3 DEF Edge
<1>5. Window' = Window \union {bottom} /\ bottom \notin Window
  BY <1>1, <1>2, <1>4 DEF Window
<1>6. \A k, i : Get(k, i)' = Get(k, i)
  BY <1>2 DEF Get, Slot
<1>7. TypeOK'
  <2>1. bottom' \in Int
    BY <1>1, <1>2
  <2> QED BY <1>1, <1>2, <2>1, ReturnTyped
<1>8. OwnerInv'
  BY <1>1, <1>2, <1>3 DEF OwnerInv
<1>9. RoomInv'
  <2>1. Edge' - top' <= mask[buffer] + 1
    BY <1>1, <1>2, <1>4
  <2> QED BY <2>1, <1>2 DEF RoomInv
<1>10. ThiefInv'
  <2>1. top < Edge => top < Edge'
    BY <1>1, <1>4
  <2> QED BY <2>1, <1>2, OwnerFrame DEF Return
<1>11. NoLeaseLost'
  <2> SUFFICES ASSUME NEW m \in Leases, holds[m] = 0
               PROVE  \E i \in Window' : Get(buffer, i) = m
    BY <1>2, <1>6 DEF NoLeaseLost
  <2>1. m = l \/ \E i \in Window : Get(buffer, i) = m
    BY DEF NoLeaseLost, InFlight
  <2> QED BY <2>1, <1>2, <1>5
<1>12. OnceInv'
  <2> SUFFICES ASSUME ~raced PROVE OnceInv'
    BY <1>2 DEF OnceInv
  <2>1. holds[l] = 0 /\ \A i \in Window : Get(buffer, i) # l
    BY <1>2 DEF OnceInv
  <2> QED BY <1>2, <1>3, <1>5, <1>6, <2>1 DEF OnceInv, Exclusive, LeaseExclusive
<1> QED BY <1>2, <1>7, <1>8, <1>9, <1>10, <1>11, <1>12

\* The leases in the deque stay at their indices.
WindowKept == \A i \in Window : Get(buffer, i)' = Get(buffer, i)

\* push: the written slot is that of no lease in the deque.
LEMMA StepPushWrite ==
  ASSUME SinglePusher, IInv, PushWrite(Owner)
  PROVE  IInv' /\ WindowKept
<1> USE OwnerOnly DEF IInv
<1> DEFINE l == reg[Owner].lease
<1>1. /\ top \in Nat /\ bottom \in Int
      /\ buffer \in 1..Len(mask) /\ mask[buffer] \in Nat /\ raced \in BOOLEAN
      /\ holds \in [Values -> Nat] /\ reg[Owner].t \in Nat
      /\ Len(storage) = Len(mask) /\ buffer \in DOMAIN storage
      /\ storage[buffer] \in [0..mask[buffer] -> Values \ {Torn}]
      /\ l \in Values
  BY OwnerTypes
<1>2. /\ pc[Owner] = "push" /\ reg[Owner].b = bottom /\ reg[Owner].buf = buffer
      /\ reg[Owner].t <= top /\ top <= bottom /\ l \in Leases
      /\ bottom - reg[Owner].t <= mask[buffer]
      /\ storage' = [storage EXCEPT ![buffer][Slot(buffer, bottom)] = l]
      /\ pc' = [pc EXCEPT ![Owner] = "publish"]
      /\ UNCHANGED <<top, bottom, buffer, mask, reg, holds, raced>>
  <2>1. pc[Owner] = "push" /\ ~Full(Owner)
    BY DEF PushWrite
  <2>2. /\ reg[Owner].b = bottom /\ reg[Owner].buf = buffer
        /\ reg[Owner].t <= top /\ top <= bottom /\ l \in Leases
    BY <2>1 DEF OwnerInv
  <2>3. bottom - reg[Owner].t <= mask[buffer]
    BY <2>1, <2>2, <1>1 DEF Full
  <2> QED BY <2>1, <2>2, <2>3 DEF PushWrite
<1>3. pc'[Owner] = "publish" /\ bottom \in Nat /\ bottom - top <= mask[buffer]
  BY <1>1, <1>2 DEF TypeOK
<1>4. Edge = bottom /\ Edge' = Edge /\ Window' = Window
  BY <1>2, <1>3 DEF Edge, Window
<1>5. \A k, i : Slot(k, i)' = Slot(k, i)
  BY <1>2 DEF Slot
<1>6. Slot(buffer, bottom) \in 0..mask[buffer]
  BY <1>1, <1>3, GetType
<1>7. \A i \in Window : Get(buffer, i)' = Get(buffer, i)
  <2> SUFFICES ASSUME NEW i \in Window PROVE Get(buffer, i)' = Get(buffer, i)
    OBVIOUS
  <2>1. i \in Nat /\ i < bottom /\ bottom - i < mask[buffer] + 1 /\ mask[buffer] + 1 \in Nat \ {0}
    BY <1>1, <1>3, <1>4 DEF Window
  <2>2. Slot(buffer, i) # Slot(buffer, bottom)
    BY <2>1, <1>3, ModDistinct DEF Slot
  <2>3. Slot(buffer, i) \in 0..mask[buffer]
    BY <2>1, <1>1, GetType
  <2> QED BY <1>1, <1>2, <1>5, <1>6, <2>2, <2>3 DEF Get
<1>8. Get(buffer, bottom)' = l
  BY <1>1, <1>2, <1>5, <1>6 DEF Get
<1>9. \A k \in 1..Len(mask), i \in Nat : k # buffer => Get(k, i)' = Get(k, i)
  BY <1>1, <1>2, <1>5 DEF Get
<1>10. TypeOK' /\ (storage \in Seq(Buffers))'
  <2> DEFINE row == [storage[buffer] EXCEPT ![Slot(buffer, bottom)] = l]
  <2>1. l \in Values \ {Torn}
    BY <1>1, <1>2, ConstantsAssumption
  <2>2. row \in [0..mask[buffer] -> Values \ {Torn}]
    BY <1>1, <1>6, <2>1
  <2>3. row \in Buffers
    BY <1>1, <2>2 DEF Buffers
  <2>4. storage' = [storage EXCEPT ![buffer] = row]
    BY <1>2
  <2> HIDE DEF row
  <2>5. storage' \in Seq(Buffers) /\ Len(storage') = Len(storage)
    BY <1>1, <2>3, <2>4
  <2>6. \A k \in 1..Len(mask) : storage'[k] = IF k = buffer THEN row ELSE storage[k]
    BY <1>1, <2>4
  <2>7. \A k \in 1..Len(mask) : storage'[k] \in [0..mask[k] -> Values \ {Torn}]
    BY <2>2, <2>6 DEF TypeOK
  <2>8. pc' \in [Threads -> States]
    BY <1>2 DEF TypeOK, States
  <2> QED BY <1>2, <2>5, <2>7, <2>8 DEF TypeOK
<1>11. OwnerInv'
  BY <1>1, <1>2, <1>3, <1>8 DEF OwnerInv
<1>12. RoomInv'
  BY <1>2, <1>4 DEF RoomInv
<1>13. ThiefInv'
  <2> SUFFICES ASSUME NEW h \in Thieves PROVE ThiefOK(h)'
    BY DEF ThiefInv
  <2>1. pc'[h] = pc[h] /\ reg'[h] = reg[h]
    BY <1>2 DEF TypeOK
  <2>2. ThiefOK(h) /\ reg[h].buf \in 1..Len(mask)
    BY RegType DEF ThiefInv
  <2>3. top < Edge => top \in Window
    BY <1>1, <1>4, TopInWindow
  <2> QED BY <1>1, <1>2, <1>4, <1>7, <1>9, <2>1, <2>2, <2>3 DEF ThiefOK
<1>14. NoLeaseLost'
  BY <1>2, <1>3, <1>4, <1>7 DEF NoLeaseLost, InFlight
<1>15. OnceInv'
  BY <1>2, <1>3, <1>4, <1>7 DEF OnceInv, Exclusive, LeaseExclusive
<1> QED BY <1>2, <1>7, <1>10, <1>11, <1>12, <1>13, <1>14, <1>15 DEF WindowKept

\* The leases of the indices t .. b - 1 are at the same indices in the new buffer.
LEMMA GrownKeeps ==
  ASSUME TypeOK, NEW k \in 1..Len(mask), NEW t \in Nat, NEW b \in Nat,
         b - t <= mask[k] + 1, NEW i \in t..(b - 1)
  PROVE  Grown(k, t, b)[i % (2 * (mask[k] + 1))] = Get(k, i)
<1> DEFINE cap == 2 * (mask[k] + 1)
           hit(n) == n \in t..(b - 1) /\ n % cap = i % cap
           c == CHOOSE n \in t..(b - 1) : n % cap = i % cap
<1>0. mask[k] \in Nat
  BY DEF TypeOK
<1>1. cap \in Nat \ {0} /\ b - t <= cap /\ i \in Nat
  BY <1>0
<1>2. i % cap \in 0..(cap - 1)
  BY <1>1, ModRange
<1>3. ASSUME NEW n \in t..(b - 1), n % cap = i % cap PROVE n = i
  <2>1. n \in Nat /\ n - i < cap /\ i - n < cap
    BY <1>1
  <2>2. ~(n < i) /\ ~(i < n)
    BY <1>1, <1>3, <2>1, ModDistinct
  <2> QED BY <1>1, <2>1, <2>2
<1>4. c = i
  BY <1>3
<1> QED BY <1>2, <1>4 DEF Grown

\* grow returns an array of twice the slots.
LEMMA GrownType ==
  ASSUME TypeOK, NEW k \in 1..Len(mask), NEW t \in Nat, NEW b \in Nat
  PROVE  Grown(k, t, b) \in [0..(2 * mask[k] + 1) -> Values \ {Torn}]
<1> DEFINE cap == 2 * (mask[k] + 1)
<1>1. mask[k] \in Nat /\ cap - 1 = 2 * mask[k] + 1 /\ NoLease \in Values \ {Torn}
  BY ConstantsAssumption DEF TypeOK, Values
<1>2. ASSUME NEW j \in 0..(cap - 1), \E i \in t..(b - 1) : i % cap = j
      PROVE  Get(k, CHOOSE i \in t..(b - 1) : i % cap = j) \in Values \ {Torn}
  <2> DEFINE n == CHOOSE i \in t..(b - 1) : i % cap = j
  <2>1. n \in t..(b - 1)
    BY <1>2
  <2> HIDE DEF n
  <2>2. n \in Nat
    BY <2>1
  <2>3. Get(k, n) \in Values \ {Torn}
    BY <2>2, GetType
  <2> QED BY <2>3 DEF n
<1>3. Grown(k, t, b) \in [0..(cap - 1) -> Values \ {Torn}]
  BY <1>1, <1>2 DEF Grown
<1> QED BY <1>1, <1>3

\* What appending to a sequence does.
LEMMA AppendedAt ==
  ASSUME NEW S, NEW s \in Seq(S), NEW e \in S, NEW k \in Nat, k = Len(s) + 1
  PROVE  /\ Append(s, e) \in Seq(S) /\ Len(Append(s, e)) = k
         /\ Append(s, e)[k] = e
         /\ \A n \in 1..Len(s) : Append(s, e)[n] = s[n]
OBVIOUS

\* push: growing moves no lease to another index and leaves old buffers readable.
LEMMA StepPushGrow ==
  ASSUME SinglePusher, IInv, PushGrow(Owner)
  PROVE  IInv' /\ WindowKept
<1> USE OwnerOnly DEF IInv
<1> DEFINE r == reg[Owner]
           row == Grown(buffer, r.t, bottom)
<1>0. PICK k \in Nat : k = Len(mask) + 1
  BY DEF TypeOK
<1>1. /\ top \in Nat /\ bottom \in Int
      /\ buffer \in 1..Len(mask) /\ mask[buffer] \in Nat /\ raced \in BOOLEAN
      /\ holds \in [Values -> Nat] /\ r.t \in Nat /\ mask \in Seq(Nat)
      /\ storage \in Seq(Buffers) /\ Len(storage) = Len(mask)
      /\ r.lease \in Values
  BY OwnerTypes
<1>2. /\ pc[Owner] = "push" /\ r.b = bottom /\ r.buf = buffer
      /\ r.t <= top /\ top <= bottom /\ r.lease \in Leases
      /\ bottom - r.t <= mask[buffer] + 1
      /\ storage' = Append(storage, row)
      /\ mask' = Append(mask, 2 * mask[buffer] + 1)
      /\ buffer' = k
      /\ reg' = [reg EXCEPT ![Owner] = Locals(bottom, r.t, k, r.lease)]
      /\ UNCHANGED <<top, bottom, pc, holds, raced>>
  <2>1. pc[Owner] = "push"
    BY DEF PushGrow
  <2>2. /\ r.b = bottom /\ r.buf = buffer
        /\ r.t <= top /\ top <= bottom /\ r.lease \in Leases
        /\ bottom - r.t <= mask[buffer] + 1
    BY <2>1 DEF OwnerInv
  <2> QED BY <1>0, <2>1, <2>2 DEF PushGrow
<1>3. bottom \in Nat /\ reg'[Owner] = Locals(bottom, r.t, k, r.lease)
  <2>1. bottom \in Nat
    BY <1>1, <1>2
  <2>2. Owner \in DOMAIN reg
    BY DEF TypeOK
  <2> QED BY <1>2, <2>1, <2>2
<1>size. /\ r.t \in Nat /\ bottom \in Nat /\ top \in Nat /\ mask[buffer] \in Nat
      /\ buffer \in 1..Len(mask)
      /\ r.t <= top /\ top <= bottom /\ bottom - r.t <= mask[buffer] + 1
  BY <1>1, <1>2, <1>3
<1>4. row \in [0..(2 * mask[buffer] + 1) -> Values \ {Torn}]
  BY <1>1, <1>3, GrownType
<1>5. row \in Buffers
  <2>1. 2 * mask[buffer] + 1 \in Nat
    BY <1>1
  <2> QED BY <1>4, <2>1 DEF Buffers
<1>6. \A i \in r.t..(bottom - 1) : row[i % (2 * (mask[buffer] + 1))] = Get(buffer, i)
  <2> SUFFICES ASSUME NEW i \in r.t..(bottom - 1)
               PROVE  Grown(buffer, r.t, bottom)[i % (2 * (mask[buffer] + 1))] = Get(buffer, i)
    OBVIOUS
  <2> QED BY <1>size, GrownKeeps
<1> HIDE DEF row
<1>7. /\ mask' \in Seq(Nat) /\ Len(mask') = k
      /\ mask'[k] = 2 * mask[buffer] + 1
      /\ \A n \in 1..Len(mask) : mask'[n] = mask[n]
  <2>1. 2 * mask[buffer] + 1 \in Nat
    BY <1>1
  <2> QED BY <1>0, <1>1, <1>2, <2>1, AppendedAt
<1>8. /\ storage' \in Seq(Buffers) /\ Len(storage') = k
      /\ storage'[k] = row
      /\ \A n \in 1..Len(mask) : storage'[n] = storage[n]
  <2>1. storage' = Append(storage, row) /\ storage \in Seq(Buffers) /\ k = Len(storage) + 1
    BY <1>0, <1>1, <1>2
  <2> QED BY <1>1, <1>5, <2>1, AppendedAt
<1>9. \A n \in 1..Len(mask), i \in Nat : Get(n, i)' = Get(n, i)
  BY <1>7, <1>8 DEF Get, Slot
<1>10. \A i \in r.t..(bottom - 1) : Get(k, i)' = Get(buffer, i)
  <2> SUFFICES ASSUME NEW i \in r.t..(bottom - 1) PROVE Get(k, i)' = Get(buffer, i)
    OBVIOUS
  <2>1. mask'[k] + 1 = 2 * (mask[buffer] + 1)
    BY <1>1, <1>7
  <2> QED BY <1>6, <1>8, <2>1 DEF Get, Slot
<1>11. Edge = bottom /\ Edge' = Edge /\ Window' = Window /\ Window \subseteq r.t..(bottom - 1)
  <2>1. Edge = bottom /\ Edge' = Edge /\ Window' = Window
    BY <1>2 DEF Edge, Window
  <2>2. Window = top..(bottom - 1)
    BY <2>1 DEF Window
  <2>3. Window \subseteq r.t..(bottom - 1)
    BY <1>size, <2>2
  <2> QED BY <2>1, <2>3
<1>12. \A i \in Window : Get(buffer, i)' = Get(buffer, i)
  BY <1>2, <1>10, <1>11
<1>13. TypeOK'
  <2>1. \A n \in 1..Len(mask') : storage'[n] \in [0..mask'[n] -> Values \ {Torn}]
    <3> SUFFICES ASSUME NEW n \in 1..k PROVE storage'[n] \in [0..mask'[n] -> Values \ {Torn}]
      BY <1>7
    <3>1. CASE n = k
      BY <3>1, <1>4, <1>7, <1>8
    <3>2. CASE n \in 1..Len(mask)
      BY <3>2, <1>7, <1>8 DEF TypeOK
    <3> QED BY <3>1, <3>2, <1>0, <1>1
  <2>2. reg' \in [Threads -> [b : Int, t : Nat, buf : 1..Len(mask'), lease : Values]]
    <3>1. ASSUME NEW x \in Threads
          PROVE  reg'[x] \in [b : Int, t : Nat, buf : 1..Len(mask'), lease : Values]
      <4>1. CASE x = Owner
        BY <4>1, <1>0, <1>1, <1>2, <1>3, <1>7 DEF Locals
      <4>2. CASE x # Owner
        <5>1. reg'[x] = reg[x]
          BY <4>2, <1>2 DEF TypeOK
        <5>2. 1..Len(mask) \subseteq 1..Len(mask')
          BY <1>0, <1>1, <1>7
        <5> QED BY <5>1, <5>2, RegType DEF LocalsType
      <4> QED BY <4>1, <4>2
    <3>2. reg' = [x \in Threads |-> reg'[x]]
      BY <1>2 DEF TypeOK
    <3> QED BY <3>1, <3>2
  <2>3. buffer' \in 1..Len(mask')
    BY <1>0, <1>1, <1>2, <1>7
  <2> QED BY <1>2, <1>7, <1>8, <2>1, <2>2, <2>3 DEF TypeOK
<1>14. OwnerInv'
  <2>1. bottom - r.t <= mask'[k] + 1
    BY <1>size, <1>7
  <2>2. /\ pc'[Owner] = "push" /\ top' = top /\ bottom' = bottom /\ buffer' = k
        /\ r.lease \in Leases
    BY <1>2
  <2> QED BY <1>size, <1>3, <2>1, <2>2 DEF OwnerInv, Locals
<1>15. RoomInv'
  <2>1. Edge - top <= mask[buffer] + 1 /\ Edge \in Int
    BY <1>1, <1>11 DEF RoomInv
  <2> QED BY <1>1, <1>2, <1>7, <1>11, <2>1 DEF RoomInv
<1>16. ThiefInv'
  <2> SUFFICES ASSUME NEW h \in Thieves PROVE ThiefOK(h)'
    BY DEF ThiefInv
  <2>1. pc'[h] = pc[h] /\ reg'[h] = reg[h]
    BY <1>2 DEF TypeOK
  <2>2. ThiefOK(h) /\ reg[h].buf \in 1..Len(mask)
    BY RegType DEF ThiefInv
  <2>3. top < Edge => top \in Window
    BY <1>1, <1>11, TopInWindow
  <2>4. PICK m \in 1..Len(mask), j \in Nat : m = reg[h].buf /\ j = top
    BY <1>1, <2>2
  <2>5. j < Edge => Get(buffer, j)' = Get(buffer, j)
    BY <1>12, <2>3, <2>4
  <2>6. Get(m, j)' = Get(m, j)
    BY <1>9
  <2> QED BY <1>2, <1>11, <2>1, <2>2, <2>4, <2>5, <2>6 DEF ThiefOK
<1>17. NoLeaseLost'
  BY <1>2, <1>3, <1>11, <1>12 DEF NoLeaseLost, InFlight, Locals
<1>18. OnceInv'
  BY <1>2, <1>3, <1>11, <1>12 DEF OnceInv, Exclusive, LeaseExclusive, Locals
<1> QED BY <1>2, <1>8, <1>12, <1>13, <1>14, <1>15, <1>16, <1>17, <1>18 DEF WindowKept

-----------------------------------------------------------------------------
(* The theorems *)

\* The empty deque satisfies the inductive invariant.
LEMMA InitIInv ==
  ASSUME SinglePusher, Init
  PROVE  IInv
<1> USE OwnerOnly, ConstantsAssumption
<1>1. /\ top = 0 /\ bottom = 0 /\ buffer = 1 /\ raced = FALSE
      /\ mask = <<InitialCapacity - 1>> /\ InitialCapacity - 1 \in Nat
      /\ storage = <<[j \in 0..(InitialCapacity - 1) |-> NoLease]>>
      /\ pc = [x \in Threads |-> "idle"]
      /\ reg = [x \in Threads |-> NoLocals]
      /\ holds = [v \in Values |-> IF v \in Leases THEN 1 ELSE 0]
  BY DEF Init
<1>2. [j \in 0..(InitialCapacity - 1) |-> NoLease] \in [0..(InitialCapacity - 1) -> Values \ {Torn}]
  BY DEF Values
<1>3. storage \in Seq(Buffers) /\ Len(storage) = 1 /\ storage[1] \in [0..(InitialCapacity - 1) -> Values \ {Torn}]
  <2>1. [j \in 0..(InitialCapacity - 1) |-> NoLease] \in Buffers
    BY <1>1, <1>2 DEF Buffers
  <2> QED BY <1>1, <1>2, <2>1
<1>4. mask \in Seq(Nat) /\ Len(mask) = 1 /\ mask[1] = InitialCapacity - 1
  BY <1>1
<1>5. TypeOK
  <2>1. reg \in [Threads -> [b : Int, t : Nat, buf : 1..Len(mask), lease : Values]]
    BY <1>1, <1>4 DEF NoLocals, Locals, Values
  <2>2. pc \in [Threads -> States] /\ holds \in [Values -> Nat]
    BY <1>1 DEF States
  <2>3. \A k \in 1..Len(mask) : storage[k] \in [0..mask[k] -> Values \ {Torn}]
    BY <1>3, <1>4
  <2>4. top \in Nat /\ bottom \in Int /\ buffer \in 1..Len(mask)
    BY <1>1, <1>4
  <2>5. raced \in BOOLEAN
    BY <1>1, Zenon
  <2> QED BY <1>3, <1>4, <2>1, <2>2, <2>3, <2>4, <2>5 DEF TypeOK
<1>6. pc[Owner] = "idle" /\ \A h \in Thieves : pc[h] = "idle"
  BY <1>1
<1>7. Edge = 0 /\ Window = {}
  BY <1>1, <1>6 DEF Edge, Window
<1>8. Exclusive /\ holds[Torn] = 0 /\ \A l \in Leases : holds[l] = 1
  BY <1>1 DEF Exclusive, LeaseExclusive, Values
<1>9. OwnerInv /\ RoomInv /\ ThiefInv
  BY <1>1, <1>4, <1>6, <1>7 DEF OwnerInv, RoomInv, ThiefInv, ThiefOK
<1>10. NoLeaseLost /\ OnceInv
  BY <1>6, <1>7, <1>8 DEF NoLeaseLost, OnceInv
<1> QED BY <1>3, <1>5, <1>8, <1>9, <1>10 DEF IInv

\* Every step of the owner and the thieves preserves the inductive invariant.
LEMMA NextIInv ==
  ASSUME SinglePusher, IInv, [Next]_vars
  PROVE  IInv'
<1>1. ASSUME Push(Owner) PROVE IInv'
  BY <1>1, StepPushLoad, StepPushGrow, StepPushWrite, StepPushPublish DEF Push
<1>2. ASSUME Pop PROVE IInv'
  BY <1>2, StepPopBegin, StepPopDecide, StepPopFast, StepPopCasWon, StepPopRestore DEF Pop
<1>3. ASSUME NEW h \in Thieves, Steal(h) PROVE IInv'
  BY <1>3, StepStealTop, StepStealEmpty, StepStealBottom, StepStealBuf, StepStealRead,
     StepStealCasWon DEF Steal
<1>4. ASSUME UNCHANGED vars PROVE IInv'
  <2>1. TypeOK'
    BY <1>4 DEF vars, IInv, TypeOK
  <2>2. ThiefInv'
    BY <1>4 DEF vars, IInv, ThiefInv, ThiefOK, Edge, Get, Slot
  <2> QED BY <1>4, <2>1, <2>2, ThiefFrame DEF vars, IInv
<1> QED BY <1>1, <1>2, <1>3, <1>4, OwnerOnly DEF Next

\* The inductive invariant holds for every set of thieves and leases, every
\* initial capacity and every number of operations.
THEOREM InductiveInvariant == SinglePusher => (Spec => []IInv)
<1> SUFFICES ASSUME SinglePusher PROVE Spec => []IInv
  OBVIOUS
<1>1. Init => IInv
  BY InitIInv
<1>2. IInv /\ [Next]_vars => IInv'
  BY NextIInv
<1> QED BY <1>1, <1>2, PTL DEF Spec

\* Type correctness of the deque.
THEOREM TypeCorrect == SinglePusher => (Spec => []TypeOK)
<1>1. IInv => TypeOK
  BY DEF IInv
<1> QED BY <1>1, InductiveInvariant, PTL

\* A steal whose CAS succeeds returns the lease at top: the unsynchronised read of
\* a slot, in whatever buffer, is validated by the CAS.
THEOREM StealIsStable == SinglePusher => (Spec => []StableSteal)
<1>1. IInv => StableSteal
  BY DEF IInv, TypeOK, ThiefInv, ThiefOK, StableSteal, Window, Edge
<1> QED BY <1>1, InductiveInvariant, PTL

\* No push, pop, steal or grow loses a lease, lost races included.
THEOREM NoLeaseIsLost == SinglePusher => (Spec => []NoLeaseLost)
<1>1. IInv => NoLeaseLost
  BY DEF IInv
<1> QED BY <1>1, InductiveInvariant, PTL

\* Up to the first pop that loses the race for the last lease, a lease has one
\* holder; a torn lease is never handed out.
THEOREM LeasesExclusiveUntilRace == SinglePusher => (Spec => []ExclusiveUntilRace)
<1>1. IInv => ExclusiveUntilRace
  BY DEF IInv, OnceInv, ExclusiveUntilRace
<1> QED BY <1>1, InductiveInvariant, PTL

-----------------------------------------------------------------------------
(* The deque implements WorkDeque *)

\* The refinement mapping.
Items == [n \in 1..(Edge - top) |-> Get(buffer, top + n - 1)]

Held == [v \in Values |->
           holds[v] + (IF \E p \in Pushers : InFlight(p, v) THEN 1 ELSE 0)]

\* The actions of WorkDeque, of the mapped variables.
LEMMA AbstractSteps ==
  /\ (Items = <<>> /\ Held = [v \in Values |-> IF v \in Leases THEN 1 ELSE 0])
        => Abstract!Init
  /\ \A l \in Leases :
        Held[l] > 0 /\ Items' = Append(Items, l) /\ Held' = [Held EXCEPT ![l] = @ - 1]
           => Abstract!Next
  /\ Items # <<>> /\ Items' = SubSeq(Items, 1, Len(Items) - 1)
           /\ Held' = [Held EXCEPT ![Items[Len(Items)]] = @ + 1] => Abstract!Next
  /\ Items # <<>> /\ Items' = Tail(Items)
           /\ Held' = [Held EXCEPT ![Head(Items)] = @ + 1] => Abstract!Next
  /\ \A v \in Values :
        Items = <<>> /\ Items' = <<v>> /\ Held' = Held => Abstract!Next
<1>1. (Items = <<>> /\ Held = [v \in Values |-> IF v \in Leases THEN 1 ELSE 0])
        => Abstract!Init
  BY DEF Abstract!Init, Items, Held
<1>2. ASSUME NEW l \in Leases, Held[l] > 0, Items' = Append(Items, l),
             Held' = [Held EXCEPT ![l] = @ - 1]
      PROVE  Abstract!Next
  <2>1. Abstract!Push(l)
    BY <1>2 DEF Abstract!Push, Items, Held
  <2> QED BY <2>1 DEF Abstract!Next
<1>3. ASSUME Items # <<>>, Items' = SubSeq(Items, 1, Len(Items) - 1),
             Held' = [Held EXCEPT ![Items[Len(Items)]] = @ + 1]
      PROVE  Abstract!Next
  <2>1. Abstract!Pop
    BY <1>3 DEF Abstract!Pop, Abstract!TakeFrom, Abstract!Front, Abstract!Last, Items, Held
  <2> QED BY <2>1 DEF Abstract!Next
<1>4. ASSUME Items # <<>>, Items' = Tail(Items), Held' = [Held EXCEPT ![Head(Items)] = @ + 1]
      PROVE  Abstract!Next
  <2>1. Abstract!Steal
    BY <1>4 DEF Abstract!Steal, Abstract!TakeFrom, Items, Held
  <2> QED BY <2>1 DEF Abstract!Next
<1>5. ASSUME NEW v \in Values, Items = <<>>, Items' = <<v>>, Held' = Held
      PROVE  Abstract!Next
  <2>1. Abstract!Reappear(v)
    BY <1>5 DEF Abstract!Reappear, Items, Held
  <2> QED BY <2>1 DEF Abstract!Next
<1> QED BY <1>1, <1>2, <1>3, <1>4, <1>5

\* Same items: no lease moved, and neither end of the deque.
LEMMA SameItems ==
  ASSUME top \in Nat, Edge \in Int, top' = top, Edge' = Edge, WindowKept
  PROVE  Items' = Items
<1>1. \A n \in 1..(Edge - top) : top + n - 1 \in Window
  BY DEF Window
<1>2. \A n \in 1..(Edge - top) : Get(buffer, top + n - 1)' = Get(buffer, top + n - 1)
  <2> SUFFICES ASSUME NEW n \in 1..(Edge - top)
               PROVE  Get(buffer, top + n - 1)' = Get(buffer, top + n - 1)
    OBVIOUS
  <2> DEFINE i == top + n - 1
  <2>1. Get(buffer, i)' = Get(buffer, i)
    BY <1>1 DEF WindowKept
  <2> QED BY <2>1
<1> QED BY <1>2 DEF Items

\* A step that writes no slot.
LEMMA UnwrittenKept ==
  ASSUME UNCHANGED <<buffer, mask, storage>>
  PROVE  WindowKept /\ \A i : Get(buffer, i)' = Get(buffer, i)
BY DEF WindowKept, Get, Slot

\* The mapped deque, as a sequence.
LEMMA ItemsFacts ==
  ASSUME SinglePusher, IInv
  PROVE  /\ Edge \in Int /\ top \in Nat /\ Items \in Seq(Values)
         /\ (top <= Edge => Len(Items) = Edge - top)
         /\ (top >= Edge => Items = <<>>)
         /\ \A n \in 1..(Edge - top) : Items[n] = Get(buffer, top + n - 1)
<1>1. top \in Nat /\ Edge \in Int /\ buffer \in 1..Len(mask)
  BY OwnerTypes DEF Edge
<1>2. \A n \in 1..(Edge - top) : Get(buffer, top + n - 1) \in Values
  <2> SUFFICES ASSUME NEW n \in 1..(Edge - top) PROVE Get(buffer, top + n - 1) \in Values
    OBVIOUS
  <2>1. top + n - 1 \in Nat
    BY <1>1
  <2> QED BY <1>1, <2>1, GetType DEF IInv
<1>3. CASE top <= Edge
  <2>1. PICK m \in Nat : m = Edge - top
    BY <1>1, <1>3
  <2>2. Items \in Seq(Values) /\ Len(Items) = m
    BY <1>2, <2>1 DEF Items
  <2>3. m = 0 => Items = <<>>
    BY <2>2
  <2> QED BY <1>1, <1>3, <2>1, <2>2, <2>3 DEF Items
<1>4. CASE top > Edge
  <2>1. 1..(Edge - top) = {}
    BY <1>1, <1>4
  <2>2. Items = <<>>
    BY <2>1 DEF Items
  <2> QED BY <1>1, <1>4, <2>1, <2>2
<1> QED BY <1>1, <1>3, <1>4

\* A push hands its lease over or does not.
SameFlight == \A v \in Values : InFlight(Owner, v)' <=> InFlight(Owner, v)

\* Held after a step that hands out nothing, and one that hands out v.
LEMMA HeldFacts ==
  ASSUME SinglePusher, IInv
  PROVE  /\ Held = [v \in Values |-> holds[v] + (IF InFlight(Owner, v) THEN 1 ELSE 0)]
         /\ Held' = [v \in Values |-> holds'[v] + (IF InFlight(Owner, v)' THEN 1 ELSE 0)]
         /\ Held \in [Values -> Nat]
         /\ SameFlight /\ holds' = holds => Held' = Held
         /\ SameFlight => \A v \in Values :
               holds' = [holds EXCEPT ![v] = @ + 1] => Held' = [Held EXCEPT ![v] = @ + 1]
<1> USE OwnerOnly
<1>1. holds \in [Values -> Nat]
  BY OwnerTypes
<1>2. Held = [v \in Values |-> holds[v] + (IF InFlight(Owner, v) THEN 1 ELSE 0)]
  BY DEF Held
<1>3. Held' = [v \in Values |-> holds'[v] + (IF InFlight(Owner, v)' THEN 1 ELSE 0)]
  BY DEF Held
<1>4. Held \in [Values -> Nat]
  BY <1>1, <1>2
<1>5. SameFlight /\ holds' = holds => Held' = Held
  BY <1>2, <1>3 DEF SameFlight
<1>6. ASSUME SameFlight, NEW v \in Values, holds' = [holds EXCEPT ![v] = @ + 1]
      PROVE  Held' = [Held EXCEPT ![v] = @ + 1]
  <2>1. \A w \in Values : holds'[w] = IF w = v THEN holds[v] + 1 ELSE holds[w]
    BY <1>1, <1>6
  <2>2. \A w \in Values : Held'[w] = IF w = v THEN Held[v] + 1 ELSE Held[w]
    BY <1>1, <1>2, <1>3, <1>6, <2>1 DEF SameFlight
  <2> QED BY <1>2, <1>3, <2>2
<1> QED BY <1>2, <1>3, <1>4, <1>5, <1>6

\* Tail, element by element.
LEMMA TailIs ==
  ASSUME NEW S, NEW s \in Seq(S), NEW m \in Nat, Len(s) = m + 1
  PROVE  Tail(s) = [n \in 1..m |-> s[n + 1]]
<1>1. Tail(s) \in Seq(S) /\ Len(Tail(s)) = m
  OBVIOUS
<1>2. \A n \in 1..m : Tail(s)[n] = s[n + 1]
  OBVIOUS
<1>3. ASSUME NEW t \in Seq(S), Len(t) = m, \A n \in 1..m : t[n] = s[n + 1]
      PROVE  t = [n \in 1..m |-> s[n + 1]]
  BY <1>3
<1> QED BY <1>1, <1>2, <1>3

\* steal takes the oldest lease with its CAS.
LEMMA SimulateStealCasWon ==
  ASSUME SinglePusher, IInv, IInv', NEW h \in Thieves, StealCasWon(h)
  PROVE  Abstract!Next
<1>1. /\ pc[h] = "stealCas" /\ reg[h].t = top /\ top' = top + 1 /\ Return(h)
      /\ holds' = [holds EXCEPT ![reg[h].lease] = @ + 1]
      /\ UNCHANGED <<bottom, buffer, mask, storage, raced>>
  BY DEF StealCasWon
<1>2. top < Edge /\ reg[h].lease = Get(buffer, top)
  BY <1>1 DEF IInv, ThiefInv, ThiefOK
<1>3. pc'[Owner] = pc[Owner] /\ reg'[Owner] = reg[Owner] /\ Edge' = Edge
  BY <1>1, OwnerOnly DEF IInv, TypeOK, Return, Edge
<1>4. /\ Edge \in Int /\ top \in Nat /\ Items \in Seq(Values) /\ Len(Items) = Edge - top
      /\ \A n \in 1..(Edge - top) : Items[n] = Get(buffer, top + n - 1)
  BY <1>2, ItemsFacts
<1>5. Items # <<>> /\ Head(Items) = Get(buffer, top) /\ Get(buffer, top) \in Values
  BY <1>2, <1>4
<1>6. Items' = Tail(Items)
  <2>1. PICK m \in Nat : m = Edge - top - 1
    BY <1>2, <1>4
  <2>2. Items' = [n \in 1..m |-> Get(buffer, (top + 1) + n - 1)]
    <3>1. Edge' - top' = m
      BY <1>1, <1>3, <1>4, <2>1
    <3> QED BY <1>1, <3>1 DEF Items, Get, Slot
  <2>3. Tail(Items) = [n \in 1..m |-> Items[n + 1]]
    <3>1. Len(Items) = m + 1
      BY <1>4, <2>1
    <3> QED BY <1>4, <2>1, <3>1, TailIs
  <2>4. \A n \in 1..m : Items[n + 1] = Get(buffer, (top + 1) + n - 1)
    <3> SUFFICES ASSUME NEW n \in 1..m PROVE Items[n + 1] = Get(buffer, (top + 1) + n - 1)
      OBVIOUS
    <3>1. n + 1 \in 1..(Edge - top) /\ top + (n + 1) - 1 = (top + 1) + n - 1
      BY <1>4, <2>1
    <3>2. Items[n + 1] = Get(buffer, top + (n + 1) - 1)
      BY <1>4, <3>1
    <3> QED BY <3>1, <3>2
  <2> QED BY <2>2, <2>3, <2>4
<1>7. Held' = [Held EXCEPT ![Head(Items)] = @ + 1]
  BY <1>1, <1>2, <1>3, <1>5, HeldFacts DEF SameFlight, InFlight
<1> QED BY <1>5, <1>6, <1>7, AbstractSteps

\* pop takes the newest lease, with or without a CAS.
LEMMA SimulatePop ==
  ASSUME SinglePusher, IInv, IInv', PopFast \/ PopCasWon
  PROVE  Abstract!Next
<1>0. top \in Nat /\ bottom \in Int
  BY OwnerTypes
<1>1. /\ holds' = [holds EXCEPT ![Get(buffer, bottom)] = @ + 1]
      /\ UNCHANGED <<buffer, mask, storage>> /\ Edge = bottom + 1 /\ top <= bottom
      /\ pc[Owner] \in {"pop", "popCas"} /\ pc'[Owner] \in {"idle", "restore"}
      /\ \/ top' = top /\ Edge' = bottom
         \/ top = bottom /\ top' = top + 1 /\ Edge' = bottom + 1
  <2>1. CASE PopFast
    <3>1. /\ pc[Owner] = "pop" /\ reg[Owner].b = bottom /\ reg[Owner].buf = buffer
          /\ bottom > top /\ UNCHANGED <<top, bottom>> /\ pc'[Owner] = "idle"
      BY <2>1, OwnerOnly DEF PopFast, IInv, OwnerInv, Return, TypeOK
    <3> QED BY <1>0, <2>1, <3>1 DEF PopFast, Edge
  <2>2. CASE PopCasWon
    <3>1. /\ pc[Owner] = "popCas" /\ reg[Owner].t = bottom /\ top = bottom
          /\ reg[Owner].lease = Get(buffer, bottom)
          /\ top' = top + 1 /\ bottom' = bottom /\ pc'[Owner] = "restore"
      BY <2>2, OwnerOnly DEF PopCasWon, IInv, OwnerInv, TypeOK
    <3> QED BY <1>0, <2>2, <3>1 DEF PopCasWon, Edge
  <2> QED BY <2>1, <2>2
<1>2. /\ Items \in Seq(Values) /\ Len(Items) = Edge - top
      /\ \A n \in 1..(Edge - top) : Items[n] = Get(buffer, top + n - 1)
  BY <1>0, <1>1, ItemsFacts
<1>3. PICK m \in Nat : m = bottom - top
  BY <1>0, <1>1
<1>4. /\ Len(Items) = m + 1 /\ Items # <<>> /\ Items[m + 1] = Get(buffer, bottom)
      /\ Get(buffer, bottom) \in Values
  <2>1. Edge - top = m + 1 /\ top + (m + 1) - 1 = bottom /\ m + 1 \in 1..(m + 1)
    BY <1>0, <1>1, <1>3
  <2> QED BY <1>2, <2>1
<1>5. Items' = SubSeq(Items, 1, Len(Items) - 1)
  <2>1. Edge' - top' = m
    BY <1>0, <1>1, <1>3
  <2>2. Items' = [n \in 1..m |-> Get(buffer, top' + n - 1)]
    BY <1>1, <2>1 DEF Items, Get, Slot
  <2>3. \A n \in 1..m : Items[n] = Get(buffer, top' + n - 1)
    BY <1>0, <1>1, <1>2, <1>3
  <2>4. SubSeq(Items, 1, m) = [n \in 1..m |-> Items[n]]
    BY <1>2, <1>4
  <2>5. Len(Items) - 1 = m
    BY <1>4
  <2> QED BY <2>2, <2>3, <2>4, <2>5
<1>6. Held' = [Held EXCEPT ![Items[Len(Items)]] = @ + 1]
  BY <1>1, <1>4, HeldFacts DEF SameFlight, InFlight
<1> QED BY <1>4, <1>5, <1>6, AbstractSteps

\* push adds its lease with the store of bottom.
LEMMA SimulatePushPublish ==
  ASSUME SinglePusher, IInv, IInv', PushPublish(Owner)
  PROVE  Abstract!Next
<1> DEFINE l == reg[Owner].lease
<1>0. top \in Nat /\ bottom \in Int /\ holds \in [Values -> Nat]
  BY OwnerTypes
<1>1. /\ pc[Owner] = "publish" /\ reg[Owner].b = bottom /\ top <= bottom
      /\ l \in Leases /\ Get(buffer, bottom) = l
      /\ bottom' = bottom + 1 /\ pc'[Owner] = "idle"
      /\ UNCHANGED <<top, buffer, mask, storage, holds>>
  BY OwnerOnly DEF PushPublish, IInv, OwnerInv, Return, TypeOK
<1>2. Edge = bottom /\ Edge' = bottom + 1
  BY <1>1 DEF Edge
<1>3. PICK m \in Nat : m = bottom - top
  BY <1>0, <1>1
<1>4. /\ Items \in Seq(Values) /\ Len(Items) = m
      /\ \A n \in 1..m : Items[n] = Get(buffer, top + n - 1)
  BY <1>0, <1>1, <1>2, <1>3, ItemsFacts
<1>5. Items' = Append(Items, l)
  <2>1. Edge' - top' = m + 1
    BY <1>0, <1>1, <1>2, <1>3
  <2>2. Items' = [n \in 1..(m + 1) |-> Get(buffer, top + n - 1)]
    BY <1>1, <2>1 DEF Items, Get, Slot
  <2>3. top + (m + 1) - 1 = bottom
    BY <1>0, <1>3
  <2>4. Append(Items, l) = [n \in 1..(m + 1) |-> IF n = m + 1 THEN l ELSE Items[n]]
    BY <1>4
  <2>5. \A n \in 1..(m + 1) : n = m + 1 \/ n \in 1..m
    OBVIOUS
  <2> QED BY <1>1, <1>4, <2>2, <2>3, <2>4, <2>5
<1>6. Held[l] > 0 /\ Held' = [Held EXCEPT ![l] = @ - 1]
  <2>1. \A v \in Values : (InFlight(Owner, v) <=> v = l) /\ ~InFlight(Owner, v)'
    BY <1>1 DEF InFlight
  <2>2. l \in Values
    BY <1>1 DEF Values
  <2>3. /\ Held = [v \in Values |-> holds[v] + (IF InFlight(Owner, v) THEN 1 ELSE 0)]
        /\ Held' = [v \in Values |-> holds[v] + (IF InFlight(Owner, v)' THEN 1 ELSE 0)]
    BY <1>1, HeldFacts
  <2>4. \A v \in Values : Held[v] = IF v = l THEN holds[v] + 1 ELSE holds[v]
    BY <1>0, <2>1, <2>3
  <2>5. \A v \in Values : Held'[v] = holds[v]
    BY <1>0, <2>1, <2>3
  <2>6. Held[l] > 0 /\ Held[l] - 1 = holds[l]
    BY <1>0, <2>2, <2>4
  <2> QED BY <1>0, <2>2, <2>3, <2>4, <2>5, <2>6
<1> QED BY <1>1, <1>5, <1>6, AbstractSteps

\* The last store of a pop; after a lost race an entry reappears.
LEMMA SimulatePopRestore ==
  ASSUME SinglePusher, IInv, IInv', PopRestore
  PROVE  Abstract!Next \/ UNCHANGED <<Items, Held>>
<1>0. top \in Nat /\ bottom \in Int /\ buffer \in 1..Len(mask)
  BY OwnerTypes
<1>1. /\ pc[Owner] = "restore" /\ top = bottom + 1
      /\ bottom' \in {top, top + 1} /\ pc'[Owner] = "idle"
      /\ UNCHANGED <<top, buffer, mask, storage, holds>>
  BY OwnerOnly DEF PopRestore, IInv, OwnerInv, Return, TypeOK
<1>2. Edge = top /\ Edge' = bottom'
  BY <1>0, <1>1 DEF Edge
<1>3. Held' = Held
  BY <1>1, HeldFacts DEF SameFlight, InFlight
<1>4. CASE bottom' = top
  BY <1>0, <1>1, <1>2, <1>3, <1>4, SameItems, UnwrittenKept
<1>5. CASE bottom' = top + 1
  <2>1. Items = <<>>
    BY <1>0, <1>2, ItemsFacts
  <2>2. Get(buffer, top) \in Values
    BY <1>0, GetType DEF IInv
  <2>3. Items' = [n \in 1..1 |-> Get(buffer, top + n - 1)]
    <3>1. Edge' - top' = 1
      BY <1>0, <1>1, <1>2, <1>5
    <3> QED BY <1>1, <3>1 DEF Items, Get, Slot
  <2>4. Items' = <<Get(buffer, top)>>
    <3>1. top + 1 - 1 = top
      BY <1>0
    <3> QED BY <2>3, <3>1
  <2> QED BY <1>3, <2>1, <2>2, <2>4, AbstractSteps
<1> QED BY <1>1, <1>4, <1>5

\* The steps of push that only its caller sees.
LEMMA SimulatePushing ==
  ASSUME SinglePusher, IInv, IInv',
         (\E l \in Leases : PushLoad(Owner, l)) \/ PushGrow(Owner) \/ PushWrite(Owner)
  PROVE  UNCHANGED <<Items, Held>>
<1>0. top \in Nat /\ bottom \in Int /\ Edge \in Int /\ holds \in [Values -> Nat]
  BY OwnerTypes DEF Edge
<1>1. CASE \E l \in Leases : PushLoad(Owner, l)
  <2>1. PICK l \in Leases : PushLoad(Owner, l)
    BY <1>1
  <2>2. /\ pc[Owner] = "idle" /\ pc'[Owner] = "push" /\ reg'[Owner].lease = l
        /\ holds[l] > 0 /\ holds' = [holds EXCEPT ![l] = @ - 1] /\ l \in Values
        /\ UNCHANGED <<top, bottom, buffer, mask, storage>>
    BY <2>1, OwnerOnly DEF PushLoad, IInv, TypeOK, Locals, Values
  <2>3. Items' = Items
    BY <1>0, <2>2, SameItems, UnwrittenKept DEF Edge
  <2>4. \A v \in Values : ~InFlight(Owner, v) /\ (InFlight(Owner, v)' <=> v = l)
    BY <2>2 DEF InFlight
  <2>5. \A v \in Values : holds'[v] = IF v = l THEN holds[l] - 1 ELSE holds[v]
    BY <1>0, <2>2
  <2>6. \A v \in Values :
          holds'[v] + (IF InFlight(Owner, v)' THEN 1 ELSE 0)
             = holds[v] + (IF InFlight(Owner, v) THEN 1 ELSE 0)
    BY <1>0, <2>4, <2>5
  <2>7. Held' = Held
    BY <2>6, HeldFacts
  <2> QED BY <2>3, <2>7
<1>2. CASE PushGrow(Owner) \/ PushWrite(Owner)
  <2>1. WindowKept
    BY <1>2, StepPushGrow, StepPushWrite
  <2>2. /\ UNCHANGED <<top, bottom, holds>> /\ reg'[Owner].lease = reg[Owner].lease
        /\ pc[Owner] = "push" /\ pc'[Owner] \in {"push", "publish"}
    <3>1. pc \in [Threads -> States] /\ Owner \in Threads /\ Owner \in DOMAIN reg
      BY OwnerOnly DEF IInv, TypeOK
    <3>2. CASE PushGrow(Owner)
      BY <3>1, <3>2 DEF PushGrow, Locals
    <3>3. CASE PushWrite(Owner)
      BY <3>1, <3>3 DEF PushWrite
    <3> QED BY <1>2, <3>2, <3>3
  <2>3. Edge' = Edge
    BY <2>2 DEF Edge
  <2>4. Held' = Held
    BY <2>2, HeldFacts DEF SameFlight, InFlight
  <2> QED BY <1>0, <2>1, <2>2, <2>3, <2>4, SameItems
<1> QED BY <1>1, <1>2

\* The steps of pop that decide nothing for the others.
LEMMA SimulatePopping ==
  ASSUME SinglePusher, IInv, IInv', PopBegin \/ PopEmpty \/ PopLast \/ PopCasLost
  PROVE  UNCHANGED <<Items, Held>>
<1>0. top \in Nat /\ bottom \in Int /\ Edge \in Int
  BY OwnerTypes DEF Edge
<1>1. /\ UNCHANGED <<top, buffer, mask, storage, holds>>
      /\ pc[Owner] \in {"idle", "pop", "popCas"} /\ pc'[Owner] \in {"pop", "popCas", "restore"}
  BY OwnerOnly DEF PopBegin, PopEmpty, PopLast, PopCasLost, IInv, TypeOK
<1>2. Edge' = Edge
  <2>1. CASE PopBegin
    BY <1>0, <1>1, <2>1 DEF PopBegin, Edge
  <2>2. CASE PopEmpty \/ PopLast \/ PopCasLost
    BY <1>1, <2>2 DEF PopEmpty, PopLast, PopCasLost, Edge
  <2> QED BY <2>1, <2>2
<1>3. Held' = Held
  BY <1>1, HeldFacts DEF SameFlight, InFlight
<1> QED BY <1>0, <1>1, <1>2, <1>3, SameItems, UnwrittenKept

\* The steps of a steal that takes nothing or has not yet done so.
LEMMA SimulateStealing ==
  ASSUME SinglePusher, IInv, NEW h \in Thieves,
         \/ StealTop(h) \/ StealEmpty(h) \/ StealBottom(h)
         \/ StealBuf(h) \/ StealRead(h) \/ StealCasLost(h)
  PROVE  UNCHANGED <<Items, Held>>
<1>0. top \in Nat /\ Edge \in Int
  BY OwnerTypes DEF Edge
<1>1. /\ UNCHANGED <<top, bottom, buffer, mask, storage, holds>>
      /\ pc'[Owner] = pc[Owner] /\ reg'[Owner] = reg[Owner]
  BY OwnerOnly DEF StealTop, StealEmpty, StealBottom, StealBuf, StealRead, StealCasLost,
     Return, IInv, TypeOK
<1>2. Edge' = Edge
  BY <1>1 DEF Edge
<1>3. Held' = Held
  BY <1>1, HeldFacts DEF SameFlight, InFlight
<1> QED BY <1>0, <1>1, <1>2, <1>3, SameItems, UnwrittenKept

\* Every step of the owner and the thieves is one of WorkDeque or changes nothing in it.
LEMMA Simulates ==
  ASSUME SinglePusher, IInv, IInv', [Next]_vars
  PROVE  Abstract!Next \/ UNCHANGED <<Items, Held>>
<1>1. ASSUME Push(Owner) PROVE Abstract!Next \/ UNCHANGED <<Items, Held>>
  BY <1>1, SimulatePushing, SimulatePushPublish DEF Push
<1>2. ASSUME Pop PROVE Abstract!Next \/ UNCHANGED <<Items, Held>>
  BY <1>2, SimulatePopping, SimulatePop, SimulatePopRestore DEF Pop
<1>3. ASSUME NEW h \in Thieves, Steal(h) PROVE Abstract!Next \/ UNCHANGED <<Items, Held>>
  BY <1>3, SimulateStealing, SimulateStealCasWon DEF Steal
<1>4. ASSUME UNCHANGED vars PROVE UNCHANGED <<Items, Held>>
  BY <1>4 DEF vars, Items, Held, Edge, Get, Slot, InFlight
<1> QED BY <1>1, <1>2, <1>3, <1>4, OwnerOnly DEF Next

\* With one pushing thread push, pop and steal implement the atomic operations of
\* WorkDeque, for any number of thieves and any growth of the buffer.
THEOREM Refinement == SinglePusher => (Spec => ImplementsWorkDeque)
<1> SUFFICES ASSUME SinglePusher PROVE Spec => ImplementsWorkDeque
  OBVIOUS
<1>1. Init => Abstract!Init
  <2> SUFFICES ASSUME Init PROVE Abstract!Init
    OBVIOUS
  <2>1. IInv
    BY InitIInv
  <2>2. top = 0 /\ bottom = 0 /\ pc[Owner] = "idle"
    BY OwnerOnly DEF Init
  <2>3. Items = <<>>
    BY <2>1, <2>2, ItemsFacts DEF Edge
  <2>4. \A v \in Values : ~InFlight(Owner, v)
    BY <2>2 DEF InFlight
  <2>5. Held = [v \in Values |-> IF v \in Leases THEN 1 ELSE 0]
    BY <2>1, <2>4, HeldFacts DEF Init
  <2> QED BY <2>3, <2>5, AbstractSteps
<1>2. IInv /\ IInv' /\ [Next]_vars => Abstract!Next \/ UNCHANGED <<Items, Held>>
  BY Simulates
<1> QED BY <1>1, <1>2, InductiveInvariant, PTL DEF Spec, ImplementsWorkDeque, Abstract!Spec, Items, Held
====
