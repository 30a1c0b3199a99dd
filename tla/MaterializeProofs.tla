-------------------------- MODULE MaterializeProofs --------------------------
(***************************************************************************)
(* Proofs about Materialize, for any keys, values, batch size and number   *)
(* of runs, failed ones included.                                          *)
(*                                                                         *)
(* DeltaComplete is not inductive.  While a run is under way, each record  *)
(* that it has pulled was skipped, is pending or is in the view            *)
(* (CoveredInv); what was skipped is up to the old watermark, for which    *)
(* DeltaComplete holds already; and no record beyond those pulled is up to *)
(* the new watermark, since it is the key of one of them (WatermarkInv).   *)
(* FinishedView follows from the same picture with keys that repeat: the   *)
(* view with pending written to it is right all along (SettledInv).        *)
(***************************************************************************)
EXTENDS Materialize, TLAPS

Active == pc \in {"pull", "flush", "last", "mark"}

\* What the call's variables say of each other.
CallInv ==
    /\ pc \in {"scan", "wipe"} => mode = "Replace"
    /\ pc = "floor" => mode = "Delta"
    /\ pc \in {"scan", "wipe", "floor"} => pos = 0 /\ pending = <<>> /\ last_key = 0
    /\ pc = "wipe" => doomed = {k \in Keys : view[k] # Absent}
    /\ pc = "pull" => Len(pending) < BatchSize
    /\ pc = "mark" => pending = <<>>

\* The watermark, and the one to come, are keys of records; the one to come is higher.
WatermarkInv ==
    /\ watermark # 0 => \E j \in DOMAIN log : log[j].key = watermark
    /\ pc \in {"last", "mark"} /\ watermark # 0 => \E j \in 1..pos : log[j].key = watermark
    /\ Active /\ last_key # 0 => \E j \in 1..pos : log[j].key = last_key
    /\ Active /\ mode = "Delta" => floor = watermark
    /\ Active /\ mode = "Delta" /\ last_key # 0 => last_key > floor

HasLasts(s) ==
    \A i \in DOMAIN s : \E l \in DOMAIN s : s[l].key = s[i].key /\ LastFor(s, l)

\* What is pending was pulled, and each of its keys has a last record, in every
\* part of it that a failing batch may write.
PendingInv ==
    /\ \A n \in DOMAIN pending : \E i \in 1..pos : pending[n] = log[i]
    /\ \A m \in 0..Len(pending) : HasLasts(SubSeq(pending, 1, m))

InView(i)  == view[log[i].key] = log[i].value
Pending(i) == \E n \in DOMAIN pending : pending[n] = log[i]

CoveredInv ==
    Increasing(log) /\ Active /\ mode # "DryRun" =>
        \A i \in 1..pos : Skips(log[i]) \/ Pending(i) \/ InView(i)

\* The value of key k after the pending rows are written is that of its last record.
Settled(k) ==
    \/ \E i \in 1..pos :
          /\ log[i].key = k
          /\ log[i].value = Written(view, pending)[k]
          /\ \A j \in (i + 1)..pos : log[j].key # k
    \/ /\ \A i \in 1..pos : log[i].key # k
       /\ mode = "Replace" => Written(view, pending)[k] = Absent

SettledInv == Active /\ mode \in {"Upsert", "Replace"} => \A k \in Keys : Settled(k)

IInv ==
    /\ TypeOK
    /\ CallInv
    /\ WatermarkInv
    /\ PendingInv
    /\ CoveredInv
    /\ DeltaComplete
    /\ SettledInv

-----------------------------------------------------------------------------
(* What a batch writes *)

\* A record has a key and a value.
LEMMA RecordFields ==
    ASSUME NEW r \in Records
    PROVE  r.key \in Keys /\ r.value \in Values
  BY DEF Records

\* So has each element of a sequence of records.
LEMMA ElementFields ==
    ASSUME NEW s \in Seq(Records), NEW i \in DOMAIN s
    PROVE  s[i] \in Records /\ s[i].key \in Keys /\ s[i].value \in Values
  <1>1. s[i] \in Records
    OBVIOUS
  <1> QED
    BY <1>1, RecordFields

\* A key that no put of the batch names keeps its row.
LEMMA WrittenMiss ==
    ASSUME NEW table, NEW s, NEW k \in Keys, \A i \in DOMAIN s : s[i].key # k
    PROVE  Written(table, s)[k] = table[k]
  BY DEF Written

\* The last put for a key decides its row.
LEMMA WrittenHit ==
    ASSUME NEW table, NEW s \in Seq(Records), NEW i \in DOMAIN s, LastFor(s, i)
    PROVE  Written(table, s)[s[i].key] = s[i].value
  <1> DEFINE k == s[i].key
             c == CHOOSE j \in DOMAIN s : s[j].key = k /\ LastFor(s, j)
  <1>1. DOMAIN s \subseteq Nat
    OBVIOUS
  <1>2. k \in Keys
    BY ElementFields
  <1>3. c \in DOMAIN s /\ s[c].key = k /\ LastFor(s, c)
    BY Zenon
  <1>4. c = i
    BY <1>1, <1>3 DEF LastFor
  <1>5. Written(table, s)[k] = s[c].value
    BY <1>2, Zenon DEF Written
  <1> QED
    BY <1>4, <1>5

\* An empty batch writes nothing.
LEMMA WrittenEmpty ==
    ASSUME NEW S, NEW table \in [Keys -> S]
    PROVE  Written(table, <<>>) = table
  BY DEF Written

\* A batch leaves a table of values.
LEMMA WrittenType ==
    ASSUME NEW table \in [Keys -> Values \union {Absent}],
           NEW s \in Seq(Records), HasLasts(s)
    PROVE  Written(table, s) \in [Keys -> Values \union {Absent}]
  <1>1. ASSUME NEW k \in Keys
        PROVE  Written(table, s)[k] \in Values \union {Absent}
    <2>1. CASE \A i \in DOMAIN s : s[i].key # k
      BY <2>1, WrittenMiss
    <2>2. CASE \E i \in DOMAIN s : s[i].key = k
      <3>1. PICK l \in DOMAIN s : s[l].key = k /\ LastFor(s, l)
        BY <2>2 DEF HasLasts
      <3>2. Written(table, s)[k] = s[l].value
        BY <3>1, WrittenHit
      <3> QED
        BY <3>2, ElementFields
    <2> QED
      BY <2>1, <2>2
  <1>2. Written(table, s) = [k \in Keys |-> Written(table, s)[k]]
    BY DEF Written
  <1> QED
    BY <1>1, <1>2

\* After one put more each key of the batch still has a last put.
LEMMA AppendLasts ==
    ASSUME NEW s \in Seq(Records), HasLasts(s), NEW r \in Records
    PROVE  /\ LastFor(Append(s, r), Len(s) + 1)
           /\ HasLasts(Append(s, r))
           /\ \A l \in DOMAIN s : LastFor(s, l) /\ s[l].key # r.key => LastFor(Append(s, r), l)
  <1> DEFINE t == Append(s, r)
  <1>1. /\ DOMAIN t = 1..(Len(s) + 1)
        /\ DOMAIN s = 1..Len(s)
        /\ Len(s) \in Nat
        /\ t[Len(s) + 1] = r
        /\ \A i \in 1..Len(s) : t[i] = s[i]
    OBVIOUS
  <1> HIDE DEF t
  <1>2. LastFor(t, Len(s) + 1)
    BY <1>1 DEF LastFor
  <1>3. \A l \in DOMAIN s : LastFor(s, l) /\ s[l].key # r.key => LastFor(t, l)
    BY <1>1 DEF LastFor
  <1>4. ASSUME NEW i \in DOMAIN t
        PROVE  \E l \in DOMAIN t : t[l].key = t[i].key /\ LastFor(t, l)
    <2>1. CASE t[i].key = r.key
      BY <1>1, <1>2, <2>1
    <2>2. CASE t[i].key # r.key
      <3>1. i \in DOMAIN s /\ t[i] = s[i]
        BY <1>1, <2>2
      <3>2. PICK l \in DOMAIN s : s[l].key = s[i].key /\ LastFor(s, l)
        BY <3>1 DEF HasLasts
      <3> QED
        BY <1>1, <1>3, <2>2, <3>1, <3>2
    <2> QED
      BY <2>1, <2>2
  <1> QED
    BY <1>2, <1>3, <1>4 DEF HasLasts, t

\* One put more sets one row.
LEMMA WrittenAppend ==
    ASSUME NEW table, NEW s \in Seq(Records), HasLasts(s),
           NEW r \in Records, NEW k \in Keys
    PROVE  Written(table, Append(s, r))[k] = IF k = r.key THEN r.value ELSE Written(table, s)[k]
  <1> DEFINE t == Append(s, r)
  <1>1. /\ DOMAIN t = 1..(Len(s) + 1)
        /\ DOMAIN s = 1..Len(s)
        /\ Len(s) \in Nat
        /\ t[Len(s) + 1] = r
        /\ \A i \in 1..Len(s) : t[i] = s[i]
        /\ t \in Seq(Records)
    OBVIOUS
  <1>2. /\ LastFor(t, Len(s) + 1)
        /\ \A l \in DOMAIN s : LastFor(s, l) /\ s[l].key # r.key => LastFor(t, l)
    BY AppendLasts
  <1> HIDE DEF t
  <1>3. CASE k = r.key
    <2>1. Written(table, t)[t[Len(s) + 1].key] = t[Len(s) + 1].value
      BY <1>1, <1>2, WrittenHit
    <2> QED
      BY <1>1, <1>3, <2>1 DEF t
  <1>4. CASE k # r.key /\ \A i \in DOMAIN s : s[i].key # k
    <2>1. \A i \in DOMAIN t : t[i].key # k
      BY <1>1, <1>4
    <2>2. Written(table, t)[k] = table[k]
      BY <2>1, WrittenMiss
    <2>3. Written(table, s)[k] = table[k]
      BY <1>4, WrittenMiss
    <2> QED
      BY <1>4, <2>2, <2>3 DEF t
  <1>5. CASE k # r.key /\ \E i \in DOMAIN s : s[i].key = k
    <2>1. PICK l \in DOMAIN s : s[l].key = k /\ LastFor(s, l)
      BY <1>5 DEF HasLasts
    <2>2. LastFor(t, l) /\ l \in DOMAIN t /\ t[l] = s[l]
      BY <1>1, <1>2, <1>5, <2>1
    <2>3. Written(table, t)[k] = t[l].value
      BY <1>1, <2>1, <2>2, WrittenHit
    <2>4. Written(table, s)[k] = s[l].value
      BY <2>1, WrittenHit
    <2> QED
      BY <1>5, <2>2, <2>3, <2>4 DEF t
  <1> QED
    BY <1>3, <1>4, <1>5

-----------------------------------------------------------------------------
(* Each step preserves each part of the invariant *)

\* What pending holds is a batch, and so is each part of it from the front.
LEMMA BatchFacts ==
    ASSUME TypeOK, PendingInv
    PROVE  /\ HasLasts(pending)
           /\ pending \in Seq(Records)
           /\ \A n \in 0..Len(pending) :
                 /\ SubSeq(pending, 1, n) \in Seq(Records)
                 /\ HasLasts(SubSeq(pending, 1, n))
                 /\ \A l \in DOMAIN SubSeq(pending, 1, n) :
                       l \in DOMAIN pending /\ SubSeq(pending, 1, n)[l] = pending[l]
  <1>1. pending \in Seq(Records) /\ Len(pending) \in Nat
    BY DEF TypeOK
  <1>2. SubSeq(pending, 1, Len(pending)) = pending
    BY <1>1
  <1>3. \A n \in 0..Len(pending) :
           /\ SubSeq(pending, 1, n) \in Seq(Records)
           /\ \A l \in DOMAIN SubSeq(pending, 1, n) :
                 l \in DOMAIN pending /\ SubSeq(pending, 1, n)[l] = pending[l]
    BY <1>1
  <1>4. Len(pending) \in 0..Len(pending)
    BY <1>1
  <1>5. \A n \in 0..Len(pending) : HasLasts(SubSeq(pending, 1, n))
    BY DEF PendingInv
  <1>6. HasLasts(pending)
    BY <1>2, <1>4, <1>5, Zenon
  <1> QED
    BY <1>1, <1>3, <1>5, <1>6

\* The source keeps the records it has when it grows.
LEMMA LogGrows ==
    ASSUME TypeOK, NEW r \in Records, Grow(r)
    PROVE  /\ log' \in Seq(Records)
           /\ Len(log') = Len(log) + 1
           /\ Len(log) \in Nat
           /\ DOMAIN log = 1..Len(log)
           /\ DOMAIN log' = 1..(Len(log) + 1)
           /\ \A i \in 1..Len(log) : log'[i] = log[i]
           /\ 1..pos \subseteq 1..Len(log)
  BY DEF TypeOK, Grow

\* The invariant holds before the first run.
LEMMA InitInv == Init => IInv
  <1> SUFFICES ASSUME Init PROVE IInv
    OBVIOUS
  <1>1. TypeOK
    BY ConstantsAssumption DEF Init, TypeOK, Keys, Modes
  <1>2. CallInv
    BY DEF Init, CallInv
  <1>3. WatermarkInv
    BY DEF Init, WatermarkInv, Active
  <1>4. PendingInv
    BY DEF Init, PendingInv, HasLasts
  <1>5. CoveredInv /\ SettledInv
    BY DEF Init, CoveredInv, SettledInv, Active
  <1>6. DeltaComplete
    BY DEF Init, DeltaComplete
  <1> QED
    BY <1>1, <1>2, <1>3, <1>4, <1>5, <1>6 DEF IInv

\* Every step keeps the types; a flush is due when pending is full.
LEMMA TypeStep ==
    ASSUME TypeOK, CallInv, PendingInv, [Next]_vars
    PROVE  TypeOK'
  <1> USE ConstantsAssumption
  <1>1. ASSUME NEW r \in Records, Grow(r) PROVE TypeOK'
    <2>1. pos \in 0..Len(log')
      BY <1>1, LogGrows DEF TypeOK
    <2> QED
      BY <1>1, <2>1, LogGrows DEF Grow, job, TypeOK
  <1>2. ASSUME NEW m \in Modes, NEW p \in BOOLEAN, Start(m, p) PROVE TypeOK'
    BY <1>2 DEF Start, TypeOK, Keys
  <1>3. CASE Scan
    BY <1>3 DEF Scan, TypeOK
  <1>4. CASE Wipe
    <2>1. view' \in [Keys -> Values \union {Absent}]
      BY <1>4 DEF Wipe, Erased, TypeOK
    <2>2. torn' \in BOOLEAN
      BY <1>4, Zenon DEF Wipe, TypeOK
    <2> QED
      BY <1>4, <2>1, <2>2 DEF Wipe, job, TypeOK, Keys
  <1>5. CASE ReadFloor
    BY <1>5 DEF ReadFloor, TypeOK
  <1>6. CASE Skip
    BY <1>6 DEF Skip, TypeOK
  <1>7. CASE Row
    <2>1. log[pos + 1] \in Records /\ log[pos + 1].key \in Keys
      BY <1>7, ElementFields DEF Row, TypeOK
    <2>2. pending' \in Seq(Records) /\ Len(pending') <= BatchSize
      BY <1>7, <2>1 DEF Row, TypeOK, CallInv
    <2>3. last_key' \in Keys /\ pos' \in 0..Len(log)
      BY <1>7, <2>1 DEF Row, TypeOK
    <2> QED
      BY <1>7, <2>2, <2>3 DEF Row, TypeOK
  <1>8. CASE EndOfStream
    BY <1>8 DEF EndOfStream, job, TypeOK
  <1>9. CASE Flush
    <2>1. view' \in [Keys -> Values \union {Absent}]
      BY <1>9, BatchFacts, WrittenType DEF Flush, TypeOK
    <2> QED
      BY <1>9, <2>1 DEF Flush, TypeOK
  <1>10. CASE Mark
    BY <1>10 DEF Mark, job, TypeOK
  <1>11. CASE Finish
    <2>1. torn' \in BOOLEAN
      BY <1>11, Zenon DEF Finish, TypeOK
    <2> QED
      BY <1>11, <2>1 DEF Finish, job, TypeOK
  <1>12. CASE Fail
    BY <1>12 DEF Fail, job, TypeOK
  <1>13. ASSUME NEW ks \in SUBSET Keys, WipeFails(ks) PROVE TypeOK'
    <2>1. view' \in [Keys -> Values \union {Absent}]
      BY <1>13 DEF WipeFails, Erased, TypeOK
    <2>2. torn' \in BOOLEAN
      BY <1>13, Zenon DEF WipeFails, TypeOK
    <2> QED
      BY <1>13, <2>1, <2>2 DEF WipeFails, job, TypeOK, Keys
  <1>14. ASSUME NEW n \in 0..BatchSize, FlushFails(n) PROVE TypeOK'
    <2>1. n \in 0..Len(pending)
      BY <1>14 DEF FlushFails, TypeOK
    <2>2. view' \in [Keys -> Values \union {Absent}]
      BY <1>14, <2>1, BatchFacts, WrittenType DEF FlushFails, TypeOK
    <2> QED
      BY <1>14, <2>2 DEF FlushFails, job, TypeOK
  <1>15. CASE UNCHANGED vars
    BY <1>15 DEF vars, job, TypeOK
  <1> QED
    BY <1>1, <1>2, <1>3, <1>4, <1>5, <1>6, <1>7, <1>8, <1>9, <1>10, <1>11, <1>12, <1>13,
       <1>14, <1>15 DEF Next

\* Every step keeps what the call's variables say of each other.
LEMMA CallStep ==
    ASSUME TypeOK, CallInv, [Next]_vars
    PROVE  CallInv'
  <1> USE ConstantsAssumption
  <1>1. ASSUME NEW r \in Records, Grow(r) PROVE CallInv'
    BY <1>1 DEF Grow, job, CallInv
  <1>2. ASSUME NEW m \in Modes, NEW p \in BOOLEAN, Start(m, p) PROVE CallInv'
    BY <1>2 DEF Start, CallInv, Modes
  <1>3. CASE Scan
    BY <1>3 DEF Scan, CallInv
  <1>4. CASE Wipe
    BY <1>4 DEF Wipe, job, CallInv
  <1>5. CASE ReadFloor
    BY <1>5 DEF ReadFloor, CallInv
  <1>6. CASE Skip
    BY <1>6 DEF Skip, CallInv
  <1>7. CASE Row
    <2>1. pc' = "pull" => Len(pending') < BatchSize
      BY <1>7, ElementFields DEF Row, TypeOK
    <2> QED
      BY <1>7, <2>1 DEF Row, CallInv
  <1>8. CASE EndOfStream
    BY <1>8 DEF EndOfStream, job, CallInv
  <1>9. CASE Flush
    BY <1>9 DEF Flush, CallInv
  <1>10. CASE Mark
    BY <1>10 DEF Mark, job, CallInv
  <1>11. CASE Finish
    BY <1>11 DEF Finish, job, CallInv
  <1>12. CASE Fail
    BY <1>12 DEF Fail, job, CallInv
  <1>13. ASSUME NEW ks \in SUBSET Keys, WipeFails(ks) PROVE CallInv'
    BY <1>13 DEF WipeFails, job, CallInv
  <1>14. ASSUME NEW n \in 0..BatchSize, FlushFails(n) PROVE CallInv'
    BY <1>14 DEF FlushFails, job, CallInv
  <1>15. CASE UNCHANGED vars
    BY <1>15 DEF vars, job, CallInv
  <1> QED
    BY <1>1, <1>2, <1>3, <1>4, <1>5, <1>6, <1>7, <1>8, <1>9, <1>10, <1>11, <1>12, <1>13,
       <1>14, <1>15 DEF Next

\* Every step keeps pending a batch of records that were pulled.
LEMMA PendingStep ==
    ASSUME TypeOK, CallInv, PendingInv, [Next]_vars
    PROVE  PendingInv'
  <1> USE ConstantsAssumption
  <1>1. ASSUME NEW r \in Records, Grow(r) PROVE PendingInv'
    <2>1. pending' = pending /\ pos' = pos
      BY <1>1 DEF Grow, job
    <2>2. \A i \in 1..pos : log'[i] = log[i]
      BY <1>1, LogGrows
    <2>3. \A n \in DOMAIN pending' : \E i \in 1..pos' : pending'[n] = log'[i]
      BY <2>1, <2>2 DEF PendingInv
    <2>4. \A m \in 0..Len(pending') : HasLasts(SubSeq(pending', 1, m))
      BY <2>1 DEF PendingInv
    <2> QED
      BY <2>3, <2>4 DEF PendingInv, HasLasts, LastFor
  <1>2. ASSUME pending' = <<>> PROVE PendingInv'
    BY <1>2 DEF PendingInv, HasLasts
  <1>3. ASSUME UNCHANGED <<log, pending>>, pos' = pos \/ pos' = pos + 1 PROVE PendingInv'
    <2>1. \A i \in 1..pos : i \in 1..pos'
      BY <1>3 DEF TypeOK
    <2>2. \A n \in DOMAIN pending' : \E i \in 1..pos' : pending'[n] = log'[i]
      BY <1>3, <2>1 DEF PendingInv
    <2>3. \A m \in 0..Len(pending') : HasLasts(SubSeq(pending', 1, m))
      BY <1>3 DEF PendingInv
    <2> QED
      BY <2>2, <2>3 DEF PendingInv, HasLasts, LastFor
  <1>4. CASE Row
    <2> DEFINE r == log[pos + 1]
               t == Append(pending, r)
    <2>1. /\ pos \in Nat /\ pos + 1 \in DOMAIN log
          /\ log' = log /\ pos' = pos + 1 /\ pending' = t
          /\ log \in Seq(Records)
      BY <1>4 DEF Row, TypeOK
    <2>2. r \in Records
      BY <2>1, ElementFields
    <2>3. pending \in Seq(Records) /\ HasLasts(pending)
      BY BatchFacts
    <2>4. HasLasts(t)
      BY <2>2, <2>3, AppendLasts
    <2>5. /\ Len(pending) \in Nat /\ Len(t) = Len(pending) + 1
          /\ DOMAIN pending = 1..Len(pending) /\ DOMAIN t = 1..(Len(pending) + 1)
          /\ t[Len(pending) + 1] = r
          /\ \A n \in 1..Len(pending) : t[n] = pending[n]
          /\ \A m \in 0..Len(pending) : SubSeq(t, 1, m) = SubSeq(pending, 1, m)
          /\ SubSeq(t, 1, Len(pending) + 1) = t
      BY <2>2, <2>3
    <2>6. ASSUME NEW n \in DOMAIN t PROVE \E i \in 1..(pos + 1) : t[n] = log[i]
      <3>1. CASE n = Len(pending) + 1
        BY <2>1, <2>5, <3>1
      <3>2. CASE n \in DOMAIN pending
        <4>1. PICK i \in 1..pos : pending[n] = log[i]
          BY <3>2 DEF PendingInv
        <4> QED
          BY <2>1, <2>5, <3>2, <4>1
      <3> QED
        BY <2>5, <3>1, <3>2
    <2>7. ASSUME NEW m \in 0..Len(t) PROVE HasLasts(SubSeq(t, 1, m))
      <3>1. CASE m = Len(pending) + 1
        <4>1. SubSeq(t, 1, m) = t
          BY <2>5, <3>1
        <4> QED
          BY <2>4, <4>1, Zenon
      <3>2. CASE m \in 0..Len(pending)
        <4>1. HasLasts(SubSeq(pending, 1, m))
          BY <3>2 DEF PendingInv
        <4>2. SubSeq(t, 1, m) = SubSeq(pending, 1, m)
          BY <2>5, <3>2
        <4> QED
          BY <4>1, <4>2, Zenon
      <3> QED
        BY <2>5, <3>1, <3>2
    <2>8. \A n \in DOMAIN pending' : \E i \in 1..pos' : pending'[n] = log'[i]
      BY <2>1, <2>6
    <2>9. \A m \in 0..Len(pending') : HasLasts(SubSeq(pending', 1, m))
      BY <2>1, <2>7
    <2> QED
      BY <2>8, <2>9 DEF PendingInv, HasLasts, LastFor
  <1>5. \/ \E r \in Records : Grow(r)
        \/ Row
        \/ pending' = <<>>
        \/ UNCHANGED <<log, pending>> /\ (pos' = pos \/ pos' = pos + 1)
    BY DEF Next, Start, Scan, Wipe, ReadFloor, Skip, EndOfStream, Flush, Mark, Finish, Fail,
           WipeFails, FlushFails, vars, job
  <1> QED
    BY <1>1, <1>2, <1>3, <1>4, <1>5

\* Every step keeps the watermark a key of a record, below the one to come.
LEMMA WatermarkStep ==
    ASSUME TypeOK, CallInv, WatermarkInv, [Next]_vars
    PROVE  WatermarkInv'
  <1> USE ConstantsAssumption
  <1>1. ASSUME NEW r \in Records, Grow(r) PROVE WatermarkInv'
    BY <1>1, LogGrows DEF Grow, job, WatermarkInv, Active
  <1>2. ASSUME NEW m \in Modes, NEW p \in BOOLEAN, Start(m, p) PROVE WatermarkInv'
    BY <1>2 DEF Start, WatermarkInv, Active
  <1>3. CASE Scan
    BY <1>3 DEF Scan, WatermarkInv, Active
  <1>4. CASE Wipe
    BY <1>4 DEF Wipe, job, CallInv, WatermarkInv, Active
  <1>5. CASE ReadFloor
    BY <1>5 DEF ReadFloor, CallInv, WatermarkInv, Active
  <1>6. CASE Skip
    BY <1>6 DEF Skip, TypeOK, WatermarkInv, Active
  <1>7. CASE Row
    <2>1. /\ pos \in Nat /\ pos + 1 \in DOMAIN log /\ log[pos + 1].key \in 0..MaxKey
          /\ last_key \in 0..MaxKey /\ floor \in 0..MaxKey
      BY <1>7, ElementFields DEF Row, TypeOK, Keys
    <2>2. /\ watermark # 0 => \E j \in DOMAIN log : log[j].key = watermark
          /\ pc' \notin {"last", "mark"}
      BY <1>7 DEF Row, WatermarkInv
    <2>3. last_key' # 0 => \E j \in 1..(pos + 1) : log[j].key = last_key'
      BY <1>7, <2>1 DEF Row, WatermarkInv, Active
    <2>4. mode = "Delta" => floor = watermark /\ (last_key' # 0 => last_key' > floor)
      BY <1>7, <2>1 DEF Row, WatermarkInv, Active, Skips
    <2> QED
      BY <1>7, <2>2, <2>3, <2>4 DEF Row, WatermarkInv
  <1>8. CASE EndOfStream
    BY <1>8 DEF EndOfStream, job, TypeOK, WatermarkInv, Active
  <1>9. CASE Flush
    BY <1>9 DEF Flush, WatermarkInv, Active
  <1>10. CASE Mark
    BY <1>10 DEF Mark, job, TypeOK, WatermarkInv, Active
  <1>11. CASE Finish
    BY <1>11 DEF Finish, job, WatermarkInv, Active
  <1>12. CASE Fail
    BY <1>12 DEF Fail, job, WatermarkInv, Active
  <1>13. ASSUME NEW ks \in SUBSET Keys, WipeFails(ks) PROVE WatermarkInv'
    BY <1>13 DEF WipeFails, job, WatermarkInv, Active
  <1>14. ASSUME NEW n \in 0..BatchSize, FlushFails(n) PROVE WatermarkInv'
    BY <1>14 DEF FlushFails, job, WatermarkInv, Active
  <1>15. CASE UNCHANGED vars
    BY <1>15 DEF vars, job, WatermarkInv, Active
  <1> QED
    BY <1>1, <1>2, <1>3, <1>4, <1>5, <1>6, <1>7, <1>8, <1>9, <1>10, <1>11, <1>12, <1>13,
       <1>14, <1>15 DEF Next

\* In key order no key repeats, so a batch of records leaves those of the view in
\* place and adds its own.
LEMMA UniqueWritten ==
    ASSUME TypeOK, Increasing(log), NEW s \in Seq(Records), HasLasts(s),
           \A n \in DOMAIN s : \E j \in DOMAIN log : s[n] = log[j],
           NEW i \in DOMAIN log,
           InView(i) \/ \E n \in DOMAIN s : s[n] = log[i]
    PROVE  Written(view, s)[log[i].key] = log[i].value
  <1>1. /\ DOMAIN log \subseteq Nat /\ log[i].key \in Keys
        /\ \A j \in DOMAIN log : log[j].key \in 0..MaxKey
    BY ElementFields DEF TypeOK, Keys
  <1>2. CASE \A n \in DOMAIN s : s[n].key # log[i].key
    BY <1>1, <1>2, WrittenMiss DEF InView
  <1>3. CASE \E n \in DOMAIN s : s[n].key = log[i].key
    <2>1. PICK l \in DOMAIN s : s[l].key = log[i].key /\ LastFor(s, l)
      BY <1>3 DEF HasLasts
    <2>2. PICK j \in DOMAIN log : s[l] = log[j]
      OBVIOUS
    <2>3. i = j
      <3>1. log[j].key = log[i].key
        BY <2>1, <2>2
      <3> QED
        BY <1>1, <3>1, ConstantsAssumption DEF Increasing
    <2> QED
      BY <2>1, <2>2, <2>3, WrittenHit
  <1> QED
    BY <1>2, <1>3

\* The same of the batch that a flush writes, or of its part.
LEMMA FlushKeeps ==
    ASSUME TypeOK, PendingInv, Increasing(log), NEW n \in 0..Len(pending), NEW i \in DOMAIN log
    PROVE  /\ InView(i) => Written(view, SubSeq(pending, 1, n))[log[i].key] = log[i].value
           /\ InView(i) \/ Pending(i) => Written(view, pending)[log[i].key] = log[i].value
  <1>1. 1..pos \subseteq DOMAIN log
    BY DEF TypeOK
  <1>2. \A l \in DOMAIN pending : \E j \in DOMAIN log : pending[l] = log[j]
    BY <1>1 DEF PendingInv
  <1>3. \A l \in DOMAIN SubSeq(pending, 1, n) :
           \E j \in DOMAIN log : SubSeq(pending, 1, n)[l] = log[j]
    BY <1>2, BatchFacts
  <1>4. SubSeq(pending, 1, n) \in Seq(Records) /\ HasLasts(SubSeq(pending, 1, n))
    BY BatchFacts
  <1>5. InView(i) => Written(view, SubSeq(pending, 1, n))[log[i].key] = log[i].value
    BY <1>3, <1>4, UniqueWritten
  <1>6. InView(i) \/ Pending(i) => Written(view, pending)[log[i].key] = log[i].value
    BY <1>2, BatchFacts, UniqueWritten DEF Pending
  <1> QED
    BY <1>5, <1>6

\* Every step keeps the records pulled skipped, pending or in the view.
LEMMA CoveredStep ==
    ASSUME TypeOK, CallInv, PendingInv, CoveredInv, [Next]_vars
    PROVE  CoveredInv'
  <1> USE ConstantsAssumption
  <1>1. ASSUME NEW r \in Records, Grow(r) PROVE CoveredInv'
    <2>1. Increasing(log') => Increasing(log)
      BY <1>1, LogGrows DEF Increasing
    <2>2. \A i \in 1..pos : log'[i] = log[i]
      BY <1>1, LogGrows
    <2> SUFFICES ASSUME Increasing(log'), Active, mode # "DryRun", NEW i \in 1..pos
                 PROVE  (Skips(log[i]) \/ Pending(i) \/ InView(i))'
      BY <1>1 DEF Grow, job, CoveredInv, Active, Increasing
    <2>3. Skips(log[i]) \/ Pending(i) \/ InView(i)
      BY <2>1 DEF CoveredInv
    <2> QED
      BY <1>1, <2>2, <2>3 DEF Grow, job, Skips, Pending, InView
  <1>2. ASSUME pos' = 0 \/ ~Active' PROVE CoveredInv'
    BY <1>2 DEF CoveredInv
  <1>3. CASE Skip
    <2>1. /\ pos \in Nat
          /\ pos' = pos + 1 /\ Skips(log[pos + 1])
          /\ UNCHANGED <<log, view, pc, mode, floor, pending>>
      BY <1>3 DEF Skip, TypeOK
    <2> QED
      BY <2>1 DEF CoveredInv, Active, Skips, Pending, InView
  <1>4. CASE Row
    <2> SUFFICES ASSUME Increasing(log), mode # "DryRun", NEW i \in 1..(pos + 1)
                 PROVE  (Skips(log[i]) \/ Pending(i) \/ InView(i))'
      BY <1>4 DEF Row, CoveredInv
    <2>1. /\ pos \in Nat /\ log[pos + 1] \in Records
          /\ UNCHANGED <<log, view, mode, floor>>
          /\ pending' = Append(pending, log[pos + 1])
          /\ pending \in Seq(Records)
      BY <1>4, ElementFields DEF Row, TypeOK
    <2>2. /\ Len(pending) + 1 \in DOMAIN pending'
          /\ pending'[Len(pending) + 1] = log[pos + 1]
          /\ \A n \in DOMAIN pending : n \in DOMAIN pending' /\ pending'[n] = pending[n]
      BY <2>1
    <2>3. CASE i = pos + 1
      BY <2>1, <2>2, <2>3 DEF Pending
    <2>4. CASE i \in 1..pos
      <3>1. Skips(log[i]) \/ Pending(i) \/ InView(i)
        BY <1>4, <2>4 DEF CoveredInv, Active, Row
      <3> QED
        BY <2>1, <2>2, <3>1 DEF Skips, Pending, InView
    <2> QED
      BY <2>1, <2>3, <2>4
  <1>5. CASE Flush
    <2> SUFFICES ASSUME Increasing(log), mode # "DryRun", NEW i \in 1..pos
                 PROVE  (Skips(log[i]) \/ InView(i))'
      BY <1>5 DEF Flush, CoveredInv
    <2>1. Skips(log[i]) \/ Pending(i) \/ InView(i)
      BY <1>5 DEF CoveredInv, Active, Flush
    <2>2. i \in DOMAIN log /\ Len(pending) \in 0..Len(pending)
      BY DEF TypeOK
    <2>3. Pending(i) \/ InView(i) => Written(view, pending)[log[i].key] = log[i].value
      BY <2>2, FlushKeeps
    <2> QED
      BY <1>5, <2>1, <2>3 DEF Flush, Skips, InView
  <1>6. CASE EndOfStream
    BY <1>6 DEF EndOfStream, job, CoveredInv, Active, Skips, Pending, InView
  <1>7. CASE UNCHANGED vars
    BY <1>7 DEF vars, job, CoveredInv, Active, Skips, Pending, InView
  <1>8. \/ \E r \in Records : Grow(r)
        \/ Skip \/ Row \/ Flush \/ EndOfStream \/ UNCHANGED vars
        \/ pos' = 0 \/ ~Active'
    BY DEF Next, Start, Scan, Wipe, ReadFloor, Mark, Finish, Fail, WipeFails, FlushFails,
           job, Active, CallInv
  <1> QED
    BY <1>1, <1>2, <1>3, <1>4, <1>5, <1>6, <1>7, <1>8

\* Every step keeps the records up to the watermark in the view.
LEMMA DeltaStep ==
    ASSUME TypeOK, CallInv, WatermarkInv, PendingInv, CoveredInv, DeltaComplete, [Next]_vars
    PROVE  DeltaComplete'
  <1> USE ConstantsAssumption
  <1>1. ASSUME NEW r \in Records, Grow(r) PROVE DeltaComplete'
    <2> SUFFICES ASSUME Increasing(log'), ~torn, NEW i \in DOMAIN log',
                        watermark # 0, log'[i].key <= watermark
                 PROVE  view[log'[i].key] = log'[i].value
      BY <1>1 DEF Grow, DeltaComplete
    <2>1. Increasing(log)
      BY <1>1, LogGrows DEF Increasing
    <2>2. PICK j \in DOMAIN log : log[j].key = watermark
      BY DEF WatermarkInv
    <2>3. i # Len(log) + 1
      <3> SUFFICES ASSUME i = Len(log) + 1 PROVE FALSE
        OBVIOUS
      <3>1. j \in DOMAIN log' /\ j < i /\ log'[j] = log[j]
        BY <1>1, LogGrows
      <3>2. log'[j].key < log'[i].key
        BY <3>1 DEF Increasing
      <3>3. watermark \in 0..MaxKey /\ log'[i].key \in 0..MaxKey
        BY <1>1, LogGrows, ElementFields DEF TypeOK, Keys
      <3> QED
        BY <2>2, <3>1, <3>2, <3>3
    <2>4. i \in DOMAIN log /\ log'[i] = log[i]
      BY <1>1, <2>3, LogGrows
    <2> QED
      BY <2>1, <2>4 DEF DeltaComplete
  <1>2. ASSUME UNCHANGED <<log, view>>, watermark' = watermark \/ watermark' = 0, torn' = torn
        PROVE  DeltaComplete'
    BY <1>2 DEF DeltaComplete, Increasing
  <1>3. ASSUME NEW ks \in SUBSET Keys, view' = Erased(view, ks), torn' = (torn \/ ks # {}),
               UNCHANGED log, watermark' = watermark \/ watermark' = 0
        PROVE  DeltaComplete'
    <2>1. ~torn' => ~torn /\ ks = {}
      BY <1>3, Zenon
    <2>2. ks = {} => view' = view
      BY <1>3 DEF Erased, TypeOK
    <2> QED
      BY <1>3, <2>1, <2>2 DEF DeltaComplete, Increasing
  <1>4. ASSUME UNCHANGED <<log, watermark, torn>>,
               \E n \in 0..Len(pending) :
                  view' \in {view, Written(view, pending), Written(view, SubSeq(pending, 1, n))}
        PROVE  DeltaComplete'
    <2> SUFFICES ASSUME Increasing(log), ~torn, NEW i \in DOMAIN log,
                        watermark # 0, log[i].key <= watermark
                 PROVE  view'[log[i].key] = log[i].value
      BY <1>4 DEF DeltaComplete, Increasing
    <2>1. InView(i)
      BY DEF DeltaComplete, InView
    <2> QED
      BY <1>4, <2>1, FlushKeeps DEF InView
  \* A record up to a key of the records pulled was pulled, and is in the view.
  <1>5. ASSUME pc = "mark", mode # "DryRun", Increasing(log), NEW w,
               NEW j \in 1..pos, log[j].key = w, NEW i \in DOMAIN log, log[i].key <= w
        PROVE  Skips(log[i]) \/ InView(i)
    <2>1. /\ i \in Nat /\ j \in Nat /\ j \in DOMAIN log
          /\ log[i].key \in 0..MaxKey /\ log[j].key \in 0..MaxKey
      BY ElementFields DEF TypeOK, Keys
    <2>2. i <= j
      BY <1>5, <2>1 DEF Increasing
    <2>3. i \in 1..pos
      BY <2>1, <2>2 DEF TypeOK
    <2>4. ~Pending(i)
      BY <1>5 DEF CallInv, Pending
    <2> QED
      BY <1>5, <2>3, <2>4 DEF CoveredInv, Active
  <1>6. CASE Mark
    <2> SUFFICES ASSUME Increasing(log), ~torn, NEW i \in DOMAIN log, log[i].key <= last_key
                 PROVE  InView(i)
      BY <1>6 DEF Mark, DeltaComplete, Increasing, InView
    <2>1. PICK j \in 1..pos : log[j].key = last_key
      BY <1>6 DEF Mark, WatermarkInv, Active
    <2>2. Skips(log[i]) \/ InView(i)
      BY <1>5, <1>6, <2>1 DEF Mark
    <2>3. Skips(log[i]) => watermark # 0 /\ log[i].key <= watermark
      BY <1>6 DEF Mark, Skips, WatermarkInv, Active
    <2> QED
      BY <2>2, <2>3 DEF DeltaComplete, InView
  <1>7. CASE Finish
    <2> SUFFICES ASSUME Increasing(log), ~torn', NEW i \in DOMAIN log,
                        watermark # 0, log[i].key <= watermark
                 PROVE  InView(i)
      BY <1>7 DEF Finish, DeltaComplete, Increasing, InView
    <2>1. CASE ~torn
      BY <2>1 DEF DeltaComplete, InView
    <2>2. CASE mode \notin {"Delta", "DryRun"}
      <3>1. PICK j \in 1..pos : log[j].key = watermark
        BY <1>7 DEF Finish, WatermarkInv
      <3>2. Skips(log[i]) \/ InView(i)
        BY <1>5, <1>7, <2>2, <3>1 DEF Finish
      <3> QED
        BY <2>2, <3>2 DEF Skips
    <2>3. ~torn \/ mode \notin {"Delta", "DryRun"}
      BY <1>7, Zenon DEF Finish
    <2> QED
      BY <2>1, <2>2, <2>3
  <1>8. CASE Wipe
    <2>1. doomed \in SUBSET Keys
      BY DEF TypeOK
    <2>2. watermark' = watermark \/ watermark' = 0
      BY <1>8 DEF Wipe
    <2> QED
      BY <1>3, <1>8, <2>1, <2>2, Zenon DEF Wipe
  <1>9. ASSUME NEW ks \in SUBSET Keys, WipeFails(ks) PROVE DeltaComplete'
    BY <1>3, <1>9, Zenon DEF WipeFails
  <1>10. CASE Flush
    BY <1>4, <1>10 DEF Flush, TypeOK
  <1>11. ASSUME NEW n \in 0..BatchSize, FlushFails(n) PROVE DeltaComplete'
    <2>1. n \in 0..Len(pending)
      BY <1>11 DEF FlushFails, TypeOK
    <2> QED
      BY <1>4, <1>11, <2>1 DEF FlushFails
  <1>12. CASE \/ \E m \in Modes, p \in BOOLEAN : Start(m, p)
              \/ Scan \/ ReadFloor \/ Skip \/ Row \/ EndOfStream \/ Fail \/ UNCHANGED vars
    BY <1>2, <1>12 DEF Start, Scan, ReadFloor, Skip, Row, EndOfStream, Fail, vars
  <1> QED
    BY <1>1, <1>6, <1>7, <1>8, <1>9, <1>10, <1>11, <1>12 DEF Next

\* Every step keeps the view, with pending written to it, right for each key.
LEMMA SettledStep ==
    ASSUME TypeOK, CallInv, PendingInv, SettledInv, [Next]_vars
    PROVE  SettledInv'
  <1> USE ConstantsAssumption
  <1>1. ASSUME NEW r \in Records, Grow(r) PROVE SettledInv'
    <2>1. \A i \in 1..pos : log'[i] = log[i]
      BY <1>1, LogGrows
    <2>2. UNCHANGED <<view, pc, mode, pos, pending>> /\ pos \in Nat
      BY <1>1 DEF Grow, job, TypeOK
    <2>3. Written(view, pending)' = Written(view, pending)
      BY <2>2 DEF Written, LastFor
    <2> SUFFICES ASSUME Active, mode \in {"Upsert", "Replace"}, NEW k \in Keys
                 PROVE  Settled(k)'
      BY <2>2 DEF SettledInv, Active
    <2>4. Settled(k)
      BY DEF SettledInv
    <2> QED
      BY <2>1, <2>2, <2>3, <2>4 DEF Settled
  \* A run that pulled nothing: with Replace, the view is empty.
  <1>2. ASSUME pos' = 0, pending' = <<>>, view' \in [Keys -> Values \union {Absent}],
               mode' = "Replace" => \A k \in Keys : view'[k] = Absent
        PROVE  SettledInv'
    <2>1. Written(view', <<>>) = view'
      BY <1>2, WrittenEmpty
    <2>2. Written(view, pending)' = view'
      BY <1>2, <2>1 DEF Written, LastFor
    <2> QED
      BY <1>2, <2>2 DEF SettledInv, Settled
  <1>3. CASE \E m \in Modes, p \in BOOLEAN : Start(m, p)
    <2>1. /\ pos' = 0 /\ pending' = <<>> /\ view' \in [Keys -> Values \union {Absent}]
          /\ mode' = "Replace" => ~Active'
      BY <1>3 DEF Start, TypeOK, Active
    <2> QED
      BY <1>2, <2>1 DEF SettledInv
  <1>4. CASE Wipe
    <2>1. pos' = 0 /\ pending' = <<>>
      BY <1>4 DEF Wipe, job, CallInv
    <2>2. view' \in [Keys -> Values \union {Absent}]
      BY <1>4 DEF Wipe, Erased, TypeOK
    <2>3. \A k \in Keys : view'[k] = Absent
      BY <1>4 DEF Wipe, Erased, CallInv
    <2> QED
      BY <1>2, <2>1, <2>2, <2>3
  <1>5. CASE Row
    <2> DEFINE r == log[pos + 1]
    <2>1. /\ pos \in Nat /\ r \in Records /\ r.key \in Keys
          /\ UNCHANGED <<log, view, mode>>
          /\ pos' = pos + 1 /\ pending' = Append(pending, r)
          /\ Active
      BY <1>5, ElementFields DEF Row, TypeOK, Active
    <2> SUFFICES ASSUME mode \in {"Upsert", "Replace"}, NEW k \in Keys
                 PROVE  Settled(k)'
      BY <2>1 DEF SettledInv
    <2> DEFINE new == Written(view, Append(pending, r))[k]
    <2>2. new = IF k = r.key THEN r.value ELSE Written(view, pending)[k]
      <3>1. pending \in Seq(Records) /\ HasLasts(pending)
        BY BatchFacts
      <3>2. r \in Records
        BY <2>1
      <3> HIDE DEF r
      <3> QED
        BY <3>1, <3>2, WrittenAppend
    <2>3. Written(view, pending)'[k] = new
      BY <2>1 DEF Written, LastFor
    <2>4. Settled(k)
      BY <2>1 DEF SettledInv
    <2> HIDE DEF new
    <2>5. CASE k = r.key
      <3>1. /\ log[pos + 1].key = k
            /\ log[pos + 1].value = new
            /\ \A j \in (pos + 1 + 1)..(pos + 1) : log[j].key # k
        BY <2>1, <2>2, <2>5
      <3> QED
        BY <2>1, <2>3, <3>1 DEF Settled
    <2>6. CASE k # r.key
      BY <2>1, <2>2, <2>3, <2>4, <2>6 DEF Settled
    <2> QED
      BY <2>5, <2>6
  <1>6. CASE Flush
    <2> SUFFICES ASSUME mode \in {"Upsert", "Replace"}, NEW k \in Keys
                 PROVE  Settled(k)'
      BY <1>6 DEF SettledInv, Flush
    <2>1. /\ UNCHANGED <<log, mode, pos>>
          /\ view' = Written(view, pending) /\ pending' = <<>>
          /\ Active
      BY <1>6 DEF Flush, Active
    <2>2. Written(view, pending) \in [Keys -> Values \union {Absent}]
      BY BatchFacts, WrittenType DEF TypeOK
    <2>3. Written(view', <<>>) = view'
      BY <2>1, <2>2, WrittenEmpty
    <2>4. Written(view, pending)' = Written(view, pending)
      BY <2>1, <2>3 DEF Written, LastFor
    <2>5. Settled(k)
      BY <2>1 DEF SettledInv
    <2> QED
      BY <2>1, <2>4, <2>5 DEF Settled
  <1>7. CASE Skip
    BY <1>7 DEF Skip, Skips, SettledInv
  <1>8. CASE EndOfStream \/ UNCHANGED vars
    <2>1. UNCHANGED <<log, view, mode, pos, pending>> /\ (Active' => Active)
      BY <1>8 DEF EndOfStream, vars, job, Active
    <2>2. Written(view, pending)' = Written(view, pending)
      BY <2>1 DEF Written, LastFor
    <2> QED
      BY <2>1, <2>2 DEF SettledInv, Settled
  <1>9. CASE ~Active' \/ mode' \notin {"Upsert", "Replace"}
    BY <1>9 DEF SettledInv
  <1>10. \/ \E r \in Records : Grow(r)
         \/ \E m \in Modes, p \in BOOLEAN : Start(m, p)
         \/ Wipe \/ Row \/ Flush \/ Skip \/ EndOfStream \/ UNCHANGED vars
         \/ ~Active' \/ mode' \notin {"Upsert", "Replace"}
    BY DEF Next, Scan, ReadFloor, Mark, Finish, Fail, WipeFails, FlushFails, Active, CallInv
  <1> QED
    BY <1>1, <1>3, <1>4, <1>5, <1>6, <1>7, <1>8, <1>9, <1>10

-----------------------------------------------------------------------------
(* The results *)

\* Every step of every run, completed or failed, keeps the picture of the
\* invariant.
LEMMA StepInv == IInv /\ [Next]_vars => IInv'
  BY TypeStep, CallStep, WatermarkStep, PendingStep, CoveredStep, DeltaStep, SettledStep
  DEF IInv

\* In all reachable states of materialize the inductive invariant holds.
THEOREM InductiveInvariant == Spec => []IInv
  BY InitInv, StepInv, PTL DEF Spec

\* The variables of materialize keep their types, and pending never holds more
\* than flush_batch_size puts.
THEOREM TypeCorrect == Spec => []TypeOK
  BY InductiveInvariant, PTL DEF IInv

\* A Delta run skips nothing that is not in the view: for a source in key order
\* the rows up to the watermark are all there, after any failures.
THEOREM DeltaCorrect == Spec => []DeltaComplete
  BY InductiveInvariant, PTL DEF IInv

\* An Upsert or Replace run that is about to return has written, for each key, the
\* value of its last record, whatever the batches were; Replace leaves no other row.
THEOREM ViewCorrect == Spec => []FinishedView
  <1>1. IInv => FinishedView
    <2> SUFFICES ASSUME IInv, pc = "mark", mode \in {"Upsert", "Replace"}
                 PROVE  FinishedView
      BY DEF FinishedView
    <2>1. Written(view, pending) = view
      BY WrittenEmpty DEF IInv, CallInv, TypeOK
    <2>2. \A k \in Keys : Settled(k)
      BY DEF IInv, SettledInv, Active
    <2> QED
      BY <2>1, <2>2 DEF Settled, FinishedView
  <1> QED
    BY <1>1, InductiveInvariant, PTL

\* No step of any run moves the watermark back, except a Replace that deletes it.
THEOREM WatermarkCorrect == Spec => WatermarkAdvances
  <1> DEFINE A == watermark' # watermark =>
                     \/ watermark' > watermark
                     \/ mode = "Replace" /\ ~prefixed
  <1>1. IInv /\ [Next]_vars => [A]_vars
    <2> SUFFICES ASSUME IInv, Next, watermark' # watermark
                 PROVE  \/ watermark' > watermark
                        \/ mode = "Replace" /\ ~prefixed
      BY DEF vars
    <2>1. CASE Mark
      BY <2>1 DEF Mark, IInv, WatermarkInv, Active
    <2>2. CASE Wipe
      BY <2>2 DEF Wipe, IInv, CallInv
    <2>3. CASE \E ks \in SUBSET Keys : WipeFails(ks)
      BY <2>3 DEF WipeFails, IInv, CallInv
    <2> QED
      BY <2>1, <2>2, <2>3 DEF Next, Grow, Start, Scan, ReadFloor, Skip, Row, EndOfStream,
         Flush, Finish, Fail, FlushFails
  <1> QED
    BY <1>1, InductiveInvariant, PTL DEF Spec, WatermarkAdvances

=============================================================================
