-------------------------- MODULE ActorSystemProofs --------------------------
(***************************************************************************)
(* Proofs about ActorSystem, for any number of actors, any capacity and    *)
(* any number of messages.                                                 *)
(*                                                                         *)
(* The properties of a receiver depend on each other: an envelope is       *)
(* processed once because dedup_ remembers whatever is held or done, and   *)
(* those of one sender are processed in order because a new one has a      *)
(* number above all that are remembered.  Mail states them together, of    *)
(* what one actor holds (h), remembers (s), has done (d) and refused (r),  *)
(* and the keys others used in an actor's name (o); its lemmas say what an *)
(* append, a refusal and a receipt do to it.                               *)
(***************************************************************************)
EXTENDS ActorSystem, SequenceFacts, TLAPS

-----------------------------------------------------------------------------
(* The inductive invariant *)

Ordered(h, d, o) ==
    \A i \in DOMAIN h : h[i][1] \in Indices /\ h[i] \notin o =>
       /\ \A j \in DOMAIN h : i < j /\ h[j][1] = h[i][1] /\ h[j] \notin o => h[i][2] < h[j][2]
       /\ \A k \in d : k[1] = h[i][1] /\ k \notin o => k[2] < h[i][2]

Mail(h, s, d, r, o) ==
    /\ \A i, j \in DOMAIN h : Delivered(h[i]) /\ h[i] = h[j] => i = j
    /\ \A i \in DOMAIN h : Delivered(h[i]) => h[i] \notin d
    /\ \A i \in DOMAIN h : Delivered(h[i]) => h[i] \in s
    /\ \A k \in d : Delivered(k) => k \in s
    /\ \A k \in s : Delivered(k) /\ (k \in d \/ k \in r \/ \E i \in DOMAIN h : h[i] = k)
    /\ Ordered(h, d, o)

Mailboxes == \A a \in Indices : Mail(Held(a), seen[a], done[a], refused[a], borrowed[a])

\* Envelopes are pulled only while an actor is ticked.
Turn == chunk # <<>> => mode # "idle" /\ actor \in Indices /\ actor <= size

\* While tick_all has processed nothing in this round, the actors it has gone
\* past have nothing to process.
Quiet ==
    mode = "drain" /\ processed = 0 /\ chunk = <<>> =>
       \A a \in 1..size : a < actor => dormant[a] \/ inbox[a] = <<>>

IInv == TypeOK /\ Turn /\ Mailboxes /\ FreshSeq /\ Quiet

-----------------------------------------------------------------------------
(* What one receiver knows *)

\* The elements of a sequence that has grown or shrunk by one.
LEMMA Elements ==
    ASSUME NEW h \in Seq(Keys), NEW k \in Keys
    PROVE  /\ Append(h, k) \in Seq(Keys)
           /\ DOMAIN h = 1..Len(h) /\ Len(h) \in Nat
           /\ DOMAIN Append(h, k) = 1..(Len(h) + 1)
           /\ \A i \in 1..Len(h) : Append(h, k)[i] = h[i]
           /\ Append(h, k)[Len(h) + 1] = k
           /\ h # <<>> => /\ Len(h) >= 1 /\ Head(h) = h[1] /\ Tail(h) \in Seq(Keys)
                          /\ DOMAIN Tail(h) = 1..(Len(h) - 1)
                          /\ \A i \in 1..(Len(h) - 1) : Tail(h)[i] = h[i + 1]
OBVIOUS

\* An envelope whose key is new, and above those of its sender unless somebody
\* else used the sender's name, is pushed.
LEMMA MailAppend ==
    ASSUME NEW h \in Seq(Keys), NEW s, NEW d, NEW r, NEW o, NEW p, NEW k \in Keys,
           Mail(h, s, d, r, o), k \notin s, Delivered(k), o \subseteq p, p \subseteq o \union {k},
           k[1] \in Indices /\ k \notin p => \A x \in s \ o : x[1] = k[1] => x[2] < k[2]
    PROVE  Mail(Append(h, k), s \union {k}, d, r, p)
<1> DEFINE g == Append(h, k)
           n == Len(h)
<1>1. /\ DOMAIN h = 1..n /\ n \in Nat /\ DOMAIN g = 1..(n + 1) /\ g[n + 1] = k
      /\ \A i \in 1..n : g[i] = h[i]
  BY Elements
<1> HIDE DEF g, n
<1>2. 1..(n + 1) = (1..n) \union {n + 1} /\ n + 1 \notin 1..n
      /\ (\A i \in 1..n : i < n + 1) /\ (\A i \in 1..(n + 1) : ~(n + 1 < i))
  BY <1>1
<1>3. \A i \in 1..n : Delivered(h[i]) => h[i] # k
  BY <1>1 DEF Mail
<1>4. \A i, j \in DOMAIN g : Delivered(g[i]) /\ g[i] = g[j] => i = j
  BY <1>1, <1>2, <1>3 DEF Mail
<1>5. \A i \in DOMAIN g : Delivered(g[i]) => g[i] \notin d /\ g[i] \in s \union {k}
  BY <1>1, <1>2 DEF Mail
<1>6. \A x \in s \union {k} : Delivered(x) /\ (x \in d \/ x \in r \/ \E i \in DOMAIN g : g[i] = x)
  <2>1. \A x \in s : Delivered(x) /\ (x \in d \/ x \in r \/ \E i \in 1..n : h[i] = x)
    BY <1>1 DEF Mail
  <2>2. \A x \in s : (\E i \in 1..n : h[i] = x) => \E i \in DOMAIN g : g[i] = x
    BY <1>1, <1>2
  <2> QED BY <1>1, <1>2, <2>1, <2>2
<1>7. Ordered(g, d, p)
  <2>1. \A i \in 1..n : h[i][1] \in Indices => Delivered(h[i]) /\ h[i] \in s
    BY <1>1, ConstantsAssumption DEF Mail, Delivered, Indices
  <2>2. \A x \in d : x[1] \in Indices => x \in s
    BY ConstantsAssumption DEF Mail, Delivered, Indices
  <2>3. k[1] \in Indices /\ k \notin p => \A x \in d : x[1] = k[1] /\ x \notin p => x[2] < k[2]
    BY <2>2
  <2>4. \A i \in 1..n : h[i][1] \in Indices /\ h[i] \notin p /\ k[1] = h[i][1] /\ k \notin p
                          => h[i][2] < k[2]
    BY <2>1
  <2>5. \A i \in 1..n : h[i] \notin p => h[i] \notin o
    OBVIOUS
  <2>6. Ordered(h, d, o)
    BY DEF Mail
  <2>7. ASSUME NEW i \in DOMAIN g, g[i][1] \in Indices, g[i] \notin p
        PROVE  /\ \A j \in DOMAIN g : i < j /\ g[j][1] = g[i][1] /\ g[j] \notin p => g[i][2] < g[j][2]
               /\ \A x \in d : x[1] = g[i][1] /\ x \notin p => x[2] < g[i][2]
    <3>1. CASE i = n + 1
      BY <1>1, <1>2, <2>3, <2>7, <3>1
    <3>2. CASE i \in 1..n
      <4>1. g[i] = h[i] /\ h[i] \notin o /\ i \in DOMAIN h
        BY <1>1, <2>7, <3>2
      <4>2. \A j \in 1..n : i < j /\ h[j][1] = h[i][1] /\ h[j] \notin p => h[i][2] < h[j][2]
        BY <1>1, <2>5, <2>6, <2>7, <4>1 DEF Ordered
      <4>3. \A x \in d : x[1] = h[i][1] /\ x \notin p => x[2] < h[i][2]
        BY <2>6, <2>7, <4>1 DEF Ordered
      <4>4. k[1] = h[i][1] /\ k \notin p => h[i][2] < k[2]
        BY <2>4, <2>7, <3>2, <4>1
      <4> QED BY <1>1, <1>2, <4>1, <4>2, <4>3, <4>4
    <3> QED BY <1>1, <1>2, <3>1, <3>2
  <2> QED BY <2>7 DEF Ordered
<1>8. \A x \in d : Delivered(x) => x \in s \union {k}
  BY DEF Mail
<1> QED BY <1>4, <1>5, <1>6, <1>7, <1>8 DEF Mail, g

\* A full channel refuses an envelope, whose key stays in dedup_.
LEMMA MailRefuse ==
    ASSUME NEW h \in Seq(Keys), NEW s, NEW d, NEW r, NEW o, NEW p, NEW k \in Keys,
           Mail(h, s, d, r, o), Delivered(k), o \subseteq p
    PROVE  Mail(h, s \union {k}, d, r \union {k}, p)
<1>1. Ordered(h, d, p)
  BY DEF Mail, Ordered
<1> QED BY <1>1 DEF Mail

\* channel_push does not go through deliver.
LEMMA MailSystem ==
    ASSUME NEW h \in Seq(Keys), NEW s, NEW d, NEW r, NEW o, NEW k \in Keys,
           Mail(h, s, d, r, o), ~Delivered(k)
    PROVE  Mail(Append(h, k), s, d, r, o)
<1> DEFINE g == Append(h, k)
           n == Len(h)
<1>1. /\ DOMAIN h = 1..n /\ n \in Nat /\ DOMAIN g = 1..(n + 1) /\ g[n + 1] = k
      /\ \A i \in 1..n : g[i] = h[i]
  BY Elements
<1> HIDE DEF g, n
<1>2. 1..(n + 1) = (1..n) \union {n + 1}
  BY <1>1
<1>3. k[1] \notin Indices
  BY ConstantsAssumption DEF Delivered, Indices
<1>4. Ordered(g, d, o)
  BY <1>1, <1>2, <1>3 DEF Mail, Ordered
<1>5. \A i, j \in DOMAIN g : Delivered(g[i]) /\ g[i] = g[j] => i = j
  BY <1>1, <1>2 DEF Mail
<1>6. \A i \in DOMAIN g : Delivered(g[i]) => g[i] \notin d /\ g[i] \in s
  BY <1>1, <1>2 DEF Mail
<1>7. \A x \in s : Delivered(x) /\ (x \in d \/ x \in r \/ \E i \in DOMAIN g : g[i] = x)
  <2>1. \A x : (\E i \in 1..n : h[i] = x) => \E i \in DOMAIN g : g[i] = x
    BY <1>1, <1>2
  <2> QED BY <1>1, <2>1 DEF Mail
<1>8. \A x \in d : Delivered(x) => x \in s
  BY DEF Mail
<1> QED BY <1>4, <1>5, <1>6, <1>7, <1>8 DEF Mail, g

\* The oldest envelope is processed.
LEMMA MailTail ==
    ASSUME NEW h \in Seq(Keys), NEW s, NEW d, NEW r, NEW o, h # <<>>, Mail(h, s, d, r, o)
    PROVE  Mail(Tail(h), s, d \union {Head(h)}, r, o)
<1> DEFINE g == Tail(h)
           n == Len(h)
           k == Head(h)
<1>0. h[1] \in Keys
  OBVIOUS
<1>1. /\ DOMAIN h = 1..n /\ n \in Nat /\ n >= 1 /\ DOMAIN g = 1..(n - 1) /\ k = h[1]
      /\ \A i \in 1..(n - 1) : g[i] = h[i + 1]
  BY <1>0, Elements
<1> HIDE DEF g, n, k
<1>2. /\ 1 \in 1..n
      /\ \A i \in 1..(n - 1) : i + 1 \in 1..n /\ 1 < i + 1 /\ i + 1 # 1
      /\ \A i \in 1..n : i = 1 \/ (i - 1 \in 1..(n - 1) /\ i = (i - 1) + 1)
      /\ \A i, j \in 1..(n - 1) : (i < j => i + 1 < j + 1) /\ (i + 1 = j + 1 => i = j)
  <2>1. n \in Nat /\ n >= 1
    BY <1>1
  <2> QED BY <2>1
<1>3. ASSUME NEW i \in DOMAIN g, NEW j \in DOMAIN g, Delivered(g[i]), g[i] = g[j] PROVE i = j
  <2>1. i + 1 \in DOMAIN h /\ j + 1 \in DOMAIN h /\ h[i + 1] = g[i] /\ h[j + 1] = g[j]
    BY <1>1, <1>2
  <2>2. i + 1 = j + 1
    BY <1>3, <2>1 DEF Mail
  <2> QED BY <1>1, <1>2, <2>2
<1>4. \A i \in DOMAIN g : Delivered(g[i]) => g[i] \notin d \union {k} /\ g[i] \in s
  BY <1>1, <1>2 DEF Mail
<1>5. \A x \in d \union {k} : Delivered(x) => x \in s
  BY <1>1, <1>2 DEF Mail
<1>6. \A x \in s : /\ Delivered(x)
                   /\ x \in d \union {k} \/ x \in r \/ \E i \in DOMAIN g : g[i] = x
  <2>1. \A x \in s : Delivered(x) /\ (x \in d \/ x \in r \/ \E i \in 1..n : h[i] = x)
    BY <1>1 DEF Mail
  <2>2. ASSUME NEW x, NEW i \in 1..n, h[i] = x
        PROVE  x = k \/ \E j \in DOMAIN g : g[j] = x
    <3>1. CASE i = 1
      BY <1>1, <2>2, <3>1
    <3>2. CASE i # 1
      <4>1. i - 1 \in DOMAIN g /\ g[i - 1] = x
        BY <1>1, <1>2, <2>2, <3>2
      <4> QED BY <4>1
    <3> QED BY <3>1, <3>2
  <2> QED BY <2>1, <2>2
<1>7. Ordered(g, d \union {k}, o)
  <2>1. ASSUME NEW i \in DOMAIN g, g[i][1] \in Indices, g[i] \notin o
        PROVE  /\ \A j \in DOMAIN g : i < j /\ g[j][1] = g[i][1] /\ g[j] \notin o => g[i][2] < g[j][2]
               /\ \A x \in d : x[1] = g[i][1] /\ x \notin o => x[2] < g[i][2]
               /\ k[1] = g[i][1] /\ k \notin o => k[2] < g[i][2]
    <3>1. i + 1 \in DOMAIN h /\ h[i + 1] = g[i]
      BY <1>1, <1>2
    <3>2. \A j \in DOMAIN h : i + 1 < j /\ h[j][1] = g[i][1] /\ h[j] \notin o => g[i][2] < h[j][2]
      BY <2>1, <3>1 DEF Mail, Ordered
    <3>3. \A x \in d : x[1] = g[i][1] /\ x \notin o => x[2] < g[i][2]
      BY <2>1, <3>1 DEF Mail, Ordered
    <3>4. k[1] = g[i][1] /\ k \notin o => k[2] < g[i][2]
      <4>1. Ordered(h, d, o) /\ 1 \in DOMAIN h /\ h[1] = k /\ 1 < i + 1
        BY <1>1, <1>2 DEF Mail
      <4>2. h[1][1] \in Indices /\ h[1] \notin o =>
               \A j \in DOMAIN h : 1 < j /\ h[j][1] = h[1][1] /\ h[j] \notin o => h[1][2] < h[j][2]
        BY <4>1 DEF Ordered
      <4> QED BY <2>1, <3>1, <4>1, <4>2
    <3>5. \A j \in DOMAIN g : i < j => j + 1 \in DOMAIN h /\ i + 1 < j + 1 /\ h[j + 1] = g[j]
      BY <1>1, <1>2
    <3> QED BY <3>2, <3>3, <3>4, <3>5
  <2> QED BY <2>1 DEF Ordered
<1> QED BY <1>3, <1>4, <1>5, <1>6, <1>7 DEF Mail, g, k

\* That an envelope which did not come through deliver was processed need not be
\* known.
LEMMA MailForget ==
    ASSUME NEW h, NEW s, NEW d, NEW r, NEW o, NEW k, Mail(h, s, d \union {k}, r, o), ~Delivered(k)
    PROVE  Mail(h, s, d, r, o)
<1>1. Ordered(h, d, o)
  BY DEF Mail, Ordered
<1> QED BY <1>1 DEF Mail

\* A channel that is new or drained knows nothing.
LEMMA MailEmpty == Mail(<<>>, {}, {}, {}, {})
BY DEF Mail, Ordered

-----------------------------------------------------------------------------
(* deliver *)

\* What an actor holds is a sequence of keys.
LEMMA HeldType ==
    ASSUME TypeOK, NEW a \in Indices
    PROVE  Held(a) \in Seq(Keys)
BY DEF TypeOK, Held

\* The mailboxes of the other actors stay as they are.
LEMMA OneMailbox ==
    ASSUME Mailboxes, NEW b \in Indices,
           \A a \in Indices \ {b} : /\ Held(a)' = Held(a) /\ seen'[a] = seen[a]
                                    /\ done'[a] = done[a] /\ refused'[a] = refused[a]
                                    /\ borrowed'[a] = borrowed[a],
           Mail(Held(b)', seen'[b], done'[b], refused'[b], borrowed'[b])
    PROVE  Mailboxes'
<1> SUFFICES ASSUME NEW a \in Indices PROVE Mail(Held(a), seen[a], done[a], refused[a], borrowed[a])'
  BY DEF Mailboxes
<1>1. CASE a = b
  BY <1>1 DEF Mail, Ordered, Delivered
<1>2. CASE a # b
  <2>1. Mail(Held(a), seen[a], done[a], refused[a], borrowed[a])
    BY DEF Mailboxes
  <2> QED BY <1>2, <2>1 DEF Mail, Ordered, Delivered
<1> QED BY <1>1, <1>2

\* All of them do.
LEMMA SameMailboxes ==
    ASSUME Mailboxes, UNCHANGED <<seen, done, refused, borrowed>>,
           \A a \in Indices : Held(a)' = Held(a)
    PROVE  Mailboxes'
<1> SUFFICES ASSUME NEW a \in Indices PROVE Mail(Held(a), seen[a], done[a], refused[a], borrowed[a])'
  BY DEF Mailboxes
<1>1. Mail(Held(a), seen[a], done[a], refused[a], borrowed[a])
  BY DEF Mailboxes
<1> QED BY <1>1 DEF Mail, Ordered, Delivered

\* deliver changes at most one mailbox: the key is remembered, and the envelope
\* pushed or refused.
LEMMA DeliverCases ==
    ASSUME TypeOK, NEW a \in Indices, NEW k \in Keys, Deliver(a, k)
    PROVE  \/ ~Accepts(a, k) /\ UNCHANGED <<inbox, seen, refused>>
           \/ /\ Accepts(a, k) /\ k \notin seen[a] /\ ~dormant[a]
              /\ seen' = [seen EXCEPT ![a] = seen[a] \union {k}]
              /\ Len(inbox[a]) < Capacity
              /\ inbox' = [inbox EXCEPT ![a] = Append(inbox[a], k)]
              /\ UNCHANGED refused
           \/ /\ Accepts(a, k) /\ k \notin seen[a] /\ ~dormant[a]
              /\ seen' = [seen EXCEPT ![a] = seen[a] \union {k}]
              /\ refused' = [refused EXCEPT ![a] = refused[a] \union {k}]
              /\ UNCHANGED inbox
BY DEF Deliver, Accepts, Push, mailboxes

\* deliver keeps the types, and no mailbox exceeds its capacity.
LEMMA DeliverType ==
    ASSUME TypeOK, NEW a \in Indices, NEW k \in Keys, Deliver(a, k)
    PROVE  /\ inbox' \in [Indices -> Seq(Keys)]
           /\ \A b \in Indices : Len(inbox'[b]) <= Capacity
           /\ seen' \in [Indices -> SUBSET Keys]
           /\ refused' \in [Indices -> SUBSET Keys]
<1>1. CASE UNCHANGED <<inbox, seen, refused>>
  BY <1>1 DEF TypeOK
<1>2. CASE /\ seen' = [seen EXCEPT ![a] = seen[a] \union {k}]
           /\ refused' = [refused EXCEPT ![a] = refused[a] \union {k}]
           /\ UNCHANGED inbox
  BY <1>2 DEF TypeOK
<1>3. CASE /\ seen' = [seen EXCEPT ![a] = seen[a] \union {k}]
           /\ Len(inbox[a]) < Capacity
           /\ inbox' = [inbox EXCEPT ![a] = Append(inbox[a], k)]
           /\ UNCHANGED refused
  <2>1. inbox[a] \in Seq(Keys) /\ Append(inbox[a], k) \in Seq(Keys)
        /\ Len(Append(inbox[a], k)) = Len(inbox[a]) + 1 /\ Len(inbox[a]) \in Nat
    BY DEF TypeOK
  <2>2. Len(Append(inbox[a], k)) <= Capacity
    BY <1>3, <2>1, ConstantsAssumption
  <2> QED BY <1>3, <2>1, <2>2 DEF TypeOK
<1> QED BY <1>1, <1>2, <1>3, DeliverCases

\* The envelope is the actor's own and new, or its name was used.
NewOrBorrowed(a, k) ==
    \/ /\ UNCHANGED borrowed
       /\ k[1] \in Indices => \A x \in seen[a] \ borrowed[a] : x[1] = k[1] => x[2] < k[2]
    \/ borrowed' = IF Accepts(a, k) THEN [borrowed EXCEPT ![a] = borrowed[a] \union {k}]
                   ELSE borrowed

\* deliver keeps what the receivers know, if what an actor sends is new.
LEMMA DeliverMail ==
    ASSUME TypeOK, Mailboxes, NEW a \in Indices, NEW k \in Keys, Deliver(a, k), Delivered(k),
           NewOrBorrowed(a, k), UNCHANGED <<actor, chunk, done>>
    PROVE  Mailboxes'
<1>1. CASE ~Accepts(a, k) /\ UNCHANGED <<inbox, seen, refused>>
  <2>1. UNCHANGED borrowed
    BY <1>1 DEF NewOrBorrowed
  <2> QED BY <1>1, <2>1, SameMailboxes DEF Held
<1>0. /\ borrowed[a] \subseteq borrowed'[a] /\ borrowed'[a] \subseteq borrowed[a] \union {k}
      /\ \A b \in Indices \ {a} : borrowed'[b] = borrowed[b]
  BY DEF NewOrBorrowed, TypeOK
<1>2. Mail(Held(a), seen[a], done[a], refused[a], borrowed[a]) /\ Held(a) \in Seq(Keys)
  BY HeldType DEF Mailboxes
<1>3. CASE /\ Accepts(a, k) /\ k \notin seen[a]
           /\ seen' = [seen EXCEPT ![a] = seen[a] \union {k}]
           /\ inbox' = [inbox EXCEPT ![a] = Append(inbox[a], k)]
           /\ UNCHANGED refused
  <2>1. Held(a)' = Append(Held(a), k)
    <3>1. /\ inbox'[a] = Append(inbox[a], k) /\ inbox[a] \in Seq(Keys)
          /\ (IF a = actor THEN chunk ELSE <<>>) \in Seq(Keys)
      BY <1>3 DEF TypeOK
    <3>2. \A c \in Seq(Keys), q \in Seq(Keys) : c \o Append(q, k) = Append(c \o q, k)
      BY ConcatFacts
    <3>3. (IF a = actor THEN chunk ELSE <<>>) \o Append(inbox[a], k)
             = Append((IF a = actor THEN chunk ELSE <<>>) \o inbox[a], k)
      BY <3>1, <3>2
    <3> QED BY <3>1, <3>3 DEF Held
  <2>2. Mail(Append(Held(a), k), seen[a] \union {k}, done[a], refused[a], borrowed'[a])
    <3>1. k[1] \in Indices /\ k \notin borrowed'[a] =>
             \A x \in seen[a] \ borrowed[a] : x[1] = k[1] => x[2] < k[2]
      BY <1>3 DEF NewOrBorrowed, TypeOK
    <3> QED BY <1>0, <1>2, <1>3, <3>1, MailAppend
  <2>3. Mail(Held(a)', seen'[a], done'[a], refused'[a], borrowed'[a])
    BY <1>3, <2>1, <2>2 DEF TypeOK
  <2>4. \A b \in Indices \ {a} : /\ Held(b)' = Held(b) /\ seen'[b] = seen[b]
                                 /\ done'[b] = done[b] /\ refused'[b] = refused[b]
                                 /\ borrowed'[b] = borrowed[b]
    BY <1>0, <1>3 DEF Held, TypeOK
  <2> QED BY <2>3, <2>4, OneMailbox
<1>4. CASE /\ Accepts(a, k)
           /\ seen' = [seen EXCEPT ![a] = seen[a] \union {k}]
           /\ refused' = [refused EXCEPT ![a] = refused[a] \union {k}]
           /\ UNCHANGED inbox
  <2>1. \A b \in Indices : Held(b)' = Held(b)
    BY <1>4 DEF Held
  <2>2. Mail(Held(a), seen[a] \union {k}, done[a], refused[a] \union {k}, borrowed'[a])
    BY <1>0, <1>2, MailRefuse
  <2>3. Mail(Held(a)', seen'[a], done'[a], refused'[a], borrowed'[a])
    BY <1>4, <2>1, <2>2 DEF TypeOK
  <2>4. \A b \in Indices \ {a} : /\ Held(b)' = Held(b) /\ seen'[b] = seen[b]
                                 /\ done'[b] = done[b] /\ refused'[b] = refused[b]
                                 /\ borrowed'[b] = borrowed[b]
    BY <1>0, <1>4, <2>1 DEF TypeOK
  <2> QED BY <2>3, <2>4, OneMailbox
<1> QED BY <1>1, <1>3, <1>4, DeliverCases

\* deliver remembers no key but the one it is given.
LEMMA DeliverSeen ==
    ASSUME TypeOK, NEW a \in Indices, NEW k \in Keys, Deliver(a, k)
    PROVE  \A b \in Indices : seen'[b] \subseteq seen[b] \union {k}
<1>1. seen' = seen \/ seen' = [seen EXCEPT ![a] = seen[a] \union {k}]
  BY DeliverCases
<1> QED BY <1>1 DEF TypeOK

-----------------------------------------------------------------------------
(* The operations of the owner *)

\* The next numbers of the actors stay, and no key is remembered anew but from
\* outside or from the system.
LEMMA SameSeq ==
    ASSUME FreshSeq, UNCHANGED <<actor, chunk, ctx_seq, next_seq>>,
           \A b \in Indices : \A k \in seen'[b] \ borrowed'[b] :
              k \in seen[b] \ borrowed[b] \/ k[1] \notin Indices
    PROVE  FreshSeq'
<1>1. \A a \in Indices : CurrentSeq(a)' = CurrentSeq(a)
  BY DEF CurrentSeq
<1> QED BY <1>1 DEF FreshSeq

\* An envelope that comes from outside when the system is idle.
LEMMA OutsideIInv ==
    ASSUME IInv, NEW a \in Indices, NEW k \in Keys, Delivered(k), Idle, Deliver(a, k),
           UNCHANGED <<size, next_seq, dormant, turn, done>>,
           \/ k[1] \notin Indices /\ UNCHANGED borrowed
           \/ borrowed' = IF Accepts(a, k) THEN [borrowed EXCEPT ![a] = borrowed[a] \union {k}]
                          ELSE borrowed
    PROVE  IInv'
<1>1. TypeOK /\ Mailboxes /\ borrowed \in [Indices -> SUBSET Keys]
  BY DEF IInv, TypeOK
<1>2. UNCHANGED <<size, next_seq, dormant, mode, actor, chunk, ctx_seq, processed, round, done>>
  BY DEF turn
<1>3. TypeOK'
  <2>1. borrowed' \in [Indices -> SUBSET Keys]
    BY <1>1
  <2> QED BY <1>1, <1>2, <2>1, DeliverType DEF TypeOK
<1>4. Mailboxes'
  <2>1. NewOrBorrowed(a, k)
    BY DEF NewOrBorrowed
  <2> QED BY <1>1, <1>2, <2>1, DeliverMail
<1>5. FreshSeq'
  <2>1. ASSUME NEW b \in Indices, NEW x \in seen'[b] \ borrowed'[b]
        PROVE  x \in seen[b] \ borrowed[b] \/ x[1] \notin Indices
    <3>1. CASE ~Accepts(a, k) /\ UNCHANGED seen
      BY <2>1, <3>1
    <3>2. CASE Accepts(a, k) /\ seen' = [seen EXCEPT ![a] = seen[a] \union {k}]
      BY <1>1, <2>1, <3>2 DEF TypeOK
    <3> QED BY <1>1, <3>1, <3>2, DeliverCases
  <2> QED BY <1>2, <2>1, SameSeq DEF IInv
<1>6. Turn' /\ Quiet'
  BY <1>2 DEF IInv, Turn, Quiet, Idle
<1> QED BY <1>3, <1>4, <1>5, <1>6 DEF IInv

\* Whatever the owner does when the system is idle keeps the invariant.
LEMMA OperationIInv ==
    ASSUME IInv, Operation
    PROVE  IInv'
<1>1. ASSUME NEW env \in Outside, DeliverOutside(env[1], env[2], env[3]) PROVE IInv'
  <2>1. /\ env[1] \in Indices /\ <<env[2], env[3]>> \in Keys /\ Delivered(<<env[2], env[3]>>)
    BY ConstantsAssumption DEF Keys, Senders, Delivered, Indices
  <2> QED BY <1>1, <2>1, OutsideIInv DEF DeliverOutside
<1>2. ASSUME NEW a \in Indices, Inject(a) PROVE IInv'
  <2>1. /\ <<External, 0>> \in Keys /\ Delivered(<<External, 0>>)
        /\ <<External, 0>>[1] \notin Indices
    BY ConstantsAssumption DEF Keys, Senders, Delivered, Indices
  <2> QED BY <1>2, <2>1, OutsideIInv DEF Inject
<1>3. ASSUME NEW a \in Indices, ChannelPush(a) PROVE IInv'
  <2>1. /\ <<System, 0>> \in Keys /\ ~Delivered(<<System, 0>>)
    BY DEF Keys, Senders, Delivered
  <2>2. /\ inbox' = [inbox EXCEPT ![a] = Append(inbox[a], <<System, 0>>)]
        /\ Len(inbox[a]) < Capacity /\ mode = "idle"
        /\ UNCHANGED <<size, seen, refused, next_seq, dormant, mode, actor, chunk, ctx_seq,
                       processed, round, done, borrowed>>
    BY <1>3 DEF ChannelPush, Idle, turn
  <2>3. TypeOK'
    <3>1. /\ inbox[a] \in Seq(Keys) /\ Append(inbox[a], <<System, 0>>) \in Seq(Keys)
          /\ Len(inbox[a]) \in Nat /\ Len(Append(inbox[a], <<System, 0>>)) = Len(inbox[a]) + 1
      BY <2>1 DEF IInv, TypeOK
    <3>2. Len(Append(inbox[a], <<System, 0>>)) <= Capacity
      BY <2>2, <3>1, ConstantsAssumption
    <3> QED BY <2>2, <3>1, <3>2 DEF IInv, TypeOK
  <2>4. Mailboxes'
    <3>1. Held(a)' = Append(Held(a), <<System, 0>>)
      <4>1. /\ inbox'[a] = Append(inbox[a], <<System, 0>>) /\ inbox[a] \in Seq(Keys)
            /\ (IF a = actor THEN chunk ELSE <<>>) \in Seq(Keys)
        BY <2>2 DEF IInv, TypeOK
      <4>2. \A c \in Seq(Keys), q \in Seq(Keys) :
               c \o Append(q, <<System, 0>>) = Append(c \o q, <<System, 0>>)
        BY <2>1, ConcatFacts
      <4>3. (IF a = actor THEN chunk ELSE <<>>) \o Append(inbox[a], <<System, 0>>)
               = Append((IF a = actor THEN chunk ELSE <<>>) \o inbox[a], <<System, 0>>)
        BY <4>1, <4>2
      <4> QED BY <2>2, <4>1, <4>3 DEF Held
    <3>2. Mail(Append(Held(a), <<System, 0>>), seen[a], done[a], refused[a], borrowed[a])
      BY <2>1, MailSystem, HeldType DEF IInv, Mailboxes
    <3>3. \A b \in Indices \ {a} : Held(b)' = Held(b)
      BY <2>2 DEF Held, IInv, TypeOK
    <3> QED BY <2>2, <3>1, <3>2, <3>3, OneMailbox DEF IInv
  <2>5. FreshSeq'
    BY <2>2, SameSeq DEF IInv
  <2>6. Turn' /\ Quiet'
    BY <2>2 DEF IInv, Turn, Quiet
  <2> QED BY <2>3, <2>4, <2>5, <2>6 DEF IInv
<1>4. ASSUME NEW a \in Indices, ChannelDrain(a) PROVE IInv'
  <2>1. /\ inbox' = [inbox EXCEPT ![a] = <<>>]
        /\ seen' = [seen EXCEPT ![a] = {}]
        /\ refused' = [refused EXCEPT ![a] = {}]
        /\ done' = [done EXCEPT ![a] = {}]
        /\ borrowed' = [borrowed EXCEPT ![a] = {}] /\ mode = "idle"
        /\ UNCHANGED <<size, next_seq, dormant, mode, actor, chunk, ctx_seq, processed, round>>
    BY <1>4 DEF ChannelDrain, Idle, turn
  <2>2. TypeOK'
    BY <2>1, ConstantsAssumption DEF IInv, TypeOK
  <2>3. Mailboxes'
    <3>1. chunk = <<>>
      BY <2>1 DEF IInv, Turn
    <3>2. Held(a)' = <<>>
      BY <2>1, <3>1 DEF Held, IInv, TypeOK
    <3>3. \A b \in Indices \ {a} : /\ Held(b)' = Held(b) /\ seen'[b] = seen[b]
                                   /\ done'[b] = done[b] /\ refused'[b] = refused[b]
                                   /\ borrowed'[b] = borrowed[b]
      BY <2>1 DEF Held, IInv, TypeOK
    <3>4. seen'[a] = {} /\ done'[a] = {} /\ refused'[a] = {} /\ borrowed'[a] = {}
      BY <2>1 DEF IInv, TypeOK
    <3> QED BY <3>2, <3>3, <3>4, OneMailbox, MailEmpty DEF IInv
  <2>4. FreshSeq'
    BY <2>1, SameSeq DEF IInv, TypeOK
  <2>5. Turn' /\ Quiet'
    BY <2>1 DEF IInv, Turn, Quiet
  <2> QED BY <2>2, <2>3, <2>4, <2>5 DEF IInv
<1>5. ASSUME Spawn \/ \E a \in Indices : SetLifecycle(a) PROVE IInv'
  <2>1. /\ mode = "idle" /\ size <= size' /\ size' \in 0..MaxActors
        /\ dormant' \in [Indices -> BOOLEAN]
        /\ UNCHANGED <<inbox, seen, refused, next_seq, mode, actor, chunk, ctx_seq, processed,
                       round, done, borrowed>>
    <3>1. size \in 0..MaxActors /\ dormant \in [Indices -> BOOLEAN] /\ MaxActors \in Nat
      BY ConstantsAssumption DEF IInv, TypeOK
    <3>2. CASE Spawn
      BY <3>1, <3>2 DEF Spawn, Idle, turn, mailboxes
    <3>3. ASSUME NEW a \in Indices, SetLifecycle(a)
          PROVE  dormant' \in [Indices -> BOOLEAN]
      <4>1. dormant' = [dormant EXCEPT ![a] = ~dormant[a]] /\ (~dormant[a]) \in BOOLEAN
        BY <3>3 DEF SetLifecycle
      <4> QED BY <3>1, <4>1
    <3>4. CASE \E a \in Indices : SetLifecycle(a)
      BY <3>1, <3>3, <3>4 DEF SetLifecycle, Idle, turn, mailboxes
    <3> QED BY <1>5, <3>2, <3>4
  <2>2. TypeOK'
    BY <2>1 DEF IInv, TypeOK
  <2>3. Mailboxes'
    BY <2>1, SameMailboxes DEF IInv, Held
  <2>4. FreshSeq'
    BY <2>1, SameSeq DEF IInv
  <2>5. Turn' /\ Quiet'
    BY <2>1 DEF IInv, Turn, Quiet
  <2> QED BY <2>2, <2>3, <2>4, <2>5 DEF IInv
<1>6. ASSUME Drain \/ \E a \in Indices : Tick(a) PROVE IInv'
  <2>1. /\ mode = "idle" /\ mode' \in {"tick", "drain"} /\ actor' \in Indices
        /\ mode' = "drain" => actor' = 1
        /\ processed' \in Nat /\ round' \in 0..MaxRounds
        /\ UNCHANGED <<size, inbox, seen, refused, next_seq, dormant, chunk, ctx_seq, done, borrowed>>
    <3>1. processed \in Nat /\ round \in 0..MaxRounds /\ 1 \in Indices /\ 1 \in 0..MaxRounds
      BY ConstantsAssumption DEF IInv, TypeOK, Indices
    <3> QED BY <1>6, <3>1 DEF Drain, StartRound, Tick, Idle, mailboxes
  <2>2. chunk = <<>>
    BY <2>1 DEF IInv, Turn
  <2>3. TypeOK'
    BY <2>1, ConstantsAssumption DEF IInv, TypeOK, Indices
  <2>4. Mailboxes'
    BY <2>1, <2>2, SameMailboxes DEF IInv, Held
  <2>5. FreshSeq'
    <3>1. \A a \in Indices : CurrentSeq(a)' = CurrentSeq(a)
      BY <2>1, <2>2 DEF CurrentSeq
    <3> QED BY <2>1, <3>1 DEF IInv, FreshSeq
  <2>6. Turn' /\ Quiet'
    BY <2>1, <2>2 DEF Turn, Quiet
  <2> QED BY <2>3, <2>4, <2>5, <2>6 DEF IInv
<1> QED BY <1>1, <1>2, <1>3, <1>4, <1>5, <1>6 DEF Operation

-----------------------------------------------------------------------------
(* What happens within tick and drain *)

\* A dormant actor, or one without mail, is passed over.
LEMMA SkipIInv == IInv /\ Skip => IInv'
<1> SUFFICES ASSUME IInv, Skip PROVE IInv'
  OBVIOUS
<1>1. /\ mode \in {"tick", "drain"} /\ actor <= size /\ chunk = <<>>
      /\ dormant[actor] \/ inbox[actor] = <<>>
      /\ mode' = IF mode = "tick" THEN "idle" ELSE "drain"
      /\ actor' = IF mode = "tick" THEN 1 ELSE actor + 1
      /\ UNCHANGED <<size, inbox, seen, refused, next_seq, dormant, chunk, ctx_seq, processed,
                     round, done, borrowed>>
  BY DEF Skip, Ticking, NextActor, mailboxes
<1>2. TypeOK'
  BY <1>1, ConstantsAssumption DEF IInv, TypeOK
<1>3. Mailboxes'
  BY <1>1, SameMailboxes DEF IInv, Held
<1>4. FreshSeq'
  BY <1>1 DEF IInv, FreshSeq, CurrentSeq
<1>5. Quiet'
  <2> SUFFICES ASSUME mode' = "drain", processed' = 0, NEW a \in 1..size, a < actor'
               PROVE  dormant[a] \/ inbox[a] = <<>>
    BY <1>1 DEF Quiet
  <2>1. a < actor \/ a = actor
    BY <1>1, ConstantsAssumption DEF IInv, TypeOK
  <2> QED BY <1>1, <2>1 DEF IInv, Quiet
<1> QED BY <1>1, <1>2, <1>3, <1>4, <1>5 DEF IInv, Turn

\* The whole inbox is pulled.
LEMMA PullIInv == IInv /\ Pull => IInv'
<1> SUFFICES ASSUME IInv, Pull PROVE IInv'
  OBVIOUS
<1>1. /\ mode \in {"tick", "drain"} /\ actor <= size /\ chunk = <<>>
      /\ chunk' = inbox[actor] /\ inbox[actor] # <<>>
      /\ inbox' = [inbox EXCEPT ![actor] = <<>>]
      /\ ctx_seq' = next_seq[actor]
      /\ UNCHANGED <<size, seen, refused, next_seq, dormant, mode, actor, processed, round, done, borrowed>>
  BY DEF Pull, Ticking
<1>2. actor \in Indices
  BY <1>1, ConstantsAssumption DEF IInv, TypeOK, Indices
<1>3. TypeOK'
  BY <1>1, <1>2, ConstantsAssumption DEF IInv, TypeOK
<1>4. Mailboxes'
  <2>1. ASSUME NEW a \in Indices, a = actor PROVE Held(a)' = Held(a)
    <3>1. inbox[a] \in Seq(Keys) /\ <<>> \o inbox[a] = inbox[a] /\ inbox[a] \o <<>> = inbox[a]
      <4>1. inbox[a] \in Seq(Keys)
        BY DEF IInv, TypeOK
      <4> QED BY <4>1, ConcatFacts, ConstantsAssumption DEF Keys, Senders
    <3>2. inbox'[a] = <<>> /\ a = actor'
      BY <1>1, <2>1 DEF IInv, TypeOK
    <3> QED BY <1>1, <2>1, <3>1, <3>2 DEF Held
  <2>2. ASSUME NEW a \in Indices, a # actor PROVE Held(a)' = Held(a)
    BY <1>1, <2>2 DEF Held, IInv, TypeOK
  <2> QED BY <1>1, <2>1, <2>2, SameMailboxes DEF IInv
<1>5. FreshSeq'
  <2>1. \A a \in Indices : CurrentSeq(a)' = CurrentSeq(a)
    BY <1>1 DEF CurrentSeq
  <2> QED BY <1>1, <2>1 DEF IInv, FreshSeq
<1> QED BY <1>1, <1>2, <1>3, <1>4, <1>5 DEF IInv, Turn, Quiet

\* on_receive sends an envelope.
LEMMA SendIInv ==
    ASSUME IInv, NEW a \in Indices, Send(a)
    PROVE  IInv'
<1> DEFINE k == <<actor, ctx_seq>>
<1>1. /\ chunk # <<>> /\ Deliver(a, k) /\ ctx_seq' = ctx_seq + 1
      /\ UNCHANGED <<size, next_seq, dormant, mode, actor, chunk, processed, round, done, borrowed>>
  BY DEF Send
<1>2. actor \in Indices /\ ctx_seq \in Nat /\ TypeOK /\ Mailboxes
  BY <1>1 DEF IInv, Turn, TypeOK
<1>3. k \in Keys /\ Delivered(k) /\ k[1] = actor /\ k[2] = ctx_seq
  BY <1>2, ConstantsAssumption DEF Keys, Senders, Delivered, Indices
<1>4. \A b \in Indices : \A x \in seen[b] \ borrowed[b] : x[1] = actor => x[2] < ctx_seq
  BY <1>1, <1>2 DEF IInv, FreshSeq, CurrentSeq
<1> HIDE DEF k
<1>5. TypeOK'
  <2>1. /\ inbox' \in [Indices -> Seq(Keys)]
        /\ \A b \in Indices : Len(inbox'[b]) <= Capacity
        /\ seen' \in [Indices -> SUBSET Keys]
        /\ refused' \in [Indices -> SUBSET Keys]
    BY <1>1, <1>2, <1>3, DeliverType
  <2>2. ctx_seq' \in Nat
    BY <1>1, <1>2
  <2> QED BY <1>1, <1>2, <2>1, <2>2 DEF TypeOK
<1>6. Mailboxes'
  <2>1. NewOrBorrowed(a, k)
    BY <1>1, <1>3, <1>4 DEF NewOrBorrowed
  <2> QED BY <1>1, <1>2, <1>3, <2>1, DeliverMail
<1>7. FreshSeq'
  <2> SUFFICES ASSUME NEW c \in Indices, NEW b \in Indices, NEW x \in seen'[b] \ borrowed'[b], x[1] = c
               PROVE  x[2] < CurrentSeq(c)'
    BY DEF FreshSeq
  <2>1. x \in seen[b] \ borrowed[b] \/ x = k
    BY <1>1, <1>2, <1>3, DeliverSeen
  <2>2. CASE c = actor
    <3>1. CurrentSeq(c)' = ctx_seq + 1
      BY <1>1, <2>2 DEF CurrentSeq
    <3>2. x \in Keys
      BY <1>3, <2>1 DEF IInv, TypeOK
    <3>3. x[2] \in Nat /\ (x[2] < ctx_seq \/ x[2] = ctx_seq)
      BY <1>3, <1>4, <2>1, <2>2, <3>2 DEF Keys
    <3> QED BY <1>2, <3>1, <3>3
  <2>3. CASE c # actor
    <3>1. x \in seen[b] \ borrowed[b]
      BY <1>3, <2>1, <2>3
    <3>2. CurrentSeq(c)' = CurrentSeq(c)
      BY <1>1, <2>3 DEF CurrentSeq
    <3> QED BY <3>1, <3>2 DEF IInv, FreshSeq
  <2> QED BY <2>2, <2>3
<1> QED BY <1>1, <1>5, <1>6, <1>7 DEF IInv, Turn, Quiet

\* on_receive returns.
LEMMA ReceivedIInv == IInv /\ Received => IInv'
<1> SUFFICES ASSUME IInv, Received PROVE IInv'
  OBVIOUS
<1>1. /\ chunk # <<>> /\ chunk' = Tail(chunk)
      /\ done' = [done EXCEPT ![actor] = IF Delivered(Head(chunk)) THEN done[actor] \union {Head(chunk)}
                                         ELSE done[actor]]
      /\ processed' = IF mode = "drain" THEN processed + 1 ELSE processed
      /\ UNCHANGED <<size, inbox, seen, refused, dormant, round, borrowed>>
  BY DEF Received, mailboxes
<1>2. /\ mode # "idle" /\ actor \in Indices /\ actor <= size /\ actor \in Nat
      /\ chunk \in Seq(Keys) /\ Head(chunk) \in Keys /\ Tail(chunk) \in Seq(Keys)
      /\ Len(chunk) = 1 <=> Tail(chunk) = <<>>
  <2>1. chunk \in Seq(Keys) /\ mode # "idle" /\ actor \in Indices /\ actor <= size
    BY <1>1 DEF IInv, Turn, TypeOK
  <2>2. actor \in Nat
    BY <2>1 DEF Indices
  <2>3. Head(chunk) \in Keys /\ Tail(chunk) \in Seq(Keys)
    BY <1>1, <2>1
  <2>4. Len(chunk) = 1 <=> Tail(chunk) = <<>>
    <3>1. Len(Tail(chunk)) = Len(chunk) - 1 /\ Len(chunk) \in Nat
      BY <1>1, <2>1
    <3>2. \A q \in Seq(Keys) : Len(q) = 0 <=> q = <<>>
      OBVIOUS
    <3>3. Len(Tail(chunk)) = 0 <=> Tail(chunk) = <<>>
      BY <2>3, <3>2
    <3> QED BY <3>1, <3>3
  <2> QED BY <2>1, <2>2, <2>3, <2>4
<1>3. \/ /\ chunk' = <<>>
         /\ next_seq' = [next_seq EXCEPT ![actor] = ctx_seq]
         /\ ctx_seq' = 0
         /\ mode' = IF mode = "tick" THEN "idle" ELSE "drain"
         /\ actor' = IF mode = "tick" THEN 1 ELSE actor + 1
      \/ chunk' # <<>> /\ UNCHANGED <<next_seq, ctx_seq, mode, actor>>
  BY <1>1, <1>2 DEF Received, NextActor
<1>4. TypeOK'
  <2>1. done' \in [Indices -> SUBSET Keys]
    BY <1>1, <1>2 DEF IInv, TypeOK
  <2>2. actor' \in 1..(MaxActors + 1) /\ processed' \in Nat
    BY <1>1, <1>2, <1>3, ConstantsAssumption DEF IInv, TypeOK
  <2>3. /\ next_seq' \in [Indices -> Nat] /\ ctx_seq' \in Nat
        /\ mode' \in {"idle", "tick", "drain"}
    <3>1. next_seq \in [Indices -> Nat] /\ ctx_seq \in Nat /\ mode \in {"idle", "tick", "drain"}
      BY DEF IInv, TypeOK
    <3> QED BY <1>3, <3>1
  <2> QED BY <1>1, <1>2, <2>1, <2>2, <2>3 DEF IInv, TypeOK
<1>5. Mailboxes'
  <2>1. PICK b \in Indices : b = actor
    BY <1>2
  <2>2. inbox[b] \in Seq(Keys)
    BY DEF IInv, TypeOK
  <2>3. Held(b) = chunk \o inbox[b]
    BY <2>1 DEF Held
  <2>4. Held(b)' = Tail(chunk) \o inbox[b]
    BY <1>1, <1>3, <2>1 DEF Held
  <2>5. Held(b) # <<>> /\ Head(Held(b)) = Head(chunk) /\ Held(b)' = Tail(Held(b))
    BY <1>1, <1>2, <2>2, <2>3, <2>4, ConcatTail
  <2>6. Mail(Tail(Held(b)), seen[b], done[b] \union {Head(chunk)}, refused[b], borrowed[b])
    BY <2>5, MailTail, HeldType DEF IInv, Mailboxes
  <2>7. done'[b] = IF Delivered(Head(chunk)) THEN done[b] \union {Head(chunk)} ELSE done[b]
    BY <1>1, <2>1 DEF IInv, TypeOK
  <2>8. Mail(Tail(Held(b)), seen[b], done'[b], refused[b], borrowed[b])
    BY <2>6, <2>7, MailForget
  <2>9. ASSUME NEW a \in Indices \ {b}
        PROVE  Held(a)' = Held(a) /\ done'[a] = done[a]
    <3>1. Held(a) = <<>> \o inbox[a] /\ Held(a)' = <<>> \o inbox[a]
      BY <1>1, <1>3, <2>1 DEF Held
    <3> QED BY <1>1, <2>1, <3>1 DEF IInv, TypeOK
  <2> QED BY <1>1, <2>5, <2>8, <2>9, OneMailbox DEF IInv
<1>6. FreshSeq'
  <2>1. \A a \in Indices : CurrentSeq(a)' = CurrentSeq(a)
    BY <1>1, <1>2, <1>3 DEF CurrentSeq, IInv, TypeOK
  <2> QED BY <1>1, <2>1 DEF IInv, FreshSeq
<1>7. Turn'
  BY <1>1, <1>2, <1>3 DEF IInv, Turn
<1>8. Quiet'
  <2>1. mode' = "drain" => mode = "drain"
    BY <1>2, <1>3 DEF IInv, TypeOK
  <2>2. processed \in Nat
    BY DEF IInv, TypeOK
  <2>3. mode' = "drain" => processed' # 0
    BY <1>1, <2>1, <2>2
  <2> QED BY <2>3 DEF Quiet
<1> QED BY <1>4, <1>5, <1>6, <1>7, <1>8 DEF IInv

\* A round ends.
LEMMA RoundIInv == IInv /\ (NextRound \/ Quiescent \/ GiveUp) => IInv'
<1> SUFFICES ASSUME IInv, NextRound \/ Quiescent \/ GiveUp PROVE IInv'
  OBVIOUS
<1>1. round \in 0..MaxRounds /\ MaxRounds \in Nat
  BY ConstantsAssumption DEF IInv, TypeOK
<1>2. /\ chunk = <<>> /\ actor' = 1 /\ mode' \in {"idle", "drain"} /\ processed' = 0
      /\ round' \in 0..MaxRounds
      /\ UNCHANGED <<size, inbox, seen, refused, next_seq, dormant, chunk, ctx_seq, done, borrowed>>
  BY <1>1 DEF NextRound, Quiescent, GiveUp, EndOfRound, StartRound, Return, mailboxes
<1>3. TypeOK'
  BY <1>2, ConstantsAssumption DEF IInv, TypeOK
<1>4. Mailboxes'
  BY <1>2, SameMailboxes DEF IInv, Held
<1>5. FreshSeq'
  BY <1>2 DEF IInv, FreshSeq, CurrentSeq
<1> QED BY <1>2, <1>3, <1>4, <1>5 DEF IInv, Turn, Quiet

\* Every step within tick and drain keeps the invariant.
LEMMA StepIInv == IInv /\ Step => IInv'
BY SkipIInv, PullIInv, SendIInv, ReceivedIInv, RoundIInv DEF Step

LEMMA StutterIInv == IInv /\ UNCHANGED vars => IInv'
<1> SUFFICES ASSUME IInv, UNCHANGED vars PROVE IInv'
  OBVIOUS
<1>1. UNCHANGED <<size, inbox, seen, refused, next_seq, dormant, mode, actor, chunk, ctx_seq,
                  processed, round, done, borrowed>>
  BY DEF vars, mailboxes, turn
<1>2. TypeOK'
  BY <1>1 DEF IInv, TypeOK
<1>3. Mailboxes'
  BY <1>1, SameMailboxes DEF IInv, Held
<1>4. FreshSeq'
  BY <1>1, SameSeq DEF IInv
<1> QED BY <1>1, <1>2, <1>3, <1>4 DEF IInv, Turn, Quiet

\* The actor system starts empty.
LEMMA FreshIInv == size \in 0..MaxActors /\ Fresh => IInv
<1> SUFFICES ASSUME size \in 0..MaxActors, Fresh PROVE IInv
  OBVIOUS
<1>1. TypeOK
  <2>1. \A a \in Indices : Len(inbox[a]) <= Capacity
    BY ConstantsAssumption DEF Fresh
  <2>2. chunk \in Seq(Keys) /\ inbox \in [Indices -> Seq(Keys)]
    BY DEF Fresh
  <2>3. actor \in 1..(MaxActors + 1) /\ round \in 0..MaxRounds
    BY ConstantsAssumption DEF Fresh
  <2> QED BY <2>1, <2>2, <2>3 DEF Fresh, TypeOK
<1>2. Mailboxes
  <2>1. \A a \in Indices : Held(a) = <<>>
    BY DEF Fresh, Held
  <2> QED BY <2>1, MailEmpty DEF Fresh, Mailboxes
<1>3. Turn /\ FreshSeq /\ Quiet
  BY DEF Fresh, Turn, FreshSeq, Quiet
<1> QED BY <1>1, <1>2, <1>3 DEF IInv

-----------------------------------------------------------------------------
(* What the invariant implies *)

\* What a receiver knows, as the properties say it.
LEMMA MailImplies == IInv => AtMostOnce /\ LostOnlyWhenFull /\ SenderOrder
<1> SUFFICES ASSUME IInv PROVE AtMostOnce /\ LostOnlyWhenFull /\ SenderOrder
  OBVIOUS
<1>1. \A a \in Indices : Mail(Held(a), seen[a], done[a], refused[a], borrowed[a])
  BY DEF IInv, Mailboxes
<1>2. AtMostOnce
  BY <1>1 DEF Mail, AtMostOnce, Pending, Range
<1>3. LostOnlyWhenFull
  BY <1>1 DEF Mail, LostOnlyWhenFull, Pending, Range
<1>4. SenderOrder
  BY <1>1 DEF Mail, Ordered, SenderOrder, SentByActor
<1> QED BY <1>2, <1>3, <1>4

\* drain ends with the end of a round: after one in which nothing was processed,
\* no active actor has mail.
LEMMA StepQuiesces ==
    ASSUME IInv, Step, mode = "drain", mode' = "idle"
    PROVE  \/ round = MaxRounds /\ processed > 0
           \/ \A a \in 1..size : dormant[a] \/ inbox[a] = <<>>
<1>1. CASE Quiescent
  <2>1. \A a \in 1..size : a < actor
    BY <1>1, ConstantsAssumption DEF Quiescent, EndOfRound, IInv, TypeOK
  <2> QED BY <1>1, <2>1 DEF Quiescent, EndOfRound, IInv, Quiet
<1>2. CASE GiveUp
  BY <1>2 DEF GiveUp
<1>3. CASE Skip \/ Pull \/ Received \/ NextRound
  BY <1>3 DEF Skip, Pull, Received, NextRound, NextActor, StartRound
<1>4. ASSUME NEW a \in Indices, Send(a) PROVE FALSE
  BY <1>4 DEF Send
<1> QED BY <1>1, <1>2, <1>3, <1>4 DEF Step

-----------------------------------------------------------------------------
(* The theorems *)

\* The inductive invariant holds in every state that the actor system reaches.
THEOREM Inductive == Spec => []IInv
<1>1. Init => IInv
  <2>1. Init => size \in 0..MaxActors /\ Fresh
    BY ConstantsAssumption DEF Init
  <2> QED BY <2>1, FreshIInv
<1>2. IInv /\ [Next]_vars => IInv'
  <2> SUFFICES ASSUME IInv, [Next]_vars PROVE IInv'
    OBVIOUS
  <2>1. CASE Operation
    BY <2>1, OperationIInv
  <2>2. CASE Step
    BY <2>2, StepIInv
  <2>3. CASE UNCHANGED vars
    BY <2>3, StutterIInv
  <2> QED BY <2>1, <2>2, <2>3 DEF Next
<1> QED BY <1>1, <1>2, PTL DEF Spec

\* The variables of the actor system keep their types, and no ChannelBuf ever
\* holds more than its capacity.
THEOREM TypeCorrect == Spec => []TypeOK
<1>1. IInv => TypeOK
  BY DEF IInv
<1> QED BY <1>1, Inductive, PTL

\* However often an envelope is delivered, it is processed at most once.
THEOREM ProcessedAtMostOnce == Spec => []AtMostOnce
BY MailImplies, Inductive, PTL

\* A full channel is the only way in which an envelope is lost.
THEOREM OnlyFullLoses == Spec => []LostOnlyWhenFull
BY MailImplies, Inductive, PTL

\* No envelope of an actor is taken for a duplicate.
THEOREM SeqIsFresh == Spec => []FreshSeq
<1>1. IInv => FreshSeq
  BY DEF IInv
<1> QED BY <1>1, Inductive, PTL

\* The envelopes of one actor are processed in the order they were sent in.
THEOREM InSenderOrder == Spec => []SenderOrder
BY MailImplies, Inductive, PTL

\* drain leaves no mail with an active actor unless all its rounds were busy.
THEOREM DrainEndsQuiet == Spec => DrainQuiesces
<1>1. ASSUME IInv, [Next]_vars
      PROVE  [mode = "drain" /\ mode' = "idle" =>
                \/ round = MaxRounds /\ processed > 0
                \/ \A a \in 1..size : dormant[a] \/ inbox[a] = <<>>]_vars
  <2>1. CASE Operation
    <3>1. mode = "idle"
      BY <2>1 DEF Operation, DeliverOutside, Inject, ChannelPush, ChannelDrain, SetLifecycle, Tick,
         Spawn, Drain, Idle
    <3> QED BY <3>1
  <2>2. CASE Step
    BY <1>1, <2>2, StepQuiesces
  <2>3. CASE UNCHANGED vars
    BY <2>3
  <2> QED BY <1>1, <2>1, <2>2, <2>3 DEF Next
<1> QED BY <1>1, Inductive, PTL DEF Spec, DrainQuiesces

=============================================================================
