---------------------------- MODULE PubSubProofs ----------------------------
(***************************************************************************)
(* The invariants of PubSub, for every set of clients, topics and messages *)
(* and every capacity.                                                     *)
(***************************************************************************)
EXTENDS PubSub, TLAPS

IInv == TypeOK /\ RetainedIsNewest /\ SnapshotMeetsStream

\* A step leads from well-typed states to well-typed states.
LEMMA TypeStep == ASSUME Legal, TypeOK, [Next]_vars PROVE TypeOK'
<1> USE TopicAssumption DEF Legal
<1>1. ASSUME NEW p \in Message, Publish(p) PROVE TypeOK'
  <2>1. p.topic \in Topic
    BY DEF Packet
  <2>a. log[p.topic] \in Seq(Message)
    BY <2>1 DEF TypeOK
  <2>2. Append(log[p.topic], p) \in Seq(Message) /\ Len(log[p.topic]) + 1 \in Nat
    BY <2>a
  <2> QED
    BY <1>1, <2>1, <2>2 DEF TypeOK, Publish
<1>2. ASSUME NEW c \in Client, NEW t \in Topic, Subscribe(c, t) PROVE TypeOK'
  <2>1. [start |-> Len(log[t]), next |-> Len(log[t]), snap |-> retained[t]] \in Receiver
    BY DEF TypeOK, Receiver
  <2> QED
    BY <1>2, <2>1 DEF TypeOK, Subscribe
<1>3. ASSUME NEW c \in Client, NEW t \in Topic, NEW n \in Nat, Subscribed(c, t),
             receivers' = [receivers EXCEPT ![c][t].next = n],
             UNCHANGED <<log, retained>>
      PROVE TypeOK'
  <2>1. receivers[c][t] \in Receiver
    BY <1>3 DEF TypeOK, Subscribed
  <2>2. [receivers[c][t] EXCEPT !.next = n] \in Receiver
    BY <2>1 DEF Receiver
  <2> QED
    BY <1>3, <2>2 DEF TypeOK
<1>4. ASSUME NEW c \in Client, NEW t \in Topic, Deliver(c, t) PROVE TypeOK'
  <2>1. receivers[c][t].next + 1 \in Nat
    BY <1>4 DEF TypeOK, Deliver, Subscribed, Receiver
  <2>2. receivers' = [receivers EXCEPT ![c][t].next = receivers[c][t].next + 1]
    BY <1>4 DEF Deliver
  <2> QED
    BY <1>3, <1>4, <2>1, <2>2 DEF Deliver
<1>5. ASSUME NEW c \in Client, NEW t \in Topic, Overrun(c, t) PROVE TypeOK'
  <2>1. receivers[c][t].next \in Nat /\ Len(log[t]) \in Nat
    BY <1>5 DEF TypeOK, Overrun, Subscribed, Receiver
  <2>2. Len(log[t]) - Capacity \in Nat
    BY <1>5, <2>1 DEF Overrun, Backlog
  <2> QED
    BY <1>3, <1>5, <2>2 DEF Overrun
<1>6. ASSUME NEW c \in Client, NEW T \in SUBSET Topic, Unsubscribe(c, T) PROVE TypeOK'
  BY <1>6 DEF TypeOK, Unsubscribe
<1>7. CASE UNCHANGED vars
  BY <1>7 DEF TypeOK, vars
<1> QED
  BY <1>1, <1>2, <1>4, <1>5, <1>6, <1>7 DEF Next

\* What is the newest retained message among the first n of a log does not depend on what
\* is appended later.
LEMMA NewestIsStable ==
  ASSUME Legal, TypeOK, NEW p \in Message, Publish(p), NEW t \in Topic,
         NEW n \in 0..Len(log[t]), NEW k, IsNewestRetained(t, n, k)
  PROVE  IsNewestRetained(t, n, k)'
<1>1. p.topic \in Topic /\ log[t] \in Seq(Message)
  BY DEF Legal, Packet, TypeOK
<1>2. \A i \in 1..Len(log[t]) : log'[t][i] = log[t][i]
  <2>1. CASE t = p.topic
    <3>1. log'[t] = Append(log[t], p)
      BY <2>1, <1>1 DEF Publish, TypeOK
    <3> QED
      BY <3>1, <1>1
  <2>2. CASE t # p.topic
    BY <2>2, <1>1 DEF Publish, TypeOK
  <2> QED
    BY <2>1, <2>2
<1>3. Len(log[t]) \in Nat
  BY <1>1
<1>4. \A i \in 1..n : log'[t][i].retain = log[t][i].retain
  BY <1>2, <1>3
<1>5. k \in 0..n /\ (k > 0 => log'[t][k].retain)
  BY <1>4, <1>3 DEF IsNewestRetained
<1>6. \A i \in k + 1 .. n : ~log'[t][i].retain
  BY <1>4, <1>3 DEF IsNewestRetained
<1> QED
  BY <1>5, <1>6 DEF IsNewestRetained

\* A step keeps the retained message the newest one.
LEMMA RetainedStep == ASSUME Legal, IInv, [Next]_vars PROVE RetainedIsNewest'
<1>1. ASSUME NEW p \in Message, Publish(p) PROVE RetainedIsNewest'
  <2> SUFFICES ASSUME NEW t \in Topic
               PROVE  IsNewestRetained(t, Len(log[t]), retained[t])'
    BY DEF RetainedIsNewest
  <2>1. /\ p.topic \in Topic
        /\ log[t] \in Seq(Message) /\ Len(log[t]) \in Nat
        /\ retained[t] \in Nat
        /\ IsNewestRetained(t, Len(log[t]), retained[t])
    <3>1. p.topic \in Topic /\ log[t] \in Seq(Message) /\ retained[t] \in Nat
      BY DEF Legal, Packet, IInv, TypeOK
    <3> QED
      BY <3>1 DEF IInv, RetainedIsNewest
  <2>2. IsNewestRetained(t, Len(log[t]), retained[t])
          => (IsNewestRetained(t, Len(log[t]), retained[t]))'
             \/ t = p.topic
    <3> SUFFICES ASSUME t # p.topic PROVE IsNewestRetained(t, Len(log[t]), retained[t])'
      OBVIOUS
    <3>1. log'[t] = log[t] /\ retained'[t] = retained[t]
      BY <1>1, <2>1 DEF Publish, IInv, TypeOK
    <3> QED
      BY <3>1, <2>1 DEF IsNewestRetained
  <2>3. CASE t = p.topic
    <3>1. /\ log'[t] = Append(log[t], p)
          /\ retained'[t] = IF p.retain THEN Len(log[t]) + 1 ELSE retained[t]
      BY <1>1, <2>1, <2>3 DEF Publish, IInv, TypeOK
    <3>2. /\ Len(log'[t]) = Len(log[t]) + 1
          /\ log'[t][Len(log[t]) + 1] = p
          /\ \A i \in 1..Len(log[t]) : log'[t][i] = log[t][i]
      BY <3>1, <2>1
    <3>3. CASE p.retain
      <4>1. retained'[t] = Len(log[t]) + 1
        BY <3>1, <3>3
      <4> QED
        BY <4>1, <3>2, <3>3, <2>1 DEF IsNewestRetained
    <3>4. CASE ~p.retain
      <4>1. retained'[t] = retained[t]
        BY <3>1, <3>4
      <4>2. /\ retained[t] \in 0..Len(log[t])
            /\ retained[t] > 0 => log[t][retained[t]].retain
            /\ \A i \in retained[t] + 1 .. Len(log[t]) : ~log[t][i].retain
        BY <2>1 DEF IsNewestRetained
      <4>3. \A i \in retained[t] + 1 .. Len(log[t]) + 1 : ~log'[t][i].retain
        BY <4>2, <3>2, <3>4, <2>1
      <4>4. retained[t] > 0 => log'[t][retained[t]].retain
        BY <4>2, <3>2, <2>1
      <4> QED
        BY <4>1, <4>2, <4>3, <4>4, <3>2, <2>1 DEF IsNewestRetained
    <3> QED
      BY <3>3, <3>4
  <2> QED
    BY <2>1, <2>2, <2>3
<1>2. ASSUME UNCHANGED <<log, retained>> PROVE RetainedIsNewest'
  BY <1>2 DEF IInv, RetainedIsNewest, IsNewestRetained
<1> QED
  BY <1>1, <1>2 DEF Next, Subscribe, Deliver, Overrun, Unsubscribe, vars

\* What SnapshotMeetsStream says of one receiver r on topic t.
Meets(t, r) ==
  /\ IsNewestRetained(t, r.start, r.snap)
  /\ r.start <= r.next
  /\ r.next <= Len(log[t])

\* A step keeps the retained message given to a subscriber and its stream together.
LEMMA SnapshotStep == ASSUME Legal, IInv, [Next]_vars PROVE SnapshotMeetsStream'
<1> SUFFICES ASSUME NEW d \in Client, NEW u \in Topic, Subscribed(d, u)'
             PROVE  Meets(u, receivers[d][u])'
  BY DEF SnapshotMeetsStream, Meets
<1> DEFINE r == receivers[d][u]
<1>a. TypeOK /\ TypeOK'
  BY TypeStep DEF IInv
<1>z. Capacity \in Nat \ {0}
  BY DEF Legal
<1>b. log[u] \in Seq(Message) /\ Len(log[u]) \in Nat
  BY <1>a DEF TypeOK
<1>c. Subscribed(d, u) => r \in Receiver /\ Meets(u, r)
  BY <1>a DEF IInv, SnapshotMeetsStream, Meets, TypeOK, Subscribed
<1>d. r \in Receiver => r.start \in Nat /\ r.next \in Nat /\ r.snap \in Nat
  BY DEF Receiver
<1>1. ASSUME NEW p \in Message, Publish(p) PROVE Meets(u, r)'
  <2>1. Subscribed(d, u) /\ r' = r
    BY <1>1 DEF Publish, Subscribed
  <2>2. r.start \in 0..Len(log[u])
    BY <2>1, <1>b, <1>c, <1>d DEF Meets
  <2>3. IsNewestRetained(u, r.start, r.snap)'
    <3>1. IsNewestRetained(u, r.start, r.snap)
      BY <2>1, <1>c DEF Meets
    <3>2. \A n \in 0..Len(log[u]), k \in Nat :
            IsNewestRetained(u, n, k) => IsNewestRetained(u, n, k)'
      BY <1>a, <1>1, NewestIsStable
    <3> QED
      BY <3>1, <3>2, <2>1, <2>2, <1>c, <1>d DEF IsNewestRetained
  <2>4. Len(log[u]) <= Len(log'[u])
    <3>1. p.topic \in Topic
      BY DEF Legal, Packet
    <3> QED
      BY <3>1, <1>1, <1>a, <1>b DEF Publish, TypeOK
  <2>5. Len(log'[u]) \in Nat
    BY <1>a DEF TypeOK
  <2> QED
    BY <2>1, <2>3, <2>4, <2>5, <1>b, <1>c, <1>d DEF Meets
<1>2. ASSUME NEW c \in Client, NEW t \in Topic, Subscribe(c, t) PROVE Meets(u, r)'
  <2>1. CASE c = d /\ t = u
    <3>1. r' = [start |-> Len(log[u]), next |-> Len(log[u]), snap |-> retained[u]]
      BY <1>2, <2>1, <1>a DEF Subscribe, TypeOK
    <3>2. IsNewestRetained(u, Len(log[u]), retained[u])'
      BY <1>2 DEF Subscribe, IInv, RetainedIsNewest, IsNewestRetained
    <3>3. log' = log /\ retained' = retained
      BY <1>2 DEF Subscribe
    <3>4. r'.start = Len(log'[u]) /\ r'.next = Len(log'[u]) /\ r'.snap = retained'[u]
      BY <3>1, <3>3
    <3> QED
      BY <3>2, <3>3, <3>4, <1>b DEF Meets, IsNewestRetained
  <2>2. CASE ~(c = d /\ t = u)
    <3>1. r' = r /\ log' = log
      BY <1>2, <2>2, <1>a DEF Subscribe, TypeOK
    <3> QED
      BY <3>1, <1>c DEF Meets, IsNewestRetained, Subscribed
  <2> QED
    BY <2>1, <2>2
<1>3. ASSUME NEW c \in Client, NEW t \in Topic, Subscribed(c, t),
             NEW n \in Nat, receivers[c][t].next <= n, n <= Len(log[t]),
             receivers' = [receivers EXCEPT ![c][t].next = n], log' = log
      PROVE  Meets(u, r)'
  <2>1. CASE c = d /\ t = u
    <3>0. r \in Receiver /\ Meets(u, r)
      BY <1>3, <2>1, <1>c
    <3>1. r' = [r EXCEPT !.next = n]
      BY <1>3, <2>1, <1>a DEF TypeOK
    <3>2. r'.start = r.start /\ r'.snap = r.snap /\ r'.next = n
      BY <3>0, <3>1 DEF Receiver
    <3>3. r.start <= n
      BY <3>0, <1>3, <2>1, <1>d DEF Meets
    <3> QED
      BY <3>0, <3>2, <3>3, <1>3, <2>1 DEF Meets, IsNewestRetained
  <2>2. CASE ~(c = d /\ t = u)
    <3>1. r' = r
      BY <1>3, <2>2, <1>a DEF TypeOK
    <3> QED
      BY <3>1, <1>3, <1>c DEF Meets, IsNewestRetained, Subscribed
  <2> QED
    BY <2>1, <2>2
<1>4. ASSUME NEW c \in Client, NEW t \in Topic, Deliver(c, t) \/ Overrun(c, t)
      PROVE  Meets(u, r)'
  <2>1. receivers[c][t].next \in Nat /\ Len(log[t]) \in Nat /\ Subscribed(c, t)
    BY <1>4, <1>a DEF Deliver, Overrun, Subscribed, TypeOK, Receiver
  <2>2. CASE Deliver(c, t)
    <3> DEFINE n == receivers[c][t].next + 1
    <3>1. n \in Nat /\ receivers[c][t].next <= n /\ n <= Len(log[t])
      BY <2>1, <2>2 DEF Deliver, Backlog
    <3>2. receivers' = [receivers EXCEPT ![c][t].next = n] /\ log' = log
      BY <2>2 DEF Deliver
    <3> HIDE DEF n
    <3> QED
      BY <1>3, <2>1, <3>1, <3>2
  <2>3. CASE Overrun(c, t)
    <3> DEFINE n == Len(log[t]) - Capacity
    <3>1. n \in Nat /\ receivers[c][t].next <= n /\ n <= Len(log[t])
      BY <2>1, <2>3, <1>z DEF Overrun, Backlog
    <3>2. receivers' = [receivers EXCEPT ![c][t].next = n] /\ log' = log
      BY <2>3 DEF Overrun
    <3> HIDE DEF n
    <3> QED
      BY <1>3, <2>1, <3>1, <3>2
  <2> QED
    BY <1>4, <2>2, <2>3
<1>5. ASSUME NEW c \in Client, NEW T \in SUBSET Topic, Unsubscribe(c, T) PROVE Meets(u, r)'
  <2>1. r' = r /\ log' = log
    BY <1>5, <1>a DEF Unsubscribe, TypeOK, Subscribed
  <2> QED
    BY <2>1, <1>c DEF Meets, IsNewestRetained, Subscribed
<1>6. CASE UNCHANGED vars
  BY <1>6, <1>c DEF Meets, IsNewestRetained, Subscribed, vars
<1> QED
  BY <1>1, <1>2, <1>4, <1>5, <1>6 DEF Next

\* The retained message of a topic is always the newest one published with the retain
\* flag, and a subscriber's retained message and stream always meet.
THEOREM PubSubSafety ==
  ASSUME Legal
  PROVE  Spec => [](TypeOK /\ RetainedIsNewest /\ SnapshotMeetsStream)
<1>1. Init => IInv
  BY TopicAssumption DEF Init, IInv, TypeOK, RetainedIsNewest, SnapshotMeetsStream, IsNewestRetained, Subscribed
<1>2. IInv /\ [Next]_vars => IInv'
  BY TypeStep, RetainedStep, SnapshotStep DEF IInv
<1> QED
  BY <1>1, <1>2, PTL DEF Spec, IInv
=============================================================================
