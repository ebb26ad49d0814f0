---------------------------- MODULE OrderProofs -----------------------------
(***************************************************************************)
(* RetainedMovesForward and SavedIsNewest of Cluster, for any number of    *)
(* brokers, connections, messages, faults and crashes.                     *)
(***************************************************************************)
EXTENDS BroadcastProofs

(* Ascending channels. *)

\* The members of M are in ascending order in q.
Ascending(q, M) ==
  \A i, j \in 1..Len(q) : i < j /\ q[i] \in M /\ q[j] \in M => q[i] < q[j]

LEMMA AscendingEmpty == ASSUME NEW M PROVE Ascending(<<>>, M)
BY DEF Ascending

\* Only the members of M that are in the channel matter.
LEMMA AscendingOn ==
  ASSUME NEW q, NEW M, NEW N, Ascending(q, M), Elems(q) \cap N \subseteq M
  PROVE  Ascending(q, N)
<1>1. \A i \in 1..Len(q) : q[i] \in N => q[i] \in M
  BY DEF Elems
<1> QED
  BY <1>1 DEF Ascending

LEMMA AscendingAppend ==
  ASSUME NEW q \in Seq(Nat), NEW x \in Nat, NEW M, Ascending(q, M),
         x \in M => \A n \in Elems(q) \cap M : n < x
  PROVE  Ascending(Append(q, x), M)
<1> DEFINE r == Append(q, x)
<1>1. /\ Len(q) \in Nat /\ Len(r) = Len(q) + 1 /\ r[Len(q) + 1] = x
      /\ \A i \in 1..Len(q) : r[i] = q[i]
  OBVIOUS
<1> HIDE DEF r
<1> SUFFICES ASSUME NEW i \in 1..Len(r), NEW j \in 1..Len(r), i < j, r[i] \in M, r[j] \in M
             PROVE  r[i] < r[j]
  BY DEF Ascending, r
<1>2. i \in 1..Len(q) /\ r[i] = q[i]
  BY <1>1
<1>3. CASE j \in 1..Len(q)
  BY <1>1, <1>2, <1>3 DEF Ascending
<1>4. CASE j = Len(q) + 1
  <2>1. q[i] \in Elems(q) \cap M /\ r[j] = x
    BY <1>1, <1>2, <1>4 DEF Elems
  <2> QED
    BY <1>2, <2>1
<1> QED
  BY <1>1, <1>3, <1>4

LEMMA AscendingTake ==
  ASSUME NEW q \in Seq(Nat), NEW M, Ascending(q, M), q # <<>>
  PROVE  /\ Ascending(Tail(q), M)
         /\ Head(q) \in M => \A n \in Elems(Tail(q)) \cap M : Head(q) < n
<1> DEFINE r == Tail(q)
<1>1. /\ Len(q) \in Nat /\ Len(q) > 0 /\ Len(r) = Len(q) - 1 /\ Head(q) = q[1]
      /\ \A i \in 1..Len(r) : r[i] = q[i + 1]
  OBVIOUS
<1>2. 1 \in 1..Len(q) /\ \A i \in 1..Len(r) : i \in Nat /\ i + 1 \in 1..Len(q) /\ 1 < i + 1
  BY <1>1
<1> HIDE DEF r
<1>3. ASSUME NEW i \in 1..Len(r), NEW j \in 1..Len(r), i < j, r[i] \in M, r[j] \in M
      PROVE  r[i] < r[j]
  <2>1. i + 1 < j + 1
    BY <1>2, <1>3
  <2> QED
    BY <1>1, <1>2, <1>3, <2>1 DEF Ascending
<1>4. ASSUME Head(q) \in M, NEW n \in Elems(r) \cap M PROVE Head(q) < n
  <2>1. PICK i \in 1..Len(r) : n = r[i]
    BY DEF Elems
  <2> QED
    BY <1>1, <1>2, <1>4, <2>1 DEF Ascending
<1> QED
  BY <1>3, <1>4 DEF Ascending, r
-----------------------------------------------------------------------------
(* The order of the messages of a topic. *)

\* The messages of t.
Of(t) == {m \in Known : Sent(m).topic = t}

\* A handler holds messages of its own connection, until it has queued them.
OwnHand == \A b \in Node, h \in Task : \A m \in Unsent(b, h) : Sent(m).task = h

\* What has left a publisher is older than what waits there.
Behind(t) ==
  \A b, c \in Node : \A m \in Of(t) : Waits(b, m) =>
    /\ store[t] < m
    /\ \A n \in Saving(c) \cap Of(t) : n < m
    /\ \A n \in Of(t) : Arrived(c, n) \/ n \in Handling(c) => n < m
    /\ c # b => retained[c][t] < m

\* The queue is in order, and what a handler still holds is behind it.
QueuedInOrder(t) ==
  \A b \in Node :
    /\ Ascending(queue[b], Of(t))
    /\ \A h \in Task : \A m \in Unsent(b, h) \cap Of(t), n \in Elems(queue[b]) \cap Of(t) : n < m

\* What comes in is in order, and newer than what is retained unless it is an echo.
ReceivedInOrder(t) ==
  \A c \in Node :
    /\ Ascending(wire[c], Of(t)) /\ Ascending(inbox[c], Of(t))
    /\ \A n \in Elems(inbox[c]) \cap Of(t), m \in Elems(wire[c]) \cap Of(t) : n < m
    /\ \A n \in Handling(c) \cap Of(t), m \in Of(t) : Arrived(c, m) => n < m
    /\ \A m \in Of(t) : (Arrived(c, m) \/ m \in Handling(c)) /\ ~IsOwn(c, m) => retained[c][t] < m

Ordered(t) == Behind(t) /\ QueuedInOrder(t) /\ ReceivedInOrder(t)

\* A broker that does not serve receives nothing.
Silent(c) ==
  phase[c] # "up" => receiver[c] = "connecting" /\ wire[c] = <<>> /\ inbox[c] = <<>>

OrderInv ==
  /\ \A c \in Node : Silent(c)
  /\ \A t \in Topic : OnePublisher(t) => Ordered(t)

\* Everything that is known of a reachable state.
ClusterInv == TypeInv /\ LoadInv /\ OnceInv /\ OwnHand
-----------------------------------------------------------------------------
(* Facts about one state. *)

\* On a topic with one publisher, messages of two brokers are messages of one.
LEMMA OneSender ==
  ASSUME TypeInv, NEW t \in Topic, OnePublisher(t), NEW m \in Of(t), NEW n \in Of(t),
         NEW b, NEW c, IsOwn(b, m), IsOwn(c, n)
  PROVE  b = c
<1>1. DOMAIN history = 1..Len(history)
  BY DEF TypeInv, OutsideTypeOK
<1>2. m \in DOMAIN history /\ n \in DOMAIN history /\ history[m].topic = t /\ history[n].topic = t
  BY <1>1 DEF Of, Known, Sent
<1> QED
  BY <1>2 DEF OnePublisher, IsOwn, Sent

LEMMA Numbers ==
  ASSUME TypeInv, NEW t \in Topic
  PROVE  /\ Known \subseteq Nat /\ Of(t) \subseteq Known /\ (\A m \in Known : 0 < m)
         /\ store[t] \in Nat /\ \A c \in Node : retained[c][t] \in Nat
<1>1. history \in Seq(Published) /\ Len(history) \in Nat
  BY DEF TypeInv, OutsideTypeOK
<1> QED
  BY <1>1 DEF TypeInv, Known, Of, RedisTypeOK, TopicTypeOK

\* On a topic with one publisher, two handlers of a broker do not both hold a message.
LEMMA OneTask ==
  ASSUME TypeInv, OwnHand, NEW t \in Topic, OnePublisher(t), NEW b \in Node,
         NEW h \in Task, NEW k \in Task, NEW m \in Unsent(b, h) \cap Of(t),
         NEW n \in Unsent(b, k) \cap Of(t)
  PROVE  h = k
<1>1. DOMAIN history = 1..Len(history)
  BY DEF TypeInv, OutsideTypeOK
<1>2. m \in DOMAIN history /\ n \in DOMAIN history /\ history[m].topic = t /\ history[n].topic = t
  BY <1>1 DEF Of, Known, Sent
<1> QED
  BY <1>2 DEF OnePublisher, OwnHand, Sent

\* With no new message the topics have the messages they had.
LEMMA SameTopics ==
  ASSUME history' = history
  PROVE  /\ Known' = Known /\ (\A t : Of(t)' = Of(t)) /\ (\A c, m : IsOwn(c, m)' = IsOwn(c, m))
         /\ \A t : OnePublisher(t)' = OnePublisher(t)
<1>1. Known' = Known
  BY DEF Known
<1>2. \A t : Of(t)' = Of(t)
  BY <1>1 DEF Of, Sent
<1> QED
  BY <1>1, <1>2 DEF IsOwn, Sent, OnePublisher
-----------------------------------------------------------------------------
(* Steps that only take messages away. *)

LEMMA StillOrdered ==
  ASSUME NEW t \in Topic, Ordered(t), history' = history,
         \A b, c \in Node : \A m \in Of(t) :
           Waits(b, m) => store'[t] < m /\ (c # b => retained'[c][t] < m),
         \A c \in Node : \A m \in Of(t) :
           (Arrived(c, m)' \/ m \in Handling(c)') /\ ~IsOwn(c, m) => retained'[c][t] < m,
         \A c \in Node :
           /\ Elems(queue'[c]) \subseteq Elems(queue[c]) /\ Ascending(queue'[c], Of(t))
           /\ Elems(wire'[c]) \subseteq Elems(wire[c]) /\ Ascending(wire'[c], Of(t))
           /\ Elems(inbox'[c]) \subseteq Elems(inbox[c]) /\ Ascending(inbox'[c], Of(t))
           /\ Handling(c)' \subseteq Handling(c) /\ Saving(c)' \subseteq Saving(c)
           /\ \A h \in Task : Unsent(c, h)' \subseteq Unsent(c, h)
  PROVE  Ordered(t)'
<1>0. Known' = Known /\ Of(t)' = Of(t) /\ \A c, m : IsOwn(c, m)' = IsOwn(c, m)
  BY SameTopics
<1>1. \A c \in Node : \A m : /\ Waits(c, m)' => Waits(c, m)
                             /\ Arrived(c, m)' => Arrived(c, m)
  BY DEF Waits, Arrived
<1>2. Behind(t)'
  BY <1>0, <1>1 DEF Ordered, Behind
<1>3. QueuedInOrder(t)'
  BY <1>0 DEF Ordered, QueuedInOrder
<1>4. ReceivedInOrder(t)'
  BY <1>0, <1>1 DEF Ordered, ReceivedInOrder
<1> QED
  BY <1>2, <1>3, <1>4 DEF Ordered

\* The channels stay, or are emptied at one broker; the tasks stay or become idle.
LEMMA OrderKept ==
  ASSUME TypeInv, NEW t \in Topic, Ordered(t), NEW d \in Node,
         UNCHANGED <<history, store>>,
         retained' = retained \/ retained' = [retained EXCEPT ![d] = [u \in Topic |-> 0]],
         queue' \in {queue, [queue EXCEPT ![d] = <<>>]},
         wire' \in {wire, [wire EXCEPT ![d] = <<>>]},
         inbox' \in {inbox, [inbox EXCEPT ![d] = <<>>]},
         client' \in {client, [client EXCEPT ![d] = Idle], [client EXCEPT ![d] = Dead]},
         \A c \in Node, h \in Task : Unsent(c, h)' \subseteq Unsent(c, h)
  PROVE  Ordered(t)'
<1>1. \A c \in Node : /\ queue'[c] \in {queue[c], <<>>} /\ wire'[c] \in {wire[c], <<>>}
                      /\ inbox'[c] \in {inbox[c], <<>>}
  BY DEF TypeInv, RedisTypeOK, TaskTypeOK
<1>2. \A c \in Node : client'[c] \in {client[c], Idle, Dead}
  BY DEF TypeInv, TaskTypeOK
<1>3. \A c \in Node : Handling(c)' \subseteq Handling(c) /\ Saving(c)' \subseteq Saving(c)
  BY <1>2 DEF Handling, Saving, Idle, Dead
<1>4. \A c \in Node : \A m \in Of(t) : retained[c][t] < m => retained'[c][t] < m
  <2>1. \A c \in Node : retained'[c][t] = retained[c][t] \/ retained'[c][t] = 0
    <3>1. DOMAIN retained = Node
      BY DEF TypeInv, TopicTypeOK
    <3> QED
      BY <3>1
  <2> QED
    BY <2>1, Numbers
<1>5. \A c \in Node : /\ Ascending(queue[c], Of(t)) /\ Ascending(wire[c], Of(t))
                      /\ Ascending(inbox[c], Of(t))
  BY DEF Ordered, QueuedInOrder, ReceivedInOrder
<1>6. ASSUME NEW c \in Node
      PROVE  /\ Elems(queue'[c]) \subseteq Elems(queue[c]) /\ Ascending(queue'[c], Of(t))
             /\ Elems(wire'[c]) \subseteq Elems(wire[c]) /\ Ascending(wire'[c], Of(t))
             /\ Elems(inbox'[c]) \subseteq Elems(inbox[c]) /\ Ascending(inbox'[c], Of(t))
  <2>1. Elems(<<>>) = {} /\ Ascending(<<>>, Of(t))
    BY EmptyChannel, AscendingEmpty
  <2> QED
    BY <1>1, <1>5, <2>1
<1>7. \A b, c \in Node : \A m \in Of(t) :
        Waits(b, m) => store'[t] < m /\ (c # b => retained'[c][t] < m)
  BY <1>4 DEF Ordered, Behind
<1>8. \A c \in Node : \A m \in Of(t) :
        (Arrived(c, m)' \/ m \in Handling(c)') /\ ~IsOwn(c, m) => retained'[c][t] < m
  BY <1>3, <1>4, <1>6 DEF Ordered, ReceivedInOrder, Arrived
<1> QED
  BY <1>3, <1>6, <1>7, <1>8, StillOrdered

LEMMA QuietOrder ==
  ASSUME TypeInv, NEW t \in Topic, Ordered(t), NEW b \in Node,
         \/ start(b) \/ serve(b) \/ crash(b) \/ client_panics(b)
         \/ redis_subscribe(b) \/ get_message(b) \/ connection_lost(b)
  PROVE  Ordered(t)'
<1>1. /\ UNCHANGED <<history, store>>
      /\ retained' = retained \/ retained' = [retained EXCEPT ![b] = [u \in Topic |-> 0]]
      /\ client' \in {client, [client EXCEPT ![b] = Idle], [client EXCEPT ![b] = Dead]}
      /\ handler' = handler \/ handler' = [handler EXCEPT ![b] = [h \in Task |-> Idle]]
  BY DEF start, serve, crash, client_panics, redis_subscribe, get_message, connection_lost,
     redisVars, topicsVars, taskVars
<1>2. /\ queue' \in {queue, [queue EXCEPT ![b] = <<>>]}
      /\ wire' \in {wire, [wire EXCEPT ![b] = <<>>]}
      /\ inbox' \in {inbox, [inbox EXCEPT ![b] = <<>>]}
  BY DEF start, serve, crash, client_panics, redis_subscribe, get_message, connection_lost,
     redisVars, taskVars
<1> QED
  BY <1>1, <1>2, TasksIdle, OrderKept

LEMMA HandlerOrder ==
  ASSUME TypeInv, NEW t \in Topic, Ordered(t), NEW b \in Node, NEW h \in Task,
         unlock(b, h) \/ send_panics(b, h) \/ write_puback(b, h) \/ log_in_bq(b, h)
  PROVE  Ordered(t)'
<1>0. UNCHANGED <<history, store, retained, queue, wire, inbox, client>>
  BY DEF unlock, send_panics, write_puback, log_in_bq, redisVars, topicsVars
<1> QED
  BY <1>0, HandsLess, OrderKept

\* A retained message read from Redis is older than what waits at its publisher; the broker
\* that reads it receives nothing yet.
LEMMA LoadOrder ==
  ASSUME ClusterInv, NEW t \in Topic, Ordered(t), NEW b \in Node, Silent(b),
         NEW u \in Topic, get_retained(b, u)
  PROVE  Ordered(t)'
<1>0. UNCHANGED <<history, store, queue, wire, inbox, client, handler>>
  BY DEF get_retained, redisVars, taskVars
<1>1. \A c \in Node : \/ retained'[c][t] = retained[c][t]
                      \/ c = b /\ retained'[c][t] = store[t]
  <2>1. retained \in [Node -> [Topic -> 0..Len(history)]]
    BY DEF ClusterInv, TypeInv, TopicTypeOK
  <2>2. retained' = retained \/ retained' = [retained EXCEPT ![b][u] = store[u]]
    BY DEF get_retained
  <2> QED
    BY <2>1, <2>2
<1>2. Handling(b) = {} /\ \A m : ~Arrived(b, m)
  <2>1. phase[b] = "loading" /\ client[b].pc = "idle"
    BY DEF get_retained, ClusterInv, LoadInv, NothingBeforeServe
  <2>2. wire[b] = <<>> /\ inbox[b] = <<>>
    BY <2>1 DEF Silent
  <2> QED
    BY <2>1, <2>2, EmptyChannel DEF Handling, Arrived
<1>3. \A c \in Node : /\ Handling(c)' = Handling(c) /\ Saving(c)' = Saving(c)
                      /\ \A m : Arrived(c, m)' = Arrived(c, m)
                      /\ \A h \in Task : Unsent(c, h)' = Unsent(c, h)
  BY <1>0 DEF Handling, Saving, Unsent, Arrived
<1>4. \A c, d \in Node : \A m \in Of(t) :
        Waits(c, m) => store'[t] < m /\ (d # c => retained'[d][t] < m)
  BY <1>0, <1>1 DEF Ordered, Behind
<1>5. \A c \in Node : \A m \in Of(t) :
        (Arrived(c, m)' \/ m \in Handling(c)') /\ ~IsOwn(c, m) => retained'[c][t] < m
  BY <1>1, <1>2, <1>3 DEF Ordered, ReceivedInOrder
<1> QED
  BY <1>0, <1>3, <1>4, <1>5, StillOrdered DEF Ordered, QueuedInOrder, ReceivedInOrder

\* What is saved in Redis has left its publisher before what waits there.
LEMMA SaveOrder ==
  ASSUME ClusterInv, NEW t \in Topic, Ordered(t), NEW b \in Node, redis_set(b)
  PROVE  Ordered(t)'
<1>0. UNCHANGED <<history, retained, queue, wire, inbox, handler>>
  BY DEF redis_set, topicsVars
<1>1. PICK n : n = client[b].msg
  OBVIOUS
<1>2. /\ client[b].pc = "saving" /\ client' = [client EXCEPT ![b] = Idle]
      /\ store' = store \/ store' = [store EXCEPT ![Sent(n).topic] = n]
  BY <1>1 DEF redis_set
<1>3. client \in [Node -> Carried] /\ store \in [Topic -> 0..Len(history)]
  BY DEF ClusterInv, TypeInv, TaskTypeOK, RedisTypeOK
<1>4. n \in Saving(b) /\ n \in Known
  BY <1>1, <1>2, <1>3 DEF Saving, Carried
<1>5. store'[t] = store[t] \/ (n \in Of(t) /\ store'[t] = n)
  BY <1>2, <1>3, <1>4 DEF Of
<1>6. ASSUME NEW c \in Node
      PROVE  Handling(c)' \subseteq Handling(c) /\ Saving(c)' \subseteq Saving(c)
  <2>1. client'[c] = IF c = b THEN Idle ELSE client[c]
    BY <1>2, <1>3
  <2> QED
    BY <2>1 DEF Handling, Saving, Idle
<1>7. \A c \in Node : /\ \A m : Arrived(c, m)' = Arrived(c, m)
                      /\ \A h \in Task : Unsent(c, h)' = Unsent(c, h)
  BY <1>0 DEF Unsent, Arrived
<1>8. \A c, d \in Node : \A m \in Of(t) :
        Waits(c, m) => store'[t] < m /\ (d # c => retained'[d][t] < m)
  BY <1>0, <1>4, <1>5 DEF Ordered, Behind
<1>9. \A c \in Node : \A m \in Of(t) :
        (Arrived(c, m)' \/ m \in Handling(c)') /\ ~IsOwn(c, m) => retained'[c][t] < m
  BY <1>0, <1>6, <1>7 DEF Ordered, ReceivedInOrder
<1> QED
  BY <1>0, <1>6, <1>7, <1>8, <1>9, StillOrdered DEF Ordered, QueuedInOrder, ReceivedInOrder

\* A message from another broker is newer than what is retained and older than what comes
\* behind it.
LEMMA MessageOrder ==
  ASSUME ClusterInv, NEW t \in Topic, Ordered(t), NEW b \in Node, handle_message(b)
  PROVE  Ordered(t)'
<1>0. UNCHANGED <<history, store, queue, wire, inbox, handler>>
  BY DEF handle_message, redisVars
<1> USE DEF ClusterInv
<1>1. PICK m : m = client[b].msg
  OBVIOUS
<1>2. /\ m \in Known /\ m \in Handling(b)
      /\ retained' = retained \/ retained' = [retained EXCEPT ![b][Sent(m).topic] = m]
      /\ \A c \in Node : /\ Handling(c)' = IF c = b THEN {} ELSE Handling(c)
                         /\ Saving(c)' \subseteq Saving(c)
  BY <1>1, MessageMoves
<1>3. \A c \in Node : \/ retained'[c][t] = retained[c][t]
                      \/ c = b /\ m \in Of(t) /\ retained'[c][t] = m
  <2>1. retained \in [Node -> [Topic -> 0..Len(history)]]
    BY DEF TypeInv, TopicTypeOK
  <2>2. Sent(m).topic = t => m \in Of(t)
    BY <1>2 DEF Of
  <2> QED
    BY <1>2, <2>1, <2>2
<1>4. \A c \in Node : /\ \A n : Arrived(c, n)' = Arrived(c, n)
                      /\ \A h \in Task : Unsent(c, h)' = Unsent(c, h)
  BY <1>0 DEF Unsent, Arrived
<1>5. \A c, d \in Node : \A n \in Of(t) :
        Waits(c, n) => store'[t] < n /\ (d # c => retained'[d][t] < n)
  BY <1>0, <1>2, <1>3 DEF Ordered, Behind
<1>6. \A c \in Node : \A n \in Of(t) :
        (Arrived(c, n)' \/ n \in Handling(c)') /\ ~IsOwn(c, n) => retained'[c][t] < n
  BY <1>2, <1>3, <1>4 DEF Ordered, ReceivedInOrder
<1> QED
  BY <1>0, <1>2, <1>4, <1>5, <1>6, StillOrdered DEF Ordered, QueuedInOrder, ReceivedInOrder
-----------------------------------------------------------------------------
(* Steps that move a message. *)

LEMMA InboxOrder ==
  ASSUME ClusterInv, NEW t \in Topic, Ordered(t), NEW b \in Node, receive_inbox(b)
  PROVE  Ordered(t)'
<1> USE DEF ClusterInv
<1>0. UNCHANGED <<history, store, retained, queue, wire, handler>>
  BY DEF receive_inbox, redisVars, topicsVars
<1>1. PICK m : m = Head(inbox[b])
  OBVIOUS
<1>2. /\ m \in Known /\ inbox[b] # <<>> /\ inbox'[b] = Tail(inbox[b]) /\ Handling(b) = {}
      /\ \A c \in Node :
           /\ c # b => inbox'[c] = inbox[c]
           /\ Handling(c)' = IF c = b /\ ~IsOwn(b, m) THEN {m} ELSE Handling(c)
           /\ Saving(c)' \subseteq Saving(c)
  BY <1>1, InboxMoves
<1>3. /\ m \in Elems(inbox[b]) /\ Elems(inbox'[b]) \subseteq Elems(inbox[b])
      /\ Ascending(inbox'[b], Of(t))
      /\ m \in Of(t) => \A n \in Elems(inbox'[b]) \cap Of(t) : m < n
  <2>1. inbox[b] \in Seq(Known) /\ inbox[b] \in Seq(Nat)
    <3>1. inbox[b] \in Seq(Known)
      BY DEF TypeInv, TaskTypeOK
    <3> QED
      BY <3>1, Numbers, SeqGrows
  <2>2. Ascending(inbox[b], Of(t)) /\ NoRepeat(inbox[b])
    BY DEF Ordered, ReceivedInOrder, OnceInv, NoCopies
  <2>3. m \in Elems(inbox[b]) /\ Elems(inbox'[b]) \subseteq Elems(inbox[b])
    BY <1>1, <1>2, <2>1, <2>2, TakeChannel
  <2>4. /\ Ascending(inbox'[b], Of(t))
        /\ m \in Of(t) => \A n \in Elems(inbox'[b]) \cap Of(t) : m < n
    BY <1>1, <1>2, <2>1, <2>2, AscendingTake
  <2> QED
    BY <2>3, <2>4
<1>4. Of(t)' = Of(t) /\ \A c, n : IsOwn(c, n)' = IsOwn(c, n)
  BY <1>0, SameTopics
<1>5. \A c \in Node : /\ Elems(inbox'[c]) \subseteq Elems(inbox[c])
                      /\ \A n : Arrived(c, n)' => Arrived(c, n)
                      /\ \A n : Waits(c, n)' = Waits(c, n)
                      /\ \A h \in Task : Unsent(c, h)' = Unsent(c, h)
  BY <1>0, <1>2, <1>3 DEF Arrived, Waits, Unsent
<1>6. Arrived(b, m)
  BY <1>3 DEF Arrived
<1>7. Behind(t)'
  BY <1>0, <1>2, <1>4, <1>5, <1>6 DEF Ordered, Behind
<1>8. QueuedInOrder(t)'
  BY <1>0, <1>4, <1>5 DEF Ordered, QueuedInOrder
<1>9. ReceivedInOrder(t)'
  <2> SUFFICES ASSUME NEW c \in Node
      PROVE  /\ Ascending(wire[c], Of(t)) /\ Ascending(inbox'[c], Of(t))
             /\ \A n \in Elems(inbox'[c]) \cap Of(t), x \in Elems(wire[c]) \cap Of(t) : n < x
             /\ \A n \in Handling(c)' \cap Of(t), x \in Of(t) : Arrived(c, x)' => n < x
             /\ \A x \in Of(t) : (Arrived(c, x)' \/ x \in Handling(c)') /\ ~IsOwn(c, x)
                                   => retained[c][t] < x
    BY <1>0, <1>4 DEF ReceivedInOrder
  <2>1. /\ Ascending(wire[c], Of(t)) /\ Ascending(inbox'[c], Of(t))
        /\ \A n \in Elems(inbox'[c]) \cap Of(t), x \in Elems(wire[c]) \cap Of(t) : n < x
    BY <1>2, <1>3, <1>5 DEF Ordered, ReceivedInOrder
  <2>2. ASSUME NEW n \in Handling(c)' \cap Of(t), NEW x \in Of(t), Arrived(c, x)'
        PROVE  n < x
    <3>1. CASE n \in Handling(c)
      BY <2>2, <3>1, <1>5 DEF Ordered, ReceivedInOrder
    <3>2. CASE n \notin Handling(c)
      <4>1. c = b /\ n = m
        BY <3>2, <1>2
      <4>2. CASE x \in Elems(inbox'[b])
        BY <4>1, <4>2, <1>3
      <4>3. CASE x \in Elems(wire[b])
        BY <4>1, <4>3, <1>3 DEF Ordered, ReceivedInOrder
      <4> QED
        BY <2>2, <4>1, <4>2, <4>3, <1>0 DEF Arrived
    <3> QED
      BY <3>1, <3>2
  <2>3. \A x \in Of(t) : (Arrived(c, x)' \/ x \in Handling(c)') /\ ~IsOwn(c, x)
                           => retained[c][t] < x
    BY <1>2, <1>5, <1>6 DEF Ordered, ReceivedInOrder
  <2> QED
    BY <2>1, <2>2, <2>3
<1> QED
  BY <1>7, <1>8, <1>9 DEF Ordered

LEMMA ConnectionOrder ==
  ASSUME ClusterInv, NEW t \in Topic, Ordered(t), NEW b \in Node, handle_redis_message(b)
  PROVE  Ordered(t)'
<1> USE DEF ClusterInv
<1>0. UNCHANGED <<history, store, retained, queue, client, handler>>
  BY DEF handle_redis_message, topicsVars
<1>1. PICK m : m = Head(wire[b])
  OBVIOUS
<1>2. /\ m \in Known /\ m \in Elems(wire[b])
      /\ inbox'[b] = Append(inbox[b], m) /\ Elems(inbox'[b]) = Elems(inbox[b]) \cup {m}
      /\ wire'[b] = <<>>
      /\ \A c \in Node : c # b => inbox'[c] = inbox[c] /\ wire'[c] = wire[c]
  BY <1>1, ConnectionMoves
<1>3. Ascending(inbox'[b], Of(t))
  <2>1. inbox[b] \in Seq(Known)
    BY DEF TypeInv, TaskTypeOK
  <2>2. inbox[b] \in Seq(Nat) /\ m \in Nat
    BY <1>2, <2>1, Numbers, SeqGrows
  <2>3. /\ Ascending(inbox[b], Of(t))
        /\ m \in Of(t) => \A n \in Elems(inbox[b]) \cap Of(t) : n < m
    BY <1>2 DEF Ordered, ReceivedInOrder
  <2> QED
    BY <1>2, <2>2, <2>3, AscendingAppend
<1>4. Of(t)' = Of(t) /\ \A c, n : IsOwn(c, n)' = IsOwn(c, n)
  BY <1>0, SameTopics
<1>5. Elems(wire'[b]) = {} /\ Ascending(wire'[b], Of(t))
  BY <1>2, EmptyChannel, AscendingEmpty
<1>6. \A c \in Node : /\ \A n : Arrived(c, n)' => Arrived(c, n)
                      /\ \A n : Waits(c, n)' = Waits(c, n)
                      /\ Handling(c)' = Handling(c) /\ Saving(c)' = Saving(c)
                      /\ \A h \in Task : Unsent(c, h)' = Unsent(c, h)
  BY <1>0, <1>2, <1>5 DEF Arrived, Waits, Unsent, Handling, Saving
<1>7. Behind(t)'
  BY <1>0, <1>4, <1>6 DEF Ordered, Behind
<1>8. QueuedInOrder(t)'
  BY <1>0, <1>4, <1>6 DEF Ordered, QueuedInOrder
<1>9. ReceivedInOrder(t)'
  BY <1>0, <1>2, <1>3, <1>4, <1>5, <1>6 DEF Ordered, ReceivedInOrder
<1> QED
  BY <1>7, <1>8, <1>9 DEF Ordered

\* With one handler that holds messages of the topic, the queue is filled in the order of the
\* publishes, whatever the other handlers send.
LEMMA QueueOrder ==
  ASSUME ClusterInv, NEW t \in Topic, OnePublisher(t), Ordered(t), NEW b \in Node, NEW h \in Task,
         redis_send(b, h)
  PROVE  Ordered(t)'
<1> USE DEF ClusterInv
<1>0. UNCHANGED <<history, store, retained, wire, inbox, client>>
  BY DEF redis_send, redisVars, topicsVars
<1>1. PICK m : m = handler[b][h].msg
  OBVIOUS
<1>2. /\ m \in Known /\ Unsent(b, h) = {m}
      /\ queue'[b] = Append(queue[b], m) /\ Elems(queue'[b]) = Elems(queue[b]) \cup {m}
      /\ \A c \in Node : c # b => queue'[c] = queue[c]
      /\ \A c \in Node, k \in Task :
           Unsent(c, k)' = IF c = b /\ k = h THEN {} ELSE Unsent(c, k)
  BY <1>1, QueueMoves
<1>3. Ascending(queue'[b], Of(t))
  <2>1. queue[b] \in Seq(Known)
    BY DEF TypeInv, TaskTypeOK
  <2>2. queue[b] \in Seq(Nat) /\ m \in Nat
    BY <1>2, <2>1, Numbers, SeqGrows
  <2>3. /\ Ascending(queue[b], Of(t))
        /\ m \in Of(t) => \A n \in Elems(queue[b]) \cap Of(t) : n < m
    BY <1>2 DEF Ordered, QueuedInOrder
  <2> QED
    BY <1>2, <2>2, <2>3, AscendingAppend
<1>4. Of(t)' = Of(t) /\ \A c, n : IsOwn(c, n)' = IsOwn(c, n)
  BY <1>0, SameTopics
<1>5. \A c \in Node : /\ \A n : Arrived(c, n)' = Arrived(c, n)
                      /\ Handling(c)' = Handling(c) /\ Saving(c)' = Saving(c)
  BY <1>0 DEF Arrived, Handling, Saving
<1>6. \A c \in Node : \A n : Waits(c, n)' => Waits(c, n)
  BY <1>2 DEF Waits
<1>7. Behind(t)'
  BY <1>0, <1>4, <1>5, <1>6 DEF Ordered, Behind
<1>8. QueuedInOrder(t)'
  <2> SUFFICES ASSUME NEW c \in Node
      PROVE  /\ Ascending(queue'[c], Of(t))
             /\ \A k \in Task : \A x \in Unsent(c, k)' \cap Of(t),
                                   n \in Elems(queue'[c]) \cap Of(t) : n < x
    BY <1>4 DEF QueuedInOrder
  <2>1. Ascending(queue'[c], Of(t))
    BY <1>2, <1>3 DEF Ordered, QueuedInOrder
  <2>2. ASSUME NEW k \in Task, NEW x \in Unsent(c, k)' \cap Of(t),
               NEW n \in Elems(queue'[c]) \cap Of(t)
        PROVE  n < x
    <3>1. x \in Unsent(c, k) /\ ~(c = b /\ k = h)
      BY <1>2
    <3>2. CASE n \in Elems(queue[c])
      BY <3>1, <3>2 DEF Ordered, QueuedInOrder
    <3>3. CASE n \notin Elems(queue[c])
      <4>1. c = b /\ n = m
        BY <3>3, <1>2
      <4>2. n \in Unsent(b, h) \cap Of(t) /\ x \in Unsent(b, k) \cap Of(t)
        BY <3>1, <4>1, <1>2
      <4>3. h = k
        BY <4>2, OneTask
      <4> QED
        BY <3>1, <4>1, <4>3
    <3> QED
      BY <3>2, <3>3
  <2> QED
    BY <2>1, <2>2
<1>9. ReceivedInOrder(t)'
  BY <1>0, <1>4, <1>5 DEF Ordered, ReceivedInOrder
<1> QED
  BY <1>7, <1>8, <1>9 DEF Ordered

\* What Redis gets is older than what is left at the publisher, and newer than what it got
\* before.
LEMMA RedisOrder ==
  ASSUME ClusterInv, NEW t \in Topic, OnePublisher(t), Ordered(t), NEW b \in Node,
         redis_publish(b)
  PROVE  Ordered(t)'
<1> USE DEF ClusterInv
<1>0. UNCHANGED <<history, store, retained, inbox, handler>>
  BY DEF redis_publish, topicsVars
<1>1. PICK m : m = Head(queue[b])
  OBVIOUS
<1>2. /\ m \in Known /\ queue[b] # <<>> /\ queue'[b] = Tail(queue[b])
      /\ \A c \in Node : /\ c # b => queue'[c] = queue[c]
                         /\ wire'[c] = wire[c] \/ wire'[c] = Append(wire[c], m)
                         /\ Handling(c)' = Handling(c)
                         /\ Saving(c)' \subseteq IF c = b THEN {m} ELSE Saving(c)
  BY <1>1, RedisMoves
<1>3. /\ m \in Elems(queue[b]) /\ Elems(queue'[b]) \subseteq Elems(queue[b])
      /\ Ascending(queue'[b], Of(t))
      /\ m \in Of(t) => \A n \in Elems(queue'[b]) \cap Of(t) : m < n
  <2>1. queue[b] \in Seq(Known) /\ queue[b] \in Seq(Nat)
    <3>1. queue[b] \in Seq(Known)
      BY DEF TypeInv, TaskTypeOK
    <3> QED
      BY <3>1, Numbers, SeqGrows
  <2>2. Ascending(queue[b], Of(t)) /\ NoRepeat(queue[b])
    BY DEF Ordered, QueuedInOrder, OnceInv, NoCopies
  <2>3. m \in Elems(queue[b]) /\ Elems(queue'[b]) \subseteq Elems(queue[b])
    BY <1>1, <1>2, <2>1, <2>2, TakeChannel
  <2>4. /\ Ascending(queue'[b], Of(t))
        /\ m \in Of(t) => \A n \in Elems(queue'[b]) \cap Of(t) : m < n
    BY <1>1, <1>2, <2>1, <2>2, AscendingTake
  <2> QED
    BY <2>3, <2>4
<1>4. Of(t)' = Of(t) /\ \A c, n : IsOwn(c, n)' = IsOwn(c, n)
  BY <1>0, SameTopics
<1>5. \A c \in Node, h \in Task : Unsent(c, h)' = Unsent(c, h)
  BY <1>0 DEF Unsent
<1>6. Waits(b, m) /\ IsOwn(b, m)
  BY <1>2, <1>3 DEF Waits, OnceInv, NotSentYet
<1>7. ASSUME NEW c \in Node, NEW x \in Of(t), Waits(c, x)'
      PROVE  Waits(c, x) /\ (m \in Of(t) => m < x)
  <2>1. Waits(c, x)
    BY <1>2, <1>3, <1>5, <1>7 DEF Waits
  <2>2. ASSUME m \in Of(t) PROVE m < x
    <3>1. IsOwn(c, x)
      BY <2>1 DEF OnceInv, NotSentYet, Of
    <3>2. c = b
      BY <1>6, <2>2, <3>1, OneSender
    <3>3. CASE x \in Elems(queue'[b])
      BY <2>2, <3>3, <1>3
    <3>4. ASSUME NEW h \in Task, x \in Unsent(b, h) PROVE m < x
      BY <2>2, <3>4, <1>3 DEF Ordered, QueuedInOrder
    <3> QED
      BY <1>5, <1>7, <3>2, <3>3, <3>4 DEF Waits
  <2> QED
    BY <2>1, <2>2
<1>8. \A c \in Node : /\ Elems(wire'[c]) \subseteq Elems(wire[c]) \cup {m}
                      /\ \A n : Arrived(c, n)' => Arrived(c, n) \/ n = m
  <2>1. ASSUME NEW c \in Node PROVE Elems(wire'[c]) \subseteq Elems(wire[c]) \cup {m}
    <3>1. wire[c] \in Seq(Known)
      BY DEF TypeInv, RedisTypeOK
    <3>2. Elems(Append(wire[c], m)) = Elems(wire[c]) \cup {m}
      BY <1>2, <3>1, AppendChannel
    <3> QED
      BY <1>2, <3>2
  <2> QED
    BY <1>0, <2>1 DEF Arrived
<1>9. ASSUME m \in Of(t), NEW c \in Node
      PROVE  /\ \A n \in Of(t) : Arrived(c, n) \/ n \in Handling(c) => n < m
             /\ c # b => retained[c][t] < m
  BY <1>6, <1>9 DEF Ordered, Behind
<1>10. Behind(t)'
  <2> SUFFICES ASSUME NEW c \in Node, NEW d \in Node, NEW x \in Of(t), Waits(c, x)'
      PROVE  /\ store[t] < x
             /\ \A n \in Saving(d)' \cap Of(t) : n < x
             /\ \A n \in Of(t) : Arrived(d, n)' \/ n \in Handling(d) => n < x
             /\ d # c => retained[d][t] < x
    BY <1>0, <1>2, <1>4 DEF Behind
  <2>1. Waits(c, x) /\ (m \in Of(t) => m < x)
    BY <1>7
  <2>2. /\ store[t] < x
        /\ \A n \in Saving(d) \cap Of(t) : n < x
        /\ \A n \in Of(t) : Arrived(d, n) \/ n \in Handling(d) => n < x
        /\ d # c => retained[d][t] < x
    BY <2>1 DEF Ordered, Behind
  <2> QED
    BY <2>1, <2>2, <1>2, <1>8
<1>11. QueuedInOrder(t)'
  BY <1>2, <1>3, <1>4, <1>5 DEF Ordered, QueuedInOrder
<1>12. ReceivedInOrder(t)'
  <2> SUFFICES ASSUME NEW c \in Node
      PROVE  /\ Ascending(wire'[c], Of(t)) /\ Ascending(inbox[c], Of(t))
             /\ \A n \in Elems(inbox[c]) \cap Of(t), x \in Elems(wire'[c]) \cap Of(t) : n < x
             /\ \A n \in Handling(c) \cap Of(t), x \in Of(t) : Arrived(c, x)' => n < x
             /\ \A x \in Of(t) : (Arrived(c, x)' \/ x \in Handling(c)) /\ ~IsOwn(c, x)
                                   => retained[c][t] < x
    BY <1>0, <1>2, <1>4 DEF ReceivedInOrder
  <2>1. /\ Ascending(wire[c], Of(t)) /\ Ascending(inbox[c], Of(t))
        /\ \A n \in Elems(inbox[c]) \cap Of(t), x \in Elems(wire[c]) \cap Of(t) : n < x
        /\ \A n \in Handling(c) \cap Of(t), x \in Of(t) : Arrived(c, x) => n < x
        /\ \A x \in Of(t) : (Arrived(c, x) \/ x \in Handling(c)) /\ ~IsOwn(c, x)
                              => retained[c][t] < x
    BY DEF Ordered, ReceivedInOrder
  <2>2. Ascending(wire'[c], Of(t))
    <3>1. wire[c] \in Seq(Known)
      BY DEF TypeInv, RedisTypeOK
    <3>2. wire[c] \in Seq(Nat) /\ m \in Nat
      BY <1>2, <3>1, Numbers, SeqGrows
    <3>3. m \in Of(t) => \A n \in Elems(wire[c]) \cap Of(t) : n < m
      BY <1>9 DEF Arrived
    <3>4. Ascending(Append(wire[c], m), Of(t))
      BY <2>1, <3>2, <3>3, AscendingAppend
    <3> QED
      BY <1>2, <2>1, <3>4
  <2>3. ASSUME NEW n \in Elems(inbox[c]) \cap Of(t), NEW x \in Elems(wire'[c]) \cap Of(t)
        PROVE  n < x
    <3>1. Arrived(c, n)
      BY DEF Arrived
    <3> QED
      BY <2>1, <3>1, <1>8, <1>9
  <2>4. \A n \in Handling(c) \cap Of(t), x \in Of(t) : Arrived(c, x)' => n < x
    BY <2>1, <1>8, <1>9
  <2>5. \A x \in Of(t) : (Arrived(c, x)' \/ x \in Handling(c)) /\ ~IsOwn(c, x)
                           => retained[c][t] < x
    BY <2>1, <1>6, <1>8, <1>9
  <2> QED
    BY <2>1, <2>2, <2>3, <2>4, <2>5
<1> QED
  BY <1>10, <1>11, <1>12 DEF Ordered

\* A new message is newer than all others, and those of its topic are of the same broker.
LEMMA NewOrder ==
  ASSUME ClusterInv, NEW t \in Topic, OnePublisher(t) => Ordered(t), OnePublisher(t)',
         NEW b \in Node, NEW h \in Task, lock_and_publish(b, h)
  PROVE  Ordered(t)'
<1> USE DEF ClusterInv
<1>0. UNCHANGED <<store, queue, wire, inbox, client>>
  BY DEF lock_and_publish, redisVars
<1>1. PICK m : m = Len(history) + 1
  OBVIOUS
<1>2. /\ m \in Nat /\ m \notin Known /\ (\A n \in Known : n \in Nat /\ n < m)
      /\ Known' = Known \cup {m} /\ (\A n \in Known : history'[n] = history[n])
      /\ history'[m].sender_id = b
      /\ \/ retained' = retained
         \/ retained' = [retained EXCEPT ![b][history'[m].topic] = m]
      /\ \A c \in Node, k \in Task :
           Unsent(c, k)' = IF c = b /\ k = h THEN {m} ELSE Unsent(c, k)
  BY <1>1, PublishMoves
<1>3. DOMAIN history = Known /\ DOMAIN history' = Known \cup {m}
  <2>1. DOMAIN history = Known
    BY DEF TypeInv, OutsideTypeOK, Known
  <2>2. history \in Seq(Published) /\ \E p : history' = Append(history, p)
    BY DEF TypeInv, OutsideTypeOK, lock_and_publish
  <2> QED
    BY <2>1, <2>2, <1>1, <1>2 DEF Known
<1>4. OnePublisher(t) /\ Ordered(t)
  BY <1>2, <1>3 DEF OnePublisher
<1>5. /\ Of(t) \subseteq Known /\ Of(t) \subseteq Of(t)' /\ Of(t)' \cap Known = Of(t)
      /\ Of(t)' \subseteq Of(t) \cup {m}
  BY <1>2 DEF Of, Sent
<1>6. \A c : \A n \in Known : IsOwn(c, n)' = IsOwn(c, n)
  BY <1>2 DEF IsOwn, Sent
<1>7. ASSUME m \in Of(t)', NEW n \in Of(t) PROVE IsOwn(b, n)
  <2>1. /\ m \in DOMAIN history' /\ n \in DOMAIN history' /\ history'[m].topic = t
        /\ history'[n].topic = t /\ history'[n] = history[n]
    BY <1>2, <1>3, <1>5, <1>7 DEF Of, Sent
  <2> QED
    BY <2>1, <1>2 DEF OnePublisher, IsOwn, Sent
<1>8. ASSUME NEW c \in Node
      PROVE  \/ retained'[c][t] = retained[c][t]
             \/ c = b /\ m \in Of(t)' /\ retained'[c][t] = m
  <2>1. retained \in [Node -> [Topic -> 0..Len(history)]]
    BY DEF TypeInv, TopicTypeOK
  <2>2. history'[m].topic = t => m \in Of(t)'
    BY <1>2 DEF Of, Sent
  <2> QED
    BY <1>2, <2>1, <2>2
<1>9. ASSUME NEW c \in Node
      PROVE  /\ Elems(queue[c]) \subseteq Known /\ Elems(wire[c]) \subseteq Known
             /\ Elems(inbox[c]) \subseteq Known
             /\ Handling(c) \subseteq Known /\ Saving(c) \subseteq Known
             /\ \A k \in Task : Unsent(c, k) \subseteq Known
  BY Places
<1>10. \A c \in Node : /\ Handling(c)' = Handling(c) /\ Saving(c)' = Saving(c)
                       /\ \A n : Arrived(c, n)' = Arrived(c, n) /\ (Arrived(c, n) => n \in Known)
  BY <1>0, <1>9 DEF Handling, Saving, Arrived
<1>11. store[t] < m /\ \A c \in Node : retained[c][t] < m
  BY <1>1 DEF TypeInv, OutsideTypeOK, RedisTypeOK, TopicTypeOK
<1>12. Behind(t)'
  <2> SUFFICES ASSUME NEW c \in Node, NEW d \in Node, NEW x \in Of(t)', Waits(c, x)'
      PROVE  /\ store[t] < x
             /\ \A n \in Saving(d) \cap Of(t)' : n < x
             /\ \A n \in Of(t)' : Arrived(d, n) \/ n \in Handling(d) => n < x
             /\ d # c => retained'[d][t] < x
    BY <1>0, <1>10 DEF Behind
  <2>1. CASE x = m
    <3>1. c = b
      BY <2>1, <1>0, <1>2, <1>9 DEF Waits
    <3>2. d # c => retained'[d][t] < x
      BY <2>1, <3>1, <1>8, <1>11
    <3> QED
      BY <2>1, <3>2, <1>2, <1>9, <1>10, <1>11
  <2>2. CASE x # m
    <3>1. x \in Of(t) /\ x \in Known /\ Waits(c, x)
      BY <2>2, <1>0, <1>2, <1>5 DEF Waits
    <3>2. /\ store[t] < x
          /\ \A n \in Saving(d) \cap Of(t) : n < x
          /\ \A n \in Of(t) : Arrived(d, n) \/ n \in Handling(d) => n < x
          /\ d # c => retained[d][t] < x
      BY <3>1, <1>4 DEF Ordered, Behind
    <3>3. IsOwn(c, x)
      BY <3>1 DEF OnceInv, NotSentYet
    <3>4. m \in Of(t)' => c = b
      BY <3>1, <3>3, <1>7 DEF IsOwn
    <3>5. d # c => retained'[d][t] < x
      BY <3>2, <3>4, <1>8
    <3> QED
      BY <3>2, <3>5, <1>5, <1>9, <1>10
  <2> QED
    BY <2>1, <2>2
<1>13. \A c \in Node : /\ Ascending(queue[c], Of(t)') /\ Ascending(wire[c], Of(t)')
                       /\ Ascending(inbox[c], Of(t)')
  <2>1. \A c \in Node : /\ Ascending(queue[c], Of(t)) /\ Ascending(wire[c], Of(t))
                        /\ Ascending(inbox[c], Of(t))
    BY <1>4 DEF Ordered, QueuedInOrder, ReceivedInOrder
  <2>2. \A c \in Node : /\ Elems(queue[c]) \cap Of(t)' \subseteq Of(t)
                        /\ Elems(wire[c]) \cap Of(t)' \subseteq Of(t)
                        /\ Elems(inbox[c]) \cap Of(t)' \subseteq Of(t)
    BY <1>5, <1>9
  <2> QED
    BY <2>1, <2>2, AscendingOn
<1>14. QueuedInOrder(t)'
  <2> SUFFICES ASSUME NEW c \in Node, NEW k \in Task, NEW x \in Unsent(c, k)' \cap Of(t)',
                      NEW n \in Elems(queue[c]) \cap Of(t)'
               PROVE  n < x
    BY <1>0, <1>13 DEF QueuedInOrder
  <2>1. n \in Known /\ n \in Of(t)
    BY <1>5, <1>9
  <2>2. CASE x = m
    BY <2>1, <2>2, <1>2
  <2>3. CASE x # m
    <3>1. x \in Unsent(c, k) \cap Of(t)
      BY <2>3, <1>2, <1>5
    <3> QED
      BY <2>1, <3>1, <1>4 DEF Ordered, QueuedInOrder
  <2> QED
    BY <2>2, <2>3
<1>15. ReceivedInOrder(t)'
  <2> SUFFICES ASSUME NEW c \in Node
      PROVE  /\ \A n \in Elems(inbox[c]) \cap Of(t)', x \in Elems(wire[c]) \cap Of(t)' : n < x
             /\ \A n \in Handling(c) \cap Of(t)', x \in Of(t)' : Arrived(c, x) => n < x
             /\ \A x \in Of(t)' : (Arrived(c, x) \/ x \in Handling(c)) /\ ~IsOwn(c, x)'
                                    => retained'[c][t] < x
    BY <1>0, <1>10, <1>13 DEF ReceivedInOrder
  <2>1. /\ \A n \in Elems(inbox[c]) \cap Of(t), x \in Elems(wire[c]) \cap Of(t) : n < x
        /\ \A n \in Handling(c) \cap Of(t), x \in Of(t) : Arrived(c, x) => n < x
        /\ \A x \in Of(t) : (Arrived(c, x) \/ x \in Handling(c)) /\ ~IsOwn(c, x)
                              => retained[c][t] < x
    BY <1>4 DEF Ordered, ReceivedInOrder
  <2>2. \A n \in Elems(inbox[c]) \cap Of(t)', x \in Elems(wire[c]) \cap Of(t)' : n < x
    BY <2>1, <1>5, <1>9
  <2>3. \A n \in Handling(c) \cap Of(t)', x \in Of(t)' : Arrived(c, x) => n < x
    BY <2>1, <1>5, <1>9, <1>10
  <2>4. ASSUME NEW x \in Of(t)', Arrived(c, x) \/ x \in Handling(c), ~IsOwn(c, x)'
        PROVE  retained'[c][t] < x
    <3>1. x \in Known /\ x \in Of(t) /\ ~IsOwn(c, x)
      BY <2>4, <1>5, <1>6, <1>9, <1>10
    <3>2. retained'[c][t] = retained[c][t]
      BY <3>1, <1>7, <1>8
    <3> QED
      BY <2>1, <2>4, <3>1, <3>2
  <2> QED
    BY <2>2, <2>3, <2>4
<1> QED
  BY <1>12, <1>14, <1>15 DEF Ordered
-----------------------------------------------------------------------------
\* Redis pushes to the subscribed connections of running brokers only.
LEMMA SilentStep ==
  ASSUME ClusterInv, \A c \in Node : Silent(c), [ClusterNext]_vars
  PROVE  \A c \in Node : Silent(c)'
<1> USE DEF ClusterInv
<1> SUFFICES ASSUME NEW c \in Node PROVE Silent(c)'
  OBVIOUS
<1>0. /\ DOMAIN phase = Node /\ DOMAIN receiver = Node /\ DOMAIN wire = Node /\ DOMAIN inbox = Node
      /\ receiver[c] = "connecting" \/ phase[c] = "up"
  BY DEF TypeInv, RedisTypeOK, TopicTypeOK, TaskTypeOK, Silent
<1>1. CASE UNCHANGED vars
  BY <1>1 DEF vars, Silent, redisVars, taskVars
<1>2. ASSUME NEW b \in Node, start(b) \/ serve(b) \/ \E u \in Topic : get_retained(b, u)
      PROVE  Silent(c)'
  BY <1>0, <1>2 DEF start, serve, get_retained, Silent, redisVars, taskVars
<1>3. ASSUME NEW b \in Node, crash(b) PROVE Silent(c)'
  BY <1>0, <1>3 DEF crash, Silent
<1>4. ASSUME NEW b \in Node, NEW h \in Task,
             \/ lock_and_publish(b, h) \/ unlock(b, h) \/ redis_send(b, h)
             \/ send_panics(b, h) \/ write_puback(b, h) \/ log_in_bq(b, h)
      PROVE  Silent(c)'
  BY <1>4 DEF lock_and_publish, unlock, redis_send, send_panics, write_puback, log_in_bq, Silent,
     redisVars
<1>5. ASSUME NEW b \in Node, redis_set(b) \/ handle_message(b) PROVE Silent(c)'
  BY <1>5 DEF redis_set, handle_message, Silent, redisVars
<1>6. ASSUME NEW b \in Node, redis_publish(b) PROVE Silent(c)'
  <2>1. wire'[c] = wire[c] \/ c \in Subscribers
    BY <1>6, RedisMoves
  <2>2. UNCHANGED <<phase, receiver, inbox>>
    BY <1>6 DEF redis_publish
  <2> QED
    BY <1>0, <2>1, <2>2 DEF Silent, Subscribers
<1>7. ASSUME NEW b \in Node, receive_inbox(b) \/ client_panics(b) PROVE Silent(c)'
  BY <1>0, <1>7 DEF receive_inbox, client_panics, Silent, redisVars
<1>8. ASSUME NEW b \in Node, redis_subscribe(b) \/ get_message(b) PROVE Silent(c)'
  BY <1>0, <1>8 DEF redis_subscribe, get_message, Silent, redisVars
<1>9. ASSUME NEW b \in Node, handle_redis_message(b) \/ connection_lost(b) PROVE Silent(c)'
  BY <1>0, <1>9 DEF handle_redis_message, connection_lost, Silent
<1> QED
  BY <1>1, <1>2, <1>3, <1>4, <1>5, <1>6, <1>7, <1>8, <1>9 DEF ClusterNext

\* A handler gets messages of its own connection only.
LEMMA OwnHandStep ==
  ASSUME TypeInv, OwnHand, [ClusterNext]_vars
  PROVE  OwnHand'
<1> SUFFICES ASSUME NEW c \in Node, NEW k \in Task, NEW n \in Unsent(c, k)'
             PROVE  Sent(n)'.task = k
  BY DEF OwnHand
<1>1. ASSUME NEW b \in Node, NEW h \in Task, lock_and_publish(b, h) PROVE Sent(n)'.task = k
  <2>1. PICK m : m = Len(history) + 1
    OBVIOUS
  <2>2. /\ (\A x \in Known : history'[x] = history[x]) /\ history'[m].task = h
        /\ Unsent(c, k)' = IF c = b /\ k = h THEN {m} ELSE Unsent(c, k)
    BY <1>1, <2>1, PublishMoves
  <2>3. Unsent(c, k) \subseteq Known
    BY Places
  <2> QED
    BY <2>2, <2>3 DEF OwnHand, Sent
<1>2. ASSUME history' = history, Unsent(c, k)' \subseteq Unsent(c, k) PROVE Sent(n)'.task = k
  BY <1>2 DEF OwnHand, Sent
<1>3. ASSUME history' = history, handler' = handler PROVE Sent(n)'.task = k
  BY <1>2, <1>3 DEF Unsent
<1>4. CASE UNCHANGED vars
  BY <1>3, <1>4 DEF vars, taskVars
<1>5. ASSUME NEW b \in Node, crash(b) PROVE Sent(n)'.task = k
  <2>1. /\ client' = [client EXCEPT ![b] = Idle] /\ history' = history
        /\ handler' = [handler EXCEPT ![b] = [h \in Task |-> Idle]]
    BY <1>5 DEF crash
  <2> QED
    BY <1>2, <2>1, TasksIdle
<1>6. ASSUME NEW b \in Node, NEW h \in Task,
             \/ unlock(b, h) \/ send_panics(b, h) \/ write_puback(b, h) \/ log_in_bq(b, h)
      PROVE  Sent(n)'.task = k
  <2>1. history' = history
    BY <1>6 DEF unlock, send_panics, write_puback, log_in_bq
  <2> QED
    BY <1>2, <1>6, <2>1, HandsLess
<1>7. ASSUME NEW b \in Node, NEW h \in Task, redis_send(b, h) PROVE Sent(n)'.task = k
  <2>1. Unsent(c, k)' = (IF c = b /\ k = h THEN {} ELSE Unsent(c, k)) /\ history' = history
    BY <1>7, QueueMoves DEF redis_send
  <2> QED
    BY <1>2, <2>1
<1>8. ASSUME NEW b \in Node, start(b) \/ serve(b) \/ \E t \in Topic : get_retained(b, t)
      PROVE  Sent(n)'.task = k
  BY <1>3, <1>8 DEF start, serve, get_retained, taskVars
<1>9. ASSUME NEW b \in Node,
             \/ redis_publish(b) \/ redis_set(b) \/ receive_inbox(b) \/ handle_message(b)
             \/ client_panics(b) \/ redis_subscribe(b) \/ get_message(b)
             \/ handle_redis_message(b) \/ connection_lost(b)
      PROVE  Sent(n)'.task = k
  BY <1>3, <1>9 DEF redis_publish, redis_set, receive_inbox, handle_message, client_panics,
     redis_subscribe, get_message, handle_redis_message, connection_lost
<1> QED
  BY <1>1, <1>4, <1>5, <1>6, <1>7, <1>8, <1>9 DEF ClusterNext

LEMMA ClusterInductive == ClusterSpec => []ClusterInv
<1>1. ClusterInit => OwnHand
  <2> SUFFICES ASSUME ClusterInit PROVE OwnHand
    OBVIOUS
  <2>1. \A b \in Node, h \in Task : Unsent(b, h) = {}
    BY DEF ClusterInit, Unsent, Idle
  <2> QED
    BY <2>1 DEF OwnHand
<1>2. TypeInv /\ OwnHand /\ [ClusterNext]_vars => OwnHand'
  BY OwnHandStep
<1>3. TypeInv /\ LoadInv /\ OnceInv /\ OwnHand => ClusterInv
  BY DEF ClusterInv
<1> QED
  BY <1>1, <1>2, <1>3, MessagesKnown, LoadInductive, OnceInductive, PTL DEF ClusterSpec

LEMMA OrderStep ==
  ASSUME ClusterInv, OrderInv, [ClusterNext]_vars
  PROVE  OrderInv'
<1>1. \A c \in Node : Silent(c)'
  BY SilentStep DEF OrderInv
<1>2. ASSUME NEW t \in Topic, OnePublisher(t)' PROVE Ordered(t)'
  <2>1. (OnePublisher(t) => Ordered(t)) /\ TypeInv
    BY DEF OrderInv, ClusterInv
  <2>2. ASSUME NEW b \in Node, NEW h \in Task, lock_and_publish(b, h) PROVE Ordered(t)'
    BY <1>2, <2>1, <2>2, NewOrder
  <2>3. CASE UNCHANGED vars
    <3>1. UNCHANGED <<history, store, retained, queue, wire, inbox, client, handler>>
      BY <2>3 DEF vars, redisVars, topicsVars, taskVars
    <3>2. OnePublisher(t) /\ Ordered(t)
      BY <1>2, <2>1, <3>1, SameTopics
    <3>3. Of(t)' = Of(t) /\ \A c, n : IsOwn(c, n)' = IsOwn(c, n)
      BY <3>1, SameTopics
    <3>4. \A c \in Node : /\ Handling(c)' = Handling(c) /\ Saving(c)' = Saving(c)
                          /\ \A n : Arrived(c, n)' = Arrived(c, n) /\ Waits(c, n)' = Waits(c, n)
                          /\ \A h \in Task : Unsent(c, h)' = Unsent(c, h)
      BY <3>1 DEF Handling, Saving, Arrived, Waits, Unsent
    <3> QED
      BY <3>1, <3>2, <3>3, <3>4 DEF Ordered, Behind, QueuedInOrder, ReceivedInOrder
  <2>4. CASE ClusterNext /\ ~\E b \in Node, h \in Task : lock_and_publish(b, h)
    <3>1. history' = history
      <4>1. ASSUME NEW b \in Node, NEW h \in Task,
                   \/ unlock(b, h) \/ redis_send(b, h) \/ send_panics(b, h)
                   \/ write_puback(b, h) \/ log_in_bq(b, h)
            PROVE  history' = history
        BY <4>1 DEF unlock, redis_send, send_panics, write_puback, log_in_bq
      <4>2. ASSUME NEW b \in Node,
                   \/ start(b) \/ serve(b) \/ crash(b) \/ \E u \in Topic : get_retained(b, u)
                   \/ redis_publish(b) \/ redis_set(b) \/ receive_inbox(b) \/ handle_message(b)
            PROVE  history' = history
        BY <4>2 DEF start, serve, crash, get_retained, redis_publish, redis_set, receive_inbox,
           handle_message
      <4>3. ASSUME NEW b \in Node,
                   \/ client_panics(b) \/ redis_subscribe(b) \/ get_message(b)
                   \/ handle_redis_message(b) \/ connection_lost(b)
            PROVE  history' = history
        BY <4>3 DEF client_panics, redis_subscribe, get_message, handle_redis_message,
           connection_lost
      <4> QED
        BY <2>4, <4>1, <4>2, <4>3 DEF ClusterNext
    <3>2. OnePublisher(t) /\ Ordered(t)
      BY <1>2, <2>1, <3>1, SameTopics
    <3>3. ASSUME NEW b \in Node, NEW u \in Topic, get_retained(b, u) PROVE Ordered(t)'
      BY <3>2, <3>3, LoadOrder DEF OrderInv
    <3> QED
      BY <2>1, <2>4, <3>2, <3>3, QuietOrder, HandlerOrder, SaveOrder, MessageOrder, InboxOrder,
         ConnectionOrder, QueueOrder, RedisOrder DEF ClusterNext
  <2> QED
    BY <2>2, <2>3, <2>4
<1> QED
  BY <1>1, <1>2 DEF OrderInv

LEMMA OrderInit == ASSUME ClusterInit PROVE OrderInv
<1>1. \A b \in Node : /\ queue[b] = <<>> /\ wire[b] = <<>> /\ inbox[b] = <<>>
                      /\ receiver[b] = "connecting"
                      /\ client[b] = Idle /\ \A h \in Task : handler[b][h] = Idle
  BY DEF ClusterInit
<1>2. \A b \in Node : Handling(b) = {} /\ Saving(b) = {} /\ \A h \in Task : Unsent(b, h) = {}
  BY <1>1 DEF Handling, Saving, Unsent, Idle
<1>3. \A b \in Node : \A m : ~Waits(b, m) /\ ~Arrived(b, m)
  BY <1>1, <1>2, EmptyChannel DEF Waits, Arrived
<1>4. ASSUME NEW t \in Topic PROVE Ordered(t)
  BY <1>1, <1>2, <1>3, EmptyChannel, AscendingEmpty
  DEF Ordered, Behind, QueuedInOrder, ReceivedInOrder
<1> QED
  BY <1>1, <1>4 DEF OrderInv, Silent

LEMMA OrderInductive == ClusterSpec => []OrderInv
<1>1. ClusterInit => OrderInv
  BY OrderInit
<1>2. ClusterInv /\ OrderInv /\ [ClusterNext]_vars => OrderInv'
  BY OrderStep
<1> QED
  BY <1>1, <1>2, ClusterInductive, PTL DEF ClusterSpec
-----------------------------------------------------------------------------
\* No step takes the retained message of a topic back.
LEMMA RetainedStep ==
  ASSUME ClusterInv, OrderInv, ClusterNext, NEW c \in Node, NEW t \in Topic,
         phase'[c] # "down", OnePublisher(t)'
  PROVE  retained'[c][t] >= retained[c][t]
<1> USE DEF ClusterInv
<1>0. /\ retained \in [Node -> [Topic -> 0..Len(history)]] /\ retained[c][t] \in Nat
      /\ DOMAIN phase = Node
  BY Numbers DEF TypeInv, TopicTypeOK
<1>1. CASE retained' = retained
  BY <1>0, <1>1
<1>2. ASSUME NEW b \in Node, crash(b) PROVE retained'[c][t] >= retained[c][t]
  <2>1. c # b
    BY <1>0, <1>2 DEF crash
  <2>2. retained'[c] = retained[c]
    BY <1>0, <1>2, <2>1 DEF crash
  <2> QED
    BY <1>0, <2>2
<1>3. ASSUME NEW b \in Node, NEW u \in Topic, get_retained(b, u)
      PROVE  retained'[c][t] >= retained[c][t]
  <2>1. retained[b][u] = 0 /\ store[u] \in Nat
    BY <1>3, Numbers DEF get_retained, LoadInv, NothingBeforeServe
  <2>2. retained' = retained \/ retained' = [retained EXCEPT ![b][u] = store[u]]
    BY <1>3 DEF get_retained
  <2>3. retained'[c][t] = retained[c][t] \/ (c = b /\ t = u /\ retained'[c][t] = store[u])
    BY <1>0, <2>2
  <2> QED
    BY <1>0, <2>1, <2>3
<1>4. ASSUME NEW b \in Node, NEW h \in Task, lock_and_publish(b, h)
      PROVE  retained'[c][t] >= retained[c][t]
  <2>1. PICK m : m = Len(history) + 1
    OBVIOUS
  <2>2. \/ retained' = retained
        \/ retained' = [retained EXCEPT ![b][history'[m].topic] = m]
    BY <1>4, <2>1, PublishMoves
  <2>3. retained'[c][t] = retained[c][t] \/ retained'[c][t] = m
    BY <1>0, <2>2
  <2>4. Len(history) \in Nat /\ retained[c][t] <= Len(history)
    BY <1>0 DEF TypeInv, OutsideTypeOK
  <2> QED
    BY <1>0, <2>1, <2>3, <2>4
<1>5. ASSUME NEW b \in Node, handle_message(b) PROVE retained'[c][t] >= retained[c][t]
  <2>0. history' = history
    BY <1>5 DEF handle_message
  <2>1. Ordered(t)
    BY <2>0, SameTopics DEF OrderInv
  <2>2. PICK m : m = client[b].msg
    OBVIOUS
  <2>3. /\ m \in Known /\ m \in Handling(b)
        /\ retained' = retained \/ retained' = [retained EXCEPT ![b][Sent(m).topic] = m]
    BY <1>5, <2>2, MessageMoves
  <2>4. retained'[c][t] = retained[c][t] \/ (c = b /\ Sent(m).topic = t /\ retained'[c][t] = m)
    BY <1>0, <2>3
  <2>5. ~IsOwn(b, m) /\ m \in Nat
    BY <2>3, Numbers DEF OnceInv, NotBroadcastYet
  <2>6. CASE c = b /\ Sent(m).topic = t /\ retained'[c][t] = m
    <3>1. retained[b][t] < m
      BY <2>1, <2>3, <2>5, <2>6 DEF Ordered, ReceivedInOrder, Of
    <3> QED
      BY <1>0, <2>5, <2>6, <3>1
  <2> QED
    BY <1>0, <2>4, <2>6
<1>6. \/ retained' = retained
      \/ \E b \in Node : crash(b) \/ handle_message(b) \/ \E u \in Topic : get_retained(b, u)
      \/ \E b \in Node, h \in Task : lock_and_publish(b, h)
  BY DEF ClusterNext, start, serve, unlock, redis_send, send_panics, write_puback, log_in_bq,
     redis_publish, redis_set, receive_inbox, client_panics, redis_subscribe, get_message, handle_redis_message,
     connection_lost, topicsVars
<1> QED
  BY <1>1, <1>2, <1>3, <1>4, <1>5, <1>6

\* On a topic with one publisher the retained message of a running broker never goes back to
\* an older one, with any number of brokers, connections, topics and messages, with lost
\* commands, crashes and ended tasks: a handler queues a message before its connection
\* publishes the next, and what leaves the queue is newer than what has left before
\* (handle_publish_packet, RedisClient::publish and handle_message, get_all_retained_messages).
THEOREM ClusterRetainedMovesForward == ClusterSpec => RetainedMovesForward
<1>1. ClusterInv /\ OrderInv /\ [ClusterNext]_vars
      => [\A b \in Node, t \in Topic :
            phase'[b] # "down" /\ OnePublisher(t)' => retained'[b][t] >= retained[b][t]]_vars
  BY RetainedStep
<1> QED
  BY <1>1, OrderInductive, ClusterInductive, PTL DEF ClusterSpec, RetainedMovesForward
-----------------------------------------------------------------------------
(* SavedIsNewest. *)

\* What a RedisClient is saving is its own and newer than what the key holds.
NewerSaved(t) ==
  \A c \in Node : \A n \in Saving(c) \cap Of(t) : IsOwn(c, n) /\ store[t] < n

SavedInv ==
  /\ \A t \in Topic : OnePublisher(t) => NewerSaved(t)
  /\ \A b \in Node : client[b].pc = "dead" => Faulty
  /\ SavedIsNewest

\* The places of a message that has not reached Redis.
LEMMA UnderWayPlaces ==
  ASSUME NEW m
  PROVE  UnderWay(m) <=> \E b \in Node : Waits(b, m) \/ m \in Saving(b)
BY DEF UnderWay, Waits, Unsent, Saving, Elems

LEMMA UnderWayLater ==
  ASSUME NEW m, \E b \in Node : Waits(b, m)' \/ m \in Saving(b)'
  PROVE  UnderWay(m)'
BY DEF UnderWay, Waits, Unsent, Saving, Elems

\* A step that reaches neither Redis nor the history, and loses nothing on the way there.
LEMMA NothingSaved ==
  ASSUME NEW t \in Topic, history' = history, store' = store,
         \A c \in Node : \A n \in Known : /\ Waits(c, n) => Waits(c, n)'
                                          /\ n \in Saving(c) => n \in Saving(c)',
         UpToDate(t)
  PROVE  UpToDate(t)'
<1> SUFFICES ASSUME NEW m \in Known, Sent(m).topic = t, Sent(m).retain, store[t] < m
             PROVE  UnderWay(m)'
  BY DEF UpToDate, Sent, Known
<1>1. UnderWay(m)
  BY DEF UpToDate, Known
<1>2. \E b \in Node : Waits(b, m)' \/ m \in Saving(b)'
  BY <1>1, UnderWayPlaces
<1> QED
  BY <1>2, UnderWayLater

\* SET: what was being saved is in the key, unless the command failed.
LEMMA SaveMoves ==
  ASSUME TypeInv, NEW b \in Node, redis_set(b), NEW n, n = client[b].msg
  PROVE  /\ n \in Known /\ n \in Saving(b)
         /\ \A c \in Node : /\ Saving(c)' = IF c = b THEN {} ELSE Saving(c)
                            /\ \A m : Waits(c, m)' = Waits(c, m)
         /\ \A t \in Topic : store'[t] = store[t] \/ (n \in Of(t) /\ store'[t] = n)
         /\ ~Faulty => \A t \in Topic : n \in Of(t) => store'[t] = n
<1>1. /\ client[b].pc = "saving" /\ client' = [client EXCEPT ![b] = Idle]
      /\ store' = [store EXCEPT ![Sent(n).topic] = n] \/ (Faulty /\ store' = store)
      /\ UNCHANGED <<queue, handler>>
  BY DEF redis_set
<1>2. client \in [Node -> Carried] /\ store \in [Topic -> 0..Len(history)]
  BY DEF TypeInv, TaskTypeOK, RedisTypeOK
<1>3. n \in Known /\ n \in Saving(b)
  BY <1>1, <1>2 DEF Saving, Carried
<1>4. ASSUME NEW c \in Node
      PROVE  Saving(c)' = (IF c = b THEN {} ELSE Saving(c)) /\ \A m : Waits(c, m)' = Waits(c, m)
  <2>1. client'[c] = IF c = b THEN Idle ELSE client[c]
    BY <1>1, <1>2
  <2> QED
    BY <1>1, <2>1 DEF Saving, Idle, Waits, Unsent
<1>5. ASSUME NEW t \in Topic
      PROVE  /\ store'[t] = store[t] \/ (n \in Of(t) /\ store'[t] = n)
             /\ ~Faulty /\ n \in Of(t) => store'[t] = n
  <2>1. n \in Of(t) <=> Sent(n).topic = t
    BY <1>3 DEF Of
  <2> QED
    BY <1>1, <1>2, <2>1
<1> QED
  BY <1>3, <1>4, <1>5

\* The steps that neither publish, nor send to Redis, nor save.
LEMMA SavingLess ==
  ASSUME TypeInv, ClusterNext,
         ~\E b \in Node : redis_publish(b) \/ redis_set(b) \/ \E h \in Task : lock_and_publish(b, h)
  PROVE  /\ UNCHANGED <<history, store>>
         /\ \A c \in Node : Saving(c)' \subseteq Saving(c)
<1>1. ASSUME NEW b \in Node, NEW h \in Task,
             \/ unlock(b, h) \/ redis_send(b, h) \/ send_panics(b, h)
             \/ write_puback(b, h) \/ log_in_bq(b, h)
      PROVE  UNCHANGED <<history, store, client>>
  BY <1>1 DEF unlock, redis_send, send_panics, write_puback, log_in_bq, redisVars
<1>2. ASSUME NEW b \in Node,
             \/ start(b) \/ serve(b) \/ \E u \in Topic : get_retained(b, u)
             \/ redis_subscribe(b) \/ get_message(b) \/ handle_redis_message(b)
             \/ connection_lost(b)
      PROVE  UNCHANGED <<history, store, client>>
  BY <1>2 DEF start, serve, get_retained, redis_subscribe, get_message, handle_redis_message,
     connection_lost, redisVars, taskVars
<1>3. ASSUME NEW b \in Node, crash(b) \/ client_panics(b)
      PROVE  /\ UNCHANGED <<history, store>>
             /\ client' \in {client, [client EXCEPT ![b] = Idle], [client EXCEPT ![b] = Dead]}
             /\ handler' = handler \/ handler' = [handler EXCEPT ![b] = [h \in Task |-> Idle]]
  BY <1>3 DEF crash, client_panics, redisVars
<1>4. ASSUME NEW b \in Node, receive_inbox(b)
      PROVE  UNCHANGED <<history, store>> /\ \A c \in Node : Saving(c)' \subseteq Saving(c)
  BY <1>4, InboxMoves DEF receive_inbox, redisVars
<1>5. ASSUME NEW b \in Node, handle_message(b)
      PROVE  UNCHANGED <<history, store>> /\ \A c \in Node : Saving(c)' \subseteq Saving(c)
  BY <1>5, MessageMoves DEF handle_message, redisVars
<1>6. client' = client => \A c \in Node : Saving(c)' \subseteq Saving(c)
  BY DEF Saving
<1>7. ASSUME NEW b \in Node, crash(b) \/ client_panics(b)
      PROVE  \A c \in Node : Saving(c)' \subseteq Saving(c)
  BY <1>3, <1>7, TasksIdle
<1> QED
  BY <1>1, <1>2, <1>3, <1>4, <1>5, <1>6, <1>7 DEF ClusterNext

LEMMA NewerSavedStep ==
  ASSUME ClusterInv, OrderInv, [ClusterNext]_vars, NEW t \in Topic,
         OnePublisher(t) => NewerSaved(t), OnePublisher(t)'
  PROVE  NewerSaved(t)'
<1> USE DEF ClusterInv
<1>1. ASSUME NEW b \in Node, NEW h \in Task, lock_and_publish(b, h) PROVE NewerSaved(t)'
  <2>1. PICK m : m = Len(history) + 1
    OBVIOUS
  <2>2. /\ Known' = Known \cup {m} /\ (\A n \in Known : history'[n] = history[n])
    BY <1>1, <2>1, PublishMoves
  <2>3. DOMAIN history = Known /\ DOMAIN history' = Known'
    <3>1. history \in Seq(Published) /\ \E p : history' = Append(history, p)
      BY <1>1 DEF TypeInv, OutsideTypeOK, lock_and_publish
    <3>2. DOMAIN history = 1..Len(history) /\ DOMAIN history' = 1..Len(history')
      BY <3>1
    <3> QED
      BY <3>2 DEF Known
  <2>4. NewerSaved(t)
    BY <2>2, <2>3 DEF OnePublisher
  <2>5. UNCHANGED <<store, client>> /\ \A c \in Node : Saving(c) \subseteq Known
    BY <1>1, Places DEF lock_and_publish, redisVars
  <2>6. \A c \in Node : Saving(c)' = Saving(c)
    BY <2>5 DEF Saving
  <2> QED
    BY <2>2, <2>4, <2>5, <2>6 DEF NewerSaved, Of, IsOwn, Sent
<1>2. ASSUME history' = history PROVE /\ Of(t)' = Of(t) /\ OnePublisher(t)
                                      /\ NewerSaved(t) /\ Ordered(t)
                                      /\ \A c, n : IsOwn(c, n)' = IsOwn(c, n)
  BY <1>2, SameTopics DEF OrderInv
<1>3. ASSUME NEW b \in Node, redis_publish(b) PROVE NewerSaved(t)'
  <2>0. UNCHANGED <<history, store>>
    BY <1>3 DEF redis_publish
  <2>1. PICK m : m = Head(queue[b])
    OBVIOUS
  <2>2. /\ m \in Known /\ queue[b] # <<>>
        /\ \A c \in Node : Saving(c)' \subseteq IF c = b THEN {m} ELSE Saving(c)
    BY <1>3, <2>1, RedisMoves
  <2>3. Waits(b, m) /\ IsOwn(b, m)
    <3>1. queue[b] \in Seq(Known) /\ NoRepeat(queue[b])
      BY DEF TypeInv, TaskTypeOK, OnceInv, NoCopies
    <3>2. m \in Elems(queue[b])
      BY <2>1, <2>2, <3>1, TakeChannel
    <3> QED
      BY <2>2, <3>2 DEF Waits, OnceInv, NotSentYet
  <2>4. m \in Of(t) => store[t] < m
    BY <1>2, <2>0, <2>3 DEF Ordered, Behind
  <2> QED
    BY <1>2, <2>0, <2>2, <2>3, <2>4 DEF NewerSaved
<1>4. ASSUME NEW b \in Node, redis_set(b) PROVE NewerSaved(t)'
  <2>0. history' = history
    BY <1>4 DEF redis_set
  <2>1. PICK n : n = client[b].msg
    OBVIOUS
  <2>2. /\ n \in Saving(b) /\ \A c \in Node : Saving(c)' = IF c = b THEN {} ELSE Saving(c)
        /\ n \in Of(t) \/ store'[t] = store[t]
    BY <1>4, <2>1, SaveMoves
  <2> SUFFICES ASSUME NEW c \in Node, NEW x \in Saving(c)' \cap Of(t)
               PROVE  IsOwn(c, x) /\ store'[t] < x
    BY <1>2, <2>0 DEF NewerSaved
  <2>3. c # b /\ x \in Saving(c) \cap Of(t)
    BY <2>2
  <2>4. IsOwn(c, x) /\ store[t] < x
    BY <1>2, <2>0, <2>3 DEF NewerSaved
  <2>5. n \notin Of(t)
    <3> SUFFICES ASSUME n \in Of(t) PROVE FALSE
      OBVIOUS
    <3>1. IsOwn(b, n)
      BY <1>2, <2>0, <2>2 DEF NewerSaved
    <3> QED
      BY <1>2, <2>0, <2>3, <2>4, <3>1, OneSender
  <2> QED
    BY <2>2, <2>4, <2>5
<1>5. ASSUME UNCHANGED <<history, store>>, \A c \in Node : Saving(c)' \subseteq Saving(c)
      PROVE  NewerSaved(t)'
  BY <1>2, <1>5 DEF NewerSaved
<1>6. CASE UNCHANGED vars
  BY <1>5, <1>6 DEF vars, redisVars, taskVars, Saving
<1> QED
  BY <1>1, <1>3, <1>4, <1>5, <1>6, SavingLess

\* Every element of a channel is at its front or behind it.
LEMMA FrontOrBehind ==
  ASSUME NEW S, NEW q \in Seq(S), q # <<>>
  PROVE  Elems(q) \subseteq Elems(Tail(q)) \cup {Head(q)}
<1> DEFINE r == Tail(q)
<1>1. /\ Len(q) \in Nat /\ Len(q) > 0 /\ Len(r) = Len(q) - 1 /\ Head(q) = q[1]
      /\ \A i \in 1..Len(r) : r[i] = q[i + 1]
  OBVIOUS
<1> HIDE DEF r
<1>2. ASSUME NEW i \in 1..Len(q), i # 1 PROVE q[i] \in Elems(r)
  <2>1. i - 1 \in 1..Len(r) /\ (i - 1) + 1 = i
    BY <1>1, <1>2
  <2>2. r[i - 1] = q[i]
    BY <1>1, <2>1
  <2> QED
    BY <2>1, <2>2 DEF Elems
<1> QED
  BY <1>1, <1>2 DEF Elems, r

\* A message stays under way until it is saved, or is not to be saved.
LEMMA UpToDateStep ==
  ASSUME ClusterInv, ClusterNext, NEW t \in Topic, ~Faulty, crashes = 0, crashes' = 0,
         \A b \in Node : client[b].pc # "dead",
         OnePublisher(t)', OnePublisher(t) => UpToDate(t) /\ NewerSaved(t)
  PROVE  UpToDate(t)'
<1> USE DEF ClusterInv
<1>0. ASSUME history' = history PROVE Of(t)' = Of(t) /\ UpToDate(t) /\ NewerSaved(t)
  BY <1>0, SameTopics
<1>1. ASSUME NEW b \in Node, NEW h \in Task, lock_and_publish(b, h) PROVE UpToDate(t)'
  <2>1. PICK m : m = Len(history) + 1
    OBVIOUS
  <2>2. /\ Known' = Known \cup {m} /\ (\A n \in Known : history'[n] = history[n])
        /\ \A c \in Node, k \in Task :
             Unsent(c, k)' = IF c = b /\ k = h THEN {m} ELSE Unsent(c, k)
    BY <1>1, <2>1, PublishMoves
  <2>3. DOMAIN history = Known /\ DOMAIN history' = Known'
    <3>1. history \in Seq(Published) /\ \E p : history' = Append(history, p)
      BY <1>1 DEF TypeInv, OutsideTypeOK, lock_and_publish
    <3>2. DOMAIN history = 1..Len(history) /\ DOMAIN history' = 1..Len(history')
      BY <3>1
    <3> QED
      BY <3>2 DEF Known
  <2>4. UpToDate(t)
    BY <2>2, <2>3 DEF OnePublisher
  <2>5. UNCHANGED <<store, client, queue>> /\ Unsent(b, h) = {}
    BY <1>1 DEF lock_and_publish, redisVars, Unsent
  <2>6. \A c \in Node : \A n : /\ Waits(c, n) => Waits(c, n)'
                               /\ Saving(c)' = Saving(c)
    BY <2>2, <2>5 DEF Waits, Saving
  <2> SUFFICES ASSUME NEW x \in Known', Sent(x)'.topic = t, Sent(x)'.retain, store[t] < x
               PROVE  \E c \in Node : Waits(c, x)' \/ x \in Saving(c)'
    BY <2>5, UnderWayLater DEF UpToDate, Known
  <2>7. CASE x = m
    BY <2>2, <2>7 DEF Waits
  <2>8. CASE x \in Known
    <3>1. Sent(x).topic = t /\ Sent(x).retain
      BY <2>2, <2>8 DEF Sent
    <3>2. UnderWay(x)
      BY <2>4, <2>8, <3>1 DEF UpToDate, Known
    <3> QED
      BY <2>6, <3>2, UnderWayPlaces
  <2> QED
    BY <2>2, <2>7, <2>8
<1>2. ASSUME NEW b \in Node, redis_publish(b) PROVE UpToDate(t)'
  <2>0. UNCHANGED <<history, store, handler>>
    BY <1>2 DEF redis_publish
  <2>1. PICK m : m = Head(queue[b])
    OBVIOUS
  <2>2. /\ m \in Known /\ queue[b] # <<>> /\ queue'[b] = Tail(queue[b])
        /\ \A c \in Node : c # b => queue'[c] = queue[c]
    BY <1>2, <2>1, RedisMoves
  <2>3. /\ client[b].pc = "idle"
        /\ client' = [client EXCEPT ![b] =
                        IF Sent(m).retain THEN [pc |-> "saving", msg |-> m] ELSE Idle]
    BY <1>2, <2>1 DEF redis_publish, Take
  <2>4. queue[b] \in Seq(Known) /\ DOMAIN client = Node
    BY DEF TypeInv, TaskTypeOK
  <2>5. Elems(queue[b]) \subseteq Elems(queue'[b]) \cup {m}
    BY <2>1, <2>2, <2>4, FrontOrBehind
  <2>6. ASSUME NEW c \in Node, NEW x PROVE /\ Waits(c, x) => Waits(c, x)' \/ x = m
                                           /\ x \in Saving(c) => x \in Saving(c)'
    <3>1. Waits(c, x) => Waits(c, x)' \/ x = m
      BY <2>0, <2>2, <2>5 DEF Waits, Unsent
    <3>2. c # b => client'[c] = client[c]
      BY <2>3, <2>4
    <3> QED
      BY <2>3, <3>1, <3>2 DEF Saving
  <2>7. Sent(m).retain => m \in Saving(b)'
    BY <2>3, <2>4 DEF Saving
  <2> SUFFICES ASSUME NEW x \in Known, Sent(x).topic = t, Sent(x).retain, store[t] < x
               PROVE  \E c \in Node : Waits(c, x)' \/ x \in Saving(c)'
    BY <2>0, UnderWayLater DEF UpToDate, Known, Sent
  <2>8. UnderWay(x)
    BY <1>0, <2>0 DEF UpToDate, Known
  <2> QED
    BY <2>6, <2>7, <2>8, UnderWayPlaces
<1>3. ASSUME NEW b \in Node, redis_set(b) PROVE UpToDate(t)'
  <2>0. history' = history
    BY <1>3 DEF redis_set
  <2>1. PICK n : n = client[b].msg
    OBVIOUS
  <2>2. /\ n \in Known /\ n \in Saving(b)
        /\ store'[t] = store[t] \/ (n \in Of(t) /\ store'[t] = n)
        /\ n \in Of(t) => store'[t] = n
        /\ \A c \in Node : /\ Saving(c)' = IF c = b THEN {} ELSE Saving(c)
                           /\ \A m : Waits(c, m)' = Waits(c, m)
    BY <1>3, <2>1, SaveMoves
  <2>3. Saving(b) \subseteq {n}
    BY <2>1 DEF Saving
  <2>4. n \in Nat /\ store[t] \in Nat /\ (n \in Of(t) => store[t] < n) /\ Known \subseteq Nat
    BY <1>0, <2>0, <2>2, Numbers DEF NewerSaved
  <2> SUFFICES ASSUME NEW x \in Known, Sent(x).topic = t, Sent(x).retain, store'[t] < x
               PROVE  \E c \in Node : Waits(c, x)' \/ x \in Saving(c)'
    BY <2>0, UnderWayLater DEF UpToDate, Known, Sent
  <2>5. store[t] < x /\ x # n
    <3>1. x = n => n \in Of(t)
      BY DEF Of
    <3> QED
      BY <2>2, <2>4, <3>1
  <2>6. UnderWay(x)
    BY <1>0, <2>0, <2>5 DEF UpToDate, Known
  <2> QED
    BY <2>2, <2>3, <2>5, <2>6, UnderWayPlaces
<1>4. ASSUME NEW b \in Node, NEW h \in Task, redis_send(b, h) PROVE UpToDate(t)'
  <2>1. PICK m : m = handler[b][h].msg
    OBVIOUS
  <2>2. /\ Unsent(b, h) = {m} /\ Elems(queue'[b]) = Elems(queue[b]) \cup {m}
        /\ \A c \in Node : c # b => queue'[c] = queue[c]
        /\ \A c \in Node, k \in Task :
             Unsent(c, k)' = IF c = b /\ k = h THEN {} ELSE Unsent(c, k)
    BY <1>4, <2>1, QueueMoves
  <2>3. UNCHANGED <<history, store, client>>
    BY <1>4 DEF redis_send, redisVars
  <2>4. \A c \in Node : \A n : (Waits(c, n) => Waits(c, n)') /\ Saving(c)' = Saving(c)
    BY <2>2, <2>3 DEF Waits, Saving
  <2> QED
    BY <1>0, <2>3, <2>4, NothingSaved
<1>5. ASSUME NEW b \in Node, NEW h \in Task, unlock(b, h) \/ write_puback(b, h) \/ log_in_bq(b, h)
      PROVE  UpToDate(t)'
  <2>1. UNCHANGED <<history, store, client, queue>>
    BY <1>5 DEF unlock, write_puback, log_in_bq, redisVars
  <2>2. PICK v : /\ handler' = [handler EXCEPT ![b][h] = v]
                 /\ \/ handler[b][h].pc = "locked" /\ v = [handler[b][h] EXCEPT !.pc = "sending"]
                    \/ handler[b][h].pc \in {"acking", "logging"}
    BY <1>5 DEF unlock, write_puback, log_in_bq
  <2>3. \A c \in Node, k \in Task : handler'[c][k] = IF c = b /\ k = h THEN v ELSE handler[c][k]
    <3>1. handler \in [Node -> [Task -> Held]]
      BY DEF TypeInv, TaskTypeOK
    <3> QED
      BY <2>2, <3>1
  <2>4. handler[b][h] \in Held
    BY DEF TypeInv, TaskTypeOK
  <2>5. \/ handler[b][h].pc = "locked" /\ v.pc = "sending" /\ v.msg = handler[b][h].msg
        \/ handler[b][h].pc \in {"acking", "logging"}
    BY <2>2, <2>4 DEF Held
  <2>6. \A c \in Node, k \in Task : Unsent(c, k) \subseteq Unsent(c, k)'
    BY <2>3, <2>5 DEF Unsent
  <2>7. \A c \in Node : \A n : (Waits(c, n) => Waits(c, n)') /\ Saving(c)' = Saving(c)
    BY <2>1, <2>6 DEF Waits, Saving
  <2> QED
    BY <1>0, <2>1, <2>7, NothingSaved
<1>6. ASSUME NEW b \in Node, receive_inbox(b) \/ handle_message(b) PROVE UpToDate(t)'
  <2>1. UNCHANGED <<history, store, queue, handler>>
    BY <1>6 DEF receive_inbox, handle_message, redisVars
  <2>2. PICK v : client' \in {client, [client EXCEPT ![b] = v]} /\ client[b].pc # "saving"
    BY <1>6 DEF receive_inbox, handle_message
  <2>3. \A c \in Node : c # b => client'[c] = client[c]
    <3>1. DOMAIN client = Node
      BY DEF TypeInv, TaskTypeOK
    <3> QED
      BY <2>2, <3>1
  <2>4. \A c \in Node : \A n : (Waits(c, n) => Waits(c, n)') /\ Saving(c) \subseteq Saving(c)'
    BY <2>1, <2>2, <2>3 DEF Waits, Unsent, Saving
  <2> QED
    BY <1>0, <2>1, <2>4, NothingSaved
<1>7. ASSUME NEW b \in Node,
             \/ start(b) \/ serve(b) \/ \E u \in Topic : get_retained(b, u)
             \/ redis_subscribe(b) \/ get_message(b) \/ handle_redis_message(b)
             \/ connection_lost(b)
      PROVE  UpToDate(t)'
  <2>1. UNCHANGED <<history, store, queue, handler, client>>
    BY <1>7 DEF start, serve, get_retained, redis_subscribe, get_message, handle_redis_message,
       connection_lost, redisVars, taskVars
  <2>2. \A c \in Node : \A n : (Waits(c, n) => Waits(c, n)') /\ Saving(c)' = Saving(c)
    BY <2>1 DEF Waits, Unsent, Saving
  <2> QED
    BY <1>0, <2>1, <2>2, NothingSaved
<1>8. ASSUME NEW b \in Node PROVE ~crash(b) /\ ~client_panics(b) /\ \A h \in Task : ~send_panics(b, h)
  BY DEF crash, client_panics, send_panics
<1> QED
  BY <1>1, <1>2, <1>3, <1>4, <1>5, <1>6, <1>7, <1>8 DEF ClusterNext

LEMMA CrashCount == ASSUME ClusterNext PROVE crashes' = crashes \/ crashes' = crashes + 1
<1>1. ASSUME NEW b \in Node, NEW h \in Task,
             \/ lock_and_publish(b, h) \/ unlock(b, h) \/ redis_send(b, h) \/ send_panics(b, h)
             \/ write_puback(b, h) \/ log_in_bq(b, h)
      PROVE  crashes' = crashes
  BY <1>1 DEF lock_and_publish, unlock, redis_send, send_panics, write_puback, log_in_bq,
     outsideVars
<1>2. ASSUME NEW b \in Node,
             \/ start(b) \/ serve(b) \/ \E u \in Topic : get_retained(b, u)
             \/ redis_publish(b) \/ redis_set(b) \/ receive_inbox(b) \/ handle_message(b)
      PROVE  crashes' = crashes
  BY <1>2 DEF start, serve, get_retained, redis_publish, redis_set, receive_inbox,
     handle_message, outsideVars
<1>3. ASSUME NEW b \in Node,
             \/ client_panics(b) \/ redis_subscribe(b) \/ get_message(b)
             \/ handle_redis_message(b) \/ connection_lost(b)
      PROVE  crashes' = crashes
  BY <1>3 DEF client_panics, redis_subscribe, get_message, handle_redis_message,
     connection_lost, outsideVars
<1>4. ASSUME NEW b \in Node, crash(b) PROVE crashes' = crashes + 1
  BY <1>4 DEF crash
<1> QED
  BY <1>1, <1>2, <1>3, <1>4 DEF ClusterNext

LEMMA SavedStep ==
  ASSUME ClusterInv, OrderInv, SavedInv, [ClusterNext]_vars
  PROVE  SavedInv'
<1> USE DEF ClusterInv
<1>1. \A t \in Topic : OnePublisher(t)' => NewerSaved(t)'
  BY NewerSavedStep DEF SavedInv
<1>2. ASSUME NEW c \in Node, client'[c].pc = "dead", ~Faulty PROVE FALSE
  <2>0. client[c].pc # "dead" /\ DOMAIN client = Node
    BY <1>2 DEF SavedInv, TypeInv, TaskTypeOK
  <2>1. CASE client' = client
    BY <1>2, <2>0, <2>1
  <2>2. ASSUME NEW b \in Node, crash(b) \/ redis_set(b) \/ handle_message(b) PROVE FALSE
    <3>1. client' = [client EXCEPT ![b] = Idle]
      BY <2>2 DEF crash, redis_set, handle_message
    <3> QED
      BY <1>2, <2>0, <3>1 DEF Idle
  <2>3. ASSUME NEW b \in Node, redis_publish(b) PROVE FALSE
    <3>1. PICK m : client' = [client EXCEPT ![b] =
                       IF Sent(m).retain THEN [pc |-> "saving", msg |-> m] ELSE Idle]
      BY <2>3 DEF redis_publish
    <3> QED
      BY <1>2, <2>0, <3>1 DEF Idle
  <2>4. ASSUME NEW b \in Node, receive_inbox(b) PROVE FALSE
    <3>1. PICK m : client' \in {client, [client EXCEPT ![b] = [pc |-> "handling", msg |-> m]]}
      BY <2>4 DEF receive_inbox
    <3> QED
      BY <1>2, <2>0, <3>1
  <2>5. CASE UNCHANGED vars
    BY <2>1, <2>5 DEF vars, taskVars
  <2>6. ASSUME NEW b \in Node, NEW h \in Task,
               \/ lock_and_publish(b, h) \/ unlock(b, h) \/ redis_send(b, h) \/ send_panics(b, h)
               \/ write_puback(b, h) \/ log_in_bq(b, h)
        PROVE  FALSE
    BY <2>1, <2>6 DEF lock_and_publish, unlock, redis_send, send_panics, write_puback, log_in_bq
  <2>7. ASSUME NEW b \in Node,
               \/ start(b) \/ serve(b) \/ \E u \in Topic : get_retained(b, u)
               \/ redis_subscribe(b) \/ get_message(b) \/ handle_redis_message(b)
               \/ connection_lost(b)
        PROVE  FALSE
    BY <2>1, <2>7 DEF start, serve, get_retained, redis_subscribe, get_message,
       handle_redis_message, connection_lost, taskVars
  <2>8. ASSUME NEW b \in Node, client_panics(b) PROVE FALSE
    BY <1>2, <2>8 DEF client_panics
  <2> QED
    BY <2>2, <2>3, <2>4, <2>5, <2>6, <2>7, <2>8 DEF ClusterNext
<1>3. ASSUME ~Faulty, crashes' = 0, NEW t \in Topic, OnePublisher(t)' PROVE UpToDate(t)'
  <2>1. CASE UNCHANGED vars
    <3>1. UNCHANGED <<history, store, queue, handler, client, crashes>>
      BY <2>1 DEF vars, redisVars, taskVars, outsideVars
    <3>2. \A c \in Node : \A n : Waits(c, n)' = Waits(c, n) /\ Saving(c)' = Saving(c)
      BY <3>1 DEF Waits, Unsent, Saving
    <3>3. UpToDate(t)
      BY <1>3, <3>1, SameTopics DEF SavedInv, SavedIsNewest
    <3> QED
      BY <3>1, <3>2, <3>3, NothingSaved
  <2>2. CASE ClusterNext
    <3>1. crashes = 0
      <4>1. crashes \in Nat
        BY ClusterAssumption DEF TypeInv, OutsideTypeOK
      <4>2. crashes' = crashes \/ crashes' = crashes + 1
        BY <2>2, CrashCount
      <4> QED
        BY <1>3, <4>1, <4>2
    <3>2. /\ \A b \in Node : client[b].pc # "dead"
          /\ OnePublisher(t) => UpToDate(t) /\ NewerSaved(t)
      BY <1>3, <3>1 DEF SavedInv, SavedIsNewest
    <3> QED
      BY <1>3, <2>2, <3>1, <3>2, UpToDateStep
  <2> QED
    BY <2>1, <2>2
<1>4. SavedIsNewest'
  BY <1>3 DEF SavedIsNewest
<1> QED
  BY <1>1, <1>2, <1>4 DEF SavedInv

\* While nothing fails, the key of a topic with one publisher holds the newest retained
\* message but for those on their way to it, with any number of brokers, connections, topics
\* and messages: the handlers of other connections that send through the same queue do not
\* reorder it (handle_publish_packet, RedisClient::publish).
THEOREM ClusterSavesNewest == ClusterSpec => []SavedIsNewest
<1>1. ClusterInit => SavedInv
  <2> SUFFICES ASSUME ClusterInit PROVE SavedInv
    OBVIOUS
  <2>1. Len(history) = 0 /\ \A b \in Node : Saving(b) = {} /\ client[b].pc = "idle"
    BY DEF ClusterInit, Saving, Idle
  <2> QED
    BY <2>1 DEF SavedInv, NewerSaved, SavedIsNewest, UpToDate
<1>2. ClusterInv /\ OrderInv /\ SavedInv /\ [ClusterNext]_vars => SavedInv'
  BY SavedStep
<1>3. SavedInv => SavedIsNewest
  BY DEF SavedInv
<1> QED
  BY <1>1, <1>2, <1>3, OrderInductive, ClusterInductive, PTL DEF ClusterSpec
=============================================================================
