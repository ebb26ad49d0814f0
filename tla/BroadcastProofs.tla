-------------------------- MODULE BroadcastProofs ---------------------------
(***************************************************************************)
(* BroadcastAtMostOnce of Cluster, for any number of brokers, connection   *)
(* tasks, messages, faults and crashes.                                    *)
(***************************************************************************)
EXTENDS ClusterProofs

(* Channels as sets. *)

Elems(q) == {q[i] : i \in 1..Len(q)}
NoRepeat(q) == \A i, j \in 1..Len(q) : q[i] = q[j] => i = j

LEMMA EmptyChannel == Elems(<<>>) = {} /\ NoRepeat(<<>>)
BY DEF Elems, NoRepeat

\* What arrives in a channel is new in it or a repetition.
LEMMA AppendChannel ==
  ASSUME NEW S, NEW q \in Seq(S), NEW x \in S
  PROVE  /\ Elems(Append(q, x)) = Elems(q) \cup {x}
         /\ NoRepeat(q) /\ x \notin Elems(q) => NoRepeat(Append(q, x))
<1> DEFINE r == Append(q, x)
<1>1. /\ Len(q) \in Nat /\ Len(r) = Len(q) + 1 /\ r[Len(q) + 1] = x
      /\ \A i \in 1..Len(q) : r[i] = q[i]
  OBVIOUS
<1>2. \A i : i \in 1..Len(r) <=> i \in 1..Len(q) \/ i = Len(q) + 1
  BY <1>1
<1> HIDE DEF r
<1>3. Elems(r) = Elems(q) \cup {x}
  BY <1>1, <1>2 DEF Elems
<1>4. ASSUME NoRepeat(q), x \notin Elems(q) PROVE NoRepeat(r)
  <2>1. \A i \in 1..Len(q) : q[i] # x
    BY <1>4 DEF Elems
  <2> QED
    BY <1>1, <1>2, <1>4, <2>1 DEF NoRepeat
<1> QED
  BY <1>3, <1>4 DEF r

\* What is taken from a channel without repetitions is no longer in it.
LEMMA TakeChannel ==
  ASSUME NEW S, NEW q \in Seq(S), q # <<>>, NoRepeat(q)
  PROVE  /\ Head(q) \in Elems(q) /\ Head(q) \notin Elems(Tail(q))
         /\ Elems(Tail(q)) \subseteq Elems(q) /\ NoRepeat(Tail(q))
<1> DEFINE r == Tail(q)
<1>1. /\ Len(q) \in Nat /\ Len(q) > 0 /\ Len(r) = Len(q) - 1 /\ Head(q) = q[1]
      /\ \A i \in 1..Len(r) : r[i] = q[i + 1]
  OBVIOUS
<1>2. 1 \in 1..Len(q) /\ \A i \in 1..Len(r) : i + 1 \in 1..Len(q) /\ i + 1 # 1
  BY <1>1
<1> HIDE DEF r
<1>3. Head(q) \in Elems(q) /\ Elems(r) \subseteq Elems(q)
  BY <1>1, <1>2 DEF Elems
<1>4. Head(q) \notin Elems(r)
  BY <1>1, <1>2 DEF Elems, NoRepeat
<1>5. NoRepeat(r)
  <2> SUFFICES ASSUME NEW i \in 1..Len(r), NEW j \in 1..Len(r), r[i] = r[j] PROVE i = j
    BY DEF NoRepeat
  <2>1. i + 1 = j + 1
    BY <1>1, <1>2 DEF NoRepeat
  <2>2. i \in Nat /\ j \in Nat
    BY <1>1
  <2> QED
    BY <2>1, <2>2
<1> QED
  BY <1>3, <1>4, <1>5 DEF r

LEMMA ChannelOf == ASSUME NEW S, NEW q \in Seq(S) PROVE Elems(q) \subseteq S
BY DEF Elems
-----------------------------------------------------------------------------
(* The places of a message. *)

\* At its publisher: held by a handler that has not queued it yet, or in the queue.
Unsent(b, h) ==
  IF handler[b][h].pc \in {"locked", "sending"} THEN {handler[b][h].msg} ELSE {}
Waits(b, m) == m \in Elems(queue[b]) \/ \E h \in Task : m \in Unsent(b, h)

\* At a receiver: pushed to its connection, in its inbox, or waiting for its lock.
Handling(b) == IF client[b].pc = "handling" THEN {client[b].msg} ELSE {}
Saving(b) == IF client[b].pc = "saving" THEN {client[b].msg} ELSE {}
Arrived(b, m) == m \in Elems(wire[b]) \cup Elems(inbox[b])

NoCopies(b) == NoRepeat(queue[b]) /\ NoRepeat(wire[b]) /\ NoRepeat(inbox[b]) /\ NoRepeat(log[b])

\* At the publisher a message is held once, or is in the queue.
HeldOnce(b) ==
  \A h \in Task : /\ Unsent(b, h) \cap Elems(queue[b]) = {}
                  /\ \A k \in Task : k # h => Unsent(b, h) \cap Unsent(b, k) = {}

\* A message that waits is its publisher's own and has reached no other broker.
NotSentYet(b, c) ==
  \A m \in Known : Waits(b, m) =>
    /\ IsOwn(b, m) /\ ~Arrived(c, m) /\ m \notin Handling(c)
    /\ c # b => m \notin Elems(log[c])

\* A message on its way into a broker is there once and, unless it is an echo, has not
\* been broadcast by it.
NotBroadcastYet(c) ==
  /\ Elems(wire[c]) \cap Elems(inbox[c]) = {}
  /\ \A m \in Known : Arrived(c, m) =>
       m \notin Handling(c) /\ (IsOwn(c, m) \/ m \notin Elems(log[c]))
  /\ \A m \in Handling(c) : ~IsOwn(c, m) /\ m \notin Elems(log[c])

OnceInv ==
  /\ \A b \in Node : NoCopies(b) /\ HeldOnce(b) /\ NotBroadcastYet(b)
  /\ \A b, c \in Node : NotSentYet(b, c)
-----------------------------------------------------------------------------
(* Steps that only take messages away. *)

LEMMA NothingNew ==
  ASSUME OnceInv, history' = history,
         \A b \in Node : /\ NoCopies(b)'
                         /\ Elems(queue'[b]) \subseteq Elems(queue[b])
                         /\ Elems(wire'[b]) \subseteq Elems(wire[b])
                         /\ Elems(inbox'[b]) \subseteq Elems(inbox[b])
                         /\ Elems(log'[b]) \subseteq Elems(log[b])
                         /\ Handling(b)' \subseteq Handling(b)
                         /\ \A h \in Task : Unsent(b, h)' \subseteq Unsent(b, h)
  PROVE  OnceInv'
<1>0. Known' = Known /\ \A b, m : IsOwn(b, m)' = IsOwn(b, m)
  BY DEF Known, IsOwn, Sent
<1>1. ASSUME NEW b \in Node PROVE HeldOnce(b)'
  BY DEF OnceInv, HeldOnce
<1>2. ASSUME NEW c \in Node PROVE NotBroadcastYet(c)'
  BY <1>0 DEF OnceInv, NotBroadcastYet, Arrived
<1>3. ASSUME NEW b \in Node, NEW c \in Node PROVE NotSentYet(b, c)'
  BY <1>0 DEF OnceInv, NotSentYet, Waits, Arrived
<1> QED
  BY <1>1, <1>2, <1>3 DEF OnceInv

\* The channels stay, or are emptied at one broker.
LEMMA ChannelsEmptied ==
  ASSUME OnceInv, TypeInv, history' = history, NEW d \in Node,
         queue' \in {queue, [queue EXCEPT ![d] = <<>>]},
         wire' \in {wire, [wire EXCEPT ![d] = <<>>]},
         inbox' \in {inbox, [inbox EXCEPT ![d] = <<>>]},
         log' \in {log, [log EXCEPT ![d] = <<>>]},
         \A b \in Node : /\ Handling(b)' \subseteq Handling(b)
                         /\ \A h \in Task : Unsent(b, h)' \subseteq Unsent(b, h)
  PROVE  OnceInv'
<1>1. \A b \in Node : /\ queue'[b] \in {queue[b], <<>>} /\ wire'[b] \in {wire[b], <<>>}
                      /\ inbox'[b] \in {inbox[b], <<>>} /\ log'[b] \in {log[b], <<>>}
  BY DEF TypeInv, RedisTypeOK, TopicTypeOK, TaskTypeOK
<1>2. ASSUME NEW b \in Node
      PROVE  /\ NoCopies(b)'
             /\ Elems(queue'[b]) \subseteq Elems(queue[b])
             /\ Elems(wire'[b]) \subseteq Elems(wire[b])
             /\ Elems(inbox'[b]) \subseteq Elems(inbox[b])
             /\ Elems(log'[b]) \subseteq Elems(log[b])
  BY <1>1, EmptyChannel DEF OnceInv, NoCopies
<1> QED
  BY <1>2, NothingNew

\* The tasks of a broker stay, end, or are those of a new process.
LEMMA TasksIdle ==
  ASSUME TypeInv, NEW b \in Node,
         client' \in {client, [client EXCEPT ![b] = Idle], [client EXCEPT ![b] = Dead]},
         handler' = handler \/ handler' = [handler EXCEPT ![b] = [h \in Task |-> Idle]]
  PROVE  \A c \in Node : /\ Handling(c)' \subseteq Handling(c) /\ Saving(c)' \subseteq Saving(c)
                         /\ \A h \in Task : Unsent(c, h)' \subseteq Unsent(c, h)
<1>1. \A c \in Node : client'[c] \in {client[c], Idle, Dead}
  BY DEF TypeInv, TaskTypeOK
<1>2. \A c \in Node, h \in Task : handler'[c][h] = handler[c][h] \/ handler'[c][h] = Idle
  <2>1. CASE handler' = [handler EXCEPT ![b] = [h \in Task |-> Idle]]
    <3>1. DOMAIN handler = Node
      BY DEF TypeInv, TaskTypeOK
    <3> QED
      BY <2>1, <3>1
  <2> QED
    BY <2>1
<1> QED
  BY <1>1, <1>2 DEF Handling, Saving, Unsent, Idle, Dead

LEMMA QuietSteps ==
  ASSUME OnceInv, TypeInv, NEW b \in Node,
         \/ start(b) \/ serve(b) \/ crash(b) \/ \E t \in Topic : get_retained(b, t)
         \/ redis_set(b) \/ client_panics(b) \/ redis_subscribe(b) \/ get_message(b) \/ connection_lost(b)
  PROVE  OnceInv'
<1>0. history' = history
  BY DEF start, serve, crash, get_retained, redis_set, client_panics, redis_subscribe,
     get_message, connection_lost
<1>1. /\ queue' \in {queue, [queue EXCEPT ![b] = <<>>]}
      /\ wire' \in {wire, [wire EXCEPT ![b] = <<>>]}
      /\ inbox' \in {inbox, [inbox EXCEPT ![b] = <<>>]}
      /\ log' \in {log, [log EXCEPT ![b] = <<>>]}
  BY DEF start, serve, crash, get_retained, redis_set, client_panics, redis_subscribe,
     get_message, connection_lost, redisVars, topicsVars, taskVars
<1>2. /\ client' \in {client, [client EXCEPT ![b] = Idle], [client EXCEPT ![b] = Dead]}
      /\ handler' = handler \/ handler' = [handler EXCEPT ![b] = [h \in Task |-> Idle]]
  BY DEF start, serve, crash, get_retained, redis_set, client_panics, redis_subscribe,
     get_message, connection_lost, redisVars, topicsVars, taskVars
<1> QED
  BY <1>0, <1>1, <1>2, TasksIdle, ChannelsEmptied

\* A handler that drops the guard or is done with its message.
LEMMA HandsLess ==
  ASSUME TypeInv, NEW b \in Node, NEW h \in Task,
         unlock(b, h) \/ send_panics(b, h) \/ write_puback(b, h) \/ log_in_bq(b, h)
  PROVE  \A c \in Node, k \in Task : Unsent(c, k)' \subseteq Unsent(c, k)
<1> DEFINE x == handler[b][h]
<1>1. PICK v : /\ handler' = [handler EXCEPT ![b][h] = v]
               /\ \/ x.pc = "locked" /\ v = [x EXCEPT !.pc = "sending"]
                  \/ v = [x EXCEPT !.pc = "logging"] \/ v = Idle
  BY DEF unlock, send_panics, write_puback, log_in_bq
<1>2. x \in Held
  BY DEF TypeInv, TaskTypeOK
<1>3. \/ v.pc = "sending" /\ x.pc = "locked" /\ v.msg = x.msg
      \/ v.pc \in {"logging", "idle"}
  BY <1>1, <1>2 DEF Held, Idle
<1>4. \A c \in Node, k \in Task : handler'[c][k] = IF c = b /\ k = h THEN v ELSE handler[c][k]
  <2>1. handler \in [Node -> [Task -> Held]] /\ handler' = [handler EXCEPT ![b][h] = v]
    BY <1>1 DEF TypeInv, TaskTypeOK
  <2> QED
    BY <2>1
<1> QED
  BY <1>3, <1>4 DEF Unsent

LEMMA HandlerQuiet ==
  ASSUME OnceInv, TypeInv, NEW b \in Node, NEW h \in Task,
         unlock(b, h) \/ send_panics(b, h) \/ write_puback(b, h) \/ log_in_bq(b, h)
  PROVE  OnceInv'
<1>1. UNCHANGED <<history, queue, wire, inbox, log, client>>
  BY DEF unlock, send_panics, write_puback, log_in_bq, redisVars, topicsVars
<1>2. \A c \in Node : Handling(c)' = Handling(c)
  BY <1>1 DEF Handling
<1> QED
  BY <1>1, <1>2, HandsLess, ChannelsEmptied
-----------------------------------------------------------------------------
(* Steps that move a message. *)

\* From the handler into the queue.
LEMMA QueueMoves ==
  ASSUME TypeInv, NEW b \in Node, NEW h \in Task, redis_send(b, h), NEW m, m = handler[b][h].msg
  PROVE  /\ m \in Known /\ Unsent(b, h) = {m}
         /\ queue'[b] = Append(queue[b], m) /\ Elems(queue'[b]) = Elems(queue[b]) \cup {m}
         /\ \A c \in Node : c # b => queue'[c] = queue[c]
         /\ \A c \in Node, k \in Task :
              Unsent(c, k)' = IF c = b /\ k = h THEN {} ELSE Unsent(c, k)
<1>1. handler[b][h].pc = "sending" /\ queue' = [queue EXCEPT ![b] = Append(queue[b], m)]
  BY DEF redis_send
<1>2. handler[b][h] \in Held /\ queue \in [Node -> Seq(Known)]
  BY DEF TypeInv, TaskTypeOK
<1>3. m \in Known /\ Unsent(b, h) = {m}
  BY <1>1, <1>2 DEF Held, Unsent
<1> DEFINE v == IF Logging THEN [handler[b][h] EXCEPT !.pc = "acking"] ELSE Idle
<1>4. v.pc \in {"acking", "idle"}
  BY <1>2 DEF Held, Idle
<1>5. \A c \in Node, k \in Task : handler'[c][k] = IF c = b /\ k = h THEN v ELSE handler[c][k]
  <2>1. handler \in [Node -> [Task -> Held]] /\ handler' = [handler EXCEPT ![b][h] = v]
    BY DEF TypeInv, TaskTypeOK, redis_send
  <2> HIDE DEF v
  <2> QED
    BY <2>1
<1> HIDE DEF v
<1>6. ASSUME NEW c \in Node, NEW k \in Task
      PROVE  Unsent(c, k)' = IF c = b /\ k = h THEN {} ELSE Unsent(c, k)
  BY <1>4, <1>5 DEF Unsent
<1>7. queue[b] \in Seq(Known) /\ queue'[b] = Append(queue[b], m)
  BY <1>1, <1>2
<1>8. Elems(queue'[b]) = Elems(queue[b]) \cup {m}
  BY <1>3, <1>7, AppendChannel
<1>9. \A c \in Node : c # b => queue'[c] = queue[c]
  BY <1>1, <1>2
<1> QED
  BY <1>3, <1>6, <1>7, <1>8, <1>9

LEMMA QueueStep ==
  ASSUME OnceInv, TypeInv, NEW b \in Node, NEW h \in Task, redis_send(b, h)
  PROVE  OnceInv'
<1>0. UNCHANGED <<history, wire, inbox, log, client>>
  BY DEF redis_send, redisVars, topicsVars
<1>1. PICK m : m = handler[b][h].msg
  OBVIOUS
<1>2. queue \in [Node -> Seq(Known)]
  BY DEF TypeInv, TaskTypeOK
<1>3. m \in Known /\ Unsent(b, h) = {m}
  BY <1>1, QueueMoves
<1>4. \A c \in Node, k \in Task :
        Unsent(c, k)' = IF c = b /\ k = h THEN {} ELSE Unsent(c, k)
  BY <1>1, QueueMoves
<1>5. m \notin Elems(queue[b]) /\ \A k \in Task : k # h => m \notin Unsent(b, k)
  BY <1>3 DEF OnceInv, HeldOnce
<1>6. /\ NoRepeat(queue'[b]) /\ Elems(queue'[b]) = Elems(queue[b]) \cup {m}
      /\ \A c \in Node : c # b => queue'[c] = queue[c]
  <2>1. /\ queue'[b] = Append(queue[b], m) /\ Elems(queue'[b]) = Elems(queue[b]) \cup {m}
        /\ \A c \in Node : c # b => queue'[c] = queue[c]
    BY <1>1, QueueMoves
  <2>2. NoRepeat(queue[b]) /\ queue[b] \in Seq(Known)
    BY <1>2 DEF OnceInv, NoCopies
  <2> QED
    BY <1>3, <1>5, <2>1, <2>2, AppendChannel
<1>7. Known' = Known /\ (\A c, n : IsOwn(c, n)' = IsOwn(c, n))
      /\ \A c \in Node : Handling(c)' = Handling(c)
  BY <1>0 DEF Known, IsOwn, Sent, Handling
<1>8. \A c \in Node : \A n : Waits(c, n)' <=> Waits(c, n)
  BY <1>3, <1>4, <1>6 DEF Waits
<1>9. ASSUME NEW c \in Node PROVE NoCopies(c)' /\ HeldOnce(c)' /\ NotBroadcastYet(c)'
  <2>1. NoCopies(c)'
    BY <1>0, <1>6 DEF OnceInv, NoCopies
  <2>2. HeldOnce(c)'
    BY <1>3, <1>4, <1>5, <1>6 DEF OnceInv, HeldOnce
  <2>3. NotBroadcastYet(c)'
    BY <1>0, <1>7 DEF OnceInv, NotBroadcastYet, Arrived
  <2> QED
    BY <2>1, <2>2, <2>3
<1>10. ASSUME NEW c \in Node, NEW d \in Node PROVE NotSentYet(c, d)'
  BY <1>0, <1>7, <1>8 DEF OnceInv, NotSentYet, Arrived
<1> QED
  BY <1>9, <1>10 DEF OnceInv

\* From the queue to the subscribed connections, or nowhere when the command fails.
LEMMA RedisMoves ==
  ASSUME TypeInv, NEW b \in Node, redis_publish(b), NEW m, m = Head(queue[b])
  PROVE  /\ m \in Known /\ queue[b] # <<>> /\ queue'[b] = Tail(queue[b])
         /\ \A c \in Node : /\ c # b => queue'[c] = queue[c]
                            /\ \/ wire'[c] = wire[c]
                               \/ c \in Subscribers /\ wire'[c] = Append(wire[c], m)
                            /\ Handling(c)' = Handling(c)
                            /\ Saving(c)' \subseteq IF c = b THEN {m} ELSE Saving(c)
<1>1. /\ queue[b] # <<>> /\ queue' = [queue EXCEPT ![b] = Tail(queue[b])]
      /\ \/ wire' = [c \in Node |-> IF c \in Subscribers THEN Append(wire[c], m) ELSE wire[c]]
         \/ wire' = wire
      /\ client' = [client EXCEPT ![b] =
                      IF Sent(m).retain THEN [pc |-> "saving", msg |-> m] ELSE Idle]
      /\ client[b].pc = "idle"
  BY DEF redis_publish, Take
<1>2. /\ queue \in [Node -> Seq(Known)] /\ wire \in [Node -> Seq(Known)]
      /\ DOMAIN client = Node
  BY DEF TypeInv, RedisTypeOK, TaskTypeOK
<1>3. /\ m \in Known /\ queue'[b] = Tail(queue[b])
      /\ \A c \in Node : c # b => queue'[c] = queue[c]
  BY <1>1, <1>2, Queues
<1>4. ASSUME NEW c \in Node
      PROVE  wire'[c] = wire[c] \/ (c \in Subscribers /\ wire'[c] = Append(wire[c], m))
  BY <1>1
<1>5. ASSUME NEW c \in Node
      PROVE  /\ Handling(c)' = Handling(c)
             /\ Saving(c)' \subseteq IF c = b THEN {m} ELSE Saving(c)
  <2>1. c # b => client'[c] = client[c]
    BY <1>1, <1>2
  <2>2. client'[b].pc # "handling" /\ (client'[b].pc = "saving" => client'[b].msg = m)
    BY <1>1, <1>2 DEF Idle
  <2> QED
    BY <1>1, <2>1, <2>2 DEF Handling, Saving
<1> QED
  BY <1>1, <1>3, <1>4, <1>5

LEMMA RedisStep ==
  ASSUME OnceInv, TypeInv, NEW b \in Node, redis_publish(b)
  PROVE  OnceInv'
<1>0. UNCHANGED <<history, handler, inbox, log>>
  BY DEF redis_publish, topicsVars
<1>1. PICK m : m = Head(queue[b])
  OBVIOUS
<1>2. queue \in [Node -> Seq(Known)] /\ wire \in [Node -> Seq(Known)]
  BY DEF TypeInv, RedisTypeOK, TaskTypeOK
<1>3. /\ m \in Known /\ m \in Elems(queue[b]) /\ m \notin Elems(queue'[b])
      /\ Elems(queue'[b]) \subseteq Elems(queue[b]) /\ NoRepeat(queue'[b])
      /\ \A c \in Node : c # b => queue'[c] = queue[c]
  <2>1. queue[b] \in Seq(Known) /\ NoRepeat(queue[b])
    BY <1>2 DEF OnceInv, NoCopies
  <2>2. /\ m \in Known /\ queue[b] # <<>> /\ queue'[b] = Tail(queue[b])
        /\ \A c \in Node : c # b => queue'[c] = queue[c]
    BY <1>1, RedisMoves
  <2> QED
    BY <1>1, <2>1, <2>2, TakeChannel
<1>4. \A c \in Node : Handling(c)' = Handling(c)
  BY <1>1, RedisMoves
<1>5. Waits(b, m)
  BY <1>3 DEF Waits
<1>6. \A c \in Node : /\ IsOwn(b, m) /\ ~Arrived(c, m) /\ m \notin Handling(c)
                      /\ c # b => m \notin Elems(log[c])
  BY <1>3, <1>5 DEF OnceInv, NotSentYet
<1>7. ASSUME NEW c \in Node
      PROVE  NoRepeat(wire'[c]) /\ Elems(wire'[c]) \subseteq Elems(wire[c]) \cup {m}
  <2>1. wire'[c] = wire[c] \/ wire'[c] = Append(wire[c], m)
    BY <1>1, RedisMoves
  <2>2. wire[c] \in Seq(Known) /\ NoRepeat(wire[c]) /\ m \notin Elems(wire[c])
    BY <1>2, <1>6 DEF OnceInv, NoCopies, Arrived
  <2>3. /\ NoRepeat(Append(wire[c], m))
        /\ Elems(Append(wire[c], m)) = Elems(wire[c]) \cup {m}
    BY <1>3, <2>2, AppendChannel
  <2> QED
    BY <2>1, <2>2, <2>3
<1>8. Known' = Known /\ (\A c, n : IsOwn(c, n)' = IsOwn(c, n))
      /\ \A c \in Node, h \in Task : Unsent(c, h)' = Unsent(c, h)
  BY <1>0 DEF Known, IsOwn, Sent, Unsent
<1>9. ASSUME NEW c \in Node PROVE NoCopies(c)' /\ HeldOnce(c)'
  BY <1>0, <1>3, <1>7, <1>8 DEF OnceInv, NoCopies, HeldOnce
<1>10. ASSUME NEW c \in Node PROVE NotBroadcastYet(c)'
  <2>1. Elems(wire'[c]) \cap Elems(inbox'[c]) = {}
    BY <1>0, <1>6, <1>7 DEF OnceInv, NotBroadcastYet, Arrived
  <2>2. ASSUME NEW n \in Known, Arrived(c, n)'
        PROVE  n \notin Handling(c) /\ (IsOwn(c, n) \/ n \notin Elems(log[c]))
    <3>1. CASE n = m
      <4>1. n \notin Handling(c)
        BY <3>1, <1>6
      <4>2. CASE c = b
        BY <3>1, <4>1, <4>2, <1>6
      <4>3. CASE c # b
        BY <3>1, <4>1, <4>3, <1>6
      <4> QED
        BY <4>2, <4>3
    <3>2. CASE n # m
      BY <2>2, <3>2, <1>0, <1>7 DEF OnceInv, NotBroadcastYet, Arrived
    <3> QED
      BY <3>1, <3>2
  <2>3. \A n \in Handling(c) : ~IsOwn(c, n) /\ n \notin Elems(log[c])
    BY DEF OnceInv, NotBroadcastYet
  <2> QED
    BY <1>0, <1>4, <1>8, <2>1, <2>2, <2>3 DEF NotBroadcastYet
<1>11. ASSUME NEW c \in Node, NEW d \in Node PROVE NotSentYet(c, d)'
  <2> SUFFICES ASSUME NEW n \in Known, Waits(c, n)'
               PROVE  /\ IsOwn(c, n) /\ ~Arrived(d, n)' /\ n \notin Handling(d)
                      /\ d # c => n \notin Elems(log[d])
    BY <1>0, <1>4, <1>8 DEF NotSentYet
  <2>1. Waits(c, n)
    BY <1>3, <1>8 DEF Waits
  <2>2. /\ IsOwn(c, n) /\ ~Arrived(d, n) /\ n \notin Handling(d)
        /\ d # c => n \notin Elems(log[d])
    BY <2>1 DEF OnceInv, NotSentYet
  <2>3. n # m
    <3>1. CASE c = b
      <4>1. m \notin Elems(queue'[b]) /\ \A h \in Task : m \notin Unsent(b, h)
        BY <1>3 DEF OnceInv, HeldOnce
      <4> QED
        BY <3>1, <4>1, <1>8 DEF Waits
    <3>2. CASE c # b
      BY <3>2, <2>2, <1>6 DEF IsOwn
    <3> QED
      BY <3>1, <3>2
  <2>4. ~Arrived(d, n)'
    BY <2>2, <2>3, <1>0, <1>7 DEF Arrived
  <2> QED
    BY <2>2, <2>4
<1> QED
  BY <1>9, <1>10, <1>11 DEF OnceInv

\* From the inbox to the client, which drops an echo.
LEMMA InboxMoves ==
  ASSUME TypeInv, NEW b \in Node, receive_inbox(b), NEW m, m = Head(inbox[b])
  PROVE  /\ m \in Known /\ inbox[b] # <<>> /\ inbox'[b] = Tail(inbox[b])
         /\ Handling(b) = {}
         /\ \A c \in Node :
              /\ c # b => inbox'[c] = inbox[c]
              /\ Handling(c)' = IF c = b /\ ~IsOwn(b, m) THEN {m} ELSE Handling(c)
              /\ Saving(c)' \subseteq Saving(c)
<1>1. /\ inbox[b] # <<>> /\ inbox' = [inbox EXCEPT ![b] = Tail(inbox[b])]
      /\ client' = IF IsOwn(b, m) THEN client
                   ELSE [client EXCEPT ![b] = [pc |-> "handling", msg |-> m]]
      /\ client[b].pc = "idle"
  BY DEF receive_inbox
<1>2. inbox \in [Node -> Seq(Known)] /\ DOMAIN client = Node
  BY DEF TypeInv, TaskTypeOK
<1>3. /\ m \in Known /\ inbox'[b] = Tail(inbox[b])
      /\ \A c \in Node : c # b => inbox'[c] = inbox[c]
  BY <1>1, <1>2, Queues
<1>4. ASSUME NEW c \in Node
      PROVE  /\ Handling(c)' = IF c = b /\ ~IsOwn(b, m) THEN {m} ELSE Handling(c)
             /\ Saving(c)' \subseteq Saving(c)
  <2>1. c # b => client'[c] = client[c]
    BY <1>1, <1>2
  <2>2. CASE c = b /\ ~IsOwn(b, m)
    <3>1. client'[b] = [pc |-> "handling", msg |-> m]
      BY <1>1, <1>2, <2>2
    <3>2. client'[b].pc = "handling" /\ client'[b].msg = m
      BY <3>1
    <3> QED
      BY <2>2, <3>2 DEF Handling, Saving
  <2>3. CASE ~(c = b /\ ~IsOwn(b, m))
    <3>1. client'[c] = client[c]
      BY <1>1, <2>1, <2>3
    <3> QED
      BY <2>3, <3>1 DEF Handling, Saving
  <2> QED
    BY <2>2, <2>3
<1>5. Handling(b) = {}
  BY <1>1 DEF Handling
<1> QED
  BY <1>1, <1>3, <1>4, <1>5

LEMMA InboxStep ==
  ASSUME OnceInv, TypeInv, NEW b \in Node, receive_inbox(b)
  PROVE  OnceInv'
<1>0. UNCHANGED <<history, handler, queue, wire, log>>
  BY DEF receive_inbox, redisVars, topicsVars
<1>1. PICK m : m = Head(inbox[b])
  OBVIOUS
<1>2. /\ m \in Known /\ m \in Elems(inbox[b]) /\ m \notin Elems(inbox'[b])
      /\ Elems(inbox'[b]) \subseteq Elems(inbox[b]) /\ NoRepeat(inbox'[b])
      /\ \A c \in Node : c # b => inbox'[c] = inbox[c]
  <2>1. inbox[b] \in Seq(Known) /\ NoRepeat(inbox[b])
    BY DEF OnceInv, NoCopies, TypeInv, TaskTypeOK
  <2>2. /\ m \in Known /\ inbox[b] # <<>> /\ inbox'[b] = Tail(inbox[b])
        /\ \A c \in Node : c # b => inbox'[c] = inbox[c]
    BY <1>1, InboxMoves
  <2> QED
    BY <1>1, <2>1, <2>2, TakeChannel
<1>3. \A c \in Node : Handling(c)' = IF c = b /\ ~IsOwn(b, m) THEN {m} ELSE Handling(c)
  BY <1>1, InboxMoves
<1>4. Known' = Known /\ (\A c, n : IsOwn(c, n)' = IsOwn(c, n))
      /\ \A c \in Node, h \in Task : Unsent(c, h)' = Unsent(c, h)
  BY <1>0 DEF Known, IsOwn, Sent, Unsent
<1>5. Arrived(b, m) /\ m \notin Elems(wire[b]) /\ (IsOwn(b, m) \/ m \notin Elems(log[b]))
  BY <1>2 DEF OnceInv, NotBroadcastYet, Arrived
<1>6. \A c \in Node : Elems(inbox'[c]) \subseteq Elems(inbox[c])
  BY <1>2
<1>7. ASSUME NEW c \in Node PROVE NoCopies(c)' /\ HeldOnce(c)'
  BY <1>0, <1>2, <1>4 DEF OnceInv, NoCopies, HeldOnce
<1>8. ASSUME NEW c \in Node PROVE NotBroadcastYet(c)'
  <2>1. Elems(wire'[c]) \cap Elems(inbox'[c]) = {}
    BY <1>0, <1>6 DEF OnceInv, NotBroadcastYet
  <2>2. ASSUME NEW n \in Known, Arrived(c, n)'
        PROVE  n \notin Handling(c)' /\ (IsOwn(c, n) \/ n \notin Elems(log[c]))
    <3>1. Arrived(c, n)
      BY <2>2, <1>0, <1>6 DEF Arrived
    <3>2. c = b => n # m
      BY <2>2, <1>0, <1>2, <1>5 DEF Arrived
    <3> QED
      BY <3>1, <3>2, <1>3 DEF OnceInv, NotBroadcastYet
  <2>3. \A n \in Handling(c)' : ~IsOwn(c, n) /\ n \notin Elems(log[c])
    BY <1>3, <1>5 DEF OnceInv, NotBroadcastYet
  <2> QED
    BY <1>0, <1>4, <2>1, <2>2, <2>3 DEF NotBroadcastYet
<1>9. ASSUME NEW c \in Node, NEW d \in Node PROVE NotSentYet(c, d)'
  <2> SUFFICES ASSUME NEW n \in Known, Waits(c, n)'
               PROVE  /\ IsOwn(c, n) /\ ~Arrived(d, n)' /\ n \notin Handling(d)'
                      /\ d # c => n \notin Elems(log[d])
    BY <1>0, <1>4 DEF NotSentYet
  <2>1. Waits(c, n)
    BY <1>0, <1>4 DEF Waits
  <2>2. /\ IsOwn(c, n) /\ ~Arrived(d, n) /\ n \notin Handling(d)
        /\ d # c => n \notin Elems(log[d])
    BY <2>1 DEF OnceInv, NotSentYet
  <2>3. ~Arrived(d, n)'
    BY <2>2, <1>0, <1>6 DEF Arrived
  <2>4. d = b => n # m
    BY <2>2, <1>5
  <2> QED
    BY <2>2, <2>3, <2>4, <1>3
<1> QED
  BY <1>7, <1>8, <1>9 DEF OnceInv

\* From the client to the topics of its broker.
LEMMA MessageMoves ==
  ASSUME TypeInv, NEW b \in Node, handle_message(b), NEW m, m = client[b].msg
  PROVE  /\ m \in Known /\ m \in Handling(b) /\ log' = [log EXCEPT ![b] = Append(log[b], m)]
         /\ retained' = IF Sent(m).retain THEN [retained EXCEPT ![b][Sent(m).topic] = m]
                        ELSE retained
         /\ \A c \in Node : /\ Handling(c)' = IF c = b THEN {} ELSE Handling(c)
                            /\ Saving(c)' \subseteq Saving(c)
<1>1. /\ client[b].pc = "handling" /\ client' = [client EXCEPT ![b] = Idle]
      /\ log' = [log EXCEPT ![b] = Append(log[b], m)]
  BY DEF handle_message, topics_publish
<1>2. client \in [Node -> Carried]
  BY DEF TypeInv, TaskTypeOK
<1>3. m \in Known /\ m \in Handling(b)
  BY <1>1, <1>2 DEF Carried, Handling
<1>4. ASSUME NEW c \in Node
      PROVE  /\ Handling(c)' = IF c = b THEN {} ELSE Handling(c)
             /\ Saving(c)' \subseteq Saving(c)
  <2>1. client'[c] = IF c = b THEN Idle ELSE client[c]
    BY <1>1, <1>2
  <2> QED
    BY <2>1 DEF Handling, Saving, Idle
<1>5. retained' = IF Sent(m).retain THEN [retained EXCEPT ![b][Sent(m).topic] = m] ELSE retained
  BY DEF handle_message, topics_publish
<1> QED
  BY <1>1, <1>3, <1>4, <1>5

LEMMA MessageStep ==
  ASSUME OnceInv, TypeInv, NEW b \in Node, handle_message(b)
  PROVE  OnceInv'
<1>0. UNCHANGED <<history, handler, queue, wire, inbox>>
  BY DEF handle_message, redisVars
<1>1. PICK m : m = client[b].msg
  OBVIOUS
<1>2. log \in [Node -> Seq(Known)] /\ log' = [log EXCEPT ![b] = Append(log[b], m)]
  BY <1>1, MessageMoves DEF TypeInv, TopicTypeOK
<1>3. m \in Known /\ m \in Handling(b)
  BY <1>1, MessageMoves
<1>4. \A c \in Node : Handling(c)' = IF c = b THEN {} ELSE Handling(c)
  BY <1>1, MessageMoves
<1>5. ~IsOwn(b, m) /\ m \notin Elems(log[b])
  BY <1>3 DEF OnceInv, NotBroadcastYet
<1>6. /\ NoRepeat(log'[b]) /\ Elems(log'[b]) = Elems(log[b]) \cup {m}
      /\ \A c \in Node : c # b => log'[c] = log[c]
  <2>1. log[b] \in Seq(Known) /\ log'[b] = Append(log[b], m) /\ NoRepeat(log[b])
    BY <1>2 DEF OnceInv, NoCopies
  <2> QED
    BY <1>2, <1>3, <1>5, <2>1, AppendChannel
<1>7. Known' = Known /\ (\A c, n : IsOwn(c, n)' = IsOwn(c, n))
      /\ \A c \in Node, h \in Task : Unsent(c, h)' = Unsent(c, h)
  BY <1>0 DEF Known, IsOwn, Sent, Unsent
<1>8. ASSUME NEW c \in Node PROVE NoCopies(c)' /\ HeldOnce(c)'
  BY <1>0, <1>6, <1>7 DEF OnceInv, NoCopies, HeldOnce
<1>9. ASSUME NEW c \in Node PROVE NotBroadcastYet(c)'
  <2>1. \A n \in Known : Arrived(c, n) /\ c = b => n # m
    BY <1>3 DEF OnceInv, NotBroadcastYet
  <2>2. \A n \in Known : Arrived(c, n)' = Arrived(c, n)
    BY <1>0 DEF Arrived
  <2> QED
    BY <2>1, <2>2, <1>0, <1>4, <1>6, <1>7 DEF OnceInv, NotBroadcastYet
<1>10. ASSUME NEW c \in Node, NEW d \in Node PROVE NotSentYet(c, d)'
  <2> SUFFICES ASSUME NEW n \in Known, Waits(c, n)'
               PROVE  /\ IsOwn(c, n) /\ ~Arrived(d, n)' /\ n \notin Handling(d)'
                      /\ d # c => n \notin Elems(log'[d])
    BY <1>7 DEF NotSentYet
  <2>1. Waits(c, n)
    BY <1>0, <1>7 DEF Waits
  <2>2. /\ IsOwn(c, n) /\ ~Arrived(d, n) /\ n \notin Handling(d)
        /\ d # c => n \notin Elems(log[d])
    BY <2>1 DEF OnceInv, NotSentYet
  <2>3. ~Arrived(d, n)' /\ n \notin Handling(d)'
    BY <2>2, <1>0, <1>4 DEF Arrived
  <2>4. d = b => n # m
    BY <2>2, <1>3
  <2> QED
    BY <2>2, <2>3, <2>4, <1>6
<1> QED
  BY <1>8, <1>9, <1>10 DEF OnceInv

\* From the connection to the inbox; what is behind it on the connection is lost.
LEMMA ConnectionMoves ==
  ASSUME TypeInv, NEW b \in Node, handle_redis_message(b), NEW m, m = Head(wire[b])
  PROVE  /\ m \in Known /\ m \in Elems(wire[b])
         /\ inbox'[b] = Append(inbox[b], m) /\ Elems(inbox'[b]) = Elems(inbox[b]) \cup {m}
         /\ wire'[b] = <<>>
         /\ \A c \in Node : c # b => inbox'[c] = inbox[c] /\ wire'[c] = wire[c]
<1>1. /\ receiver[b] = "received"
      /\ inbox' = [inbox EXCEPT ![b] = Append(inbox[b], m)]
      /\ wire' = [wire EXCEPT ![b] = <<>>]
  BY DEF handle_redis_message
<1>2. /\ wire \in [Node -> Seq(Known)] /\ inbox \in [Node -> Seq(Known)] /\ wire[b] # <<>>
  BY <1>1 DEF TypeInv, RedisTypeOK, TaskTypeOK
<1>3. m \in Known /\ m \in Elems(wire[b])
  <2>1. wire[b] \in Seq(Known) /\ m = wire[b][1] /\ 1 \in 1..Len(wire[b])
    BY <1>2
  <2> QED
    BY <1>2, <2>1, Queues DEF Elems
<1>4. inbox[b] \in Seq(Known) /\ inbox'[b] = Append(inbox[b], m)
  BY <1>1, <1>2
<1>5. Elems(inbox'[b]) = Elems(inbox[b]) \cup {m}
  BY <1>3, <1>4, AppendChannel
<1>6. wire'[b] = <<>> /\ \A c \in Node : c # b => inbox'[c] = inbox[c] /\ wire'[c] = wire[c]
  BY <1>1, <1>2
<1> QED
  BY <1>3, <1>4, <1>5, <1>6

LEMMA ConnectionStep ==
  ASSUME OnceInv, TypeInv, NEW b \in Node, handle_redis_message(b)
  PROVE  OnceInv'
<1>0. UNCHANGED <<history, handler, queue, log, client>>
  BY DEF handle_redis_message, topicsVars
<1>1. PICK m : m = Head(wire[b])
  OBVIOUS
<1>2. m \in Known /\ m \in Elems(wire[b])
  BY <1>1, ConnectionMoves
<1>3. m \notin Elems(inbox[b]) /\ Arrived(b, m)
  BY <1>2 DEF OnceInv, NotBroadcastYet, Arrived
<1>4. /\ NoRepeat(inbox'[b]) /\ Elems(inbox'[b]) = Elems(inbox[b]) \cup {m}
      /\ \A c \in Node : c # b => inbox'[c] = inbox[c]
  <2>1. inbox[b] \in Seq(Known) /\ NoRepeat(inbox[b])
    BY DEF OnceInv, NoCopies, TypeInv, TaskTypeOK
  <2>2. /\ inbox'[b] = Append(inbox[b], m) /\ Elems(inbox'[b]) = Elems(inbox[b]) \cup {m}
        /\ \A c \in Node : c # b => inbox'[c] = inbox[c]
    BY <1>1, ConnectionMoves
  <2> QED
    BY <1>2, <1>3, <2>1, <2>2, AppendChannel
<1>5. /\ NoRepeat(wire'[b]) /\ Elems(wire'[b]) = {}
      /\ \A c \in Node : c # b => wire'[c] = wire[c]
  BY <1>1, ConnectionMoves, EmptyChannel
<1>6. Known' = Known /\ (\A c, n : IsOwn(c, n)' = IsOwn(c, n))
      /\ \A c \in Node : /\ Handling(c)' = Handling(c)
                         /\ \A h \in Task : Unsent(c, h)' = Unsent(c, h)
  BY <1>0 DEF Known, IsOwn, Sent, Unsent, Handling
<1>7. \A c \in Node : \A n : Arrived(c, n)' => Arrived(c, n)
  BY <1>3, <1>4, <1>5 DEF Arrived
<1>8. ASSUME NEW c \in Node PROVE NoCopies(c)' /\ HeldOnce(c)'
  BY <1>0, <1>4, <1>5, <1>6 DEF OnceInv, NoCopies, HeldOnce
<1>9. ASSUME NEW c \in Node PROVE NotBroadcastYet(c)'
  <2>1. Elems(wire'[c]) \cap Elems(inbox'[c]) = {}
    BY <1>4, <1>5 DEF OnceInv, NotBroadcastYet
  <2> QED
    BY <2>1, <1>0, <1>6, <1>7 DEF OnceInv, NotBroadcastYet
<1>10. ASSUME NEW c \in Node, NEW d \in Node PROVE NotSentYet(c, d)'
  BY <1>0, <1>6, <1>7 DEF OnceInv, NotSentYet, Waits
<1> QED
  BY <1>8, <1>9, <1>10 DEF OnceInv

\* Every place holds messages that were published.
LEMMA Places ==
  ASSUME TypeInv, NEW c \in Node
  PROVE  /\ Elems(queue[c]) \subseteq Known /\ Elems(wire[c]) \subseteq Known
         /\ Elems(inbox[c]) \subseteq Known /\ Elems(log[c]) \subseteq Known
         /\ Handling(c) \subseteq Known /\ Saving(c) \subseteq Known
         /\ \A k \in Task : Unsent(c, k) \subseteq Known
<1>1. /\ queue[c] \in Seq(Known) /\ wire[c] \in Seq(Known) /\ inbox[c] \in Seq(Known)
      /\ log[c] \in Seq(Known)
  BY DEF TypeInv, TopicTypeOK, TaskTypeOK, RedisTypeOK
<1>2. client[c].pc \in {"handling", "saving"} => client[c].msg \in Known
  BY DEF TypeInv, TaskTypeOK, Carried
<1>3. ASSUME NEW k \in Task, handler[c][k].pc \in {"locked", "sending"}
      PROVE  handler[c][k].msg \in Known
  <2>1. handler[c][k] \in Held
    BY DEF TypeInv, TaskTypeOK
  <2> QED
    BY <1>3, <2>1 DEF Held
<1> QED
  BY <1>1, <1>2, <1>3, ChannelOf DEF Handling, Saving, Unsent

\* A new message, in the topics and in the hand of its handler.
LEMMA PublishMoves ==
  ASSUME TypeInv, NEW b \in Node, NEW h \in Task, lock_and_publish(b, h),
         NEW m, m = Len(history) + 1
  PROVE  /\ m \in Nat /\ m \notin Known /\ (\A n \in Known : n \in Nat /\ n < m)
         /\ Known' = Known \cup {m} /\ (\A n \in Known : history'[n] = history[n])
         /\ history'[m].sender_id = b /\ history'[m].task = h /\ history'[m].topic \in Topic
         /\ log' = [log EXCEPT ![b] = Append(log[b], m)]
         /\ \/ retained' = retained
            \/ retained' = [retained EXCEPT ![b][history'[m].topic] = m]
         /\ \A c \in Node, k \in Task :
              Unsent(c, k)' = IF c = b /\ k = h THEN {m} ELSE Unsent(c, k)
<1> DEFINE v == [pc |-> "locked", msg |-> m]
<1>1. PICK t \in Topic, r \in Retain :
        /\ history' = Append(history, [topic |-> t, retain |-> r, sender_id |-> b, task |-> h])
        /\ topics_publish(b, m, [topic |-> t, retain |-> r, sender_id |-> b, task |-> h])
  BY DEF lock_and_publish
<1>2. /\ log' = [log EXCEPT ![b] = Append(log[b], m)]
      /\ handler' = [handler EXCEPT ![b][h] = v]
      /\ retained' = retained \/ retained' = [retained EXCEPT ![b][t] = m]
  BY <1>1 DEF topics_publish, lock_and_publish
<1>3. /\ history \in Seq(Published) /\ Len(history) \in Nat /\ handler \in [Node -> [Task -> Held]]
      /\ m \in Nat /\ m \notin Known /\ (\A n \in Known : n \in Nat /\ n < m)
  BY DEF TypeInv, OutsideTypeOK, TaskTypeOK, Known
<1>4. [topic |-> t, retain |-> r, sender_id |-> b, task |-> h] \in Published
  BY ClusterAssumption DEF lock_and_publish, Published
<1>5. /\ Len(history') = m /\ history'[m] = [topic |-> t, retain |-> r, sender_id |-> b, task |-> h]
      /\ \A n \in Known : history'[n] = history[n]
  BY <1>1, <1>3, <1>4 DEF Known
<1>6. Known' = Known \cup {m}
  BY <1>3, <1>5 DEF Known
<1>7. history'[m].sender_id = b /\ history'[m].task = h /\ history'[m].topic = t
  BY <1>5
<1>8. \A c \in Node, k \in Task : handler'[c][k] = IF c = b /\ k = h THEN v ELSE handler[c][k]
  <2> HIDE DEF v
  <2> QED
    BY <1>2, <1>3
<1>9. v.pc = "locked" /\ v.msg = m
  OBVIOUS
<1> HIDE DEF v
<1>10. ASSUME NEW c \in Node, NEW k \in Task
       PROVE  Unsent(c, k)' = IF c = b /\ k = h THEN {m} ELSE Unsent(c, k)
  BY <1>8, <1>9 DEF Unsent
<1> QED
  BY <1>2, <1>3, <1>5, <1>6, <1>7, <1>10

LEMMA NewMessage ==
  ASSUME OnceInv, TypeInv, NEW b \in Node, NEW h \in Task, lock_and_publish(b, h)
  PROVE  OnceInv'
<1>0. UNCHANGED <<queue, wire, inbox, client>>
  BY DEF lock_and_publish, redisVars
<1>1. PICK m : m = Len(history) + 1
  OBVIOUS
<1>2. log' = [log EXCEPT ![b] = Append(log[b], m)]
  BY <1>1, PublishMoves
<1>3. m \in Nat /\ m \notin Known /\ Known \subseteq Nat /\ log \in [Node -> Seq(Known)]
  BY <1>1, PublishMoves DEF TypeInv, TopicTypeOK
<1>4. /\ Known' = Known \cup {m} /\ history'[m].sender_id = b
      /\ \A c, n : n \in Known => IsOwn(c, n)' = IsOwn(c, n)
  BY <1>1, PublishMoves DEF IsOwn, Sent
<1>5. ASSUME NEW c \in Node
      PROVE  /\ Elems(queue[c]) \subseteq Known /\ Elems(wire[c]) \subseteq Known
             /\ Elems(inbox[c]) \subseteq Known /\ Elems(log[c]) \subseteq Known
             /\ Handling(c) \subseteq Known /\ \A k \in Task : Unsent(c, k) \subseteq Known
  BY Places
<1>6. /\ \A c \in Node, k \in Task : Unsent(c, k)' = IF c = b /\ k = h THEN {m} ELSE Unsent(c, k)
      /\ \A c \in Node : Handling(c)' = Handling(c)
  <2>1. \A c \in Node, k \in Task : Unsent(c, k)' = IF c = b /\ k = h THEN {m} ELSE Unsent(c, k)
    BY <1>1, PublishMoves
  <2>2. \A c \in Node : Handling(c)' = Handling(c)
    BY <1>0 DEF Handling
  <2> QED
    BY <2>1, <2>2
<1>7. /\ NoRepeat(log'[b]) /\ Elems(log'[b]) = Elems(log[b]) \cup {m}
      /\ \A c \in Node : c # b => log'[c] = log[c]
  <2>1. /\ log[b] \in Seq(Nat) /\ log'[b] = Append(log[b], m) /\ NoRepeat(log[b])
        /\ m \notin Elems(log[b])
    BY <1>2, <1>3, <1>5, SeqGrows DEF OnceInv, NoCopies
  <2> QED
    BY <1>2, <1>3, <2>1, AppendChannel
<1>8. ASSUME NEW c \in Node PROVE NoCopies(c)' /\ HeldOnce(c)'
  <2>1. NoCopies(c)'
    BY <1>0, <1>7 DEF OnceInv, NoCopies
  <2>2. HeldOnce(c)'
    <3> SUFFICES ASSUME NEW j \in Task
                 PROVE  /\ Unsent(c, j)' \cap Elems(queue[c]) = {}
                        /\ \A k \in Task : k # j => Unsent(c, j)' \cap Unsent(c, k)' = {}
      BY <1>0 DEF HeldOnce
    <3>1. m \notin Elems(queue[c]) /\ \A k \in Task : m \notin Unsent(c, k)
      BY <1>3, <1>5
    <3>2. /\ Unsent(c, j) \cap Elems(queue[c]) = {}
          /\ \A k \in Task : k # j => Unsent(c, j) \cap Unsent(c, k) = {}
      BY DEF OnceInv, HeldOnce
    <3>3. \A k \in Task : Unsent(c, k)' = IF c = b /\ k = h THEN {m} ELSE Unsent(c, k)
      BY <1>6
    <3> QED
      BY <3>1, <3>2, <3>3
  <2> QED
    BY <2>1, <2>2
<1>9. ASSUME NEW c \in Node PROVE NotBroadcastYet(c)'
  <2>1. \A n : Arrived(c, n)' = Arrived(c, n) /\ (Arrived(c, n) => n \in Known)
    BY <1>0, <1>5 DEF Arrived
  <2>2. \A n \in Known : n \in Elems(log'[c]) => n \in Elems(log[c])
    BY <1>3, <1>7
  <2> QED
    BY <1>0, <1>4, <1>5, <1>6, <2>1, <2>2 DEF OnceInv, NotBroadcastYet
<1>10. ASSUME NEW c \in Node, NEW d \in Node PROVE NotSentYet(c, d)'
  <2> SUFFICES ASSUME NEW n \in Known', Waits(c, n)'
               PROVE  /\ IsOwn(c, n)' /\ ~Arrived(d, n) /\ n \notin Handling(d)
                      /\ d # c => n \notin Elems(log'[d])
    BY <1>0, <1>6 DEF NotSentYet, Arrived
  <2>1. CASE n = m
    <3>1. c = b
      BY <2>1, <1>0, <1>3, <1>5, <1>6 DEF Waits
    <3>2. ~Arrived(d, n) /\ n \notin Handling(d) /\ n \notin Elems(log[d])
      BY <2>1, <1>3, <1>5 DEF Arrived
    <3>3. IsOwn(c, n)'
      BY <2>1, <3>1, <1>4 DEF IsOwn, Sent
    <3>4. d # c => n \notin Elems(log'[d])
      BY <3>1, <3>2, <1>7
    <3> QED
      BY <3>2, <3>3, <3>4
  <2>2. CASE n # m
    <3>1. n \in Known /\ Waits(c, n)
      BY <2>2, <1>0, <1>4, <1>6 DEF Waits
    <3>2. /\ IsOwn(c, n) /\ ~Arrived(d, n) /\ n \notin Handling(d)
          /\ d # c => n \notin Elems(log[d])
      BY <3>1 DEF OnceInv, NotSentYet
    <3>3. IsOwn(c, n)'
      BY <3>1, <3>2, <1>4
    <3>4. d # c => n \notin Elems(log'[d])
      BY <2>2, <3>2, <1>7
    <3> QED
      BY <3>2, <3>3, <3>4
  <2> QED
    BY <2>1, <2>2
<1> QED
  BY <1>8, <1>9, <1>10 DEF OnceInv
-----------------------------------------------------------------------------
LEMMA OnceInductive == ClusterSpec => []OnceInv
<1>1. ClusterInit => OnceInv
  <2> SUFFICES ASSUME ClusterInit PROVE OnceInv
    OBVIOUS
  <2>1. \A b \in Node : /\ queue[b] = <<>> /\ wire[b] = <<>> /\ inbox[b] = <<>> /\ log[b] = <<>>
                        /\ client[b] = Idle /\ \A h \in Task : handler[b][h] = Idle
    BY DEF ClusterInit
  <2>2. \A b \in Node : Handling(b) = {} /\ \A h \in Task : Unsent(b, h) = {}
    BY <2>1 DEF Handling, Unsent, Idle
  <2> QED
    BY <2>1, <2>2, EmptyChannel
    DEF OnceInv, NoCopies, HeldOnce, NotBroadcastYet, NotSentYet, Arrived, Waits
<1>2. OnceInv /\ TypeInv /\ [ClusterNext]_vars => OnceInv'
  <2> SUFFICES ASSUME OnceInv, TypeInv, [ClusterNext]_vars PROVE OnceInv'
    OBVIOUS
  <2>1. CASE UNCHANGED vars
    <3>1. UNCHANGED <<history, queue, wire, inbox, log, client, handler>>
      BY <2>1 DEF vars, redisVars, topicsVars, taskVars
    <3>2. \A b \in Node : Handling(b)' = Handling(b) /\ \A h \in Task : Unsent(b, h)' = Unsent(b, h)
      BY <3>1 DEF Handling, Unsent
    <3>3. \A b \in Node : NoCopies(b)'
      BY <3>1 DEF OnceInv, NoCopies
    <3> QED
      BY <3>1, <3>2, <3>3, NothingNew
  <2> QED
    BY <2>1, QuietSteps, HandlerQuiet, QueueStep, RedisStep, InboxStep, MessageStep,
       ConnectionStep, NewMessage DEF ClusterNext
<1> QED
  BY <1>1, <1>2, MessagesKnown, PTL DEF ClusterSpec

\* No broker broadcasts a message twice, for any number of brokers and connection tasks,
\* with lost commands, reconnections and crashes: it is in one place of its publisher until
\* Redis has it, then in one place of each receiver, and the echo is dropped
\* (RedisClient::listen, handle_message, receive_from_redis).
THEOREM ClusterBroadcastsOnce == ClusterSpec => []BroadcastAtMostOnce
<1>1. OnceInv /\ TypeInv => BroadcastAtMostOnce
  <2> SUFFICES ASSUME OnceInv, TypeInv, NEW b \in Node
               PROVE  \A i, j \in DOMAIN log[b] : log[b][i] = log[b][j] => i = j
    BY DEF BroadcastAtMostOnce
  <2>1. DOMAIN log[b] = 1..Len(log[b])
    BY DEF TypeInv, TopicTypeOK
  <2> QED
    BY <2>1 DEF OnceInv, NoCopies, NoRepeat
<1> QED
  BY <1>1, OnceInductive, MessagesKnown, PTL
=============================================================================
