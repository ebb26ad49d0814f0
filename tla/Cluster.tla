------------------------------ MODULE Cluster -------------------------------
(***************************************************************************)
(* src/redis_client.rs and its callers (feature redis): brokers that share *)
(* their messages through the Redis channel "sync" and their retained      *)
(* messages through the keys "retain:<topic>", and log what they publish   *)
(* in BigQuery (src/bigquery.rs, feature bq_logging).                      *)
(*                                                                         *)
(* Of a broker's connection tasks only the publish handler is represented, *)
(* with the atomic effect of Topics::publish that Broker is shown to have. *)
(* A message is published once; its position in `history` is its name, so  *)
(* the payload, the QoS (which the copy for the other brokers loses) and   *)
(* the retain flag of the restored copy are not represented.               *)
(***************************************************************************)
EXTENDS Integers, Sequences

CONSTANTS
  Topic, None,
  Node,        \* the brokers of the cluster
  Publisher,   \* the brokers whose clients publish
  Task,        \* connection tasks of a broker
  Retain,      \* the retain flags of the messages
  QueueSize,   \* mpsc::channel(200) from the handlers to the RedisClient
  InboxSize,   \* mpsc::channel(1024) from receive_from_redis to the RedisClient
  Logging,     \* feature bq_logging
  Faulty,      \* whether writes to peers, Redis and BigQuery may fail
  MaxCrashes,  \* bound: crashes of brokers
  MaxHistory   \* bound: messages published

ASSUME ClusterAssumption ==
  /\ Publisher \subseteq Node /\ Retain \subseteq BOOLEAN /\ None \notin Task
  /\ QueueSize \in Nat \ {0} /\ InboxSize \in Nat \ {0}
  /\ Logging \in BOOLEAN /\ Faulty \in BOOLEAN /\ MaxCrashes \in Nat /\ MaxHistory \in Nat

VARIABLES
  history,    \* the messages published in the cluster, [topic, retain, sender_id, task];
              \* task is the connection that published it, no action reads it
  store,      \* Redis: store[t] is the message saved under retain:t, or 0
  wire,       \* Redis: wire[b], what was pushed to the subscribed connection of b
  phase,      \* phase[b]: down, loading (get_all_retained_messages), up
  keys,       \* keys[b]: the keys that are still to be read while loading
  log,        \* log[b]: the messages broadcast by the topics of b
  retained,   \* retained[b][t]: the retained message of t at b, 0 for none
  lock,       \* lock[b]: the task that holds the mutex around the topics of b
  handler,    \* handler[b][h]: the publish handler, [pc, msg]
  queue,      \* queue[b]: handlers to RedisClient
  client,     \* client[b]: the RedisClient task, [pc, msg]: idle, saving or handling a message, dead
  receiver,   \* receiver[b]: receive_from_redis: connecting, subscribed, or the message it got
  inbox,      \* inbox[b]: receive_from_redis to RedisClient
  rows,       \* BigQuery: the messages in the table, in the order of their insertion
  crashes

redisVars == <<store, wire>>
topicsVars == <<log, retained, lock>>
taskVars == <<handler, queue, client, receiver, inbox>>
outsideVars == <<rows, crashes>>
vars == <<history, redisVars, phase, keys, topicsVars, taskVars, outsideVars>>

Message == 1..MaxHistory
Sent(m) == history[m]
Idle == [pc |-> "idle", msg |-> 0]
Dead == [pc |-> "dead", msg |-> 0]

ClusterInit ==
  /\ history = <<>> /\ rows = <<>> /\ crashes = 0
  /\ store = [t \in Topic |-> 0]
  /\ wire = [b \in Node |-> <<>>]
  /\ phase = [b \in Node |-> "down"]
  /\ keys = [b \in Node |-> {}]
  /\ log = [b \in Node |-> <<>>]
  /\ retained = [b \in Node |-> [t \in Topic |-> 0]]
  /\ lock = [b \in Node |-> None]
  /\ handler = [b \in Node |-> [h \in Task |-> Idle]]
  /\ queue = [b \in Node |-> <<>>]
  /\ client = [b \in Node |-> Idle]
  /\ receiver = [b \in Node |-> "connecting"]
  /\ inbox = [b \in Node |-> <<>>]
-----------------------------------------------------------------------------
(* Start and end of a broker process. *)

\* main_loop creates the topics and the RedisClient; KEYS retain:*.
start(b) ==
  /\ phase[b] = "down"
  /\ phase' = [phase EXCEPT ![b] = "loading"]
  /\ keys' = [keys EXCEPT ![b] = {t \in Topic : store[t] # 0}]
  /\ UNCHANGED <<history, redisVars, topicsVars, taskVars, outsideVars>>

\* GET of one key; a key that cannot be read is skipped.
get_retained(b, t) ==
  /\ phase[b] = "loading" /\ t \in keys[b]
  /\ keys' = [keys EXCEPT ![b] = @ \ {t}]
  /\ \/ retained' = [retained EXCEPT ![b][t] = store[t]]
     \/ Faulty /\ UNCHANGED retained
  /\ UNCHANGED <<history, redisVars, phase, log, lock, taskVars, outsideVars>>

\* Mutant: clients are served while the retained messages are still being read.
serve_early(b) ==
  /\ phase[b] = "loading"
  /\ phase' = [phase EXCEPT ![b] = "up"]
  /\ UNCHANGED <<history, redisVars, keys, topicsVars, taskVars, outsideVars>>

\* listen and receive_from_redis are spawned and the listeners are bound.
serve(b) ==
  /\ phase[b] = "loading" /\ keys[b] = {}
  /\ phase' = [phase EXCEPT ![b] = "up"]
  /\ UNCHANGED <<history, redisVars, keys, topicsVars, taskVars, outsideVars>>

\* External: the process ends, for instance on an unwrap of the reply to KEYS.
crash(b) ==
  /\ phase[b] # "down" /\ crashes < MaxCrashes
  /\ crashes' = crashes + 1
  /\ phase' = [phase EXCEPT ![b] = "down"]
  /\ keys' = [keys EXCEPT ![b] = {}]
  /\ wire' = [wire EXCEPT ![b] = <<>>]
  /\ log' = [log EXCEPT ![b] = <<>>]
  /\ retained' = [retained EXCEPT ![b] = [t \in Topic |-> 0]]
  /\ lock' = [lock EXCEPT ![b] = None]
  /\ handler' = [handler EXCEPT ![b] = [h \in Task |-> Idle]]
  /\ queue' = [queue EXCEPT ![b] = <<>>]
  /\ client' = [client EXCEPT ![b] = Idle]
  /\ receiver' = [receiver EXCEPT ![b] = "connecting"]
  /\ inbox' = [inbox EXCEPT ![b] = <<>>]
  /\ UNCHANGED <<history, store, rows>>
-----------------------------------------------------------------------------
(* handle_publish_packet: first the topics, then, without the lock, Redis. *)

\* Topics::publish of message m at broker b.
topics_publish(b, m, p) ==
  /\ log' = [log EXCEPT ![b] = Append(@, m)]
  /\ retained' = IF p.retain THEN [retained EXCEPT ![b][p.topic] = m] ELSE retained

lock_and_publish(b, h) ==
  /\ phase[b] = "up" /\ b \in Publisher
  /\ handler[b][h].pc = "idle" /\ lock[b] = None
  /\ Len(history) < MaxHistory
  /\ \E t \in Topic, r \in Retain :
       LET p == [topic |-> t, retain |-> r, sender_id |-> b, task |-> h]
       IN  /\ history' = Append(history, p)
           /\ topics_publish(b, Len(history) + 1, p)
  /\ lock' = [lock EXCEPT ![b] = h]
  /\ handler' = [handler EXCEPT ![b][h] = [pc |-> "locked", msg |-> Len(history) + 1]]
  /\ UNCHANGED <<redisVars, phase, keys, queue, client, receiver, inbox, outsideVars>>

\* Mutant: the message is queued for Redis before the guard is dropped.
send_locked(b, h) ==
  /\ handler[b][h].pc = "locked" /\ Len(queue[b]) < QueueSize
  /\ queue' = [queue EXCEPT ![b] = Append(@, handler[b][h].msg)]
  /\ lock' = [lock EXCEPT ![b] = None]
  /\ handler' = [handler EXCEPT ![b][h] = Idle]
  /\ UNCHANGED <<history, redisVars, phase, keys, log, retained, client, receiver, inbox, outsideVars>>

\* The guard is dropped at the end of the match.
unlock(b, h) ==
  /\ handler[b][h].pc = "locked"
  /\ lock' = [lock EXCEPT ![b] = None]
  /\ handler' = [handler EXCEPT ![b][h].pc = "sending"]
  /\ UNCHANGED <<history, redisVars, phase, keys, log, retained, queue, client, receiver, inbox, outsideVars>>

\* redis_sender.send(packet).await waits while the queue is full.  Without bq_logging
\* nothing that follows in the handler matters here.
redis_send(b, h) ==
  /\ handler[b][h].pc = "sending" /\ client[b].pc # "dead" /\ Len(queue[b]) < QueueSize
  /\ queue' = [queue EXCEPT ![b] = Append(@, handler[b][h].msg)]
  /\ handler' = [handler EXCEPT ![b][h] = IF Logging THEN [@ EXCEPT !.pc = "acking"] ELSE Idle]
  /\ UNCHANGED <<history, redisVars, phase, keys, topicsVars, client, receiver, inbox, outsideVars>>

\* The channel is closed, its receiver ended with the RedisClient: the expect makes the
\* handler and its task panic.
send_panics(b, h) ==
  /\ handler[b][h].pc = "sending" /\ client[b].pc = "dead"
  /\ handler' = [handler EXCEPT ![b][h] = Idle]
  /\ UNCHANGED <<history, redisVars, phase, keys, topicsVars, queue, client, receiver, inbox, outsideVars>>

\* The PUBACK, for QoS 1: if it cannot be written the handler ends without logging, and so
\* does its task.
write_puback(b, h) ==
  /\ handler[b][h].pc = "acking"
  /\ \/ handler' = [handler EXCEPT ![b][h].pc = "logging"]
     \/ Faulty /\ handler' = [handler EXCEPT ![b][h] = Idle]
  /\ UNCHANGED <<history, redisVars, phase, keys, topicsVars, queue, client, receiver, inbox, outsideVars>>

\* The row is inserted while the handler waits.  An error of BigQuery is only logged; a
\* payload that is not UTF-8 or credentials that cannot be read make the task panic.
log_in_bq(b, h) ==
  /\ handler[b][h].pc = "logging"
  /\ \/ rows' = Append(rows, handler[b][h].msg)
     \/ Faulty /\ UNCHANGED rows
  /\ handler' = [handler EXCEPT ![b][h] = Idle]
  /\ UNCHANGED <<history, redisVars, phase, keys, topicsVars, queue, client, receiver, inbox, crashes>>
-----------------------------------------------------------------------------
(* The RedisClient task: listen, publish, handle_message. *)

Subscribers == {b \in Node : receiver[b] # "connecting"}

\* Mutant: the newest message is taken first.
TakeNewest(q) == <<q[Len(q)], SubSeq(q, 1, Len(q) - 1)>>

\* recv on an mpsc channel: the oldest message, and what is left.
Take(q) == <<Head(q), Tail(q)>>

\* PUBLISH sync: Redis pushes the message to the connections that are subscribed now.
\* An error of the command is ignored.
redis_publish(b) ==
  LET m == Take(queue[b])[1]
  IN
  /\ phase[b] = "up" /\ client[b].pc = "idle" /\ queue[b] # <<>>
  /\ queue' = [queue EXCEPT ![b] = Take(queue[b])[2]]
  /\ \/ wire' = [c \in Node |-> IF c \in Subscribers THEN Append(wire[c], m) ELSE wire[c]]
     \/ Faulty /\ UNCHANGED wire
  /\ client' = [client EXCEPT ![b] =
                  IF Sent(m).retain THEN [pc |-> "saving", msg |-> m] ELSE Idle]
  /\ UNCHANGED <<history, store, phase, keys, topicsVars, handler, receiver, inbox, outsideVars>>

\* Mutant: a key that exists is not overwritten.
redis_set_nx(b) ==
  LET m == client[b].msg
  IN
  /\ client[b].pc = "saving"
  /\ \/ store' = [store EXCEPT ![Sent(m).topic] = IF @ = 0 THEN m ELSE @]
     \/ Faulty /\ UNCHANGED store
  /\ client' = [client EXCEPT ![b] = Idle]
  /\ UNCHANGED <<history, wire, phase, keys, topicsVars, handler, queue, receiver, inbox, outsideVars>>

\* SET retain:<topic>; an error is ignored.
redis_set(b) ==
  LET m == client[b].msg
  IN
  /\ client[b].pc = "saving"
  /\ \/ store' = [store EXCEPT ![Sent(m).topic] = m]
     \/ Faulty /\ UNCHANGED store
  /\ client' = [client EXCEPT ![b] = Idle]
  /\ UNCHANGED <<history, wire, phase, keys, topicsVars, handler, queue, receiver, inbox, outsideVars>>

\* Mutant: messages of the broker itself are not recognised.
AcceptAll(b, m) == FALSE

\* The echo of a message this RedisClient published.
IsOwn(b, m) == Sent(m).sender_id = b

\* The other branch of select!: an echo is dropped, for another message handle_message is
\* entered and waits for the lock.
receive_inbox(b) ==
  LET m == Head(inbox[b])
  IN
  /\ phase[b] = "up" /\ client[b].pc = "idle" /\ inbox[b] # <<>>
  /\ inbox' = [inbox EXCEPT ![b] = Tail(@)]
  /\ client' = IF IsOwn(b, m) THEN client
               ELSE [client EXCEPT ![b] = [pc |-> "handling", msg |-> m]]
  /\ UNCHANGED <<history, redisVars, phase, keys, topicsVars, handler, queue, receiver, outsideVars>>

\* Mutant: what comes from another broker is logged like what a client publishes.
handle_message_logged(b) ==
  /\ client[b].pc = "handling" /\ lock[b] = None
  /\ topics_publish(b, client[b].msg, Sent(client[b].msg))
  /\ client' = [client EXCEPT ![b] = Idle]
  /\ rows' = IF Logging THEN Append(rows, client[b].msg) ELSE rows
  /\ UNCHANGED <<history, redisVars, phase, keys, lock, handler, queue, receiver, inbox, crashes>>

\* The message goes to the topics of this broker.
handle_message(b) ==
  /\ client[b].pc = "handling" /\ lock[b] = None
  /\ topics_publish(b, client[b].msg, Sent(client[b].msg))
  /\ client' = [client EXCEPT ![b] = Idle]
  /\ UNCHANGED <<history, redisVars, phase, keys, lock, handler, queue, receiver, inbox, outsideVars>>

\* A message on the channel "sync" that is no broker's (not a RedisMessage, or with a name
\* that is no topic) makes handle_message panic: the task ends with both its channels.
client_panics(b) ==
  /\ Faulty /\ phase[b] = "up" /\ client[b].pc = "idle"
  /\ client' = [client EXCEPT ![b] = Dead]
  /\ queue' = [queue EXCEPT ![b] = <<>>]
  /\ inbox' = [inbox EXCEPT ![b] = <<>>]
  /\ UNCHANGED <<history, redisVars, phase, keys, topicsVars, handler, receiver, outsideVars>>
-----------------------------------------------------------------------------
(* receive_from_redis: connect, subscribe, take one message, start over. *)

redis_subscribe(b) ==
  /\ phase[b] = "up" /\ receiver[b] = "connecting"
  /\ receiver' = [receiver EXCEPT ![b] = "subscribed"]
  /\ UNCHANGED <<history, redisVars, phase, keys, topicsVars, handler, queue, client, inbox, outsideVars>>

get_message(b) ==
  /\ receiver[b] = "subscribed" /\ wire[b] # <<>>
  /\ receiver' = [receiver EXCEPT ![b] = "received"]
  /\ UNCHANGED <<history, redisVars, phase, keys, topicsVars, handler, queue, client, inbox, outsideVars>>

\* Mutant: the channel to the RedisClient is unbounded.
handle_redis_message_unbounded(b) ==
  /\ receiver[b] = "received" /\ client[b].pc # "dead"
  /\ inbox' = [inbox EXCEPT ![b] = Append(@, Head(wire[b]))]
  /\ receiver' = [receiver EXCEPT ![b] = "connecting"]
  /\ wire' = [wire EXCEPT ![b] = <<>>]
  /\ UNCHANGED <<history, store, phase, keys, topicsVars, handler, queue, client, outsideVars>>

\* blocking_send to the RedisClient, then the connection is dropped with all it holds.
handle_redis_message(b) ==
  /\ receiver[b] = "received" /\ client[b].pc # "dead" /\ Len(inbox[b]) < InboxSize
  /\ inbox' = [inbox EXCEPT ![b] = Append(@, Head(wire[b]))]
  /\ receiver' = [receiver EXCEPT ![b] = "connecting"]
  /\ wire' = [wire EXCEPT ![b] = <<>>]
  /\ UNCHANGED <<history, store, phase, keys, topicsVars, handler, queue, client, outsideVars>>

\* get_message returns an error, or blocking_send does because the RedisClient has ended:
\* the connection is dropped as well.
connection_lost(b) ==
  /\ \/ Faulty /\ receiver[b] = "subscribed"
     \/ receiver[b] = "received" /\ client[b].pc = "dead"
  /\ receiver' = [receiver EXCEPT ![b] = "connecting"]
  /\ wire' = [wire EXCEPT ![b] = <<>>]
  /\ UNCHANGED <<history, store, phase, keys, topicsVars, handler, queue, client, inbox, outsideVars>>
-----------------------------------------------------------------------------
ClusterNext == \E b \in Node :
  \/ start(b) \/ serve(b) \/ crash(b)
  \/ \E t \in Topic : get_retained(b, t)
  \/ \E h \in Task :
       \/ lock_and_publish(b, h) \/ unlock(b, h) \/ redis_send(b, h) \/ send_panics(b, h)
       \/ write_puback(b, h) \/ log_in_bq(b, h)
  \/ redis_publish(b) \/ redis_set(b) \/ receive_inbox(b) \/ handle_message(b) \/ client_panics(b)
  \/ redis_subscribe(b) \/ get_message(b) \/ handle_redis_message(b) \/ connection_lost(b)

ClusterSpec == ClusterInit /\ [][ClusterNext]_vars

\* The tasks of a broker keep running, Redis answers sooner or later (get_connection
\* retries every second), and an mpsc channel lets its senders in in turn.
FairCluster ==
  /\ ClusterSpec
  /\ \A b \in Node :
       /\ WF_vars(redis_publish(b)) /\ WF_vars(redis_set(b))
       /\ WF_vars(receive_inbox(b)) /\ SF_vars(handle_message(b))
       /\ \A h \in Task :
            /\ WF_vars(unlock(b, h)) /\ SF_vars(redis_send(b, h)) /\ WF_vars(send_panics(b, h))
            /\ WF_vars(write_puback(b, h)) /\ WF_vars(log_in_bq(b, h))
-----------------------------------------------------------------------------
(* Correctness. *)

ClusterTypeOK ==
  /\ history \in Seq([topic: Topic, retain: BOOLEAN, sender_id: Publisher, task: Task])
  /\ store \in [Topic -> 0..Len(history)]
  /\ wire \in [Node -> Seq(Message)]
  /\ phase \in [Node -> {"down", "loading", "up"}]
  /\ keys \in [Node -> SUBSET Topic]
  /\ log \in [Node -> Seq(Message)]
  /\ retained \in [Node -> [Topic -> 0..Len(history)]]
  /\ lock \in [Node -> Task \cup {None}]
  /\ handler \in [Node -> [Task -> [pc: {"idle", "locked", "sending", "acking", "logging"},
                                    msg: 0..Len(history)]]]
  /\ queue \in [Node -> Seq(Message)] /\ \A b \in Node : Len(queue[b]) <= QueueSize
  /\ client \in [Node -> [pc: {"idle", "saving", "handling", "dead"}, msg: 0..Len(history)]]
  /\ receiver \in [Node -> {"connecting", "subscribed", "received"}]
  /\ inbox \in [Node -> Seq(Message)] /\ \A b \in Node : Len(inbox[b]) <= InboxSize
  /\ rows \in Seq(Message)
  /\ crashes \in 0..MaxCrashes

\* A broker broadcasts a message at most once: its own echo from Redis, a reconnection or
\* a failed command never make it come twice (handle_message, receive_from_redis).
BroadcastAtMostOnce ==
  \A b \in Node : \A i, j \in DOMAIN log[b] : log[b][i] = log[b][j] => i = j

\* While the retained messages are read from Redis, none of their topics exists yet, so
\* topics.add(...).unwrap() in get_all_retained_messages neither panics nor throws away a
\* channel with its subscribers.
LoadFindsNoTopic ==
  \A b \in Node : \A t \in keys[b] :
    /\ retained[b][t] = 0
    /\ \A i \in DOMAIN log[b] : Sent(log[b][i]).topic # t

\* The messages of t were published through one broker and one connection at a time: a
\* task of the model serves a connection, and another one after that has ended.
OnePublisher(t) ==
  \A i, j \in DOMAIN history :
    history[i].topic = t /\ history[j].topic = t =>
      history[i].sender_id = history[j].sender_id /\ history[i].task = history[j].task

\* On a topic with one publisher, the retained message of a running broker never goes back
\* to an older one, whether it comes from the publisher, through the channel "sync" or from
\* the keys read at the start, although other connections of the broker send through the
\* same queue, and in spite of crashes, lost commands and tasks that end.
RetainedMovesForward ==
  [][\A b \in Node, t \in Topic :
       phase'[b] # "down" /\ OnePublisher(t)' => retained'[b][t] >= retained[b][t]]_vars

\* Message m has not reached Redis: a handler holds it, it is queued or it is being saved.
UnderWay(m) ==
  \E b \in Node :
    \/ \E i \in 1..Len(queue[b]) : queue[b][i] = m
    \/ client[b].pc = "saving" /\ client[b].msg = m
    \/ \E h \in Task : handler[b][h].pc \in {"locked", "sending"} /\ handler[b][h].msg = m

\* The key of t holds the newest retained message, but for those that are under way.
UpToDate(t) ==
  \A m \in 1..Len(history) :
    Sent(m).topic = t /\ Sent(m).retain /\ store[t] < m => UnderWay(m)

\* While nothing fails, the key that a broker reads at its start catches up with what was
\* published on a topic with one publisher, and is never overwritten by an older message,
\* although the key is set after the topics have the message and without their lock.
SavedIsNewest == ~Faulty /\ crashes = 0 => \A t \in Topic : OnePublisher(t) => UpToDate(t)

\* A message has at most one row in BigQuery, although every broker of the cluster
\* broadcasts it and commands, connections and brokers fail (log_in_bq is called by the
\* handler of the client's packet only).
LoggedOnce == \A i, j \in DOMAIN rows : rows[i] = rows[j] => i = j

\* A publish handler that waits for room in the queue to Redis gets it: the RedisClient
\* never waits for a lock that such a handler holds.
BackpressureDrains ==
  \A b \in Node, h \in Task : handler[b][h].pc # "idle" ~> handler[b][h].pc = "idle"

\* What a broker broadcasts of the messages of the only publisher has no gaps: each message
\* received from Redis is sent to the mqtt broker.
NoGaps ==
  \A b \in Node : \A i \in 1 .. Len(log[b]) - 1 : log[b][i + 1] = log[b][i] + 1
=============================================================================
