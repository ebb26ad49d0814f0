# MCloudTT in TLA+

A TLA+ model of MCloudTT, an asynchronous MQTT v5 broker in Rust: the tasks that
serve the connections, from bytes and timers to packet handlers, the topics they
share, the accept loop that starts them, and the synchronisation of several brokers
through Redis with the log in BigQuery. TLC checks the modules on small instances;
TLAPS proves the safety properties of the passing runs for every instance (section 4
says under which assumptions on the constants, section 6 what they exclude). Paths below
are relative to the repository; `PROJECT.json` maps every definition to the lines it
models.

## 1. The system

| Part | State | Operations | Interaction |
|---|---|---|---|
| Topics (`src/topics.rs`) | a `BTreeMap` from topic names to a tokio broadcast channel (1024 slots) and a retained message | `add`, `subscribe`, `publish`, `get_retained_message`, `send_message` | shared by all tasks behind one tokio `Mutex` |
| Connection tasks (`src/tcp_handling.rs`) | per connection: receivers by topic, the will, the unacknowledged QoS 1 messages with a retry counter, the stream | the `select!` loop of `handle_raw_tcp_stream` (packet, broadcast message, keep-alive timer, retry timer), one handler per packet type, `publish_will`, `write_to_stream` | take the mutex in PUBLISH and SUBSCRIBE, receive from the broadcast channels, send to the Redis client |
| Redis synchronisation (`src/redis_client.rs`, start in `src/main.rs`) | the queue from the handlers (200), the inbox (1024), a random `sender_id`; in Redis the channel `sync` and the keys `retain:<topic>` | `get_all_retained_messages`, `listen`, `publish`, `handle_message`, `receive_from_redis`, `get_connection` | its own task, takes the mutex to publish what other brokers sent |
| Listener (`src/main.rs`) | two listening sockets, the handshake in progress | the fallible start (settings, bind, certificates, keys), accept, TLS handshake, spawn a task per connection | creates `Client`s; one loop for all peers |
| BigQuery logging (`src/bigquery.rs`) | a table outside the broker | `log_in_bq`, one row per PUBLISH | awaited by the publish handler after the PUBACK |
| MQTT values (crate `mqtt_v5_fork`) | - | encode, decode | used by the handlers, on a buffer of 1024 bytes per read |
| Configuration (`src/config.rs`) | the settings, read once | `Configuration::load` | `websocket` selects the accept loop, `timeout` the keep-alive |
| Errors (`src/error.rs`) | - | conversions | not modelled |

What is hard here:

* every `.await` is a point where another task runs, and a point where a task can
  end for good (a failed write leaves by `?`), also in a critical section:
  `handle_subscribe_packet` writes the retained message with the mutex held;
* subscribing consists of creating a receiver and looking up the retained
  message, publishing of sending and retaining. In another order or without the
  mutex messages fall between them or come twice;
* a broadcast channel overwrites what a slow subscriber has not read;
* the retry counter is a `u32` that is decremented before it is compared;
* a will goes through the PUBLISH handler, which expects an identifier;
* the timers of `select!` start anew on every turn of the loop, so each branch that
  runs postpones the keep-alive and the retry;
* TCP delivers bytes, not packets, and every read decodes one packet;
* one accept loop awaits the TLS handshake of one peer at a time;
* a write has no timeout, and while a body waits for it no branch of `select!` is polled;
* the publish handler waits for the queue of the Redis client, which waits for the
  mutex;
* a message is queued for Redis after the mutex was released, so the connections of a
  broker may queue in another order than they published;
* Redis pub/sub loses what is published while a broker is not subscribed, brokers
  restart, and commands fail silently.

The correct behaviour, part by part: Topics and connection tasks behave as an
atomic publish/subscribe log (section 3, `PubSub`), the mutex is released on every
way out, handlers terminate, a message is retransmitted less often than its expiry
interval has seconds; the Redis client broadcasts a message at most once per broker,
saves the newest message of a topic that one connection publishes on and never replaces
it by an older one, and never deadlocks with the handlers, and a message is logged at
most once; the loop of a connection never times out a peer that keeps to its interval,
gives up a silent one that reads and for which nothing is published any more, starves
no topic but those behind a busy one, and hands packets to their handlers in order; the
accept loop survives everything that single peers do.

## 2. Modules

| Module | Contents |
|---|---|
| `Mqtt` | packets and filters, reduced to the fields the broker branches on |
| `PubSub` | abstract specification: publish, subscribe with its snapshot, deliver, overrun and unsubscribe are single steps |
| `Topics` | `src/topics.rs` as action fragments on `names`, `log` and `retained` |
| `Broker` | `src/tcp_handling.rs`, one action per handler or per stretch between two awaits |
| `BrokerCorrectness` | properties of `Broker`, the refinement mapping to `PubSub`, fairness |
| `EventLoop` | the `select!` loop of one connection against a clock in seconds |
| `Framing` | the reads of `handle_raw_tcp_stream` over a stream of packets |
| `Listener` | `src/main.rs`: start and accept loop |
| `Cluster` | `src/redis_client.rs`, `src/bigquery.rs`, the publish handler as they see it, start and crash of brokers |
| `PubSubProofs`, `BrokerProofs`, `RefinementProofs`, `FramingProofs`, `EventLoopProofs`, `ClusterProofs`, `BroadcastProofs`, `OrderProofs` | theorems; the last three build on each other |
| `MCBroker`, `MCCluster`, `MCEventLoop`, `MCListener` | instances for TLC (`Framing` needs none) |

### Values
A topic name is its rank in the order in which the `BTreeMap` is iterated, because
`ReceiverFuture` serves the first receiver that is not empty. A message that was
broadcast is named by its topic and its position in the topic's log, so payloads
need no representation. A broadcast channel is this log; a `Receiver` is a cursor
into it that can read only the newest `Capacity` entries and reports `Lagged`
otherwise. Tokio does not store a message that nobody listens to; in the model it
is in the log, before the cursor of every later receiver. Two history fields,
`start` and `snap`, remember where a cursor started and which retained message was
looked up for the subscription.

### Broker
`pc[c]` says where the task of connection `c` is: `select`, writing (`write`,
`send_retained`), waiting for the mutex (`publish`, `subscribe`), in a critical
section (`sent`, `subscribed`, `send_retained`), shutting the stream down, or
without a task. The two critical sections are not atomic: sending and retaining,
and creating the receiver, looking up and writing the retained message, are steps
of their own. `todo[c]` holds the packets still to be written; a write needs the
peer (`write_to_stream`) or fails when the stream is shut or the peer is gone
(`write_failed`), which ends the task wherever it is. `EndTask` drops everything
the task owned, the guard of the mutex included; this is how `?` and panics behave.
`PeerGone` may happen at any moment. A read is one decoded packet, or something
that does not decode. Time is not represented: a timer of `select!` may fire
whenever its branch is enabled. Both abstractions are looked into by modules of
their own, `Framing` and `EventLoop`.

### EventLoop
One connection and one second as the unit of time. `turn` counts the seconds since
`select!` was entered: both sleeps are created anew then, so it serves both timers.
A second may pass in `select!` only when no branch is ready: `ReceiverFuture` wakes
itself, so the task is polled all the time. A body (`handling`, `writing`, `timeout`)
may take any number of seconds, waiting for the mutex (`body_done`) or for a write to the
peer (`write_done`), which nothing bounds. Packets are reduced to what the loop sees of
them. The domain of `backlog` is the set of subscribed topics, which SUBSCRIBE and
UNSUBSCRIBE change; it counts the unread messages of each receiver up to an overrun.
`outgoing` holds the retry counters. `silence` and `late` are
history: what the peer did, independent of when the broker got to read it. The timer
is computed in 16 bits, as in the code.

### Framing
A packet is a number, its bytes are numbered from 1, and the socket (`pipe`) is a
sequence of bytes. A read takes any prefix that fits the buffer. If the bytes start
with a whole packet it is handled; if the header was read and asks for more than the
buffer holds, or the bytes do not decode, the task ends; a packet that was cut, also
inside its header of `HeaderSize` bytes, may decode, from the zeros that fill the buffer,
into something that was not sent (`Garbled`). The
rest of the buffer is dropped in all cases. `aligned` remembers whether all reads so far
ended where a packet ends.

### Listener
`boot` walks through the steps of `main_loop` that can fail, in their order; a socket
collects peers from the moment it is bound. The accept loop takes the head of a
queue, from both sockets or only from the TCP one; with the feature `secure` it
then waits in `accepting` for the handshake, which ends well only if the peer is
still there. Peers leave and come back in their slot. The feature is a constant, the
setting `websocket` a variable that never changes, so one run covers both loops.

### Cluster
The mutex and the publish handler appear again, with the atomic effect of
`Topics::publish` that `Broker` is shown to have, together with the bounded queue to
the Redis client, the client task, the subscribing task, and Redis itself:
`store` (the keys) and `wire` (what was pushed to each subscribed connection). With
`Logging` the handler goes on to write the PUBACK and to insert a row into BigQuery
(`rows`), each of which may fail.
Each message received ends the connection that carried it, with everything still
in it, as `receive_from_redis` does. With `Faulty` every command and every
connection may fail, and something that is no `RedisMessage` may come in on the channel:
`handle_message` then ends the Redis client for good (`client_panics`), and every handler
that has a message for it panics (`send_panics`). `crash` ends a broker at any step. The
messages carry, as a history field, the task that published them. A broker's `sender_id` is its
name: a restart draws a new one in the code, but nothing its former self published
can reach it, since the old connection died with the process.

## 3. Properties and runs

| Run | Checks | Shows | Instance |
|---|---|---|---|
| `fanout` | `MutexOK`, `RetainedIsNewest`, `SnapshotMeetsStream`, `ImplementsPubSub` | the interleaved tasks implement the abstract broker; the mutex is exclusive and never leaked, also by a will that panics its task | 2 clients that both publish and subscribe, 3 messages, capacity 1 |
| `session` | `TypeOK`, `RetryWithinExpiry`, `ImplementsPubSub` | a message whose expiry interval is n > 0 is retransmitted at most n - 1 times (counted in turns of the retry timer, which starts anew on every turn of the loop, so not in wall-clock time); nothing of the kind is said of interval 0, see section 5; the refinement with two topics per SUBSCRIBE and wills from DISCONNECT and from the timer | 1 client, subscribed to what it publishes; expiry 2, 0 and absent; counters modulo 4; 2 messages per topic |
| `progress` | `HandlersComplete`, `StallIsContained` | every handler is left again if peers read; a stalled peer hangs others only while it is sent a retained message | 2 clients, 2 messages |
| `eventloop` | `LoopTypeOK`, `KeepAliveHonoured`, `SilentPeerTimesOut`, `TopicServed` | no peer that keeps to the announced interval is timed out; a silent one that reads is; a topic is starved only by those before it | 2 topics that are subscribed to and left, 2 outstanding messages with counters 0, 1, 2, timeout 2 |
| `framing` | `AlignedInOrder`, `FrontHandled` | packets are handled in order and at most once until one is cut; the first of a read is handled | packets of 2, 3 and 5 bytes with a header of 2, buffer of 4, 4 packets |
| `listener` | `AcceptContained` | only a handshake that never ends keeps others from being accepted | 3 peers, 2 sockets |
| `sync` | `ClusterTypeOK`, `BroadcastAtMostOnce`, `LoadFindsNoTopic`, `LoggedOnce`, `RetainedMovesForward` | no broker broadcasts a message twice, none is logged twice, loading meets no existing topic; on a topic with one publishing connection no retained message is replaced by an older one | 2 brokers with 2 publishing tasks each, faults, panics, 2 crashes, 2 retained messages |
| `backpressure` | `BackpressureDrains`, `SavedIsNewest` | no deadlock between the full queue and the mutex; the key in Redis catches up with the newest message of a connection, in order | 2 publishing brokers, queues of 1, 3 messages |
| `will_qos1` | `NoPanic` (violated) | finding 1 | 1 client |
| `packet_ids` | `InFlightIdsUnique` (violated) | finding 2 | 2 clients |
| `gaps` | `NoGaps` (violated) | finding 3 | 2 brokers, no faults |
| `framing_lost` | `EveryPacketHandled` (violated) | finding 4 | as `framing` |

**Bounds.** `MaxLog` and `MaxHistory` limit the messages (per topic, per cluster);
connections, packets other than PUBLISH, retransmissions and disconnections are
unlimited. Two clients suffice for every pair of handlers to race, and a client can
be publisher and subscriber at once. Three messages with capacity 1 let a receiver
lag, continue and lag again. Three messages in the cluster are the least that
show a gap between two received ones; two are enough for a message to overtake another.
`CounterMax` stands for `u32::MAX`: three, above every expiry interval of the runs,
tells a wrapped counter from an ordinary one. It also makes the wrap cheap: what the model
of `EventLoop` sees as three more retries are 2^32 - 1 in the code, each of which starts the
keep-alive timer anew, so for a peer with a message of interval 0 the timeout that
`SilentPeerTimesOut` promises is more than a century away. `U16Max` is the least that leaves room for
`timeout + 2`. The retry list belongs to one task and no other task touches it, so
`session` has one client. A buffer of four bytes holds two packets, or parts of
two, and packets of five bytes are longer than it. Two tasks on a broker, as in `sync`, are
the least for handlers to overtake each other between mutex and queue; its messages are
all retained, the others only do less (no SET, nothing retained) and are in `gaps`. `SYMMETRY` is used on clients, brokers and the tasks
of a broker in safety runs only. The broker's runs check for deadlock: a peer can
always connect again. `Cluster` rests when all messages are out, a connection of
`EventLoop` and `Framing` when it is closed, `Listener` when the start has failed, so
these runs do not.

**Fairness.** `FairSpec` assumes that a runnable task takes its next step (weak
fairness: the tokio scheduler), that a write to a peer that has gone fails, and that the
mutex is granted to every waiter (strong fairness: tokio's mutex queues its waiters in
order). No peer is assumed to send or to read anything, and no timer to fire: that a peer
reads (`PeerReads`) is a hypothesis of the two properties, of all peers in
`HandlersComplete` and of one in `StallIsContained`. `FairLoop` lets time pass, lets
writes to a closed stream fail, and takes a branch that is ready again and again, because
`select!` polls its branches in random order. That bodies end is not part of it: it is a
hypothesis of `SilentPeerTimesOut` and `TopicServed` that the mutex is granted
(`MutexGranted`, which `HandlersComplete` justifies) and that the peer reads
(`PeerReads`). Without the second both fail: `write_all` has no timeout, so a peer that
neither sends nor reads is never given up. `FairListener` assumes the same of the two sockets, and
that the handshake with a peer that has left fails, and that accept errors which leave the
connection in the queue (no descriptors left) come to an end; a peer that stays may let its
handshake hang, and `AcceptContained` says that this is the only thing that hurts
others. `FairFraming` reads what has arrived. `FairCluster` assumes that Redis answers
eventually (`get_connection` retries every second) and that mpsc channels and the mutex
let their waiters in in turn.

## 4. Proofs

The constants are arbitrary sets of clients, topics, packets, wills and filter
lists, with the assumptions `TopicAssumption`, `CapacityAssumption`,
`ReceiverAssumption` and `BrokerAssumption`: names are distinct
from `None`, PUBLISH packets have an identifier when their QoS needs one, wills have
none, and counters fit in `CounterMax`. All are evaluated by TLC in the runs. The
other modules have `FramingAssumption` (positive sizes), `LoopAssumption` (the timeout
leaves room for two seconds in its width) and `ClusterAssumption`.

* `PubSubSafety` (`PubSubProofs`): the abstract broker, with constants that are `Legal`,
  keeps `TypeOK`,
  `RetainedIsNewest` and `SnapshotMeetsStream`. The conjunction is inductive; the lemma
  `NewestIsStable` says that a broadcast does not change which of the earlier
  messages was the newest retained one.
* `BrokerTypeOK`, `BrokerMutexOK` (`BrokerProofs`): both are parts of the inductive
  invariant `IInv`, whose other parts are needed for the step: `LogOK` (only packets
  of peers are broadcast), `ChannelsOK` (a topic that has no channel has no history, so
  creating the channel loses nothing), `PublishOK` (after the send, the packet is the
  last of the log until the lock is released: this is where mutual exclusion is used)
  and `SubscribeOK` (a subscription in progress has its filter and receiver).
* `BrokerImplementsPubSub` (`RefinementProofs`): a publish takes effect when it sends,
  so the abstract retained message of a topic whose publish is in progress is already the new
  one (`RetainedBar`); a subscription takes effect when its receiver is created, so
  its snapshot is already the one that will be looked up (`ReceiversBar`). Every
  other step is a stutter, an unsubscription (UNSUBSCRIBE, or the end of the task)
  or a delivery. One lemma per kind of step.
* `BrokerRetainedIsNewest`, `BrokerSnapshotMeetsStream` (`RefinementProofs`): the safety
  of the abstract broker holds of the tasks, by instantiating `PubSubSafety` under the
  mapping (`AbstractSafety`). Where no publish is in its critical section, and for a
  subscription whose snapshot has been looked up, mapped and concrete state agree.
* `BrokerRetryWithinExpiry` (`BrokerProofs`): every outstanding message names a
  broadcast of its topic (`InFlightOK`), which keeps its place in the log (`LogGrows`), so
  the interval its counter started at stays the same. From an interval other than zero a
  counter only comes down, and the entry is removed in the turn in which it becomes
  zero (`TickStaysWithin`): the wrap below zero is reached only by messages whose
  interval is zero, about which the property says nothing.
* `FramingInOrder` (`FramingProofs`): `AlignedInOrder` for every buffer size, all
  packet lengths and every way TCP cuts the stream. The inductive invariant adds that
  the bytes in the socket lie in order (`InOrder`), that behind a byte follows the whole
  rest of its packet (`Contiguous`), and that an uncut socket starts at a packet and
  holds only packets later than those handled (`Boundary`). The lemma `WholePacketRead`
  is the core: a read that ends at a packet boundary has read the first packet whole, so
  it decodes, and what is left is later.
* `KeepAliveIsHonoured` (`EventLoopProofs`): `KeepAliveHonoured` for every timeout, with the
  invariant `TimerBehindPeer`: until the peer was late, `select!` has waited no longer
  than the peer was silent, or something has arrived and it waits no more. `NoWrap`
  is where the width of the timeout matters. `LoopTypes` is the type invariant, inductive as
  it stands; a retry leaves a counter of 32 bits or an empty slot (`RetriedType`).
* `ClusterLoads` and `ClusterLogsOnce` (`ClusterProofs`): `LoadFindsNoTopic` because a
  broker that does not serve yet has broadcast nothing, handles nothing, and has none
  of the messages it is still to read (`NothingBeforeServe`); `LoggedOnce` because the
  message a busy handler has in hand is in no other hand (`OneHand`) and in no row
  (`InHand`).
* `ClusterTypes` (`ClusterProofs`): `ClusterTypeOK` bounds messages by `MaxHistory`; the
  inductive invariant `TypeInv` says more, that every message in a queue, on a
  connection, in an inbox, in the hand of a task, in a log or a row has been published
  (`Known`), that a busy task holds one, and that a connection that has received something
  is not empty.
* `ClusterBroadcastsOnce` (`BroadcastProofs`): the invariant `OnceInv` follows a message
  through the cluster. At its publisher it is in one handler's hand or once in the queue
  (`HeldOnce`); as long as it waits there, no other broker has it, neither on its connection nor
  in its inbox, its client or its log (`NotSentYet`). At a receiver it is in one place
  on its way in, and not broadcast yet unless it is an echo, which the client drops
  (`NotBroadcastYet`). `NoCopies` says that no channel holds a message twice. `QueueMoves`, `RedisMoves`,
  `InboxMoves`, `MessageMoves`, `ConnectionMoves` and `PublishMoves` state what each step
  does to these places; TLC checked `OnceInv` with two tasks per broker first.
* `ClusterRetainedMovesForward` (`OrderProofs`): a topic with one publisher is one whose
  messages all come from one connection task of one broker; the broker may have any number of
  other tasks, which queue when they like. On such a topic, what has left the publisher
  (saved, on a connection, in an inbox, in a client, retained elsewhere) is older than what
  waits there (`Behind`), the queue is ascending and behind it is the handler
  (`QueuedInOrder`), and what comes in is ascending and newer than what is retained
  (`ReceivedInOrder`). That a message saved in Redis is older than those still to come makes
  the keys read at a start harmless; that a broker which does not serve is not subscribed
  (`Silent`) keeps them from overwriting something newer. The mutex is released before the
  message is queued, so the order of the queue cannot rest on it: it rests on `OwnHand`, that the
  message in a handler's hand is one of that task, and on a task handling a packet to its end
  before it reads the next. Nothing is assumed of the order in which handlers queue.
  Reconnections, lost commands, panics, crashes and restarts are covered.
* `ClusterSavesNewest` (`OrderProofs`): `SavedIsNewest`, by the invariant that a retained
  message newer than the key is still on its way to it (`UpToDate`) together with the order
  above: what is saved is the oldest message under way (`NewerSaved`), so every newer
  one still is. Without faults and crashes only, since a lost command or a crash loses
  messages for good.

Only model-checked: the liveness properties (`HandlersComplete`, `StallIsContained`,
`SilentPeerTimesOut`, `TopicServed`, `FrontHandled`, `AcceptContained`,
`BackpressureDrains`): fairness and `ENABLED` are out of the prover's reach.

## 5. Where code and documentation disagree

1. *A will with QoS 1 panics its task.* `publish_will` sends a packet without
   identifier through `handle_publish_packet`, which unwraps the identifier
   (`src/tcp_handling.rs:220`) after the broadcast. The mutex has been released and
   only the connection suffers (`fanout` checks that).
2. *Identifiers are not the subscriber's own.* A QoS 1 message is forwarded under the
   identifier of its publisher; two publishers' messages can be in flight under
   one identifier, and one PUBACK ends the retransmission of both
   (`src/tcp_handling.rs:144`, `:239`).
3. *Gaps between brokers.* `receive_from_redis` subscribes anew for each message;
   what is published meanwhile never reaches the broker (`src/redis_client.rs:141`).
4. *Packets that share a read are dropped.* `handle_packet` decodes the first packet of
   the buffer; the others, although they arrived whole, are never handled
   (`src/tcp_handling.rs:329`). `framing` shows what is left: order, no duplicates, and
   no loss for a peer that sends its next packet only after the last one was read.

Two more things that the properties step around on purpose:

* *The older message is saved.* A message is queued for Redis after the mutex of the
  topics was released (`src/tcp_handling.rs:207-213`). When two connections of one broker
  publish retained messages on one topic, they may queue in the other order; the other
  brokers then go back to the older one, and it stays in the key that brokers load at
  their start. This is why `OnePublisher` compares tasks: if it compares brokers only,
  `sync` finds `RetainedMovesForward` violated.
* *Expiry interval 0 wraps.* The counter of a QoS 1 message is decremented before it is
  compared with 0 (`src/tcp_handling.rs:164`): a message that has expired when it is
  forwarded is retransmitted up to 2^32 - 1 times, until it is acknowledged; the debug
  profile panics. Without its hypothesis `RetryWithinExpiry` is violated in `session`.

## 6. Not modelled

* Encodings: the bytes of packets, properties, TLS records. What `decode_mqtt` makes of a
  packet that was cut is left open (`Garbled`).
* Durations other than the two timers of `select!`; the retain flag, QoS and expiry of
  copies made for Redis.
* A timeout above 65533, for which `timeout + 2` wraps (excluded by `LoopAssumption`);
  the debug profile, where arithmetic panics instead of wrapping.
* How often a message without expiry interval is retransmitted (never, since its counter
  starts at 1), and what a starting broker misses between reading the keys and its first
  subscription: both are in the model, but nothing says what should be.
* How often a will is published: the loop goes on after the shutdown and every further
  timeout publishes it again; neither code nor documents say that it should not.
* The parsing of `config.toml`, error conversions, the feature `tokio_console`.
* Examples, fuzz targets, deployment files: not part of the broker.

## 7. Plan

Done: all modules of section 2, with the refinement and the proofs of section 4. What is
left:

1. Topics with several publishers: `RetainedMovesForward` and `SavedIsNewest` are stated for
   one publishing connection, since for more they fail (section 5); what a code that queues in
   the order of publication would give is not stated.
2. Proofs: the safety part of the liveness arguments that stay with TLC, for instance that
   the client of Redis never waits for a mutex whose holder waits for the queue, and that the
   front of the socket stays there until it is read.
