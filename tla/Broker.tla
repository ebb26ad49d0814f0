------------------------------- MODULE Broker -------------------------------
(***************************************************************************)
(* src/tcp_handling.rs: one task per connection, running the select! loop  *)
(* of handle_raw_tcp_stream and the packet handlers, all sharing Topics    *)
(* behind one tokio mutex.  Default features (no redis, no bq_logging).    *)
(*                                                                         *)
(* A step is what a task does between two awaits or, inside a critical     *)
(* section, one access to the shared Topics.                               *)
(***************************************************************************)
EXTENDS Topics, FiniteSets

CONSTANTS
  Client,         \* connection slots; a slot is reused after its connection ended
  Publishes,      \* the PUBLISH packets peers may send
  Wills,          \* the wills peers may put in a CONNECT
  Subscriptions,  \* the filter lists of SUBSCRIBE and UNSUBSCRIBE packets
  PacketIds,      \* the identifiers peers may acknowledge
  CounterMax,     \* u32::MAX, the largest value of a retry counter
  MaxLog          \* bound: messages broadcast per topic

ASSUME BrokerAssumption ==
  /\ None \notin Client
  /\ Publishes \subseteq {p \in Packet : Decoded(p)}
  /\ Wills \subseteq {w \in Packet : FromWill(w)}
  /\ \A p \in Publishes \cup Wills : p.expiry # None => p.expiry <= CounterMax
  /\ Subscriptions \subseteq Seq(Filter)
  /\ PacketIds \subseteq Nat
  /\ CounterMax \in Nat \ {0}
  /\ MaxLog \in Nat

VARIABLES
  lock,               \* the task that holds the mutex around Topics, or None
  pc,                 \* pc[c]: where the task of c is
  job,                \* job[c]: the arguments of the handler it is in
  todo,               \* todo[c]: packets it still has to write to the stream
  stream,             \* stream[c]: open, shut (write half) or gone (peer or task)
  receivers,          \* Client::receivers
  will,               \* Client::will
  outgoing_messages   \* Client::outgoing_messages

vars == <<names, log, retained, lock, pc, job, todo, stream,
          receivers, will, outgoing_messages>>
session == <<receivers, will, outgoing_messages>>

PC == {"closed", "panicked",            \* no task
       "select", "write", "shutdown",   \* the loop, its writes, stream.shutdown()
       "publish", "sent",               \* handle_publish_packet: awaits, holds the lock
       "subscribe", "subscribed", "send_retained"}
Critical == {"sent", "subscribed", "send_retained"}

\* after: where handle_publish_packet returns to; at: the position the packet got.
Job == [packet: Packet \cup {None}, after: {"write", "shutdown", "closed"},
        at: Nat, filters: Seq(Filter)]
NoJob == [packet |-> None, after |-> "write", at |-> 0, filters |-> <<>>]

\* Packets to the peer: a PUBLISH names its message, the others only their type.
Wire == [type: {"PUBLISH", "PUBACK", "CONNACK", "PINGRESP", "SUBACK", "UNSUBACK"},
         topic: Topic \cup {None}, at: Nat]
Ack(ty) == [type |-> ty, topic |-> None, at |-> 0]
Pub(t, k) == [type |-> "PUBLISH", topic |-> t, at |-> k]

OutgoingMessage == [topic: Topic, at: Nat, counter: 0..CounterMax]
PacketOf(e) == log[e.topic][e.at]

NoReceivers == [t \in Topic |-> None]

Init ==
  /\ TopicsInit
  /\ lock = None
  /\ pc = [c \in Client |-> "closed"]
  /\ job = [c \in Client |-> NoJob]
  /\ todo = [c \in Client |-> {}]
  /\ stream = [c \in Client |-> "gone"]
  /\ receivers = [c \in Client |-> NoReceivers]
  /\ will = [c \in Client |-> None]
  /\ outgoing_messages = [c \in Client |-> {}]
-----------------------------------------------------------------------------
(* Tasks begin and end. *)

Goto(c, to) == pc' = [pc EXCEPT ![c] = to]

\* handle_new_connection spawns a task with a new Client.
Client_new(c) ==
  /\ pc[c] \in {"closed", "panicked"}
  /\ Goto(c, "select")
  /\ stream' = [stream EXCEPT ![c] = "open"]
  /\ UNCHANGED <<topicsVars, lock, job, todo, session>>

\* Mutant: the guard of the mutex survives its task.
LeakGuard(c) == lock

\* The mutex guard, if the task has it, is dropped with the task.
DropGuard(c) == IF lock = c THEN None ELSE lock

\* The task ends, by returning or by panicking: everything it owns is dropped.
EndTask(c, how) ==
  /\ Goto(c, how)
  /\ lock' = DropGuard(c)
  /\ job' = [job EXCEPT ![c] = NoJob]
  /\ todo' = [todo EXCEPT ![c] = {}]
  /\ stream' = [stream EXCEPT ![c] = "gone"]
  /\ receivers' = [receivers EXCEPT ![c] = NoReceivers]
  /\ will' = [will EXCEPT ![c] = None]
  /\ outgoing_messages' = [outgoing_messages EXCEPT ![c] = {}]

\* External: the peer closes the connection or the network breaks it.
PeerGone(c) ==
  /\ stream[c] # "gone"
  /\ stream' = [stream EXCEPT ![c] = "gone"]
  /\ UNCHANGED <<topicsVars, lock, pc, job, todo, session>>
-----------------------------------------------------------------------------
(* Writing to the stream.  A write waits for the peer, so it may take any  *)
(* time; it fails once the stream is shut or gone.                         *)

Reply(c, packets) ==
  /\ Goto(c, "write")
  /\ todo' = [todo EXCEPT ![c] = packets]

Writing(c) == pc[c] \in {"write", "send_retained"} /\ todo[c] # {}

write_to_stream(c) ==
  /\ Writing(c) /\ stream[c] = "open"
  /\ \E w \in todo[c] : todo' = [todo EXCEPT ![c] = @ \ {w}]
  /\ UNCHANGED <<topicsVars, lock, pc, job, stream, session>>

\* CouldNotWriteToStream propagates out of handle_raw_tcp_stream.
write_failed(c) ==
  /\ Writing(c) /\ stream[c] # "open"
  /\ EndTask(c, "closed")
  /\ UNCHANGED topicsVars

\* The branch of select! is done and the loop starts over.
loop(c) ==
  /\ pc[c] = "write" /\ todo[c] = {}
  /\ Goto(c, "select")
  /\ job' = [job EXCEPT ![c] = NoJob]
  /\ UNCHANGED <<topicsVars, lock, todo, stream, session>>
-----------------------------------------------------------------------------
(* First branch of select!: a packet from the peer. *)

Reads(c) == pc[c] = "select" /\ stream[c] # "gone"

\* Ok(0) or an error from the stream: the task returns, no will is published.
disconnected(c) ==
  /\ pc[c] = "select" /\ stream[c] = "gone"
  /\ EndTask(c, "closed")
  /\ UNCHANGED topicsVars

\* A packet that does not decode, or of a type handle_packet does not know.
handle_unknown_packet(c) ==
  /\ Reads(c)
  /\ EndTask(c, "closed")
  /\ UNCHANGED topicsVars

handle_connect_packet(c) ==
  /\ Reads(c)
  /\ \E w \in Wills \cup {None} :
       will' = IF w # None THEN [will EXCEPT ![c] = w] ELSE will
  /\ Reply(c, {Ack("CONNACK")})
  /\ UNCHANGED <<topicsVars, lock, job, stream, receivers, outgoing_messages>>

handle_pingreq_packet(c) ==
  /\ Reads(c)
  /\ Reply(c, {Ack("PINGRESP")})
  /\ UNCHANGED <<topicsVars, lock, job, stream, session>>

\* Messages broadcast on t, or about to be.
Load(t) == Len(log[t]) + Cardinality({c \in Client : pc[c] = "publish" /\ job[c].packet.topic = t})

\* handle_publish_packet up to its lock().await, for a PUBLISH or a will.
AwaitPublish(c, p, after) ==
  /\ Load(p.topic) < MaxLog
  /\ Goto(c, "publish")
  /\ job' = [job EXCEPT ![c] = [packet |-> p, after |-> after, at |-> 0, filters |-> <<>>]]
  /\ UNCHANGED <<topicsVars, lock, todo, stream, session>>

receive_publish(c) ==
  /\ Reads(c)
  /\ \E p \in Publishes : AwaitPublish(c, p, "write")

\* Mutant: a publish waits until what the other tasks are writing has been read.
topics_send_waits(c) ==
  /\ pc[c] = "publish" /\ lock = None
  /\ \A d \in Client : ~Writing(d)
  /\ send_message(job[c].packet)
  /\ lock' = c
  /\ job' = [job EXCEPT ![c].at = Len(Channel(job[c].packet.topic)) + 1]
  /\ Goto(c, "sent")
  /\ UNCHANGED <<todo, stream, session>>

\* Topics::publish takes the lock and sends on the channel ...
topics_send(c) ==
  /\ pc[c] = "publish" /\ lock = None
  /\ send_message(job[c].packet)
  /\ lock' = c
  /\ job' = [job EXCEPT ![c].at = Len(Channel(job[c].packet.topic)) + 1]
  /\ Goto(c, "sent")
  /\ UNCHANGED <<todo, stream, session>>

\* match packet.qos: only AtLeastOnce is acknowledged.
Acknowledges(p) == p.qos = 1

\* ... and stores the retained message and releases the lock.  The handler goes on to the
\* acknowledgement and returns to its caller: the loop, the timeout branch, which shuts
\* the stream down, or the handler of DISCONNECT, which ends the task.
topics_retain(c) ==
  LET p == job[c].packet
      acked == Acknowledges(p)
  IN
  /\ pc[c] = "sent"
  /\ retain_message(p, job[c].at)
  /\ \/ /\ ~(acked /\ p.packet_id = None) /\ job[c].after # "closed"
        /\ lock' = None
        /\ Goto(c, job[c].after)
        /\ todo' = [todo EXCEPT ![c] =
                      IF acked THEN {[type |-> "PUBACK", topic |-> p.topic, at |-> job[c].at]}
                      ELSE {}]
        /\ UNCHANGED <<job, stream, session>>
     \/ /\ ~(acked /\ p.packet_id = None) /\ job[c].after = "closed"
        /\ EndTask(c, "closed")
     \/ /\ acked /\ p.packet_id = None    \* packet.packet_id.unwrap()
        /\ EndTask(c, "panicked")

\* PUBACK: whatever is outstanding under the identifier is forgotten.
handle_publishack_packet(c) ==
  /\ Reads(c)
  /\ \E id \in PacketIds :
       outgoing_messages' = [outgoing_messages EXCEPT ![c] =
                               {e \in @ : PacketOf(e).packet_id # id}]
  /\ Reply(c, {})
  /\ UNCHANGED <<topicsVars, lock, job, stream, receivers, will>>

\* DISCONNECT: with or without the request to publish the will.
handle_disconnect_packet(c) ==
  /\ Reads(c)
  /\ \/ EndTask(c, "closed") /\ UNCHANGED topicsVars
     \/ will[c] # None /\ AwaitPublish(c, will[c], "closed")
-----------------------------------------------------------------------------
(* SUBSCRIBE and UNSUBSCRIBE. *)

handle_subscribe_packet(c) ==
  /\ Reads(c)
  /\ \E fs \in Subscriptions : job' = [job EXCEPT ![c].filters = fs]
  /\ Goto(c, "subscribe")
  /\ UNCHANGED <<topicsVars, lock, todo, stream, session>>

NextFilter(c) == Head(job[c].filters)

\* Mutant: the lock is released as soon as the receiver exists.
subscribe_unlocked(c) ==
  /\ pc[c] = "subscribe" /\ job[c].filters # <<>> /\ NextFilter(c).kind = "concrete"
  /\ lock = None
  /\ subscribe(NextFilter(c).topic)
  /\ receivers' = [receivers EXCEPT ![c][NextFilter(c).topic] = new_receiver(NextFilter(c).topic)]
  /\ Goto(c, "subscribed")
  /\ UNCHANGED <<lock, job, todo, stream, will, outgoing_messages>>

\* A concrete filter: with the lock, a receiver replaces the one the client may have.
subscribe_filter(c) ==
  /\ pc[c] = "subscribe" /\ job[c].filters # <<>> /\ NextFilter(c).kind = "concrete"
  /\ lock = None
  /\ lock' = c
  /\ subscribe(NextFilter(c).topic)
  /\ receivers' = [receivers EXCEPT ![c][NextFilter(c).topic] = new_receiver(NextFilter(c).topic)]
  /\ Goto(c, "subscribed")
  /\ UNCHANGED <<job, todo, stream, will, outgoing_messages>>

\* Still with the lock, the retained message is looked up; it is written with the lock held.
read_retained(c) ==
  LET t == NextFilter(c).topic
      k == get_retained_message(t)
  IN
  /\ pc[c] = "subscribed"
  /\ receivers' = [receivers EXCEPT ![c][t].snap = k]
  /\ todo' = [todo EXCEPT ![c] = IF k = 0 THEN {} ELSE {Pub(t, k)}]
  /\ Goto(c, "send_retained")
  /\ UNCHANGED <<topicsVars, lock, job, stream, will, outgoing_messages>>

\* Mutant: the loop over the filters does not advance.
unlock_same_filter(c) ==
  /\ pc[c] = "send_retained" /\ todo[c] = {}
  /\ lock' = None
  /\ Goto(c, "subscribe")
  /\ UNCHANGED <<topicsVars, job, todo, stream, session>>

unlock_topics(c) ==
  /\ pc[c] = "send_retained" /\ todo[c] = {}
  /\ lock' = None
  /\ job' = [job EXCEPT ![c].filters = Tail(@)]
  /\ Goto(c, "subscribe")
  /\ UNCHANGED <<topicsVars, todo, stream, session>>

\* Wildcard and shared filters are only refused in the SUBACK.
refuse_filter(c) ==
  /\ pc[c] = "subscribe" /\ job[c].filters # <<>> /\ NextFilter(c).kind # "concrete"
  /\ job' = [job EXCEPT ![c].filters = Tail(@)]
  /\ UNCHANGED <<topicsVars, lock, pc, todo, stream, session>>

send_suback(c) ==
  /\ pc[c] = "subscribe" /\ job[c].filters = <<>>
  /\ Reply(c, {Ack("SUBACK")})
  /\ UNCHANGED <<topicsVars, lock, job, stream, session>>

Concrete(fs) == {f.topic : f \in {fs[i] : i \in {j \in DOMAIN fs : fs[j].kind = "concrete"}}}

handle_unsubscribe_packet(c) ==
  /\ Reads(c)
  /\ \E fs \in Subscriptions :
       receivers' = [receivers EXCEPT ![c] =
                       [t \in Topic |-> IF t \in Concrete(fs) THEN None ELSE @[t]]]
  /\ Reply(c, {Ack("UNSUBACK")})
  /\ UNCHANGED <<topicsVars, lock, job, stream, will, outgoing_messages>>
-----------------------------------------------------------------------------
(* The other branches of select!. *)

\* ReceiverFuture: the receivers that are not empty; the first one is served.
Ready(c) == {t \in Topic : receivers[c][t] # None /\ receivers[c][t].next < Len(log[t])}

\* Expiry counter of a forwarded message: unwrap_or(MessageExpiryInterval(1)).
Expiry(p) == IF p.expiry = None THEN 1 ELSE p.expiry

\* A message from a subscribed topic, or the report that some were lost.
receive_message(c) ==
  /\ pc[c] = "select"
  /\ \E t \in Ready(c) :
       LET n == receivers[c][t].next
           p == log[t][n + 1]
       IN
       /\ \A u \in Ready(c) : t <= u
       /\ receivers' = [receivers EXCEPT ![c][t].next = recv(t, n)]
       /\ Reply(c, IF Lagged(t, n) THEN {} ELSE {Pub(t, n + 1)})
       /\ outgoing_messages' =
            IF Lagged(t, n) \/ p.qos # 1 THEN outgoing_messages
            ELSE [outgoing_messages EXCEPT ![c] =
                    @ \cup {[topic |-> t, at |-> n + 1, counter |-> Expiry(p)]}]
  /\ UNCHANGED <<topicsVars, lock, job, stream, will>>

\* Mutant: the counter goes below zero.
TickSigned(e) == [e EXCEPT !.counter = @ - 1]

\* Mutant: an expired message starts over.
RetryForever(e) == [e EXCEPT !.counter = IF @ <= 1 THEN CounterMax ELSE @ - 1]

\* counter.0 -= 1 on a u32; the release profile wraps.
Tick(e) == [e EXCEPT !.counter = IF @ = 0 THEN CounterMax ELSE @ - 1]

\* Time is not represented: a timer of select! may fire whenever its branch is enabled.
\* One second without another event: what is not acknowledged is sent again, what has
\* expired is dropped.
retry_outgoing(c) ==
  LET ticked == {Tick(e) : e \in outgoing_messages[c]}
      alive == {e \in ticked : e.counter # 0}
  IN
  /\ pc[c] = "select" /\ outgoing_messages[c] # {}
  /\ outgoing_messages' = [outgoing_messages EXCEPT ![c] = alive]
  /\ Reply(c, {Pub(e.topic, e.at) : e \in alive})
  /\ UNCHANGED <<topicsVars, lock, job, stream, receivers, will>>

\* timeout + 2 seconds without another event: the will is published, then the stream shut.
keep_alive_expired(c) ==
  /\ pc[c] = "select"
  /\ \/ /\ will[c] = None
        /\ Goto(c, "shutdown")
        /\ UNCHANGED <<topicsVars, lock, job, todo, stream, session>>
     \/ /\ will[c] # None
        /\ AwaitPublish(c, will[c], "shutdown")

\* stream.shutdown(): the write half is closed, the task goes on reading.
shutdown_stream(c) ==
  /\ pc[c] = "shutdown"
  /\ Reply(c, {})
  /\ stream' = [stream EXCEPT ![c] = IF @ = "open" THEN "shut" ELSE @]
  /\ UNCHANGED <<topicsVars, lock, job, session>>

shutdown_failed(c) ==
  /\ pc[c] = "shutdown" /\ stream[c] = "gone"
  /\ EndTask(c, "closed")
  /\ UNCHANGED topicsVars
-----------------------------------------------------------------------------
ReadPacket(c) ==
  \/ handle_connect_packet(c) \/ handle_pingreq_packet(c) \/ receive_publish(c)
  \/ handle_publishack_packet(c) \/ handle_subscribe_packet(c)
  \/ handle_unsubscribe_packet(c) \/ handle_disconnect_packet(c)
  \/ handle_unknown_packet(c)

Next == \E c \in Client :
  \/ Client_new(c) \/ PeerGone(c)
  \/ ReadPacket(c) \/ disconnected(c)
  \/ receive_message(c) \/ retry_outgoing(c) \/ keep_alive_expired(c)
  \/ topics_send(c) \/ topics_retain(c)
  \/ subscribe_filter(c) \/ read_retained(c) \/ unlock_topics(c)
  \/ refuse_filter(c) \/ send_suback(c)
  \/ write_to_stream(c) \/ write_failed(c) \/ loop(c)
  \/ shutdown_stream(c) \/ shutdown_failed(c)

Spec == Init /\ [][Next]_vars
=============================================================================
