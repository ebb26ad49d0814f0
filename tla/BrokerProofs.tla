---------------------------- MODULE BrokerProofs ----------------------------
(***************************************************************************)
(* The inductive invariant of Broker and the bound on retransmissions, for *)
(* every set of clients, topics and packets and every bound.               *)
(***************************************************************************)
EXTENDS BrokerCorrectness, TLAPS

\* Only packets that a peer sent are broadcast.
LogOK == log \in [Topic -> Seq(Publishes \cup Wills)]

\* A topic without a channel has no history.
ChannelsOK == \A t \in Topic \ names : log[t] = <<>> /\ retained[t] = 0

\* A publish in progress has its packet; after the send, it is the last of the log.
PublishOK ==
  \A c \in Client : pc[c] \in {"publish", "sent"} =>
    /\ job[c].packet \in Publishes \cup Wills
    /\ pc[c] = "sent" => /\ job[c].packet.topic \in names
                         /\ job[c].at = Len(log[job[c].packet.topic])

\* A subscribe in progress has its filter and its receiver.
SubscribeOK ==
  \A c \in Client : pc[c] \in {"subscribed", "send_retained"} =>
    /\ job[c].filters # <<>>
    /\ receivers[c][NextFilter(c).topic] # None

IInv == TypeOK /\ MutexOK /\ LogOK /\ ChannelsOK /\ PublishOK /\ SubscribeOK
-----------------------------------------------------------------------------
(* Types. *)

\* Every packet the broker handles is a Packet on a known topic.
LEMMA Packets ==
  ASSUME NEW p \in Publishes \cup Wills
  PROVE  /\ p \in Packet /\ p.topic \in Topic
         /\ Expiry(p) \in 0..CounterMax
<1>1. p \in Packet
  BY BrokerAssumption
<1>2. p.topic \in Topic /\ (p.expiry = None \/ p.expiry \in Nat)
  BY <1>1 DEF Packet
<1> QED
  BY <1>1, <1>2, BrokerAssumption DEF Expiry

\* A task that ends leaves well-typed state behind.
LEMMA EndTaskType ==
  ASSUME TypeOK, NEW c \in Client, NEW how \in {"closed", "panicked"}, EndTask(c, how),
         TopicsTypeOK'
  PROVE  TypeOK'
<1>1. NoJob \in Job
  BY DEF NoJob, Job
<1>2. NoReceivers \in [Topic -> Receiver \cup {None}]
  BY DEF NoReceivers
<1> QED
  BY <1>1, <1>2 DEF TypeOK, EndTask, Goto, DropGuard, PC

\* Waiting for the lock of a publish leaves well-typed state behind.
LEMMA AwaitType ==
  ASSUME TypeOK, NEW c \in Client, NEW p \in Publishes \cup Wills,
         NEW after \in {"write", "shutdown", "closed"}, AwaitPublish(c, p, after)
  PROVE  TypeOK'
<1>0. p \in Packet
  BY Packets
<1>1. [packet |-> p, after |-> after, at |-> 0, filters |-> <<>>] \in Job
  BY <1>0 DEF Job
<1>2. job' \in [Client -> Job] /\ pc' \in [Client -> PC]
  BY <1>1 DEF TypeOK, AwaitPublish, Goto, PC
<1> QED
  BY <1>2 DEF TypeOK, AwaitPublish, TopicsTypeOK, topicsVars, session

\* What the operations of Topics leave behind.
LEMMA StoreType ==
  ASSUME TopicsTypeOK, NEW t \in Topic, NEW l \in Seq(Packet), Store(t, l)
  PROVE  TopicsTypeOK'
BY DEF TopicsTypeOK, Store, get_retained_message

LEMMA TypeStep == IInv /\ [Next]_vars => TypeOK'
<1> SUFFICES ASSUME IInv, [Next]_vars PROVE TypeOK'
  OBVIOUS
<1> USE DEF IInv
<1>1. ASSUME NEW c \in Client,
             Client_new(c) \/ PeerGone(c) \/ write_to_stream(c) \/ handle_pingreq_packet(c)
      PROVE  TypeOK'
  <2>1. CASE Client_new(c)
    BY <2>1 DEF TypeOK, TopicsTypeOK, topicsVars, session, Client_new, Goto, PC
  <2>2. CASE PeerGone(c)
    BY <2>2 DEF TypeOK, TopicsTypeOK, topicsVars, session, PeerGone
  <2>3. CASE write_to_stream(c)
    BY <2>3 DEF TypeOK, TopicsTypeOK, topicsVars, session, write_to_stream
  <2>4. CASE handle_pingreq_packet(c)
    BY <2>4 DEF TypeOK, TopicsTypeOK, topicsVars, session, handle_pingreq_packet, Goto, PC, Reply, Ack, Wire
  <2> QED
    BY <1>1, <2>1, <2>2, <2>3, <2>4
<1>2. ASSUME NEW c \in Client,
             write_failed(c) \/ disconnected(c) \/ handle_unknown_packet(c) \/ shutdown_failed(c)
      PROVE  TypeOK'
  <2>1. TopicsTypeOK' /\ EndTask(c, "closed")
    BY <1>2 DEF TypeOK, TopicsTypeOK, topicsVars, write_failed, disconnected,
       handle_unknown_packet, shutdown_failed
  <2> QED
    BY <2>1, EndTaskType
<1>3. ASSUME NEW c \in Client, loop(c) PROVE TypeOK'
  BY <1>3 DEF TypeOK, TopicsTypeOK, topicsVars, session, loop, Goto, PC, NoJob, Job
<1>4. ASSUME NEW c \in Client, handle_connect_packet(c) PROVE TypeOK'
  BY <1>4 DEF TypeOK, TopicsTypeOK, topicsVars, handle_connect_packet, Goto, PC, Reply, Ack, Wire
<1>5. ASSUME NEW c \in Client, receive_publish(c) PROVE TypeOK'
  BY <1>5, AwaitType DEF receive_publish
<1>6. ASSUME NEW c \in Client, handle_disconnect_packet(c) PROVE TypeOK'
  <2>1. CASE EndTask(c, "closed") /\ UNCHANGED topicsVars
    <3>1. TopicsTypeOK'
      BY <2>1 DEF TypeOK, TopicsTypeOK, topicsVars
    <3> QED
      BY <2>1, <3>1, EndTaskType
  <2>2. CASE will[c] # None /\ AwaitPublish(c, will[c], "closed")
    <3>1. will[c] \in Publishes \cup Wills
      BY <2>2 DEF TypeOK
    <3> QED
      BY <2>2, <3>1, AwaitType
  <2> QED
    BY <1>6, <2>1, <2>2 DEF handle_disconnect_packet
<1>7. ASSUME NEW c \in Client, keep_alive_expired(c) PROVE TypeOK'
  <2>1. CASE /\ Goto(c, "shutdown")
             /\ UNCHANGED <<topicsVars, lock, job, todo, stream, session>>
    BY <2>1 DEF TypeOK, TopicsTypeOK, topicsVars, session, Goto, PC
  <2>2. CASE will[c] # None /\ AwaitPublish(c, will[c], "shutdown")
    <3>1. will[c] \in Publishes \cup Wills
      BY <2>2 DEF TypeOK
    <3> QED
      BY <2>2, <3>1, AwaitType
  <2> QED
    BY <1>7, <2>1, <2>2 DEF keep_alive_expired
<1>8. ASSUME NEW c \in Client, topics_send(c) PROVE TypeOK'
  <2> DEFINE p == job[c].packet
  <2>1. p \in Packet /\ p.topic \in Topic
    BY <1>8, Packets DEF topics_send, PublishOK
  <2>2. Channel(p.topic) \in Seq(Packet)
    BY <2>1 DEF TypeOK, TopicsTypeOK, Channel
  <2>3. Append(Channel(p.topic), p) \in Seq(Packet) /\ Len(Channel(p.topic)) + 1 \in Nat
    BY <2>1, <2>2
  <2>4. TopicsTypeOK'
    BY <1>8, <2>1, <2>3, StoreType DEF TypeOK, topics_send, send_message
  <2>5. [job[c] EXCEPT !.at = Len(Channel(p.topic)) + 1] \in Job
    BY <2>3 DEF TypeOK, Job
  <2> QED
    BY <1>8, <2>4, <2>5 DEF TypeOK, topics_send, session, Goto, PC
<1>9. ASSUME NEW c \in Client, topics_retain(c) PROVE TypeOK'
  <2> DEFINE p == job[c].packet
  <2>1. p \in Packet /\ p.topic \in Topic /\ job[c].at \in Nat
        /\ job[c].after \in {"write", "shutdown", "closed"}
    BY <1>9, Packets DEF topics_retain, PublishOK, TypeOK, Job
  <2>2. TopicsTypeOK'
    BY <1>9, <2>1 DEF TypeOK, TopicsTypeOK, topics_retain, retain_message
  <2>3. CASE EndTask(c, "closed") \/ EndTask(c, "panicked")
    BY <2>2, <2>3, EndTaskType
  <2>4. CASE /\ job[c].after # "closed" /\ lock' = None /\ Goto(c, job[c].after)
             /\ todo' = [todo EXCEPT ![c] =
                   IF Acknowledges(p) THEN {[type |-> "PUBACK", topic |-> p.topic, at |-> job[c].at]}
                   ELSE {}]
             /\ UNCHANGED <<job, stream, session>>
    BY <2>1, <2>2, <2>4 DEF TypeOK, session, Goto, PC, Wire
  <2> QED
    BY <1>9, <2>3, <2>4 DEF topics_retain
<1>10. ASSUME NEW c \in Client, handle_publishack_packet(c) PROVE TypeOK'
  BY <1>10 DEF TypeOK, TopicsTypeOK, topicsVars, handle_publishack_packet, Goto, PC, Reply
<1>11. ASSUME NEW c \in Client, handle_subscribe_packet(c) PROVE TypeOK'
  <2>1. PICK fs \in Subscriptions : job' = [job EXCEPT ![c].filters = fs]
    BY <1>11 DEF handle_subscribe_packet
  <2>2. [job[c] EXCEPT !.filters = fs] \in Job
    BY BrokerAssumption DEF TypeOK, Job
  <2> QED
    BY <1>11, <2>1, <2>2 DEF TypeOK, TopicsTypeOK, topicsVars, session, handle_subscribe_packet, Goto, PC
<1>12. ASSUME NEW c \in Client, subscribe_filter(c) PROVE TypeOK'
  <2> DEFINE t == NextFilter(c).topic
  <2>1. t \in Topic
    <3>1. job[c].filters \in Seq(Filter) /\ job[c].filters # <<>>
      BY <1>12 DEF subscribe_filter, TypeOK, Job
    <3>2. Head(job[c].filters) \in Filter
      BY <3>1
    <3> QED
      BY <3>2 DEF NextFilter, Filter
  <2>2. Channel(t) \in Seq(Packet)
    BY <2>1 DEF TypeOK, TopicsTypeOK, Channel
  <2>3. TopicsTypeOK'
    BY <1>12, <2>1, <2>2, StoreType DEF TypeOK, subscribe_filter, subscribe
  <2>4. new_receiver(t) \in Receiver
    BY <2>2 DEF new_receiver, Receiver
  <2> QED
    BY <1>12, <2>1, <2>3, <2>4 DEF TypeOK, subscribe_filter, Goto, PC
<1>13. ASSUME NEW c \in Client, read_retained(c) PROVE TypeOK'
  <2> DEFINE t == NextFilter(c).topic
             k == get_retained_message(t)
  <2>1. t \in Topic
    <3>1. job[c].filters \in Seq(Filter) /\ job[c].filters # <<>>
      BY <1>13 DEF read_retained, TypeOK, Job, SubscribeOK
    <3>2. Head(job[c].filters) \in Filter
      BY <3>1
    <3> QED
      BY <3>2 DEF NextFilter, Filter
  <2>2. k \in Nat
    BY <2>1 DEF TypeOK, TopicsTypeOK, get_retained_message
  <2>3. receivers[c][t] \in Receiver
    BY <1>13, <2>1 DEF TypeOK, SubscribeOK, read_retained
  <2>4. [receivers[c][t] EXCEPT !.snap = k] \in Receiver
    BY <2>2, <2>3 DEF Receiver
  <2>5. Pub(t, k) \in Wire
    BY <2>1, <2>2 DEF Pub, Wire
  <2> HIDE DEF t, k
  <2>6. receivers' = [receivers EXCEPT ![c][t].snap = k]
        /\ todo' = [todo EXCEPT ![c] = IF k = 0 THEN {} ELSE {Pub(t, k)}]
    BY <1>13 DEF read_retained, t, k
  <2>7. receivers' \in [Client -> [Topic -> Receiver \cup {None}]]
    BY <2>1, <2>4, <2>6 DEF TypeOK
  <2>8. todo' \in [Client -> SUBSET Wire]
    BY <2>5, <2>6 DEF TypeOK
  <2>9. pc' \in [Client -> PC]
    BY <1>13 DEF TypeOK, read_retained, Goto, PC
  <2> QED
    BY <1>13, <2>7, <2>8, <2>9 DEF TypeOK, TopicsTypeOK, topicsVars, read_retained
<1>14. ASSUME NEW c \in Client, unlock_topics(c) \/ refuse_filter(c) PROVE TypeOK'
  <2>1. job[c].filters \in Seq(Filter) /\ job[c].filters # <<>>
    BY <1>14 DEF unlock_topics, refuse_filter, TypeOK, Job, SubscribeOK
  <2>2. Tail(job[c].filters) \in Seq(Filter)
    BY <2>1
  <2>3. [job[c] EXCEPT !.filters = Tail(job[c].filters)] \in Job
    BY <2>2 DEF TypeOK, Job
  <2> QED
    BY <1>14, <2>3 DEF TypeOK, TopicsTypeOK, topicsVars, session, unlock_topics, refuse_filter, Goto, PC
<1>15. ASSUME NEW c \in Client, send_suback(c) \/ handle_unsubscribe_packet(c) \/ shutdown_stream(c)
       PROVE  TypeOK'
  <2>1. CASE send_suback(c)
    BY <2>1 DEF TypeOK, TopicsTypeOK, topicsVars, session, send_suback, Goto, PC, Reply, Ack, Wire
  <2>2. CASE handle_unsubscribe_packet(c)
    BY <2>2 DEF TypeOK, TopicsTypeOK, topicsVars, handle_unsubscribe_packet, Goto, PC, Reply, Ack, Wire
  <2>3. CASE shutdown_stream(c)
    BY <2>3 DEF TypeOK, TopicsTypeOK, topicsVars, session, shutdown_stream, Goto, PC, Reply
  <2> QED
    BY <1>15, <2>1, <2>2, <2>3
<1>16. ASSUME NEW c \in Client, receive_message(c) PROVE TypeOK'
  <2>1. PICK t \in Ready(c) :
          LET n == receivers[c][t].next
              p == log[t][n + 1]
          IN  /\ receivers' = [receivers EXCEPT ![c][t].next = recv(t, n)]
              /\ Reply(c, IF Lagged(t, n) THEN {} ELSE {Pub(t, n + 1)})
              /\ outgoing_messages' =
                   IF Lagged(t, n) \/ p.qos # 1 THEN outgoing_messages
                   ELSE [outgoing_messages EXCEPT ![c] =
                           @ \cup {[topic |-> t, at |-> n + 1, counter |-> Expiry(p)]}]
    BY <1>16 DEF receive_message
  <2> DEFINE n == receivers[c][t].next
             p == log[t][n + 1]
  <2>2. t \in Topic /\ receivers[c][t] \in Receiver /\ n < Len(log[t])
    BY DEF Ready, TypeOK
  <2>3. n \in Nat /\ log[t] \in Seq(Publishes \cup Wills)
    BY <2>2 DEF Receiver, LogOK
  <2>a. Len(log[t]) \in Nat
    BY <2>3
  <2> HIDE DEF n
  <2>4. recv(t, n) \in Nat
    BY <2>3, <2>a, CapacityAssumption DEF recv, Lagged
  <2> USE DEF n
  <2>5. Expiry(p) \in 0..CounterMax
    BY <2>2, <2>3, Packets
  <2>6. [receivers[c][t] EXCEPT !.next = recv(t, n)] \in Receiver
    BY <2>2, <2>4 DEF Receiver
  <2>7. receivers' \in [Client -> [Topic -> Receiver \cup {None}]]
    BY <2>1, <2>2, <2>6 DEF TypeOK
  <2>8. [topic |-> t, at |-> n + 1, counter |-> Expiry(p)] \in OutgoingMessage
    BY <2>2, <2>3, <2>5 DEF OutgoingMessage
  <2>9. outgoing_messages' \in [Client -> SUBSET OutgoingMessage]
    BY <2>1, <2>8 DEF TypeOK
  <2>10. Pub(t, n + 1) \in Wire
    BY <2>2, <2>3 DEF Pub, Wire
  <2>11. todo' \in [Client -> SUBSET Wire] /\ pc' \in [Client -> PC]
    BY <2>1, <2>10 DEF TypeOK, Reply, Goto, PC
  <2> QED
    BY <1>16, <2>7, <2>9, <2>11 DEF TypeOK, TopicsTypeOK, topicsVars, receive_message
<1>17. ASSUME NEW c \in Client, retry_outgoing(c) PROVE TypeOK'
  <2> DEFINE ticked == {Tick(e) : e \in outgoing_messages[c]}
             alive == {e \in ticked : e.counter # 0}
  <2>1. \A e \in outgoing_messages[c] : Tick(e) \in OutgoingMessage
    BY BrokerAssumption DEF TypeOK, OutgoingMessage, Tick
  <2>2. alive \subseteq OutgoingMessage
    BY <2>1
  <2>3. {Pub(e.topic, e.at) : e \in alive} \subseteq Wire
    BY <2>2 DEF Pub, Wire, OutgoingMessage
  <2>4. /\ outgoing_messages' = [outgoing_messages EXCEPT ![c] = alive]
        /\ Reply(c, {Pub(e.topic, e.at) : e \in alive})
    BY <1>17 DEF retry_outgoing
  <2> HIDE DEF alive
  <2>5. outgoing_messages' \in [Client -> SUBSET OutgoingMessage]
    BY <2>2, <2>4 DEF TypeOK
  <2>6. todo' \in [Client -> SUBSET Wire] /\ pc' \in [Client -> PC]
    BY <2>3, <2>4 DEF TypeOK, Reply, Goto, PC
  <2> QED
    BY <1>17, <2>5, <2>6 DEF TypeOK, TopicsTypeOK, topicsVars, retry_outgoing
<1>18. CASE UNCHANGED vars
  BY <1>18 DEF TypeOK, TopicsTypeOK, vars
<1> QED
  BY <1>1, <1>2, <1>3, <1>4, <1>5, <1>6, <1>7, <1>8, <1>9, <1>10, <1>11, <1>12, <1>13, <1>14,
     <1>15, <1>16, <1>17, <1>18 DEF Next, ReadPacket
-----------------------------------------------------------------------------
(* The mutex and what it protects. *)

Shared == MutexOK /\ LogOK /\ ChannelsOK /\ PublishOK /\ SubscribeOK

\* The step of another task leaves d alone.
Same(d) == pc'[d] = pc[d] /\ job'[d] = job[d] /\ receivers'[d] = receivers[d]

\* A step outside the critical sections.
LEMMA QuietStep ==
  ASSUME IInv, NEW c \in Client, UNCHANGED <<topicsVars, lock>>,
         \A d \in Client \ {c} : Same(d),
         pc[c] \notin Critical, pc'[c] \notin Critical,
         pc'[c] = "publish" => job'[c].packet \in Publishes \cup Wills
  PROVE  Shared'
<1> USE DEF IInv, Same, topicsVars
<1>1. MutexOK' /\ LogOK' /\ ChannelsOK'
  BY DEF MutexOK, LogOK, ChannelsOK
<1>2. PublishOK'
  BY DEF PublishOK, Critical
<1>3. SubscribeOK'
  BY DEF SubscribeOK, NextFilter, Critical
<1> QED
  BY <1>1, <1>2, <1>3 DEF Shared

\* A step that touches neither the positions of the tasks nor what they share.
LEMMA StillStep ==
  ASSUME IInv, UNCHANGED <<topicsVars, lock, pc, job, receivers>>
  PROVE  Shared'
BY DEF IInv, Shared, MutexOK, LogOK, ChannelsOK, PublishOK, SubscribeOK, NextFilter, topicsVars

\* A task that ends gives the mutex back.
LEMMA EndStep ==
  ASSUME IInv, NEW c \in Client, NEW how \in {"closed", "panicked"}, EndTask(c, how),
         UNCHANGED <<names, log>>, ChannelsOK'
  PROVE  Shared'
<1>0. \A d \in Client \ {c} : Same(d)
  BY DEF IInv, TypeOK, EndTask, Goto, Same
<1>1. pc'[c] \notin Critical /\ pc'[c] \notin {"publish", "sent"}
  BY DEF IInv, TypeOK, EndTask, Goto, Critical
<1>2. MutexOK'
  BY <1>0, <1>1, BrokerAssumption DEF IInv, MutexOK, EndTask, DropGuard, Same
<1>3. LogOK' /\ PublishOK'
  BY <1>0, <1>1 DEF IInv, LogOK, PublishOK, Same
<1>4. SubscribeOK'
  BY <1>0, <1>1 DEF IInv, SubscribeOK, NextFilter, Same, Critical
<1> QED
  BY <1>2, <1>3, <1>4 DEF Shared

\* The channel an operation works on is the log of the topic.
LEMMA ChannelIsLog ==
  ASSUME ChannelsOK, NEW t \in Topic
  PROVE  Channel(t) = log[t] /\ get_retained_message(t) = retained[t]
BY DEF ChannelsOK, Channel, get_retained_message

\* The filter in progress names a topic.
LEMMA FilterTopic ==
  ASSUME TypeOK, NEW c \in Client, job[c].filters # <<>>
  PROVE  NextFilter(c).topic \in Topic
<1>1. job[c].filters \in Seq(Filter)
  BY DEF TypeOK, Job
<1>2. Head(job[c].filters) \in Filter
  BY <1>1
<1> QED
  BY <1>2 DEF NextFilter, Filter

\* Every step keeps the mutex discipline and what it protects.
LEMMA SharedStep == IInv /\ [Next]_vars => Shared'
<1> SUFFICES ASSUME IInv, [Next]_vars PROVE Shared'
  OBVIOUS
<1>1. ASSUME NEW c \in Client, PeerGone(c) \/ write_to_stream(c) PROVE Shared'
  BY <1>1, StillStep DEF PeerGone, write_to_stream, session
<1>2. ASSUME NEW c \in Client,
             \/ write_failed(c) \/ disconnected(c) \/ handle_unknown_packet(c) \/ shutdown_failed(c)
             \/ EndTask(c, "closed") /\ UNCHANGED topicsVars
      PROVE  Shared'
  <2>1. EndTask(c, "closed") /\ UNCHANGED topicsVars
    BY <1>2 DEF write_failed, disconnected, handle_unknown_packet, shutdown_failed
  <2>2. ChannelsOK'
    BY <2>1 DEF IInv, ChannelsOK, topicsVars
  <2> QED
    BY <2>1, <2>2, EndStep DEF topicsVars
<1>3. ASSUME NEW c \in Client,
             \/ Client_new(c) \/ loop(c) \/ handle_connect_packet(c) \/ handle_pingreq_packet(c)
             \/ handle_publishack_packet(c) \/ handle_subscribe_packet(c) \/ refuse_filter(c)
             \/ send_suback(c) \/ shutdown_stream(c) \/ retry_outgoing(c)
             \/ handle_unsubscribe_packet(c) \/ receive_message(c)
             \/ /\ pc[c] = "select" /\ Goto(c, "shutdown")
                /\ UNCHANGED <<topicsVars, lock, job, todo, stream, session>>
      PROVE  Shared'
  <2>1. UNCHANGED <<topicsVars, lock>>
    BY <1>3 DEF Client_new, loop, handle_connect_packet, handle_pingreq_packet,
       handle_publishack_packet, handle_subscribe_packet, refuse_filter, send_suback,
       shutdown_stream, retry_outgoing, handle_unsubscribe_packet, receive_message
  <2>2. /\ pc[c] \in {"closed", "panicked", "select", "write", "subscribe", "shutdown"}
        /\ \E to \in {"select", "write", "subscribe", "shutdown"} : pc' = [pc EXCEPT ![c] = to]
    BY <1>3 DEF Client_new, loop, handle_connect_packet, handle_pingreq_packet, Reads,
       handle_publishack_packet, handle_subscribe_packet, refuse_filter, send_suback,
       shutdown_stream, retry_outgoing, handle_unsubscribe_packet, receive_message, Reply, Goto,
       IInv, TypeOK
  <2>3. \A d \in Client \ {c} : job'[d] = job[d]
    BY <1>3 DEF IInv, TypeOK, Client_new, loop, handle_connect_packet, handle_pingreq_packet,
       handle_publishack_packet, handle_subscribe_packet, refuse_filter, send_suback,
       shutdown_stream, retry_outgoing, handle_unsubscribe_packet, receive_message
  <2>4. \A d \in Client \ {c} : receivers'[d] = receivers[d]
    BY <1>3 DEF IInv, TypeOK, Client_new, loop, handle_connect_packet, handle_pingreq_packet,
       handle_publishack_packet, handle_subscribe_packet, refuse_filter, send_suback,
       shutdown_stream, retry_outgoing, handle_unsubscribe_packet, receive_message, session
  <2>5. \A d \in Client \ {c} : Same(d)
    BY <2>2, <2>3, <2>4 DEF IInv, TypeOK, Same
  <2>6. pc[c] \notin Critical /\ pc'[c] \notin Critical /\ pc'[c] # "publish"
    BY <2>2 DEF IInv, TypeOK, Critical
  <2> QED
    BY <2>1, <2>5, <2>6, QuietStep
<1>4. ASSUME NEW c \in Client, NEW p \in Publishes \cup Wills, NEW after, pc[c] = "select",
             AwaitPublish(c, p, after)
      PROVE  Shared'
  <2>1. /\ \A d \in Client \ {c} : Same(d)
        /\ pc'[c] = "publish" /\ job'[c].packet = p
    BY <1>4 DEF IInv, TypeOK, AwaitPublish, Goto, Same, session
  <2> QED
    BY <1>4, <2>1, QuietStep DEF AwaitPublish, Critical
<1>5. ASSUME NEW c \in Client,
             receive_publish(c) \/ handle_disconnect_packet(c) \/ keep_alive_expired(c)
      PROVE  Shared'
  <2>1. will[c] # None => will[c] \in Publishes \cup Wills
    BY DEF IInv, TypeOK
  <2> QED
    BY <1>2, <1>3, <1>4, <1>5, <2>1
    DEF receive_publish, handle_disconnect_packet, keep_alive_expired, Reads
<1>6. ASSUME NEW c \in Client, topics_send(c) PROVE Shared'
  <2> DEFINE p == job[c].packet
             t == p.topic
  <2>1. p \in Publishes \cup Wills /\ t \in Topic /\ job[c] \in Job
    BY <1>6, Packets DEF topics_send, IInv, PublishOK, TypeOK
  <2>2. Channel(t) = log[t] /\ get_retained_message(t) = retained[t]
        /\ log[t] \in Seq(Publishes \cup Wills)
    BY <2>1, ChannelIsLog DEF IInv, LogOK
  <2>3. Append(log[t], p) \in Seq(Publishes \cup Wills) /\ Len(Append(log[t], p)) = Len(log[t]) + 1
    BY <2>1, <2>2
  <2>4. /\ names' = names \cup {t} /\ log' = [log EXCEPT ![t] = Append(log[t], p)]
        /\ retained' = [retained EXCEPT ![t] = retained[t]]
    BY <1>6, <2>2 DEF topics_send, send_message, Store
  <2>5. /\ \A d \in Client \ {c} : Same(d) /\ pc[d] \notin Critical
        /\ pc'[c] = "sent" /\ job'[c].packet = p /\ job'[c].at = Len(log[t]) + 1
    BY <1>6, <2>1, <2>2, BrokerAssumption
    DEF topics_send, IInv, TypeOK, MutexOK, Goto, Same, session, Job
  <2>6. MutexOK'
    BY <1>6, <2>5, BrokerAssumption DEF MutexOK, Same, topics_send, Critical
  <2>7. LogOK'
    BY <2>1, <2>3, <2>4 DEF IInv, LogOK
  <2>8. ChannelsOK'
    BY <2>1, <2>4 DEF IInv, ChannelsOK, LogOK, TypeOK, TopicsTypeOK
  <2>9. PublishOK'
    <3>1. t \in names' /\ Len(log'[t]) = Len(log[t]) + 1
      BY <2>1, <2>3, <2>4 DEF IInv, LogOK
    <3> QED
      BY <2>1, <2>5, <3>1 DEF IInv, PublishOK, Same, Critical
  <2>10. SubscribeOK'
    BY <2>5 DEF IInv, SubscribeOK, NextFilter, Same, Critical
  <2> QED
    BY <2>6, <2>7, <2>8, <2>9, <2>10 DEF Shared
<1>7. ASSUME NEW c \in Client, topics_retain(c) PROVE Shared'
  <2> DEFINE p == job[c].packet
  <2>1. p.topic \in names /\ p.topic \in Topic
    BY <1>7, Packets DEF topics_retain, IInv, PublishOK
  <2>2. UNCHANGED <<names, log>> /\ ChannelsOK'
    BY <1>7, <2>1 DEF topics_retain, retain_message, IInv, ChannelsOK, TypeOK, TopicsTypeOK
  <2>3. CASE EndTask(c, "closed") \/ EndTask(c, "panicked")
    BY <2>2, <2>3, EndStep
  <2>4. CASE /\ job[c].after # "closed" /\ lock' = None /\ Goto(c, job[c].after)
             /\ UNCHANGED <<job, stream, session>>
    <3>1. /\ \A d \in Client \ {c} : Same(d)
          /\ pc'[c] \in {"write", "shutdown"} /\ lock = c
      BY <1>7, <2>4 DEF topics_retain, IInv, TypeOK, Job, MutexOK, Goto, Same, session, Critical
    <3>2. MutexOK'
      BY <2>4, <3>1, BrokerAssumption DEF IInv, MutexOK, Same, Critical
    <3>3. LogOK' /\ PublishOK'
      BY <2>2, <3>1 DEF IInv, LogOK, PublishOK, Same
    <3>4. SubscribeOK'
      BY <3>1 DEF IInv, SubscribeOK, NextFilter, Same
    <3> QED
      BY <2>2, <3>2, <3>3, <3>4 DEF Shared
  <2> QED
    BY <1>7, <2>3, <2>4 DEF topics_retain
<1>8. ASSUME NEW c \in Client, subscribe_filter(c) PROVE Shared'
  <2> DEFINE t == NextFilter(c).topic
  <2>1. t \in Topic /\ job[c].filters # <<>>
    BY <1>8, FilterTopic DEF subscribe_filter, IInv
  <2>2. Channel(t) = log[t] /\ get_retained_message(t) = retained[t]
    BY <2>1, ChannelIsLog DEF IInv
  <2>3. names' = names \cup {t} /\ log' = log /\ retained' = retained
    BY <1>8, <2>1, <2>2 DEF subscribe_filter, subscribe, Store, IInv, TypeOK, TopicsTypeOK
  <2>4. new_receiver(t) # None
    BY <2>1, <2>2, ReceiverAssumption DEF new_receiver, Receiver, IInv, TypeOK, TopicsTypeOK
  <2>5. /\ \A d \in Client \ {c} : Same(d) /\ pc[d] \notin Critical
        /\ pc'[c] = "subscribed" /\ job' = job /\ receivers'[c][t] # None
    BY <1>8, <2>1, <2>4, BrokerAssumption
    DEF subscribe_filter, IInv, TypeOK, MutexOK, Goto, Same
  <2>6. MutexOK'
    BY <1>8, <2>5, BrokerAssumption DEF MutexOK, Same, subscribe_filter, Critical
  <2>7. LogOK' /\ ChannelsOK'
    BY <2>3 DEF IInv, LogOK, ChannelsOK
  <2>8. PublishOK'
    BY <2>3, <2>5 DEF IInv, PublishOK, Same
  <2>9. SubscribeOK'
    BY <2>1, <2>5 DEF IInv, SubscribeOK, NextFilter, Same, Critical
  <2> QED
    BY <2>6, <2>7, <2>8, <2>9 DEF Shared
<1>9. ASSUME NEW c \in Client, read_retained(c) \/ unlock_topics(c) PROVE Shared'
  <2>1. UNCHANGED topicsVars /\ pc[c] \in {"subscribed", "send_retained"} /\ lock = c
    BY <1>9 DEF read_retained, unlock_topics, IInv, MutexOK, Critical
  <2>2. \A d \in Client \ {c} : Same(d) /\ pc[d] \notin Critical
    BY <1>9, <2>1 DEF read_retained, unlock_topics, session, IInv, TypeOK, MutexOK, Goto, Same
  <2>3. LogOK' /\ ChannelsOK'
    BY <2>1 DEF IInv, LogOK, ChannelsOK, topicsVars
  <2>4. pc'[c] = IF pc[c] = "subscribed" THEN "send_retained" ELSE "subscribe"
    BY <1>9 DEF read_retained, unlock_topics, Goto, IInv, TypeOK
  <2>5. MutexOK'
    BY <1>9, <2>1, <2>2, <2>4, BrokerAssumption
    DEF MutexOK, Same, read_retained, unlock_topics, Critical
  <2>6. PublishOK'
    BY <2>1, <2>2, <2>4 DEF IInv, PublishOK, Same, topicsVars
  <2>7. SubscribeOK'
    <3>1. CASE unlock_topics(c)
      BY <2>2, <2>4, <3>1 DEF IInv, SubscribeOK, NextFilter, Same, unlock_topics, Critical
    <3>2. CASE read_retained(c)
      <4> DEFINE t == NextFilter(c).topic
      <4>1. job[c].filters # <<>> /\ receivers[c][t] # None
        BY <2>1 DEF IInv, SubscribeOK
      <4>2. t \in Topic
        BY <4>1, FilterTopic DEF IInv
      <4>3. receivers[c][t] \in Receiver
        BY <4>1, <4>2 DEF IInv, TypeOK
      <4>4. receivers'[c][t] = [receivers[c][t] EXCEPT !.snap = get_retained_message(t)]
        BY <3>2, <4>2 DEF read_retained, IInv, TypeOK
      <4>5. get_retained_message(t) \in Nat
        BY <4>2 DEF get_retained_message, IInv, TypeOK, TopicsTypeOK
      <4>6. receivers'[c][t] # None
        BY <4>3, <4>4, <4>5, ReceiverAssumption DEF Receiver
      <4>7. job' = job
        BY <3>2 DEF read_retained
      <4> QED
        BY <2>2, <4>1, <4>6, <4>7 DEF IInv, SubscribeOK, NextFilter, Same, Critical
    <3> QED
      BY <1>9, <3>1, <3>2
  <2> QED
    BY <2>3, <2>5, <2>6, <2>7 DEF Shared
<1>10. CASE UNCHANGED vars
  BY <1>10, StillStep DEF vars, topicsVars
<1> QED
  BY <1>1, <1>2, <1>3, <1>5, <1>6, <1>7, <1>8, <1>9, <1>10 DEF Next, ReadPacket

\* The invariant holds in every reachable state.
LEMMA Inductive == Spec => []IInv
<1>1. Init => IInv
  <2> SUFFICES ASSUME Init PROVE IInv
    OBVIOUS
  <2>1. TypeOK
    BY DEF Init, TopicsInit, TypeOK, TopicsTypeOK, PC, NoJob, Job, NoReceivers
  <2>2. MutexOK /\ LogOK /\ ChannelsOK /\ PublishOK /\ SubscribeOK
    BY BrokerAssumption DEF Init, TopicsInit, MutexOK, LogOK, ChannelsOK, PublishOK, SubscribeOK, Critical
  <2> QED
    BY <2>1, <2>2 DEF IInv
<1>2. IInv /\ [Next]_vars => IInv'
  BY TypeStep, SharedStep DEF IInv, Shared
<1> QED
  BY <1>1, <1>2, PTL DEF Spec

\* The variables of the connection tasks always have their types: no retry counter leaves
\* u32, no task is between two known positions.
THEOREM BrokerTypeOK == Spec => []TypeOK
BY Inductive, PTL DEF IInv

\* Mutual exclusion for every number of clients: the mutex is held exactly by the task in
\* a critical section, whichever way tasks end.
THEOREM BrokerMutexOK == Spec => []MutexOK
BY Inductive, PTL DEF IInv
-----------------------------------------------------------------------------
(* RetryWithinExpiry. *)

\* What is outstanding was broadcast.
InFlightOK ==
  \A c \in Client : \A e \in outgoing_messages[c] : e.at \in 1..Len(log[e.topic])

RetryInv == InFlightOK /\ RetryWithinExpiry

\* The log of a topic only grows: a message keeps its position (Topics::publish, subscribe).
LEMMA LogGrows ==
  ASSUME IInv, [Next]_vars, NEW t \in Topic
  PROVE  /\ Len(log[t]) \in Nat /\ Len(log'[t]) \in Nat /\ Len(log'[t]) >= Len(log[t])
         /\ \A i \in 1..Len(log[t]) : log'[t][i] = log[t][i]
<1>0. log[t] \in Seq(Publishes \cup Wills) /\ Len(log[t]) \in Nat
  BY DEF IInv, LogOK
<1>1. CASE log' = log
  BY <1>0, <1>1
<1>2. ASSUME NEW c \in Client, topics_send(c)
      PROVE  log'[t] = log[t] \/ \E p \in Publishes \cup Wills : log'[t] = Append(log[t], p)
  <2> DEFINE p == job[c].packet
  <2>1. p \in Publishes \cup Wills /\ p.topic \in Topic
    BY <1>2, Packets DEF topics_send, IInv, PublishOK
  <2>2. Channel(p.topic) = log[p.topic]
    BY <2>1, ChannelIsLog DEF IInv
  <2>3. log' = [log EXCEPT ![p.topic] = Append(log[p.topic], p)]
    BY <1>2, <2>2 DEF topics_send, send_message, Store
  <2> QED
    BY <2>1, <2>3 DEF IInv, LogOK
<1>3. ASSUME NEW c \in Client, subscribe_filter(c) PROVE log' = log
  <2>1. NextFilter(c).topic \in Topic
    BY <1>3, FilterTopic DEF subscribe_filter, IInv
  <2>2. Channel(NextFilter(c).topic) = log[NextFilter(c).topic]
    BY <2>1, ChannelIsLog DEF IInv
  <2> QED
    BY <1>3, <2>1, <2>2 DEF subscribe_filter, subscribe, Store, IInv, LogOK
<1>4. CASE \E p \in Publishes \cup Wills : log'[t] = Append(log[t], p)
  BY <1>0, <1>4
<1>5. ASSUME NEW c \in Client,
             \/ topics_retain(c) \/ Client_new(c) \/ PeerGone(c) \/ ReadPacket(c) \/ disconnected(c)
             \/ receive_message(c) \/ retry_outgoing(c) \/ keep_alive_expired(c)
      PROVE  log' = log
  BY <1>5 DEF topics_retain, retain_message, Client_new, PeerGone, ReadPacket, disconnected,
     receive_message, retry_outgoing, keep_alive_expired, AwaitPublish, topicsVars,
     handle_connect_packet, handle_pingreq_packet, receive_publish, handle_publishack_packet,
     handle_subscribe_packet, handle_unsubscribe_packet, handle_disconnect_packet,
     handle_unknown_packet
<1>6. ASSUME NEW c \in Client,
             \/ read_retained(c) \/ unlock_topics(c) \/ refuse_filter(c) \/ send_suback(c)
             \/ write_to_stream(c) \/ write_failed(c) \/ loop(c)
             \/ shutdown_stream(c) \/ shutdown_failed(c)
      PROVE  log' = log
  BY <1>6 DEF read_retained, unlock_topics, refuse_filter, send_suback, write_to_stream,
     write_failed, loop, shutdown_stream, shutdown_failed, topicsVars
<1>7. CASE UNCHANGED vars
  BY <1>1, <1>7 DEF vars
<1> QED
  BY <1>0, <1>1, <1>2, <1>3, <1>4, <1>5, <1>6, <1>7 DEF Next

\* An outstanding message was outstanding before, with its counter or with the next one,
\* or is one that was just received.
Remembered(c, e) ==
  \E f \in outgoing_messages[c] : e = f \/ (e = Tick(f) /\ e.counter # 0)
JustReceived(e) ==
  e.topic \in Topic /\ e.at \in 1..Len(log[e.topic]) /\ e.counter = Expiry(PacketOf(e))

LEMMA OutgoingStep ==
  ASSUME IInv, [Next]_vars, NEW c \in Client, NEW e \in outgoing_messages'[c]
  PROVE  Remembered(c, e) \/ JustReceived(e)
<1>0. outgoing_messages \in [Client -> SUBSET OutgoingMessage]
  BY DEF IInv, TypeOK
<1>1. CASE outgoing_messages'[c] \subseteq outgoing_messages[c]
  BY <1>1 DEF Remembered
<1>2. ASSUME NEW d \in Client, EndTask(d, "closed") \/ EndTask(d, "panicked")
      PROVE  outgoing_messages'[c] \subseteq outgoing_messages[c]
  BY <1>0, <1>2 DEF EndTask
<1>3. ASSUME NEW d \in Client, handle_publishack_packet(d)
      PROVE  outgoing_messages'[c] \subseteq outgoing_messages[c]
  BY <1>0, <1>3 DEF handle_publishack_packet
<1>4. ASSUME NEW d \in Client, receive_message(d) PROVE Remembered(c, e) \/ JustReceived(e)
  <2>1. PICK t \in Ready(d) :
          LET n == receivers[d][t].next
              p == log[t][n + 1]
          IN  outgoing_messages' =
                 IF Lagged(t, n) \/ p.qos # 1 THEN outgoing_messages
                 ELSE [outgoing_messages EXCEPT ![d] =
                         @ \cup {[topic |-> t, at |-> n + 1, counter |-> Expiry(p)]}]
    BY <1>4 DEF receive_message
  <2> DEFINE n == receivers[d][t].next
             f == [topic |-> t, at |-> n + 1, counter |-> Expiry(log[t][n + 1])]
  <2>2. t \in Topic /\ receivers[d][t] \in Receiver /\ n \in Nat /\ n < Len(log[t])
        /\ Len(log[t]) \in Nat
    BY DEF Ready, IInv, TypeOK, LogOK, Receiver
  <2>3. JustReceived(f)
    BY <2>2 DEF JustReceived, PacketOf
  <2>4. e \in outgoing_messages[c] \/ e = f
    BY <1>0, <2>1
  <2> HIDE DEF f
  <2> QED
    BY <2>3, <2>4 DEF Remembered
<1>5. ASSUME NEW d \in Client, retry_outgoing(d) PROVE Remembered(c, e)
  <2>1. outgoing_messages' =
          [outgoing_messages EXCEPT ![d] =
             {g \in {Tick(f) : f \in outgoing_messages[d]} : g.counter # 0}]
    BY <1>5 DEF retry_outgoing
  <2>2. CASE c = d
    BY <1>0, <2>1, <2>2 DEF Remembered
  <2>3. CASE c # d
    BY <1>0, <2>1, <2>3 DEF Remembered
  <2> QED
    BY <2>2, <2>3
<1>6. ASSUME NEW d \in Client, topics_retain(d) \/ ReadPacket(d) \/ keep_alive_expired(d)
      PROVE  outgoing_messages'[c] \subseteq outgoing_messages[c]
  BY <1>2, <1>3, <1>6 DEF topics_retain, ReadPacket, keep_alive_expired, AwaitPublish, session,
     handle_connect_packet, handle_pingreq_packet, receive_publish,
     handle_subscribe_packet, handle_unsubscribe_packet, handle_disconnect_packet,
     handle_unknown_packet
<1>7. ASSUME NEW d \in Client,
             write_failed(d) \/ disconnected(d) \/ shutdown_failed(d)
      PROVE  outgoing_messages'[c] \subseteq outgoing_messages[c]
  BY <1>2, <1>7 DEF write_failed, disconnected, shutdown_failed
<1>8. ASSUME NEW d \in Client,
             \/ Client_new(d) \/ PeerGone(d) \/ topics_send(d) \/ subscribe_filter(d)
             \/ read_retained(d) \/ unlock_topics(d) \/ refuse_filter(d) \/ send_suback(d)
             \/ write_to_stream(d) \/ loop(d) \/ shutdown_stream(d)
      PROVE  outgoing_messages' = outgoing_messages
  BY <1>8 DEF Client_new, PeerGone, topics_send, subscribe_filter, read_retained, unlock_topics,
     refuse_filter, send_suback, write_to_stream, loop, shutdown_stream, session
<1>9. CASE UNCHANGED vars
  BY <1>1, <1>9 DEF vars
<1> QED
  BY <1>1, <1>4, <1>5, <1>6, <1>7, <1>8, <1>9 DEF Next

\* A counter that is neither zero before nor after a tick has only come down.
LEMMA TickStaysWithin ==
  ASSUME NEW f \in OutgoingMessage, NEW n \in Nat, Tick(f).counter # 0,
         n # 0 => f.counter \in 1..n
  PROVE  n # 0 => Tick(f).counter \in 1..n
<1>1. f.counter \in Nat
  BY BrokerAssumption DEF OutgoingMessage
<1>2. f.counter # 0 => Tick(f).counter = f.counter - 1
  BY DEF OutgoingMessage, Tick
<1> QED
  BY <1>1, <1>2

LEMMA RetryStep == IInv /\ RetryInv /\ [Next]_vars => RetryInv'
<1> SUFFICES ASSUME IInv, RetryInv, [Next]_vars,
                    NEW c \in Client, NEW e \in outgoing_messages'[c]
             PROVE  /\ e.at \in 1..Len(log'[e.topic])
                    /\ LET n == Expiry(log'[e.topic][e.at])
                       IN  n # 0 => e.counter \in 1..n
  BY DEF RetryInv, InFlightOK, RetryWithinExpiry, PacketOf
<1> DEFINE X(g) == /\ g.topic \in Topic /\ g.at \in 1..Len(log[g.topic])
                   /\ Expiry(PacketOf(g)) # 0 => g.counter \in 1..Expiry(PacketOf(g))
<1>0. ASSUME NEW t \in Topic, NEW i \in 1..Len(log[t])
      PROVE  Expiry(log[t][i]) \in Nat
  <2>1. log[t] \in Seq(Publishes \cup Wills)
    BY DEF IInv, LogOK
  <2>2. log[t][i] \in Publishes \cup Wills
    BY <2>1
  <2> QED
    BY <2>2, Packets
<1>1. X(e)
  <2>1. CASE JustReceived(e)
    <3>1. Expiry(PacketOf(e)) \in Nat
      BY <2>1, <1>0 DEF JustReceived, PacketOf
    <3> QED
      BY <2>1, <3>1 DEF JustReceived
  <2>2. CASE Remembered(c, e)
    <3>1. PICK f \in outgoing_messages[c] : e = f \/ (e = Tick(f) /\ e.counter # 0)
      BY <2>2 DEF Remembered
    <3>2. f \in OutgoingMessage
      BY DEF IInv, TypeOK
    <3>3. X(f) /\ Expiry(PacketOf(f)) \in Nat
      BY <3>2, <1>0 DEF RetryInv, InFlightOK, RetryWithinExpiry, OutgoingMessage, PacketOf
    <3>4. CASE e = Tick(f) /\ e.counter # 0
      <4>1. e.topic = f.topic /\ e.at = f.at
        BY <3>2, <3>4 DEF Tick, OutgoingMessage
      <4>2. PacketOf(e) = PacketOf(f)
        BY <4>1 DEF PacketOf
      <4>3. Expiry(PacketOf(f)) # 0 => e.counter \in 1..Expiry(PacketOf(f))
        BY <3>2, <3>3, <3>4, TickStaysWithin
      <4> QED
        BY <3>3, <4>1, <4>2, <4>3
    <3> QED
      BY <3>1, <3>3, <3>4
  <2> QED
    BY <2>1, <2>2, OutgoingStep
<1>2. /\ Len(log[e.topic]) \in Nat /\ Len(log'[e.topic]) \in Nat
      /\ Len(log'[e.topic]) >= Len(log[e.topic])
      /\ log'[e.topic][e.at] = PacketOf(e)
  BY <1>1, LogGrows DEF PacketOf
<1> QED
  BY <1>1, <1>2

\* A QoS 1 message with an expiry interval is retransmitted at most once per second of
\* it, for every interval, every number of clients and messages: the wrap of the u32 in
\* counter.0 -= 1 is reached only by messages with the interval 0 (retry loop of
\* handle_raw_tcp_stream).
THEOREM BrokerRetryWithinExpiry == Spec => []RetryWithinExpiry
<1>1. Init => RetryInv
  BY DEF Init, RetryInv, InFlightOK, RetryWithinExpiry
<1>2. RetryInv => RetryWithinExpiry
  BY DEF RetryInv
<1> QED
  BY <1>1, <1>2, RetryStep, Inductive, PTL DEF Spec
=============================================================================
