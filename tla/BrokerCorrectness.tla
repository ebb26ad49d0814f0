------------------------- MODULE BrokerCorrectness --------------------------
(***************************************************************************)
(* What makes the connection tasks of Broker correct: the mutex discipline,*)
(* the refinement of the atomic PubSub, the retry list, and progress.      *)
(***************************************************************************)
EXTENDS Broker

TypeOK ==
  /\ TopicsTypeOK
  /\ lock \in Client \cup {None}
  /\ pc \in [Client -> PC]
  /\ job \in [Client -> Job]
  /\ todo \in [Client -> SUBSET Wire]
  /\ stream \in [Client -> {"open", "shut", "gone"}]
  /\ receivers \in [Client -> [Topic -> Receiver \cup {None}]]
  /\ will \in [Client -> Wills \cup {None}]
  /\ outgoing_messages \in [Client -> SUBSET OutgoingMessage]

\* The guard returned by topics.lock() lives exactly as long as the task is in one of
\* the two critical sections of tcp_handling.rs, whichever way the task leaves them: at
\* most one task is inside, and a task that ends by `?` or by a panic does not keep it.
MutexOK == \A c \in Client : lock = c <=> pc[c] \in Critical
-----------------------------------------------------------------------------
(* Refinement.  The critical sections appear atomic: a publish takes       *)
(* effect when it sends, a subscribe when it creates the receiver.         *)

\* The retained message as it will be when the publish in progress is done.
Retaining(t) == \E c \in Client : pc[c] = "sent" /\ job[c].packet.topic = t /\ job[c].packet.retain
RetainedBar == [t \in Topic |-> IF Retaining(t) THEN Len(log[t]) ELSE retained[t]]

\* The receivers as they will be when the retained message has been looked up.
ReceiversBar == [c \in Client |-> [t \in Topic |->
  IF pc[c] = "subscribed" /\ NextFilter(c).topic = t
  THEN [receivers[c][t] EXCEPT !.snap = RetainedBar[t]]
  ELSE receivers[c][t]]]

Abs == INSTANCE PubSub WITH
  Message <- Publishes \cup Wills, retained <- RetainedBar, receivers <- ReceiversBar

\* The tasks, interleaved at every await and inside their critical sections, behave as if
\* each publish (Topics::publish), each subscription with its lookup of the retained
\* message (handle_subscribe_packet) and each recv were a single step.
ImplementsPubSub == Abs!Spec

\* Whenever no publish is in progress, the retained message of a topic is the newest one
\* broadcast on it with the retain flag (Topics::publish).
RetainedIsNewest == Abs!RetainedIsNewest

\* The retained message sent in answer to a SUBSCRIBE and the messages that follow on the
\* new receiver meet: none falls between the two, none comes twice, and a receiver never
\* reads beyond what was sent (handle_subscribe_packet).
SnapshotMeetsStream == Abs!SnapshotMeetsStream
-----------------------------------------------------------------------------
(* Retransmission of QoS 1 messages. *)

\* A message whose expiry interval is not zero is retransmitted at most once per second of
\* it: its counter starts at the interval and is never above it or, between two turns of
\* the loop, zero.
RetryWithinExpiry ==
  \A c \in Client : \A e \in outgoing_messages[c] :
    Expiry(PacketOf(e)) # 0 => e.counter \in 1..Expiry(PacketOf(e))

\* Within one connection a packet identifier names one unacknowledged message, as QoS 1
\* (maximum_qos in the CONNACK) requires: otherwise a PUBACK for one message also stops
\* the retransmission of the other.
InFlightIdsUnique ==
  \A c \in Client : \A e, f \in outgoing_messages[c] :
    PacketOf(e).packet_id = PacketOf(f).packet_id => e = f

\* No task panics on packet.packet_id.unwrap().
NoPanic == \A c \in Client : pc[c] # "panicked"
-----------------------------------------------------------------------------
(* Progress. *)

\* Once it runs, a task takes its next step; a write fails when the peer has gone; the
\* tokio mutex is granted in the order of arrival.
Advance(c) ==
  \/ topics_retain(c) \/ read_retained(c) \/ unlock_topics(c)
  \/ refuse_filter(c) \/ send_suback(c) \/ loop(c)
  \/ shutdown_stream(c) \/ shutdown_failed(c) \/ write_failed(c) \/ disconnected(c)

Fairness(c) ==
  /\ WF_vars(Advance(c))
  /\ SF_vars(topics_send(c)) /\ SF_vars(subscribe_filter(c))

FairSpec == Spec /\ \A c \in Client : Fairness(c)

InHandler(c) == pc[c] \notin {"select", "closed", "panicked"}
HandlerEnds(c) == InHandler(c) ~> ~InHandler(c)

\* Nothing is promised about a peer; one that reads lets every write to it end.
PeerReads(c) == WF_vars(write_to_stream(c))

\* When the peers read or go away, every handler that was entered is left: no cycle of
\* waiting and no lost unlock, however the tasks compete for the mutex.
HandlersComplete == (\A c \in Client : PeerReads(c)) => \A c \in Client : HandlerEnds(c)

\* A peer that stops reading hangs its own task only, in every handler but one: while it
\* is sent a retained message, handle_subscribe_packet holds the mutex.  Unless that
\* happens to another task, the handlers of c, whose peer reads, still complete.
StallIsContained ==
  \A c \in Client :
    (PeerReads(c) /\ \A d \in Client \ {c} : []<>(pc[d] # "send_retained")) => HandlerEnds(c)
=============================================================================
