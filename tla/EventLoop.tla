----------------------------- MODULE EventLoop ------------------------------
(***************************************************************************)
(* The select! loop of handle_raw_tcp_stream (src/tcp_handling.rs) against *)
(* the clock, for one connection: which branch runs when.  What the bodies *)
(* do to the shared topics is in Broker; here a body only takes time, ends *)
(* with or without a write to the peer, and changes what select! waits for.*)
(*                                                                         *)
(* Time is counted in seconds, the unit of both timers.  The future of the *)
(* receivers wakes itself, so the loop polls all the time: a branch that   *)
(* is ready is taken before the next second.                               *)
(***************************************************************************)
EXTENDS Integers

CONSTANTS
  Topic,        \* the topics the peer subscribes to, by their rank in the BTreeMap
  None,
  Capacity,     \* 1024, the slots of a broadcast channel
  Timeout,      \* SETTINGS.general.timeout, also the announced server_keep_alive
  U16Max,       \* u16::MAX, the width of the timeout
  Expiries,     \* expiry counters of the QoS 1 messages that are forwarded
  CounterMax,   \* u32::MAX
  Slot          \* bound: unacknowledged QoS 1 messages

\* What the loop tells apart in a packet: whether its handler writes to the peer, changes
\* the receivers, removes acknowledged messages, or ends the task (DISCONNECT, unknown,
\* not decodable).
Kind == {"answered", "unanswered", "subscribe", "unsubscribe", "puback", "leave"}

ASSUME LoopAssumption ==
  /\ Topic \subseteq Nat /\ None \notin Nat \cup Kind
  /\ Capacity \in Nat \ {0} /\ U16Max \in Nat /\ CounterMax \in Nat \ {0}
  /\ Timeout \in Nat /\ Timeout + 2 <= U16Max
  /\ Expiries \subseteq 0..CounterMax

VARIABLES
  pc,         \* select; handling, writing (a body without, with a write); timeout; closed
  turn,       \* seconds since select! was entered: both timers are made anew each time
  stream,     \* open, shut (write half) or gone
  arrived,    \* the packet to be read next, or None
  backlog,    \* Client::receivers: the unread messages of each subscribed topic's receiver,
              \* more than Capacity when it is overrun
  outgoing,   \* Client::outgoing_messages: the counter in each slot, or None
  silence,    \* seconds since the peer last sent a packet, at most Timeout + 1
  late        \* the peer once let more than Timeout seconds pass

vars == <<pc, turn, stream, arrived, backlog, outgoing, silence, late>>
peerVars == <<silence, late>>

\* Mutant: the timer allows for no delay.
KeepAliveExact == Timeout

\* (timeout + 2) seconds, added as u16; the release profile wraps.
KeepAlive == (Timeout + 2) % (U16Max + 1)

Unacknowledged == {s \in Slot : outgoing[s] # None}
Ready == {t \in DOMAIN backlog : backlog[t] > 0}

LoopInit ==
  /\ pc = "select" /\ turn = 0 /\ stream = "open"
  /\ arrived = None
  /\ backlog = [t \in {} |-> 0]
  /\ outgoing = [s \in Slot |-> None]
  /\ silence = 0 /\ late = FALSE

\* The body of a branch starts, or is over and select! is entered again.
Enter(body) == pc' = body /\ turn' = 0
-----------------------------------------------------------------------------
(* External: the peer, the other tasks and the clock. *)

\* A packet that arrives behind an unread one is in the same buffer (see Framing).
PeerSends(k) ==
  /\ pc # "closed" /\ stream # "gone"
  /\ arrived' = IF arrived = None THEN k ELSE arrived
  /\ silence' = 0
  /\ UNCHANGED <<pc, turn, stream, backlog, outgoing, late>>

PeerGone ==
  /\ pc # "closed" /\ stream # "gone"
  /\ stream' = "gone"
  /\ arrived' \in {arrived, None}
  /\ UNCHANGED <<pc, turn, backlog, outgoing, peerVars>>

\* Another task publishes on a subscribed topic.
Published(t) ==
  /\ pc # "closed" /\ t \in DOMAIN backlog /\ backlog[t] <= Capacity
  /\ backlog' = [backlog EXCEPT ![t] = @ + 1]
  /\ UNCHANGED <<pc, turn, stream, arrived, outgoing, peerVars>>

RetryDue == turn >= 1 /\ Unacknowledged # {}
TimeoutDue == turn >= KeepAlive
BranchReady == arrived # None \/ stream = "gone" \/ Ready # {} \/ RetryDue \/ TimeoutDue

\* A second passes: in select! when no branch is ready, or while a body waits for the
\* mutex or for the peer to read.
Tick ==
  /\ pc # "closed" /\ ~(pc = "select" /\ BranchReady)
  /\ turn' = IF pc = "select" THEN turn + 1 ELSE turn
  /\ silence' = IF silence > Timeout THEN silence ELSE silence + 1
  /\ late' = (late \/ silence >= Timeout)
  /\ UNCHANGED <<pc, stream, arrived, backlog, outgoing>>
-----------------------------------------------------------------------------
(* The branches of select!. *)

\* SUBSCRIBE inserts a new receiver for each of its topics, in place of one that is there.
subscribe(topics) ==
  backlog' = [t \in topics \cup DOMAIN backlog |-> IF t \in topics THEN 0 ELSE backlog[t]]

\* UNSUBSCRIBE drops receivers, with what they have not read.
unsubscribe(topics) ==
  backlog' = [t \in DOMAIN backlog \ topics |-> backlog[t]]

\* PUBACK removes every message that has its identifier.
acknowledge ==
  \E gone \in SUBSET Slot :
    outgoing' = [s \in Slot |-> IF s \in gone THEN None ELSE outgoing[s]]

\* stream.read: handle_packet for what arrived.
read_packet ==
  /\ pc = "select" /\ arrived # None
  /\ arrived' = None
  /\ \/ /\ arrived = "leave" /\ Enter("closed")
        /\ UNCHANGED <<backlog, outgoing>>
     \/ /\ arrived = "answered" /\ Enter("writing")
        /\ UNCHANGED <<backlog, outgoing>>
     \/ /\ arrived = "unanswered" /\ Enter("handling")
        /\ UNCHANGED <<backlog, outgoing>>
     \/ /\ arrived = "subscribe" /\ Enter("writing")
        /\ \E topics \in SUBSET Topic : subscribe(topics)
        /\ UNCHANGED outgoing
     \/ /\ arrived = "unsubscribe" /\ Enter("writing")
        /\ \E topics \in SUBSET Topic : unsubscribe(topics)
        /\ UNCHANGED outgoing
     \/ /\ arrived = "puback" /\ Enter("handling") /\ acknowledge
        /\ UNCHANGED backlog
  /\ UNCHANGED <<stream, peerVars>>

\* Ok(0) or an error.
disconnected ==
  /\ pc = "select" /\ arrived = None /\ stream = "gone"
  /\ Enter("closed")
  /\ UNCHANGED <<stream, arrived, backlog, outgoing, peerVars>>

\* Mutant: the last topic that has a message is served.
ServesLast(t) == t \in Ready /\ \A u \in Ready : t >= u

\* ReceiverFuture::poll: the first receiver that is not empty.
Serves(t) == t \in Ready /\ \A u \in Ready : t <= u

\* recv: a message to write, with QoS 1 also to remember; after an overrun the oldest
\* messages are gone and the loop goes on at once.
receive_message(t) ==
  /\ pc = "select" /\ Serves(t)
  /\ \/ /\ backlog[t] > Capacity
        /\ backlog' = [backlog EXCEPT ![t] = Capacity]
        /\ Enter("select")
        /\ UNCHANGED outgoing
     \/ /\ backlog[t] <= Capacity
        /\ backlog' = [backlog EXCEPT ![t] = @ - 1]
        /\ Enter("writing")
        /\ \/ UNCHANGED outgoing
           \/ \E s \in Slot \ Unacknowledged, x \in Expiries :
                outgoing' = [outgoing EXCEPT ![s] = x]
  /\ UNCHANGED <<stream, arrived, peerVars>>

\* Mutant: the counter goes below zero.
CountSigned(n) == n - 1

\* counter.0 -= 1 on a u32; the release profile wraps.
Count(n) == IF n = 0 THEN CounterMax ELSE n - 1

\* Mutant: expired messages stay in the list.
KeepExpired(s) == IF outgoing[s] = None THEN None ELSE Count(outgoing[s])

\* What is left in a slot after a retry: expired messages are removed.
Retried(s) == IF outgoing[s] \in {None, 1} THEN None ELSE Count(outgoing[s])

\* One second has passed and something is not acknowledged.
retry_outgoing ==
  /\ pc = "select" /\ RetryDue
  /\ outgoing' = [s \in Slot |-> Retried(s)]
  /\ Enter(IF outgoing' = [s \in Slot |-> None] THEN "handling" ELSE "writing")
  /\ UNCHANGED <<stream, arrived, backlog, peerVars>>

\* The keep-alive timer: publish_will, then shutdown.
keep_alive_expired ==
  /\ pc = "select" /\ TimeoutDue
  /\ Enter("timeout")
  /\ UNCHANGED <<stream, arrived, backlog, outgoing, peerVars>>
-----------------------------------------------------------------------------
(* The bodies end. *)

\* A handler that writes nothing is done: the loop starts over.
body_done ==
  /\ pc = "handling"
  /\ Enter("select")
  /\ UNCHANGED <<stream, arrived, backlog, outgoing, peerVars>>

\* write_all has handed the packet to the peer.  It has no timeout: when the peer does not
\* read, the body waits, and with it every branch of select!, the timers included.
write_done ==
  /\ pc = "writing" /\ stream = "open"
  /\ Enter("select")
  /\ UNCHANGED <<stream, arrived, backlog, outgoing, peerVars>>

\* A write fails, and so does the task.
write_failed ==
  /\ pc = "writing" /\ stream # "open"
  /\ Enter("closed")
  /\ UNCHANGED <<stream, arrived, backlog, outgoing, peerVars>>

\* stream.shutdown() after the will: the loop goes on with the write half closed.
shutdown_stream ==
  /\ pc = "timeout"
  /\ stream' = IF stream = "open" THEN "shut" ELSE stream
  /\ Enter("select")
  /\ UNCHANGED <<arrived, backlog, outgoing, peerVars>>

\* The will cannot be acknowledged (panic on its missing identifier), or shutdown fails.
timeout_failed ==
  /\ pc = "timeout"
  /\ Enter("closed")
  /\ UNCHANGED <<stream, arrived, backlog, outgoing, peerVars>>
-----------------------------------------------------------------------------
External ==
  \/ PeerGone
  \/ \E k \in Kind : PeerSends(k)
  \/ \E t \in Topic : Published(t)

EndOfBody == body_done \/ write_done \/ write_failed \/ shutdown_stream \/ timeout_failed

LoopNext ==
  \/ External \/ Tick
  \/ read_packet \/ disconnected \/ retry_outgoing \/ keep_alive_expired
  \/ \E t \in Topic : receive_message(t)
  \/ EndOfBody

LoopSpec == LoopInit /\ [][LoopNext]_vars

\* Time passes, a write to a closed stream fails, and select! polls its branches in random
\* order, so one that is ready again and again is taken.  That bodies end is not assumed.
FairLoop ==
  /\ LoopSpec
  /\ WF_vars(Tick) /\ WF_vars(write_failed) /\ WF_vars(disconnected)
  /\ SF_vars(read_packet) /\ SF_vars(retry_outgoing) /\ SF_vars(keep_alive_expired)
  /\ SF_vars(\E t \in Topic : receive_message(t))

\* The mutex of the topics is granted to this task (Broker's LockReleased says when).
MutexGranted == WF_vars(body_done)

\* The peer reads what is written to it, the end of the stream included.
PeerReads == WF_vars(write_done) /\ WF_vars(shutdown_stream \/ timeout_failed)
-----------------------------------------------------------------------------
LoopTypeOK ==
  /\ pc \in {"select", "handling", "writing", "timeout", "closed"}
  /\ turn \in 0..KeepAlive
  /\ stream \in {"open", "shut", "gone"}
  /\ arrived \in Kind \cup {None}
  /\ DOMAIN backlog \subseteq Topic
  /\ backlog \in [DOMAIN backlog -> 0 .. Capacity + 1]
  /\ outgoing \in [Slot -> 0..CounterMax \cup {None}]
  /\ silence \in 0 .. Timeout + 1 /\ late \in BOOLEAN

\* A peer that sends something at least every Timeout seconds, as the server_keep_alive of
\* the CONNACK asks it to, is never timed out: neither its own packets that wait while a
\* body runs, nor messages, retries and slow writes make the timer fire early.
KeepAliveHonoured == pc = "timeout" \/ stream = "shut" => late

\* When a peer has fallen silent and nothing more is published for it, the broker gives
\* its connection up: the retries, each of which starts the keep-alive timer anew, come to
\* an end, though for a message of interval 0 only after CounterMax of them, each a second
\* or more (2^32 in the code).  The peer must read what is written to it: the timer is not polled while
\* write_all waits (handle_raw_tcp_stream).
SilentPeerTimesOut ==
  MutexGranted /\ PeerReads =>
    (<>[][~External]_vars => <>(pc = "closed" \/ stream # "open"))

\* A topic is starved only by topics before it: once these have no messages, t is read
\* again and again for as long as it has some, however many packets a peer sends that
\* reads its own, and whatever is to be retried (ReceiverFuture).
TopicServed ==
  MutexGranted /\ PeerReads =>
    \A t \in Topic :
      <>[](\A u \in Ready : u >= t) =>
        \/ []<>(t \notin Ready \/ pc = "closed")
        \/ []<><<receive_message(t)>>_vars
=============================================================================
