------------------------------- MODULE PubSub -------------------------------
(***************************************************************************)
(* What the broker promises its clients, with every operation atomic: a    *)
(* publish is broadcast and retained in one step; a subscription starts at *)
(* the end of the topic's log and is given, in the same step, the message  *)
(* retained at that moment; a subscriber then consumes the log in order,   *)
(* one message at a time, and loses messages only when it falls more than  *)
(* Capacity behind.                                                        *)
(***************************************************************************)
EXTENDS Mqtt

CONSTANTS
  Client,
  Message,   \* the packets that may be published
  Capacity   \* messages a channel keeps for its slowest subscriber

VARIABLES
  log,        \* log[t]: the messages broadcast on t, oldest first
  retained,   \* retained[t]: position in log[t] of the retained message, 0 for none
  receivers   \* receivers[c][t]: the subscription of c to t, or None

vars == <<log, retained, receivers>>

\* start: end of the log when the subscription began; next: messages consumed;
\* snap: the message that was retained when the subscription began.
Receiver == [start: Nat, next: Nat, snap: Nat]

\* What the constants must satisfy, where the module is instantiated.
Legal == Message \subseteq Packet /\ Capacity \in Nat \ {0} /\ None \notin Receiver

Subscribed(c, t) == receivers[c][t] # None
Backlog(c, t) == Len(log[t]) - receivers[c][t].next

Init ==
  /\ log = [t \in Topic |-> <<>>]
  /\ retained = [t \in Topic |-> 0]
  /\ receivers = [c \in Client |-> [t \in Topic |-> None]]

Publish(p) ==
  /\ log' = [log EXCEPT ![p.topic] = Append(@, p)]
  /\ retained' = IF p.retain
                 THEN [retained EXCEPT ![p.topic] = Len(log[p.topic]) + 1]
                 ELSE retained
  /\ UNCHANGED receivers

Subscribe(c, t) ==
  /\ receivers' = [receivers EXCEPT ![c][t] =
       [start |-> Len(log[t]), next |-> Len(log[t]), snap |-> retained[t]]]
  /\ UNCHANGED <<log, retained>>

Deliver(c, t) ==
  /\ Subscribed(c, t)
  /\ Backlog(c, t) \in 1..Capacity
  /\ receivers' = [receivers EXCEPT ![c][t].next = @ + 1]
  /\ UNCHANGED <<log, retained>>

Overrun(c, t) ==
  /\ Subscribed(c, t)
  /\ Backlog(c, t) > Capacity
  /\ receivers' = [receivers EXCEPT ![c][t].next = Len(log[t]) - Capacity]
  /\ UNCHANGED <<log, retained>>

Unsubscribe(c, T) ==
  /\ receivers' = [receivers EXCEPT ![c] = [t \in Topic |-> IF t \in T THEN None ELSE @[t]]]
  /\ UNCHANGED <<log, retained>>

Next ==
  \/ \E p \in Message : Publish(p)
  \/ \E c \in Client, t \in Topic : Subscribe(c, t) \/ Deliver(c, t) \/ Overrun(c, t)
  \/ \E c \in Client, T \in SUBSET Topic : Unsubscribe(c, T)

Spec == Init /\ [][Next]_vars
-----------------------------------------------------------------------------
TypeOK ==
  /\ log \in [Topic -> Seq(Message)]
  /\ retained \in [Topic -> Nat]
  /\ receivers \in [Client -> [Topic -> Receiver \cup {None}]]

\* k is the newest of the first n messages of t that asked to be retained, 0 if none did.
IsNewestRetained(t, n, k) ==
  /\ k \in 0..n
  /\ k > 0 => log[t][k].retain
  /\ \A i \in k + 1 .. n : ~log[t][i].retain

\* The retained message of a topic is the newest one broadcast with the retain
\* flag (Topics::publish, src/topics.rs).
RetainedIsNewest == \A t \in Topic : IsNewestRetained(t, Len(log[t]), retained[t])

\* The message a subscriber is given on subscribing is the newest retained message
\* before the point where its stream starts: none is missed between the two and
\* none is delivered twice (handle_subscribe_packet, src/tcp_handling.rs).
SnapshotMeetsStream ==
  \A c \in Client, t \in Topic :
    Subscribed(c, t) =>
      /\ IsNewestRetained(t, receivers[c][t].start, receivers[c][t].snap)
      /\ receivers[c][t].start <= receivers[c][t].next
      /\ receivers[c][t].next <= Len(log[t])
=============================================================================
