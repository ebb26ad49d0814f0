------------------------------- MODULE Topics -------------------------------
(***************************************************************************)
(* src/topics.rs: the map from topic names to broadcast channels, each     *)
(* with its retained message.  The operations are action fragments: the    *)
(* tasks that call them hold the mutex around Topics and are modelled in   *)
(* Broker.                                                                 *)
(*                                                                         *)
(* A tokio broadcast channel is modelled by the log of what was sent on it *)
(* since it was created; a receiver is a cursor into that log and can read *)
(* only the newest Capacity messages.  A message sent while nobody listens *)
(* is not stored by tokio; here it is in the log, before the cursor of     *)
(* every later receiver, which is as good as not stored.                   *)
(***************************************************************************)
EXTENDS Mqtt

CONSTANT Capacity   \* the slots of a broadcast channel: channel(1024)

ASSUME CapacityAssumption == Capacity \in Nat \ {0}

VARIABLES
  names,     \* the keys of the map
  log,       \* log[t]: the messages sent on the channel of t, oldest first
  retained   \* retained[t]: position in log[t] of retained_message, 0 for None

topicsVars == <<names, log, retained>>

\* A broadcast::Receiver.  next is its cursor.  start and snap are history: where the
\* cursor started and which retained message was read for the subscription.
Receiver == [start: Nat, next: Nat, snap: Nat]
ASSUME ReceiverAssumption == None \notin Receiver

TopicsTypeOK ==
  /\ names \subseteq Topic
  /\ log \in [Topic -> Seq(Packet)]
  /\ retained \in [Topic -> Nat]

TopicsInit ==
  /\ names = {}
  /\ log = [t \in Topic |-> <<>>]
  /\ retained = [t \in Topic |-> 0]

\* Mutant: the lookup before `add` is dropped, so every operation replaces the channel.
FreshChannel(t) == <<>>

\* The channel an operation on t works on: the existing one, or the one `add` creates.
Channel(t) == IF t \in names THEN log[t] ELSE <<>>
get_retained_message(t) == IF t \in names THEN retained[t] ELSE 0

\* After an operation the channel of t exists and has sent l.
Store(t, l) ==
  /\ names' = names \cup {t}
  /\ log' = [log EXCEPT ![t] = l]
  /\ retained' = [retained EXCEPT ![t] = get_retained_message(t)]

\* Topics::subscribe: a receiver that will see what is sent from now on.
subscribe(t) == Store(t, Channel(t))
new_receiver(t) == [start |-> Len(Channel(t)), next |-> Len(Channel(t)), snap |-> 0]

\* Topics::publish, first half: create the channel if needed and send on it.
send_message(p) == Store(p.topic, Append(Channel(p.topic), p))

\* Mutant: every message is retained, whatever its flag says.
retain_always(p, k) ==
  /\ retained' = [retained EXCEPT ![p.topic] = k]
  /\ UNCHANGED <<names, log>>

\* Topics::publish, second half: keep the message just sent if it asks to be kept.
retain_message(p, k) ==
  /\ retained' = IF p.retain THEN [retained EXCEPT ![p.topic] = k] ELSE retained
  /\ UNCHANGED <<names, log>>

\* Mutant: an overrun receiver restarts at the end of the log.
SkipAll(t, n) == IF Len(log[t]) - n > Capacity THEN Len(log[t]) ELSE n + 1

\* Receiver::recv for a cursor n with something to read: a receiver that was overrun gets
\* Err(Lagged) and continues at the oldest message still kept.
Lagged(t, n) == Len(log[t]) - n > Capacity
recv(t, n) == IF Lagged(t, n) THEN Len(log[t]) - Capacity ELSE n + 1
=============================================================================
