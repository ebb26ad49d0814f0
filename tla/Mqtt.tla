-------------------------------- MODULE Mqtt --------------------------------
(***************************************************************************)
(* The values of the mqtt_v5_fork crate that the broker's control depends  *)
(* on.  A topic name is represented by its rank in the lexicographic order *)
(* of names, the order in which a BTreeMap<String, _> is iterated.  The    *)
(* payload of a message is not represented: a message that was broadcast   *)
(* is named by its topic and its position in that topic's log.             *)
(***************************************************************************)
EXTENDS Integers, Sequences

CONSTANTS
  Topic,   \* topic names, as ranks
  None     \* Rust's None

ASSUME TopicAssumption == Topic \subseteq Nat /\ None \notin Nat

QoS == 0..2    \* AtMostOnce, AtLeastOnce, ExactlyOnce

\* A PublishPacket: only the fields the broker branches on.
Packet == [topic: Topic, qos: QoS, retain: BOOLEAN,
           packet_id: Nat \cup {None}, expiry: Nat \cup {None}]

\* The three kinds of TopicFilter the handlers tell apart.
Filter == [kind: {"concrete", "wildcard", "shared"}, topic: Topic]

\* The decoder gives a PUBLISH a packet identifier exactly when its QoS needs one.
Decoded(p) == (p.qos = 0) <=> (p.packet_id = None)

\* PublishPacket::from(FinalWill): a will has no packet identifier.
FromWill(w) == w.packet_id = None
=============================================================================
