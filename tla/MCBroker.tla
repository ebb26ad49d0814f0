------------------------------ MODULE MCBroker ------------------------------
(***************************************************************************)
(* Small instances of Broker: the packets peers may send in each run.      *)
(***************************************************************************)
EXTENDS BrokerCorrectness, TLC

CONSTANTS c1, c2

Clients == Permutations(Client)

Msg(t, q, r, id, x) == [topic |-> t, qos |-> q, retain |-> r, packet_id |-> id, expiry |-> x]
Filt(k, t) == [kind |-> k, topic |-> t]

\* One retained message; with QoS 2, which is broadcast and answered like QoS 0.
MCRetained == {Msg(1, 0, TRUE, None, None)}
MCRetainedQoS2 == {Msg(1, 2, TRUE, 1, None)}
\* QoS 1 messages with distinct identifiers: expiry interval 2, zero, and none.
MCQoS1 == {Msg(2, 1, FALSE, 1, 2), Msg(2, 1, FALSE, 2, 0), Msg(2, 1, FALSE, 3, None)}
\* Two publishers that both start counting at 1.
MCSameId == {Msg(1, 1, FALSE, 1, 2)}
\* Wills: the task that publishes the one with QoS 1 panics.
MCWillsQoS1 == {Msg(1, 1, FALSE, None, None)}
MCWills == {Msg(1, 0, TRUE, None, None)} \cup MCWillsQoS1

\* One topic; two topics in one packet, with filters the broker refuses between them.
MCOne == {<<Filt("concrete", 1)>>}
MCTwo == {<<Filt("concrete", 1), Filt("wildcard", 1), Filt("shared", 1), Filt("concrete", 2)>>}
=============================================================================
