-------------------------- MODULE RefinementProofs --------------------------
(***************************************************************************)
(* Broker implements PubSub, for every set of clients, topics and packets  *)
(* and every bound; the safety properties proved of PubSub carry over.     *)
(***************************************************************************)
EXTENDS BrokerProofs

\* A step that neither enters nor leaves a critical section keeps the mapped retained
\* messages.
LEMMA KeepRetained ==
  ASSUME UNCHANGED <<log, retained>>,
         \A d \in Client : /\ (pc'[d] = "sent") <=> (pc[d] = "sent")
                           /\ pc[d] = "sent" => job'[d] = job[d]
  PROVE  RetainedBar' = RetainedBar
<1>1. ASSUME NEW t \in Topic PROVE Retaining(t)' = Retaining(t)
  BY DEF Retaining
<1> QED
  BY <1>1 DEF RetainedBar

\* With no publish in progress, the mapped retained messages are the stored ones.
LEMMA Idle ==
  ASSUME TypeOK, \A d \in Client : pc[d] # "sent"
  PROVE  RetainedBar = retained
<1>1. \A t \in Topic : ~Retaining(t)
  BY DEF Retaining
<1>2. \A t \in Topic : RetainedBar[t] = retained[t]
  BY <1>1 DEF RetainedBar
<1> QED
  BY <1>2 DEF RetainedBar, TypeOK, TopicsTypeOK

\* Outside the lookup of the retained message, the mapped receivers are the stored ones.
LEMMA Plain ==
  ASSUME TypeOK, NEW d \in Client, pc[d] # "subscribed"
  PROVE  ReceiversBar[d] = receivers[d]
<1>1. \A t \in Topic : ReceiversBar[d][t] = receivers[d][t]
  BY DEF ReceiversBar
<1>2. receivers[d] \in [Topic -> Receiver \cup {None}]
  BY DEF TypeOK
<1> QED
  BY <1>1, <1>2 DEF ReceiversBar

\* The mapped receivers of a task that does not move.
LEMMA KeepReceivers ==
  ASSUME NEW d \in Client, Same(d), RetainedBar' = RetainedBar
  PROVE  ReceiversBar'[d] = ReceiversBar[d]
<1>1. NextFilter(d)' = NextFilter(d)
  BY DEF Same, NextFilter
<1> QED
  BY <1>1 DEF ReceiversBar, Same
-----------------------------------------------------------------------------
(* One lemma for each kind of step. *)

\* The tasks other than c do not move.
OthersSame(c) == \A d \in Client \ {c} : Same(d)

\* A step of c outside its critical sections changes at most its own receivers.
LEMMA OwnStep ==
  ASSUME TypeOK, TypeOK', NEW c \in Client, OthersSame(c), UNCHANGED <<log, retained>>,
         pc[c] \notin {"sent", "subscribed"}, pc'[c] \notin {"sent", "subscribed"}
  PROVE  /\ RetainedBar' = RetainedBar
         /\ ReceiversBar' = [ReceiversBar EXCEPT ![c] = receivers'[c]]
         /\ ReceiversBar[c] = receivers[c]
<1>1. RetainedBar' = RetainedBar
  <2>1. \A d \in Client : /\ (pc'[d] = "sent") <=> (pc[d] = "sent")
                          /\ pc[d] = "sent" => job'[d] = job[d]
    BY DEF OthersSame, Same
  <2> QED
    BY <2>1, KeepRetained
<1>2. \A d \in Client \ {c} : ReceiversBar'[d] = ReceiversBar[d]
  BY <1>1, KeepReceivers DEF OthersSame
<1>3. ReceiversBar[c] = receivers[c]
  BY Plain
<1>4. ReceiversBar'[c] = receivers'[c]
  <2>1. \A t \in Topic : ReceiversBar'[c][t] = receivers'[c][t]
    BY DEF ReceiversBar
  <2>2. receivers'[c] \in [Topic -> Receiver \cup {None}]
    BY DEF TypeOK
  <2> QED
    BY <2>1, <2>2 DEF ReceiversBar
<1> QED
  BY <1>1, <1>2, <1>3, <1>4 DEF ReceiversBar

\* A step of c that leaves its receivers alone too is a stuttering step.
LEMMA QuietRefines ==
  ASSUME TypeOK, TypeOK', NEW c \in Client, OthersSame(c), UNCHANGED <<log, retained>>,
         pc[c] \notin {"sent", "subscribed"}, pc'[c] \notin {"sent", "subscribed"},
         receivers'[c] = receivers[c]
  PROVE  UNCHANGED Abs!vars
<1>1. /\ RetainedBar' = RetainedBar
      /\ ReceiversBar' = [ReceiversBar EXCEPT ![c] = receivers[c]]
      /\ ReceiversBar[c] = receivers[c]
  BY OwnStep
<1>2. ReceiversBar' = ReceiversBar
  BY <1>1 DEF ReceiversBar
<1> QED
  BY <1>1, <1>2 DEF Abs!vars

\* Dropping some of the receivers of c is an Unsubscribe.
LEMMA DropRefines ==
  ASSUME NEW c \in Client, NEW T \in SUBSET Topic,
         log' = log, RetainedBar' = RetainedBar,
         ReceiversBar' = [ReceiversBar EXCEPT ![c] = receivers'[c]],
         ReceiversBar[c] = receivers[c],
         receivers'[c] = [t \in Topic |-> IF t \in T THEN None ELSE receivers[c][t]]
  PROVE  Abs!Next
<1>1. ReceiversBar' =
        [ReceiversBar EXCEPT ![c] = [t \in Topic |-> IF t \in T THEN None ELSE @[t]]]
  OBVIOUS
<1>2. Abs!Unsubscribe(c, T)
  BY <1>1 DEF Abs!Unsubscribe
<1> QED
  BY <1>2 DEF Abs!Next

\* The end of a task drops all its receivers.
LEMMA EndRefines ==
  ASSUME TypeOK, TypeOK', NEW c \in Client, NEW how \in {"closed", "panicked"},
         EndTask(c, how), log' = log, RetainedBar' = RetainedBar, pc[c] # "subscribed"
  PROVE  Abs!Next
<1>1. OthersSame(c) /\ pc'[c] # "subscribed"
      /\ receivers'[c] = [t \in Topic |-> None]
  BY DEF TypeOK, EndTask, Goto, OthersSame, Same, NoReceivers
<1>2. \A d \in Client \ {c} : ReceiversBar'[d] = ReceiversBar[d]
  BY <1>1, KeepReceivers DEF OthersSame
<1>3. ReceiversBar[c] = receivers[c]
  BY Plain
<1>4. ReceiversBar'[c] = receivers'[c]
  BY <1>1 DEF ReceiversBar
<1>5. ReceiversBar' = [ReceiversBar EXCEPT ![c] = receivers'[c]]
  BY <1>2, <1>4 DEF ReceiversBar
<1>6. receivers'[c] = [t \in Topic |-> IF t \in Topic THEN None ELSE receivers[c][t]]
  BY <1>1
<1> QED
  BY <1>3, <1>5, <1>6, DropRefines

\* The send of a publish is the abstract Publish.
LEMMA SendRefines ==
  ASSUME IInv, TypeOK', NEW c \in Client, topics_send(c)
  PROVE  Abs!Next
<1> DEFINE p == job[c].packet
           u == p.topic
<1>1. p \in Publishes \cup Wills /\ u \in Topic /\ job[c] \in Job
  BY Packets DEF topics_send, IInv, PublishOK, TypeOK
<1>2. Channel(u) = log[u] /\ get_retained_message(u) = retained[u] /\ log[u] \in Seq(Packet)
  BY <1>1, ChannelIsLog DEF IInv, TypeOK, TopicsTypeOK
<1>3. log' = [log EXCEPT ![u] = Append(log[u], p)] /\ retained' = retained
  BY <1>1, <1>2 DEF topics_send, send_message, Store, IInv, TypeOK, TopicsTypeOK
<1>4. /\ \A d \in Client \ {c} : Same(d) /\ pc[d] \notin Critical
      /\ pc[c] = "publish" /\ pc'[c] = "sent" /\ job'[c].packet = p /\ receivers' = receivers
  BY <1>1, BrokerAssumption DEF topics_send, IInv, TypeOK, MutexOK, Goto, Same, session, Job
<1>5. RetainedBar = retained
  BY <1>4, Idle DEF Critical, IInv
<1>6. \A t \in Topic : Retaining(t)' <=> (t = u /\ p.retain)
  BY <1>4 DEF Retaining, Same, Critical
<1>7. Len(log'[u]) = Len(log[u]) + 1
  BY <1>1, <1>2, <1>3 DEF IInv, TypeOK, TopicsTypeOK
<1>8. RetainedBar' = IF p.retain THEN [RetainedBar EXCEPT ![u] = Len(log[u]) + 1] ELSE RetainedBar
  <2>1. \A t \in Topic : RetainedBar'[t] = IF t = u /\ p.retain THEN Len(log[u]) + 1 ELSE retained[t]
    BY <1>3, <1>6, <1>7 DEF RetainedBar
  <2> QED
    BY <2>1, <1>5, <1>1 DEF RetainedBar
<1>9. ReceiversBar' = ReceiversBar
  <2>1. \A d \in Client : pc[d] # "subscribed" /\ pc'[d] # "subscribed"
    BY <1>4 DEF Critical, Same
  <2> QED
    BY <2>1, <1>4 DEF ReceiversBar
<1>10. Abs!Publish(p)
  BY <1>3, <1>8, <1>9 DEF Abs!Publish
<1> QED
  BY <1>1, <1>10 DEF Abs!Next

\* Storing the retained message is a stuttering step, or the end of a task.
LEMMA RetainRefines ==
  ASSUME IInv, TypeOK', NEW c \in Client, topics_retain(c)
  PROVE  Abs!Next \/ UNCHANGED Abs!vars
<1> DEFINE p == job[c].packet
           u == p.topic
<1>1. p \in Publishes \cup Wills /\ u \in Topic /\ job[c].at = Len(log[u]) /\ pc[c] = "sent"
  BY Packets DEF topics_retain, IInv, PublishOK
<1>2. log' = log /\ retained' = IF p.retain THEN [retained EXCEPT ![u] = Len(log[u])] ELSE retained
  BY <1>1 DEF topics_retain, retain_message
<1>3. \A d \in Client \ {c} : pc[d] \notin Critical
  BY <1>1 DEF IInv, MutexOK, Critical
<1>4. OthersSame(c) /\ pc'[c] \notin {"sent", "subscribed"}
  BY DEF topics_retain, EndTask, Goto, session, IInv, TypeOK, Job, OthersSame, Same
<1>5. RetainedBar' = RetainedBar
  <2>1. \A t \in Topic : ~Retaining(t)'
    BY <1>3, <1>4 DEF Retaining, OthersSame, Same, Critical
  <2>2. \A t \in Topic : Retaining(t) <=> (t = u /\ p.retain)
    BY <1>1, <1>3 DEF Retaining, Critical
  <2>3. \A t \in Topic : RetainedBar'[t] = RetainedBar[t]
    BY <2>1, <2>2, <1>1, <1>2 DEF RetainedBar, IInv, TypeOK, TopicsTypeOK
  <2> QED
    BY <2>3 DEF RetainedBar
<1>6. CASE EndTask(c, "closed") \/ EndTask(c, "panicked")
  BY <1>1, <1>2, <1>5, <1>6, EndRefines DEF IInv
<1>7. CASE UNCHANGED <<job, stream, session>>
  <2>1. \A d \in Client : pc[d] # "subscribed" /\ pc'[d] # "subscribed"
    BY <1>1, <1>3, <1>4 DEF OthersSame, Same, Critical
  <2>2. ReceiversBar' = ReceiversBar
    BY <2>1, <1>7 DEF ReceiversBar, session
  <2> QED
    BY <2>2, <1>2, <1>5 DEF Abs!vars
<1> QED
  BY <1>6, <1>7 DEF topics_retain

\* Creating the receiver is the abstract Subscribe.
LEMMA SubscribeRefines ==
  ASSUME IInv, TypeOK', NEW c \in Client, subscribe_filter(c)
  PROVE  Abs!Next
<1> DEFINE u == NextFilter(c).topic
           r == [start |-> Len(log[u]), next |-> Len(log[u]), snap |-> RetainedBar[u]]
<1>1. u \in Topic
  BY FilterTopic DEF subscribe_filter, IInv
<1>2. Channel(u) = log[u] /\ get_retained_message(u) = retained[u]
  BY <1>1, ChannelIsLog DEF IInv
<1>3. log' = log /\ retained' = retained
  BY <1>1, <1>2 DEF subscribe_filter, subscribe, Store, IInv, TypeOK, TopicsTypeOK
<1>4. /\ \A d \in Client : pc[d] \notin Critical
      /\ \A d \in Client \ {c} : pc'[d] = pc[d]
      /\ pc'[c] = "subscribed" /\ NextFilter(c)' = NextFilter(c)
      /\ receivers' = [receivers EXCEPT ![c][u] = new_receiver(u)]
  BY BrokerAssumption DEF subscribe_filter, IInv, TypeOK, MutexOK, Goto, NextFilter
<1>5. RetainedBar = retained /\ RetainedBar' = RetainedBar
  <2>1. \A d \in Client : pc[d] # "sent" /\ pc'[d] # "sent"
    BY <1>4 DEF Critical
  <2> QED
    BY <2>1, <1>3, Idle, KeepRetained DEF IInv
<1>6. \A d \in Client : ReceiversBar[d] = receivers[d]
  BY <1>4, Plain DEF Critical, IInv
<1>7. new_receiver(u) = [start |-> Len(log[u]), next |-> Len(log[u]), snap |-> 0]
  BY <1>2 DEF new_receiver
<1>8. [new_receiver(u) EXCEPT !.snap = RetainedBar'[u]] = r
  BY <1>7, <1>5
<1> HIDE DEF r
<1>9. \A d \in Client, t \in Topic :
        ReceiversBar'[d][t] = IF d = c /\ t = u THEN r ELSE ReceiversBar[d][t]
  <2> SUFFICES ASSUME NEW d \in Client, NEW t \in Topic
               PROVE  ReceiversBar'[d][t] = IF d = c /\ t = u THEN r ELSE ReceiversBar[d][t]
    OBVIOUS
  <2>1. CASE d = c /\ t = u
    <3>1. receivers'[c][u] = new_receiver(u)
      BY <1>1, <1>4 DEF IInv, TypeOK
    <3> QED
      BY <2>1, <3>1, <1>1, <1>4, <1>8 DEF ReceiversBar
  <2>2. CASE d = c /\ t # u
    <3>1. receivers'[d][t] = receivers[d][t]
      BY <2>2, <1>1, <1>4 DEF IInv, TypeOK
    <3> QED
      BY <2>2, <3>1, <1>4, <1>6 DEF ReceiversBar
  <2>3. CASE d # c
    <3>1. receivers'[d][t] = receivers[d][t] /\ pc'[d] # "subscribed"
      BY <2>3, <1>1, <1>4 DEF IInv, TypeOK, Critical
    <3> QED
      BY <2>3, <3>1, <1>6 DEF ReceiversBar
  <2> QED
    BY <2>1, <2>2, <2>3
<1>10. ReceiversBar' = [ReceiversBar EXCEPT ![c][u] = r]
  <2>1. ReceiversBar'[c] = [ReceiversBar[c] EXCEPT ![u] = r]
    <3>1. /\ ReceiversBar'[c] = [t \in Topic |-> ReceiversBar'[c][t]]
          /\ ReceiversBar[c] = [t \in Topic |-> ReceiversBar[c][t]]
      BY DEF ReceiversBar
    <3> QED
      BY <3>1, <1>1, <1>9
  <2>2. \A d \in Client \ {c} : ReceiversBar'[d] = ReceiversBar[d]
    <3>1. \A d \in Client : /\ ReceiversBar'[d] = [t \in Topic |-> ReceiversBar'[d][t]]
                            /\ ReceiversBar[d] = [t \in Topic |-> ReceiversBar[d][t]]
      BY DEF ReceiversBar
    <3> QED
      BY <3>1, <1>9
  <2> QED
    BY <2>1, <2>2 DEF ReceiversBar
<1>11. Abs!Subscribe(c, u)
  BY <1>3, <1>5, <1>10 DEF Abs!Subscribe, r
<1> QED
  BY <1>1, <1>11 DEF Abs!Next

\* Looking up the retained message is a stuttering step.
LEMMA LookupRefines ==
  ASSUME IInv, TypeOK', NEW c \in Client, read_retained(c)
  PROVE  UNCHANGED Abs!vars
<1> DEFINE u == NextFilter(c).topic
<1>1. u \in Topic /\ receivers[c][u] # None
  BY FilterTopic DEF read_retained, IInv, SubscribeOK
<1>2. get_retained_message(u) = retained[u] /\ log' = log /\ retained' = retained
  BY <1>1, ChannelIsLog DEF IInv, read_retained, topicsVars
<1>3. /\ pc[c] = "subscribed" /\ pc'[c] = "send_retained"
      /\ \A d \in Client \ {c} : Same(d) /\ pc[d] \notin Critical
      /\ receivers' = [receivers EXCEPT ![c][u].snap = retained[u]]
  BY <1>2 DEF read_retained, IInv, TypeOK, MutexOK, Critical, Goto, Same
<1>4. RetainedBar = retained /\ RetainedBar' = RetainedBar
  <2>1. \A d \in Client : pc[d] # "sent" /\ pc'[d] # "sent"
    BY <1>3 DEF Critical, Same
  <2> QED
    BY <2>1, <1>2, Idle, KeepRetained DEF IInv
<1>5. \A d \in Client \ {c} : ReceiversBar'[d] = ReceiversBar[d]
  BY <1>3, <1>4, KeepReceivers
<1>6. \A t \in Topic : ReceiversBar'[c][t] = ReceiversBar[c][t]
  <2> SUFFICES ASSUME NEW t \in Topic PROVE ReceiversBar'[c][t] = ReceiversBar[c][t]
    OBVIOUS
  <2>1. ReceiversBar'[c][t] = receivers'[c][t]
    BY <1>3 DEF ReceiversBar
  <2>2. CASE t = u
    <3>1. receivers'[c][t] = [receivers[c][t] EXCEPT !.snap = retained[t]]
      BY <2>2, <1>1, <1>3 DEF IInv, TypeOK
    <3> QED
      BY <2>1, <2>2, <3>1, <1>3, <1>4 DEF ReceiversBar
  <2>3. CASE t # u
    <3>1. receivers'[c][t] = receivers[c][t]
      BY <2>3, <1>1, <1>3 DEF IInv, TypeOK
    <3> QED
      BY <2>1, <2>3, <3>1 DEF ReceiversBar
  <2> QED
    BY <2>2, <2>3
<1>7. ReceiversBar' = ReceiversBar
  BY <1>5, <1>6 DEF ReceiversBar
<1> QED
  BY <1>2, <1>4, <1>7 DEF Abs!vars

\* A recv is the abstract Deliver or, for a receiver that was overrun, Overrun.
LEMMA RecvRefines ==
  ASSUME IInv, TypeOK', NEW c \in Client, receive_message(c)
  PROVE  Abs!Next
<1>1. PICK t \in Ready(c) : receivers' = [receivers EXCEPT ![c][t].next = recv(t, receivers[c][t].next)]
  BY DEF receive_message
<1> DEFINE n == receivers[c][t].next
<1>2. t \in Topic /\ receivers[c][t] # None /\ n < Len(log[t])
  BY DEF Ready
<1>3. receivers[c][t] \in Receiver /\ log[t] \in Seq(Packet)
  BY <1>2 DEF IInv, TypeOK, TopicsTypeOK
<1>4. n \in Nat /\ Len(log[t]) \in Nat
  BY <1>3 DEF Receiver
<1>5. /\ OthersSame(c) /\ UNCHANGED <<log, retained>>
      /\ pc[c] = "select" /\ pc'[c] = "write"
  BY DEF receive_message, Reply, Goto, topicsVars, IInv, TypeOK, OthersSame, Same
<1>6. /\ RetainedBar' = RetainedBar
      /\ ReceiversBar' = [ReceiversBar EXCEPT ![c] = receivers'[c]]
      /\ ReceiversBar[c] = receivers[c]
  BY <1>5, OwnStep DEF IInv
<1>7. receivers'[c] = [receivers[c] EXCEPT ![t].next = recv(t, n)]
  BY <1>1 DEF IInv, TypeOK
<1>8. ReceiversBar' = [ReceiversBar EXCEPT ![c][t].next = recv(t, n)]
  BY <1>6, <1>7
<1>9. ReceiversBar[c][t] = receivers[c][t]
  BY <1>6
<1>10. CASE Lagged(t, n)
  <2>1. recv(t, n) = Len(log[t]) - Capacity
    BY <1>10 DEF recv
  <2>2. Abs!Overrun(c, t)
    BY <2>1, <1>2, <1>5, <1>6, <1>8, <1>9, <1>10
    DEF Abs!Overrun, Abs!Subscribed, Abs!Backlog, Lagged
  <2> QED
    BY <2>2, <1>2 DEF Abs!Next
<1>11. CASE ~Lagged(t, n)
  <2>1. recv(t, n) = n + 1
    BY <1>11 DEF recv
  <2>2. Len(log[t]) - n \in 1..Capacity
    BY <1>2, <1>4, <1>11, CapacityAssumption DEF Lagged
  <2>3. ReceiversBar' = [ReceiversBar EXCEPT ![c][t].next = @ + 1]
    BY <2>1, <1>8, <1>9
  <2>4. Abs!Deliver(c, t)
    BY <2>2, <2>3, <1>2, <1>5, <1>6, <1>9
    DEF Abs!Deliver, Abs!Subscribed, Abs!Backlog
  <2> QED
    BY <2>4, <1>2 DEF Abs!Next
<1> QED
  BY <1>10, <1>11
-----------------------------------------------------------------------------
\* Every step of a connection task is a step of PubSub or invisible to it.
LEMMA StepRefines == IInv /\ TypeOK' /\ [Next]_vars => [Abs!Next]_(Abs!vars)
<1> SUFFICES ASSUME IInv, TypeOK', [Next]_vars PROVE Abs!Next \/ UNCHANGED Abs!vars
  OBVIOUS
<1>0. TypeOK
  BY DEF IInv
<1>1. ASSUME UNCHANGED <<topicsVars, pc, job, receivers>> PROVE UNCHANGED Abs!vars
  <2>1. RetainedBar' = RetainedBar
    BY <1>1, KeepRetained DEF topicsVars
  <2>2. ReceiversBar' = ReceiversBar
    BY <1>1, <2>1 DEF ReceiversBar, NextFilter
  <2> QED
    BY <1>1, <2>1, <2>2 DEF Abs!vars, topicsVars
<1>2. ASSUME NEW c \in Client, EndTask(c, "closed"), UNCHANGED topicsVars,
             pc[c] \notin {"sent", "subscribed"}
      PROVE  Abs!Next
  <2>1. OthersSame(c) /\ pc'[c] = "closed"
    BY <1>0, <1>2 DEF TypeOK, EndTask, Goto, OthersSame, Same
  <2>2. RetainedBar' = RetainedBar
    BY <1>0, <1>2, <2>1, OwnStep DEF topicsVars
  <2> QED
    BY <1>0, <1>2, <2>2, EndRefines DEF topicsVars
<1>3. ASSUME NEW c \in Client,
             write_failed(c) \/ disconnected(c) \/ handle_unknown_packet(c) \/ shutdown_failed(c)
      PROVE  Abs!Next
  <2>1. /\ EndTask(c, "closed") /\ UNCHANGED topicsVars
        /\ pc[c] \notin {"sent", "subscribed"}
    BY <1>3 DEF write_failed, disconnected, handle_unknown_packet, shutdown_failed, Writing, Reads
  <2> QED
    BY <2>1, <1>2
<1>4. ASSUME NEW c \in Client, UNCHANGED <<topicsVars, receivers>>, OthersSame(c),
             pc[c] \notin {"sent", "subscribed"}, pc'[c] \notin {"sent", "subscribed"}
      PROVE  UNCHANGED Abs!vars
  BY <1>0, <1>4, QuietRefines DEF topicsVars
<1>5. ASSUME NEW c \in Client,
             \/ Client_new(c) \/ loop(c) \/ handle_connect_packet(c) \/ handle_pingreq_packet(c)
             \/ handle_publishack_packet(c) \/ handle_subscribe_packet(c) \/ refuse_filter(c)
             \/ send_suback(c) \/ shutdown_stream(c) \/ retry_outgoing(c) \/ unlock_topics(c)
             \/ /\ pc[c] = "select" /\ Goto(c, "shutdown")
                /\ UNCHANGED <<topicsVars, lock, job, todo, stream, session>>
      PROVE  UNCHANGED Abs!vars
  <2>1. UNCHANGED <<topicsVars, receivers>>
    BY <1>5 DEF Client_new, loop, handle_connect_packet, handle_pingreq_packet, unlock_topics,
       handle_publishack_packet, handle_subscribe_packet, refuse_filter, send_suback,
       shutdown_stream, retry_outgoing, session
  <2>2. /\ pc[c] \notin {"sent", "subscribed"}
        /\ \E to \in {"select", "write", "subscribe", "shutdown"} : pc' = [pc EXCEPT ![c] = to]
    BY <1>0, <1>5 DEF Client_new, loop, handle_connect_packet, handle_pingreq_packet, Reads,
       handle_publishack_packet, handle_subscribe_packet, refuse_filter, send_suback, unlock_topics,
       shutdown_stream, retry_outgoing, Reply, Goto, TypeOK
  <2>3. \A d \in Client \ {c} : job'[d] = job[d]
    BY <1>0, <1>5 DEF TypeOK, Client_new, loop, handle_connect_packet, handle_pingreq_packet,
       handle_publishack_packet, handle_subscribe_packet, refuse_filter, send_suback, unlock_topics,
       shutdown_stream, retry_outgoing
  <2>4. OthersSame(c) /\ pc'[c] \notin {"sent", "subscribed"}
    BY <1>0, <2>1, <2>2, <2>3 DEF TypeOK, OthersSame, Same
  <2> QED
    BY <2>1, <2>2, <2>4, <1>4
<1>6. ASSUME NEW c \in Client, NEW p, NEW after, pc[c] = "select", AwaitPublish(c, p, after)
      PROVE  UNCHANGED Abs!vars
  <2>1. OthersSame(c) /\ pc'[c] = "publish" /\ UNCHANGED <<topicsVars, receivers>>
    BY <1>0, <1>6 DEF TypeOK, AwaitPublish, Goto, session, OthersSame, Same
  <2> QED
    BY <1>6, <2>1, <1>4
<1>7. ASSUME NEW c \in Client, receive_publish(c) \/ keep_alive_expired(c)
      PROVE  UNCHANGED Abs!vars
  BY <1>5, <1>6, <1>7 DEF receive_publish, keep_alive_expired, Reads
<1>8. ASSUME NEW c \in Client, handle_disconnect_packet(c)
      PROVE  Abs!Next \/ UNCHANGED Abs!vars
  BY <1>2, <1>6, <1>8 DEF handle_disconnect_packet, Reads
<1>9. ASSUME NEW c \in Client, handle_unsubscribe_packet(c) PROVE Abs!Next
  <2>1. PICK fs \in Subscriptions :
          receivers' = [receivers EXCEPT ![c] =
                          [t \in Topic |-> IF t \in Concrete(fs) THEN None ELSE @[t]]]
    BY <1>9 DEF handle_unsubscribe_packet
  <2> DEFINE T == Concrete(fs) \cap Topic
  <2>2. receivers'[c] = [t \in Topic |-> IF t \in T THEN None ELSE receivers[c][t]]
    BY <1>0, <2>1 DEF TypeOK
  <2>3. /\ OthersSame(c) /\ UNCHANGED <<log, retained>>
        /\ pc[c] = "select" /\ pc'[c] = "write"
    BY <1>0, <1>9 DEF handle_unsubscribe_packet, Reads, Reply, Goto, topicsVars, TypeOK, OthersSame, Same
  <2>4. /\ RetainedBar' = RetainedBar
        /\ ReceiversBar' = [ReceiversBar EXCEPT ![c] = receivers'[c]]
        /\ ReceiversBar[c] = receivers[c]
    BY <1>0, <2>3, OwnStep
  <2>5. T \in SUBSET Topic
    OBVIOUS
  <2> HIDE DEF T
  <2> QED
    BY <2>2, <2>3, <2>4, <2>5, DropRefines
<1>10. ASSUME NEW c \in Client, PeerGone(c) \/ write_to_stream(c) PROVE UNCHANGED Abs!vars
  BY <1>1, <1>10 DEF PeerGone, write_to_stream, session
<1>11. ASSUME NEW c \in Client,
              topics_send(c) \/ topics_retain(c) \/ subscribe_filter(c) \/ read_retained(c)
              \/ receive_message(c)
       PROVE  Abs!Next \/ UNCHANGED Abs!vars
  BY <1>11, SendRefines, RetainRefines, SubscribeRefines, LookupRefines, RecvRefines
<1>12. CASE UNCHANGED vars
  BY <1>1, <1>12 DEF vars, topicsVars
<1> QED
  BY <1>3, <1>5, <1>7, <1>8, <1>9, <1>10, <1>11, <1>12 DEF Next, ReadPacket

\* The broker starts in an initial state of PubSub.
LEMMA InitRefines == Init => Abs!Init
<1> SUFFICES ASSUME Init PROVE Abs!Init
  OBVIOUS
<1>1. \A t \in Topic : ~Retaining(t)
  BY DEF Init, Retaining
<1>2. RetainedBar = [t \in Topic |-> 0]
  BY <1>1 DEF Init, TopicsInit, RetainedBar
<1>3. ReceiversBar = [c \in Client |-> [t \in Topic |-> None]]
  BY DEF Init, ReceiversBar, NoReceivers
<1> QED
  BY <1>2, <1>3 DEF Init, TopicsInit, Abs!Init

\* The connection tasks implement the atomic broker, for every number of clients.
THEOREM BrokerImplementsPubSub == Spec => ImplementsPubSub
<1>1. Spec => []IInv
  BY Inductive
<1>2. IInv /\ IInv' /\ [Next]_vars => [Abs!Next]_(Abs!vars)
  BY StepRefines DEF IInv
<1> QED
  BY <1>1, <1>2, InitRefines, PTL DEF Spec, ImplementsPubSub, Abs!Spec

AbsProofs == INSTANCE PubSubProofs WITH
  Message <- Publishes \cup Wills, retained <- RetainedBar, receivers <- ReceiversBar

\* The safety of the atomic broker holds of the connection tasks under the mapping.
LEMMA AbstractSafety == Spec => [](RetainedIsNewest /\ SnapshotMeetsStream)
<1>1. AbsProofs!Legal
  BY BrokerAssumption, CapacityAssumption, ReceiverAssumption
  DEF AbsProofs!Legal, AbsProofs!Packet, Packet, AbsProofs!QoS, QoS, AbsProofs!Receiver, Receiver
<1>2. AbsProofs!Spec => [](AbsProofs!TypeOK /\ AbsProofs!RetainedIsNewest /\ AbsProofs!SnapshotMeetsStream)
  <2>1. Topic \subseteq Nat /\ None \notin Nat
    BY TopicAssumption
  <2> QED
    BY <1>1, <2>1, AbsProofs!PubSubSafety, PTL
<1>3. Abs!Init => AbsProofs!Init
  BY DEF Abs!Init, AbsProofs!Init
<1>4. [Abs!Next]_(Abs!vars) => [AbsProofs!Next]_(AbsProofs!vars)
  BY DEF Abs!Next, AbsProofs!Next, Abs!vars, AbsProofs!vars, Abs!Publish, AbsProofs!Publish,
     Abs!Subscribe, AbsProofs!Subscribe, Abs!Deliver, AbsProofs!Deliver, Abs!Overrun,
     AbsProofs!Overrun, Abs!Unsubscribe, AbsProofs!Unsubscribe, Abs!Subscribed,
     AbsProofs!Subscribed, Abs!Backlog, AbsProofs!Backlog
<1>5. AbsProofs!RetainedIsNewest => RetainedIsNewest
  BY DEF RetainedIsNewest, Abs!RetainedIsNewest, AbsProofs!RetainedIsNewest,
     Abs!IsNewestRetained, AbsProofs!IsNewestRetained
<1>6. AbsProofs!SnapshotMeetsStream => SnapshotMeetsStream
  BY DEF SnapshotMeetsStream, Abs!SnapshotMeetsStream, AbsProofs!SnapshotMeetsStream,
     Abs!IsNewestRetained, AbsProofs!IsNewestRetained, Abs!Subscribed, AbsProofs!Subscribed
<1> QED
  BY <1>2, <1>3, <1>4, <1>5, <1>6, BrokerImplementsPubSub, PTL
  DEF ImplementsPubSub, Abs!Spec, AbsProofs!Spec

\* For every number of clients: whenever no publish is in progress, what a topic has
\* retained is the newest message broadcast with the retain flag (Topics::publish).
THEOREM BrokerRetainedIsNewest == Spec => []RetainedIsNewest
BY AbstractSafety, PTL

\* For every number of clients and every capacity: the retained message that answers a
\* SUBSCRIBE and the messages on the new receiver leave no gap and do not overlap, although
\* receiver and retained message are obtained in two steps (handle_subscribe_packet).
THEOREM BrokerSnapshotMeetsStream == Spec => []SnapshotMeetsStream
BY AbstractSafety, PTL
=============================================================================
