--------------------------- MODULE ClusterProofs ----------------------------
(***************************************************************************)
(* LoadFindsNoTopic, LoggedOnce and ClusterTypeOK of Cluster, for any      *)
(* number of brokers, connection tasks, messages, faults and crashes.      *)
(***************************************************************************)
EXTENDS Cluster, TLAPS

(* LoadFindsNoTopic. *)

LoadTypeOK ==
  /\ DOMAIN phase = Node /\ DOMAIN keys = Node /\ DOMAIN log = Node /\ DOMAIN client = Node
  /\ DOMAIN retained = Node /\ \A b \in Node : DOMAIN retained[b] = Topic
  /\ \A b \in Node : keys[b] \subseteq Topic

\* A broker that does not serve yet has broadcast nothing and handles nothing; one that is
\* down has no retained messages; keys are left to be read only while loading, and what
\* they hold has not been added.
NothingBeforeServe(b) ==
  /\ phase[b] # "up" => log[b] = <<>> /\ client[b].pc = "idle"
  /\ phase[b] = "down" => \A t \in Topic : retained[b][t] = 0
  /\ phase[b] # "loading" => keys[b] = {}
  /\ \A t \in keys[b] : retained[b][t] = 0

LoadInv == LoadTypeOK /\ \A b \in Node : NothingBeforeServe(b)

\* The start and the end of a broker.
LEMMA PhaseStep ==
  ASSUME LoadInv, NEW b \in Node,
         start(b) \/ serve(b) \/ crash(b) \/ \E t \in Topic : get_retained(b, t)
  PROVE  LoadInv'
<1> USE DEF LoadInv, LoadTypeOK, NothingBeforeServe
<1>1. CASE start(b)
  BY <1>1 DEF start, topicsVars, taskVars
<1>2. CASE serve(b)
  BY <1>2 DEF serve, topicsVars, taskVars
<1>3. CASE crash(b)
  BY <1>3 DEF crash, Idle
<1>4. ASSUME NEW t \in Topic, get_retained(b, t) PROVE LoadInv'
  BY <1>4 DEF get_retained, taskVars
<1> QED
  BY <1>1, <1>2, <1>3, <1>4

\* The publish handlers: only a serving broker broadcasts.
LEMMA HandlerKeepsLoad ==
  ASSUME LoadInv, NEW b \in Node, NEW h \in Task,
         \/ lock_and_publish(b, h) \/ unlock(b, h) \/ redis_send(b, h) \/ send_panics(b, h)
         \/ write_puback(b, h) \/ log_in_bq(b, h)
  PROVE  LoadInv'
<1> USE DEF LoadInv, LoadTypeOK, NothingBeforeServe
<1>1. CASE lock_and_publish(b, h)
  <2>1. PICK t \in Topic, r \in Retain :
          topics_publish(b, Len(history) + 1, [topic |-> t, retain |-> r, sender_id |-> b, task |-> h])
    BY <1>1 DEF lock_and_publish
  <2>2. /\ log' = [log EXCEPT ![b] = Append(@, Len(history) + 1)]
        /\ retained' \in {retained, [retained EXCEPT ![b][t] = Len(history) + 1]}
    BY <2>1 DEF topics_publish
  <2>3. phase[b] = "up" /\ UNCHANGED <<phase, keys, client>>
    BY <1>1 DEF lock_and_publish
  <2> QED
    BY <2>2, <2>3
<1>2. CASE \/ unlock(b, h) \/ redis_send(b, h) \/ send_panics(b, h)
           \/ write_puback(b, h) \/ log_in_bq(b, h)
  BY <1>2 DEF unlock, redis_send, send_panics, write_puback, log_in_bq, topicsVars
<1> QED
  BY <1>1, <1>2

\* The RedisClient: it broadcasts what it handles, and handles only while serving.
LEMMA ClientKeepsLoad ==
  ASSUME LoadInv, NEW b \in Node,
         \/ redis_publish(b) \/ redis_set(b) \/ receive_inbox(b) \/ handle_message(b)
         \/ client_panics(b) \/ redis_subscribe(b) \/ get_message(b) \/ handle_redis_message(b)
         \/ connection_lost(b)
  PROVE  LoadInv'
<1> USE DEF LoadInv, LoadTypeOK, NothingBeforeServe
<1>1. CASE handle_message(b)
  <2>1. /\ log' = [log EXCEPT ![b] = Append(@, client[b].msg)]
        /\ retained' = retained \/
           retained' = [retained EXCEPT ![b][Sent(client[b].msg).topic] = client[b].msg]
        /\ client' = [client EXCEPT ![b] = Idle]
        /\ client[b].pc = "handling" /\ UNCHANGED <<phase, keys>>
    BY <1>1 DEF handle_message, topics_publish
  <2>2. phase[b] = "up"
    BY <2>1
  <2> QED
    BY <2>1, <2>2 DEF Idle
<1>2. CASE redis_publish(b) \/ redis_set(b) \/ receive_inbox(b) \/ client_panics(b)
  BY <1>2 DEF redis_publish, redis_set, receive_inbox, client_panics, topicsVars, Idle
<1>3. CASE redis_subscribe(b) \/ get_message(b) \/ handle_redis_message(b) \/ connection_lost(b)
  BY <1>3 DEF redis_subscribe, get_message, handle_redis_message, connection_lost, topicsVars
<1> QED
  BY <1>1, <1>2, <1>3

LEMMA LoadInductive == ClusterSpec => []LoadInv
<1>1. ClusterInit => LoadInv
  BY DEF ClusterInit, Idle, LoadInv, LoadTypeOK, NothingBeforeServe
<1>2. LoadInv /\ [ClusterNext]_vars => LoadInv'
  <2> SUFFICES ASSUME LoadInv, [ClusterNext]_vars PROVE LoadInv'
    OBVIOUS
  <2>1. CASE UNCHANGED vars
    BY <2>1 DEF vars, topicsVars, taskVars, LoadInv, LoadTypeOK, NothingBeforeServe
  <2> QED
    BY <2>1, PhaseStep, HandlerKeepsLoad, ClientKeepsLoad DEF ClusterNext
<1> QED
  BY <1>1, <1>2, PTL DEF ClusterSpec

\* Loading the retained messages never meets an existing topic, so that the unwrap of
\* topics.add in get_all_retained_messages cannot fail.
THEOREM ClusterLoads == ClusterSpec => []LoadFindsNoTopic
<1>1. LoadInv => LoadFindsNoTopic
  BY DEF LoadInv, NothingBeforeServe, LoadFindsNoTopic
<1> QED
  BY <1>1, LoadInductive, PTL
-----------------------------------------------------------------------------
(* LoggedOnce. *)

Entry == [topic: Topic, retain: BOOLEAN, sender_id: Node, task: Task]
Hand == [pc: {"idle", "locked", "sending", "acking", "logging"}, msg: Nat]

RowTypeOK ==
  /\ history \in Seq(Entry) /\ rows \in Seq(Nat)
  /\ handler \in [Node -> [Task -> Hand]]

\* The message a busy handler has in hand is published and not logged yet.
InHand(b, h) ==
  handler[b][h].pc # "idle" =>
    /\ handler[b][h].msg \in 1..Len(history)
    /\ \A i \in 1..Len(rows) : rows[i] # handler[b][h].msg

\* No message is in two hands.
OneHand ==
  \A b, c \in Node, h, k \in Task :
    handler[b][h].pc # "idle" /\ handler[c][k].pc # "idle" /\
    handler[b][h].msg = handler[c][k].msg => b = c /\ h = k

Distinct ==
  /\ \A i \in 1..Len(rows) : rows[i] \in 1..Len(history)
  /\ \A i, j \in 1..Len(rows) : rows[i] = rows[j] => i = j

RowInv == RowTypeOK /\ OneHand /\ Distinct /\ \A b \in Node, h \in Task : InHand(b, h)

\* A step that publishes and logs nothing, and after which a handler is idle or has in
\* hand what it had.
LEMMA HandsEmpty ==
  ASSUME RowInv, history' = history, rows' = rows, RowTypeOK',
         \A c \in Node, k \in Task :
           \/ handler'[c][k].pc = "idle"
           \/ handler[c][k].pc # "idle" /\ handler'[c][k].msg = handler[c][k].msg
           \/ handler'[c][k] = handler[c][k]
  PROVE  RowInv'
<1>1. OneHand'
  BY DEF RowInv, OneHand
<1>2. Distinct'
  BY DEF RowInv, Distinct
<1>3. \A b \in Node, h \in Task : InHand(b, h)'
  BY DEF RowInv, InHand
<1> QED
  BY <1>1, <1>2, <1>3 DEF RowInv

\* The next step of a busy handler, other than logging.
LEMMA HandlerMoves ==
  ASSUME RowInv, NEW b \in Node, NEW h \in Task, NEW v \in Hand,
         handler[b][h].pc # "idle", history' = history, rows' = rows,
         handler' = [handler EXCEPT ![b][h] = v],
         v.pc = "idle" \/ v.msg = handler[b][h].msg
  PROVE  RowInv'
<1>1. handler \in [Node -> [Task -> Hand]]
  BY DEF RowInv, RowTypeOK
<1>2. /\ handler' \in [Node -> [Task -> Hand]]
      /\ \A c \in Node, k \in Task :
           handler'[c][k] = IF c = b /\ k = h THEN v ELSE handler[c][k]
  <2> HIDE DEF Hand
  <2> QED
    BY <1>1
<1>3. RowTypeOK'
  BY <1>2 DEF RowInv, RowTypeOK
<1>4. \A c \in Node, k \in Task :
           \/ handler'[c][k].pc = "idle"
           \/ handler[c][k].pc # "idle" /\ handler'[c][k].msg = handler[c][k].msg
           \/ handler'[c][k] = handler[c][k]
  BY <1>2
<1> QED
  BY <1>3, <1>4, HandsEmpty

\* A new message is in one hand and in no row.
LEMMA PublishStep ==
  ASSUME RowInv, NEW b \in Node, NEW h \in Task, lock_and_publish(b, h)
  PROVE  RowInv'
<1> DEFINE m == Len(history) + 1
           v == [pc |-> "locked", msg |-> m]
<1>0. /\ history \in Seq(Entry) /\ handler \in [Node -> [Task -> Hand]] /\ rows \in Seq(Nat)
      /\ Len(history) \in Nat /\ Len(rows) \in Nat
  BY DEF RowInv, RowTypeOK
<1>1. PICK p \in Entry : history' = Append(history, p)
  BY ClusterAssumption DEF lock_and_publish, Entry
<1>2. handler' = [handler EXCEPT ![b][h] = v] /\ rows' = rows
  BY DEF lock_and_publish, outsideVars
<1>3. history' \in Seq(Entry) /\ Len(history') = m
  BY <1>0, <1>1
<1>4. v \in Hand
  BY <1>0 DEF Hand
<1>5. /\ handler' \in [Node -> [Task -> Hand]]
      /\ \A c \in Node, k \in Task :
           handler'[c][k] = IF c = b /\ k = h THEN v ELSE handler[c][k]
  <2> HIDE DEF Hand, v
  <2> QED
    BY <1>0, <1>2, <1>4
<1>6. \A c \in Node, k \in Task : handler[c][k].pc # "idle" => handler[c][k].msg # m
  BY <1>0 DEF RowInv, InHand
<1>7. \A i \in 1..Len(rows) : rows[i] < m /\ rows[i] \in 1..Len(history')
  BY <1>0, <1>3 DEF RowInv, Distinct
<1>8. OneHand'
  <2>1. v.msg = m
    OBVIOUS
  <2> HIDE DEF v, m
  <2> QED
    BY <2>1, <1>5, <1>6 DEF RowInv, OneHand
<1>9. Distinct'
  BY <1>2, <1>7 DEF RowInv, Distinct
<1>10. ASSUME NEW c \in Node, NEW k \in Task PROVE InHand(c, k)'
  <2>1. CASE c = b /\ k = h
    BY <2>1, <1>0, <1>2, <1>3, <1>5, <1>7 DEF InHand
  <2>2. CASE ~(c = b /\ k = h)
    <3>1. handler'[c][k] = handler[c][k]
      BY <2>2, <1>5
    <3> QED
      BY <3>1, <1>0, <1>2, <1>3 DEF RowInv, InHand
  <2> QED
    BY <2>1, <2>2
<1> QED
  BY <1>2, <1>3, <1>5, <1>8, <1>9, <1>10, <1>0 DEF RowInv, RowTypeOK

\* A row is inserted for what the handler had in hand, and leaves it.
LEMMA LogStep ==
  ASSUME RowInv, NEW b \in Node, NEW h \in Task, log_in_bq(b, h)
  PROVE  RowInv'
<1> DEFINE m == handler[b][h].msg
<1>0. /\ handler \in [Node -> [Task -> Hand]] /\ rows \in Seq(Nat) /\ Len(rows) \in Nat
      /\ handler[b][h] \in Hand /\ Idle \in Hand /\ Idle.pc = "idle"
  BY DEF RowInv, RowTypeOK, Idle, Hand
<1>1. /\ handler[b][h].pc = "logging" /\ history' = history
      /\ handler' = [handler EXCEPT ![b][h] = Idle]
  BY DEF log_in_bq
<1>2. CASE rows' = rows
  BY <1>0, <1>1, <1>2, HandlerMoves
<1>3. CASE rows' = Append(rows, m)
  <2>1. m \in Nat /\ m \in 1..Len(history) /\ \A i \in 1..Len(rows) : rows[i] # m
    BY <1>0, <1>1 DEF RowInv, InHand, Hand
  <2>2. /\ rows' \in Seq(Nat) /\ Len(rows') = Len(rows) + 1 /\ rows'[Len(rows) + 1] = m
        /\ \A i \in 1..Len(rows) : rows'[i] = rows[i]
    BY <1>0, <1>3, <2>1
  <2>3. \A i \in 1..Len(rows') : i \in 1..Len(rows) \/ i = Len(rows) + 1
    BY <1>0, <2>2
  <2>4. /\ handler' \in [Node -> [Task -> Hand]]
        /\ \A c \in Node, k \in Task :
             handler'[c][k] = IF c = b /\ k = h THEN Idle ELSE handler[c][k]
    BY <1>0, <1>1
  <2>5. OneHand'
    BY <2>4, <1>0 DEF RowInv, OneHand
  <2>6. Distinct'
    <3>1. \A i \in 1..Len(rows') : rows'[i] \in 1..Len(history')
      BY <2>1, <2>2, <2>3, <1>1 DEF RowInv, Distinct
    <3>2. ASSUME NEW i \in 1..Len(rows'), NEW j \in 1..Len(rows'), rows'[i] = rows'[j]
          PROVE  i = j
      BY <3>2, <2>1, <2>2, <2>3 DEF RowInv, Distinct
    <3> QED
      BY <3>1, <3>2 DEF Distinct
  <2>7. ASSUME NEW c \in Node, NEW k \in Task PROVE InHand(c, k)'
    <3> SUFFICES ASSUME handler'[c][k].pc # "idle" PROVE InHand(c, k)'
      BY DEF InHand
    <3>1. handler'[c][k] = handler[c][k] /\ ~(c = b /\ k = h)
      BY <2>4, <1>0
    <3>2. handler[c][k].msg # m
      BY <3>1, <1>1 DEF RowInv, OneHand
    <3>3. handler[c][k].msg \in 1..Len(history) /\ \A i \in 1..Len(rows) : rows[i] # handler[c][k].msg
      BY <3>1 DEF RowInv, InHand
    <3> QED
      BY <3>1, <3>2, <3>3, <2>2, <2>3, <1>1 DEF InHand
  <2> QED
    BY <2>2, <2>4, <2>5, <2>6, <2>7, <1>1 DEF RowInv, RowTypeOK
<1> QED
  BY <1>2, <1>3 DEF log_in_bq

\* Every other step of a handler, and the end of a broker, at most empties hands.
LEMMA OtherHandlerStep ==
  ASSUME RowInv, NEW b \in Node, NEW h \in Task,
         unlock(b, h) \/ redis_send(b, h) \/ send_panics(b, h) \/ write_puback(b, h)
  PROVE  RowInv'
<1> DEFINE to(p) == [handler[b][h] EXCEPT !.pc = p]
<1>1. /\ handler[b][h].pc # "idle" /\ history' = history /\ rows' = rows
  BY DEF unlock, redis_send, send_panics, write_puback, outsideVars
<1>2. PICK p \in {"sending", "acking", "logging"} :
        handler' = [handler EXCEPT ![b][h] = to(p)] \/ handler' = [handler EXCEPT ![b][h] = Idle]
  BY DEF unlock, redis_send, send_panics, write_puback
<1>3. /\ handler[b][h] \in Hand
  BY DEF RowInv, RowTypeOK
<1>4. /\ to(p) \in Hand /\ to(p).msg = handler[b][h].msg
      /\ Idle \in Hand /\ Idle.pc = "idle"
  BY <1>3 DEF Hand, Idle
<1> HIDE DEF to
<1> QED
  BY <1>1, <1>2, <1>4, HandlerMoves

LEMMA CrashStep == ASSUME RowInv, NEW b \in Node, crash(b) PROVE RowInv'
<1>1. /\ history' = history /\ rows' = rows
      /\ handler' = [handler EXCEPT ![b] = [h \in Task |-> Idle]]
  BY DEF crash
<1>2. handler \in [Node -> [Task -> Hand]] /\ Idle \in Hand /\ Idle.pc = "idle"
  BY DEF RowInv, RowTypeOK, Idle, Hand
<1>3. /\ handler' \in [Node -> [Task -> Hand]]
      /\ \A c \in Node, k \in Task : handler'[c][k] = IF c = b THEN Idle ELSE handler[c][k]
  BY <1>1, <1>2
<1>4. RowTypeOK'
  BY <1>1, <1>3 DEF RowInv, RowTypeOK
<1> QED
  BY <1>1, <1>2, <1>3, <1>4, HandsEmpty

\* A published message is logged at most once in the cluster: by the handler that received
\* it from its client, before this handler receives anything else.
THEOREM ClusterLogsOnce == ClusterSpec => []LoggedOnce
<1>1. ClusterInit => RowInv
  BY DEF ClusterInit, RowInv, RowTypeOK, OneHand, Distinct, InHand, Idle, Hand, Entry
<1>2. RowInv /\ [ClusterNext]_vars => RowInv'
  <2> SUFFICES ASSUME RowInv, [ClusterNext]_vars PROVE RowInv'
    OBVIOUS
  <2>1. ASSUME UNCHANGED <<history, rows, handler>> PROVE RowInv'
    BY <2>1 DEF RowInv, RowTypeOK, OneHand, Distinct, InHand
  <2>2. CASE UNCHANGED vars
    BY <2>1, <2>2 DEF vars, taskVars, outsideVars
  <2>3. ASSUME NEW b \in Node, start(b) \/ serve(b) \/ \E t \in Topic : get_retained(b, t)
        PROVE  RowInv'
    BY <2>1, <2>3 DEF start, serve, get_retained, taskVars, outsideVars
  <2>4. ASSUME NEW b \in Node,
               \/ redis_publish(b) \/ redis_set(b) \/ receive_inbox(b) \/ handle_message(b)
               \/ client_panics(b)
        PROVE  RowInv'
    BY <2>1, <2>4
       DEF redis_publish, redis_set, receive_inbox, handle_message, client_panics, outsideVars
  <2>5. ASSUME NEW b \in Node,
               \/ redis_subscribe(b) \/ get_message(b)
               \/ handle_redis_message(b) \/ connection_lost(b)
        PROVE  RowInv'
    BY <2>1, <2>5
       DEF redis_subscribe, get_message, handle_redis_message, connection_lost, outsideVars
  <2> QED
    BY <2>2, <2>3, <2>4, <2>5, PublishStep, LogStep, OtherHandlerStep, CrashStep DEF ClusterNext
<1>3. RowInv => LoggedOnce
  BY DEF RowInv, RowTypeOK, Distinct, LoggedOnce
<1> QED
  BY <1>1, <1>2, <1>3, PTL DEF ClusterSpec
-----------------------------------------------------------------------------
(* ClusterTypeOK. *)

\* The messages published so far, and what a handler and the RedisClient can be in: a
\* busy one has such a message.
Known == 1..Len(history)
Published == [topic: Topic, retain: BOOLEAN, sender_id: Publisher, task: Task]
Held == {x \in [pc: {"idle", "locked", "sending", "acking", "logging"}, msg: 0..Len(history)] :
           x.pc # "idle" => x.msg \in Known}
Carried == {x \in [pc: {"idle", "saving", "handling", "dead"}, msg: 0..Len(history)] :
              x.pc \in {"saving", "handling"} => x.msg \in Known}

RedisTypeOK ==
  /\ store \in [Topic -> 0..Len(history)]
  /\ wire \in [Node -> Seq(Known)]
  /\ receiver \in [Node -> {"connecting", "subscribed", "received"}]
  /\ \A b \in Node : receiver[b] = "received" => wire[b] # <<>>

TopicTypeOK ==
  /\ phase \in [Node -> {"down", "loading", "up"}] /\ keys \in [Node -> SUBSET Topic]
  /\ log \in [Node -> Seq(Known)]
  /\ retained \in [Node -> [Topic -> 0..Len(history)]]
  /\ lock \in [Node -> Task \cup {None}]

TaskTypeOK ==
  /\ handler \in [Node -> [Task -> Held]]
  /\ client \in [Node -> Carried]
  /\ queue \in [Node -> Seq(Known)] /\ \A b \in Node : Len(queue[b]) <= QueueSize
  /\ inbox \in [Node -> Seq(Known)] /\ \A b \in Node : Len(inbox[b]) <= InboxSize

OutsideTypeOK ==
  /\ history \in Seq(Published) /\ Len(history) <= MaxHistory
  /\ rows \in Seq(Known) /\ crashes \in 0..MaxCrashes

\* What travels between the tasks, Redis and BigQuery are messages that were published.
TypeInv == RedisTypeOK /\ TopicTypeOK /\ TaskTypeOK /\ OutsideTypeOK

\* Sequences of messages published so far are still such after the next publish.
LEMMA SeqGrows == ASSUME NEW S, NEW T, S \subseteq T, NEW s \in Seq(S) PROVE s \in Seq(T)
OBVIOUS

\* Idle tasks, and those that go on with what they have.
LEMMA Tasks ==
  ASSUME history \in Seq(Published)
  PROVE  /\ Idle \in Held /\ Idle \in Carried /\ Dead \in Carried
         /\ \A x \in Held, q \in {"sending", "acking", "logging"} :
              x.pc # "idle" => [x EXCEPT !.pc = q] \in Held
BY DEF Idle, Dead, Held, Carried, Known

\* Append, Head and Tail on the channels between the tasks.
LEMMA Queues ==
  ASSUME NEW S, NEW q \in Seq(S)
  PROVE  /\ Len(q) \in Nat
         /\ \A x \in S : /\ Append(q, x) \in Seq(S) /\ Append(q, x) # <<>>
                        /\ Len(Append(q, x)) = Len(q) + 1
         /\ q # <<>> => Head(q) \in S /\ Tail(q) \in Seq(S) /\ Len(Tail(q)) = Len(q) - 1
OBVIOUS

\* One task, or one topic, of one broker changes.
LEMMA OneEntry ==
  ASSUME NEW A, NEW B, NEW S, NEW f \in [A -> [B -> S]], NEW a \in A, NEW b \in B, NEW v \in S
  PROVE  /\ [f EXCEPT ![a][b] = v] \in [A -> [B -> S]]
         /\ \A c \in A, k \in B :
              [f EXCEPT ![a][b] = v][c][k] = IF c = a /\ k = b THEN v ELSE f[c][k]
OBVIOUS

\* With no new message, only what a step changes has to be typed again.
LEMMA SameMessages ==
  ASSUME history' = history
  PROVE  Known' = Known /\ Held' = Held /\ Carried' = Carried
BY DEF Known, Held, Carried

\* The start and the end of a broker.
LEMMA PhaseTypes ==
  ASSUME TypeInv, NEW b \in Node,
         start(b) \/ serve(b) \/ crash(b) \/ \E t \in Topic : get_retained(b, t)
  PROVE  TypeInv'
<1>0. history' = history /\ history \in Seq(Published) /\ Len(history) \in Nat
  BY DEF start, serve, crash, get_retained, TypeInv, OutsideTypeOK
<1>1. Known' = Known /\ Held' = Held /\ Carried' = Carried /\ Idle \in Held /\ Idle \in Carried
  BY <1>0, SameMessages, Tasks
<1> USE <1>0, <1>1 DEF TypeInv, RedisTypeOK, TopicTypeOK, TaskTypeOK, OutsideTypeOK
<1>2. CASE start(b)
  BY <1>2 DEF start, redisVars, topicsVars, taskVars, outsideVars
<1>3. CASE serve(b)
  BY <1>3 DEF serve, redisVars, topicsVars, taskVars, outsideVars
<1>4. ASSUME NEW t \in Topic, get_retained(b, t) PROVE TypeInv'
  <2>1. retained' \in [Node -> [Topic -> 0..Len(history)]]
    <3>1. store[t] \in 0..Len(history) /\ retained \in [Node -> [Topic -> 0..Len(history)]]
      OBVIOUS
    <3>2. [retained EXCEPT ![b][t] = store[t]] \in [Node -> [Topic -> 0..Len(history)]]
      BY <3>1, OneEntry
    <3> QED
      BY <1>4, <3>2 DEF get_retained
  <2> QED
    BY <1>4, <2>1 DEF get_retained, redisVars, taskVars, outsideVars
<1>5. CASE crash(b)
  <2>1. RedisTypeOK'
    BY <1>5 DEF crash
  <2>2. TopicTypeOK'
    BY <1>5 DEF crash
  <2>3. TaskTypeOK'
    <3>1. handler' \in [Node -> [Task -> Held]] /\ client' \in [Node -> Carried]
      BY <1>5 DEF crash
    <3>2. /\ queue' \in [Node -> Seq(Known)] /\ \A c \in Node : Len(queue'[c]) <= QueueSize
          /\ inbox' \in [Node -> Seq(Known)] /\ \A c \in Node : Len(inbox'[c]) <= InboxSize
      BY <1>5, ClusterAssumption DEF crash
    <3> QED
      BY <3>1, <3>2
  <2>4. OutsideTypeOK'
    <3>1. crashes' \in 0..MaxCrashes
      BY <1>5, ClusterAssumption DEF crash
    <3> QED
      BY <1>5, <3>1 DEF crash
  <2> QED
    BY <2>1, <2>2, <2>3, <2>4
<1> QED
  BY <1>2, <1>3, <1>4, <1>5

\* The publish of a new message.
LEMMA PublishTypes ==
  ASSUME TypeInv, NEW b \in Node, NEW h \in Task, lock_and_publish(b, h)
  PROVE  TypeInv'
<1> DEFINE m == Len(history) + 1
           v == [pc |-> "locked", msg |-> m]
<1>0. history \in Seq(Published) /\ Len(history) \in Nat /\ Len(history) < MaxHistory
  BY DEF TypeInv, OutsideTypeOK, lock_and_publish
<1>1. PICK t \in Topic, r \in Retain :
        /\ history' = Append(history, [topic |-> t, retain |-> r, sender_id |-> b, task |-> h])
        /\ topics_publish(b, m, [topic |-> t, retain |-> r, sender_id |-> b, task |-> h])
  BY DEF lock_and_publish
<1>2. [topic |-> t, retain |-> r, sender_id |-> b, task |-> h] \in Published
  BY ClusterAssumption DEF lock_and_publish, Published
<1>3. /\ history' \in Seq(Published) /\ Len(history') = m /\ m \in Nat
      /\ m <= MaxHistory /\ b \in Publisher
  BY <1>0, <1>1, <1>2, ClusterAssumption DEF lock_and_publish
<1>4. /\ Known \subseteq Known' /\ m \in Known' /\ 0..Len(history) \subseteq 0..Len(history')
      /\ m \in 0..Len(history')
  BY <1>0, <1>3 DEF Known
<1>5. /\ Held \subseteq Held' /\ Carried \subseteq Carried' /\ v \in Held'
  BY <1>4 DEF Held, Carried
<1>6. \A s \in Seq(Known) : s \in Seq(Known')
  BY <1>4, SeqGrows
<1>7. RedisTypeOK'
  BY <1>4, <1>6 DEF TypeInv, RedisTypeOK, lock_and_publish, redisVars
<1>8. TopicTypeOK'
  <2>1. /\ log' = [log EXCEPT ![b] = Append(log[b], m)]
        /\ retained' \in {retained, [retained EXCEPT ![b][t] = m]}
        /\ lock' = [lock EXCEPT ![b] = h] /\ UNCHANGED <<phase, keys>>
    BY <1>1 DEF topics_publish, lock_and_publish, TypeInv, TopicTypeOK
  <2>2. log[b] \in Seq(Known')
    BY <1>6 DEF TypeInv, TopicTypeOK
  <2>3. Append(log[b], m) \in Seq(Known')
    BY <1>4, <2>2, Queues
  <2>4. log' \in [Node -> Seq(Known')]
    BY <1>6, <2>1, <2>3 DEF TypeInv, TopicTypeOK
  <2>5. retained' \in [Node -> [Topic -> 0..Len(history')]]
    <3>1. retained \in [Node -> [Topic -> 0..Len(history')]]
      BY <1>4 DEF TypeInv, TopicTypeOK
    <3>2. [retained EXCEPT ![b][t] = m] \in [Node -> [Topic -> 0..Len(history')]]
      BY <1>4, <3>1, OneEntry
    <3> QED
      BY <2>1, <3>1, <3>2
  <2> QED
    BY <2>1, <2>4, <2>5 DEF TypeInv, TopicTypeOK
<1>9. TaskTypeOK'
  <2>1. handler' = [handler EXCEPT ![b][h] = v] /\ UNCHANGED <<queue, client, inbox>>
    BY DEF lock_and_publish
  <2> HIDE DEF v
  <2>2. handler' \in [Node -> [Task -> Held']]
    <3>1. handler \in [Node -> [Task -> Held']]
      BY <1>5 DEF TypeInv, TaskTypeOK
    <3> QED
      BY <1>5, <2>1, <3>1, OneEntry
  <2>3. client' \in [Node -> Carried']
    BY <1>5, <2>1 DEF TypeInv, TaskTypeOK
  <2> QED
    BY <1>6, <2>1, <2>2, <2>3 DEF TypeInv, TaskTypeOK
<1>10. OutsideTypeOK'
  <2>1. UNCHANGED <<rows, crashes>>
    BY DEF lock_and_publish, outsideVars
  <2> QED
    BY <1>3, <1>6, <2>1 DEF TypeInv, OutsideTypeOK
<1> QED
  BY <1>7, <1>8, <1>9, <1>10 DEF TypeInv

\* What the handler does with the message afterwards.
LEMMA HandlerTypes ==
  ASSUME TypeInv, NEW b \in Node, NEW h \in Task,
         \/ unlock(b, h) \/ redis_send(b, h) \/ send_panics(b, h)
         \/ write_puback(b, h) \/ log_in_bq(b, h)
  PROVE  TypeInv'
<1> DEFINE x == handler[b][h]
           to(q) == [x EXCEPT !.pc = q]
<1>0. history' = history /\ history \in Seq(Published) /\ Len(history) \in Nat
  BY DEF unlock, redis_send, send_panics, write_puback, log_in_bq, TypeInv, OutsideTypeOK
<1>1. Known' = Known /\ Held' = Held /\ Carried' = Carried /\ Idle \in Held /\ Idle \in Carried
  BY <1>0, SameMessages, Tasks
<1>2. x \in Held /\ x.pc # "idle"
  BY DEF unlock, redis_send, send_panics, write_puback, log_in_bq, TypeInv, TaskTypeOK
<1>3. x.msg \in Known
  BY <1>2 DEF Held
<1>4. PICK q \in {"sending", "acking", "logging"} :
        handler' = [handler EXCEPT ![b][h] = to(q)] \/ handler' = [handler EXCEPT ![b][h] = Idle]
  BY DEF unlock, redis_send, send_panics, write_puback, log_in_bq
<1>5. to(q) \in Held
  BY <1>0, <1>2, Tasks
<1> HIDE DEF to
<1>6. handler' \in [Node -> [Task -> Held]]
  <2>1. handler \in [Node -> [Task -> Held]]
    BY DEF TypeInv, TaskTypeOK
  <2>2. [handler EXCEPT ![b][h] = to(q)] \in [Node -> [Task -> Held]]
    BY <1>5, <2>1, OneEntry
  <2>3. [handler EXCEPT ![b][h] = Idle] \in [Node -> [Task -> Held]]
    BY <1>1, <2>1, OneEntry
  <2> QED
    BY <1>4, <2>2, <2>3
<1>7. RedisTypeOK' /\ UNCHANGED <<client, inbox, phase, keys, log, retained, crashes>>
  BY <1>0, <1>1 DEF unlock, redis_send, send_panics, write_puback, log_in_bq, TypeInv, RedisTypeOK, redisVars,
     topicsVars, outsideVars
<1>8. lock' \in [Node -> Task \cup {None}]
  BY DEF unlock, redis_send, send_panics, write_puback, log_in_bq, TypeInv, TopicTypeOK, topicsVars
<1>9. queue' \in [Node -> Seq(Known)] /\ \A c \in Node : Len(queue'[c]) <= QueueSize
  <2>1. CASE queue' = queue
    BY <2>1 DEF TypeInv, TaskTypeOK
  <2>2. CASE Len(queue[b]) < QueueSize /\ queue' = [queue EXCEPT ![b] = Append(queue[b], x.msg)]
    <3>1. queue[b] \in Seq(Known)
      BY DEF TypeInv, TaskTypeOK
    <3>2. /\ Append(queue[b], x.msg) \in Seq(Known) /\ Len(Append(queue[b], x.msg)) <= QueueSize
      BY <1>3, <2>2, <3>1, Queues, ClusterAssumption
    <3> QED
      BY <2>2, <3>2 DEF TypeInv, TaskTypeOK
  <2> QED
    BY <2>1, <2>2 DEF unlock, redis_send, send_panics, write_puback, log_in_bq
<1>10. rows' \in Seq(Known)
  <2>1. rows' = rows \/ rows' = Append(rows, x.msg)
    BY DEF unlock, redis_send, send_panics, write_puback, log_in_bq, outsideVars
  <2> QED
    BY <1>3, <2>1, Queues DEF TypeInv, OutsideTypeOK
<1> QED
  BY <1>0, <1>1, <1>6, <1>7, <1>8, <1>9, <1>10 DEF TypeInv, TopicTypeOK, TaskTypeOK, OutsideTypeOK

\* The RedisClient.
LEMMA ClientTypes ==
  ASSUME TypeInv, NEW b \in Node,
         \/ redis_publish(b) \/ redis_set(b) \/ receive_inbox(b) \/ handle_message(b)
         \/ client_panics(b)
  PROVE  TypeInv'
<1>0. history' = history /\ history \in Seq(Published) /\ Len(history) \in Nat
  BY DEF redis_publish, redis_set, receive_inbox, handle_message, client_panics, TypeInv,
     OutsideTypeOK
<1>1. /\ Known' = Known /\ Held' = Held /\ Carried' = Carried
      /\ Idle \in Held /\ Idle \in Carried /\ Dead \in Carried
  BY <1>0, SameMessages, Tasks
<1>2. Known \subseteq 0..Len(history)
  BY <1>0 DEF Known
<1>3. \A m \in Known : [pc |-> "saving", msg |-> m] \in Carried /\ [pc |-> "handling", msg |-> m] \in Carried
  BY <1>2 DEF Carried
<1>4. client[b].pc \in {"saving", "handling"} => client[b].msg \in Known
  BY DEF TypeInv, TaskTypeOK, Carried
<1> USE <1>0, <1>1
<1>5. CASE redis_publish(b)
  <2> DEFINE m == Head(queue[b])
  <2>1. /\ queue[b] # <<>> /\ queue' = [queue EXCEPT ![b] = Tail(queue[b])]
        /\ \/ wire' = [c \in Node |-> IF c \in Subscribers THEN Append(wire[c], m) ELSE wire[c]]
           \/ wire' = wire
        /\ client' = [client EXCEPT ![b] =
                        IF Sent(m).retain THEN [pc |-> "saving", msg |-> m] ELSE Idle]
    BY <1>5 DEF redis_publish, Take
  <2>2. queue[b] \in Seq(Known) /\ Len(queue[b]) <= QueueSize
    BY DEF TypeInv, TaskTypeOK
  <2>3. m \in Known /\ Tail(queue[b]) \in Seq(Known) /\ Len(Tail(queue[b])) <= QueueSize
    BY <2>1, <2>2, Queues, ClusterAssumption
  <2> HIDE DEF m
  <2>4. queue' \in [Node -> Seq(Known)] /\ \A c \in Node : Len(queue'[c]) <= QueueSize
    BY <2>1, <2>3 DEF TypeInv, TaskTypeOK
  <2>5. client' \in [Node -> Carried]
    BY <1>3, <2>1, <2>3 DEF TypeInv, TaskTypeOK
  <2>6. \A c \in Node : /\ wire[c] \in Seq(Known)
                        /\ Append(wire[c], m) \in Seq(Known) /\ Append(wire[c], m) # <<>>
    <3>1. \A c \in Node : wire[c] \in Seq(Known)
      BY DEF TypeInv, RedisTypeOK
    <3> QED
      BY <2>3, <3>1, Queues
  <2>7. wire' \in [Node -> Seq(Known)] /\ \A c \in Node : wire[c] # <<>> => wire'[c] # <<>>
    BY <2>1, <2>6 DEF TypeInv, RedisTypeOK
  <2> QED
    BY <1>5, <2>4, <2>5, <2>7 DEF TypeInv, RedisTypeOK, TopicTypeOK, TaskTypeOK, OutsideTypeOK,
       redis_publish, topicsVars, outsideVars
<1>6. CASE redis_set(b)
  <2>1. client[b].msg \in 0..Len(history)
    BY <1>2, <1>4, <1>6 DEF redis_set
  <2>2. store' \in [Topic -> 0..Len(history)]
    BY <1>6, <2>1 DEF TypeInv, RedisTypeOK, redis_set
  <2>3. client' \in [Node -> Carried]
    BY <1>6 DEF TypeInv, TaskTypeOK, redis_set
  <2> QED
    BY <1>6, <2>2, <2>3 DEF TypeInv, RedisTypeOK, TopicTypeOK, TaskTypeOK, OutsideTypeOK,
       redis_set, topicsVars, outsideVars
<1>7. CASE receive_inbox(b)
  <2> DEFINE m == Head(inbox[b])
  <2>1. /\ inbox[b] # <<>> /\ inbox' = [inbox EXCEPT ![b] = Tail(inbox[b])]
        /\ client' \in {client, [client EXCEPT ![b] = [pc |-> "handling", msg |-> m]]}
    BY <1>7 DEF receive_inbox
  <2>2. inbox[b] \in Seq(Known) /\ Len(inbox[b]) <= InboxSize
    BY DEF TypeInv, TaskTypeOK
  <2>3. m \in Known /\ Tail(inbox[b]) \in Seq(Known) /\ Len(Tail(inbox[b])) <= InboxSize
    BY <2>1, <2>2, Queues, ClusterAssumption
  <2> HIDE DEF m
  <2>4. inbox' \in [Node -> Seq(Known)] /\ \A c \in Node : Len(inbox'[c]) <= InboxSize
    BY <2>1, <2>3 DEF TypeInv, TaskTypeOK
  <2>5. client' \in [Node -> Carried]
    BY <1>3, <2>1, <2>3 DEF TypeInv, TaskTypeOK
  <2> QED
    BY <1>7, <2>4, <2>5 DEF TypeInv, RedisTypeOK, TopicTypeOK, TaskTypeOK, OutsideTypeOK,
       receive_inbox, redisVars, topicsVars, outsideVars
<1>8. CASE handle_message(b)
  <2> DEFINE m == client[b].msg
             t == Sent(m).topic
  <2>1. m \in Known /\ m \in 0..Len(history)
    BY <1>2, <1>4, <1>8 DEF handle_message
  <2>2. t \in Topic
    <3>1. history[m] \in Published
      BY <2>1 DEF Known
    <3> QED
      BY <3>1 DEF Sent, Published
  <2>3. /\ log' = [log EXCEPT ![b] = Append(log[b], m)]
        /\ retained' \in {retained, [retained EXCEPT ![b][t] = m]}
        /\ client' = [client EXCEPT ![b] = Idle]
    BY <1>8 DEF handle_message, topics_publish, TypeInv, TopicTypeOK
  <2> HIDE DEF m, t
  <2>4. log' \in [Node -> Seq(Known)]
    BY <2>1, <2>3, Queues DEF TypeInv, TopicTypeOK
  <2>5. retained' \in [Node -> [Topic -> 0..Len(history)]]
    <3>1. retained \in [Node -> [Topic -> 0..Len(history)]]
      BY DEF TypeInv, TopicTypeOK
    <3>2. [retained EXCEPT ![b][t] = m] \in [Node -> [Topic -> 0..Len(history)]]
      BY <2>1, <2>2, <3>1, OneEntry
    <3> QED
      BY <2>3, <3>1, <3>2
  <2>6. client' \in [Node -> Carried]
    BY <2>3 DEF TypeInv, TaskTypeOK
  <2> QED
    BY <1>8, <2>4, <2>5, <2>6 DEF TypeInv, RedisTypeOK, TopicTypeOK, TaskTypeOK, OutsideTypeOK,
       handle_message, redisVars, outsideVars
<1>9. CASE client_panics(b)
  <2>1. client' \in [Node -> Carried]
    BY <1>9 DEF client_panics, TypeInv, TaskTypeOK
  <2>2. /\ queue' \in [Node -> Seq(Known)] /\ \A c \in Node : Len(queue'[c]) <= QueueSize
        /\ inbox' \in [Node -> Seq(Known)] /\ \A c \in Node : Len(inbox'[c]) <= InboxSize
    BY <1>9, ClusterAssumption DEF client_panics, TypeInv, TaskTypeOK
  <2> QED
    BY <1>9, <2>1, <2>2 DEF TypeInv, RedisTypeOK, TopicTypeOK, TaskTypeOK, OutsideTypeOK,
       client_panics, redisVars, topicsVars, outsideVars
<1> QED
  BY <1>5, <1>6, <1>7, <1>8, <1>9

\* The task that receives from Redis.
LEMMA ReceiverTypes ==
  ASSUME TypeInv, NEW b \in Node,
         \/ redis_subscribe(b) \/ get_message(b) \/ handle_redis_message(b)
         \/ connection_lost(b)
  PROVE  TypeInv'
<1>0. /\ history' = history
      /\ UNCHANGED <<store, phase, keys, topicsVars, handler, queue, client, outsideVars>>
  BY DEF redis_subscribe, get_message, handle_redis_message, connection_lost, redisVars
<1>1. Known' = Known /\ Held' = Held /\ Carried' = Carried
  BY <1>0, SameMessages
<1>2. RedisTypeOK'
  <2>1. wire' = wire \/ wire' = [wire EXCEPT ![b] = <<>>]
    BY DEF redis_subscribe, get_message, handle_redis_message, connection_lost, redisVars
  <2>2. wire' \in [Node -> Seq(Known)]
    <3>1. wire \in [Node -> Seq(Known)] /\ <<>> \in Seq(Known)
      BY DEF TypeInv, RedisTypeOK
    <3> QED
      BY <2>1, <3>1
  <2>3. /\ receiver' \in [Node -> {"connecting", "subscribed", "received"}]
        /\ \A c \in Node : receiver'[c] = "received" => wire'[c] # <<>>
    BY DEF redis_subscribe, get_message, handle_redis_message, connection_lost, redisVars,
       TypeInv, RedisTypeOK
  <2> QED
    BY <1>0, <1>1, <2>2, <2>3 DEF TypeInv, RedisTypeOK
<1>3. inbox' \in [Node -> Seq(Known)] /\ \A c \in Node : Len(inbox'[c]) <= InboxSize
  <2>1. CASE inbox' = inbox
    BY <2>1 DEF TypeInv, TaskTypeOK
  <2>2. CASE handle_redis_message(b)
    <3>1. /\ receiver[b] = "received" /\ Len(inbox[b]) < InboxSize
          /\ inbox' = [inbox EXCEPT ![b] = Append(inbox[b], Head(wire[b]))]
      BY <2>2 DEF handle_redis_message
    <3>2. Head(wire[b]) \in Known /\ inbox[b] \in Seq(Known)
      BY <3>1, Queues DEF TypeInv, RedisTypeOK, TaskTypeOK
    <3>3. /\ Append(inbox[b], Head(wire[b])) \in Seq(Known)
          /\ Len(Append(inbox[b], Head(wire[b]))) <= InboxSize
      BY <3>1, <3>2, Queues, ClusterAssumption
    <3> QED
      BY <3>1, <3>3 DEF TypeInv, TaskTypeOK
  <2> QED
    BY <2>1, <2>2 DEF redis_subscribe, get_message, connection_lost
<1> QED
  BY <1>0, <1>1, <1>2, <1>3 DEF TypeInv, TopicTypeOK, TaskTypeOK, OutsideTypeOK, topicsVars, outsideVars

\* The invariant holds in every reachable state.
LEMMA MessagesKnown == ClusterSpec => []TypeInv
<1>1. ClusterInit => TypeInv
  <2> SUFFICES ASSUME ClusterInit PROVE TypeInv
    OBVIOUS
  <2>1. history \in Seq(Published) /\ Len(history) = 0
    BY DEF ClusterInit
  <2>2. Idle \in Held /\ Idle \in Carried
    BY <2>1, Tasks
  <2>3. RedisTypeOK /\ TopicTypeOK
    BY <2>1 DEF ClusterInit, RedisTypeOK, TopicTypeOK
  <2>4. TaskTypeOK
    BY <2>2, ClusterAssumption DEF ClusterInit, TaskTypeOK
  <2>5. OutsideTypeOK
    BY <2>1, ClusterAssumption DEF ClusterInit, OutsideTypeOK
  <2> QED
    BY <2>3, <2>4, <2>5 DEF TypeInv
<1>2. TypeInv /\ [ClusterNext]_vars => TypeInv'
  <2> SUFFICES ASSUME TypeInv, [ClusterNext]_vars PROVE TypeInv'
    OBVIOUS
  <2>1. CASE UNCHANGED vars
    <3>1. /\ UNCHANGED <<history, store, wire, phase, keys, log, retained, lock, handler, queue,
                        client, receiver, inbox, rows, crashes>>
      BY <2>1 DEF vars, redisVars, topicsVars, taskVars, outsideVars
    <3>2. Known' = Known /\ Held' = Held /\ Carried' = Carried
      BY <3>1, SameMessages
    <3> QED
      BY <3>1, <3>2 DEF TypeInv, RedisTypeOK, TopicTypeOK, TaskTypeOK, OutsideTypeOK
  <2> QED
    BY <2>1, PhaseTypes, PublishTypes, HandlerTypes, ClientTypes, ReceiverTypes DEF ClusterNext
<1> QED
  BY <1>1, <1>2, PTL DEF ClusterSpec

\* The cluster keeps its types, for any number of brokers, tasks and messages and channels of
\* any size: both channels of the RedisClient stay within their capacity, what is in
\* Redis, in BigQuery and in the channels was published, and a subscribed connection that
\* reports a message has one.
THEOREM ClusterTypes == ClusterSpec => []ClusterTypeOK
<1>1. TypeInv => ClusterTypeOK
  <2> SUFFICES ASSUME TypeInv PROVE ClusterTypeOK
    OBVIOUS
  <2>1. Len(history) \in Nat /\ Len(history) <= MaxHistory /\ Known \subseteq Message
    BY ClusterAssumption DEF TypeInv, OutsideTypeOK, Known, Message
  <2>2. \A s \in Seq(Known) : s \in Seq(Message)
    BY <2>1, SeqGrows
  <2>3. /\ Held \subseteq [pc: {"idle", "locked", "sending", "acking", "logging"}, msg: 0..Len(history)]
        /\ Carried \subseteq [pc: {"idle", "saving", "handling", "dead"}, msg: 0..Len(history)]
    BY DEF Held, Carried
  <2>4. /\ handler \in [Node -> [Task -> [pc: {"idle", "locked", "sending", "acking", "logging"},
                                    msg: 0..Len(history)]]]
        /\ client \in [Node -> [pc: {"idle", "saving", "handling", "dead"}, msg: 0..Len(history)]]
    BY <2>3 DEF TypeInv, TaskTypeOK
  <2> QED
    BY <2>2, <2>4 DEF TypeInv, RedisTypeOK, TopicTypeOK, TaskTypeOK, OutsideTypeOK, ClusterTypeOK,
       Published
<1> QED
  BY <1>1, MessagesKnown, PTL
=============================================================================
