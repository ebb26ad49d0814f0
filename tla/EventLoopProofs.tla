-------------------------- MODULE EventLoopProofs ---------------------------
(***************************************************************************)
(* LoopTypeOK and KeepAliveHonoured of EventLoop, for every timeout that   *)
(* leaves room for the two seconds in its width, every number of topics    *)
(* and messages.                                                           *)
(***************************************************************************)
EXTENDS EventLoop, TLAPS

TimesOK ==
  /\ turn \in Nat /\ silence \in Nat
  /\ late \in BOOLEAN
  /\ stream \in {"open", "shut", "gone"}

\* Until the peer was late, select! has not waited longer than the peer was silent; what
\* the peer sends ends the silence, and select! waits no longer when it has arrived.
TimerBehindPeer ==
  ~late => /\ silence <= Timeout /\ turn <= Timeout
           /\ arrived = None /\ stream # "gone" => turn <= silence

IInv == TimesOK /\ TimerBehindPeer /\ KeepAliveHonoured

\* With the two seconds the timer still fits in 16 bits.
LEMMA NoWrap == KeepAlive = Timeout + 2 /\ Timeout \in Nat
<1>1. Timeout \in Nat /\ U16Max \in Nat /\ Timeout + 2 <= U16Max
  BY LoopAssumption
<1>2. \A a, b \in Nat : a < b => a % b = a
  OBVIOUS
<1> QED
  BY <1>1, <1>2 DEF KeepAlive

\* A second that passes brings the timer forward only together with the silence.
LEMMA TickStep == ASSUME IInv, Tick PROVE IInv'
<1>1. /\ turn' \in {turn, turn + 1} /\ silence' \in Nat
      /\ late' = (late \/ silence >= Timeout)
      /\ UNCHANGED <<pc, stream, arrived>>
  BY DEF IInv, TimesOK, Tick
<1>2. TimesOK'
  BY <1>1 DEF IInv, TimesOK
<1>3. TimerBehindPeer'
  <2> SUFFICES ASSUME ~late' PROVE TimerBehindPeer'
    BY DEF TimerBehindPeer
  <2>1. ~late /\ silence < Timeout
    <3>1. ~late /\ ~(silence >= Timeout)
      BY <1>1
    <3> QED
      BY <3>1, NoWrap DEF IInv, TimesOK
  <2>2. silence' = silence + 1 /\ silence' <= Timeout
    BY <2>1, NoWrap DEF Tick, IInv, TimesOK
  <2>3. CASE pc = "select"
    <3>1. arrived = None /\ stream # "gone" /\ turn' = turn + 1
      BY <2>3 DEF Tick, BranchReady
    <3>2. turn <= silence
      BY <2>1, <3>1 DEF IInv, TimerBehindPeer
    <3> QED
      BY <2>2, <3>1, <3>2, NoWrap DEF TimerBehindPeer, IInv, TimesOK
  <2>4. CASE pc # "select"
    BY <2>1, <2>2, <2>4, <1>1, NoWrap DEF Tick, TimerBehindPeer, IInv, TimesOK
  <2> QED
    BY <2>3, <2>4
<1>4. KeepAliveHonoured'
  BY <1>1 DEF IInv, KeepAliveHonoured
<1> QED
  BY <1>2, <1>3, <1>4 DEF IInv

\* What happens outside the loop stops the timer or leaves both clocks alone.
LEMMA ExternalStep == ASSUME IInv, External PROVE IInv'
<1> USE DEF IInv, TimesOK, TimerBehindPeer, KeepAliveHonoured
<1>1. CASE PeerGone
  BY <1>1 DEF PeerGone, peerVars
<1>2. ASSUME NEW k \in Kind, PeerSends(k) PROVE IInv'
  BY <1>2, NoWrap, LoopAssumption DEF PeerSends
<1>3. ASSUME NEW t \in Topic, Published(t) PROVE IInv'
  BY <1>3 DEF Published, peerVars
<1> QED
  BY <1>1, <1>2, <1>3 DEF External

\* A branch of select! or the end of a body starts the timer anew.
LEMMA LoopStep ==
  ASSUME IInv, \/ read_packet \/ disconnected \/ retry_outgoing \/ keep_alive_expired
               \/ EndOfBody \/ \E t \in Topic : receive_message(t)
  PROVE  IInv'
<1> USE DEF IInv, TimesOK, TimerBehindPeer, KeepAliveHonoured, Enter, peerVars
<1>1. CASE read_packet
  BY <1>1, NoWrap DEF read_packet
<1>2. CASE disconnected
  BY <1>2, NoWrap DEF disconnected
<1>3. CASE retry_outgoing
  BY <1>3, NoWrap DEF retry_outgoing
<1>4. CASE keep_alive_expired
  <2>1. turn >= Timeout + 2
    BY <1>4, NoWrap DEF keep_alive_expired, TimeoutDue
  <2>2. late
    BY <2>1, NoWrap
  <2> QED
    BY <1>4, <2>2 DEF keep_alive_expired
<1>5. CASE EndOfBody
  BY <1>5, NoWrap DEF EndOfBody, body_done, write_done, write_failed,
                      shutdown_stream, timeout_failed
<1>6. ASSUME NEW t \in Topic, receive_message(t) PROVE IInv'
  BY <1>6, NoWrap DEF receive_message
<1> QED
  BY <1>1, <1>2, <1>3, <1>4, <1>5, <1>6

\* A peer that keeps to the announced server_keep_alive is never timed out, whatever else
\* the connection is busy with (handle_raw_tcp_stream).
THEOREM KeepAliveIsHonoured == LoopSpec => []KeepAliveHonoured
<1>1. LoopInit => IInv
  <2> SUFFICES ASSUME LoopInit PROVE IInv
    OBVIOUS
  <2>1. turn = 0 /\ silence = 0 /\ stream = "open" /\ pc = "select" /\ late \in BOOLEAN
    BY DEF LoopInit
  <2> QED
    BY <2>1, NoWrap DEF IInv, TimesOK, TimerBehindPeer, KeepAliveHonoured
<1>2. IInv /\ [LoopNext]_vars => IInv'
  <2> SUFFICES ASSUME IInv, [LoopNext]_vars PROVE IInv'
    OBVIOUS
  <2>1. CASE UNCHANGED vars
    BY <2>1 DEF vars, IInv, TimesOK, TimerBehindPeer, KeepAliveHonoured
  <2> QED
    BY <2>1, TickStep, ExternalStep, LoopStep DEF LoopNext
<1>3. IInv => KeepAliveHonoured
  BY DEF IInv
<1> QED
  BY <1>1, <1>2, <1>3, PTL DEF LoopSpec
-----------------------------------------------------------------------------
(* LoopTypeOK. *)

\* A retry leaves a counter of 32 bits, or an empty slot (retry_outgoing).
LEMMA RetriedType ==
  ASSUME outgoing \in [Slot -> 0..CounterMax \cup {None}]
  PROVE  [s \in Slot |-> Retried(s)] \in [Slot -> 0..CounterMax \cup {None}]
<1>1. CounterMax \in Nat /\ None \notin Nat
  BY LoopAssumption
<1>2. ASSUME NEW s \in Slot PROVE Retried(s) \in 0..CounterMax \cup {None}
  <2>1. outgoing[s] = None \/ outgoing[s] \in 0..CounterMax
    OBVIOUS
  <2> QED
    BY <1>1, <2>1 DEF Retried, Count
<1> QED
  BY <1>2

\* The clock and the world outside: select! waits only until the keep-alive timer, and a
\* receiver is overrun at most once before it is read.
LEMMA OutsideType == ASSUME LoopTypeOK, External \/ Tick PROVE LoopTypeOK'
<1> USE DEF LoopTypeOK
<1>0. KeepAlive = Timeout + 2 /\ Timeout \in Nat /\ Capacity \in Nat
  BY NoWrap, LoopAssumption
<1>1. CASE PeerGone
  BY <1>1 DEF PeerGone, peerVars
<1>2. ASSUME NEW k \in Kind, PeerSends(k) PROVE LoopTypeOK'
  BY <1>0, <1>2 DEF PeerSends
<1>3. ASSUME NEW t \in Topic, Published(t) PROVE LoopTypeOK'
  <2>1. backlog[t] + 1 \in 0 .. Capacity + 1
    BY <1>0, <1>3 DEF Published
  <2>2. DOMAIN backlog' = DOMAIN backlog /\ backlog' \in [DOMAIN backlog -> 0 .. Capacity + 1]
    BY <1>3, <2>1 DEF Published
  <2> QED
    BY <1>3, <2>2 DEF Published, peerVars
<1>4. CASE Tick
  <2>1. turn' \in 0..KeepAlive
    BY <1>0, <1>4 DEF Tick, BranchReady, TimeoutDue
  <2>2. silence' \in 0 .. Timeout + 1
    BY <1>0, <1>4 DEF Tick
  <2>3. late' \in BOOLEAN
    BY <1>4 DEF Tick
  <2> QED
    BY <1>4, <2>1, <2>2, <2>3 DEF Tick
<1> QED
  BY <1>1, <1>2, <1>3, <1>4 DEF External

ReceiversOK ==
  /\ DOMAIN backlog \subseteq Topic
  /\ backlog \in [DOMAIN backlog -> 0 .. Capacity + 1]

\* The branches of select! and the ends of their bodies.
LEMMA BranchType ==
  ASSUME LoopTypeOK, \/ read_packet \/ disconnected \/ retry_outgoing \/ keep_alive_expired
                     \/ EndOfBody \/ \E t \in Topic : receive_message(t)
  PROVE  LoopTypeOK'
<1> USE DEF LoopTypeOK, Enter, peerVars
<1>0. 0 \in 0..KeepAlive /\ Capacity \in Nat
  BY NoWrap, LoopAssumption
<1>1. CASE read_packet
  <2>1. \E gone \in SUBSET Slot :
          outgoing' \in {outgoing, [s \in Slot |-> IF s \in gone THEN None ELSE outgoing[s]]}
    BY <1>1 DEF read_packet, acknowledge
  <2>2. outgoing' \in [Slot -> 0..CounterMax \cup {None}]
    BY <2>1
  <2>3. ASSUME NEW topics \in SUBSET Topic, subscribe(topics) \/ unsubscribe(topics)
        PROVE  ReceiversOK'
    BY <1>0, <2>3 DEF subscribe, unsubscribe, ReceiversOK
  <2>4. ReceiversOK'
    BY <1>1, <2>3 DEF read_packet, ReceiversOK
  <2> QED
    BY <1>0, <1>1, <2>2, <2>4 DEF read_packet, ReceiversOK
<1>2. CASE disconnected
  BY <1>0, <1>2 DEF disconnected
<1>3. CASE retry_outgoing
  BY <1>0, <1>3, RetriedType DEF retry_outgoing
<1>4. CASE keep_alive_expired
  BY <1>0, <1>4 DEF keep_alive_expired
<1>5. CASE EndOfBody
  BY <1>0, <1>5 DEF EndOfBody, body_done, write_done, write_failed,
                      shutdown_stream, timeout_failed
<1>6. ASSUME NEW t \in Topic, receive_message(t) PROVE LoopTypeOK'
  <2>1. backlog[t] \in 0 .. Capacity + 1 /\ backlog[t] > 0
    BY <1>6 DEF receive_message, Serves, Ready
  <2>2. PICK n \in {Capacity, backlog[t] - 1} : backlog' = [backlog EXCEPT ![t] = n]
    BY <1>6 DEF receive_message
  <2>3. DOMAIN backlog' = DOMAIN backlog /\ backlog' \in [DOMAIN backlog -> 0 .. Capacity + 1]
    <3>1. n \in 0 .. Capacity + 1
      BY <1>0, <2>1, <2>2
    <3>2. backlog \in [DOMAIN backlog -> 0 .. Capacity + 1]
      OBVIOUS
    <3> QED
      BY <2>2, <3>1, <3>2
  <2>4. outgoing' \in [Slot -> 0..CounterMax \cup {None}]
    BY <1>6, LoopAssumption DEF receive_message
  <2> QED
    BY <1>0, <1>6, <2>3, <2>4 DEF receive_message
<1> QED
  BY <1>1, <1>2, <1>3, <1>4, <1>5, <1>6

\* The loop of a connection keeps its types, for every timeout, counter and capacity: the
\* keep-alive timer is never overrun, since select! waits no longer than it, no retry
\* counter leaves its 32 bits, and a receiver's backlog stays within one overrun.
THEOREM LoopTypes == LoopSpec => []LoopTypeOK
<1>1. LoopInit => LoopTypeOK
  <2> SUFFICES ASSUME LoopInit PROVE LoopTypeOK
    OBVIOUS
  <2>1. 0 \in 0..KeepAlive /\ 0 \in 0 .. Capacity + 1 /\ 0 \in 0 .. Timeout + 1
    BY NoWrap, LoopAssumption
  <2> QED
    BY <2>1 DEF LoopInit, LoopTypeOK
<1>2. LoopTypeOK /\ [LoopNext]_vars => LoopTypeOK'
  <2> SUFFICES ASSUME LoopTypeOK, [LoopNext]_vars PROVE LoopTypeOK'
    OBVIOUS
  <2>1. CASE UNCHANGED vars
    BY <2>1 DEF vars, LoopTypeOK
  <2> QED
    BY <2>1, OutsideType, BranchType DEF LoopNext
<1> QED
  BY <1>1, <1>2, PTL DEF LoopSpec
=============================================================================
