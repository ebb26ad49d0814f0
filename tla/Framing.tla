------------------------------ MODULE Framing -------------------------------
(***************************************************************************)
(* From bytes to packets: handle_raw_tcp_stream reads at most 1024 bytes   *)
(* into a new zeroed buffer and handle_packet decodes one packet from it   *)
(* (src/tcp_handling.rs).  Whatever else the buffer holds is dropped with  *)
(* it; nothing is carried over to the next read.                           *)
(*                                                                         *)
(* A packet is its number; byte i of packet p is <<p, i>>, and its first   *)
(* HeaderSize bytes are the fixed header, which tells its length.          *)
(***************************************************************************)
EXTENDS Integers, Sequences

CONSTANTS
  BufSize,      \* 1024
  HeaderSize,   \* bytes of a fixed header, all of the same length here
  Sizes,        \* lengths of the packets peers send
  MaxPackets,   \* bound: packets sent
  MaxUnread     \* bound: bytes in the socket

ASSUME FramingAssumption ==
  /\ BufSize \in Nat \ {0} /\ HeaderSize \in Nat \ {0}
  /\ Sizes \subseteq {n \in Nat : n >= HeaderSize}
  /\ MaxPackets \in Nat /\ MaxUnread \in Nat

VARIABLES
  size,      \* size[p]: length of packet p, for the packets sent so far
  pipe,      \* the bytes sent and not yet read
  handled,   \* what handle_packet was given, in order: packets, or Garbled
  closed,    \* the task has ended
  aligned    \* no read has ended inside a packet so far

vars == <<size, pipe, handled, closed, aligned>>

Garbled == 0

FramingInit ==
  /\ size = <<>> /\ pipe = <<>> /\ handled = <<>>
  /\ closed = FALSE /\ aligned = TRUE

\* External: the peer sends its next packet.
send(n) ==
  LET p == Len(size) + 1
  IN
  /\ ~closed /\ p <= MaxPackets /\ Len(pipe) + n <= MaxUnread
  /\ size' = Append(size, n)
  /\ pipe' = pipe \o [i \in 1..n |-> <<p, i>>]
  /\ UNCHANGED <<handled, closed, aligned>>
-----------------------------------------------------------------------------
(* stream.read(&mut buf) and decode_mqtt. *)

\* TCP hands out any prefix of what was sent, at most a buffer full.
Prefixes == {k \in 1..BufSize : k <= Len(pipe)}

Starts(b) == b[2] = 1
Rest(k) == SubSeq(pipe, k + 1, Len(pipe))
AtBoundary(rest) == rest = <<>> \/ Starts(Head(rest))

\* Mutant: the bytes stay in the socket (peek).
TakePeeked(k) ==
  /\ pipe' = pipe
  /\ aligned' = (aligned /\ AtBoundary(Rest(k)))

\* The read removes the bytes from the socket.
TakeBytes(k) ==
  /\ pipe' = Rest(k)
  /\ aligned' = (aligned /\ AtBoundary(Rest(k)))

\* Mutant: the packet that ends the buffer is decoded.
DecodeLast(k) ==
  LET p == pipe[k][1] IN IF pipe[k][2] = size[p] /\ size[p] <= k THEN p ELSE Garbled

\* The packet at the start of the buffer, if the k bytes that were read hold all of it;
\* otherwise what decode_mqtt makes of these bytes and the zeros behind them.
Decode(k) ==
  LET p == pipe[1][1] IN IF Starts(pipe[1]) /\ size[p] <= k THEN p ELSE Garbled

\* The header was read and asks for more bytes than the buffer can hold: decode_mqtt returns
\* None.  A header that is cut reads on into the zeros and may ask for anything.
TooLong(k) == Starts(pipe[1]) /\ k >= HeaderSize /\ size[pipe[1][1]] > BufSize

\* The handler of the decoded packet goes on or ends the task (DISCONNECT, an error).
handle_packet(k) ==
  /\ ~closed /\ ~TooLong(k)
  /\ TakeBytes(k)
  /\ handled' = Append(handled, Decode(k))
  /\ closed' \in BOOLEAN
  /\ UNCHANGED size

\* The packet is too long, or the bytes do not decode: the task ends.
decode_failed(k) ==
  /\ ~closed /\ (TooLong(k) \/ Decode(k) = Garbled)
  /\ TakeBytes(k)
  /\ closed' = TRUE
  /\ UNCHANGED <<size, handled>>
-----------------------------------------------------------------------------
Read == \E k \in Prefixes : handle_packet(k) \/ decode_failed(k)

FramingNext == Read \/ \E n \in Sizes : send(n)

FramingSpec == FramingInit /\ [][FramingNext]_vars

\* The task reads what has arrived.
FairFraming == FramingSpec /\ WF_vars(Read)
-----------------------------------------------------------------------------
\* As long as every read ends where a packet ends, the handlers are given packets the peer
\* sent, in its order, each at most once, however many of them share a buffer: what is
\* dropped are whole packets, and none is put together from parts of two.
AlignedInOrder ==
  aligned =>
    /\ \A i \in DOMAIN handled : handled[i] \in 1..Len(size)
    /\ \A i, j \in DOMAIN handled : i < j => handled[i] < handled[j]

\* The packet at the front of the socket reaches its handler, unless it is cut, longer
\* than the buffer, or the connection ends: a peer that sends its next packet only after
\* the last one was read loses none.
FrontHandled ==
  \A p \in 1..MaxPackets :
    (pipe # <<>> /\ pipe[1] = <<p, 1>>) ~>
      (closed \/ ~aligned \/ \E i \in DOMAIN handled : handled[i] = p)

\* Every packet that was read as a whole is responded to: "Read packet from client and
\* decide how to respond" (handle_packet).
EveryPacketHandled ==
  aligned /\ ~closed /\ pipe = <<>> =>
    \A p \in 1..Len(size) : \E i \in DOMAIN handled : handled[i] = p
=============================================================================
