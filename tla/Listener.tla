------------------------------ MODULE Listener ------------------------------
(***************************************************************************)
(* src/main.rs: the start of the broker and its accept loop, one task that *)
(* takes connections from two sockets and, with the feature secure, awaits *)
(* the TLS handshake of each before it takes the next.  Default features   *)
(* otherwise; the start of the Redis client is in Cluster.                 *)
(***************************************************************************)
EXTENDS Naturals, Sequences, SequencesExt

CONSTANTS
  Peer,      \* connection slots of the peers; a peer comes back in its slot
  Secure,    \* feature secure
  None

ASSUME ListenerAssumption == None \notin Peer /\ Secure \in BOOLEAN

VARIABLES
  websocket,   \* SETTINGS.general.websocket
  boot,        \* where main_loop is: a step of Boot, accept, or ended
  queue,       \* queue[q]: the kernel's accept queue of the listening socket q
  conn,        \* conn[p]: away, waiting (in a queue), shaking (handshake), served (task spawned)
  here,        \* here[p]: the peer has not left since it connected
  accepting    \* the peer whose handshake the accept loop awaits, or None

vars == <<websocket, boot, queue, conn, here, accepting>>

Port == {"tcp", "ws"}

\* The fallible steps of main_loop before its loop, in their order; the settings are loaded
\* lazily, when the first of them needs the port.
Boot == <<"settings", "tcp", "ws", "certs", "keys", "key", "config">>

ListenerInit ==
  /\ websocket \in BOOLEAN
  /\ boot = "settings"
  /\ queue = [q \in Port |-> <<>>]
  /\ conn = [p \in Peer |-> "away"]
  /\ here = [p \in Peer |-> FALSE]
  /\ accepting = None
-----------------------------------------------------------------------------
(* The start. *)

BootStep(b) == CHOOSE i \in DOMAIN Boot : Boot[i] = b

\* Configuration::load, the two bind calls, load_certs, load_keys, keys.remove(0) and
\* with_single_cert succeed one after the other.
boot_step ==
  /\ boot \in Range(Boot)
  /\ boot' = IF boot = "config" THEN "accept" ELSE Boot[BootStep(boot) + 1]
  /\ UNCHANGED <<websocket, queue, conn, here, accepting>>

\* One of them fails: by `?`, by the unwrap of the settings, or by remove(0) of an empty
\* list of keys.  The process ends, and with it what waits in the queues.
boot_failed ==
  /\ boot \in Range(Boot)
  /\ boot' = "ended"
  /\ queue' = [q \in Port |-> <<>>]
  /\ conn' = [p \in Peer |-> "away"]
  /\ here' = [p \in Peer |-> FALSE]
  /\ UNCHANGED <<websocket, accepting>>
-----------------------------------------------------------------------------
(* External: peers connect to a bound socket, also one nobody accepts from *)
(* yet, and leave when they like.                                          *)

Listening(q) ==
  \/ boot = "accept"
  \/ boot \in Range(Boot) /\ BootStep(boot) > BootStep(q)

PeerConnects(p, q) ==
  /\ Listening(q) /\ conn[p] = "away"
  /\ conn' = [conn EXCEPT ![p] = "waiting"]
  /\ here' = [here EXCEPT ![p] = TRUE]
  /\ queue' = [queue EXCEPT ![q] = Append(@, p)]
  /\ UNCHANGED <<websocket, boot, accepting>>

PeerLeaves(p) ==
  /\ here[p]
  /\ here' = [here EXCEPT ![p] = FALSE]
  /\ UNCHANGED <<websocket, boot, queue, conn, accepting>>

\* The task of the connection has ended (Broker); its slot is free again.
TaskEnds(p) ==
  /\ conn[p] = "served"
  /\ conn' = [conn EXCEPT ![p] = "away"]
  /\ here' = [here EXCEPT ![p] = FALSE]
  /\ UNCHANGED <<websocket, boot, queue, accepting>>
-----------------------------------------------------------------------------
(* The accept loop. *)

\* select! over both sockets, or only the TCP one although both are bound.
Polled == IF websocket THEN Port ELSE {"tcp"}

Accepts(q) == boot = "accept" /\ accepting = None /\ q \in Polled /\ queue[q] # <<>>

\* handle_new_connection up to the handshake; without TLS the task is spawned at once.
accept(q) ==
  LET p == Head(queue[q])
  IN
  /\ Accepts(q)
  /\ queue' = [queue EXCEPT ![q] = Tail(@)]
  /\ conn' = [conn EXCEPT ![p] = IF Secure THEN "shaking" ELSE "served"]
  /\ accepting' = IF Secure THEN p ELSE None
  /\ UNCHANGED <<websocket, boot, here>>

\* accept() reports a connection that was aborted in the queue: the error is only logged.
\* Other errors, such as a lack of descriptors, are logged too and leave the connection in
\* the queue: these turns of the loop change nothing.
accept_error(q) ==
  LET p == Head(queue[q])
  IN
  /\ Accepts(q) /\ ~here[p]
  /\ queue' = [queue EXCEPT ![q] = Tail(@)]
  /\ conn' = [conn EXCEPT ![p] = "away"]
  /\ UNCHANGED <<websocket, boot, here, accepting>>

\* tls_acceptor.accept() returns when the peer has done its part: the task is spawned.
handshake_done ==
  /\ accepting # None /\ here[accepting]
  /\ conn' = [conn EXCEPT ![accepting] = "served"]
  /\ accepting' = None
  /\ UNCHANGED <<websocket, boot, queue, here>>

\* Mutant: a failed handshake is returned to main_loop, which returns it.
handshake_ends_loop ==
  /\ accepting # None
  /\ boot' = "ended"
  /\ queue' = [q \in Port |-> <<>>]
  /\ conn' = [p \in Peer |-> "away"]
  /\ accepting' = None
  /\ UNCHANGED <<websocket, here>>

\* The handshake fails, because the peer left or did not speak TLS: it is only logged.
handshake_failed ==
  /\ accepting # None
  /\ conn' = [conn EXCEPT ![accepting] = "away"]
  /\ here' = [here EXCEPT ![accepting] = FALSE]
  /\ accepting' = None
  /\ UNCHANGED <<websocket, boot, queue>>
-----------------------------------------------------------------------------
ListenerNext ==
  \/ boot_step \/ boot_failed
  \/ \E p \in Peer : PeerLeaves(p) \/ TaskEnds(p) \/ \E q \in Port : PeerConnects(p, q)
  \/ \E q \in Port : accept(q) \/ accept_error(q)
  \/ handshake_done \/ handshake_failed

ListenerSpec == ListenerInit /\ [][ListenerNext]_vars

\* main_loop keeps running; select! polls its branches in random order, so a socket that
\* keeps having a connection is accepted from, as long as the process has descriptors left;
\* the handshake with a peer that has left fails.  Nothing makes a peer that stays finish
\* its handshake.
FairListener ==
  /\ ListenerSpec
  /\ WF_vars(boot_step \/ boot_failed)
  /\ \A q \in Port : SF_vars(accept(q) \/ accept_error(q))
  /\ WF_vars(accepting # None /\ ~here[accepting] /\ handshake_failed)
-----------------------------------------------------------------------------
\* The accept loop outlives whatever single peers do: a peer that waits on the TCP socket,
\* or on the WebSocket one when the settings enable it, and stays, is taken from the queue,
\* unless the handshake of one other peer that stays never ends.  Refused and broken
\* handshakes, aborted connections and peers that come back as often as they like do not
\* keep it waiting (main_loop, handle_new_connection).
AcceptContained ==
  \A p \in Peer :
    (\A r \in Peer \ {p} : []<>(accepting # r)) =>
      \A q \in Port :
        (boot = "accept" /\ (q = "ws" => websocket) /\ p \in Range(queue[q]) /\ here[p]) ~>
          (conn[p] \in {"shaking", "served"} \/ ~here[p])
=============================================================================
